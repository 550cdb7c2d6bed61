------------------------------ MODULE MCAudio ------------------------------
(* Symmetry of the aux buffers is not used: liveness is checked.            *)
EXTENDS AxMixer
=============================================================================
