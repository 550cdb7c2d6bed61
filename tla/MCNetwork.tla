----------------------------- MODULE MCNetwork -----------------------------
(***************************************************************************)
(* NetworkDeferred on small instances.                                     *)
(*                                                                         *)
(* network.cfg: one thread that blocks and is cancelled and recreated on   *)
(* the same stack, one slot and one host descriptor, which two successive  *)
(* sockets share, two calls; safety and liveness.                          *)
(* ssl.cfg: two slots, two host descriptors, a session and one call.       *)
(***************************************************************************)
EXTENDS NetworkDeferred
=============================================================================
