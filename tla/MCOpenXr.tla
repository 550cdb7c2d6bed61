------------------------------ MODULE MCOpenXr ------------------------------
(* Bounds for OpenXrPresent.  Between two jobs the frame worker alone can    *)
(* still refer to a token, so that one of two is always fresh.              *)
EXTENDS OpenXrPresent

MCTokens == 1..2
MCTags == {"race", "menu"}
MCImmersive == {"race"}
=============================================================================
