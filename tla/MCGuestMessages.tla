-------------------------- MODULE MCGuestMessages --------------------------
(***************************************************************************)
(* A small instance of GuestMessages for TLC: the default thread and two   *)
(* others exchange messages over one queue.                                *)
(***************************************************************************)
EXTENDS GuestMessages, TLC

CONSTANTS A, B

\* The default thread is the most urgent one, as a game whose threads return
\* from their entry functions needs it to be.
MainHigh == [t \in Threads |-> IF t = Main THEN 0 ELSE IF t = A THEN 1 ELSE 2]

Mailing == (Main :> {"create", "resume", "send", "tryJam", "recv", "setAlarm"})
             @@ (A :> {"recv", "send", "pump", "return"})
             @@ (B :> {"tryRecv", "recv", "jam", "join"})
=============================================================================
