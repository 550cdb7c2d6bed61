--------------------------- MODULE MCGuestKernel ---------------------------
(***************************************************************************)
(* Small instances of GuestKernel for TLC: the default thread and two      *)
(* others, and the kernel calls each of them makes in each run.            *)
(***************************************************************************)
EXTENDS GuestKernel, TLC

CONSTANTS A, B

Everyone(calls) == [t \in Threads |-> calls]

\* Main is the least urgent thread, or between the others.
PrioOf(main, a, b) == [t \in Threads |-> IF t = Main THEN main ELSE IF t = A THEN a ELSE b]

MainLow  == PrioOf(2, 0, 1)
MainMid  == PrioOf(1, 0, 2)

MutexCalls  == (Main :> {"create", "resume", "cancel", "lock", "unlock"})
                 @@ (A :> {"lock", "unlock", "join"})
                 @@ (B :> {"lock", "unlock", "suspend", "resume"})
LifeCalls   == Everyone({"create", "resume", "suspend", "exit", "cancel", "cancelSelf",
                         "join", "detach", "yield", "sleep", "wakeup"})
Naps        == [t \in Threads |-> IF t = Main THEN {"create", "resume", "sleepTicks", "wakeup"}
                                  ELSE {"resume", "sleepTicks", "sleep", "return"}]
AlarmCalls  == (Main :> {"create", "resume", "setAlarm", "setPeriodicAlarm",
                         "pumpDeferred", "pump", "sleep"})
                 @@ (A :> {"sleepTicks", "setAlarm", "pumpDeferred", "pump", "sleep"})
                 @@ (B :> {"suspend", "resume", "wakeup", "pump", "sleep"})
=============================================================================
