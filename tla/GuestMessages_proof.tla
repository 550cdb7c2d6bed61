------------------------ MODULE GuestMessages_proof ------------------------
(***************************************************************************)
(* The message queue implements the bounded deque of MessageDeque, for     *)
(* every capacity, any number of threads and messages, and whatever other  *)
(* kernel calls the threads and the alarm handlers make.                   *)
(*                                                                         *)
(* A blocked sender's message waits in its frame while other threads run,  *)
(* so the refinement rests on no kernel step making or changing such a     *)
(* frame; the rest is the arithmetic of the ring.                          *)
(*                                                                         *)
(* On top of the scheduler's invariant no wakeup is lost: a thread waits   *)
(* for a message, or for room, only while there is none.                   *)
(***************************************************************************)
EXTENDS GuestMessages, GuestScheduler_proof, SequenceTheorems

\* The frames that carry a message, and the ones that do not.
Carriers == {"send", "jam"}
Carries(f) == f.pc \in Carriers => f.num \in Messages
Silent(f)  == f.pc \notin Carriers

\* Every message on its way, on whatever fiber, is one that was sent.
FramesCarry == \A t \in Threads : \A i \in 1 .. Len(stack[t]) : Carries(stack[t][i])

\* The ring buffer stays within its array.
RingOK ==
    /\ first \in Nat /\ used \in 0 .. MsgCount
    /\ IF MsgCount = 0 THEN first = 0 ELSE first < MsgCount
    /\ array \in [0 .. MsgCount - 1 -> 0 .. MaxPrio + 1]
    /\ got \in [Threads -> 0 .. MaxPrio + 1]

\* The inductive invariant.
MsgInv == KInv /\ FramesCarry /\ RingOK

-----------------------------------------------------------------------------
(***************************************************************************)
(* What a stack operation does to the frames that carry messages.          *)
(***************************************************************************)

\* Frames put on top of a stack.
LEMMA PushCarries ==
    ASSUME NEW S, NEW s \in Seq(S), NEW R, NEW fs \in Seq(R),
           \A i \in 1 .. Len(s) : Carries(s[i]),
           \A i \in 1 .. Len(fs) : Carries(fs[i])
    PROVE  \A i \in 1 .. Len(fs \o s) : Carries((fs \o s)[i])
  BY DEF Carries

\* One frame taken off a stack.
LEMMA TailCarries ==
    ASSUME NEW S, NEW s \in Seq(S), s # <<>>,
           \A i \in 1 .. Len(s) : Carries(s[i])
    PROVE  /\ Tail(s) \in Seq(S)
           /\ \A i \in 1 .. Len(Tail(s)) : Carries(Tail(s)[i])
  BY DEF Carries

\* The lists of frames the kernel puts on a stack are short, and carry nothing.
SilentList(fs) ==
    \/ fs = <<>>
    \/ \E a : fs = <<a>> /\ Silent(a)
    \/ \E a, b : fs = <<a, b>> /\ Silent(a) /\ Silent(b)
    \/ \E a, b, c : fs = <<a, b, c>> /\ Silent(a) /\ Silent(b) /\ Silent(c)


\* A frame of a kernel function carries nothing.
LEMMA SilentFrames ==
    /\ \A pc : pc \notin Carriers => Silent(Frame(pc))
    /\ \A pc, t : pc \notin Carriers => Silent(On(pc, t))
    /\ \A pc, q : pc \notin Carriers => Silent(OnQ(pc, q))
    /\ \A pc, b : pc \notin Carriers => Silent(Batch(pc, b))
    /\ \A b : Silent(SelectThread(b))
    /\ \A t, p : Silent(Promote(t, p))
    /\ \A t, m : Silent(Lock(t, m))
  BY DEF Silent, Carriers, Frame, On, OnQ, Batch, SelectThread, Promote, Lock

\* A frame of the kernel that goes on in the same function carries nothing either.
LEMMA SilentEdits ==
    ASSUME NEW f \in Frames, Silent(f)
    PROVE  /\ \A b : Silent([f EXCEPT !.batch = b])
           /\ \A b : Silent([f EXCEPT !.flag = b])
           /\ \A pc : pc \notin Carriers => Silent([f EXCEPT !.pc = pc])
           /\ \A pc, t : pc \notin Carriers => Silent([f EXCEPT !.pc = pc, !.thr = t])
  BY DEF Silent, Frames

\* Lists of such frames.
LEMMA SilentLists ==
    /\ SilentList(<<>>)
    /\ \A a : Silent(a) => SilentList(<<a>>)
    /\ \A a, b : Silent(a) /\ Silent(b) => SilentList(<<a, b>>)
    /\ \A a, b, c : Silent(a) /\ Silent(b) /\ Silent(c) => SilentList(<<a, b, c>>)
  BY DEF SilentList

\* What such a list is to PushCarries.
LEMMA SilentListCarries ==
    ASSUME NEW fs, SilentList(fs)
    PROVE  \E R : fs \in Seq(R) /\ \A i \in 1 .. Len(fs) : Carries(fs[i])
  <1>1. CASE fs = <<>>
    <2>1. fs \in Seq({}) /\ Len(fs) = 0
      BY <1>1
    <2> QED
      BY <2>1
  <1>2. ASSUME NEW a, fs = <<a>>, Silent(a)
        PROVE  fs \in Seq({a}) /\ \A i \in 1 .. Len(fs) : Carries(fs[i])
    BY <1>2 DEF Silent, Carries
  <1>3. ASSUME NEW a, NEW b, fs = <<a, b>>, Silent(a), Silent(b)
        PROVE  fs \in Seq({a, b}) /\ \A i \in 1 .. Len(fs) : Carries(fs[i])
    BY <1>3 DEF Silent, Carries
  <1>4. ASSUME NEW a, NEW b, NEW c, fs = <<a, b, c>>, Silent(a), Silent(b), Silent(c)
        PROVE  fs \in Seq({a, b, c}) /\ \A i \in 1 .. Len(fs) : Carries(fs[i])
    BY <1>4 DEF Silent, Carries
  <1> QED
    BY <1>1, <1>2, <1>3, <1>4 DEF SilentList

\* A return of a kernel function keeps the messages on their way.
LEMMA ReturnCarries ==
    ASSUME stack \in Stacks, host \in Threads, FramesCarry, stack[host] # <<>>, Return
    PROVE  FramesCarry'
  <1>1. stack[host] \in Seq(GoodFrames) /\ \A i \in 1 .. Len(stack[host]) : Carries(stack[host][i])
    BY DEF Stacks, FramesCarry
  <1>2. \A i \in 1 .. Len(Tail(stack[host])) : Carries(Tail(stack[host])[i])
    BY <1>1, TailCarries
  <1>3. \A t \in Threads : stack'[t] = IF t = host THEN Tail(stack[host]) ELSE stack[t]
    BY DEF Return, Stacks
  <1> QED
    BY <1>2, <1>3 DEF FramesCarry

\* So does a continuation with frames of the kernel.
LEMMA ContinueCarries ==
    ASSUME stack \in Stacks, host \in Threads, FramesCarry, stack[host] # <<>>,
           NEW fs, SilentList(fs), Continue(fs)
    PROVE  FramesCarry'
  <1>1. stack[host] \in Seq(GoodFrames) /\ \A i \in 1 .. Len(stack[host]) : Carries(stack[host][i])
    BY DEF Stacks, FramesCarry
  <1> DEFINE rest == Tail(stack[host])
  <1>2. rest \in Seq(GoodFrames) /\ \A i \in 1 .. Len(rest) : Carries(rest[i])
    BY <1>1, TailCarries
  <1>3. PICK R : fs \in Seq(R) /\ \A i \in 1 .. Len(fs) : Carries(fs[i])
    BY SilentListCarries
  <1>4. \A i \in 1 .. Len(fs \o rest) : Carries((fs \o rest)[i])
    <2> HIDE DEF rest
    <2> QED
      BY <1>2, <1>3, PushCarries
  <1>5. \A t \in Threads : stack'[t] = IF t = host THEN fs \o rest ELSE stack[t]
    BY DEF Continue, Stacks
  <1> QED
    BY <1>4, <1>5 DEF FramesCarry

\* And a call of kernel functions.
LEMMA CallCarries ==
    ASSUME stack \in Stacks, host \in Threads, FramesCarry,
           NEW fs, SilentList(fs), Call(fs)
    PROVE  FramesCarry'
  <1>1. stack[host] \in Seq(GoodFrames) /\ \A i \in 1 .. Len(stack[host]) : Carries(stack[host][i])
    BY DEF Stacks, FramesCarry
  <1>3. PICK R : fs \in Seq(R) /\ \A i \in 1 .. Len(fs) : Carries(fs[i])
    BY SilentListCarries
  <1>4. \A i \in 1 .. Len(fs \o stack[host]) : Carries((fs \o stack[host])[i])
    BY <1>1, <1>3, PushCarries
  <1>5. \A t \in Threads : stack'[t] = IF t = host THEN fs \o stack[host] ELSE stack[t]
    BY DEF Call, Stacks
  <1> QED
    BY <1>4, <1>5 DEF FramesCarry

\* TerminateThreadCommon drops the frames of the thread that ends, with the message
\* of a send that was under way, and leaves the others.
LEMMA TerminateCarries ==
    ASSUME stack \in Stacks, host \in Threads, FramesCarry,
           NEW t, NEW fs, SilentList(fs), Terminating(t, fs)
    PROVE  FramesCarry'
  <1>1. stack[host] \in Seq(GoodFrames) /\ \A i \in 1 .. Len(stack[host]) : Carries(stack[host][i])
    BY DEF Stacks, FramesCarry
  <1>3. PICK R : fs \in Seq(R) /\ \A i \in 1 .. Len(fs) : Carries(fs[i])
    BY SilentListCarries
  <1>4. \A i \in 1 .. Len(fs \o stack[host]) : Carries((fs \o stack[host])[i])
    BY <1>1, <1>3, PushCarries
  <1>5. \A u \in Threads : stack'[u] = IF u = host THEN fs \o stack[u]
                                       ELSE IF u = t THEN <<>> ELSE stack[u]
    BY DEF Terminating
  <1>6. ASSUME NEW u \in Threads, NEW i \in 1 .. Len(stack'[u])
        PROVE  Carries(stack'[u][i])
    <2>1. CASE u = host
      BY <1>4, <1>5, <1>6, <2>1
    <2>2. CASE u # host /\ u = t
      BY <1>5, <1>6, <2>2
    <2>3. CASE u # host /\ u # t
      BY <1>5, <1>6, <2>3 DEF FramesCarry
    <2> QED
      BY <2>1, <2>2, <2>3
  <1> QED
    BY <1>6 DEF FramesCarry, Carries

\* OSCreateThread starts a thread with an empty stack.
LEMMA CreateCarries ==
    ASSUME stack \in Stacks, FramesCarry, NEW t \in Threads, stack' = [stack EXCEPT ![t] = <<>>]
    PROVE  FramesCarry'
  <1>1. \A u \in Threads : stack'[u] = IF u = t THEN <<>> ELSE stack[u]
    BY DEF Stacks
  <1> QED
    BY <1>1 DEF FramesCarry


-----------------------------------------------------------------------------
(***************************************************************************)
(* No kernel step makes or changes a frame that carries a message.         *)
(***************************************************************************)

\* The kernel functions that go on from where they are.
LEMMA KernelCarries ==
    ASSUME KInv, FramesCarry, KernelStep
    PROVE  FramesCarry'
  <1> USE DEF Carriers
  <1>0. stack \in Stacks /\ host \in Threads
    BY TypeStacks DEF KInv
  <1>t. \A pc : At(pc) => stack[host] # <<>> /\ Top \in Frames /\ Top.pc = pc
    BY <1>0, TopType
  <1>e. ASSUME NEW pc, At(pc), pc \notin Carriers
        PROVE  /\ \A b : Silent([Top EXCEPT !.batch = b])
               /\ \A b : Silent([Top EXCEPT !.flag = b])
               /\ \A p : p \notin Carriers => Silent([Top EXCEPT !.pc = p])
               /\ \A p, t : p \notin Carriers => Silent([Top EXCEPT !.pc = p, !.thr = t])
    BY <1>e, <1>t, SilentEdits DEF Silent
  <1>1. CASE FireDone
    BY <1>1, <1>0, <1>t, ReturnCarries DEF FireDone
  <1>2. CASE ScheduleReturn
    BY <1>2, <1>0, <1>t, ReturnCarries DEF ScheduleReturn
  <1>3. CASE Switched
    BY <1>3, <1>0, <1>t, ReturnCarries DEF Switched
  <1>4. CASE Slept
    BY <1>4, <1>0, <1>t, ReturnCarries DEF Slept
  <1>5. CASE Ticked
    BY <1>5, <1>0, <1>t, ReturnCarries DEF Ticked
  <1>6. CASE Joined
    BY <1>6, <1>0, <1>t, ReturnCarries DEF Joined
  <1>7. CASE WakeNoSwitchDone
    BY <1>7, <1>0, <1>t, ReturnCarries DEF WakeNoSwitchDone
  <1>8. CASE Returned
    BY <1>8, <1>0, <1>t, ReturnCarries DEF Returned
  <1>9. CASE AlarmsDone
    BY <1>9, <1>0, <1>t, ReturnCarries DEF AlarmsDone
  <1>10. CASE Undefer
    BY <1>10, <1>0, <1>t, ReturnCarries DEF Undefer
  <1>11. CASE IdleAlarms
    BY <1>11, <1>0, <1>t, ContinueCarries, SilentLists, SilentFrames DEF IdleAlarms
  <1>12. CASE IdleExit
    BY <1>12, <1>0, <1>t, ContinueCarries, SilentLists, SilentFrames DEF IdleExit
  <1>13. CASE IdlePump
    BY <1>13, <1>0, <1>t, ContinueCarries, SilentLists, SilentFrames DEF IdlePump
  <1>14. CASE ScheduleSwitch
    BY <1>14, <1>0, <1>t, ContinueCarries, SilentLists, SilentFrames DEF ScheduleSwitch
  <1>15. CASE WakeDone
    BY <1>15, <1>0, <1>t, ContinueCarries, SilentLists, SilentFrames DEF WakeDone
  <1>16. CASE Reschedule
    BY <1>16, <1>0, <1>t, ContinueCarries, SilentLists, SilentFrames DEF Reschedule
  <1>17. CASE Exited
    BY <1>17, <1>0, <1>t, ContinueCarries, SilentLists, SilentFrames DEF Exited
  <1>18. CASE AlarmTail
    BY <1>18, <1>0, <1>t, ContinueCarries, SilentLists, SilentFrames DEF AlarmTail
  <1>19. CASE Reconcile
    BY <1>19, <1>0, <1>t, ContinueCarries, SilentLists, SilentFrames DEF Reconcile
  <1>20. CASE FireTimer
    BY <1>20, <1>0, <1>t, ContinueCarries, SilentLists, SilentFrames, <1>e DEF FireTimer
  <1>21. CASE HealStrandedSleeper
    BY <1>21, <1>0, <1>t, ContinueCarries, SilentLists, SilentFrames, ReturnCarries, <1>e
    DEF HealStrandedSleeper
  <1>22. CASE SelectEnter
    BY <1>22, <1>0, <1>t, ContinueCarries, SilentLists, SilentFrames, <1>e DEF SelectEnter
  <1>23. CASE RelockMutex
    BY <1>23, <1>0, <1>t, ContinueCarries, SilentLists, SilentFrames, <1>e DEF RelockMutex
  <1>24. CASE SleepThread
    BY <1>24, <1>0, <1>t, ContinueCarries, SilentLists, SilentFrames, ReturnCarries, <1>e
    DEF SleepThread
  <1>25. CASE LockMutex
    BY <1>25, <1>0, <1>t, ContinueCarries, SilentLists, SilentFrames, ReturnCarries, <1>e
    DEF LockMutex
  <1>26. CASE PromoteThreadPriority
    BY <1>26, <1>0, <1>t, ContinueCarries, SilentLists, SilentFrames, ReturnCarries
    DEF PromoteThreadPriority
  <1>27. CASE PropagateMutexOwnerPriority
    BY <1>27, <1>0, <1>t, ContinueCarries, SilentLists, SilentFrames, ReturnCarries
    DEF PropagateMutexOwnerPriority
  <1>28. CASE SuspendThread
    BY <1>28, <1>0, <1>t, ContinueCarries, SilentLists, SilentFrames, ReturnCarries
    DEF SuspendThread
  <1>29. CASE ResumeThread
    BY <1>29, <1>0, <1>t, ContinueCarries, SilentLists, SilentFrames, ReturnCarries
    DEF ResumeThread
  <1>30. CASE ProcessAlarmQueue
    BY <1>30, <1>0, <1>t, ContinueCarries, SilentLists, SilentFrames, ReturnCarries
    DEF ProcessAlarmQueue
  <1>31. CASE UnlockAllMutex
    BY <1>31, <1>0, CallCarries, SilentLists, SilentFrames, <1>t, ReturnCarries
    DEF UnlockAllMutex
  <1>32. CASE FireAlarm
    BY <1>32, <1>0, CallCarries, SilentLists, SilentFrames DEF FireAlarm
  <1>33. CASE WakeupThread
    BY <1>33, <1>0, <1>t, ContinueCarries, SilentLists, SilentFrames, <1>e
    DEF WakeupThread, WakeOne, FramesCarry
  <1>34. CASE WakeNoSwitch
    BY <1>34, <1>0, <1>t, ContinueCarries, SilentLists, SilentFrames, <1>e
    DEF WakeNoSwitch, WakeOne, FramesCarry
  <1>35. CASE PickThread
    BY <1>35, <1>0, <1>t, ContinueCarries, SilentLists, SilentFrames, ReturnCarries
    DEF PickThread, SwitchToThread, FramesCarry
  <1> QED
    BY <1>1, <1>2, <1>3, <1>4, <1>5, <1>6, <1>7, <1>8, <1>9, <1>10, <1>11, <1>12, <1>13,
       <1>14, <1>15, <1>16, <1>17, <1>18, <1>19, <1>20, <1>21, <1>22, <1>23, <1>24, <1>25,
       <1>26, <1>27, <1>28, <1>29, <1>30, <1>31, <1>32, <1>33, <1>34, <1>35
    DEF KernelStep

\* The calls of guest code.
LEMMA GuestCarries ==
    ASSUME KInv, FramesCarry, GuestStep
    PROVE  FramesCarry'
  <1> USE DEF Carriers
  <1>0. stack \in Stacks /\ host \in Threads
    BY TypeStacks DEF KInv
  <1>1. ASSUME NEW m \in Mutexes, OSLockMutex(m)
        PROVE  FramesCarry'
    BY <1>1, <1>0, CallCarries, SilentLists, SilentFrames DEF OSLockMutex
  <1>2. ASSUME NEW m \in Mutexes, OSUnlockMutex(m)
        PROVE  FramesCarry'
    BY <1>2, <1>0, CallCarries, SilentLists, SilentFrames DEF OSUnlockMutex, FramesCarry
  <1>3. ASSUME NEW t \in Threads, OSCreateThread(t)
        PROVE  FramesCarry'
    BY <1>3, <1>0, CreateCarries DEF OSCreateThread
  <1>4. ASSUME NEW t \in Threads, OSCancelThread(t)
        PROVE  FramesCarry'
    BY <1>4, <1>0, TerminateCarries, SilentLists, SilentFrames
    DEF OSCancelThread, TerminateThread
  <1>5. ASSUME NEW t \in Threads, OSJoinThread(t)
        PROVE  FramesCarry'
    BY <1>5, <1>0, CallCarries, SilentLists, SilentFrames DEF OSJoinThread, FramesCarry
  <1>6. ASSUME NEW t \in Threads, OSDetachThread(t)
        PROVE  FramesCarry'
    BY <1>6, <1>0, CallCarries, SilentLists, SilentFrames DEF OSDetachThread
  <1>7. ASSUME NEW t \in Threads, OSSuspendThread(t)
        PROVE  FramesCarry'
    BY <1>7, <1>0, CallCarries, SilentLists, SilentFrames DEF OSSuspendThread
  <1>8. ASSUME NEW t \in Threads, OSResumeThread(t)
        PROVE  FramesCarry'
    BY <1>8, <1>0, CallCarries, SilentLists, SilentFrames DEF OSResumeThread
  <1>9. ASSUME NEW w \in WaitQueues, OSSleepThread(w)
        PROVE  FramesCarry'
    BY <1>9, <1>0, CallCarries, SilentLists, SilentFrames DEF OSSleepThread
  <1>10. ASSUME NEW w \in WaitQueues, OSWakeupThread(w)
        PROVE  FramesCarry'
    BY <1>10, <1>0, CallCarries, SilentLists, SilentFrames DEF OSWakeupThread
  <1>11. ASSUME NEW a \in Alarms, OSSetAlarm(a)
        PROVE  FramesCarry'
    BY <1>11, <1>0, CallCarries, SilentLists, SilentFrames
    DEF OSSetAlarm, SetAlarm, FramesCarry
  <1>12. ASSUME NEW a \in Alarms, OSSetPeriodicAlarm(a)
        PROVE  FramesCarry'
    BY <1>12, <1>0, CallCarries, SilentLists, SilentFrames
    DEF OSSetPeriodicAlarm, SetAlarm, FramesCarry
  <1>13. CASE OSSleepTicks
    BY <1>13, <1>0, CallCarries, SilentLists, SilentFrames DEF OSSleepTicks
  <1>14. CASE OSYieldThread
    BY <1>14, <1>0, CallCarries, SilentLists, SilentFrames DEF OSYieldThread
  <1>15. CASE OSExitThread
    BY <1>15, <1>0, TerminateCarries, SilentLists, SilentFrames
    DEF OSExitThread, TerminateThread
  <1>16. CASE ThreadReturn
    BY <1>16, <1>0, CallCarries, SilentLists, SilentFrames DEF ThreadReturn
  <1>17. CASE OSProcessAlarms
    BY <1>17, <1>0, CallCarries, SilentLists, SilentFrames DEF OSProcessAlarms
  <1>18. CASE OSProcessAlarmsDeferred
    BY <1>18, <1>0, CallCarries, SilentLists, SilentFrames DEF OSProcessAlarmsDeferred
  <1>19. CASE HandlerReturn
    BY <1>19, <1>0, ReturnCarries DEF HandlerReturn, AtHandler, At
  <1> QED
    BY <1>1, <1>2, <1>3, <1>4, <1>5, <1>6, <1>7, <1>8, <1>9, <1>10, <1>11, <1>12, <1>13,
       <1>14, <1>15, <1>16, <1>17, <1>18, <1>19
    DEF GuestStep

-----------------------------------------------------------------------------
(***************************************************************************)
(* The ring.                                                               *)
(***************************************************************************)

\* An index at most once around the ring.
LEMMA Wrap ==
    ASSUME NEW N \in Nat \ {0}, NEW a \in Nat, a < 2 * N
    PROVE  a % N = IF a < N THEN a ELSE a - N
  <1>1. CASE a < N
    BY <1>1, SMT
  <1>2. CASE N <= a
    BY <1>2, SMT
  <1> QED
    BY <1>1, <1>2

\* The slot of the i-th message of a ring whose first is in slot f: distinct
\* messages are in distinct slots.
Slot(f, i) == IF f + i - 1 < MsgCount THEN f + i - 1 ELSE f + i - 1 - MsgCount

\* The index arithmetic of os_message.cpp is this slot.
LEMMA SlotFacts ==
    ASSUME MsgCount # 0, NEW f \in 0 .. MsgCount - 1
    PROVE  /\ \A i \in 1 .. MsgCount :
                 (f + i - 1) % MsgCount = Slot(f, i) /\ Slot(f, i) \in 0 .. MsgCount - 1
           /\ \A i, j \in 1 .. MsgCount : Slot(f, i) = Slot(f, j) => i = j
  <1>0. MsgCount \in Nat \ {0}
    BY MessageConstants
  <1>1. ASSUME NEW i \in 1 .. MsgCount
        PROVE  (f + i - 1) % MsgCount = Slot(f, i)
    <2> DEFINE a == f + i - 1
    <2>1. a \in Nat /\ a < 2 * MsgCount
      BY <1>0
    <2> HIDE DEF a
    <2>2. a % MsgCount = IF a < MsgCount THEN a ELSE a - MsgCount
      BY <1>0, <2>1, Wrap
    <2>3. Slot(f, i) = IF a < MsgCount THEN a ELSE a - MsgCount
      BY <1>0 DEF a, Slot
    <2>4. a % MsgCount = Slot(f, i)
      BY <2>2, <2>3
    <2> QED
      BY <2>4 DEF a
  <1>2. \A i \in 1 .. MsgCount : Slot(f, i) \in 0 .. MsgCount - 1
    BY <1>0 DEF Slot
  <1>3. \A i, j \in 1 .. MsgCount : Slot(f, i) = Slot(f, j) => i = j
    BY <1>0 DEF Slot
  <1> QED
    BY <1>1, <1>2, <1>3

\* A function on 1 .. n is a sequence of length n.
LEMMA FunctionSequence ==
    ASSUME NEW S, NEW n \in Nat, NEW c \in [1 .. n -> S]
    PROVE  c \in Seq(S) /\ Len(c) = n
  <1>1. c \in Seq(S)
    OBVIOUS
  <1>2. DOMAIN c = 1 .. n /\ DOMAIN c = 1 .. Len(c) /\ Len(c) \in Nat
    BY <1>1
  <1>3. ASSUME Len(c) < n PROVE FALSE
    <2>1. n \in 1 .. n /\ n \notin 1 .. Len(c)
      BY <1>2, <1>3
    <2> QED
      BY <1>2, <2>1
  <1>4. ASSUME Len(c) > n PROVE FALSE
    <2>1. Len(c) \notin 1 .. n /\ Len(c) \in 1 .. Len(c)
      BY <1>2, <1>4
    <2> QED
      BY <1>2, <2>1
  <1> QED
    BY <1>1, <1>2, <1>3, <1>4

\* The messages read off a ring of u messages are a sequence of length u.
LEMMA RingSequence ==
    ASSUME NEW a \in [0 .. MsgCount - 1 -> 0 .. MaxPrio + 1],
           NEW f \in Nat, NEW u \in 0 .. MsgCount,
           MsgCount # 0 => f < MsgCount,
           NEW c, c = [i \in 1 .. u |-> a[(f + i - 1) % MsgCount]]
    PROVE  /\ c \in Seq(0 .. MaxPrio + 1) /\ Len(c) = u
           /\ \A i \in 1 .. u : c[i] = a[Slot(f, i)]
  <1>0. u \in Nat
    BY MessageConstants
  <1>1. ASSUME NEW i \in 1 .. u
        PROVE  a[(f + i - 1) % MsgCount] \in 0 .. MaxPrio + 1 /\ c[i] = a[Slot(f, i)]
    <2>1. MsgCount # 0 /\ i \in 1 .. MsgCount /\ f \in 0 .. MsgCount - 1
      BY MessageConstants
    <2>2. (f + i - 1) % MsgCount = Slot(f, i) /\ Slot(f, i) \in 0 .. MsgCount - 1
      BY <2>1, SlotFacts
    <2> QED
      BY <2>2
  <1>2. c \in [1 .. u -> 0 .. MaxPrio + 1]
    BY <1>1
  <1>3. c \in Seq(0 .. MaxPrio + 1) /\ Len(c) = u
    BY <1>0, <1>2, FunctionSequence
  <1> QED
    BY <1>1, <1>3

\* The contents of the queue are a sequence of the queue's length.
LEMMA ContentsType ==
    ASSUME RingOK
    PROVE  /\ Contents \in Seq(0 .. MaxPrio + 1) /\ Len(Contents) = used
           /\ \A i \in 1 .. used : Contents[i] = array[Slot(first, i)]
  BY RingSequence DEF RingOK, Contents

\* The same after a step.
LEMMA ContentsTypePrime ==
    ASSUME RingOK'
    PROVE  /\ Contents' \in Seq(0 .. MaxPrio + 1) /\ Len(Contents') = used'
           /\ \A i \in 1 .. used' : Contents'[i] = array'[Slot(first', i)]
  BY RingSequence DEF RingOK, Contents

\* MsgQueueEnqueue appends a message, and drops it where there is no array.
LEMMA EnqueueSends ==
    ASSUME RingOK, NEW m \in Messages, ~MsgQueueIsFull, MsgQueueEnqueue(m)
    PROVE  RingOK' /\ (Deque!Next \/ UNCHANGED <<Contents, got>>)
  <1>m. m \in 0 .. MaxPrio + 1
    BY MessageConstants
  <1>1. CASE MsgCount = 0
    BY <1>1 DEF MsgQueueEnqueue, RingOK, Contents
  <1>2. CASE MsgCount # 0
    <2>1. /\ used < MsgCount /\ used \in Nat /\ MsgCount \in Nat \ {0} /\ used + 1 \in 1 .. MsgCount
          /\ first \in 0 .. MsgCount - 1
      BY <1>2, MessageConstants DEF MsgQueueIsFull, RingOK
    <2>2. (first + used) % MsgCount = Slot(first, used + 1)
      <3>1. first + (used + 1) - 1 = first + used
        BY <2>1
      <3> QED
        BY <2>1, <3>1, SlotFacts
    <2>3. /\ array' = [array EXCEPT ![Slot(first, used + 1)] = m] /\ used' = used + 1
          /\ first' = first /\ got' = got
      BY <1>2, <2>2 DEF MsgQueueEnqueue
    <2>4. Slot(first, used + 1) \in 0 .. MsgCount - 1
      BY <2>1, SlotFacts
    <2>5. RingOK'
      BY <1>m, <2>1, <2>3, <2>4 DEF RingOK
    <2>7. /\ Contents' \in Seq(0 .. MaxPrio + 1) /\ Len(Contents') = used + 1
          /\ \A i \in 1 .. used + 1 : Contents'[i] = array'[Slot(first, i)]
      BY <2>1, <2>3, <2>5, ContentsTypePrime
    <2>8. /\ Append(Contents, m) \in Seq(0 .. MaxPrio + 1) /\ Len(Append(Contents, m)) = used + 1
          /\ \A i \in 1 .. used : Append(Contents, m)[i] = array[Slot(first, i)]
          /\ Append(Contents, m)[used + 1] = m
      BY <1>m, <2>1, ContentsType
    <2>9. ASSUME NEW i \in 1 .. used + 1
          PROVE  Contents'[i] = Append(Contents, m)[i]
      <3>1. i \in 1 .. MsgCount /\ Slot(first, i) \in 0 .. MsgCount - 1
        BY <2>1, SlotFacts
      <3>2. CASE i = used + 1
        BY <2>3, <2>4, <2>7, <2>8, <3>2 DEF RingOK
      <3>3. CASE i # used + 1
        <4>1. i \in 1 .. used /\ Slot(first, i) # Slot(first, used + 1)
          BY <2>1, <3>1, <3>3, SlotFacts
        <4> QED
          BY <2>3, <2>4, <2>7, <2>8, <3>1, <4>1 DEF RingOK
      <3> QED
        BY <3>2, <3>3
    <2>10. Contents' = Append(Contents, m)
      <3> HIDE DEF Contents
      <3> QED
        BY <2>7, <2>8, <2>9, SeqEqual
    <2>11. Len(Contents) < MsgCount
      BY <2>1, ContentsType
    <2>12. Deque!Send
      BY <2>3, <2>10, <2>11 DEF Deque!Send
    <2> QED
      BY <2>5, <2>12 DEF Deque!Next
  <1> QED
    BY <1>1, <1>2

\* MsgQueueJam puts a message in front.
LEMMA JamJams ==
    ASSUME RingOK, NEW m \in Messages, ~MsgQueueIsFull, MsgQueueJam(m)
    PROVE  RingOK' /\ (Deque!Next \/ UNCHANGED <<Contents, got>>)
  <1>m. m \in 0 .. MaxPrio + 1
    BY MessageConstants
  <1>1. CASE MsgCount = 0
    BY <1>1 DEF MsgQueueJam, RingOK, Contents
  <1>2. CASE MsgCount # 0
    <2> DEFINE slot == IF first = 0 THEN MsgCount - 1 ELSE first - 1
    <2>1. used < MsgCount /\ used \in Nat /\ MsgCount \in Nat \ {0} /\ first \in 0 .. MsgCount - 1
      BY <1>2, MessageConstants DEF MsgQueueIsFull, RingOK
    <2>2. slot \in 0 .. MsgCount - 1
      BY <2>1
    <2>3. /\ array' = [array EXCEPT ![slot] = m] /\ used' = used + 1
          /\ first' = slot /\ got' = got
      BY <1>2 DEF MsgQueueJam
    <2>4. RingOK'
      BY <1>m, <2>1, <2>2, <2>3 DEF RingOK
    <2>5. Slot(first', 1) = slot
      BY <2>1, <2>2, <2>3 DEF Slot
    <2>6. \A i \in 1 .. used : /\ Slot(first', i + 1) = Slot(first, i)
                               /\ Slot(first, i) # slot /\ Slot(first, i) \in 0 .. MsgCount - 1
      BY <2>1, <2>2, <2>3 DEF Slot
    <2>7. /\ Contents' \in Seq(0 .. MaxPrio + 1) /\ Len(Contents') = used + 1
          /\ \A i \in 1 .. used + 1 : Contents'[i] = array'[Slot(first', i)]
      BY <2>1, <2>3, <2>4, ContentsTypePrime
    <2>8. /\ <<m>> \o Contents \in Seq(0 .. MaxPrio + 1) /\ Len(<<m>> \o Contents) = used + 1
          /\ (<<m>> \o Contents)[1] = m
          /\ \A i \in 1 .. used : (<<m>> \o Contents)[i + 1] = array[Slot(first, i)]
      BY <1>m, <2>1, ContentsType
    <2>9. ASSUME NEW i \in 1 .. used + 1
          PROVE  Contents'[i] = (<<m>> \o Contents)[i]
      <3>2. CASE i = 1
        BY <2>2, <2>3, <2>5, <2>7, <2>8, <3>2 DEF RingOK
      <3>3. CASE i # 1
        <4>1. i - 1 \in 1 .. used /\ (i - 1) + 1 = i
          BY <2>1, <3>3
        <4>2. /\ Slot(first', i) = Slot(first, i - 1)
              /\ Slot(first, i - 1) # slot /\ Slot(first, i - 1) \in 0 .. MsgCount - 1
          BY <2>6, <4>1
        <4>3. Contents'[i] = array[Slot(first, i - 1)]
          BY <2>2, <2>3, <2>7, <4>2 DEF RingOK
        <4>4. (<<m>> \o Contents)[i] = array[Slot(first, i - 1)]
          BY <2>8, <4>1
        <4> QED
          BY <4>3, <4>4
      <3> QED
        BY <3>2, <3>3
    <2>10. Contents' = <<m>> \o Contents
      <3> HIDE DEF Contents
      <3> QED
        BY <2>7, <2>8, <2>9, SeqEqual
    <2>11. Len(Contents) < MsgCount
      BY <2>1, ContentsType
    <2>12. Deque!Jam
      BY <2>3, <2>10, <2>11 DEF Deque!Jam
    <2> QED
      BY <2>4, <2>12 DEF Deque!Next
  <1> QED
    BY <1>1, <1>2

\* MsgQueueDequeue hands the first message to the thread whose fiber runs.
LEMMA DequeueReceives ==
    ASSUME RingOK, host \in Threads, ~MsgQueueIsEmpty, MsgQueueDequeue
    PROVE  RingOK' /\ Deque!Next
  <1>1. used \in 1 .. MsgCount /\ MsgCount \in Nat \ {0} /\ first \in 0 .. MsgCount - 1
    BY MessageConstants DEF MsgQueueIsEmpty, RingOK
  <1>2. (first + 1) % MsgCount = IF first + 1 < MsgCount THEN first + 1 ELSE 0
    BY <1>1, Wrap
  <1>3. /\ first' = (IF first + 1 < MsgCount THEN first + 1 ELSE 0)
        /\ used' = used - 1 /\ array' = array /\ got' = [got EXCEPT ![host] = array[first]]
    BY <1>2 DEF MsgQueueDequeue
  <1>4. RingOK'
    BY <1>1, <1>3 DEF RingOK
  <1>5. \A i \in 1 .. used - 1 : Slot(first', i) = Slot(first, i + 1)
    BY <1>1, <1>3 DEF Slot
  <1>6. Slot(first, 1) = first
    BY <1>1 DEF Slot
  <1>7. /\ Contents' \in Seq(0 .. MaxPrio + 1) /\ Len(Contents') = used - 1
        /\ \A i \in 1 .. used - 1 : Contents'[i] = array[Slot(first, i + 1)]
    BY <1>1, <1>3, <1>4, <1>5, ContentsTypePrime
  <1>8. /\ Contents \in Seq(0 .. MaxPrio + 1) /\ Len(Contents) = used
        /\ \A i \in 1 .. used : Contents[i] = array[Slot(first, i)]
    BY ContentsType
  <1>9. /\ Contents # <<>> /\ Head(Contents) = array[first]
        /\ Tail(Contents) \in Seq(0 .. MaxPrio + 1) /\ Len(Tail(Contents)) = used - 1
        /\ \A i \in 1 .. used - 1 : Tail(Contents)[i] = array[Slot(first, i + 1)]
    <2> HIDE DEF Contents
    <2> QED
      BY <1>1, <1>6, <1>8
  <1>10. Contents' = Tail(Contents)
    <2> HIDE DEF Contents
    <2> QED
      BY <1>7, <1>9, SeqEqual
  <1>11. Deque!Receive(host)
    BY <1>3, <1>9, <1>10 DEF Deque!Receive
  <1> QED
    BY <1>4, <1>11 DEF Deque!Next

-----------------------------------------------------------------------------
(***************************************************************************)
(* The calls on the queue.                                                 *)
(***************************************************************************)


\* One round of MsgQueueOp's loop keeps the kernel's invariant.
LEMMA OpStep ==
    ASSUME KInv, NEW pc, At(pc), UNCHANGED otherVars,
           NEW q \in BlockQueues,
           \/ Return
           \/ Continue(<<OnQ("wake", q)>>)
           \/ Call(<<OnQ("sleep", q)>>)
    PROVE  KInv' /\ (FramesCarry => FramesCarry')
  <1>0. stack \in Stacks /\ host \in Threads /\ stack[host] # <<>>
    BY TypeStacks DEF KInv, At
  <1>1. OnQ("wake", q) \in GoodFrames /\ OnQ("sleep", q) \in GoodFrames
    BY PushedFrames
  <1>2. SilentList(<<OnQ("wake", q)>>) /\ SilentList(<<OnQ("sleep", q)>>)
    BY SilentFrames, SilentLists DEF Carriers
  <1>3. stack' \in Stacks
    BY <1>0, <1>1, FrameLists, ReturnType, ContinueType, CallType
  <1>4. KInv'
    BY <1>3, StackStep DEF otherVars
  <1>5. FramesCarry => FramesCarry'
    BY <1>0, <1>2, ReturnCarries, ContinueCarries, CallCarries
  <1> QED
    BY <1>4, <1>5

\* The queues the threads wait on.
LEMMA MessageQueues == WaitQueue("send") \in BlockQueues /\ WaitQueue("recv") \in BlockQueues
  BY MessageConstants DEF BlockQueues

\* A step on the stack of a call, or of anything but the ring, is no step of the deque.
LEMMA RingUnchanged ==
    ASSUME RingOK, UNCHANGED msgVars
    PROVE  RingOK' /\ UNCHANGED <<Contents, got>>
  BY DEF msgVars, RingOK, Contents

\* A call of guest code puts a message of Messages into its frame.
LEMMA CallStep ==
    ASSUME MsgInv, NEW op \in {"send", "jam", "recv"}, NEW msg \in 0 .. MaxPrio + 1,
           op \in Carriers => msg \in Messages, NEW block \in BOOLEAN, NEW name,
           MsgCall(name, op, msg, block)
    PROVE  MsgInv' /\ UNCHANGED <<Contents, got>>
  <1> DEFINE f == [Frame(op) EXCEPT !.num = msg, !.flag = block]
  <1>0. stack \in Stacks /\ host \in Threads
    BY TypeStacks DEF MsgInv, KInv
  <1>1. op \in PCs /\ op \notin NeedThread \cup NeedQueue \cup NeedMutex
    BY DEF PCs, NeedThread, NeedQueue, NeedMutex
  <1>2. f \in Frames /\ f.pc = op /\ f.num = msg
    <2>1. Frame(op) \in Frames /\ Frame(op).pc = op
      BY <1>1, FrameType
    <2> QED
      BY <2>1 DEF Frames
  <1> HIDE DEF f
  <1>3. f \in GoodFrames /\ Carries(f)
    BY <1>1, <1>2, GoodFrame DEF Carries
  <1>4. Call(<<f>>) /\ UNCHANGED msgVars /\ UNCHANGED otherVars
    BY DEF MsgCall, f
  <1>5. stack' \in Stacks
    BY <1>0, <1>3, <1>4, FrameLists, CallType
  <1>6. KInv'
    BY <1>4, <1>5, StackStep DEF MsgInv, otherVars
  <1>7. FramesCarry'
    <2>1. stack[host] \in Seq(GoodFrames) /\ \A i \in 1 .. Len(stack[host]) : Carries(stack[host][i])
      BY <1>0 DEF Stacks, MsgInv, FramesCarry
    <2>2. <<f>> \in Seq(GoodFrames) /\ \A i \in 1 .. Len(<<f>>) : Carries(<<f>>[i])
      BY <1>3
    <2>3. \A i \in 1 .. Len(<<f>> \o stack[host]) : Carries((<<f>> \o stack[host])[i])
      BY <2>1, <2>2, PushCarries
    <2>4. \A t \in Threads : stack'[t] = IF t = host THEN <<f>> \o stack[host] ELSE stack[t]
      BY <1>0, <1>4 DEF Call, Stacks
    <2> QED
      BY <2>3, <2>4 DEF MsgInv, FramesCarry
  <1> QED
    BY <1>4, <1>6, <1>7, RingUnchanged DEF MsgInv

\* The message a sender or a jammer puts in the ring is one of Messages, however
\* long its frame has waited.
LEMMA TopCarries ==
    ASSUME MsgInv, NEW pc \in Carriers, At(pc)
    PROVE  Top.num \in Messages
  <1>1. stack \in Stacks /\ host \in Threads
    BY TypeStacks DEF MsgInv, KInv
  <1>2. stack[host] \in Seq(GoodFrames) /\ stack[host] # <<>>
    BY <1>1 DEF Stacks, At
  <1>3. 1 \in 1 .. Len(stack[host]) /\ Head(stack[host]) = stack[host][1]
    BY <1>2
  <1> QED
    BY <1>1, <1>3 DEF MsgInv, FramesCarry, Carries, Carriers, At, Top

-----------------------------------------------------------------------------
(***************************************************************************)
(* The invariant, and the refinement.                                      *)
(***************************************************************************)

\* OSInitMessageQueue leaves an empty queue.
LEMMA MsgInitInv == MsgInit => MsgInv /\ Deque!Init
  <1> SUFFICES ASSUME MsgInit PROVE MsgInv /\ Deque!Init
    OBVIOUS
  <1>1. KInv
    BY InitInv DEF MsgInit
  <1>2. FramesCarry
    BY DEF MsgInit, Init, FramesCarry
  <1>3. RingOK
    BY MessageConstants, QueueConstants DEF MsgInit, InitMessageQueue, RingOK
  <1>4. Contents = <<>>
    <2>1. Contents \in Seq(0 .. MaxPrio + 1) /\ Len(Contents) = 0
      BY <1>3, ContentsType DEF MsgInit, InitMessageQueue
    <2> HIDE DEF Contents
    <2> QED
      BY <2>1
  <1> QED
    BY <1>1, <1>2, <1>3, <1>4 DEF MsgInv, MsgInit, InitMessageQueue, Deque!Init

\* Every step keeps the invariant, and is a step of the deque or none.
LEMMA MsgNextInv ==
    MsgInv /\ [MsgNext]_<<vars, msgVars>> => MsgInv' /\ [Deque!Next]_<<Contents, got>>
  <1> SUFFICES ASSUME MsgInv, [MsgNext]_<<vars, msgVars>>
               PROVE  MsgInv' /\ [Deque!Next]_<<Contents, got>>
    OBVIOUS
  <1>h. host \in Threads
    BY DEF MsgInv, KInv, TypeOK
  <1>1. CASE Next /\ UNCHANGED msgVars
    <2>1. KInv'
      BY <1>1, NextInv DEF MsgInv
    <2>2. FramesCarry'
      BY <1>1, KernelCarries, GuestCarries DEF MsgInv, Next
    <2> QED
      BY <1>1, <2>1, <2>2, RingUnchanged DEF MsgInv
  <1>2. CASE UNCHANGED <<vars, msgVars>>
    <2>1. KInv'
      BY <1>2, NextInv DEF MsgInv
    <2>2. FramesCarry'
      BY <1>2 DEF MsgInv, FramesCarry, vars
    <2> QED
      BY <1>2, <2>1, <2>2, RingUnchanged DEF MsgInv
  <1>3. CASE SendMessage
    <2> USE <1>3 DEF SendMessage, MsgQueueOp
    <2>1. KInv' /\ FramesCarry'
      BY OpStep, MessageQueues DEF MsgInv
    <2>2. CASE ~MsgQueueIsFull /\ MsgQueueEnqueue(Top.num)
      <3>1. Top.num \in Messages
        BY TopCarries DEF Carriers
      <3>2. RingOK' /\ (Deque!Next \/ UNCHANGED <<Contents, got>>)
        BY <2>2, <3>1, EnqueueSends DEF MsgInv
      <3> QED
        BY <2>1, <3>2 DEF MsgInv
    <2>3. CASE UNCHANGED msgVars
      BY <2>1, <2>3, RingUnchanged DEF MsgInv
    <2> QED
      BY <2>2, <2>3
  <1>4. CASE JamMessage
    <2> USE <1>4 DEF JamMessage, MsgQueueOp
    <2>1. KInv' /\ FramesCarry'
      BY OpStep, MessageQueues DEF MsgInv
    <2>2. CASE ~MsgQueueIsFull /\ MsgQueueJam(Top.num)
      <3>1. Top.num \in Messages
        BY TopCarries DEF Carriers
      <3>2. RingOK' /\ (Deque!Next \/ UNCHANGED <<Contents, got>>)
        BY <2>2, <3>1, JamJams DEF MsgInv
      <3> QED
        BY <2>1, <3>2 DEF MsgInv
    <2>3. CASE UNCHANGED msgVars
      BY <2>1, <2>3, RingUnchanged DEF MsgInv
    <2> QED
      BY <2>2, <2>3
  <1>5. CASE ReceiveMessage
    <2> USE <1>5 DEF ReceiveMessage, MsgQueueOp
    <2>1. KInv' /\ FramesCarry'
      BY OpStep, MessageQueues DEF MsgInv
    <2>2. CASE ~MsgQueueIsEmpty /\ MsgQueueDequeue
      <3>1. RingOK' /\ Deque!Next
        BY <1>h, <2>2, DequeueReceives DEF MsgInv
      <3> QED
        BY <2>1, <3>1 DEF MsgInv
    <2>3. CASE UNCHANGED msgVars
      BY <2>1, <2>3, RingUnchanged DEF MsgInv
    <2> QED
      BY <2>2, <2>3
  <1>6. ASSUME NEW msg \in Messages,
               \/ OSSendMessage(msg) \/ OSTrySendMessage(msg)
               \/ OSJamMessage(msg) \/ OSTryJamMessage(msg)
        PROVE  MsgInv' /\ UNCHANGED <<Contents, got>>
    <2>1. msg \in 0 .. MaxPrio + 1
      BY MessageConstants
    <2> QED
      BY <1>6, <2>1, CallStep
      DEF OSSendMessage, OSTrySendMessage, OSJamMessage, OSTryJamMessage
  <1>7. CASE OSReceiveMessage \/ OSTryReceiveMessage
    <2>1. 0 \in 0 .. MaxPrio + 1 /\ "recv" \notin Carriers
      BY QueueConstants DEF Carriers
    <2> QED
      BY <1>7, <2>1, CallStep DEF OSReceiveMessage, OSTryReceiveMessage
  <1> QED
    BY <1>1, <1>2, <1>3, <1>4, <1>5, <1>6, <1>7 DEF MsgNext

\* The ring buffer of os_message.cpp is a bounded deque: whatever the threads and
\* the alarm handlers do, and however long a sender sleeps with its message,
\* nothing that was sent is lost, doubled or changed, messages come out in order
\* except for the jammed ones, each goes to one receiver, and the capacity holds.
THEOREM MsgImplementsDeque == MsgSpec => ImplementsDeque
  <1>1. MsgInit => MsgInv /\ Deque!Init
    BY MsgInitInv
  <1>2. MsgInv /\ [MsgNext]_<<vars, msgVars>> => MsgInv' /\ [Deque!Next]_<<Contents, got>>
    BY MsgNextInv
  <1> QED
    BY <1>1, <1>2, PTL DEF MsgSpec, ImplementsDeque, Deque!Spec

\* The kernel under the message queue keeps what it keeps without it.
THEOREM MsgKernelSound == MsgSpec => [](TypeOK /\ MutexesConsistent /\ PendingExact)
  <1>1. MsgInv => TypeOK /\ MutexesConsistent /\ PendingExact
    BY DEF MsgInv, KInv
  <1> QED
    BY <1>1, MsgInitInv, MsgNextInv, PTL DEF MsgSpec

-----------------------------------------------------------------------------
(***************************************************************************)
(* No wakeup is lost.  A call that found the queue empty, or full, is on   *)
(* top of the stack until it has gone to sleep, so what it found is still  *)
(* so when the thread is linked on the wait queue.  This rests on the      *)
(* scheduler's invariant, which the message queue keeps as long as alarm   *)
(* handlers make no call that blocks.                                      *)
(***************************************************************************)
MsgPCs    == {"send", "jam", "recv"}
MsgQueues == {WaitQueue("send"), WaitQueue("recv")}

\* Handlers send, jam and receive without blocking.
MsgContract == GuestContract /\ HandlerCalls \cap MsgPCs = {}

\* Only the message queue's own calls sleep on its two thread queues.
OwnSleeps   == \A w \in {"send", "recv"} : ~OSSleepThread(w)
QueuesOwned == [][OwnSleeps]_vars

\* A call about to sleep on a queue of the message queue; what else the kernel pushes.
MsgSleep(f)  == f.pc = "sleep" /\ f.que \in MsgQueues
OtherFrames  == {f \in Frames : ~MsgSleep(f)}
KernelFrames == {f \in Frames : f.pc \notin MsgPCs /\ ~MsgSleep(f)}

\* A blocking call is made by a thread's own code, under which there is nothing.
Bottom(s) == \A i \in DOMAIN s : s[i].pc \in MsgPCs /\ s[i].flag => i = Len(s)
Bottoms   == \A u \in Threads : Bottom(stack[u])

\* Nobody is about to sleep, or only the fiber on the CPU, for a good reason.
AllOther  == \A u \in Threads : stack[u] \in Seq(OtherFrames)
Drowsy(s) == /\ s # <<>> /\ MsgSleep(Head(s)) /\ Tail(s) \in Seq(OtherFrames)
             /\ Head(s).que = WaitQueue("recv") => MsgQueueIsEmpty
             /\ Head(s).que = WaitQueue("send") => MsgQueueIsFull
MsgSleeps == /\ \A u \in Threads \ {host} : stack[u] \in Seq(OtherFrames)
             /\ stack[host] \in Seq(OtherFrames) \/ Drowsy(stack[host])

WakeInv == Bottoms /\ MsgSleeps /\ NoLostWakeup

\* What a step of the kernel does to the stacks.
Moves(fs) == \A u \in Threads :
    \/ stack'[u] = stack[u] \/ (u # host /\ stack'[u] = <<>>)
    \/ u = host /\ stack'[u] = fs \o stack[u]
    \/ u = host /\ stack[u] # <<>> /\ stack'[u] \in {Tail(stack[u]), fs \o Tail(stack[u])}

\* Frames that are no part of a message call.
LEMMA KernelPushed ==
    /\ Seq(PlainFrames) \subseteq Seq(KernelFrames) /\ HandlerCall \in Seq(KernelFrames)
    /\ \A f \in PlainFrames : f \in KernelFrames
    /\ \A pc \in {"idle", "idleAlarms", "alarmLoop", "undefer", "alarms", "pick", "unlockAll"} : Frame(pc) \in KernelFrames
    /\ \A t \in Threads : On("unlockAll", t) \in KernelFrames
    /\ \A q \in BlockQueues \ MsgQueues : OnQ("sleep", q) \in KernelFrames
    /\ <<>> \in Seq(KernelFrames)
    /\ \A f \in KernelFrames : <<f>> \in Seq(KernelFrames)
    /\ \A f, g \in KernelFrames : <<f, g>> \in Seq(KernelFrames)
    /\ \A f, g, h \in KernelFrames : <<f, g, h>> \in Seq(KernelFrames)
<1>1. PlainFrames \subseteq KernelFrames
  BY DEF PlainFrames, PlainPCs, KernelFrames, MsgPCs, MsgSleep
<1>2. ASSUME NEW pc \in {"idle", "idleAlarms", "alarmLoop", "undefer", "alarms", "pick", "unlockAll"}
      PROVE  pc \in PCs /\ pc \notin MsgPCs /\ pc # "sleep"
  BY DEF PCs, MsgPCs
<1>3. \A pc \in {"idle", "idleAlarms", "alarmLoop", "undefer", "alarms", "pick", "unlockAll"} : Frame(pc) \in KernelFrames
  BY <1>2, PushedPCs DEF KernelFrames, MsgSleep
<1>4. \A t \in Threads : On("unlockAll", t) \in KernelFrames
  BY <1>2, PushedPCs DEF KernelFrames, MsgSleep
<1>5. \A q \in BlockQueues \ MsgQueues : OnQ("sleep", q) \in KernelFrames
  <2>1. "sleep" \in PCs /\ "sleep" \notin MsgPCs
    BY DEF PCs, MsgPCs
  <2> QED
    BY <2>1, PushedPCs DEF KernelFrames, MsgSleep
<1>6. Seq(PlainFrames) \subseteq Seq(KernelFrames)
  BY <1>1, SeqSubset
<1>7. HandlerCall \in Seq(KernelFrames)
  <2>1. \A pc \in {"handler", "alarmTail"} : pc \in PCs /\ pc \notin MsgPCs /\ pc # "sleep"
    BY DEF PCs, MsgPCs
  <2>2. Frame("handler") \in KernelFrames /\ Frame("alarmTail") \in KernelFrames
    BY <2>1, PushedPCs DEF KernelFrames, MsgSleep
  <2> QED
    BY <2>2 DEF HandlerCall
<1> QED
  BY <1>1, <1>3, <1>4, <1>5, <1>6, <1>7

\* A step that pushes frames, or replaces the frame on top.
LEMMA MovesChange ==
    ASSUME KInv, NEW fs \in Seq(KernelFrames),
           \/ stack' = stack \/ Call(fs)
           \/ stack[host] # <<>> /\ (Return \/ Continue(fs))
    PROVE  Moves(fs)
<1>0. host \in Threads /\ stack \in [Threads -> Seq(GoodFrames)]
  BY SchedTypes
<1> QED
  BY <1>0 DEF Moves, Call, Return, Continue

\* Where the kernel's own calls wait.
LEMMA OtherQueues ==
    /\ \A m \in Mutexes : MutexQueue(m) \in BlockQueues \ MsgQueues
    /\ \A t \in Threads : JoinQueue(t) \in BlockQueues \ MsgQueues
    /\ \A w \in WaitQueues \ {"send", "recv"} : WaitQueue(w) \in BlockQueues \ MsgQueues
<1>1. \A m \in Mutexes : MutexQueue(m) \notin MsgQueues
  BY DEF MutexQueue, WaitQueue, MsgQueues
<1>2. \A t \in Threads : JoinQueue(t) \notin MsgQueues
  BY DEF JoinQueue, WaitQueue, MsgQueues
<1>3. \A w \in WaitQueues \ {"send", "recv"} : WaitQueue(w) \notin MsgQueues
  BY DEF WaitQueue, MsgQueues
<1> QED
  BY <1>1, <1>2, <1>3, QueueFacts

\* The steps of the kernel that are not plain.
LEMMA MovesSteps ==
    ASSUME KInv, OwnSleeps,
           \/ ScheduleSwitch \/ IdlePump \/ IdleAlarms \/ PickThread
           \/ ProcessAlarmQueue \/ OSProcessAlarms \/ OSProcessAlarmsDeferred \/ LockMutex
           \/ \E w \in WaitQueues : OSSleepThread(w)
           \/ \E t \in Threads : OSJoinThread(t)
    PROVE  \E fs \in Seq(KernelFrames) : Moves(fs)
<1>0. /\ host \in Threads /\ stack \in [Threads -> Seq(GoodFrames)] /\ timers \subseteq Threads
      /\ fiberThread \in Threads \cup {None} /\ running \in Threads \cup {None} /\ stack \in Stacks
      /\ owner \in [Mutexes -> Threads \cup {None}] /\ prio \in [Threads -> 0 .. MaxPrio + 1]
  BY SchedTypes, TypeStacks DEF KInv, TypeOK
<1> USE KernelPushed, PlainPushed, PlainNames
<1>1. CASE ScheduleSwitch
  <2>1. stack[host] # <<>> /\ (Continue(<<Frame("pick")>>) \/ Continue(<<Frame("idle")>>))
    BY <1>1 DEF ScheduleSwitch, At
  <2> QED
    BY <2>1, MovesChange
<1>2. CASE IdlePump
  <2>1. stack[host] # <<>> /\ \E due \in SUBSET Threads : Continue(<<Batch("fire", due), Frame("idleAlarms")>>)
    BY <1>0, <1>2 DEF IdlePump, At, TakeDue
  <2>2. \A due \in SUBSET Threads : Batch("fire", due) \in KernelFrames
    OBVIOUS
  <2> QED
    BY <2>1, <2>2, MovesChange
<1>3. CASE IdleAlarms
  <2>1. stack[host] # <<>> /\ (Continue(<<Frame("alarms"), Frame("idle")>>) \/ Continue(<<Frame("idle")>>))
    BY <1>3 DEF IdleAlarms, At
  <2> QED
    BY <2>1, MovesChange
<1>4. CASE PickThread
  <2>1. \/ stack' = stack
        \/ stack[host] # <<>> /\ (Return \/ Continue(<<On("switched", fiberThread)>>))
    BY <1>4 DEF PickThread, At, SwitchToThread
  <2>2. <<On("switched", fiberThread)>> \in Seq(KernelFrames)
    BY <1>0
  <2> QED
    BY <2>1, <2>2, MovesChange
<1>5. CASE ProcessAlarmQueue
  <2>1. stack[host] # <<>> /\ (Return \/ Continue(<<Frame("alarmLoop")>>))
    BY <1>5 DEF ProcessAlarmQueue, At
  <2> QED
    BY <2>1, MovesChange
<1>6. CASE OSProcessAlarms \/ OSProcessAlarmsDeferred
  <2>1. Call(<<Frame("alarms")>>) \/ Call(<<Frame("alarms"), Frame("undefer")>>)
    BY <1>6 DEF OSProcessAlarms, OSProcessAlarmsDeferred
  <2> QED
    BY <2>1, MovesChange
<1>7. CASE LockMutex
  <2> DEFINE t == Top.thr
             m == Top.mut
             fs == <<Promote(owner[m], prio[t]), OnQ("sleep", MutexQueue(m)), [Top EXCEPT !.pc = "relock"]>>
  <2>1. stack[host] # <<>> /\ (Return \/ Continue(fs))
    BY <1>7 DEF LockMutex, At
  <2>2. t \in Threads /\ m \in Mutexes /\ Top \in Frames
    BY <1>0, <1>7, TopType DEF LockMutex, NeedThread, NeedMutex
  <2>3. OnQ("sleep", MutexQueue(m)) \in KernelFrames
    BY <2>2, OtherQueues
  <2>4. Promote(owner[m], prio[t]) \in KernelFrames /\ [Top EXCEPT !.pc = "relock"] \in KernelFrames
    BY <1>0, <2>2
  <2>5. fs \in Seq(KernelFrames)
    BY <2>3, <2>4
  <2> HIDE DEF fs
  <2> QED
    BY <2>1, <2>5, MovesChange
<1>8. ASSUME NEW w \in WaitQueues, OSSleepThread(w)
      PROVE  \E fs \in Seq(KernelFrames) : Moves(fs)
  <2>1. w \notin {"send", "recv"} /\ Call(<<OnQ("sleep", WaitQueue(w))>>)
    BY <1>8 DEF OSSleepThread, OwnSleeps
  <2>2. OnQ("sleep", WaitQueue(w)) \in KernelFrames
    BY <2>1, OtherQueues
  <2> QED
    BY <2>1, <2>2, MovesChange
<1>9. ASSUME NEW t \in Threads, OSJoinThread(t)
      PROVE  \E fs \in Seq(KernelFrames) : Moves(fs)
  <2>1. OnQ("sleep", JoinQueue(t)) \in KernelFrames /\ On("joined", t) \in KernelFrames
    BY OtherQueues
  <2>2. stack' = stack \/ Call(<<OnQ("sleep", JoinQueue(t)), On("joined", t)>>)
    BY <1>9 DEF OSJoinThread
  <2> QED
    BY <2>1, <2>2, MovesChange
<1> QED
  BY <1>1, <1>2, <1>3, <1>4, <1>5, <1>6, <1>7, <1>8, <1>9

\* Every step of the kernel leaves the message calls on the stacks alone.
LEMMA NextMoves ==
    ASSUME KInv, SchedInv, GuestContract, OwnSleeps, Next
    PROVE  \E fs \in Seq(KernelFrames) : Moves(fs)
<1>0. host \in Threads /\ stack \in [Threads -> Seq(GoodFrames)] /\ running \in Threads \cup {None}
  BY SchedTypes
<1>1. CASE Plain
  <2>1. PICK fs \in Seq(KernelFrames) : \/ stack' = stack \/ Call(fs)
                                        \/ stack[host] # <<>> /\ (Return \/ Continue(fs))
    BY <1>1, KernelPushed DEF Plain
  <2> QED
    BY <2>1, MovesChange
<1>2. ASSUME NEW t \in Threads, NEW tail \in {"exited", "resched"}, TerminateThread(t, tail)
      PROVE  \E fs \in Seq(KernelFrames) : Moves(fs)
  <2> DEFINE fs == <<On("unlockAll", t), OnQ("wake", JoinQueue(t)), Frame(tail)>>
  <2>1. OnQ("wake", JoinQueue(t)) \in KernelFrames /\ Frame(tail) \in KernelFrames /\ On("unlockAll", t) \in KernelFrames
    BY QueueFacts, KernelPushed, PlainPushed, PlainNames
  <2>2. fs \in Seq(KernelFrames)
    BY <2>1, KernelPushed
  <2>3. stack' = [u \in Threads |-> IF u = host THEN fs \o stack[u] ELSE IF u = t THEN <<>> ELSE stack[u]]
    BY <1>2 DEF TerminateThread, Terminating
  <2> HIDE DEF fs
  <2> QED
    BY <2>2, <2>3 DEF Moves
<1>3. CASE OSExitThread
  <2>1. TerminateThread(running, "exited") /\ running \in Threads
    BY <1>0, <1>3 DEF OSExitThread
  <2> QED
    BY <1>2, <2>1
<1>4. ASSUME NEW t \in Threads, OSCancelThread(t) \/ OSCreateThread(t)
      PROVE  \E fs \in Seq(KernelFrames) : Moves(fs)
  <2>1. CASE OSCancelThread(t)
    <3>1. TerminateThread(t, "resched")
      BY <2>1 DEF OSCancelThread
    <3> QED
      BY <1>2, <3>1
  <2>2. CASE OSCreateThread(t)
    <3>1. t # host /\ stack' = [stack EXCEPT ![t] = <<>>]
      BY <2>2 DEF OSCreateThread
    <3>2. Moves(<<>>)
      BY <1>0, <3>1 DEF Moves
    <3> QED
      BY <3>2, KernelPushed
  <2> QED
    BY <1>4, <2>1, <2>2
<1>5. ~WakeNoSwitch /\ ~WakeNoSwitchDone /\ ~Returned /\ ~ThreadReturn
  BY NoReturn
<1>6. CASE KernelStep
  <2>1. \/ Plain
        \/ ScheduleSwitch \/ IdlePump \/ IdleAlarms \/ PickThread \/ ProcessAlarmQueue \/ LockMutex
    BY <1>5, <1>6, PlainKernel, PlainThread DEF KernelStep
  <2> QED
    BY <1>1, <2>1, MovesSteps
<1>7. CASE GuestStep
  <2>1. \/ Plain \/ OSProcessAlarms \/ OSProcessAlarmsDeferred \/ OSExitThread
        \/ \E w \in WaitQueues : OSSleepThread(w)
        \/ \E t \in Threads : OSJoinThread(t) \/ OSCancelThread(t) \/ OSCreateThread(t)
    BY <1>5, <1>7, PlainKernel, PlainCalls DEF GuestStep
  <2> QED
    BY <1>1, <1>3, <1>4, <2>1, MovesSteps
<1> QED
  BY <1>6, <1>7 DEF Next

\* Frames on top of a blocking call, and what is left when one is taken off.
LEMMA BottomMoves ==
    ASSUME NEW s \in Seq(Frames), Bottom(s), NEW a \in Seq(KernelFrames)
    PROVE  /\ Bottom(a \o s)
           /\ s # <<>> => Bottom(Tail(s)) /\ Bottom(a \o Tail(s))
<1>1. a \in Seq(Frames) /\ \A i \in DOMAIN a : a[i].pc \notin MsgPCs
  BY DEF KernelFrames
<1>2. ASSUME NEW r \in Seq(Frames), Bottom(r)
      PROVE  Bottom(a \o r)
  <2> DEFINE u == a \o r
  <2>1. /\ Len(u) = Len(a) + Len(r) /\ DOMAIN u = 1 .. Len(a) + Len(r) /\ Len(a) \in Nat /\ Len(r) \in Nat
        /\ \A i \in DOMAIN a : u[i] = a[i]
        /\ \A i \in 1 .. Len(a) + Len(r) : i \in DOMAIN a \/ (i > Len(a) /\ i - Len(a) \in DOMAIN r /\ u[i] = r[i - Len(a)])
    BY <1>1, Concat
  <2> HIDE DEF u
  <2>2. ASSUME NEW i \in DOMAIN u, u[i].pc \in MsgPCs, u[i].flag
        PROVE  i = Len(u)
    <3>1. i > Len(a) /\ i - Len(a) \in DOMAIN r /\ u[i] = r[i - Len(a)]
      BY <1>1, <2>1, <2>2
    <3>2. i - Len(a) = Len(r)
      BY <1>2, <2>2, <3>1 DEF Bottom
    <3> QED
      BY <2>1, <3>2
  <2> QED
    BY <2>2 DEF Bottom, u
<1>3. ASSUME s # <<>>
      PROVE  Tail(s) \in Seq(Frames) /\ Bottom(Tail(s))
  <2> DEFINE r == Tail(s)
  <2>1. /\ r \in Seq(Frames) /\ Len(s) \in Nat /\ DOMAIN r = 1 .. Len(s) - 1 /\ Len(r) = Len(s) - 1
        /\ \A i \in DOMAIN r : r[i] = s[i + 1] /\ i + 1 \in DOMAIN s
    BY <1>3, HeadTail
  <2> HIDE DEF r
  <2>2. ASSUME NEW i \in DOMAIN r, r[i].pc \in MsgPCs, r[i].flag
        PROVE  i = Len(r)
    <3>1. i + 1 = Len(s)
      BY <2>1, <2>2 DEF Bottom
    <3> QED
      BY <2>1, <3>1
  <2> QED
    BY <2>1, <2>2 DEF Bottom, r
<1> QED
  BY <1>2, <1>3

\* Frames of other calls, on top of a stack of them and taken off one.
LEMMA OtherMoves ==
    ASSUME NEW s, NEW a \in Seq(KernelFrames)
    PROVE  /\ s \in Seq(OtherFrames) => a \o s \in Seq(OtherFrames)
           /\ s \in Seq(OtherFrames) /\ s # <<>> => Tail(s) \in Seq(OtherFrames)
           /\ s \in Seq(Frames) /\ s # <<>> /\ Tail(s) \in Seq(OtherFrames) => a \o Tail(s) \in Seq(OtherFrames)
<1>1. KernelFrames \subseteq OtherFrames
  BY DEF KernelFrames, OtherFrames
<1>2. a \in Seq(OtherFrames)
  BY <1>1, SeqSubset
<1>3. \A r : r \in Seq(OtherFrames) => a \o r \in Seq(OtherFrames)
  BY <1>2
<1>4. s \in Seq(OtherFrames) /\ s # <<>> => Tail(s) \in Seq(OtherFrames)
  OBVIOUS
<1> QED
  BY <1>3, <1>4

\* A step of the kernel keeps the blocking calls at the bottom.
LEMMA MovesBottoms ==
    ASSUME KInv, Bottoms, NEW fs \in Seq(KernelFrames), Moves(fs)
    PROVE  Bottoms'
<1>1. ASSUME NEW u \in Threads
      PROVE  Bottom(stack'[u])
  <2>1. stack[u] \in Seq(Frames) /\ Bottom(stack[u]) /\ Bottom(<<>>)
    BY SchedTypes DEF Bottoms, Bottom
  <2>2. \/ stack'[u] = stack[u] \/ stack'[u] = <<>> \/ stack'[u] = fs \o stack[u]
        \/ stack[u] # <<>> /\ stack'[u] \in {Tail(stack[u]), fs \o Tail(stack[u])}
    BY DEF Moves
  <2> QED
    BY <2>1, <2>2, BottomMoves
<1> QED
  BY <1>1 DEF Bottoms, Bottom

\* It puts no call that sleeps on a queue of the message queue on a stack.
LEMMA MovesOther ==
    ASSUME KInv, AllOther, NEW fs \in Seq(KernelFrames), Moves(fs)
    PROVE  AllOther'
<1>1. ASSUME NEW u \in Threads
      PROVE  stack'[u] \in Seq(OtherFrames)
  <2>1. stack[u] \in Seq(OtherFrames) /\ <<>> \in Seq(OtherFrames)
    BY DEF AllOther
  <2>2. \/ stack'[u] = stack[u] \/ stack'[u] = <<>> \/ stack'[u] = fs \o stack[u]
        \/ stack[u] # <<>> /\ stack'[u] \in {Tail(stack[u]), fs \o Tail(stack[u])}
    BY DEF Moves
  <2> QED
    BY <2>1, <2>2, OtherMoves
<1> QED
  BY <1>1 DEF AllOther

\* Nobody is about to sleep, or the call on top is.
LEMMA WhoSleeps ==
    ASSUME KInv
    PROVE  /\ MsgSleeps => AllOther \/ (At("sleep") /\ MsgSleep(Top) /\ Drowsy(stack[host]))
           /\ AllOther => MsgSleeps
           /\ AllOther' /\ host' \in Threads => MsgSleeps'
<1>0. host \in Threads
  BY SchedTypes
<1>1. ASSUME MsgSleeps, stack[host] \in Seq(OtherFrames)
      PROVE  AllOther
  BY <1>1 DEF MsgSleeps, AllOther
<1>2. Drowsy(stack[host]) => At("sleep") /\ MsgSleep(Top)
  BY DEF Drowsy, At, Top, MsgSleep
<1>3. AllOther => MsgSleeps
  BY <1>0 DEF MsgSleeps, AllOther
<1>4. AllOther' /\ host' \in Threads => MsgSleeps'
  BY DEF MsgSleeps, AllOther
<1> QED
  BY <1>1, <1>2, <1>3, <1>4 DEF MsgSleeps

\* A call about to sleep goes to sleep.
LEMMA SleepNext ==
    ASSUME KInv, SchedInv, GuestContract, At("sleep"), Next
    PROVE  SleepThread
<1>1. ~AtGuest /\ ~At("handler")
  BY DEF AtGuest, At
<1>2. ~GuestStep
  <2>1. \A c : ~MayCall(c)
    BY <1>1 DEF MayCall, AtHandler
  <2> QED
    BY <1>1, <2>1 DEF GuestStep, OSLockMutex, OSUnlockMutex, OSCreateThread, OSCancelThread, OSJoinThread,
       OSDetachThread, OSSuspendThread, OSResumeThread, OSSleepThread, OSWakeupThread, OSSetAlarm,
       OSSetPeriodicAlarm, OSSleepTicks, OSYieldThread, OSExitThread, ThreadReturn,
       OSProcessAlarms, OSProcessAlarmsDeferred, HandlerReturn, AtHandler
<1>3. KernelStep
  BY <1>2 DEF Next
<1>4. ~WakeNoSwitch /\ ~WakeNoSwitchDone /\ ~Returned
  BY NoReturn
<1>5. ASSUME NEW pc, At(pc)
      PROVE  pc = "sleep"
  BY <1>5 DEF At
<1> QED
  BY <1>3, <1>4, <1>5 DEF KernelStep, FireTimer, FireDone, Reconcile, HealStrandedSleeper, SelectEnter,
         ScheduleReturn, ScheduleSwitch, IdlePump, IdleAlarms, IdleExit, PickThread, Switched, Reschedule, Slept,
         PropagateMutexOwnerPriority, RelockMutex, SuspendThread, ResumeThread, Ticked, Exited, Joined,
         WakeupThread, WakeOne, WakeDone, PromoteThreadPriority, LockMutex, UnlockAllMutex,
         ProcessAlarmQueue, FireAlarm, AlarmTail, AlarmsDone, Undefer

\* What SleepThread does to the stack and to the queues.
LEMMA SleepMoves ==
    ASSUME KInv, SleepThread
    PROVE  /\ \E fs \in Seq(KernelFrames) : stack'[host] \in {Tail(stack[host]), fs \o Tail(stack[host])}
           /\ \A u \in Threads \ {host} : stack'[u] = stack[u]
           /\ host' = host /\ stack[host] # <<>>
           /\ \A q \in BlockQueues \ {Top.que} : links'.seq[q] = links.seq[q]
<1>0. /\ host \in Threads /\ stack \in [Threads -> Seq(GoodFrames)] /\ stack \in Stacks
      /\ links \in Links /\ prio \in [Threads -> Nat] /\ running \in Threads \cup {None} /\ Main \in Threads
  BY SchedTypes, TypeStacks, KernelConstants DEF KInv
<1>1. At("sleep") /\ stack[host] # <<>> /\ host' = host /\ Top \in Frames /\ Top.que \in BlockQueues
  BY <1>0, TopType DEF SleepThread, At, NeedQueue
<1> DEFINE t == IF running = None THEN Main ELSE running
           g == [Top EXCEPT !.pc = "slept"]
           f == [g EXCEPT !.thr = t]
           fs == <<SelectThread(FALSE), f>>
<1>2. t \in Threads
  BY <1>0
<1>3. \/ Return /\ links' = links
      \/ Continue(fs) /\ links' = InsertThreadIntoQueueByPriority(links, prio, Top.que, t, prio[t])
  BY DEF SleepThread
<1>4. fs \in Seq(KernelFrames)
  <2>1. "slept" \in PCs /\ "slept" \notin MsgPCs /\ "slept" # "sleep" /\ "select" \notin MsgPCs /\ "select" # "sleep"
    BY DEF PCs, MsgPCs
  <2>2. g \in Frames /\ g.pc = "slept"
    BY <1>1, <2>1, With_pc
  <2> HIDE DEF g
  <2>3. f \in Frames /\ f.pc = "slept"
    BY <1>2, <2>2, With_thr
  <2> HIDE DEF f
  <2>4. f \in KernelFrames /\ SelectThread(FALSE) \in KernelFrames
    BY <2>1, <2>3, PushedPCs DEF KernelFrames, MsgSleep
  <2> QED
    BY <2>4, KernelPushed
<1>5. ASSUME NEW q \in BlockQueues \ {Top.que}
      PROVE  links'.seq[q] = links.seq[q]
  <2>1. CASE links' = links
    BY <2>1
  <2>2. CASE links' = InsertThreadIntoQueueByPriority(links, prio, Top.que, t, prio[t])
    BY <1>0, <1>1, <1>2, <2>2, QueueFacts DEF InsertThreadIntoQueueByPriority, Links
  <2> QED
    BY <1>3, <2>1, <2>2
<1> HIDE DEF fs, t, f, g
<1>6. /\ stack'[host] \in {Tail(stack[host]), fs \o Tail(stack[host])}
      /\ \A u \in Threads \ {host} : stack'[u] = stack[u]
  BY <1>0, <1>3 DEF Return, Continue
<1> QED
  BY <1>1, <1>4, <1>5, <1>6

\* A step of the kernel that neither wakes nor parks a thread links nobody on an
\* empty queue, and is not taken while a queue is being drained.
LEMMA NextQueues ==
    ASSUME KInv, SchedInv, GuestContract, Next, ~WakeupThread, ~SleepThread
    PROVE  (At("wake") => links.seq[Top.que] = <<>>) /\ Shrinks(links, links')
<1>1. CASE UnlockAllMutex
  BY <1>1 DEF UnlockAllMutex, At, Shrinks
<1>2. ASSUME OSExitThread \/ \E t \in Threads : OSCancelThread(t)
      PROVE  (At("wake") => links.seq[Top.que] = <<>>) /\ Shrinks(links, links')
  <2>1. \A c : MayCall(c) => ~At("wake")
    BY DEF MayCall, AtGuest, AtHandler, At
  <2>2. ~At("wake")
    BY <1>2, <2>1 DEF OSExitThread, OSCancelThread
  <2>3. CASE OSExitThread
    BY <2>2, <2>3 DEF OSExitThread, Shrinks
  <2>4. CASE \E t \in Threads : OSCancelThread(t)
    BY <2>2, <2>4, QueueSteps
  <2> QED
    BY <1>2, <2>3, <2>4
<1>3. ~WakeNoSwitch /\ ~WakeNoSwitchDone /\ ~Returned /\ ~ThreadReturn
  BY NoReturn
<1>4. Going \/ UnlockAllMutex \/ OSExitThread \/ \E t \in Threads : OSCancelThread(t)
  <2>1. CASE KernelStep
    BY <1>3, <2>1 DEF KernelStep, Going, Quiet
  <2>2. CASE GuestStep
    BY <1>3, <2>2 DEF GuestStep, Going, GoingCall
  <2> QED
    BY <2>1, <2>2 DEF Next
<1> QED
  BY <1>1, <1>2, <1>4, GoingQueues

\* A thread waits on q while the queue is in the way, or q is being drained.
Justified(q, blocked) == links.seq[q] # <<>> /\ ~blocked => At("wake") /\ Top.que = q

\* A step of the kernel keeps this for both queues.
LEMMA JustifiedStep ==
    ASSUME KInv, SchedInv, GuestContract, Next, NEW q \in MsgQueues, NEW blocked, Justified(q, blocked),
           At("sleep") /\ Top.que = q => blocked
    PROVE  Justified(q, blocked)'
<1>0. q \in BlockQueues
  BY MessageQueues DEF MsgQueues
<1>1. CASE WakeupThread
  <2>1. Shrinks(links, links')
    BY <1>1, QueueSteps
  <2>2. At("wake") /\ At("wake")' /\ Top'.que = Top.que
    BY <1>1, WakeupTop
  <2> QED
    BY <1>0, <2>1, <2>2 DEF Shrinks, Justified
<1>2. CASE SleepThread
  <2>1. At("sleep") /\ ~At("wake")
    BY <1>2 DEF SleepThread, At
  <2>2. q # Top.que => links'.seq[q] = links.seq[q]
    BY <1>0, <1>2, SleepMoves
  <2> QED
    BY <2>1, <2>2 DEF Justified
<1>3. CASE ~WakeupThread /\ ~SleepThread
  <2>1. (At("wake") => links.seq[Top.que] = <<>>) /\ Shrinks(links, links')
    BY <1>3, NextQueues
  <2> QED
    BY <1>0, <2>1 DEF Shrinks, Justified
<1> QED
  BY <1>1, <1>2, <1>3

\* The property by queue.
LEMMA WakeupByQueue ==
    NoLostWakeup <=> /\ Justified(WaitQueue("recv"), MsgQueueIsEmpty)
                     /\ Justified(WaitQueue("send"), MsgQueueIsFull)
BY DEF NoLostWakeup, Justified

\* The kernel keeps the invariant.
LEMMA KernelWakes ==
    ASSUME KInv, KInv', SchedInv, GuestContract, OwnSleeps, WakeInv, Next, UNCHANGED msgVars
    PROVE  WakeInv'
<1>1. PICK fs \in Seq(KernelFrames) : Moves(fs)
  BY NextMoves
<1>2. Bottoms'
  BY <1>1, MovesBottoms DEF WakeInv
<1>3. AllOther \/ (At("sleep") /\ MsgSleep(Top) /\ Drowsy(stack[host]))
  BY WhoSleeps DEF WakeInv
<1>4. host \in Threads /\ host' \in Threads /\ stack \in [Threads -> Seq(GoodFrames)]
      /\ \A u \in Threads : stack[u] \in Seq(Frames)
  <2>1. host' \in Threads
    BY DEF KInv, TypeOK
  <2> QED
    BY <2>1, SchedTypes
<1>5. MsgSleeps'
  <2>1. CASE AllOther
    BY <1>1, <1>4, <2>1, MovesOther, WhoSleeps
  <2>2. CASE At("sleep") /\ MsgSleep(Top) /\ Drowsy(stack[host])
    <3>1. SleepThread
      BY <2>2, SleepNext
    <3>2. PICK gs \in Seq(KernelFrames) :
             stack[host] # <<>> /\ stack'[host] \in {Tail(stack[host]), gs \o Tail(stack[host])}
      BY <3>1, SleepMoves
    <3>3. \A u \in Threads \ {host} : stack'[u] \in Seq(OtherFrames)
      <4>1. \A u \in Threads \ {host} : stack'[u] = stack[u] /\ stack[u] \in Seq(OtherFrames)
        BY <3>1, SleepMoves DEF WakeInv, MsgSleeps
      <4> QED
        BY <4>1
    <3>4. Tail(stack[host]) \in Seq(OtherFrames)
      BY <2>2 DEF Drowsy
    <3>5. stack'[host] \in Seq(OtherFrames)
      BY <1>4, <3>2, <3>4, OtherMoves
    <3>6. AllOther'
      BY <3>3, <3>5 DEF AllOther
    <3> QED
      BY <1>4, <3>6, WhoSleeps
  <2> QED
    BY <1>3, <2>1, <2>2
<1>6. /\ At("sleep") /\ Top.que = WaitQueue("recv") => MsgQueueIsEmpty
      /\ At("sleep") /\ Top.que = WaitQueue("send") => MsgQueueIsFull
  <2>1. CASE AllOther
    <3>1. stack[host] # <<>> => Top \in OtherFrames
      <4>1. stack[host] \in Seq(OtherFrames)
        BY <1>4, <2>1 DEF AllOther
      <4> QED
        BY <4>1 DEF Top
    <3> QED
      BY <3>1 DEF OtherFrames, MsgSleep, MsgQueues, At
  <2>2. CASE Drowsy(stack[host])
    BY <2>2 DEF Drowsy, Top
  <2> QED
    BY <1>3, <2>1, <2>2
<1>7. (MsgQueueIsEmpty' <=> MsgQueueIsEmpty) /\ (MsgQueueIsFull' <=> MsgQueueIsFull)
  BY DEF msgVars, MsgQueueIsEmpty, MsgQueueIsFull
<1>8. NoLostWakeup'
  <2> DEFINE e == MsgQueueIsEmpty
             f == MsgQueueIsFull
  <2>1. Justified(WaitQueue("recv"), e) /\ Justified(WaitQueue("send"), f)
    BY WakeupByQueue DEF WakeInv
  <2>2. WaitQueue("recv") \in MsgQueues /\ WaitQueue("send") \in MsgQueues
    BY DEF MsgQueues
  <2>3. ASSUME NEW q \in MsgQueues, NEW b, Justified(q, b), At("sleep") /\ Top.que = q => b
        PROVE  links'.seq[q] # <<>> /\ ~b => At("wake")' /\ Top'.que = q
    <3>1. Justified(q, b)'
      BY <2>3, JustifiedStep
    <3> QED
      BY <3>1 DEF Justified
  <2>4. links'.seq[WaitQueue("recv")] # <<>> /\ ~e => At("wake")' /\ Top'.que = WaitQueue("recv")
    BY <1>6, <2>1, <2>2, <2>3
  <2>5. links'.seq[WaitQueue("send")] # <<>> /\ ~f => At("wake")' /\ Top'.que = WaitQueue("send")
    BY <1>6, <2>1, <2>2, <2>3
  <2> QED
    BY <1>7, <2>4, <2>5 DEF NoLostWakeup
<1> QED
  BY <1>2, <1>5, <1>8 DEF WakeInv

\* Where the calls of the message queue may lie.
LEMMA MsgFrames ==
    ASSUME NEW op \in MsgPCs, NEW re
    PROVE  /\ op \in PCs /\ op \in Ordinary /\ op \in IdleFrames
           /\ op \notin Deferring \cup Unready \cup KeyPCs(re) \cup LeaveFrames \cup {"suspend", "pick"}
           /\ op \notin {"sleep", "wake", "handler", "slept", "ticked", "lock", "relock"}
BY DEF MsgPCs, PCs, Ordinary, IdleFrames, Deferring, Unready, KeyPCs, LeaveFrames, Common

\* A step of a message call changes nothing of the scheduler's but the stack.
LEMMA OtherCalm == UNCHANGED otherVars => Calm
BY DEF otherVars, Calm, threadVars, listVars, schedVars, fiberVars

\* A call of the message queue returns, or goes on to wake the waiters.
LEMMA OpEnds ==
    ASSUME KInv, KInv', SchedInv, WakeInv, NEW op \in MsgPCs, At(op), UNCHANGED otherVars,
           NEW q \in MsgQueues, Return \/ Continue(<<OnQ("wake", q)>>)
    PROVE  /\ SchedInv' /\ Bottoms' /\ MsgSleeps' /\ ~At("wake") /\ links' = links
           /\ Continue(<<OnQ("wake", q)>>) => At("wake")' /\ Top'.que = q
<1>0. /\ host \in Threads /\ host' = host /\ stack \in [Threads -> Seq(GoodFrames)] /\ stack[host] # <<>>
      /\ ControlOK /\ resched \in BOOLEAN /\ q \in BlockQueues /\ Calm /\ links' = links
  BY SchedTypes, MessageQueues, OtherCalm DEF SchedInv, At, Calm, MsgQueues
<1>1. /\ op \notin Deferring \cup Unready /\ op \notin KeyPCs(resched)
      /\ op # "wake" /\ op # "sleep"
  BY MsgFrames
<1>2. OnQ("wake", q) \in CommonFrames
  BY <1>0, CommonPushed
<1>3. OnQ("wake", q) \in KernelFrames
  BY <1>0, <1>2, PushedPCs, FrameArguments DEF KernelFrames, CommonFrames, MsgPCs, MsgSleep
<1>4. ControlOK'
  <2>1. <<>> \in Seq(CommonFrames) /\ <<OnQ("wake", q)>> \in Seq(CommonFrames)
    BY <1>2, CommonLists
  <2>2. UNCHANGED <<host, running, current, disable, fiberThread>> /\ resched' = resched /\ state' = state
    BY <1>0 DEF Calm
  <2> QED
    BY <1>0, <1>1, <2>1, <2>2, CommonStep
<1>5. SchedInv'
  BY <1>0, <1>4, CalmStep
<1>6. PICK fs \in Seq(KernelFrames) : Moves(fs)
  <2>1. <<>> \in Seq(KernelFrames) /\ <<OnQ("wake", q)>> \in Seq(KernelFrames)
    BY <1>3, KernelPushed
  <2> QED
    BY <1>0, <2>1, MovesChange
<1>7. AllOther
  BY <1>1, WhoSleeps DEF WakeInv, At
<1>8. Bottoms' /\ MsgSleeps'
  BY <1>0, <1>6, <1>7, MovesBottoms, MovesOther, WhoSleeps DEF WakeInv
<1>9. ASSUME Continue(<<OnQ("wake", q)>>)
      PROVE  At("wake")' /\ Top'.que = q
  <2>1. stack'[host'] = <<OnQ("wake", q)>> \o Tail(stack[host]) /\ Tail(stack[host]) \in Seq(GoodFrames)
    BY <1>0, <1>9 DEF Continue
  <2>2. stack'[host'] # <<>> /\ Head(stack'[host']) = OnQ("wake", q)
    BY <2>1, PushedTop
  <2> QED
    BY <2>2, FrameArguments DEF At, Top
<1>10. ~At("wake")
  BY <1>1 DEF At
<1> QED
  BY <1>0, <1>5, <1>8, <1>9, <1>10

\* A blocking call that finds the queue in the way sleeps: its thread is running.
LEMMA OpSleeps ==
    ASSUME KInv, KInv', SchedInv, WakeInv, NEW op \in MsgPCs, At(op), Top.flag,
           UNCHANGED otherVars, UNCHANGED msgVars,
           NEW q \in MsgQueues, Call(<<OnQ("sleep", q)>>),
           q = WaitQueue("recv") => MsgQueueIsEmpty, q = WaitQueue("send") => MsgQueueIsFull
    PROVE  SchedInv' /\ WakeInv'
<1>0. /\ host \in Threads /\ host' = host /\ stack \in [Threads -> Seq(GoodFrames)] /\ stack[host] # <<>>
      /\ stack[host] \in Seq(Frames)
      /\ ControlOK /\ resched \in BOOLEAN /\ q \in BlockQueues /\ Calm /\ links' = links
  BY SchedTypes, MessageQueues, OtherCalm DEF SchedInv, At, Calm, MsgQueues
<1> DEFINE g == OnQ("sleep", q)
           s == stack[host]
<1>1. g \in Frames /\ g.pc = "sleep" /\ g.que = q /\ g.flag = FALSE
  <2>1. "sleep" \in PCs
    BY DEF PCs
  <2> QED
    BY <1>0, <2>1, PushedPCs, FrameArguments
<1>2. Call(<<g>>)
  OBVIOUS
<1> HIDE DEF g
<1>3. Tail(s) = <<>>
  <2>1. s[1] = Top /\ 1 \in DOMAIN s /\ Bottom(s)
    BY <1>0 DEF Top, WakeInv, Bottoms
  <2>2. Len(s) = 1
    BY <2>1 DEF Bottom, At
  <2>3. s \in Seq(Frames)
    BY <1>0
  <2> HIDE DEF s
  <2> DEFINE r == Tail(s)
  <2>4. r \in Seq(Frames) /\ Len(r) = 0
    <3>1. s # <<>>
      BY <1>0 DEF s
    <3>2. Tail(s) \in Seq(Frames)
      BY <2>3, <3>1
    <3>3. Len(Tail(s)) = Len(s) - 1
      BY <2>3, <3>1
    <3> QED
      BY <2>2, <3>2, <3>3
  <2> HIDE DEF r
  <2>5. r = <<>>
    BY <2>4
  <2> QED
    BY <2>5 DEF r
<1>4. state[host] = "running" /\ running = host
  <2> DEFINE on == state[host] = "running"
  <2>1. Mode(host, running, current, on, disable, resched, s) /\ Head(s).pc = op
    BY <1>0 DEF ControlOK, HostOK, At, Top
  <2>2. op \notin Unready /\ op \notin KeyPCs(resched) /\ op \notin LeaveFrames
    BY MsgFrames
  <2>3. ~Shape(Tail(s), Unready, IdleFrames, Ordinary)
    BY <1>3 DEF Shape
  <2> HIDE DEF on, s
  <2>4. running = host /\ current = host /\ on
    BY <1>0, <2>1, <2>2, <2>3, TopMode DEF s
  <2> QED
    BY <2>4 DEF on
<1>5. Clear(s)
  BY <1>0, ClearTop, MsgFrames
<1>6. g \in MayPush(host, running, state[host] = "running")
  <2>1. "sleep" \in Ordinary
    BY DEF Ordinary, PCs, Unready, Deferring
  <2>2. g \in MayPush(host, host, TRUE)
    BY <1>0, <1>1, <2>1, RunningMayPush DEF Own
  <2> QED
    BY <1>4, <2>2
<1>7. SchedInv'
  <2>1. <<g>> \in Seq(MayPush(host, running, state[host] = "running"))
    BY <1>6
  <2>2. ControlOK'
    <3>1. UNCHANGED <<host, running, current, disable>> /\ resched' = resched /\ state' = state /\ fiberThread' = fiberThread
      BY <1>0 DEF Calm
    <3>2. fiberThread' \in {None, host}
      BY <1>0, <3>1 DEF ControlOK
    <3> QED
      BY <1>0, <1>2, <1>5, <2>1, <3>1, <3>2, Calling
  <2> QED
    BY <1>0, <2>2, CalmStep
<1>8. /\ stack'[host] = <<g>> \o s /\ \A u \in Threads \ {host} : stack'[u] = stack[u]
      /\ <<g>> \o s # <<>> /\ Head(<<g>> \o s) = g /\ Tail(<<g>> \o s) = s
  <2>1. s \in Seq(GoodFrames)
    BY <1>0
  <2>2. stack'[host] = <<g>> \o s /\ \A u \in Threads \ {host} : stack'[u] = stack[u]
    BY <1>0, <1>2 DEF Call
  <2> QED
    BY <2>1, <2>2, PushedTop
<1>9. AllOther
  BY MsgFrames, WhoSleeps DEF WakeInv, At
<1>10. Bottoms'
  <2>1. Bottom(<<g>> \o s)
    <3> HIDE DEF s
    <3> DEFINE v == <<g>> \o s
    <3>1. /\ Len(v) = Len(s) + 1 /\ DOMAIN v = 1 .. Len(s) + 1 /\ v[1] = g /\ Len(s) \in Nat
          /\ \A i \in DOMAIN v : i # 1 => i - 1 \in DOMAIN s /\ v[i] = s[i - 1]
      BY <1>0 DEF s
    <3>2. Bottom(s)
      BY <1>0 DEF WakeInv, Bottoms, s
    <3> HIDE DEF v
    <3>3. ASSUME NEW i \in DOMAIN v, v[i].pc \in MsgPCs, v[i].flag
          PROVE  i = Len(v)
      <4>1. i # 1
        BY <1>1, <3>1, <3>3
      <4>2. i - 1 = Len(s)
        BY <3>1, <3>2, <3>3, <4>1 DEF Bottom
      <4> QED
        BY <3>1, <4>2
    <3> QED
      BY <3>3 DEF Bottom, v
  <2>2. \A u \in Threads : Bottom(stack'[u])
    BY <1>8, <2>1 DEF WakeInv, Bottoms
  <2> QED
    BY <2>2 DEF Bottoms, Bottom
<1>11. MsgSleeps'
  <2>1. MsgSleep(g) /\ s \in Seq(OtherFrames)
    BY <1>0, <1>1, <1>9 DEF MsgSleep, AllOther
  <2>2. (MsgQueueIsEmpty' <=> MsgQueueIsEmpty) /\ (MsgQueueIsFull' <=> MsgQueueIsFull)
    BY DEF msgVars, MsgQueueIsEmpty, MsgQueueIsFull
  <2>3. /\ g.que = WaitQueue("recv") => MsgQueueIsEmpty'
        /\ g.que = WaitQueue("send") => MsgQueueIsFull'
    BY <1>1, <2>2
  <2>4. \A u \in Threads \ {host'} : stack'[u] \in Seq(OtherFrames)
    BY <1>0, <1>8, <1>9 DEF AllOther
  <2> HIDE DEF s
  <2>5. /\ stack'[host'] # <<>> /\ MsgSleep(Head(stack'[host'])) /\ Tail(stack'[host']) \in Seq(OtherFrames)
        /\ Head(stack'[host']) = g
    BY <1>0, <1>8, <2>1
  <2> QED
    BY <2>3, <2>4, <2>5 DEF MsgSleeps, Drowsy, MsgSleep
<1>12. NoLostWakeup'
  <2>1. ~At("wake")
    BY MsgFrames DEF At
  <2>2. used' = used
    BY DEF msgVars
  <2> QED
    BY <1>0, <2>1, <2>2 DEF WakeInv, NoLostWakeup, MsgQueueIsEmpty, MsgQueueIsFull
<1> QED
  BY <1>7, <1>10, <1>11, <1>12 DEF WakeInv

\* Guest code, or a handler that does not block, makes a call of the message queue.
LEMMA CallWakes ==
    ASSUME KInv, KInv', SchedInv, WakeInv, MsgContract, NEW op \in MsgPCs, NEW msg \in 0 .. MaxPrio + 1,
           NEW block \in BOOLEAN, NEW name, block => name \in MsgPCs, MsgCall(name, op, msg, block)
    PROVE  SchedInv' /\ WakeInv'
<1> DEFINE f == [Frame(op) EXCEPT !.num = msg, !.flag = block]
           s == stack[host]
<1>0. /\ host \in Threads /\ host' = host /\ stack \in [Threads -> Seq(GoodFrames)]
      /\ stack[host] \in Seq(Frames) /\ UNCHANGED msgVars /\ Call(<<f>>) /\ MayCall(name)
      /\ ControlOK /\ resched \in BOOLEAN /\ Calm /\ links' = links
  <2>1. UNCHANGED <<msgVars, otherVars>>
    BY DEF MsgCall
  <2>2. Calm
    BY <2>1, OtherCalm
  <2> QED
    BY <2>1, <2>2, SchedTypes DEF SchedInv, Calm, MsgCall
<1>1. f \in Frames /\ f.pc = op /\ f.flag = block
  <2>1. Frame(op) \in Frames /\ Frame(op).pc = op
    BY MsgFrames, PushedPCs
  <2> QED
    BY <2>1 DEF Frames
<1> HIDE DEF f
<1>2. AtGuest \/ At("handler")
  BY <1>0 DEF MayCall, AtHandler
<1>3. block => s = <<>>
  BY <1>0 DEF MayCall, AtGuest, MsgContract
<1>4. running = None \/ state[host] = "running"
  <2>1. "handler" \notin KeyPCs(resched) \cup LeaveFrames
    BY DEF KeyPCs, LeaveFrames, Common
  <2> QED
    BY <1>0, <1>2, <2>1, ModeOf
<1>5. f \in MayPush(host, running, state[host] = "running")
  BY <1>1, <1>4, MsgFrames DEF MayPush, Own
<1>6. Clear(s)
  BY <1>0, <1>2, ClearTop
<1>7. SchedInv'
  <2>1. <<f>> \in Seq(MayPush(host, running, state[host] = "running"))
    BY <1>5
  <2>2. ControlOK'
    <3>1. UNCHANGED <<host, running, current, disable>> /\ resched' = resched /\ state' = state /\ fiberThread' = fiberThread
      BY <1>0 DEF Calm
    <3>2. fiberThread' \in {None, host}
      BY <1>0, <3>1 DEF ControlOK
    <3> QED
      BY <1>0, <1>6, <2>1, <3>1, <3>2, Calling
  <2> QED
    BY <1>0, <2>2, CalmStep
<1>8. stack'[host] = <<f>> \o s /\ \A u \in Threads \ {host} : stack'[u] = stack[u]
  BY <1>0 DEF Call
<1>9. AllOther
  BY <1>2, WhoSleeps DEF WakeInv, At, AtGuest
<1>10. Bottoms'
  <2>1. Bottom(<<f>> \o s)
    <3> DEFINE v == <<f>> \o s
    <3>1. /\ Len(v) = Len(s) + 1 /\ DOMAIN v = 1 .. Len(s) + 1 /\ v[1] = f /\ Len(s) \in Nat
          /\ \A i \in DOMAIN v : i # 1 => i - 1 \in DOMAIN s /\ v[i] = s[i - 1]
      BY <1>0
    <3>2. Bottom(s) /\ (block => Len(s) = 0)
      BY <1>0, <1>3 DEF WakeInv, Bottoms
    <3> HIDE DEF v, s
    <3>3. ASSUME NEW i \in DOMAIN v, v[i].pc \in MsgPCs, v[i].flag
          PROVE  i = Len(v)
      <4>1. CASE i = 1
        BY <1>1, <3>1, <3>2, <3>3, <4>1
      <4>2. CASE i # 1
        <5>1. i - 1 = Len(s)
          BY <3>1, <3>2, <3>3, <4>2 DEF Bottom
        <5> QED
          BY <3>1, <5>1
      <4> QED
        BY <4>1, <4>2
    <3> QED
      BY <3>3 DEF Bottom, v
  <2>2. \A u \in Threads : Bottom(stack'[u])
    BY <1>8, <2>1 DEF WakeInv, Bottoms
  <2> QED
    BY <2>2 DEF Bottoms, Bottom
<1>11. MsgSleeps'
  <2>1. f \in OtherFrames
    BY <1>1, MsgFrames DEF OtherFrames, MsgSleep
  <2>2. s \in Seq(OtherFrames)
    BY <1>0, <1>9 DEF AllOther
  <2>3. <<f>> \o s \in Seq(OtherFrames)
    <3> HIDE DEF s
    <3> QED
      BY <2>1, <2>2
  <2>4. \A u \in Threads : stack'[u] \in Seq(OtherFrames)
    BY <1>8, <1>9, <2>3 DEF AllOther
  <2>5. AllOther'
    BY <2>4 DEF AllOther
  <2> QED
    BY <1>0, <2>5, WhoSleeps
<1>12. NoLostWakeup'
  <2>1. ~At("wake")
    BY <1>2 DEF At, AtGuest
  <2>2. used' = used
    BY <1>0 DEF msgVars
  <2> QED
    BY <1>0, <2>1, <2>2 DEF WakeInv, NoLostWakeup, MsgQueueIsEmpty, MsgQueueIsFull
<1> QED
  BY <1>7, <1>10, <1>11, <1>12 DEF WakeInv

\* A call of the message queue that is under way keeps the invariant.
LEMMA OpWakes ==
    ASSUME MsgInv, KInv', SchedInv, WakeInv, SendMessage \/ JamMessage \/ ReceiveMessage
    PROVE  SchedInv' /\ WakeInv'
<1>0. KInv /\ NoLostWakeup /\ used \in Nat
  BY MessageConstants DEF MsgInv, WakeInv, RingOK
<1>1. WaitQueue("send") \in MsgQueues /\ WaitQueue("recv") \in MsgQueues
  BY DEF MsgQueues
<1>2. WaitQueue("send") # WaitQueue("recv")
  BY DEF WaitQueue
<1>3. ASSUME NEW op \in MsgPCs, At(op), UNCHANGED otherVars, UNCHANGED msgVars, Return
      PROVE  SchedInv' /\ WakeInv'
  <2>1. SchedInv' /\ Bottoms' /\ MsgSleeps' /\ ~At("wake") /\ links' = links
    BY <1>0, <1>1, <1>3, OpEnds
  <2>2. used' = used
    BY <1>3 DEF msgVars
  <2>3. NoLostWakeup'
    BY <1>0, <2>1, <2>2 DEF NoLostWakeup, MsgQueueIsEmpty, MsgQueueIsFull
  <2> QED
    BY <2>1, <2>3 DEF WakeInv
<1>4. ASSUME SendMessage \/ JamMessage
      PROVE  SchedInv' /\ WakeInv'
  <2>1. PICK op \in MsgPCs :
          /\ At(op) /\ UNCHANGED otherVars
          /\ \/ ~MsgQueueIsFull /\ Continue(<<OnQ("wake", WaitQueue("recv"))>>)
             \/ Return /\ UNCHANGED msgVars
             \/ /\ MsgQueueIsFull /\ Top.flag /\ UNCHANGED msgVars
                /\ Call(<<OnQ("sleep", WaitQueue("send"))>>)
    BY <1>4 DEF SendMessage, JamMessage, MsgQueueOp, MsgPCs
  <2>2. CASE ~MsgQueueIsFull /\ Continue(<<OnQ("wake", WaitQueue("recv"))>>)
    <3>1. /\ SchedInv' /\ Bottoms' /\ MsgSleeps' /\ ~At("wake") /\ links' = links
          /\ At("wake")' /\ Top'.que = WaitQueue("recv")
      BY <1>0, <1>1, <2>1, <2>2, OpEnds
    <3>2. links.seq[WaitQueue("send")] = <<>>
      BY <1>0, <2>2, <3>1 DEF NoLostWakeup
    <3>3. NoLostWakeup'
      BY <3>1, <3>2 DEF NoLostWakeup
    <3> QED
      BY <3>1, <3>3 DEF WakeInv
  <2>3. CASE /\ MsgQueueIsFull /\ Top.flag /\ UNCHANGED msgVars
             /\ Call(<<OnQ("sleep", WaitQueue("send"))>>)
    BY <1>0, <1>1, <1>2, <2>1, <2>3, OpSleeps
  <2> QED
    BY <1>3, <2>1, <2>2, <2>3
<1>5. ASSUME ReceiveMessage
      PROVE  SchedInv' /\ WakeInv'
  <2>1. /\ At("recv") /\ UNCHANGED otherVars /\ "recv" \in MsgPCs
        /\ \/ ~MsgQueueIsEmpty /\ Continue(<<OnQ("wake", WaitQueue("send"))>>)
           \/ Return /\ UNCHANGED msgVars
           \/ /\ MsgQueueIsEmpty /\ Top.flag /\ UNCHANGED msgVars
              /\ Call(<<OnQ("sleep", WaitQueue("recv"))>>)
    BY <1>5 DEF ReceiveMessage, MsgQueueOp, MsgPCs
  <2>2. CASE ~MsgQueueIsEmpty /\ Continue(<<OnQ("wake", WaitQueue("send"))>>)
    <3>1. /\ SchedInv' /\ Bottoms' /\ MsgSleeps' /\ ~At("wake") /\ links' = links
          /\ At("wake")' /\ Top'.que = WaitQueue("send")
      BY <1>0, <1>1, <2>1, <2>2, OpEnds
    <3>2. links.seq[WaitQueue("recv")] = <<>>
      BY <1>0, <2>2, <3>1 DEF NoLostWakeup
    <3>3. NoLostWakeup'
      BY <3>1, <3>2 DEF NoLostWakeup
    <3> QED
      BY <3>1, <3>3 DEF WakeInv
  <2>3. CASE /\ MsgQueueIsEmpty /\ Top.flag /\ UNCHANGED msgVars
             /\ Call(<<OnQ("sleep", WaitQueue("recv"))>>)
    BY <1>0, <1>1, <1>2, <2>1, <2>3, OpSleeps
  <2> QED
    BY <1>3, <2>1, <2>2, <2>3
<1> QED
  BY <1>4, <1>5

\* Every step keeps the scheduler's invariant and this one.
LEMMA NextWakes ==
    MsgContract /\ MsgInv /\ MsgInv' /\ SchedInv /\ WakeInv /\ [MsgNext]_<<vars, msgVars>>
      /\ [FreshCreate]_vars /\ [OwnSleeps]_vars => SchedInv' /\ WakeInv'
<1> SUFFICES ASSUME MsgContract, MsgInv, MsgInv', SchedInv, WakeInv, [MsgNext]_<<vars, msgVars>>,
                    [FreshCreate]_vars, [OwnSleeps]_vars
             PROVE  SchedInv' /\ WakeInv'
  OBVIOUS
<1>0. KInv /\ KInv' /\ GuestContract
  BY DEF MsgInv, MsgContract
<1>1. CASE UNCHANGED vars /\ UNCHANGED msgVars
  <2>1. SchedInv'
    BY <1>0, <1>1, NextSched
  <2>2. UNCHANGED <<stack, host, links, used>>
    BY <1>1 DEF vars, msgVars
  <2>3. Bottoms' /\ MsgSleeps'
    BY <2>2 DEF WakeInv, Bottoms, Bottom, MsgSleeps, Drowsy, MsgSleep, MsgQueueIsEmpty, MsgQueueIsFull
  <2>4. NoLostWakeup'
    BY <2>2 DEF WakeInv, NoLostWakeup, At, Top, MsgQueueIsEmpty, MsgQueueIsFull
  <2> QED
    BY <2>1, <2>3, <2>4 DEF WakeInv
<1>2. CASE Next /\ UNCHANGED msgVars /\ ~UNCHANGED vars
  <2>1. OwnSleeps
    BY <1>2
  <2>2. SchedInv'
    BY <1>0, <1>2, NextSched
  <2>3. WakeInv'
    BY <1>0, <1>2, <2>1, KernelWakes
  <2> QED
    BY <2>2, <2>3
<1>3. CASE SendMessage \/ JamMessage \/ ReceiveMessage
  BY <1>0, <1>3, OpWakes
<1>4. ASSUME NEW msg \in Messages,
             \/ OSSendMessage(msg) \/ OSTrySendMessage(msg)
             \/ OSJamMessage(msg) \/ OSTryJamMessage(msg)
      PROVE  SchedInv' /\ WakeInv'
  <2>1. msg \in 0 .. MaxPrio + 1 /\ "send" \in MsgPCs /\ "jam" \in MsgPCs
    BY MessageConstants DEF MsgPCs
  <2> QED
    BY <1>0, <1>4, <2>1, CallWakes
    DEF OSSendMessage, OSTrySendMessage, OSJamMessage, OSTryJamMessage
<1>5. CASE OSReceiveMessage \/ OSTryReceiveMessage
  <2>1. 0 \in 0 .. MaxPrio + 1 /\ "recv" \in MsgPCs
    BY QueueConstants DEF MsgPCs
  <2> QED
    BY <1>0, <1>5, <2>1, CallWakes DEF OSReceiveMessage, OSTryReceiveMessage
<1> QED
  BY <1>1, <1>2, <1>3, <1>4, <1>5 DEF MsgNext

\* It holds when the queue is initialised.
LEMMA InitWakes == MsgInit => SchedInv /\ WakeInv
<1> SUFFICES ASSUME MsgInit PROVE SchedInv /\ WakeInv
  OBVIOUS
<1>1. Init /\ MsgQueueIsEmpty
  BY DEF MsgInit, InitMessageQueue, MsgQueueIsEmpty
<1>2. SchedInv
  BY <1>1, InitSched
<1>3. (\A u \in Threads : stack[u] = <<>>) /\ host \in Threads
  BY <1>1, KernelConstants DEF Init
<1>4. Bottoms /\ MsgSleeps
  <2>1. <<>> \in Seq(OtherFrames) /\ Bottom(<<>>)
    BY DEF Bottom
  <2> QED
    BY <1>3, <2>1 DEF Bottoms, MsgSleeps
<1>5. \A q \in BlockQueues : links.seq[q] = <<>>
  BY <1>1, QueueFacts DEF Init, EmptyLinks
<1>6. NoLostWakeup
  BY <1>1, <1>5, MessageQueues DEF NoLostWakeup
<1> QED
  BY <1>2, <1>4, <1>6 DEF WakeInv

\* The invariant of the scheduler and of the message queue on top of it.
LEMMA MsgInvariance ==
    MsgContract => (MsgSpec /\ CreatesFresh /\ QueuesOwned => [](MsgInv /\ SchedInv /\ WakeInv))
<1> SUFFICES ASSUME MsgContract
             PROVE  MsgSpec /\ CreatesFresh /\ QueuesOwned => [](MsgInv /\ SchedInv /\ WakeInv)
  OBVIOUS
<1> DEFINE All == MsgInv /\ SchedInv /\ WakeInv
<1>1. MsgInit => All
  BY MsgInitInv, InitWakes
<1>2. All /\ [MsgNext]_<<vars, msgVars>> /\ [FreshCreate]_vars /\ [OwnSleeps]_vars => All'
  BY MsgNextInv, NextWakes
<1> HIDE DEF All
<1>3. MsgSpec /\ CreatesFresh /\ QueuesOwned => []All
  BY <1>1, <1>2, PTL DEF MsgSpec, CreatesFresh, QueuesOwned
<1> QED
  BY <1>3 DEF All

\* No wakeup is lost: for every capacity, any number of threads and any guest
\* that keeps the contract and leaves the queue's two wait queues to it, a thread
\* waits in OSReceiveMessage only while there is no message, and in OSSendMessage
\* or OSJamMessage only while there is no room, unless MsgQueueOp is waking it.
THEOREM NoWakeupLost ==
    MsgContract => (MsgSpec /\ CreatesFresh /\ QueuesOwned => []NoLostWakeup)
<1> SUFFICES ASSUME MsgContract PROVE MsgSpec /\ CreatesFresh /\ QueuesOwned => []NoLostWakeup
  OBVIOUS
<1>1. MsgInv /\ SchedInv /\ WakeInv => NoLostWakeup
  BY DEF WakeInv
<1> QED
  BY <1>1, MsgInvariance, PTL

\* The scheduler under the message queue keeps what it keeps without it, although
\* the calls of os_message.cpp block in a loop of their own: guest code runs as the
\* thread the kernel believes is running, and every thread is on the queue its
\* state says and on no other.
THEOREM MsgSchedulerSound ==
    MsgContract => (MsgSpec /\ CreatesFresh /\ QueuesOwned =>
                      [](GuestRunsAsItself /\ QueuesSound /\ QueuedByState))
<1> SUFFICES ASSUME MsgContract
             PROVE  MsgSpec /\ CreatesFresh /\ QueuesOwned =>
                      [](GuestRunsAsItself /\ QueuesSound /\ QueuedByState)
  OBVIOUS
<1>1. MsgInv /\ SchedInv /\ WakeInv => GuestRunsAsItself /\ QueuesSound /\ QueuedByState
  BY GuestMode, PlacedSound DEF MsgInv
<1> QED
  BY <1>1, MsgInvariance, PTL
=============================================================================
