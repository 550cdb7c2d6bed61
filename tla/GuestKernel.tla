---------------------------- MODULE GuestKernel ----------------------------
(***************************************************************************)
(* The guest thread kernel of the runtime: the scheduler, the mutexes, the *)
(* thread life cycle, the sleep timers, the alarm pump and the host fibers *)
(* (runtime/src/hle/os/os_scheduler.cpp, os_thread.cpp, os_sleep.cpp,      *)
(* os_alarm.cpp and runtime/src/fiber_manager.cpp).                        *)
(*                                                                         *)
(* All guest code runs on one host thread.  Every guest thread has a host  *)
(* fiber, and control moves between fibers only inside SelectThread, so    *)
(* the interleavings are those of kernel calls that are suspended half way *)
(* through: OSLockMutex asleep in its retry loop, a batch of due timers of *)
(* which the first resumed a more urgent thread, OSExitThread switched     *)
(* away while it still has joiners to wake.  The model therefore gives     *)
(* each fiber the stack of the kernel functions active on it: the frame on *)
(* top of the stack of the fiber `host' says what runs next, a call pushes *)
(* frames, a return pops one, and a loop iteration or the code between two *)
(* calls is one step.                                                      *)
(***************************************************************************)
EXTENDS GuestQueues

CONSTANTS
    Main,          \* the default thread; the scheduler's own fiber is its fiber
    Idle,          \* kIdleThreadContextAddr, the context of the idle loop
    Alarms,        \* the OSAlarm structures of the guest program
    InitPrio,      \* the priority each thread is created with
    InitDetached,  \* the threads created with the detached attribute
    ThreadCalls,   \* the kernel calls the code of each guest thread makes
    HandlerCalls,  \* the kernel calls alarm handlers make
    MaxSuspend,    \* bound on the suspend counts guest code builds up
    MaxLocks,      \* bound on the recursive locks of a mutex
    MaxScanDepth   \* bound on the stack depth at which the reconciler runs

ASSUME KernelConstants ==
    /\ Main \in Threads
    /\ Idle \notin Threads /\ Idle # None
    /\ InitPrio \in [Threads -> Prios]
    /\ InitDetached \subseteq Threads
    /\ MaxSuspend \in Nat /\ MaxLocks \in Nat /\ MaxScanDepth \in Nat

VARIABLES
    state, suspend, prio, base,   \* OSThread: state, suspend count, priorities
    detached,                     \* OSThread: the attribute's detach bit
    waitMutex,                    \* OSThread: the mutex the thread blocks on
    owned,                        \* OSThread: the list of mutexes it holds
    threadList,                   \* the global thread list (as a set)
    links,                        \* all thread queues and the pending mask
    resched,                      \* kSchedulerReschedCounterAddr # 0
    disable,                      \* OSDisableScheduler nesting count
    running, current,             \* OS running and current context
    owner, count,                 \* OSMutex: owner and lock count
    fiber,                        \* fiber manager: none, live or terminated
    fiberThread,                  \* fiber manager: s_currentGuestThread
    host,                         \* the thread whose fiber is on the CPU
    stack,                        \* kernel frames of each fiber, top first
    timers, parks, seen,          \* gSleepTimers, gOutstandingParks, strandFirstSeen
    armed, periodic, alarmDepth,  \* the alarm queue, its periodic alarms, g_alarmProcessDepth
    held                          \* history: suspensions guest code asked for and not undone

threadVars == <<state, suspend, prio, base, detached, waitMutex, owned>>
schedVars  == <<resched, disable, running, current>>
mutexVars  == <<owner, count>>
fiberVars  == <<fiber, fiberThread>>
timerVars  == <<timers, parks, seen>>
alarmVars  == <<armed, periodic, alarmDepth>>
listVars   == <<threadList, held>>

vars == <<state, suspend, prio, base, detached, waitMutex, owned, threadList,
          links, resched, disable, running, current, owner, count, fiber,
          fiberThread, host, stack, timers, parks, seen, armed, periodic,
          alarmDepth, held>>

-----------------------------------------------------------------------------
(***************************************************************************)
(* Thread states and frames.                                               *)
(***************************************************************************)
States == {"dead", "ready", "running", "waiting", "moribund"}

\* ThreadStateIsTerminated.
ThreadStateIsTerminated(s) == s \in {"dead", "moribund"}

\* What SelectThread and OSWakeupThread refuse to run.
Terminated(t) == ThreadStateIsTerminated(state[t]) \/ fiber[t] = "terminated"

PCs == {"select", "schedule", "idle", "idleAlarms", "pick", "switched",
        "wake", "wakeNoSwitch", "lock", "relock", "promote", "propagate",
        "sleep", "slept", "suspend", "resume", "resched", "ticked", "fire",
        "heal", "unlockAll", "exited", "joined", "returned", "alarms",
        "alarmLoop", "handler", "alarmTail", "undefer", "send", "jam", "recv"}

Frames == [pc   : PCs,                       \* the function, and where it is in it
           thr  : Threads \cup {None},       \* the thread it is about
           que  : BlockQueues \cup {None},   \* the queue it works on
           mut  : Mutexes \cup {None},       \* the mutex it takes
           num  : 0 .. MaxPrio + 1,          \* a priority, or a message
           batch : SUBSET Threads,           \* the threads a loop has still to do
           flag : BOOLEAN]                   \* force switch, woke a thread, may block

Frame(pc) == [pc |-> pc, thr |-> None, que |-> None, mut |-> None, num |-> 0,
              batch |-> {}, flag |-> FALSE]

Promote(t, p)     == [Frame("promote") EXCEPT !.thr = t, !.num = p]
On(pc, t)         == [Frame(pc) EXCEPT !.thr = t]
OnQ(pc, q)        == [Frame(pc) EXCEPT !.que = q]
Batch(pc, B)      == [Frame(pc) EXCEPT !.batch = B]
SelectThread(f)   == [Frame("select") EXCEPT !.flag = f]

Top == Head(stack[host])

At(pc) == stack[host] # <<>> /\ Top.pc = pc

\* The frame on top returns, is followed by the frames fs, or calls fs.
Return       == stack' = [stack EXCEPT ![host] = Tail(@)]
Continue(fs) == stack' = [stack EXCEPT ![host] = fs \o Tail(@)]
Call(fs)     == stack' = [stack EXCEPT ![host] = fs \o @]

\* Guest code is executing: the thread's own, or an alarm handler's.
AtGuest   == stack[host] = <<>>
AtHandler == At("handler")

MayCall(c) == \/ AtGuest /\ c \in ThreadCalls[host]
              \/ AtHandler /\ c \in HandlerCalls

-----------------------------------------------------------------------------
(***************************************************************************)
(* The sleep timers (os_sleep.cpp).  Wall-clock time is abstracted: any    *)
(* set of armed timers may be due whenever the pump looks.                 *)
(***************************************************************************)

\* The head of ProcessSleepTimers: take the due timers out of the table.
TakeDue(due) == due \subseteq timers /\ timers' = timers \ due

\* Mutant: a timer whose thread has further suspensions is armed again.
FireTimerRearms ==
    /\ At("fire")
    /\ \E t \in Top.batch :
         LET rest == [Top EXCEPT !.batch = @ \ {t}]
         IN  IF state[t] = "ready" /\ suspend[t] >= 1
             THEN /\ timers' = IF suspend[t] > 1 THEN timers \cup {t} ELSE timers
                  /\ Continue(<<On("resume", t), rest>>)
             ELSE /\ Continue(<<rest>>)
                  /\ UNCHANGED timers
    /\ UNCHANGED <<threadVars, listVars, links, schedVars, mutexVars, fiberVars,
                   host, parks, seen, alarmVars>>

\* One due timer.  A running thread is in the middle of parking: its timer is
\* armed again.  A thread that is not parked has woken already: the timer is
\* dropped.  Otherwise the thread is resumed.
FireTimer ==
    /\ At("fire")
    /\ \E t \in Top.batch :
         LET rest == [Top EXCEPT !.batch = @ \ {t}]
         IN  \/ /\ state[t] = "running"
                /\ timers' = timers \cup {t}
                /\ Continue(<<rest>>)
                /\ UNCHANGED parks
             \/ /\ state[t] # "running"
                /\ state[t] # "ready" \/ suspend[t] < 1
                /\ parks' = parks \ {t}
                /\ Continue(<<rest>>)
                /\ UNCHANGED timers
             \/ /\ state[t] = "ready" /\ suspend[t] >= 1
                /\ parks' = parks \ {t}
                /\ Continue(<<On("resume", t), rest>>)
                /\ UNCHANGED timers
    /\ UNCHANGED <<threadVars, listVars, links, schedVars, mutexVars, fiberVars,
                   host, seen, alarmVars>>

\* A thread parked by OSSleepTicks that no timer will wake.
Stranded(t) == /\ t \notin timers /\ fiber[t] # "terminated"
               /\ state[t] = "ready" /\ suspend[t] >= 1

\* The end of ProcessSleepTimers when it is not this caller's turn to scan.
FireDone ==
    /\ At("fire") /\ Top.batch = {}
    /\ Return
    /\ UNCHANGED <<threadVars, listVars, links, schedVars, mutexVars, fiberVars,
                   host, timerVars, alarmVars>>

\* Mutant: stranded threads are noted and never healed.
ReconcileNeverHeals ==
    /\ At("fire") /\ Top.batch = {}
    /\ parks \cup seen # {} /\ Len(stack[host]) <= MaxScanDepth
    /\ seen' = {t \in parks : Stranded(t)}
    /\ parks' = (parks \cap timers) \cup seen'
    /\ Continue(<<Batch("heal", {})>>)
    /\ UNCHANGED <<threadVars, listVars, links, schedVars, mutexVars, fiberVars,
                   host, timers, alarmVars>>

\* The stranded-sleeper reconciler: forget parks that are over, note stranded
\* threads seen for the first time, heal those seen long enough ago (100 ms).
Reconcile ==
    /\ At("fire") /\ Top.batch = {}
    /\ parks \cup seen # {} /\ Len(stack[host]) <= MaxScanDepth
    /\ LET lost == {t \in parks : Stranded(t)}
       IN  \E heal \in SUBSET (lost \cap seen) :
             /\ seen' = lost \ heal
             /\ parks' = ((parks \cap timers) \cup lost) \ heal
             /\ Continue(<<Batch("heal", heal)>>)
    /\ UNCHANGED <<threadVars, listVars, links, schedVars, mutexVars, fiberVars,
                   host, timers, alarmVars>>

\* Mutant: the list of threads to heal is not consumed.
HealForever ==
    /\ At("heal")
    /\ \/ Top.batch = {} /\ Return
       \/ \E t \in Top.batch : Call(<<On("resume", t)>>)
    /\ UNCHANGED <<threadVars, listVars, links, schedVars, mutexVars, fiberVars,
                   host, timerVars, alarmVars>>

\* Resume the threads to heal one by one, outside the reconciler's lock.
HealStrandedSleeper ==
    /\ At("heal")
    /\ \/ /\ Top.batch = {}
          /\ Return
       \/ \E t \in Top.batch :
            Continue(<<On("resume", t), [Top EXCEPT !.batch = @ \ {t}]>>)
    /\ UNCHANGED <<threadVars, listVars, links, schedVars, mutexVars, fiberVars,
                   host, timerVars, alarmVars>>

-----------------------------------------------------------------------------
(***************************************************************************)
(* SelectThread (os_scheduler.cpp).                                        *)
(***************************************************************************)

\* Entry: the sleep timers are processed before anything is read.
SelectEnter ==
    /\ At("select")
    /\ \E due \in SUBSET timers :
         /\ TakeDue(due)
         /\ Continue(<<Batch("fire", due), [Top EXCEPT !.pc = "schedule"]>>)
    /\ UNCHANGED <<threadVars, listVars, links, schedVars, mutexVars, fiberVars,
                   host, parks, seen, alarmVars>>

\* Mutant: the priorities are compared one level off.
KeepsRunningLonger ==
    /\ running # None /\ state[running] = "running" /\ ~Top.flag
    /\ prio[running] <= MostUrgent(links.pending) + 1

\* The running thread keeps the CPU: nothing pending is more urgent.
KeepsRunning == /\ running # None /\ state[running] = "running" /\ ~Top.flag
                /\ prio[running] <= MostUrgent(links.pending)

\* The conditions under which SelectThread returns before it changes anything.
CannotSwitch == disable >= 1 \/ current # running \/ running = None

ScheduleReturn ==
    /\ At("schedule")
    /\ CannotSwitch \/ KeepsRunning
    /\ Return
    /\ UNCHANGED <<threadVars, listVars, links, schedVars, mutexVars, fiberVars,
                   host, timerVars, alarmVars>>

\* A running thread goes to the tail of its run queue; with nothing pending
\* the idle loop is entered, with the idle context current.
ScheduleSwitch ==
    /\ At("schedule")
    /\ ~CannotSwitch /\ ~KeepsRunning
    /\ \/ /\ state[running] = "running"
          /\ state' = [state EXCEPT ![running] = "ready"]
          /\ links' = LinkThreadOnRunQueue(links, running, prio[running])
          /\ resched' = TRUE
          /\ Continue(<<Frame("pick")>>)
          /\ UNCHANGED <<running, current>>
       \/ /\ state[running] # "running" /\ links.pending # {}
          /\ Continue(<<Frame("pick")>>)
          /\ UNCHANGED <<state, links, resched, running, current>>
       \/ /\ state[running] # "running" /\ links.pending = {}
          /\ running' = None
          /\ current' = Idle
          /\ Continue(<<Frame("idle")>>)
          /\ UNCHANGED <<state, links, resched>>
    /\ UNCHANGED <<suspend, prio, base, detached, waitMutex, owned, listVars,
                   disable, mutexVars, fiberVars, host, timerVars, alarmVars>>

\* One round of the idle loop: sleep timers, then, unless something became
\* runnable, the alarm queue.
IdlePump ==
    /\ At("idle") /\ links.pending = {}
    /\ \E due \in SUBSET timers :
         /\ TakeDue(due)
         /\ Continue(<<Batch("fire", due), Frame("idleAlarms")>>)
    /\ UNCHANGED <<threadVars, listVars, links, schedVars, mutexVars, fiberVars,
                   host, parks, seen, alarmVars>>

IdleAlarms ==
    /\ At("idleAlarms")
    /\ Continue(IF links.pending = {} THEN <<Frame("alarms"), Frame("idle")>>
                                      ELSE <<Frame("idle")>>)
    /\ UNCHANGED <<threadVars, listVars, links, schedVars, mutexVars, fiberVars,
                   host, timerVars, alarmVars>>

IdleExit ==
    /\ At("idle") /\ links.pending # {}
    /\ Continue(<<Frame("pick")>>)
    /\ UNCHANGED <<threadVars, listVars, links, schedVars, mutexVars, fiberVars,
                   host, timerVars, alarmVars>>

\* The most urgent queue marked pending, and what the pick loop does with a
\* pending bit without a thread or with a terminated thread at the head.
PickQueue == RunQueue(MostUrgent(links.pending))

DropUnrunnable ==
    LET p == MostUrgent(links.pending)
    IN  IF links.seq[PickQueue] = <<>>
        THEN [links EXCEPT !.pending = @ \ {p}]
        ELSE RemoveThreadFromQueue(links, Head(links.seq[PickQueue]))

Runnable == links.seq[PickQueue] # <<>> /\ ~Terminated(Head(links.seq[PickQueue]))

\* Mutant: s_currentGuestThread is not updated.
SwitchKeepsThread(t) ==
    /\ host' = t
    /\ IF t = host THEN Return ELSE Continue(<<On("switched", fiberThread)>>)
    /\ UNCHANGED fiberThread

\* GuestFiberManager::SwitchToThread: on the fiber of t already, the call
\* returns; otherwise t's fiber continues and this one stays suspended.
SwitchToThread(t) ==
    /\ fiberThread' = t
    /\ host' = t
    /\ IF t = host THEN Return ELSE Continue(<<On("switched", fiberThread)>>)

\* The pick loop of SelectThread and the switch to the thread it finds.
PickThread ==
    /\ At("pick")
    /\ resched' = FALSE
    /\ IF links.pending # {} /\ Runnable
       THEN LET next == Head(links.seq[PickQueue])
            IN  /\ links' = PopRunQueue(links, MostUrgent(links.pending))
                /\ state' = [state EXCEPT ![next] = "running"]
                /\ running' = next
                /\ current' = next
                /\ SwitchToThread(next)
       ELSE /\ links' = IF links.pending = {} THEN links ELSE DropUnrunnable
            /\ IF links'.pending = {} THEN Return ELSE UNCHANGED stack
            /\ UNCHANGED <<state, running, current, fiberThread, host>>
    /\ UNCHANGED <<suspend, prio, base, detached, waitMutex, owned, listVars,
                   disable, mutexVars, fiber, timerVars, alarmVars>>

\* The end of SwitchToThread, when the fiber that called it is on again.
Switched ==
    /\ At("switched")
    /\ fiberThread' = IF Top.thr # None /\ running = Top.thr /\ current = Top.thr
                      THEN Top.thr ELSE None
    /\ Return
    /\ UNCHANGED <<threadVars, listVars, links, schedVars, mutexVars, fiber,
                   host, timerVars, alarmVars>>

-----------------------------------------------------------------------------
(***************************************************************************)
(* OSWakeupThread (WakeupThreadQueue, os_scheduler.cpp) and the variant of *)
(* the fiber manager that neither switches nor leaves a stale pointer.     *)
(***************************************************************************)

\* One iteration of either drain loop.  The head of the queue becomes ready,
\* and goes on a run queue unless it is suspended.
WakeOne(pc) ==
    /\ At(pc) /\ links.seq[Top.que] # <<>>
    /\ LET t      == Head(links.seq[Top.que])
           popped == PopThreadQueueHead(links, Top.que)
           gone   == IF pc = "wake" THEN Terminated(t) ELSE ThreadStateIsTerminated(state[t])
       IN  \/ /\ gone \/ suspend[t] >= 1
              /\ state' = IF gone THEN state ELSE [state EXCEPT ![t] = "ready"]
              /\ links' = IF gone \/ pc = "wakeNoSwitch"
                          THEN ClearQueuePointer(popped, t) ELSE popped
              /\ UNCHANGED <<resched, stack>>
           \/ /\ ~gone /\ suspend[t] < 1
              /\ state' = [state EXCEPT ![t] = "ready"]
              /\ links' = LinkThreadOnRunQueue(popped, t, ClampPrio(prio[t]))
              /\ resched' = TRUE
              /\ Continue(<<[Top EXCEPT !.flag = TRUE]>>)
    /\ UNCHANGED <<suspend, prio, base, detached, waitMutex, owned, listVars,
                   disable, running, current, mutexVars, fiberVars, host,
                   timerVars, alarmVars>>

WakeupThread == WakeOne("wake")
WakeNoSwitch == WakeOne("wakeNoSwitch")

\* Mutant: the wakeup wakes one thread only.
WakeOneOnly ==
    /\ At("wake") /\ (links.seq[Top.que] = <<>> \/ Top.flag)
    /\ Continue(IF Top.flag THEN <<SelectThread(FALSE)>> ELSE <<>>)
    /\ UNCHANGED <<threadVars, listVars, links, schedVars, mutexVars, fiberVars,
                   host, timerVars, alarmVars>>

\* The queue is drained: reschedule when a thread was made runnable.
WakeDone ==
    /\ At("wake") /\ links.seq[Top.que] = <<>>
    /\ Continue(IF Top.flag THEN <<SelectThread(FALSE)>> ELSE <<>>)
    /\ UNCHANGED <<threadVars, listVars, links, schedVars, mutexVars, fiberVars,
                   host, timerVars, alarmVars>>

\* `if (resched counter) SelectThread(0)', the tail of several calls.
Reschedule ==
    /\ At("resched")
    /\ Continue(IF resched THEN <<SelectThread(FALSE)>> ELSE <<>>)
    /\ UNCHANGED <<threadVars, listVars, links, schedVars, mutexVars, fiberVars,
                   host, timerVars, alarmVars>>

-----------------------------------------------------------------------------
(***************************************************************************)
(* OSSleepThread (os_sleep.cpp).                                           *)
(***************************************************************************)
SleepThread ==
    /\ At("sleep")
    /\ LET t == IF running = None THEN Main ELSE running
       IN  /\ running' = t
           /\ current' = IF running = None THEN Main ELSE current
           /\ \/ /\ disable # 0
                 /\ Return
                 /\ UNCHANGED <<state, links, resched>>
              \/ /\ disable = 0
                 /\ state' = [state EXCEPT ![t] = "waiting"]
                 /\ links' = InsertThreadIntoQueueByPriority(links, prio, Top.que, t, prio[t])
                 /\ resched' = TRUE
                 /\ Continue(<<SelectThread(FALSE), [Top EXCEPT !.pc = "slept", !.thr = t]>>)
    /\ UNCHANGED <<suspend, prio, base, detached, waitMutex, owned, listVars,
                   disable, mutexVars, fiberVars, host, timerVars, alarmVars>>

\* SelectThread came back: a thread still parked on the queue did not switch
\* away, and is taken off it again.
Slept ==
    /\ At("slept")
    /\ Return
    /\ \/ /\ state[Top.thr] = "waiting" /\ links.at[Top.thr] = Top.que
          /\ state' = [state EXCEPT ![Top.thr] = "running"]
          /\ links' = RemoveThreadFromQueue(links, Top.thr)
       \/ /\ ~(state[Top.thr] = "waiting" /\ links.at[Top.thr] = Top.que)
          /\ UNCHANGED <<state, links>>
    /\ UNCHANGED <<suspend, prio, base, detached, waitMutex, owned, listVars,
                   schedVars, mutexVars, fiberVars, host, timerVars, alarmVars>>

-----------------------------------------------------------------------------
(***************************************************************************)
(* Priority inheritance (os_thread.cpp, os_scheduler.cpp).                 *)
(***************************************************************************)
EffectivePriority(t) ==
    ComputeThreadEffectivePriority(links, prio, base[t], owned[t])

\* Mutant: the thread is linked anew without being unlinked first.
SetPriorityRelinks(t, p) ==
    /\ prio' = IF ThreadStateIsTerminated(state[t]) THEN prio ELSE [prio EXCEPT ![t] = p]
    /\ resched' = (resched \/ state[t] \in {"ready", "running"})
    /\ links' = CASE state[t] = "ready" ->
                       InsertThreadIntoQueueByPriority(links, prio, RunQueue(p), t, p)
                  [] state[t] = "waiting" /\ links.at[t] # None ->
                       InsertThreadIntoQueueByPriority(links, prio, links.at[t], t, p)
                  [] OTHER -> links

\* SetThreadEffectivePriority: a ready or waiting thread is queued anew, a
\* terminated one is left alone.
SetThreadEffectivePriority(t, p) ==
    /\ prio' = IF ThreadStateIsTerminated(state[t]) THEN prio ELSE [prio EXCEPT ![t] = p]
    /\ resched' = (resched \/ state[t] \in {"ready", "running"})
    /\ LET off == RemoveThreadFromQueue(links, t)
       IN  links' = CASE state[t] = "ready" ->
                           InsertThreadIntoQueueByPriority(off, prio, RunQueue(p), t, p)
                      [] state[t] = "waiting" /\ links.at[t] # None ->
                           InsertThreadIntoQueueByPriority(off, prio, links.at[t], t, p)
                      [] OTHER -> links

\* Mutant: inheritance stops at the first owner.
NoNextOwner(t) == None

\* Its result: the thread that owns the mutex a waiting thread is blocked on.
NextOwner(t) ==
    IF state[t] = "waiting" /\ waitMutex[t] # None THEN owner[waitMutex[t]] ELSE None

\* One iteration of PromoteThreadPriority: raise the owner of the mutex to the
\* priority of the thread about to block, and go on to whom it waits for.
PromoteThreadPriority ==
    /\ At("promote")
    /\ IF Top.thr = None \/ suspend[Top.thr] > 0 \/ prio[Top.thr] <= Top.num
       THEN /\ Return
            /\ UNCHANGED <<prio, resched, links>>
       ELSE /\ SetThreadEffectivePriority(Top.thr, Top.num)
            /\ Continue(<<Promote(NextOwner(Top.thr), Top.num)>>)
    /\ UNCHANGED <<state, suspend, base, detached, waitMutex, owned, listVars, disable,
                   running, current, mutexVars, fiberVars, host, timerVars, alarmVars>>

\* One iteration of PropagateMutexOwnerPriority: recompute the owner's priority
\* and stop at an owner that has it already.
PropagateMutexOwnerPriority ==
    /\ At("propagate")
    /\ IF Top.thr = None \/ suspend[Top.thr] > 0
            \/ prio[Top.thr] = EffectivePriority(Top.thr)
       THEN /\ Return
            /\ UNCHANGED <<prio, resched, links>>
       ELSE /\ SetThreadEffectivePriority(Top.thr, EffectivePriority(Top.thr))
            /\ Continue(<<On("propagate", NextOwner(Top.thr))>>)
    /\ UNCHANGED <<state, suspend, base, detached, waitMutex, owned, listVars, disable,
                   running, current, mutexVars, fiberVars, host, timerVars, alarmVars>>

-----------------------------------------------------------------------------
(***************************************************************************)
(* OSMutex (os_scheduler.cpp).                                             *)
(***************************************************************************)
Lock(t, m) == [Frame("lock") EXCEPT !.thr = t, !.mut = m]

OSLockMutex(m) ==
    /\ MayCall("lock") /\ running # None
    /\ owner[m] = running => count[m] < MaxLocks
    /\ Call(<<Lock(running, m)>>)
    /\ UNCHANGED <<threadVars, listVars, links, schedVars, mutexVars, fiberVars,
                   host, timerVars, alarmVars>>

\* One iteration of OSLockMutex's loop: take the mutex, or lend the owner this
\* thread's priority, sleep on the mutex and try again.
LockMutex ==
    /\ At("lock")
    /\ LET t == Top.thr
           m == Top.mut
       IN  \/ /\ owner[m] \in {None, t}
              /\ owner' = [owner EXCEPT ![m] = t]
              /\ count' = [count EXCEPT ![m] = @ + 1]
              /\ owned' = IF owner[m] = None THEN [owned EXCEPT ![t] = Append(@, m)]
                                             ELSE owned
              /\ Return
              /\ UNCHANGED waitMutex
           \/ /\ owner[m] \notin {None, t}
              /\ waitMutex' = [waitMutex EXCEPT ![t] = m]
              /\ Continue(<<Promote(owner[m], prio[t]), OnQ("sleep", MutexQueue(m)),
                            [Top EXCEPT !.pc = "relock"]>>)
              /\ UNCHANGED <<owned, mutexVars>>
    /\ UNCHANGED <<state, suspend, prio, base, detached, listVars, links, schedVars,
                   fiberVars, host, timerVars, alarmVars>>

RelockMutex ==
    /\ At("relock")
    /\ waitMutex' = [waitMutex EXCEPT ![Top.thr] = None]
    /\ Continue(<<[Top EXCEPT !.pc = "lock"]>>)
    /\ UNCHANGED <<state, suspend, prio, base, detached, owned, listVars, links,
                   schedVars, mutexVars, fiberVars, host, timerVars, alarmVars>>

\* OSUnlockMutex: nothing unless the running thread owns the mutex.  The last
\* unlock releases it, gives back a borrowed priority and wakes all waiters.
OSUnlockMutex(m) ==
    /\ MayCall("unlock")
    /\ running # None /\ owner[m] = running
    /\ count' = [count EXCEPT ![m] = @ - 1]
    /\ IF count[m] = 1
       THEN LET kept == UnlinkGuestListNode(owned[running], m)
            IN  /\ owner' = [owner EXCEPT ![m] = None]
                /\ owned' = [owned EXCEPT ![running] = kept]
                /\ prio' = IF prio[running] < base[running]
                           THEN [prio EXCEPT ![running] =
                                   ComputeThreadEffectivePriority(links, prio, base[running], kept)]
                           ELSE prio
                /\ Call(<<OnQ("wake", MutexQueue(m))>>)
       ELSE UNCHANGED <<owner, owned, prio, stack>>
    /\ UNCHANGED <<state, suspend, base, detached, waitMutex, listVars, links, schedVars,
                   fiberVars, host, timerVars, alarmVars>>

-----------------------------------------------------------------------------
(***************************************************************************)
(* OSSuspendThread, OSResumeThread (os_thread.cpp), OSSleepTicks           *)
(* (os_sleep.cpp).                                                         *)
(***************************************************************************)
OwnerOf(m) == IF m = None THEN None ELSE owner[m]

SuspendThread ==
    /\ At("suspend")
    /\ LET t   == Top.thr
           off == RemoveThreadFromQueue(links, t)
       IN  /\ suspend' = [suspend EXCEPT ![t] = @ + 1]
           /\ IF suspend[t] # 0
              THEN /\ Return
                   /\ UNCHANGED <<state, prio, links, resched>>
              ELSE /\ state' = IF state[t] = "running" THEN [state EXCEPT ![t] = "ready"]
                               ELSE state
                   /\ resched' = (resched \/ state[t] = "running")
                   /\ prio' = IF state[t] = "waiting"
                              THEN [prio EXCEPT ![t] = SuspendedWaitPriority] ELSE prio
                   /\ links' = CASE state[t] = "ready" -> off
                                 [] state[t] = "waiting" /\ links.at[t] # None ->
                                      InsertThreadIntoQueueByPriority(off, prio,
                                        links.at[t], t, SuspendedWaitPriority)
                                 [] OTHER -> links
                   /\ Continue(IF state[t] = "waiting"
                               THEN <<On("propagate", OwnerOf(waitMutex[t])), Frame("resched")>>
                               ELSE <<Frame("resched")>>)
    /\ UNCHANGED <<base, detached, waitMutex, owned, listVars, disable, running, current,
                   mutexVars, fiberVars, host, timerVars, alarmVars>>

\* OSResumeThread.  The last resume ends a sleep park, requeues the thread with
\* its effective priority, and recovers one stuck in the running state.
ResumeThread ==
    /\ At("resume")
    /\ LET t   == Top.thr
           eff == EffectivePriority(t)
       IN  IF suspend[t] # 1
           THEN /\ suspend' = [suspend EXCEPT ![t] = IF @ = 0 THEN 0 ELSE @ - 1]
                /\ Return
                /\ UNCHANGED <<state, prio, links, resched, timers, parks>>
           ELSE /\ suspend' = [suspend EXCEPT ![t] = 0]
                /\ timers' = timers \ {t}
                /\ parks' = parks \ {t}
                /\ IF state[t] = "waiting"
                   THEN LET off == RemoveThreadFromQueue(links, t)
                            e   == ComputeThreadEffectivePriority(off, prio, base[t], owned[t])
                        IN  /\ prio' = [prio EXCEPT ![t] = e]
                            /\ links' = IF links.at[t] = None THEN off
                                        ELSE InsertThreadIntoQueueByPriority(off, prio,
                                               links.at[t], t, e)
                            /\ Continue(<<On("propagate", OwnerOf(waitMutex[t])),
                                          Frame("resched")>>)
                            /\ UNCHANGED <<state, resched>>
                   ELSE /\ Continue(<<Frame("resched")>>)
                        /\ IF state[t] = "ready" \/ (state[t] = "running" /\ ~Terminated(t))
                           THEN /\ state' = [state EXCEPT ![t] = "ready"]
                                /\ prio' = [prio EXCEPT ![t] = eff]
                                /\ links' = InsertThreadIntoQueueByPriority(links, prio,
                                              RunQueue(eff), t, eff)
                                /\ resched' = TRUE
                           ELSE UNCHANGED <<state, prio, links, resched>>
    /\ UNCHANGED <<base, detached, waitMutex, owned, listVars, disable, running, current,
                   mutexVars, fiberVars, host, seen, alarmVars>>

OSSuspendThread(t) ==
    /\ MayCall("suspend") /\ t \in threadList /\ held[t] < MaxSuspend
    /\ Call(<<On("suspend", t)>>)
    /\ held' = [held EXCEPT ![t] = @ + 1]
    /\ UNCHANGED <<threadVars, threadList, links, schedVars, mutexVars, fiberVars,
                   host, timerVars, alarmVars>>

OSResumeThread(t) ==
    /\ MayCall("resume") /\ t \in threadList
    /\ Call(<<On("resume", t)>>)
    /\ held' = [held EXCEPT ![t] = IF @ = 0 THEN 0 ELSE @ - 1]
    /\ UNCHANGED <<threadVars, threadList, links, schedVars, mutexVars, fiberVars,
                   host, timerVars, alarmVars>>

\* OSSleepTicks: arm the timer, record the park, suspend the current thread.
\* It refuses when the scheduler cannot switch away.
OSSleepTicks ==
    LET t == IF fiberThread # None THEN fiberThread ELSE running
    IN  /\ MayCall("sleepTicks")
        /\ t # None /\ disable = 0 /\ current \in {None, t}
        /\ timers' = timers \cup {t}
        /\ parks' = parks \cup {t}
        /\ Call(<<On("suspend", t), On("ticked", t)>>)
        /\ UNCHANGED <<threadVars, listVars, links, schedVars, mutexVars, fiberVars,
                       host, seen, alarmVars>>

\* Back from the park.  A thread that still has a suspension did not switch
\* away: the park is undone.
Ticked ==
    /\ At("ticked")
    /\ LET t == Top.thr
       IN  IF suspend[t] > 0
           THEN /\ suspend' = [suspend EXCEPT ![t] = @ - 1]
                /\ timers' = timers \ {t}
                /\ parks' = parks \ {t}
                /\ state' = IF suspend[t] = 1 /\ state[t] = "ready" /\ links.at[t] = None
                            THEN [state EXCEPT ![t] = "running"] ELSE state
           ELSE UNCHANGED <<suspend, timers, parks, state>>
    /\ Return
    /\ UNCHANGED <<prio, base, detached, waitMutex, owned, listVars, links, schedVars,
                   mutexVars, fiberVars, host, seen, alarmVars>>

OSYieldThread ==
    /\ MayCall("yield")
    /\ Call(<<SelectThread(TRUE)>>)
    /\ UNCHANGED <<threadVars, listVars, links, schedVars, mutexVars, fiberVars,
                   host, timerVars, alarmVars>>

OSSleepThread(w) ==
    /\ MayCall("sleep")
    /\ Call(<<OnQ("sleep", WaitQueue(w))>>)
    /\ UNCHANGED <<threadVars, listVars, links, schedVars, mutexVars, fiberVars,
                   host, timerVars, alarmVars>>

OSWakeupThread(w) ==
    /\ MayCall("wakeup")
    /\ Call(<<OnQ("wake", WaitQueue(w))>>)
    /\ UNCHANGED <<threadVars, listVars, links, schedVars, mutexVars, fiberVars,
                   host, timerVars, alarmVars>>

-----------------------------------------------------------------------------
(***************************************************************************)
(* The thread life cycle (os_thread.cpp, fiber_manager.cpp).               *)
(***************************************************************************)

\* OSCreateThread on a thread structure that is not in use: the thread starts
\* ready with one suspension, on a new fiber.  Its queue pointer is kept.
OSCreateThread(t) ==
    /\ MayCall("create")
    /\ state[t] = "dead" /\ t # host
    /\ state' = [state EXCEPT ![t] = "ready"]
    /\ suspend' = [suspend EXCEPT ![t] = 1]
    /\ prio' = [prio EXCEPT ![t] = InitPrio[t]]
    /\ base' = [base EXCEPT ![t] = InitPrio[t]]
    /\ detached' = [detached EXCEPT ![t] = t \in InitDetached]
    /\ waitMutex' = [waitMutex EXCEPT ![t] = None]
    /\ owned' = [owned EXCEPT ![t] = <<>>]
    /\ links' = [links EXCEPT !.seq[JoinQueue(t)] = <<>>]
    /\ threadList' = threadList \cup {t}
    /\ fiber' = [fiber EXCEPT ![t] = "live"]
    /\ stack' = [stack EXCEPT ![t] = <<>>]
    /\ held' = [held EXCEPT ![t] = 1]
    /\ UNCHANGED <<schedVars, mutexVars, fiberThread, host, timerVars, alarmVars>>

\* The part of TerminateThreadCommon before its calls, with ExitGuestThread: a
\* detached thread leaves the thread list, any other waits to be joined; the
\* fiber is destroyed unless it is the one executing.
Terminating(t, calls) ==
    /\ state' = [state EXCEPT ![t] = IF detached[t] THEN "dead" ELSE "moribund"]
    /\ threadList' = IF detached[t] THEN threadList \ {t} ELSE threadList
    /\ fiber' = [fiber EXCEPT ![t] = "terminated"]
    /\ fiberThread' = IF fiberThread = t THEN None ELSE fiberThread
    /\ stack' = [u \in Threads |-> IF u = host THEN calls \o stack[u]
                                  ELSE IF u = t THEN <<>> ELSE stack[u]]

\* Mutants: the mutexes are not released; or the joiners are not woken.
TerminateHoldingMutexes(t, tail) ==
    Terminating(t, <<OnQ("wake", JoinQueue(t)), Frame(tail)>>)

TerminateSilently(t, tail) == Terminating(t, <<On("unlockAll", t), Frame(tail)>>)

\* TerminateThreadCommon: UnlockAllThreadMutexes and WakeThreadJoiners are the
\* calls, and tail is what the caller does next.
TerminateThread(t, tail) ==
    Terminating(t, <<On("unlockAll", t), OnQ("wake", JoinQueue(t)), Frame(tail)>>)

OSExitThread ==
    /\ MayCall("exit") /\ running \notin {None, Main}
    /\ TerminateThread(running, "exited")
    /\ UNCHANGED <<suspend, prio, base, detached, waitMutex, owned, links, schedVars,
                   mutexVars, host, timerVars, alarmVars, held>>

Exited ==
    /\ At("exited")
    /\ resched' = TRUE
    /\ Continue(<<SelectThread(FALSE)>>)
    /\ UNCHANGED <<threadVars, listVars, links, disable, running, current, mutexVars,
                   fiberVars, host, timerVars, alarmVars>>

OSCancelThread(t) ==
    /\ MayCall(IF t = host THEN "cancelSelf" ELSE "cancel") /\ t # Main
    /\ ~ThreadStateIsTerminated(state[t])
    /\ links' = IF state[t] = "waiting" \/ (state[t] = "ready" /\ suspend[t] < 1)
                THEN RemoveThreadFromQueue(links, t) ELSE links
    /\ resched' = (resched \/ state[t] = "running")
    /\ TerminateThread(t, "resched")
    /\ UNCHANGED <<suspend, prio, base, detached, waitMutex, owned, disable, running,
                   current, mutexVars, host, timerVars, alarmVars, held>>

\* __OSUnlockAllMutex, translated guest code: release the mutexes one by one
\* and wake the waiters of each.
UnlockAllMutex ==
    /\ At("unlockAll")
    /\ LET t == Top.thr
       IN  IF owned[t] = <<>>
           THEN Return /\ UNCHANGED <<owner, count, owned>>
           ELSE LET m == Head(owned[t])
                IN  /\ owned' = [owned EXCEPT ![t] = Tail(@)]
                    /\ owner' = [owner EXCEPT ![m] = None]
                    /\ count' = [count EXCEPT ![m] = 0]
                    /\ Call(<<OnQ("wake", MutexQueue(m))>>)
    /\ UNCHANGED <<state, suspend, prio, base, detached, waitMutex, listVars, links,
                   schedVars, fiberVars, host, timerVars, alarmVars>>

\* Mutant: the reaped thread stays on the thread list.
ReapKeepsListed(t) == /\ state' = [state EXCEPT ![t] = "dead"]
                      /\ UNCHANGED threadList

\* A moribund thread is taken off the thread list and its structure is free.
Reap(t) == /\ state' = [state EXCEPT ![t] = "dead"]
           /\ threadList' = threadList \ {t}

\* OSJoinThread: wait for a joinable thread that nobody else waits for.
OSJoinThread(t) ==
    /\ MayCall("join") /\ t \in threadList \ {host}
    /\ IF ~detached[t] /\ state[t] # "moribund" /\ links.seq[JoinQueue(t)] = <<>>
       THEN /\ Call(<<OnQ("sleep", JoinQueue(t)), On("joined", t)>>)
            /\ UNCHANGED <<state, threadList>>
       ELSE /\ state[t] = "moribund"
            /\ Reap(t)
            /\ UNCHANGED stack
    /\ UNCHANGED <<suspend, prio, base, detached, waitMutex, owned, held, links,
                   schedVars, mutexVars, fiberVars, host, timerVars, alarmVars>>

\* Woken: the thread has exited, or somebody reaped or detached it meanwhile.
Joined ==
    /\ At("joined")
    /\ Return
    /\ IF state[Top.thr] = "moribund" THEN Reap(Top.thr)
                                      ELSE UNCHANGED <<state, threadList>>
    /\ UNCHANGED <<suspend, prio, base, detached, waitMutex, owned, held, links,
                   schedVars, mutexVars, fiberVars, host, timerVars, alarmVars>>

OSDetachThread(t) ==
    /\ MayCall("detach") /\ t \in threadList
    /\ detached' = [detached EXCEPT ![t] = TRUE]
    /\ IF state[t] = "moribund"
       THEN /\ Reap(t)
            /\ fiber' = [fiber EXCEPT ![t] = "terminated"]
            /\ fiberThread' = IF fiberThread = t THEN None ELSE fiberThread
       ELSE UNCHANGED <<state, threadList, fiberVars>>
    /\ Call(<<OnQ("wake", JoinQueue(t))>>)
    /\ UNCHANGED <<suspend, prio, base, waitMutex, owned, held, links,
                   schedVars, mutexVars, host, timerVars, alarmVars>>

\* Mutant: the joiners of a thread that returns are forgotten.
ReturnSilently ==
    /\ AtGuest /\ "return" \in ThreadCalls[host]
    /\ host # Main
    /\ links' = RemoveThreadFromQueue(links, host)
    /\ state' = [state EXCEPT ![host] = IF detached[host] THEN "dead" ELSE "moribund"]
    /\ Call(<<On("returned", host)>>)
    /\ UNCHANGED <<suspend, prio, base, detached, waitMutex, owned, listVars, schedVars,
                   mutexVars, fiberVars, host, timerVars, alarmVars>>

\* The end of FiberProc: the entry function of a thread returned.  The fiber
\* manager finishes the thread itself, without OSExitThread.
ThreadReturn ==
    /\ AtGuest /\ "return" \in ThreadCalls[host]
    /\ host # Main
    /\ links' = RemoveThreadFromQueue(links, host)
    /\ state' = [state EXCEPT ![host] = IF detached[host] THEN "dead" ELSE "moribund"]
    /\ Call(<<OnQ("wakeNoSwitch", JoinQueue(host)), On("returned", host)>>)
    /\ UNCHANGED <<suspend, prio, base, detached, waitMutex, owned, listVars, schedVars,
                   mutexVars, fiberVars, host, timerVars, alarmVars>>

WakeNoSwitchDone ==
    /\ At("wakeNoSwitch") /\ links.seq[Top.que] = <<>>
    /\ Return
    /\ UNCHANGED <<threadVars, listVars, links, schedVars, mutexVars, fiberVars,
                   host, timerVars, alarmVars>>

\* Nobody is running any more; the scheduler's fiber, which is Main's, goes on.
Returned ==
    /\ At("returned")
    /\ running' = IF running = Top.thr THEN None ELSE running
    /\ current' = IF current = Top.thr THEN None ELSE current
    /\ resched' = TRUE
    /\ fiber' = [fiber EXCEPT ![Top.thr] = "terminated"]
    /\ fiberThread' = None
    /\ host' = Main
    /\ Return
    /\ UNCHANGED <<threadVars, listVars, links, disable, mutexVars, timerVars, alarmVars>>

-----------------------------------------------------------------------------
(***************************************************************************)
(* The alarm pump (os_alarm.cpp).  Fire times are abstracted: any queued   *)
(* alarm may be due.  OSSetAlarm is only called on an alarm that is idle.  *)
(***************************************************************************)
SetAlarm(a) ==
    /\ a \notin armed
    /\ armed' = armed \cup {a}
    /\ UNCHANGED <<threadVars, listVars, links, schedVars, mutexVars, fiberVars,
                   host, stack, timerVars, alarmDepth>>

OSSetAlarm(a) ==
    /\ MayCall("setAlarm")
    /\ periodic' = periodic \ {a}
    /\ SetAlarm(a)

OSSetPeriodicAlarm(a) ==
    /\ MayCall("setPeriodicAlarm")
    /\ periodic' = periodic \cup {a}
    /\ SetAlarm(a)

\* OS_HLE_ProcessAlarms (PPCMtdec, RFLiIsWorking): pump from guest code.
OSProcessAlarms ==
    /\ MayCall("pump")
    /\ Call(<<Frame("alarms")>>)
    /\ UNCHANGED <<threadVars, listVars, links, schedVars, mutexVars, fiberVars,
                   host, timerVars, alarmVars>>

\* Mutant: the disable count is not raised around the deferred pump.
PumpNotDeferred ==
    /\ MayCall("pumpDeferred")
    /\ Call(<<Frame("alarms"), Frame("undefer")>>)
    /\ UNCHANGED <<threadVars, listVars, links, schedVars, mutexVars,
                   fiberVars, host, timerVars, alarmVars>>

\* OS_HLE_ProcessAlarmsDeferred: pump with thread switches held back.
OSProcessAlarmsDeferred ==
    /\ MayCall("pumpDeferred")
    /\ disable' = disable + 1
    /\ Call(<<Frame("alarms"), Frame("undefer")>>)
    /\ UNCHANGED <<threadVars, listVars, links, resched, running, current, mutexVars,
                   fiberVars, host, timerVars, alarmVars>>

\* DecrementSchedulerDisableCount, which never goes below zero.
Decrement == disable' = IF disable = 0 THEN 0 ELSE disable - 1

Undefer ==
    /\ At("undefer")
    /\ Decrement
    /\ Return
    /\ UNCHANGED <<threadVars, listVars, links, resched, running, current, mutexVars,
                   fiberVars, host, timerVars, alarmVars>>

\* Mutant: a handler, or another thread, may pump within a pump.
PumpReenters ==
    /\ At("alarms")
    /\ alarmDepth' = alarmDepth + 1
    /\ Continue(<<Frame("alarmLoop")>>)
    /\ UNCHANGED <<threadVars, listVars, links, schedVars, mutexVars, fiberVars,
                   host, timerVars, armed, periodic>>

\* ProcessAlarmQueue: not reentrant while g_alarmProcessDepth is up.
ProcessAlarmQueue ==
    /\ At("alarms")
    /\ IF alarmDepth # 0
       THEN Return /\ UNCHANGED alarmDepth
       ELSE /\ alarmDepth' = alarmDepth + 1
            /\ Continue(<<Frame("alarmLoop")>>)
    /\ UNCHANGED <<threadVars, listVars, links, schedVars, mutexVars, fiberVars,
                   host, timerVars, armed, periodic>>

\* A due alarm leaves the queue, a periodic one is queued again (InsertAlarm),
\* and its handler runs with the scheduler off.
FireAlarm ==
    /\ At("alarmLoop")
    /\ \E a \in armed :
         /\ armed' = IF a \in periodic THEN armed ELSE armed \ {a}
         /\ disable' = disable + 1
         /\ Call(<<Frame("handler"), Frame("alarmTail")>>)
    /\ UNCHANGED <<threadVars, listVars, links, resched, running, current, mutexVars,
                   fiberVars, host, timerVars, periodic, alarmDepth>>

HandlerReturn ==
    /\ AtHandler
    /\ Return
    /\ UNCHANGED <<threadVars, listVars, links, schedVars, mutexVars, fiberVars,
                   host, timerVars, alarmVars>>

\* After a handler: the scheduler is on again, and RunDeferredReschedule.
AlarmTail ==
    /\ At("alarmTail")
    /\ Decrement
    /\ Continue(IF resched THEN <<SelectThread(FALSE)>> ELSE <<>>)
    /\ UNCHANGED <<threadVars, listVars, links, resched, running, current, mutexVars,
                   fiberVars, host, timerVars, alarmVars>>

\* Mutant: the guard stays up.
AlarmsDoneGuarded ==
    /\ At("alarmLoop")
    /\ Return
    /\ UNCHANGED <<threadVars, listVars, links, schedVars, mutexVars, fiberVars,
                   host, timerVars, alarmVars>>

\* The end of the alarm scope: nothing more is due, or the batch is full.
AlarmsDone ==
    /\ At("alarmLoop")
    /\ alarmDepth' = alarmDepth - 1
    /\ Return
    /\ UNCHANGED <<threadVars, listVars, links, schedVars, mutexVars, fiberVars,
                   host, timerVars, armed, periodic>>

-----------------------------------------------------------------------------
\* The program after OSInit: the default thread runs on the scheduler's fiber.
Init ==
    /\ state = [t \in Threads |-> IF t = Main THEN "running" ELSE "dead"]
    /\ suspend = [t \in Threads |-> 0]
    /\ prio = InitPrio /\ base = InitPrio
    /\ detached = [t \in Threads |-> FALSE]
    /\ waitMutex = [t \in Threads |-> None]
    /\ owned = [t \in Threads |-> <<>>]
    /\ threadList = {Main}
    /\ links = EmptyLinks
    /\ resched = FALSE /\ disable = 0
    /\ running = Main /\ current = Main
    /\ owner = [m \in Mutexes |-> None] /\ count = [m \in Mutexes |-> 0]
    /\ fiber = [t \in Threads |-> IF t = Main THEN "live" ELSE "none"]
    /\ fiberThread = Main /\ host = Main
    /\ stack = [t \in Threads |-> <<>>]
    /\ timers = {} /\ parks = {} /\ seen = {}
    /\ armed = {} /\ periodic = {} /\ alarmDepth = 0
    /\ held = [t \in Threads |-> 0]

\* A step of a kernel function that is in progress.
KernelStep ==
    \/ FireTimer \/ FireDone \/ Reconcile \/ HealStrandedSleeper
    \/ SelectEnter \/ ScheduleReturn \/ ScheduleSwitch
    \/ IdlePump \/ IdleAlarms \/ IdleExit \/ PickThread \/ Switched
    \/ WakeupThread \/ WakeDone \/ Reschedule \/ SleepThread \/ Slept
    \/ PromoteThreadPriority \/ PropagateMutexOwnerPriority
    \/ LockMutex \/ RelockMutex
    \/ SuspendThread \/ ResumeThread \/ Ticked
    \/ Exited \/ UnlockAllMutex \/ Joined
    \/ WakeNoSwitch \/ WakeNoSwitchDone \/ Returned
    \/ ProcessAlarmQueue \/ FireAlarm \/ AlarmTail \/ AlarmsDone \/ Undefer

\* A step of guest code: a kernel call, or the end of an alarm handler.
GuestStep ==
    \/ \E m \in Mutexes : OSLockMutex(m) \/ OSUnlockMutex(m)
    \/ \E t \in Threads :
         \/ OSCreateThread(t) \/ OSCancelThread(t) \/ OSJoinThread(t)
         \/ OSDetachThread(t) \/ OSSuspendThread(t) \/ OSResumeThread(t)
    \/ \E w \in WaitQueues : OSSleepThread(w) \/ OSWakeupThread(w)
    \/ \E a \in Alarms : OSSetAlarm(a) \/ OSSetPeriodicAlarm(a)
    \/ OSSleepTicks \/ OSYieldThread \/ OSExitThread \/ ThreadReturn
    \/ OSProcessAlarms \/ OSProcessAlarmsDeferred \/ HandlerReturn

Next == KernelStep \/ GuestStep

Spec == Init /\ [][Next]_vars

\* The host thread keeps executing the kernel call it is in.  Time passes: a
\* timer that the pump looks at again and again is eventually found due, and a
\* stranded thread is eventually noted and then seen 100 ms later.
TimerFound(t)  == (SelectEnter \/ IdlePump) /\ t \in timers /\ t \notin timers'
StrandNoted(t) == Reconcile /\ t \notin seen /\ t \in seen'
StrandHealed(t) == Reconcile /\ t \in seen /\ t \notin parks'

Fairness ==
    /\ WF_vars(KernelStep)
    /\ \A t \in Threads : /\ SF_vars(TimerFound(t))
                           /\ SF_vars(StrandNoted(t)) /\ SF_vars(StrandHealed(t))

FairSpec == Spec /\ Fairness

-----------------------------------------------------------------------------
(***************************************************************************)
(* Properties.                                                             *)
(***************************************************************************)

\* A frame has the arguments its function uses.
FrameOK(f) ==
    /\ f.pc \in {"lock", "relock"} => f.thr # None /\ f.mut # None
    /\ f.pc \in {"sleep", "slept", "wake", "wakeNoSwitch"} => f.que # None
    /\ f.pc \in {"slept", "suspend", "resume", "ticked", "unlockAll", "joined", "returned"} =>
         f.thr # None

\* Every variable has its type: in particular a queue pointer names a queue,
\* priorities stay within the run queues or are the suspended-wait priority,
\* and every frame on a fiber's stack is one of the kernel's.
TypeOK ==
    /\ state \in [Threads -> States]
    /\ suspend \in [Threads -> Nat]
    /\ prio \in [Threads -> 0 .. MaxPrio + 1] /\ base \in [Threads -> Prios]
    /\ detached \in [Threads -> BOOLEAN]
    /\ waitMutex \in [Threads -> Mutexes \cup {None}]
    /\ owned \in [Threads -> Seq(Mutexes)]
    /\ threadList \subseteq Threads
    /\ links \in Links
    /\ resched \in BOOLEAN /\ disable \in Nat
    /\ running \in Threads \cup {None}
    /\ current \in Threads \cup {None, Idle}
    /\ owner \in [Mutexes -> Threads \cup {None}] /\ count \in [Mutexes -> Nat]
    /\ fiber \in [Threads -> {"none", "live", "terminated"}]
    /\ fiberThread \in Threads \cup {None}
    /\ host \in Threads
    /\ stack \in [Threads -> Seq({f \in Frames : FrameOK(f)})]
    /\ timers \subseteq Threads /\ parks \subseteq Threads /\ seen \subseteq Threads
    /\ armed \subseteq Alarms /\ periodic \subseteq Alarms /\ alarmDepth \in Int
    /\ held \in [Threads -> Nat]

\* The pending mask has exactly the bits of the run queues that hold a thread:
\* a missing bit loses a runnable thread, an extra one is the "pending bit set
\* but no thread in queue" error of SelectThread.
PendingExact == PendingMatches(links)

\* A thread is on at most one queue and at most once, and its queue pointer
\* names that queue: every unlink the kernel does by that pointer is sound.
LinkedOnce ==
    \A q \in Queues : \A i \in DOMAIN links.seq[q] :
        /\ links.at[links.seq[q][i]] = q
        /\ \A j \in DOMAIN links.seq[q] : links.seq[q][i] = links.seq[q][j] => i = j

\* OSWakeupThread leaves the queue pointer of a suspended thread as it was.  A
\* thread whose pointer names a queue it is not on is suspended or terminated,
\* where no unlink by that pointer is made: one would cut the list.
StalePointerHarmless ==
    \A t \in Threads :
        links.at[t] # None /\ ~OnQueue(links, t, links.at[t]) =>
            ThreadStateIsTerminated(state[t]) \/ (state[t] = "ready" /\ suspend[t] >= 1)

\* A thread is on a run queue exactly when it is ready and not suspended, and
\* on a wait queue exactly when it is waiting: no thread is lost or run twice.
QueuedByState ==
    \A t \in Threads :
        /\ (\E q \in RunQueues : OnQueue(links, t, q)) <=> (state[t] = "ready" /\ suspend[t] = 0)
        /\ (\E q \in BlockQueues : OnQueue(links, t, q)) <=> state[t] = "waiting"

\* Wait queues are in priority order, so that the head of a mutex queue, the
\* only waiter ComputeThreadEffectivePriority reads, is the most urgent one;
\* and a run queue holds threads of its own priority only.
QueuesOrdered ==
    /\ \A q \in BlockQueues : \A i, j \in DOMAIN links.seq[q] :
          i < j => prio[links.seq[q][i]] <= prio[links.seq[q][j]]
    /\ \A p \in Prios : \A i \in DOMAIN links.seq[RunQueue(p)] :
          prio[links.seq[RunQueue(p)][i]] = p

\* The suspended-wait priority 32 never reaches a thread that can run: run
\* queue 32 would alias the idle thread's context, which follows the array.
RunnableHasRunQueue ==
    \A t \in Threads :
        state[t] = "running" \/ (state[t] = "ready" /\ suspend[t] = 0) => prio[t] \in Prios

\* The thread queues are sound: whoever is unlinked, woken or picked next by
\* the kernel is the thread the code takes it for.
QueuesSound == LinkedOnce /\ StalePointerHarmless /\ QueuesOrdered /\ RunnableHasRunQueue

\* Guest code runs as the thread the kernel believes is running: the fiber on
\* the CPU is that of the running and current context, which is live, in the
\* running state and not suspended.
GuestRunsAsItself ==
    AtGuest => /\ running = host /\ current = host
               /\ state[host] = "running" /\ suspend[host] = 0
               /\ fiber[host] = "live" /\ fiberThread \in {None, host}

\* While guest code runs and the scheduler is on, no runnable thread is more
\* urgent than the one that runs.
MostUrgentRuns ==
    AtGuest /\ disable = 0 => \A p \in links.pending : prio[host] <= p

\* A mutex is locked exactly when it has an owner, and a thread lists a mutex
\* only if it owns it, and only once: what __OSUnlockAllMutex releases and
\* ComputeThreadEffectivePriority looks at is the thread's own.
MutexesConsistent ==
    /\ \A m \in Mutexes : owner[m] = None <=> count[m] = 0
    /\ \A t \in Threads : \A i, j \in DOMAIN owned[t] :
          /\ owner[owned[t][i]] = t
          /\ owned[t][i] = owned[t][j] => i = j

\* Every mutex a thread owns is on its list, so that termination releases it
\* and its waiters lend their priority to the thread.
OwnedListed == \A m \in Mutexes : owner[m] # None => m \in ToSet(owned[owner[m]])

\* A thread blocked on a mutex is blocked on one that somebody holds, except
\* while OSUnlockMutex is waking its waiters.
NoWaiterOnFreeMutex ==
    \A m \in Mutexes :
        links.seq[MutexQueue(m)] # <<>> /\ owner[m] = None =>
            At("wake") /\ Top.que = MutexQueue(m)

\* Priority inheritance: when guest code runs, a mutex owner that is not
\* suspended is at least as urgent as every thread blocked on the mutex, and
\* so, through the chain, as every thread blocked on what the owner waits for.
InheritsPriority ==
    AtGuest =>
        \A m \in Mutexes : \A i \in DOMAIN links.seq[MutexQueue(m)] :
            owner[m] # None /\ suspend[owner[m]] = 0 =>
                prio[owner[m]] <= prio[links.seq[MutexQueue(m)][i]]

\* Only threads of the thread list are alive, and all of them are on it.
ThreadListExact == \A t \in Threads : t \in threadList <=> state[t] # "dead"

\* A fiber that will still run has frame f of a termination ahead of it.
StillToRun(pc, t, q) ==
    \E u \in Threads : \E i \in DOMAIN stack[u] :
        /\ u = host \/ fiber[u] = "live"
        /\ stack[u][i].pc = pc /\ stack[u][i].thr = t /\ stack[u][i].que = q

\* A mutex is held by a thread that is alive, or by one whose termination is
\* still going to release it.
OwnerAlive ==
    \A m \in Mutexes :
        owner[m] # None /\ ThreadStateIsTerminated(state[owner[m]]) =>
            StillToRun("unlockAll", owner[m], None)

\* A held mutex has an owner who lists it and lives, or is still going to
\* release it: no lock is left behind by a termination, one that another thread
\* asks for or that is switched away in the middle included.
OwnershipSound == OwnedListed /\ OwnerAlive

\* Nobody waits for a thread that has terminated, unless the termination is
\* still going to wake the joiners.
JoinersWoken ==
    \A t \in Threads :
        ThreadStateIsTerminated(state[t]) /\ links.seq[JoinQueue(t)] # <<>> =>
            \/ StillToRun("wake", None, JoinQueue(t))
            \/ StillToRun("wakeNoSwitch", None, JoinQueue(t))

\* The life cycle of a thread leaves nothing behind: a thread is listed as long
\* as its structure is in use, and whoever joined it is woken by its end.
LifeCycleSound == ThreadListExact /\ JoinersWoken

\* A suspension that guest code asked for, by creating the thread or with
\* OSSuspendThread, is only undone by guest code's OSResumeThread: the timers,
\* the reconciler and the undo of a failed park never take it away.
GuestSuspensionsKept ==
    AtGuest => \A t \in Threads : ThreadStateIsTerminated(state[t]) \/ suspend[t] >= held[t]

\* What the comment in ProcessAlarmQueue asks for: the recursion guard does not
\* outlive the dispatch, so that guest code, whichever thread runs, never finds
\* its pumps refused.  The reschedule after a handler breaks it when guest code
\* pumped directly.
AlarmPumpFree == AtGuest => alarmDepth = 0

\* Where stack s is in the middle of an alarm pump.
PumpsAt(s) == {i \in DOMAIN s : s[i].pc = "alarmLoop"}

\* One pump at a time, over the stacks of all fibers, and the guard is up while
\* there is one: the queue is not dispatched from two places.
OneAlarmPump ==
    \A t, u \in Threads : \A i \in PumpsAt(stack[t]), j \in PumpsAt(stack[u]) :
        alarmDepth = 1 /\ t = u /\ i = j

\* The guard is up for a pump that will go on, and so will take it down.
GuardAccounted == alarmDepth # 0 => \E t \in Threads : PumpsAt(stack[t]) # {}

\* A fiber that was switched away in a pump was pumping directly: the deferred
\* pump and the idle loop keep the CPU until they are done.
PumpLeftDirectly == \A t \in Threads \ {host} : PumpsAt(stack[t]) \subseteq {Len(stack[t])}

\* The guard of the alarm pump does what it can: it admits one pump at a time,
\* is up for that pump only, and outlives a thread switch in no other case than
\* a direct pump that a more urgent thread interrupted.
PumpGuarded == OneAlarmPump /\ GuardAccounted /\ PumpLeftDirectly

\* A kernel call never spins: control always comes back to guest code or, when
\* nothing can run, to the idle loop.
KernelReturns == []<>(AtGuest \/ At("idle"))

\* No sleeper is lost: as long as the system keeps coming back to its idle
\* loop, every thread parked by OSSleepTicks is resumed, by its timer or by the
\* reconciler, whatever happened to its timer in the meantime.
IdleSleepersWake ==
    \A t \in Threads : []<>At("idle") => (t \in parks ~> suspend[t] = 0)
=============================
