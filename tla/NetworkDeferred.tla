-------------------------- MODULE NetworkDeferred --------------------------
(***************************************************************************)
(* Blocking and asynchronous calls on /dev/net/ip/top that the scheduler   *)
(* thread must not wait for (network_deferred.cpp): name look-ups on a     *)
(* worker of their own, polls and blocking connects probed by the pump.    *)
(*                                                                         *)
(* A synchronous caller parks on a wait queue in its own stack frame       *)
(* (nand_isfs.cpp); the pump (os_alarm.cpp) later stores its result and    *)
(* wakes it.  By then the caller may have been cancelled, and a new thread *)
(* may be parked on the same address.  An asynchronous caller is answered  *)
(* by a callback, dispatched from the queue shared with the NAND calls     *)
(* (nand_async.cpp).                                                       *)
(***************************************************************************)
EXTENDS NetworkSockets, SequencesExt

CONSTANTS
    Threads,   \* guest threads that block in the device (others only submit and close)
    MaxOps     \* bound on the calls that are explored

ASSUME DeferredAssumptions == MaxOps \in Nat /\ None \notin Threads

VARIABLES
    tstate,    \* state of each OSThread
    cookie,    \* the token in each thread's wait-queue frame (waitQueue + 8)
    want,      \* the token each caller will redeem (TryDeferredNetworkIosSync)
    nextToken, \* g_store.nextToken; an asynchronous call's callbackArg here
    resolving, \* look-ups that a worker is performing
    completed, \* g_store.completed
    polls,     \* g_store.pendingPolls
    connects,  \* g_store.pendingConnects
    results,   \* g_store.syncResults
    callbacks, \* g_pendingNandCallbacks
    dispatch,  \* callbacks that are running, each with the thread it runs on
    pump       \* ProcessAlarmQueue: its phase, its thread, what is left to serve

callVars  == <<tstate, cookie, want, nextToken>>
storeVars == <<resolving, completed, polls, connects, results>>
vars      == <<socketVars, callVars, storeVars, callbacks, dispatch, pump>>

Outcomes == {"pending", "ok", "err"}
Op == [id : 1 .. MaxOps, kind : {"dns", "poll", "connect"}, thread : Threads \cup {None},
       fd : Fds \cup {None}, native : Natives \cup {None}, gen : 0 .. MaxGen,
       endless : BOOLEAN, late : BOOLEAN, outcome : Outcomes]

Pumps == [phase : {"idle", "serve", "drain"}, host : Threads \cup {None}, todo : Seq(Op)]
Idle == [phase |-> "idle", host |-> None, todo |-> <<>>]

DeferredInit ==
    /\ tstate = [t \in Threads |-> "run"]
    /\ cookie = [t \in Threads |-> 0] /\ want = [t \in Threads |-> 0]
    /\ nextToken = 1
    /\ resolving = {} /\ results = {}
    /\ completed = <<>> /\ polls = <<>> /\ connects = <<>> /\ callbacks = <<>>
    /\ dispatch = <<>> /\ pump = Idle

Init == SocketInit /\ DeferredInit

\* Guest code, on these threads or on others, runs between the pump's steps only:
\* they share the scheduler thread.
GuestRuns == pump.phase = "idle"

HostsCallback(t) == \E i \in DOMAIN dispatch : dispatch[i].host = t

-----------------------------------------------------------------------------
(* Submission.                                                             *)

NoIdentity == [fd |-> None, native |-> None, gen |-> 0]

NewOp(kind, t, d, endless, outcome) ==
    [id |-> nextToken, kind |-> kind, thread |-> t, fd |-> d.fd, native |-> d.native,
     gen |-> d.gen, endless |-> endless, late |-> FALSE, outcome |-> outcome]

\* TryDeferredNetworkIosSync: the token goes into the frame, and the caller sleeps
\* on it.  OSSleepThread returns at once while the scheduler is disabled; the
\* caller then finds no result and reports -101.
Park(t) ==
    /\ cookie' = [cookie EXCEPT ![t] = nextToken]
    /\ want' = [want EXCEPT ![t] = nextToken]
    /\ \E st \in {"wait", "run"} : tstate' = [tstate EXCEPT ![t] = st]

\* StartDeferred on the synchronous route, where t waits, or on the asynchronous
\* one, where t is None and any thread may be the caller.
StartDeferred(t) ==
    /\ GuestRuns /\ nextToken <= MaxOps
    /\ nextToken' = nextToken + 1
    /\ IF t # None THEN tstate[t] = "run" /\ Park(t) ELSE UNCHANGED <<tstate, cookie, want>>
    /\ UNCHANGED <<completed, results, callbacks, dispatch, pump>>

StartDns(t) ==
    /\ StartDeferred(t)
    /\ resolving' = resolving \cup {NewOp("dns", t, NoIdentity, FALSE, "pending")}
    /\ UNCHANGED <<socketVars, polls, connects>>

\* An endless poll is not made from a completion callback (the guest's discipline).
StartPoll(t, fd, endless) ==
    /\ StartDeferred(t)
    /\ endless /\ t # None => ~HostsCallback(t)
    /\ polls' = Append(polls, NewOp("poll", t, IdentityOf(fd), endless, "pending"))
    /\ UNCHANGED <<socketVars, resolving, connects>>

\* A blocking SOConnect issues the host connect at once, and parks the call even
\* when that settles it.
StartConnect(t, fd) ==
    /\ Open(fd) /\ ~sock[fd].nonblocking
    /\ StartDeferred(t)
    /\ \E st \in HostConnect(conn[sock[fd].native]) :
          /\ conn' = [conn EXCEPT ![sock[fd].native] = st]
          /\ connects' = Append(connects,
                NewOp("connect", t, IdentityOf(fd), FALSE,
                      CASE st = "up"     -> "ok"
                        [] st = "failed" -> "err"
                        [] OTHER         -> "pending"))
    /\ UNCHANGED <<sock, nextGen, ssl, resolving, polls>>

\* FinishDeferredIosWait on the woken thread: the result is taken from the map.
TakeSyncResult(t) ==
    /\ pump.phase = "idle" /\ tstate[t] = "ready"
    /\ results' = results \ {want[t]}
    /\ tstate' = [tstate EXCEPT ![t] = "run"]
    /\ want' = [want EXCEPT ![t] = 0]
    /\ UNCHANGED <<socketVars, cookie, nextToken, resolving, completed, polls, connects,
                   callbacks, dispatch, pump>>

-----------------------------------------------------------------------------
(* What else the guest does meanwhile.                                     *)

\* Mutant: an aborted connect is forgotten.
DropsAborted(fds) ==
    connects' = SelectSeq(connects, LAMBDA op : ~(op.fd \in fds /\ op.outcome = "pending"))

AbortPendingDeferredConnects(fds) ==
    connects' = [i \in DOMAIN connects |->
                   IF connects[i].fd \in fds /\ connects[i].outcome = "pending"
                   THEN [connects[i] EXCEPT !.outcome = "err"] ELSE connects[i]]

OtherStores == <<callVars, resolving, completed, polls, results, callbacks, dispatch, pump>>

\* SOClose, and SOCleanup for every open socket.
CloseSockets(fds) ==
    /\ GuestRuns /\ fds # {} /\ \A fd \in fds : Open(fd)
    /\ DeleteWiiSockets(fds)
    /\ AbortPendingDeferredConnects(fds)
    /\ UNCHANGED OtherStores

\* SOShutdown of a stream's write half: the host connection stays as it is, or a
\* pending one fails.
ShutdownSocket(fd) ==
    /\ GuestRuns /\ Open(fd)
    /\ LET n == sock[fd].native IN
       \E st \in {conn[n]} \cup (IF conn[n] = "inflight" THEN {"failed"} ELSE {}) :
          conn' = [conn EXCEPT ![n] = st]
    /\ AbortPendingDeferredConnects({fd})
    /\ UNCHANGED <<sock, nextGen, ssl, OtherStores>>

OtherSocketCall ==
    GuestRuns /\ SocketCall /\ UNCHANGED <<OtherStores, connects>>

\* OSCancelThread: the thread leaves whatever queue it is on, and its host stack
\* goes.  It is not cancelled while a completion callback runs on it (the guest's
\* discipline).
CancelThread(t) ==
    /\ pump.phase = "idle" /\ tstate[t] # "dead" /\ ~HostsCallback(t)
    /\ tstate' = [tstate EXCEPT ![t] = "dead"]
    /\ want' = [want EXCEPT ![t] = 0]
    /\ UNCHANGED <<socketVars, cookie, nextToken, storeVars, callbacks, dispatch, pump>>

\* A new thread on the same OSThread and stack: the frame keeps its old bytes.
RecreateThread(t) ==
    /\ pump.phase = "idle" /\ tstate[t] = "dead"
    /\ tstate' = [tstate EXCEPT ![t] = "run"]
    /\ UNCHANGED <<socketVars, cookie, want, nextToken, storeVars, callbacks, dispatch, pump>>

-----------------------------------------------------------------------------
(* The look-up workers, the clock and the host.                            *)

\* RunWorker: the look-up succeeds or fails, and either way it is published.
ResolveDeferredDns ==
    \E op \in resolving, outcome \in {"ok", "err"} :
       /\ resolving' = resolving \ {op}
       /\ completed' = Append(completed, [op EXCEPT !.outcome = outcome])
       /\ UNCHANGED <<socketVars, callVars, polls, connects, results, callbacks, dispatch, pump>>

\* The pump reads the clock once, so a deadline passes between two pumps.
DeadlinePasses ==
    /\ pump.phase = "idle"
    /\ \E op \in {op \in Range(polls) \cup Range(connects) : ~op.endless /\ ~op.late} :
          /\ polls' = ReplaceAll(polls, op, [op EXCEPT !.late = TRUE])
          /\ connects' = ReplaceAll(connects, op, [op EXCEPT !.late = TRUE])
    /\ UNCHANGED <<socketVars, callVars, resolving, completed, results, callbacks, dispatch, pump>>

HostStep ==
    HostSettles /\ UNCHANGED <<callVars, storeVars, callbacks, dispatch, pump>>

-----------------------------------------------------------------------------
(* Network_HLE_ProcessCompletions, one call at a time: the look-ups taken  *)
(* off `completed`, then the polls, then the connects; then the drain.     *)

\* Mutant: a nested pump drains too.
AlwaysDrains(queue) == queue # <<>>

\* NandProcessPendingCallbacks: a pump that runs inside a callback leaves the queue
\* to the outermost one.
Drains(queue) == queue # <<>> /\ dispatch = <<>>

\* Where the pump stands once todo is left to serve and queue to dispatch.
PumpAt(host, todo, queue) ==
    IF todo # <<>> THEN [phase |-> "serve", host |-> host, todo |-> todo]
    ELSE IF Drains(queue) THEN [phase |-> "drain", host |-> host, todo |-> <<>>]
    ELSE Idle

PumpStarts(h) ==
    /\ pump.phase = "idle"
    /\ h # None => tstate[h] = "run"
    /\ pump' = PumpAt(h, completed \o polls \o connects, callbacks)
    /\ completed' = <<>>
    /\ UNCHANGED <<socketVars, callVars, resolving, polls, connects, results, callbacks,
                   dispatch>>

\* Mutant: the token in the frame is not compared.
StateAndQueueOnly(op) == tstate[op.thread] = "wait"

\* The thread still waits, alone, on this frame, and the frame carries the token
\* of this call.
DeferredNetworkWaiterIsValid(op) ==
    tstate[op.thread] = "wait" /\ cookie[op.thread] = op.id

\* Mutant: the waiter is not looked at.
NeverDeserted(op) == FALSE

Deserted(op) == op.thread # None /\ ~DeferredNetworkWaiterIsValid(op)

Undelivered == UNCHANGED <<tstate, results, callbacks>>

\* DeliverDeferredNetworkResult: output and result are committed, then the waiter
\* is woken without a reschedule; or the callback is queued.
Deliver(op) ==
    IF op.thread # None
    THEN /\ results' = results \cup {op.id}
         /\ tstate' = [tstate EXCEPT ![op.thread] = "ready"]
         /\ UNCHANGED callbacks
    ELSE callbacks' = Append(callbacks, op.id) /\ UNCHANGED <<tstate, results>>

Serving(kind) == pump.phase = "serve" /\ Head(pump.todo).kind = kind

\* Head(pump.todo) has been served.
TurnToNextCall ==
    /\ pump' = PumpAt(pump.host, Tail(pump.todo), callbacks')
    /\ UNCHANGED <<nextGen, ssl, conn, cookie, want, nextToken, resolving, completed, dispatch>>

ServeDns ==
    /\ Serving("dns")
    /\ IF Deserted(Head(pump.todo)) THEN Undelivered ELSE Deliver(Head(pump.todo))
    /\ TurnToNextCall
    /\ UNCHANGED <<sock, polls, connects>>

\* Mutant: a dead descriptor is skipped.
DeadIsNotReady(op) == IF SocketIdentityIsCurrent(op) THEN {TRUE, FALSE} ELSE {FALSE}

\* ProbeNow: a dead identity is ready with POLLNVAL, a live one is what the host says.
ProbeNow(op) == IF SocketIdentityIsCurrent(op) THEN {TRUE, FALSE} ELSE {TRUE}

ServePoll ==
    /\ Serving("poll")
    /\ LET op == Head(pump.todo) IN
       \/ Deserted(op) /\ polls' = RemoveFirst(polls, op) /\ Undelivered
       \/ /\ ~Deserted(op)
          /\ \E ready \in ProbeNow(op) :
                IF ready \/ op.late THEN polls' = RemoveFirst(polls, op) /\ Deliver(op)
                                    ELSE UNCHANGED polls /\ Undelivered
    /\ TurnToNextCall
    /\ UNCHANGED <<sock, connects>>

\* ProbeDeferredConnect: an outcome fixed at submission or by an abort stands;
\* otherwise a stale socket fails, a settled one reports, and an unsettled one
\* waits for its deadline.
ProbeDeferredConnect(op) ==
    IF op.outcome # "pending" THEN op.outcome
    ELSE IF ~SocketIdentityIsCurrent(op) THEN "err"
    ELSE CASE conn[op.native] = "up"       -> "ok"
           [] conn[op.native] = "inflight" -> IF op.late THEN "err" ELSE "pending"
           [] OTHER                        -> "err"

\* A success is only recorded in the slot the call was made on.
Connected(op) == ProbeDeferredConnect(op) = "ok" /\ SocketIdentityIsCurrent(op)

ServeConnect ==
    /\ Serving("connect")
    /\ LET op == Head(pump.todo) IN
       \/ Deserted(op) /\ connects' = RemoveFirst(connects, op) /\ Undelivered /\ UNCHANGED sock
       \/ /\ ~Deserted(op) /\ ProbeDeferredConnect(op) = "pending"
          /\ Undelivered /\ UNCHANGED <<connects, sock>>
       \/ /\ ~Deserted(op) /\ ProbeDeferredConnect(op) # "pending"
          /\ sock' = IF Connected(op) THEN [sock EXCEPT ![op.fd].peer = TRUE] ELSE sock
          /\ connects' = RemoveFirst(connects, op)
          /\ Deliver(op)
    /\ TurnToNextCall
    /\ UNCHANGED polls

\* The drain runs the oldest callback on the thread that pumps.
DispatchCallback ==
    /\ pump.phase = "drain"
    /\ dispatch' = Append(dispatch, [id |-> Head(callbacks), host |-> pump.host])
    /\ callbacks' = Tail(callbacks)
    /\ pump' = Idle
    /\ UNCHANGED <<socketVars, callVars, storeVars>>

\* Mutant: the drain depth is not lowered.
LeavesDepthRaised ==
    /\ pump.phase = "idle" /\ dispatch # <<>>
    /\ pump' = Idle
    /\ UNCHANGED <<socketVars, callVars, storeVars, callbacks, dispatch>>

\* The callback returns into the drain loop it was called from.
CallbackReturns ==
    /\ pump.phase = "idle" /\ dispatch # <<>>
    /\ LET h == Last(dispatch).host IN
       /\ h # None => tstate[h] = "run"
       /\ pump' = IF callbacks # <<>> THEN [phase |-> "drain", host |-> h, todo |-> <<>>]
                                      ELSE Idle
    /\ dispatch' = Front(dispatch)
    /\ UNCHANGED <<socketVars, callVars, storeVars, callbacks>>

Pumping == ServeDns \/ ServePoll \/ ServeConnect \/ DispatchCallback

Next ==
    \/ \E t \in Threads \cup {None} : StartDns(t)
    \/ \E t \in Threads \cup {None}, fd \in Fds, endless \in BOOLEAN :
          StartPoll(t, fd, endless)
    \/ \E t \in Threads \cup {None}, fd \in Fds : StartConnect(t, fd)
    \/ \E t \in Threads : TakeSyncResult(t)
    \/ \E fds \in SUBSET Fds : CloseSockets(fds)
    \/ \E fd \in Fds : ShutdownSocket(fd)
    \/ OtherSocketCall
    \/ \E t \in Threads : CancelThread(t)
    \/ \E t \in Threads : RecreateThread(t)
    \/ ResolveDeferredDns
    \/ DeadlinePasses
    \/ HostStep
    \/ \E h \in Threads \cup {None} : PumpStarts(h)
    \/ Pumping
    \/ CallbackReturns

\* A worker's look-up ends and the scheduler pumps on every retrace and from its
\* idle loop.  Time passes and guest code advances between the pumps, which are
\* what disables these actions again and again: hence strong fairness.
Fairness ==
    /\ WF_vars(ResolveDeferredDns)
    /\ WF_vars(PumpStarts(None))
    /\ WF_vars(Pumping)
    /\ SF_vars(DeadlinePasses)
    /\ SF_vars(CallbackReturns)
    /\ \A t \in Threads : SF_vars(TakeSyncResult(t))

Spec == Init /\ [][Next]_vars /\ Fairness

-----------------------------------------------------------------------------
TypeOK ==
    /\ SocketsTyped
    /\ tstate \in [Threads -> {"run", "wait", "ready", "dead"}]
    /\ cookie \in [Threads -> 0 .. MaxOps]
    /\ want \in [Threads -> 0 .. MaxOps]
    /\ nextToken \in 1 .. MaxOps + 1
    /\ resolving \subseteq Op /\ results \subseteq 1 .. MaxOps
    /\ {completed, polls, connects} \subseteq Seq(Op)
    /\ callbacks \in Seq(1 .. MaxOps)
    /\ dispatch \in Seq([id : 1 .. MaxOps, host : Threads \cup {None}])
    /\ pump \in Pumps

\* A woken caller finds the result of the very call it made: neither a late answer
\* to a cancelled predecessor nor somebody else's completion wakes it
\* (FinishDeferredIosWait never reports -101 to a thread that slept).
WokenWithOwnResult ==
    \A t \in Threads : tstate[t] = "ready" => want[t] \in results

InFlight(id) ==
    \/ \E op \in resolving \cup Range(completed) \cup Range(polls) \cup Range(connects) :
          op.id = id
    \/ \E op \in Range(pump.todo) : op.kind = "dns" /\ op.id = id

\* A parked caller's call is in one of the stores until it is answered: no path
\* through the pump drops a call that somebody still waits for.
NoLostCall ==
    \A t \in Threads : tstate[t] = "wait" => InFlight(want[t])

\* Output and result are only ever committed for a call its thread still waits for:
\* nothing is written through the buffer of a caller that has gone.
AnsweredWhileWaiting ==
    [][\A id \in results' \ results : \E t \in Threads : tstate[t] = "wait" /\ want[t] = id]_vars

\* Completion callbacks run one at a time, however the callbacks chain new calls
\* and whichever nested pump completes those.
OneCallbackAtATime == Len(dispatch) <= 1

Waiting(id) == \E t \in Threads : tstate[t] = "wait" /\ want[t] = id

\* A caller blocked in a look-up, a connect or a timed poll gets an answer (or is
\* cancelled), and so does one blocked in an endless poll once its socket is gone.
BlockedCallsReturn ==
    \A id \in 1 .. MaxOps :
       (/\ Waiting(id)
        /\ ~\E op \in Range(polls) :
              op.id = id /\ op.endless /\ SocketIdentityIsCurrent(op))
       ~> ~Waiting(id)

\* A queued completion callback is dispatched.
CallbacksDispatched ==
    \A id \in 1 .. MaxOps :
       (\E i \in DOMAIN callbacks : callbacks[i] = id)
       ~> ~(\E i \in DOMAIN callbacks : callbacks[i] = id)

\* Deferred calls complete, the synchronous ones by waking their caller and the
\* asynchronous ones by their callback (network_deferred.cpp
\* DeliverDeferredNetworkResult).
CallsComplete == BlockedCallsReturn /\ CallbacksDispatched
=============================================================================
