---------------------------- MODULE GuestQueues ----------------------------
(***************************************************************************)
(* The intrusive lists of the guest thread kernel (runtime/src/hle/os):    *)
(* the run queues, one per priority, the queue of threads blocked on every *)
(* mutex, the join queue of every thread and the wait queues the guest     *)
(* program owns.  A thread has one pair of link fields and one queue       *)
(* pointer, so it can be on one queue at a time.                           *)
(*                                                                         *)
(* All the lists are kept in one record                                    *)
(*   seq      the threads on each queue, head first                        *)
(*   at       the queue pointer of each thread (kThreadQueueOffset)        *)
(*   pending  the priorities whose bit of the scheduler's pending mask     *)
(*            (kSchedulerPendingFlagAddr) is set                           *)
(* and every list operation of the code is an operator from such records   *)
(* to such records.  A smaller number is a more urgent priority.           *)
(***************************************************************************)
EXTENDS Integers, Sequences, FiniteSets, FiniteSetsExt, SequencesExt

CONSTANTS
    Threads,     \* the OSThread structures of the guest program
    Mutexes,     \* its OSMutex structures
    WaitQueues,  \* its own OSThreadQueue structures
    MaxPrio,     \* the least urgent priority of a thread (31 in the code)
    None         \* the null guest pointer

ASSUME QueueConstants ==
    /\ MaxPrio \in Nat
    /\ IsFiniteSet(Threads)
    /\ None \notin Threads /\ None \notin Mutexes

Prios == 0 .. MaxPrio

\* Mutant: one priority past the one that stands for a suspended waiter.
SuspendedWaitPriorityOff == MaxPrio + 2

\* kSuspendedWaitPriority: the priority of a waiting thread that is suspended.
SuspendedWaitPriority == MaxPrio + 1

RunQueue(p)   == <<"run", p>>
MutexQueue(m) == <<"mutex", m>>
JoinQueue(t)  == <<"join", t>>
WaitQueue(w)  == <<"wait", w>>

\* The array has a run queue for every priority.  One more is counted here: what
\* the suspended-wait priority would index, the memory after the array.
RunQueues   == {RunQueue(p) : p \in 0 .. MaxPrio + 1}
BlockQueues == {MutexQueue(m) : m \in Mutexes} \cup {JoinQueue(t) : t \in Threads}
                 \cup {WaitQueue(w) : w \in WaitQueues}
Queues      == RunQueues \cup BlockQueues

ASSUME NoneIsNoQueue == None \notin Queues

Links == [seq : [Queues -> Seq(Threads)],
          at : [Threads -> Queues \cup {None}],
          pending : SUBSET (0 .. MaxPrio + 1)]

EmptyLinks == [seq     |-> [q \in Queues |-> <<>>],
               at      |-> [t \in Threads |-> None],
               pending |-> {}]

-----------------------------------------------------------------------------
\* Mutant: the head of the list goes, whoever it is.
UnlinkHead(s, t) == IF s = <<>> THEN s ELSE Tail(s)

\* UnlinkGuestListNode: s without t; nothing when t is not on the list.
UnlinkGuestListNode(s, t) ==
    IF \E i \in DOMAIN s : s[i] = t
    THEN RemoveAt(s, CHOOSE i \in DOMAIN s : s[i] = t)
    ELSE s

\* The priorities whose run queue is q: one for a run queue, none for another.
PriosOf(q) == {p \in 0 .. MaxPrio + 1 : q = RunQueue(p)}

\* Mutant: the pending bit of a run queue that becomes empty stays set.
RemoveKeepsPending(L, t) ==
    IF L.at[t] = None THEN L
    ELSE [L EXCEPT !.seq[L.at[t]] = UnlinkGuestListNode(@, t), !.at[t] = None]

\* Mutant: the queue pointer is cleared and the thread stays on the list.
RemoveOnlyPointer(L, t) == [L EXCEPT !.at[t] = None]

\* RemoveThreadFromQueue: take t off the queue its pointer names and clear the
\* pending bit of a run queue that this empties (UpdatePendingMaskForQueue).
RemoveThreadFromQueue(L, t) ==
    IF L.at[t] = None THEN L
    ELSE LET q == L.at[t]
             s == UnlinkGuestListNode(L.seq[q], t)
         IN  [seq     |-> [L.seq EXCEPT ![q] = s],
              at      |-> [L.at EXCEPT ![t] = None],
              pending |-> IF s = <<>> THEN L.pending \ PriosOf(q) ELSE L.pending]

\* Mutant: first come, first served.
InsertAtTail(s, pr, t, p) == Append(s, t)

\* The list s with t in front of the first thread less urgent than p.
InsertByPriority(s, pr, t, p) ==
    LET later == {i \in DOMAIN s : pr[s[i]] > p}
    IN  IF later = {} THEN Append(s, t) ELSE InsertAt(s, Min(later), t)

\* InsertThreadIntoQueueByPriority: link t into q in priority order; for a run
\* queue, set its pending bit.  pr gives the priorities of the queued threads.
InsertThreadIntoQueueByPriority(L, pr, q, t, p) ==
    [seq     |-> [L.seq EXCEPT ![q] = InsertByPriority(@, pr, t, p)],
     at      |-> [L.at EXCEPT ![t] = q],
     pending |-> L.pending \cup PriosOf(q)]

\* LinkThreadOnRunQueue followed by MarkRunQueuePending: t becomes the tail of
\* the run queue of priority p, whose pending bit is set.
LinkThreadOnRunQueue(L, t, p) ==
    [seq     |-> [L.seq EXCEPT ![RunQueue(p)] = Append(@, t)],
     at      |-> [L.at EXCEPT ![t] = RunQueue(p)],
     pending |-> L.pending \cup {p}]

\* PopThreadQueueHead: drop the head of q.  The popped thread keeps its queue
\* pointer and the pending mask is the caller's business.
PopThreadQueueHead(L, q) ==
    [seq |-> [L.seq EXCEPT ![q] = Tail(@)], at |-> L.at, pending |-> L.pending]

ClearQueuePointer(L, t) ==
    [seq |-> L.seq, at |-> [L.at EXCEPT ![t] = None], pending |-> L.pending]

\* Mutant: the queue pointer of the popped thread is not cleared.
PopKeepsPointer(L, p) ==
    LET q == RunQueue(p)
    IN  [L EXCEPT !.seq[q] = Tail(@),
                  !.pending = IF Tail(L.seq[q]) = <<>> THEN @ \ {p} ELSE @]

\* The tail of SelectThread's pick: pop the head of run queue p, clear the
\* pending bit when that empties it, clear the thread's queue pointer.
PopRunQueue(L, p) ==
    LET q == RunQueue(p)
    IN  [seq     |-> [L.seq EXCEPT ![q] = Tail(@)],
         at      |-> [L.at EXCEPT ![Head(L.seq[q])] = None],
         pending |-> IF Tail(L.seq[q]) = <<>> THEN L.pending \ {p} ELSE L.pending]

\* PPC_Cntlzw of the pending mask: the most urgent pending priority, or one
\* more than the least urgent priority when no bit is set.
MostUrgent(pending) == Min(pending \cup {MaxPrio + 1})

\* The two clamps of a woken thread's priority to the run queues there are.
ClampPrio(p) == IF p > MaxPrio THEN MaxPrio ELSE p

\* Mutant: the comparison of the priorities is inverted.
LeastUrgentWaiter(L, pr, basePrio, mutexes) ==
    LET blocked == {m \in ToSet(mutexes) : L.seq[MutexQueue(m)] # <<>>}
    IN  Max({basePrio} \cup {pr[Head(L.seq[MutexQueue(m)])] : m \in blocked})

\* ComputeThreadEffectivePriority: the base priority, or that of the first
\* thread waiting for a mutex the thread owns when this is more urgent.
ComputeThreadEffectivePriority(L, pr, basePrio, mutexes) ==
    LET blocked == {m \in ToSet(mutexes) : L.seq[MutexQueue(m)] # <<>>}
    IN  Min({basePrio} \cup {pr[Head(L.seq[MutexQueue(m)])] : m \in blocked})

-----------------------------------------------------------------------------
\* t is on the list of queue q.
OnQueue(L, t, q) == \E i \in DOMAIN L.seq[q] : L.seq[q][i] = t

\* The pending mask has exactly the bits of the run queues that hold a thread.
PendingMatches(L) == L.pending = {p \in 0 .. MaxPrio + 1 : L.seq[RunQueue(p)] # <<>>}

\* t is on some queue.
Linked(L, t) == \E q \in Queues : OnQueue(L, t, q)
=============================================================================
