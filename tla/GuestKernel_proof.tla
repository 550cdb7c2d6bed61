------------------------- MODULE GuestKernel_proof -------------------------
(***************************************************************************)
(* Proofs about GuestKernel.                                               *)
(***************************************************************************)
EXTENDS GuestKernel, TLAPS, NaturalsInduction, WellFoundedInduction

-----------------------------------------------------------------------------
(***************************************************************************)
(* Lemmas about the list operators of GuestQueues.                         *)
(***************************************************************************)

\* A set of naturals that is not empty has a least element, which Min returns.
LEMMA MinInSet ==
    ASSUME NEW S \in SUBSET Nat, S # {}
    PROVE  Min(S) \in S /\ \A y \in S : Min(S) <= y
<1>1. IsWellFoundedOn(OpToRel(<, Nat), Nat)
  BY NatLessThanWellFounded
<1>2. PICK x \in S : \A y \in S : ~ (<<y, x>> \in OpToRel(<, Nat))
  BY <1>1, WFMin
<1>3. ASSUME NEW y \in S
      PROVE  x <= y
  <2>1. y < x => <<y, x>> \in OpToRel(<, Nat)
    BY DEF OpToRel
  <2>2. ~ (y < x)
    BY <1>2, <2>1
  <2> QED
    BY <2>2
<1> QED
  BY <1>3 DEF Min

\* Taking an element out of a list, or putting one in, leaves a list.
LEMMA RemoveAtType ==
    ASSUME NEW S, NEW s \in Seq(S), NEW i \in DOMAIN s
    PROVE  RemoveAt(s, i) \in Seq(S)
BY DEF RemoveAt

\* Inserting into a queue keeps it a queue.
LEMMA InsertAtType ==
    ASSUME NEW S, NEW s \in Seq(S), NEW i \in DOMAIN s, NEW x \in S
    PROVE  InsertAt(s, i, x) \in Seq(S) /\ InsertAt(s, i, x) # <<>>
BY DEF InsertAt

\* Unlinking from a queue keeps it a queue.
LEMMA UnlinkType ==
    ASSUME NEW S, NEW s \in Seq(S), NEW t
    PROVE  UnlinkGuestListNode(s, t) \in Seq(S)
BY RemoveAtType DEF UnlinkGuestListNode

\* Inserting by priority keeps a queue a queue.
LEMMA InsertByPriorityType ==
    ASSUME NEW s \in Seq(Threads), NEW pr, NEW t \in Threads, NEW p
    PROVE  InsertByPriority(s, pr, t, p) \in Seq(Threads) /\ InsertByPriority(s, pr, t, p) # <<>>
<1> DEFINE later == {i \in DOMAIN s : pr[s[i]] > p}
<1>1. CASE later = {}
  BY <1>1 DEF InsertByPriority
<1>2. CASE later # {}
  <2>1. Min(later) \in DOMAIN s
    <3>1. later \in SUBSET Nat
      OBVIOUS
    <3>2. Min(later) \in later
      BY <3>1, <1>2, MinInSet
    <3> QED
      BY <3>2
  <2> QED
    BY <2>1, <1>2, InsertAtType DEF InsertByPriority
<1> QED
  BY <1>1, <1>2

\* Distinct priorities have distinct run queues, and none is a wait queue.
LEMMA QueueFacts ==
    /\ \A p, q : RunQueue(p) = RunQueue(q) => p = q
    /\ \A p : RunQueue(p) \notin BlockQueues
    /\ \A p \in 0 .. MaxPrio + 1 : RunQueue(p) \in Queues
    /\ BlockQueues \subseteq Queues
    /\ \A t \in Threads : JoinQueue(t) \in BlockQueues
    /\ \A m \in Mutexes : MutexQueue(m) \in BlockQueues
    /\ \A w \in WaitQueues : WaitQueue(w) \in BlockQueues
    /\ \A q \in Queues : q \in BlockQueues \/ \E p \in 0 .. MaxPrio + 1 : q = RunQueue(p)
BY DEF RunQueue, MutexQueue, JoinQueue, WaitQueue, Queues, RunQueues, BlockQueues

\* A list operation keeps the lists well formed, and the pending mask exact.
LEMMA RemoveLinks ==
    ASSUME NEW L \in Links, NEW t \in Threads
    PROVE  /\ RemoveThreadFromQueue(L, t) \in Links
           /\ PendingMatches(L) => PendingMatches(RemoveThreadFromQueue(L, t))
<1>1. CASE L.at[t] = None
  BY <1>1 DEF RemoveThreadFromQueue
<1>2. CASE L.at[t] # None
  <2> DEFINE q == L.at[t]
             s == UnlinkGuestListNode(L.seq[q], t)
             R == RemoveThreadFromQueue(L, t)
  <2>1. /\ R.seq = [L.seq EXCEPT ![q] = s]
        /\ R.at = [L.at EXCEPT ![t] = None]
        /\ R.pending = IF s = <<>> THEN L.pending \ PriosOf(q) ELSE L.pending
        /\ R = [seq |-> R.seq, at |-> R.at, pending |-> R.pending]
    BY <1>2 DEF RemoveThreadFromQueue
  <2>2. q \in Queues
    BY <1>2 DEF Links
  <2>3. L.seq \in [Queues -> Seq(Threads)] /\ L.at \in [Threads -> Queues \cup {None}]
    BY DEF Links
  <2>4. s \in Seq(Threads)
    BY <2>2, <2>3, UnlinkType
  <2>5. R \in Links
    <3> HIDE DEF q, s, R
    <3>1. R.seq \in [Queues -> Seq(Threads)]
      BY <2>1, <2>2, <2>3, <2>4
    <3>2. R.at \in [Threads -> Queues \cup {None}]
      BY <2>1, <2>3
    <3>3. R.pending \in SUBSET (0 .. MaxPrio + 1)
      BY <2>1 DEF Links
    <3> QED
      BY <2>1, <3>1, <3>2, <3>3 DEF Links
  <2>6. ASSUME PendingMatches(L)
        PROVE  PendingMatches(R)
    <3> SUFFICES ASSUME NEW p \in 0 .. MaxPrio + 1
                 PROVE  p \in R.pending <=> R.seq[RunQueue(p)] # <<>>
      BY <2>5 DEF PendingMatches, Links
    <3>1. p \in L.pending <=> L.seq[RunQueue(p)] # <<>>
      BY <2>6 DEF PendingMatches
    <3>2. RunQueue(p) \in Queues
      BY QueueFacts
    <3>3. p \in PriosOf(q) <=> q = RunQueue(p)
      BY DEF PriosOf
    <3>4. CASE q = RunQueue(p)
      <4>1. R.seq[RunQueue(p)] = s
        BY <2>1, <2>3, <3>2, <3>4
      <4>2. L.seq[q] = <<>> => s = <<>>
        BY DEF UnlinkGuestListNode
      <4> QED
        BY <2>1, <3>1, <3>3, <3>4, <4>1, <4>2
    <3>5. CASE q # RunQueue(p)
      BY <2>1, <2>3, <3>1, <3>2, <3>3, <3>5
    <3> QED
      BY <3>4, <3>5
  <2> QED
    BY <2>5, <2>6
<1> QED
  BY <1>1, <1>2

\* InsertThreadIntoQueueByPriority keeps the links typed and the pending bits true.
LEMMA InsertLinks ==
    ASSUME NEW L \in Links, NEW pr, NEW q \in Queues, NEW t \in Threads, NEW p
    PROVE  LET R == InsertThreadIntoQueueByPriority(L, pr, q, t, p)
           IN  R \in Links /\ (PendingMatches(L) => PendingMatches(R))
<1> DEFINE s == InsertByPriority(L.seq[q], pr, t, p)
           R == InsertThreadIntoQueueByPriority(L, pr, q, t, p)
<1>1. L.seq \in [Queues -> Seq(Threads)] /\ L.at \in [Threads -> Queues \cup {None}]
  BY DEF Links
<1>2. s \in Seq(Threads) /\ s # <<>>
  BY <1>1, InsertByPriorityType
<1>3. /\ R.seq = [L.seq EXCEPT ![q] = s]
      /\ R.at = [L.at EXCEPT ![t] = q]
      /\ R.pending = L.pending \cup PriosOf(q)
      /\ R = [seq |-> R.seq, at |-> R.at, pending |-> R.pending]
  BY DEF InsertThreadIntoQueueByPriority
<1> HIDE DEF s, R
<1>4. R \in Links
  <2>1. R.seq \in [Queues -> Seq(Threads)]
    BY <1>1, <1>2, <1>3
  <2>2. R.at \in [Threads -> Queues \cup {None}]
    BY <1>1, <1>3
  <2>3. R.pending \in SUBSET (0 .. MaxPrio + 1)
    BY <1>3 DEF Links, PriosOf
  <2> QED
    BY <1>3, <2>1, <2>2, <2>3 DEF Links
<1>5. ASSUME PendingMatches(L)
      PROVE  PendingMatches(R)
  <2> SUFFICES ASSUME NEW u \in 0 .. MaxPrio + 1
               PROVE  u \in R.pending <=> R.seq[RunQueue(u)] # <<>>
    BY <1>4 DEF PendingMatches, Links
  <2>1. u \in L.pending <=> L.seq[RunQueue(u)] # <<>>
    BY <1>5 DEF PendingMatches
  <2>2. RunQueue(u) \in Queues
    BY QueueFacts
  <2>3. u \in PriosOf(q) <=> q = RunQueue(u)
    BY DEF PriosOf
  <2> QED
    BY <1>1, <1>2, <1>3, <2>1, <2>2, <2>3
<1> QED
  BY <1>4, <1>5 DEF R

\* LinkThreadOnRunQueue keeps the links typed and the pending bits true.
LEMMA LinkRunQueue ==
    ASSUME NEW L \in Links, NEW t \in Threads, NEW p \in 0 .. MaxPrio + 1
    PROVE  /\ LinkThreadOnRunQueue(L, t, p) \in Links
           /\ PendingMatches(L) => PendingMatches(LinkThreadOnRunQueue(L, t, p))
<1> DEFINE R == LinkThreadOnRunQueue(L, t, p)
<1>1. L.seq \in [Queues -> Seq(Threads)] /\ L.at \in [Threads -> Queues \cup {None}]
  BY DEF Links
<1>2. /\ R.seq = [L.seq EXCEPT ![RunQueue(p)] = Append(@, t)]
      /\ R.at = [L.at EXCEPT ![t] = RunQueue(p)]
      /\ R.pending = L.pending \cup {p}
      /\ R = [seq |-> R.seq, at |-> R.at, pending |-> R.pending]
  BY DEF LinkThreadOnRunQueue
<1> HIDE DEF R
<1>3. RunQueue(p) \in Queues
  BY QueueFacts
<1>4. R \in Links
  <2>1. R.seq \in [Queues -> Seq(Threads)]
    BY <1>1, <1>2, <1>3
  <2>2. R.at \in [Threads -> Queues \cup {None}]
    BY <1>1, <1>2, <1>3
  <2>3. R.pending \in SUBSET (0 .. MaxPrio + 1)
    BY <1>2 DEF Links
  <2> QED
    BY <1>2, <2>1, <2>2, <2>3 DEF Links
<1>5. ASSUME PendingMatches(L)
      PROVE  PendingMatches(R)
  <2> SUFFICES ASSUME NEW u \in 0 .. MaxPrio + 1
               PROVE  u \in R.pending <=> R.seq[RunQueue(u)] # <<>>
    BY <1>4 DEF PendingMatches, Links
  <2>1. u \in L.pending <=> L.seq[RunQueue(u)] # <<>>
    BY <1>5 DEF PendingMatches
  <2>2. RunQueue(u) \in Queues /\ (RunQueue(u) = RunQueue(p) => u = p)
    BY QueueFacts
  <2>3. Append(L.seq[RunQueue(p)], t) # <<>>
    BY <1>1, <1>3
  <2> QED
    BY <1>1, <1>2, <1>3, <2>1, <2>2, <2>3
<1> QED
  BY <1>4, <1>5 DEF R

\* So does taking the head of a wait queue.
LEMMA PopBlockQueue ==
    ASSUME NEW L \in Links, NEW q \in BlockQueues, L.seq[q] # <<>>, NEW t \in Threads
    PROVE  LET P == PopThreadQueueHead(L, q)
               C == ClearQueuePointer(P, t)
           IN  /\ P \in Links /\ (PendingMatches(L) => PendingMatches(P))
               /\ C \in Links /\ (PendingMatches(L) => PendingMatches(C))
<1> DEFINE P == PopThreadQueueHead(L, q)
           C == ClearQueuePointer(P, t)
<1>1. L.seq \in [Queues -> Seq(Threads)] /\ L.at \in [Threads -> Queues \cup {None}]
  BY DEF Links
<1>2. P \in Links /\ P.seq = [L.seq EXCEPT ![q] = Tail(@)] /\ P.pending = L.pending
  <2>1. q \in Queues /\ Tail(L.seq[q]) \in Seq(Threads)
    BY <1>1, QueueFacts
  <2>2. P.seq = [L.seq EXCEPT ![q] = Tail(L.seq[q])] /\ P.at = L.at /\ P.pending = L.pending
    BY <1>1 DEF Links, PopThreadQueueHead
  <2>3. P.seq \in [Queues -> Seq(Threads)]
    BY <1>1, <2>1, <2>2
  <2>4. P = [seq |-> P.seq, at |-> P.at, pending |-> P.pending]
    BY DEF Links, PopThreadQueueHead
  <2> QED
    BY <2>2, <2>3, <2>4 DEF Links
<1>3. C \in Links /\ C.seq = P.seq /\ C.pending = L.pending
  BY <1>1, <1>2 DEF Links, ClearQueuePointer
<1>4. \A p \in 0 .. MaxPrio + 1 : P.seq[RunQueue(p)] = L.seq[RunQueue(p)]
  BY <1>1, <1>2, QueueFacts
<1> QED
  BY <1>2, <1>3, <1>4 DEF PendingMatches

\* So does taking the head of a run queue.
LEMMA PopRunQueueLinks ==
    ASSUME NEW L \in Links, NEW p \in 0 .. MaxPrio + 1, L.seq[RunQueue(p)] # <<>>
    PROVE  /\ PopRunQueue(L, p) \in Links
           /\ PendingMatches(L) => PendingMatches(PopRunQueue(L, p))
           /\ Head(L.seq[RunQueue(p)]) \in Threads
<1> DEFINE R == PopRunQueue(L, p)
           s == L.seq[RunQueue(p)]
<1>1. L.seq \in [Queues -> Seq(Threads)] /\ L.at \in [Threads -> Queues \cup {None}]
  BY DEF Links
<1>2. RunQueue(p) \in Queues
  BY QueueFacts
<1>3. s \in Seq(Threads) /\ Head(s) \in Threads /\ Tail(s) \in Seq(Threads)
  BY <1>1, <1>2
<1>4. /\ R.seq = [L.seq EXCEPT ![RunQueue(p)] = Tail(s)]
      /\ R.at = [L.at EXCEPT ![Head(s)] = None]
      /\ R.pending = IF Tail(s) = <<>> THEN L.pending \ {p} ELSE L.pending
      /\ R = [seq |-> R.seq, at |-> R.at, pending |-> R.pending]
  BY <1>1, <1>2 DEF PopRunQueue
<1> HIDE DEF R, s
<1>5. R \in Links
  BY <1>1, <1>2, <1>3, <1>4 DEF Links
<1>6. ASSUME PendingMatches(L)
      PROVE  PendingMatches(R)
  <2> SUFFICES ASSUME NEW u \in 0 .. MaxPrio + 1
               PROVE  u \in R.pending <=> R.seq[RunQueue(u)] # <<>>
    BY <1>5 DEF PendingMatches, Links
  <2>1. u \in L.pending <=> L.seq[RunQueue(u)] # <<>>
    BY <1>6 DEF PendingMatches
  <2>2. RunQueue(u) \in Queues /\ (RunQueue(u) = RunQueue(p) => u = p)
    BY QueueFacts
  <2> QED
    BY <1>1, <1>2, <1>4, <2>1, <2>2 DEF s
<1> QED
  BY <1>3, <1>5, <1>6 DEF R, s

-----------------------------------------------------------------------------
(***************************************************************************)
(* Lemmas about frames and stacks.                                         *)
(***************************************************************************)

\* The frames TypeOK allows, and the stacks.
GoodFrames == {f \in Frames : FrameOK(f)}
Stacks     == [Threads -> Seq(GoodFrames)]

\* The functions whose frame needs an argument.
NeedThread == {"lock", "relock", "slept", "suspend", "resume", "ticked", "unlockAll",
               "joined", "returned"}
NeedQueue  == {"sleep", "slept", "wake", "wakeNoSwitch"}
NeedMutex  == {"lock", "relock"}

\* FrameOK, one argument at a time.
LEMMA GoodFrame ==
    ASSUME NEW f
    PROVE  f \in GoodFrames <=>
             /\ f \in Frames
             /\ f.pc \in NeedThread => f.thr # None
             /\ f.pc \in NeedQueue => f.que # None
             /\ f.pc \in NeedMutex => f.mut # None
BY DEF GoodFrames, FrameOK, NeedThread, NeedQueue, NeedMutex

\* A frame with one field replaced.
LEMMA With_thr ==
    ASSUME NEW f \in Frames, NEW x \in Threads \cup {None}
    PROVE  LET g == [f EXCEPT !.thr = x]
           IN  g \in Frames /\ g.thr = x /\ g.pc = f.pc /\ g.que = f.que /\ g.mut = f.mut
BY DEF Frames

\* A frame with another queue.
LEMMA With_que ==
    ASSUME NEW f \in Frames, NEW x \in BlockQueues \cup {None}
    PROVE  LET g == [f EXCEPT !.que = x]
           IN  g \in Frames /\ g.que = x /\ g.pc = f.pc /\ g.thr = f.thr /\ g.mut = f.mut
BY DEF Frames

\* A frame with another mutex.
LEMMA With_mut ==
    ASSUME NEW f \in Frames, NEW x \in Mutexes \cup {None}
    PROVE  LET g == [f EXCEPT !.mut = x]
           IN  g \in Frames /\ g.mut = x /\ g.pc = f.pc /\ g.thr = f.thr /\ g.que = f.que
BY DEF Frames

\* A frame with another number.
LEMMA With_num ==
    ASSUME NEW f \in Frames, NEW x \in 0 .. MaxPrio + 1
    PROVE  LET g == [f EXCEPT !.num = x]
           IN  g \in Frames /\ g.num = x /\ g.pc = f.pc /\ g.thr = f.thr /\ g.que = f.que /\ g.mut = f.mut
BY DEF Frames

\* A frame with another batch.
LEMMA With_batch ==
    ASSUME NEW f \in Frames, NEW x \in SUBSET Threads
    PROVE  LET g == [f EXCEPT !.batch = x]
           IN  g \in Frames /\ g.batch = x /\ g.pc = f.pc /\ g.thr = f.thr /\ g.que = f.que /\ g.mut = f.mut
BY DEF Frames

\* A frame with another flag.
LEMMA With_flag ==
    ASSUME NEW f \in Frames, NEW x \in BOOLEAN
    PROVE  LET g == [f EXCEPT !.flag = x]
           IN  g \in Frames /\ g.flag = x /\ g.pc = f.pc /\ g.thr = f.thr /\ g.que = f.que /\ g.mut = f.mut
BY DEF Frames

\* A frame at another place.
LEMMA With_pc ==
    ASSUME NEW f \in Frames, NEW x \in PCs
    PROVE  LET g == [f EXCEPT !.pc = x]
           IN  g \in Frames /\ g.pc = x /\ g.thr = f.thr /\ g.que = f.que /\ g.mut = f.mut
BY DEF Frames

\* The frames that the kernel pushes are good ones.
LEMMA FrameType ==
    ASSUME NEW pc \in PCs
    PROVE  /\ Frame(pc) \in Frames
           /\ Frame(pc).pc = pc
           /\ pc \notin NeedThread \cup NeedQueue \cup NeedMutex => Frame(pc) \in GoodFrames
<1>1. Frame(pc) \in Frames /\ Frame(pc).pc = pc
  BY QueueConstants DEF Frame, Frames
<1> QED
  BY <1>1, GoodFrame

\* A frame that works on a thread.
LEMMA OnType ==
    ASSUME NEW pc \in PCs \ (NeedQueue \cup NeedMutex), NEW t \in Threads \cup {None},
           pc \in NeedThread => t # None
    PROVE  On(pc, t) \in GoodFrames
<1>1. On(pc, t) \in Frames /\ On(pc, t).pc = pc /\ On(pc, t).thr = t
  BY FrameType, With_thr DEF On
<1> QED
  BY <1>1, GoodFrame

\* A frame that works on a queue.
LEMMA OnQType ==
    ASSUME NEW pc \in PCs \ (NeedThread \cup NeedMutex), NEW q \in BlockQueues
    PROVE  OnQ(pc, q) \in GoodFrames
<1>1. OnQ(pc, q) \in Frames /\ OnQ(pc, q).pc = pc /\ OnQ(pc, q).que = q
  BY FrameType, With_que DEF OnQ
<1>2. q # None
  BY NoneIsNoQueue, QueueFacts
<1> QED
  BY <1>1, <1>2, GoodFrame

\* A frame that works through a set of threads.
LEMMA BatchType ==
    ASSUME NEW pc \in {"fire", "heal"}, NEW b \in SUBSET Threads
    PROVE  Batch(pc, b) \in GoodFrames
<1>1. pc \in PCs
  BY DEF PCs
<1>2. Batch(pc, b) \in Frames /\ Batch(pc, b).pc = pc
  BY <1>1, FrameType, With_batch DEF Batch
<1> QED
  BY <1>2, GoodFrame DEF NeedThread, NeedQueue, NeedMutex

\* A call of SelectThread.
LEMMA SelectType ==
    ASSUME NEW b \in BOOLEAN
    PROVE  SelectThread(b) \in GoodFrames
<1>1. "select" \in PCs
  BY DEF PCs
<1>2. SelectThread(b) \in Frames /\ SelectThread(b).pc = "select"
  BY <1>1, FrameType, With_flag DEF SelectThread
<1> QED
  BY <1>2, GoodFrame DEF NeedThread, NeedQueue, NeedMutex

\* A call that promotes a mutex owner.
LEMMA PromoteType ==
    ASSUME NEW t \in Threads \cup {None}, NEW p \in 0 .. MaxPrio + 1
    PROVE  Promote(t, p) \in GoodFrames
<1>1. "promote" \in PCs
  BY DEF PCs
<1> DEFINE f == [Frame("promote") EXCEPT !.thr = t]
<1>2. f \in Frames /\ f.pc = "promote"
  BY <1>1, FrameType, With_thr
<1>3. [f EXCEPT !.num = p] \in Frames /\ [f EXCEPT !.num = p].pc = "promote"
  BY <1>2, With_num
<1>4. Promote(t, p) = [f EXCEPT !.num = p]
  BY DEF Promote
<1> QED
  BY <1>3, <1>4, GoodFrame DEF NeedThread, NeedQueue, NeedMutex

\* A call that locks a mutex.
LEMMA LockType ==
    ASSUME NEW t \in Threads, NEW m \in Mutexes
    PROVE  Lock(t, m) \in GoodFrames
<1>1. "lock" \in PCs
  BY DEF PCs
<1> DEFINE f == [Frame("lock") EXCEPT !.thr = t]
           g == [f EXCEPT !.mut = m]
<1>2. f \in Frames /\ f.pc = "lock" /\ f.thr = t
  BY <1>1, FrameType, With_thr
<1>3. g \in Frames /\ g.pc = "lock" /\ g.thr = t /\ g.mut = m
  BY <1>2, With_mut
<1>4. Lock(t, m) = g
  BY DEF Lock
<1> QED
  BY <1>3, <1>4, QueueConstants, GoodFrame DEF NeedThread, NeedQueue, NeedMutex

\* All the frames the kernel pushes, by what they are about.
LEMMA PushedFrames ==
    /\ \A pc \in {"pick", "idle", "idleAlarms", "alarms", "alarmLoop", "handler", "alarmTail",
                  "undefer", "resched", "exited"} : Frame(pc) \in GoodFrames
    /\ \A t \in Threads :
         \A pc \in {"suspend", "resume", "ticked", "unlockAll", "joined", "returned"} :
           On(pc, t) \in GoodFrames
    /\ \A t \in Threads \cup {None} :
         On("switched", t) \in GoodFrames /\ On("propagate", t) \in GoodFrames
    /\ \A q \in BlockQueues : \A pc \in {"sleep", "wake", "wakeNoSwitch"} : OnQ(pc, q) \in GoodFrames
<1> USE DEF PCs, NeedThread, NeedQueue, NeedMutex
<1>1. \A pc \in {"pick", "idle", "idleAlarms", "alarms", "alarmLoop", "handler", "alarmTail",
                 "undefer", "resched", "exited"} : Frame(pc) \in GoodFrames
  BY FrameType
<1>2. ASSUME NEW t \in Threads,
             NEW pc \in {"suspend", "resume", "ticked", "unlockAll", "joined", "returned"}
      PROVE  On(pc, t) \in GoodFrames
  BY OnType, QueueConstants
<1>3. ASSUME NEW t \in Threads \cup {None}, NEW pc \in {"switched", "propagate"}
      PROVE  On(pc, t) \in GoodFrames
  BY OnType
<1>4. ASSUME NEW q \in BlockQueues, NEW pc \in {"sleep", "wake", "wakeNoSwitch"}
      PROVE  OnQ(pc, q) \in GoodFrames
  BY OnQType
<1> QED
  BY <1>1, <1>2, <1>3, <1>4

\* Short lists of frames.
LEMMA FrameLists ==
    /\ <<>> \in Seq(GoodFrames)
    /\ \A f \in GoodFrames : <<f>> \in Seq(GoodFrames)
    /\ \A f, g \in GoodFrames : <<f, g>> \in Seq(GoodFrames)
    /\ \A f, g, h \in GoodFrames : <<f, g, h>> \in Seq(GoodFrames)
OBVIOUS

\* A call, a return and a continuation leave good stacks.
LEMMA ReturnType ==
    ASSUME stack \in Stacks, host \in Threads, stack[host] # <<>>, Return
    PROVE  stack' \in Stacks
<1>1. Tail(stack[host]) \in Seq(GoodFrames)
  BY DEF Stacks
<1> QED
  BY <1>1 DEF Stacks, Return

\* The frame on top gives way to frames fs.
LEMMA ContinueType ==
    ASSUME stack \in Stacks, host \in Threads, stack[host] # <<>>,
           NEW fs \in Seq(GoodFrames), Continue(fs)
    PROVE  stack' \in Stacks
<1>1. Tail(stack[host]) \in Seq(GoodFrames)
  BY DEF Stacks
<1>2. fs \o Tail(stack[host]) \in Seq(GoodFrames)
  BY <1>1
<1> QED
  BY <1>2 DEF Stacks, Continue

\* Frames fs are called on top of the stack.
LEMMA CallType ==
    ASSUME stack \in Stacks, host \in Threads, NEW fs \in Seq(GoodFrames), Call(fs)
    PROVE  stack' \in Stacks
<1>1. fs \o stack[host] \in Seq(GoodFrames)
  BY DEF Stacks
<1> QED
  BY <1>1 DEF Stacks, Call

\* The frame on top is a good one.
LEMMA TopType ==
    ASSUME stack \in Stacks, host \in Threads, NEW pc, At(pc)
    PROVE  /\ Top \in GoodFrames /\ Top \in Frames /\ Top.pc = pc /\ stack[host] # <<>>
           /\ pc \in NeedThread => Top.thr \in Threads
           /\ pc \in NeedQueue => Top.que \in BlockQueues
           /\ pc \in NeedMutex => Top.mut \in Mutexes
<1>1. stack[host] \in Seq(GoodFrames) /\ stack[host] # <<>> /\ Top.pc = pc
  BY DEF Stacks, At
<1>2. Top \in GoodFrames
  BY <1>1 DEF Top
<1>3. Top \in Frames
  BY <1>2, GoodFrame
<1> QED
  BY <1>1, <1>2, <1>3, GoodFrame DEF Frames

-----------------------------------------------------------------------------
(***************************************************************************)
(* The inductive invariant.  Types alone are not inductive: that a lock    *)
(* count stays a natural number rests on MutexesConsistent, and that the   *)
(* pick loop finds a thread where the mask has a bit on PendingExact.      *)
(***************************************************************************)
KInv == TypeOK /\ MutexesConsistent /\ PendingExact

\* What TypeOK says of the stacks and of the thread the host runs.
LEMMA TypeStacks == TypeOK => stack \in Stacks /\ host \in Threads
BY DEF TypeOK, Stacks, GoodFrames

\* A loop's frame goes on with fewer threads to do, or a wakeup with its flag set.
LEMMA SameCall ==
    ASSUME NEW f \in GoodFrames
    PROVE  /\ \A b \in SUBSET Threads : [f EXCEPT !.batch = b] \in GoodFrames
           /\ \A b \in BOOLEAN : [f EXCEPT !.flag = b] \in GoodFrames
<1>0. f \in Frames
  BY GoodFrame
<1>1. ASSUME NEW b \in SUBSET Threads
      PROVE  [f EXCEPT !.batch = b] \in GoodFrames
  <2> DEFINE g == [f EXCEPT !.batch = b]
  <2>1. g \in Frames /\ g.pc = f.pc /\ g.thr = f.thr /\ g.que = f.que /\ g.mut = f.mut
    BY <1>0, With_batch
  <2> HIDE DEF g
  <2> QED
    BY <2>1, GoodFrame DEF g
<1>2. ASSUME NEW b \in BOOLEAN
      PROVE  [f EXCEPT !.flag = b] \in GoodFrames
  <2> DEFINE g == [f EXCEPT !.flag = b]
  <2>1. g \in Frames /\ g.pc = f.pc /\ g.thr = f.thr /\ g.que = f.que /\ g.mut = f.mut
    BY <1>0, With_flag
  <2> HIDE DEF g
  <2> QED
    BY <2>1, GoodFrame DEF g
<1> QED
  BY <1>1, <1>2

\* A step that changes nothing but the stacks.
LEMMA StackStep ==
    ASSUME KInv, stack' \in Stacks,
           UNCHANGED <<threadVars, listVars, links, schedVars, mutexVars, fiberVars,
                       host, timerVars, alarmVars>>
    PROVE  KInv'
<1>1. TypeOK'
  BY DEF KInv, TypeOK, Stacks, GoodFrames, threadVars, listVars, schedVars, mutexVars,
         fiberVars, timerVars, alarmVars
<1>2. MutexesConsistent'
  BY DEF KInv, MutexesConsistent, threadVars, mutexVars
<1>3. PendingExact'
  BY DEF KInv, PendingExact
<1> QED
  BY <1>1, <1>2, <1>3 DEF KInv

\* The steps that only call, return or continue.
LEMMA ControlSteps ==
    ASSUME KInv
    PROVE  /\ FireDone => KInv'
           /\ HealStrandedSleeper => KInv'
           /\ ScheduleReturn => KInv'
           /\ IdleAlarms => KInv'
           /\ IdleExit => KInv'
           /\ WakeDone => KInv'
           /\ WakeNoSwitchDone => KInv'
           /\ Reschedule => KInv'
           /\ HandlerReturn => KInv'
<1>0. stack \in Stacks /\ host \in Threads
  BY TypeStacks DEF KInv
<1>1. ASSUME FireDone \/ ScheduleReturn \/ WakeNoSwitchDone \/ HandlerReturn
      PROVE  KInv'
  <2>1. stack[host] # <<>> /\ Return
    BY <1>1 DEF FireDone, ScheduleReturn, WakeNoSwitchDone, HandlerReturn, AtHandler, At
  <2>2. stack' \in Stacks
    BY <1>0, <2>1, ReturnType
  <2> QED
    BY <1>1, <2>2, StackStep DEF FireDone, ScheduleReturn, WakeNoSwitchDone, HandlerReturn
<1>2. ASSUME HealStrandedSleeper
      PROVE  KInv'
  <2>0. Top \in GoodFrames /\ Top \in Frames /\ Top.pc = "heal" /\ stack[host] # <<>>
    BY <1>0, <1>2, TopType DEF HealStrandedSleeper
  <2>1. CASE Return
    BY <1>0, <1>2, <2>0, <2>1, ReturnType, StackStep DEF HealStrandedSleeper
  <2>2. ASSUME NEW t \in Top.batch,
               Continue(<<On("resume", t), [Top EXCEPT !.batch = @ \ {t}]>>)
        PROVE  KInv'
    <3>1. t \in Threads /\ Top.batch \ {t} \in SUBSET Threads
      BY <2>0 DEF Frames
    <3>2. On("resume", t) \in GoodFrames
      BY <3>1, PushedFrames
    <3>3. [Top EXCEPT !.batch = @ \ {t}] \in GoodFrames
      BY <2>0, <3>1, SameCall
    <3>4. stack' \in Stacks
      BY <1>0, <2>0, <2>2, <3>2, <3>3, FrameLists, ContinueType
    <3> QED
      BY <1>2, <3>4, StackStep DEF HealStrandedSleeper
  <2> QED
    BY <1>2, <2>1, <2>2 DEF HealStrandedSleeper
<1>3. ASSUME IdleAlarms \/ IdleExit \/ WakeDone \/ Reschedule
      PROVE  KInv'
  <2>1. stack[host] # <<>>
    BY <1>3 DEF IdleAlarms, IdleExit, WakeDone, Reschedule, At
  <2>2. \E fs \in Seq(GoodFrames) : Continue(fs)
    <3> USE FrameLists, PushedFrames, SelectType
    <3>1. CASE IdleAlarms
      BY <3>1 DEF IdleAlarms
    <3>2. CASE IdleExit
      BY <3>2 DEF IdleExit
    <3>3. CASE WakeDone
      BY <3>3 DEF WakeDone
    <3>4. CASE Reschedule
      BY <3>4 DEF Reschedule
    <3> QED
      BY <1>3, <3>1, <3>2, <3>3, <3>4
  <2>3. stack' \in Stacks
    BY <1>0, <2>1, <2>2, ContinueType
  <2> QED
    BY <1>3, <2>3, StackStep DEF IdleAlarms, IdleExit, WakeDone, Reschedule
<1> QED
  BY <1>1, <1>2, <1>3

\* A step that leaves the mutexes and the queues alone.
LEMMA KeepQueues ==
    ASSUME KInv, TypeOK', UNCHANGED <<owner, count, owned, links>>
    PROVE  KInv'
BY DEF KInv, MutexesConsistent, PendingExact

\* The calls of guest code that only push frames.
LEMMA GuestCalls ==
    ASSUME KInv
    PROVE  /\ \A m \in Mutexes : OSLockMutex(m) => KInv'
           /\ \A w \in WaitQueues : OSSleepThread(w) \/ OSWakeupThread(w) => KInv'
           /\ OSYieldThread \/ OSProcessAlarms => KInv'
           /\ \A t \in Threads : OSSuspendThread(t) \/ OSResumeThread(t) => KInv'
           /\ OSSleepTicks => KInv'
<1>0. stack \in Stacks /\ host \in Threads
  BY TypeStacks DEF KInv
<1> USE FrameLists, PushedFrames
<1>1. ASSUME NEW m \in Mutexes, OSLockMutex(m)
      PROVE  KInv'
  <2>1. running \in Threads
    BY <1>1 DEF KInv, TypeOK, OSLockMutex
  <2>2. Lock(running, m) \in GoodFrames
    BY <2>1, LockType
  <2>3. stack' \in Stacks
    BY <1>0, <1>1, <2>2, CallType DEF OSLockMutex
  <2> QED
    BY <1>1, <2>3, StackStep DEF OSLockMutex
<1>2. ASSUME NEW w \in WaitQueues, OSSleepThread(w) \/ OSWakeupThread(w)
      PROVE  KInv'
  <2>1. WaitQueue(w) \in BlockQueues
    BY QueueFacts
  <2>2. stack' \in Stacks
    BY <1>0, <1>2, <2>1, CallType DEF OSSleepThread, OSWakeupThread
  <2> QED
    BY <1>2, <2>2, StackStep DEF OSSleepThread, OSWakeupThread
<1>3. ASSUME OSYieldThread \/ OSProcessAlarms
      PROVE  KInv'
  <2>1. stack' \in Stacks
    BY <1>0, <1>3, SelectType, CallType DEF OSYieldThread, OSProcessAlarms
  <2> QED
    BY <1>3, <2>1, StackStep DEF OSYieldThread, OSProcessAlarms
<1>4. ASSUME NEW t \in Threads, OSSuspendThread(t) \/ OSResumeThread(t)
      PROVE  KInv'
  <2>1. stack' \in Stacks
    BY <1>0, <1>4, CallType DEF OSSuspendThread, OSResumeThread
  <2>2. held' \in [Threads -> Nat]
    <3>1. held \in [Threads -> Nat]
      BY DEF KInv, TypeOK
    <3>2. held[t] \in Nat
      BY <3>1
    <3>3. CASE OSSuspendThread(t)
      <4>1. held' = [held EXCEPT ![t] = held[t] + 1]
        BY <3>3 DEF OSSuspendThread
      <4> QED
        BY <3>1, <3>2, <4>1
    <3>4. CASE OSResumeThread(t)
      <4>1. held' = [held EXCEPT ![t] = IF held[t] = 0 THEN 0 ELSE held[t] - 1]
        BY <3>4 DEF OSResumeThread
      <4> QED
        BY <3>1, <3>2, <4>1
    <3> QED
      BY <1>4, <3>3, <3>4
  <2>3. TypeOK'
    BY <1>4, <2>1, <2>2
    DEF KInv, TypeOK, Stacks, GoodFrames, OSSuspendThread, OSResumeThread, threadVars, listVars, schedVars, mutexVars,
         fiberVars, timerVars, alarmVars
  <2> QED
    BY <1>4, <2>3, KeepQueues DEF OSSuspendThread, OSResumeThread, threadVars, mutexVars
<1>5. ASSUME OSSleepTicks
      PROVE  KInv'
  <2> DEFINE t == IF fiberThread # None THEN fiberThread ELSE running
  <2>1. t \in Threads
    BY <1>5 DEF KInv, TypeOK, OSSleepTicks
  <2>2. Call(<<On("suspend", t), On("ticked", t)>>)
    BY <1>5 DEF OSSleepTicks
  <2>3. stack' \in Stacks
    BY <1>0, <2>1, <2>2, CallType
  <2>4. timers' \subseteq Threads /\ parks' \subseteq Threads
    BY <1>5, <2>1 DEF KInv, TypeOK, OSSleepTicks
  <2>5. TypeOK'
    BY <1>5, <2>3, <2>4
    DEF KInv, TypeOK, Stacks, GoodFrames, OSSleepTicks, threadVars, listVars, schedVars, mutexVars,
         fiberVars, timerVars, alarmVars
  <2> QED
    BY <1>5, <2>5, KeepQueues DEF OSSleepTicks, threadVars, mutexVars
<1> QED
  BY <1>1, <1>2, <1>3, <1>4, <1>5

\* The sleep timers: only the timer tables and the stacks change.
LEMMA TimerSteps ==
    ASSUME KInv, FireTimer \/ Reconcile \/ SelectEnter \/ IdlePump
    PROVE  KInv'
<1>0. stack \in Stacks /\ host \in Threads
  BY TypeStacks DEF KInv
<1> USE FrameLists, PushedFrames
<1>1. /\ timers' \subseteq Threads /\ parks' \subseteq Threads /\ seen' \subseteq Threads
      /\ stack' \in Stacks
  <2>1. CASE FireTimer
    <3>0. Top \in GoodFrames /\ Top \in Frames /\ stack[host] # <<>>
      BY <1>0, <2>1, TopType DEF FireTimer
    <3>1. PICK t \in Top.batch :
            LET rest == [Top EXCEPT !.batch = @ \ {t}]
            IN  /\ \/ Continue(<<rest>>)
                   \/ Continue(<<On("resume", t), rest>>)
                /\ timers' \in {timers, timers \cup {t}}
                /\ parks' \in {parks, parks \ {t}}
      BY <2>1 DEF FireTimer
    <3>2. t \in Threads /\ Top.batch \ {t} \in SUBSET Threads
      BY <3>0 DEF Frames
    <3>3. [Top EXCEPT !.batch = @ \ {t}] \in GoodFrames /\ On("resume", t) \in GoodFrames
      BY <3>0, <3>2, SameCall
    <3>4. stack' \in Stacks
      BY <1>0, <3>0, <3>1, <3>3, ContinueType
    <3> QED
      BY <2>1, <3>1, <3>2, <3>4 DEF KInv, TypeOK, FireTimer
  <2>2. CASE Reconcile
    <3>0. stack[host] # <<>>
      BY <2>2 DEF Reconcile, At
    <3>1. PICK heal \in SUBSET ({t \in parks : Stranded(t)} \cap seen) :
            /\ seen' = {t \in parks : Stranded(t)} \ heal
            /\ parks' = ((parks \cap timers) \cup {t \in parks : Stranded(t)}) \ heal
            /\ Continue(<<Batch("heal", heal)>>)
      BY <2>2 DEF Reconcile
    <3>2. heal \in SUBSET Threads
      BY DEF KInv, TypeOK
    <3>3. stack' \in Stacks
      BY <1>0, <3>0, <3>1, <3>2, BatchType, ContinueType
    <3> QED
      BY <2>2, <3>1, <3>3 DEF KInv, TypeOK, Reconcile
  <2>3. CASE SelectEnter
    <3>0. /\ Top \in GoodFrames /\ Top \in Frames /\ Top.pc = "select" /\ stack[host] # <<>>
      BY <1>0, <2>3, TopType DEF SelectEnter
    <3>1. PICK due \in SUBSET timers :
            /\ timers' = timers \ due
            /\ Continue(<<Batch("fire", due), [Top EXCEPT !.pc = "schedule"]>>)
      BY <2>3 DEF SelectEnter, TakeDue
    <3>2. Batch("fire", due) \in GoodFrames
      BY BatchType DEF KInv, TypeOK
    <3>3. [Top EXCEPT !.pc = "schedule"] \in GoodFrames
      <4> DEFINE g == [Top EXCEPT !.pc = "schedule"]
      <4>1. g \in Frames /\ g.pc = "schedule"
        <5>1. "schedule" \in PCs
          BY DEF PCs
        <5> QED
          BY <3>0, <5>1, With_pc
      <4> HIDE DEF g
      <4> QED
        BY <4>1, GoodFrame DEF g, NeedThread, NeedQueue, NeedMutex
    <3>4. stack' \in Stacks
      BY <1>0, <3>0, <3>1, <3>2, <3>3, ContinueType
    <3> QED
      BY <2>3, <3>1, <3>4 DEF KInv, TypeOK, SelectEnter
  <2>4. CASE IdlePump
    <3>0. stack[host] # <<>>
      BY <2>4 DEF IdlePump, At
    <3>1. PICK due \in SUBSET timers :
            /\ timers' = timers \ due
            /\ Continue(<<Batch("fire", due), Frame("idleAlarms")>>)
      BY <2>4 DEF IdlePump, TakeDue
    <3>2. Batch("fire", due) \in GoodFrames
      BY BatchType DEF KInv, TypeOK
    <3>3. stack' \in Stacks
      BY <1>0, <3>0, <3>1, <3>2, ContinueType
    <3> QED
      BY <2>4, <3>1, <3>3 DEF KInv, TypeOK, IdlePump
  <2> QED
    BY <2>1, <2>2, <2>3, <2>4
<1>2. UNCHANGED <<threadVars, listVars, links, schedVars, mutexVars, fiberVars, host, alarmVars>>
  BY DEF FireTimer, Reconcile, SelectEnter, IdlePump
<1>3. TypeOK'
  BY <1>1, <1>2
  DEF KInv, TypeOK, Stacks, GoodFrames, threadVars, listVars, schedVars, mutexVars,
         fiberVars, timerVars, alarmVars
<1> QED
  BY <1>2, <1>3, KeepQueues DEF threadVars, mutexVars

\* The alarm pump: the alarm queue, its depth, the disable count and the stacks.
LEMMA AlarmSteps ==
    ASSUME KInv,
           \/ \E a \in Alarms : OSSetAlarm(a) \/ OSSetPeriodicAlarm(a)
           \/ OSProcessAlarmsDeferred \/ Undefer \/ ProcessAlarmQueue \/ FireAlarm
           \/ AlarmTail \/ AlarmsDone
    PROVE  KInv'
<1>0. stack \in Stacks /\ host \in Threads
  BY TypeStacks DEF KInv
<1> USE FrameLists, PushedFrames
<1>1. /\ armed' \subseteq Alarms /\ periodic' \subseteq Alarms /\ alarmDepth' \in Int
      /\ disable' \in Nat /\ stack' \in Stacks
  <2>0. /\ armed \subseteq Alarms /\ periodic \subseteq Alarms /\ alarmDepth \in Int
        /\ disable \in Nat
    BY DEF KInv, TypeOK
  <2>1. CASE \E a \in Alarms : OSSetAlarm(a) \/ OSSetPeriodicAlarm(a)
    BY <1>0, <2>0, <2>1 DEF OSSetAlarm, OSSetPeriodicAlarm, SetAlarm, schedVars, alarmVars
  <2>2. CASE OSProcessAlarmsDeferred
    <3>1. stack' \in Stacks
      BY <1>0, <2>2, CallType DEF OSProcessAlarmsDeferred
    <3> QED
      BY <2>0, <2>2, <3>1 DEF OSProcessAlarmsDeferred, alarmVars
  <2>3. CASE Undefer
    <3>1. stack' \in Stacks
      BY <1>0, <2>3, ReturnType DEF Undefer, At
    <3> QED
      BY <2>0, <2>3, <3>1 DEF Undefer, Decrement, alarmVars
  <2>4. CASE ProcessAlarmQueue
    <3>1. stack' \in Stacks
      BY <1>0, <2>4, ReturnType, ContinueType DEF ProcessAlarmQueue, At
    <3> QED
      BY <2>0, <2>4, <3>1 DEF ProcessAlarmQueue, schedVars
  <2>5. CASE FireAlarm
    <3>1. stack' \in Stacks
      BY <1>0, <2>5, CallType DEF FireAlarm
    <3> QED
      BY <2>0, <2>5, <3>1 DEF FireAlarm
  <2>6. CASE AlarmTail
    <3>1. stack' \in Stacks
      BY <1>0, <2>6, SelectType, ContinueType DEF AlarmTail, At
    <3> QED
      BY <2>0, <2>6, <3>1 DEF AlarmTail, Decrement, alarmVars
  <2>7. CASE AlarmsDone
    <3>1. stack' \in Stacks
      BY <1>0, <2>7, ReturnType DEF AlarmsDone, At
    <3> QED
      BY <2>0, <2>7, <3>1 DEF AlarmsDone, schedVars
  <2> QED
    BY <2>1, <2>2, <2>3, <2>4, <2>5, <2>6, <2>7
<1>2. UNCHANGED <<threadVars, listVars, links, resched, running, current, mutexVars, fiberVars,
                  host, timerVars>>
  BY DEF OSSetAlarm, OSSetPeriodicAlarm, SetAlarm, OSProcessAlarmsDeferred, Undefer,
         ProcessAlarmQueue, FireAlarm, AlarmTail, AlarmsDone, schedVars
<1>3. TypeOK'
  BY <1>1, <1>2
  DEF KInv, TypeOK, Stacks, GoodFrames, threadVars, listVars, schedVars, mutexVars,
         fiberVars, timerVars, alarmVars
<1> QED
  BY <1>2, <1>3, KeepQueues DEF threadVars, mutexVars

\* A step that leaves the mutexes alone and the queues well formed.
LEMMA KeepMutexes ==
    ASSUME KInv, TypeOK', PendingMatches(links'), UNCHANGED <<owner, count, owned>>
    PROVE  KInv'
BY DEF KInv, MutexesConsistent, PendingExact

\* The running thread gives way, or the idle loop is entered, and the invariant is kept.
LEMMA ScheduleSwitchStep ==
    ASSUME KInv, ScheduleSwitch
    PROVE  KInv'
<1>0. stack \in Stacks /\ host \in Threads /\ stack[host] # <<>>
  BY TypeStacks DEF KInv, ScheduleSwitch, At
<1>1. running \in Threads /\ prio[running] \in 0 .. MaxPrio + 1
  BY DEF KInv, TypeOK, ScheduleSwitch, CannotSwitch
<1>2. links' \in Links /\ PendingMatches(links')
  <2>1. links \in Links /\ PendingMatches(links)
    BY DEF KInv, TypeOK, PendingExact
  <2>2. links' = links \/ links' = LinkThreadOnRunQueue(links, running, prio[running])
    BY DEF ScheduleSwitch
  <2> QED
    BY <1>1, <2>1, <2>2, LinkRunQueue
<1>3. stack' \in Stacks
  <2>1. Continue(<<Frame("pick")>>) \/ Continue(<<Frame("idle")>>)
    BY DEF ScheduleSwitch
  <2> QED
    BY <1>0, <2>1, FrameLists, PushedFrames, ContinueType
<1>4. /\ state' \in [Threads -> States] /\ resched' \in BOOLEAN
      /\ running' \in Threads \cup {None} /\ current' \in Threads \cup {None, Idle}
  BY <1>1 DEF KInv, TypeOK, ScheduleSwitch, States
<1>5. UNCHANGED <<suspend, prio, base, detached, waitMutex, owned, listVars,
                  disable, mutexVars, fiberVars, host, timerVars, alarmVars>>
  BY DEF ScheduleSwitch
<1>6. TypeOK'
  BY <1>2, <1>3, <1>4, <1>5
  DEF KInv, TypeOK, Stacks, GoodFrames, listVars, mutexVars, fiberVars, timerVars, alarmVars
<1> QED
  BY <1>2, <1>5, <1>6, KeepMutexes DEF mutexVars

\* The most urgent pending priority is a pending one, when there is one.
LEMMA MostUrgentPending ==
    ASSUME NEW P \in SUBSET (0 .. MaxPrio + 1)
    PROVE  /\ MostUrgent(P) \in 0 .. MaxPrio + 1
           /\ \A p \in P : MostUrgent(P) <= p
           /\ P # {} => MostUrgent(P) \in P
<1> DEFINE S == P \cup {MaxPrio + 1}
<1>1. S \in SUBSET Nat /\ S # {}
  BY QueueConstants
<1>2. Min(S) \in S /\ \A y \in S : Min(S) <= y
  BY <1>1, MinInSet
<1> HIDE DEF S
<1>3. Min(S) \in 0 .. MaxPrio + 1
  <2>1. MaxPrio + 1 \in 0 .. MaxPrio + 1
    BY QueueConstants
  <2>2. S \subseteq 0 .. MaxPrio + 1
    BY <2>1 DEF S
  <2> QED
    BY <1>2, <2>2
<1>4. ASSUME NEW p \in P
      PROVE  Min(S) \in P
  <2>1. p <= MaxPrio + 1 /\ Min(S) <= p
    BY <1>2 DEF S
  <2>2. CASE Min(S) = MaxPrio + 1
    BY <2>1, <2>2, QueueConstants
  <2>3. CASE Min(S) # MaxPrio + 1
    BY <1>2, <2>3 DEF S
  <2> QED
    BY <2>2, <2>3
<1> QED
  BY <1>2, <1>3, <1>4 DEF MostUrgent, S

\* Picking the next thread keeps the invariant.
LEMMA PickThreadStep ==
    ASSUME KInv, PickThread
    PROVE  KInv'
<1>0. stack \in Stacks /\ host \in Threads /\ stack[host] # <<>>
  BY TypeStacks DEF KInv, PickThread, At
<1>1. links \in Links /\ PendingMatches(links)
  BY DEF KInv, TypeOK, PendingExact
<1> DEFINE p == MostUrgent(links.pending)
           next == Head(links.seq[PickQueue])
<1>2. p \in 0 .. MaxPrio + 1 /\ PickQueue = RunQueue(p)
  BY <1>1, MostUrgentPending DEF Links, PickQueue
<1>3. links.pending # {} => links.seq[PickQueue] # <<>>
  BY <1>1, <1>2, MostUrgentPending DEF Links, PendingMatches
<1>4. fiberThread \in Threads \cup {None}
  BY DEF KInv, TypeOK
<1> HIDE DEF p
<1>5. CASE links.pending # {} /\ Runnable
  <2>1. /\ links' = PopRunQueue(links, p) /\ state' = [state EXCEPT ![next] = "running"]
        /\ running' = next /\ current' = next /\ fiberThread' = next /\ host' = next
        /\ Return \/ Continue(<<On("switched", fiberThread)>>)
    BY <1>5 DEF PickThread, SwitchToThread, p
  <2>2. next \in Threads /\ links' \in Links /\ PendingMatches(links')
    BY <1>1, <1>2, <1>3, <1>5, <2>1, PopRunQueueLinks
  <2>3. stack' \in Stacks
    BY <1>0, <1>4, <2>1, FrameLists, PushedFrames, ReturnType, ContinueType
  <2>4. state' \in [Threads -> States]
    BY <2>1, <2>2 DEF KInv, TypeOK, States
  <2> HIDE DEF next
  <2>5. /\ resched' = FALSE
        /\ UNCHANGED <<suspend, prio, base, detached, waitMutex, owned, listVars,
                       disable, mutexVars, fiber, timerVars, alarmVars>>
    BY DEF PickThread
  <2>6. TypeOK'
    BY <2>1, <2>2, <2>3, <2>4, <2>5
    DEF KInv, TypeOK, Stacks, GoodFrames, listVars, mutexVars, timerVars, alarmVars
  <2> QED
    BY <2>2, <2>5, <2>6, KeepMutexes DEF mutexVars
<1>6. CASE ~ (links.pending # {} /\ Runnable)
  <2>1. /\ links' = IF links.pending = {} THEN links ELSE DropUnrunnable
        /\ Return \/ UNCHANGED stack
        /\ resched' = FALSE
        /\ UNCHANGED <<state, running, current, fiberThread, host>>
        /\ UNCHANGED <<suspend, prio, base, detached, waitMutex, owned, listVars,
                       disable, mutexVars, fiber, timerVars, alarmVars>>
    BY <1>6 DEF PickThread
  <2>2. links' \in Links /\ PendingMatches(links')
    <3>1. links' = links \/ (links.pending # {} /\ links' = RemoveThreadFromQueue(links, next))
      BY <1>3, <2>1 DEF DropUnrunnable
    <3>2. links.pending # {} => next \in Threads
      BY <1>1, <1>2, <1>3, PopRunQueueLinks
    <3> QED
      BY <1>1, <3>1, <3>2, RemoveLinks
  <2>3. stack' \in Stacks
    BY <1>0, <2>1, ReturnType
  <2>4. TypeOK'
    BY <2>1, <2>2, <2>3
    DEF KInv, TypeOK, Stacks, GoodFrames, listVars, mutexVars, timerVars, alarmVars
  <2> QED
    BY <2>1, <2>2, <2>4, KeepMutexes DEF mutexVars
<1> QED
  BY <1>5, <1>6

\* The end of SwitchToThread keeps the invariant.
LEMMA SwitchedStep ==
    ASSUME KInv, Switched
    PROVE  KInv'
<1>0. stack \in Stacks /\ host \in Threads
  BY TypeStacks DEF KInv
<1>1. Top \in Frames /\ stack[host] # <<>>
  BY <1>0, TopType DEF Switched
<1>2. stack' \in Stacks
  BY <1>0, <1>1, ReturnType DEF Switched
<1>3. fiberThread' \in Threads \cup {None}
  BY <1>1 DEF Switched, Frames
<1>4. TypeOK'
  BY <1>2, <1>3
  DEF KInv, TypeOK, Stacks, GoodFrames, Switched, threadVars, listVars, schedVars, mutexVars,
      timerVars, alarmVars
<1> QED
  BY <1>4, KeepQueues DEF Switched, threadVars, mutexVars

\* One thread woken by OSWakeupThread, or by its variant in the fiber manager.
LEMMA WakeOneStep ==
    ASSUME KInv, NEW pc \in {"wake", "wakeNoSwitch"}, WakeOne(pc)
    PROVE  KInv'
<1>0. stack \in Stacks /\ host \in Threads
  BY TypeStacks DEF KInv
<1>1. links \in Links /\ PendingMatches(links)
  BY DEF KInv, TypeOK, PendingExact
<1>2. Top \in GoodFrames /\ stack[host] # <<>> /\ Top.que \in BlockQueues
  BY <1>0, TopType DEF WakeOne, NeedQueue
<1> DEFINE t == Head(links.seq[Top.que])
           popped == PopThreadQueueHead(links, Top.que)
<1>3. links.seq[Top.que] # <<>>
  BY DEF WakeOne
<1>4. t \in Threads
  BY <1>1, <1>2, <1>3, QueueFacts DEF Links
<1>5. /\ popped \in Links /\ PendingMatches(popped)
      /\ ClearQueuePointer(popped, t) \in Links /\ PendingMatches(ClearQueuePointer(popped, t))
  BY <1>1, <1>2, <1>3, <1>4, PopBlockQueue
<1>6. /\ \/ state' = state
         \/ state' = [state EXCEPT ![t] = "ready"]
      /\ \/ links' = popped \/ links' = ClearQueuePointer(popped, t)
         \/ links' = LinkThreadOnRunQueue(popped, t, ClampPrio(prio[t]))
      /\ resched' = resched \/ resched' = TRUE
      /\ UNCHANGED stack \/ Continue(<<[Top EXCEPT !.flag = TRUE]>>)
      /\ UNCHANGED <<suspend, prio, base, detached, waitMutex, owned, listVars,
                     disable, running, current, mutexVars, fiberVars, host,
                     timerVars, alarmVars>>
  BY DEF WakeOne
<1> HIDE DEF t, popped
<1>7. ClampPrio(prio[t]) \in 0 .. MaxPrio + 1
  <2>1. prio[t] \in 0 .. MaxPrio + 1
    BY <1>4 DEF KInv, TypeOK
  <2> QED
    BY <2>1, QueueConstants DEF ClampPrio
<1>8. links' \in Links /\ PendingMatches(links')
  BY <1>4, <1>5, <1>6, <1>7, LinkRunQueue
<1>9. stack' \in Stacks
  BY <1>0, <1>2, <1>6, SameCall, FrameLists, ContinueType
<1>10. state' \in [Threads -> States] /\ resched' \in BOOLEAN
  BY <1>4, <1>6 DEF KInv, TypeOK, States
<1>11. TypeOK'
  BY <1>6, <1>8, <1>9, <1>10
  DEF KInv, TypeOK, Stacks, GoodFrames, listVars, mutexVars, fiberVars, timerVars, alarmVars
<1> QED
  BY <1>6, <1>8, <1>11, KeepMutexes DEF mutexVars

\* Going to sleep on a queue keeps the invariant.
LEMMA SleepThreadStep ==
    ASSUME KInv, SleepThread
    PROVE  KInv'
<1>0. stack \in Stacks /\ host \in Threads
  BY TypeStacks DEF KInv
<1>1. links \in Links /\ PendingMatches(links)
  BY DEF KInv, TypeOK, PendingExact
<1>2. Top \in GoodFrames /\ Top \in Frames /\ stack[host] # <<>> /\ Top.que \in BlockQueues
  BY <1>0, TopType DEF SleepThread, NeedQueue
<1> DEFINE t == IF running = None THEN Main ELSE running
           f == [Top EXCEPT !.pc = "slept", !.thr = t]
<1>3. t \in Threads
  BY KernelConstants DEF KInv, TypeOK
<1>4. /\ running' = t
      /\ current' = IF running = None THEN Main ELSE current
      /\ \/ Return /\ UNCHANGED <<state, links, resched>>
         \/ /\ state' = [state EXCEPT ![t] = "waiting"]
            /\ links' = InsertThreadIntoQueueByPriority(links, prio, Top.que, t, prio[t])
            /\ resched' = TRUE
            /\ Continue(<<SelectThread(FALSE), f>>)
      /\ UNCHANGED <<suspend, prio, base, detached, waitMutex, owned, listVars,
                     disable, mutexVars, fiberVars, host, timerVars, alarmVars>>
  BY DEF SleepThread
<1>5. f \in GoodFrames
  <2> DEFINE g == [Top EXCEPT !.pc = "slept"]
  <2>1. g \in Frames /\ g.pc = "slept" /\ g.que = Top.que
    <3>1. "slept" \in PCs
      BY DEF PCs
    <3> QED
      BY <1>2, <3>1, With_pc
  <2>2. f = [g EXCEPT !.thr = t]
    OBVIOUS
  <2> HIDE DEF g, t
  <2>3. /\ [g EXCEPT !.thr = t] \in Frames /\ [g EXCEPT !.thr = t].pc = "slept"
        /\ [g EXCEPT !.thr = t].thr = t /\ [g EXCEPT !.thr = t].que = Top.que
    BY <1>3, <2>1, With_thr
  <2>4. Top.que # None /\ t # None
    BY <1>2, <1>3, NoneIsNoQueue, QueueConstants, QueueFacts
  <2> HIDE DEF f
  <2> QED
    BY <2>2, <2>3, <2>4, GoodFrame DEF NeedThread, NeedQueue, NeedMutex
<1> HIDE DEF t, f
<1>6. links' \in Links /\ PendingMatches(links')
  BY <1>1, <1>2, <1>3, <1>4, InsertLinks, QueueFacts
<1>7. stack' \in Stacks
  BY <1>0, <1>2, <1>4, <1>5, SelectType, FrameLists, ReturnType, ContinueType
<1>8. /\ state' \in [Threads -> States] /\ resched' \in BOOLEAN
      /\ running' \in Threads \cup {None} /\ current' \in Threads \cup {None, Idle}
  BY <1>3, <1>4, KernelConstants DEF KInv, TypeOK, States
<1>9. TypeOK'
  BY <1>4, <1>6, <1>7, <1>8
  DEF KInv, TypeOK, Stacks, GoodFrames, listVars, mutexVars, fiberVars, timerVars, alarmVars
<1> QED
  BY <1>4, <1>6, <1>9, KeepMutexes DEF mutexVars

\* Coming back from a sleep, parked or not, keeps the invariant.
LEMMA SleptStep ==
    ASSUME KInv, Slept
    PROVE  KInv'
<1>0. stack \in Stacks /\ host \in Threads
  BY TypeStacks DEF KInv
<1>1. Top.thr \in Threads /\ stack[host] # <<>>
  BY <1>0, TopType DEF Slept, NeedThread
<1>2. stack' \in Stacks
  BY <1>0, <1>1, ReturnType DEF Slept
<1>3. links' \in Links /\ PendingMatches(links')
  <2>1. links \in Links /\ PendingMatches(links)
    BY DEF KInv, TypeOK, PendingExact
  <2>2. links' = links \/ links' = RemoveThreadFromQueue(links, Top.thr)
    BY DEF Slept
  <2> QED
    BY <1>1, <2>1, <2>2, RemoveLinks
<1>4. state' \in [Threads -> States]
  BY <1>1 DEF KInv, TypeOK, Slept, States
<1>5. TypeOK'
  BY <1>2, <1>3, <1>4
  DEF KInv, TypeOK, Stacks, GoodFrames, Slept, listVars, schedVars, mutexVars, fiberVars,
      timerVars, alarmVars
<1> QED
  BY <1>3, <1>5, KeepMutexes DEF Slept, mutexVars

-----------------------------------------------------------------------------
(***************************************************************************)
(* Priority inheritance.                                                   *)
(***************************************************************************)
LEMMA EffectivePriorityType ==
    ASSUME NEW L \in Links, NEW pr \in [Threads -> 0 .. MaxPrio + 1], NEW b \in Prios,
           NEW ms \in Seq(Mutexes)
    PROVE  ComputeThreadEffectivePriority(L, pr, b, ms) \in Prios
<1> DEFINE blocked == {m \in ToSet(ms) : L.seq[MutexQueue(m)] # <<>>}
           S == {b} \cup {pr[Head(L.seq[MutexQueue(m)])] : m \in blocked}
<1>1. blocked \subseteq Mutexes
  BY DEF ToSet
<1>2. ASSUME NEW m \in blocked
      PROVE  pr[Head(L.seq[MutexQueue(m)])] \in 0 .. MaxPrio + 1
  <2>1. L.seq[MutexQueue(m)] \in Seq(Threads) /\ L.seq[MutexQueue(m)] # <<>>
    BY <1>1, QueueFacts DEF Links
  <2>2. Head(L.seq[MutexQueue(m)]) \in Threads
    BY <2>1
  <2> QED
    BY <2>2
<1>3. S \in SUBSET Nat /\ b \in S
  BY <1>2, QueueConstants DEF Prios
<1> HIDE DEF S
<1>4. Min(S) \in S /\ Min(S) <= b
  BY <1>3, MinInSet
<1>5. Min(S) \in Prios
  <2>1. Min(S) \in Nat /\ b \in 0 .. MaxPrio
    BY <1>3, <1>4 DEF Prios
  <2> HIDE DEF S
  <2> QED
    BY <1>4, <2>1, QueueConstants DEF Prios
<1> QED
  BY <1>5 DEF S, ComputeThreadEffectivePriority

\* A new effective priority moves a thread within the queues, and keeps their types.
LEMMA SetPriorityType ==
    ASSUME KInv, NEW t \in Threads, NEW p \in 0 .. MaxPrio + 1, SetThreadEffectivePriority(t, p)
    PROVE  /\ prio' \in [Threads -> 0 .. MaxPrio + 1]
           /\ resched' \in BOOLEAN
           /\ links' \in Links /\ PendingMatches(links')
<1>1. links \in Links /\ PendingMatches(links)
  BY DEF KInv, TypeOK, PendingExact
<1> DEFINE off == RemoveThreadFromQueue(links, t)
<1>2. off \in Links /\ PendingMatches(off)
  BY <1>1, RemoveLinks
<1>3. \/ links' = links
      \/ links' = InsertThreadIntoQueueByPriority(off, prio, RunQueue(p), t, p)
      \/ links.at[t] # None /\ links' = InsertThreadIntoQueueByPriority(off, prio, links.at[t], t, p)
  BY DEF SetThreadEffectivePriority
<1>4. RunQueue(p) \in Queues /\ (links.at[t] # None => links.at[t] \in Queues)
  BY <1>1, QueueFacts DEF Links
<1> HIDE DEF off
<1>5. links' \in Links /\ PendingMatches(links')
  BY <1>1, <1>2, <1>3, <1>4, InsertLinks
<1>6. prio' \in [Threads -> 0 .. MaxPrio + 1] /\ resched' \in BOOLEAN
  BY DEF KInv, TypeOK, SetThreadEffectivePriority
<1> QED
  BY <1>5, <1>6

\* The steps of priority inheritance keep the invariant.
LEMMA InheritanceSteps ==
    ASSUME KInv, PromoteThreadPriority \/ PropagateMutexOwnerPriority
    PROVE  KInv'
<1>0. stack \in Stacks /\ host \in Threads
  BY TypeStacks DEF KInv
<1>1. Top \in Frames /\ stack[host] # <<>>
  BY <1>0, TopType DEF PromoteThreadPriority, PropagateMutexOwnerPriority
<1>2. Top.thr \in Threads \cup {None} /\ Top.num \in 0 .. MaxPrio + 1
  BY <1>1 DEF Frames
<1>3. ASSUME NEW t \in Threads
      PROVE  NextOwner(t) \in Threads \cup {None} /\ EffectivePriority(t) \in 0 .. MaxPrio + 1
  <2>1. EffectivePriority(t) \in Prios
    BY EffectivePriorityType DEF KInv, TypeOK, EffectivePriority
  <2>2. Prios \subseteq 0 .. MaxPrio + 1
    BY QueueConstants DEF Prios
  <2>3. NextOwner(t) \in Threads \cup {None}
    BY DEF KInv, TypeOK, NextOwner
  <2> QED
    BY <2>1, <2>2, <2>3
<1> DEFINE Good == /\ prio' \in [Threads -> 0 .. MaxPrio + 1] /\ resched' \in BOOLEAN
                    /\ links' \in Links /\ PendingMatches(links') /\ stack' \in Stacks
<1>4. Good
  <2>1. CASE UNCHANGED <<prio, resched, links>> /\ Return
    <3>1. stack' \in Stacks
      BY <1>0, <1>1, <2>1, ReturnType
    <3> QED
      BY <2>1, <3>1 DEF KInv, TypeOK, PendingExact
  <2>2. ASSUME Top.thr # None, SetThreadEffectivePriority(Top.thr, Top.num),
               Continue(<<Promote(NextOwner(Top.thr), Top.num)>>)
        PROVE  Good
    <3>1. Promote(NextOwner(Top.thr), Top.num) \in GoodFrames
      BY <1>2, <1>3, <2>2, PromoteType
    <3>2. stack' \in Stacks
      BY <1>0, <1>1, <2>2, <3>1, FrameLists, ContinueType
    <3> QED
      BY <1>2, <2>2, <3>2, SetPriorityType
  <2>3. ASSUME Top.thr # None, SetThreadEffectivePriority(Top.thr, EffectivePriority(Top.thr)),
               Continue(<<On("propagate", NextOwner(Top.thr))>>)
        PROVE  Good
    <3>1. On("propagate", NextOwner(Top.thr)) \in GoodFrames
      BY <1>2, <1>3, <2>3, PushedFrames
    <3>2. stack' \in Stacks
      BY <1>0, <1>1, <2>3, <3>1, FrameLists, ContinueType
    <3> QED
      BY <1>2, <1>3, <2>3, <3>2, SetPriorityType
  <2> QED
    BY <2>1, <2>2, <2>3 DEF PromoteThreadPriority, PropagateMutexOwnerPriority
<1>5. UNCHANGED <<state, suspend, base, detached, waitMutex, owned, listVars, disable,
                  running, current, mutexVars, fiberVars, host, timerVars, alarmVars>>
  BY DEF PromoteThreadPriority, PropagateMutexOwnerPriority
<1>6. TypeOK'
  BY <1>4, <1>5
  DEF KInv, TypeOK, Stacks, GoodFrames, listVars, mutexVars, fiberVars, timerVars, alarmVars
<1> QED
  BY <1>4, <1>5, <1>6, KeepMutexes DEF mutexVars

-----------------------------------------------------------------------------
(***************************************************************************)
(* The mutexes.                                                            *)
(***************************************************************************)

\* Taking the element x out of a list without duplicates leaves the other
\* elements, each once.
LEMMA UnlinkElements ==
    ASSUME NEW S, NEW s \in Seq(S), NEW x,
           \A i, j \in DOMAIN s : s[i] = s[j] => i = j
    PROVE  LET u == UnlinkGuestListNode(s, x)
           IN  /\ \A i \in DOMAIN u : u[i] # x /\ \E k \in DOMAIN s : u[i] = s[k]
               /\ \A i, j \in DOMAIN u : u[i] = u[j] => i = j
<1> DEFINE u == UnlinkGuestListNode(s, x)
<1>1. CASE ~ \E i \in DOMAIN s : s[i] = x
  BY <1>1 DEF UnlinkGuestListNode
<1>2. CASE \E i \in DOMAIN s : s[i] = x
  <2> DEFINE k == CHOOSE i \in DOMAIN s : s[i] = x
  <2>1. k \in DOMAIN s /\ s[k] = x
    BY <1>2
  <2>2. u = RemoveAt(s, k)
    BY <1>2 DEF UnlinkGuestListNode
  <2> HIDE DEF k, u
  <2>3. Len(u) = Len(s) - 1 /\ DOMAIN u = 1 .. Len(s) - 1
    <3> DEFINE a == SubSeq(s, 1, k - 1)
               b == SubSeq(s, k + 1, Len(s))
    <3>0. k \in 1 .. Len(s) /\ Len(s) \in Nat
      BY <2>1
    <3>1. a \in Seq(S) /\ Len(a) = k - 1
      BY <3>0
    <3>2. b \in Seq(S) /\ Len(b) = Len(s) - k
      BY <3>0
    <3>3. u = a \o b
      BY <2>2 DEF RemoveAt
    <3> HIDE DEF a, b
    <3>4. u \in Seq(S) /\ Len(u) = Len(a) + Len(b)
      <4>1. a \o b \in Seq(S) /\ Len(a \o b) = Len(a) + Len(b)
        BY <3>1, <3>2
      <4> QED
        BY <3>3, <4>1
    <3> QED
      BY <3>0, <3>1, <3>2, <3>4
  <2>4. \A i \in DOMAIN u : u[i] = IF i < k THEN s[i] ELSE s[i + 1]
    <3> DEFINE a == SubSeq(s, 1, k - 1)
               b == SubSeq(s, k + 1, Len(s))
    <3>0. k \in 1 .. Len(s) /\ Len(s) \in Nat
      BY <2>1
    <3>1. a \in Seq(S) /\ Len(a) = k - 1 /\ \A i \in 1 .. k - 1 : a[i] = s[i]
      BY <3>0
    <3>2. /\ b \in Seq(S) /\ Len(b) = Len(s) - k
          /\ \A i \in 1 .. Len(s) - k : b[i] = s[k + i]
      BY <3>0
    <3>3. u = a \o b
      BY <2>2 DEF RemoveAt
    <3> HIDE DEF a, b
    <3>4. ASSUME NEW i \in 1 .. Len(s) - 1, i < k
          PROVE  u[i] = s[i]
      BY <3>0, <3>1, <3>2, <3>3, <3>4
    <3>5. ASSUME NEW i \in 1 .. Len(s) - 1, ~ (i < k)
          PROVE  u[i] = s[i + 1]
      <4>1. i - (k - 1) \in 1 .. Len(s) - k
        BY <3>0, <3>5
      <4>2. u[i] = b[i - (k - 1)]
        <5>1. \A j \in 1 .. Len(b) : (a \o b)[Len(a) + j] = b[j]
          BY <3>1, <3>2
        <5>2. Len(a) + (i - (k - 1)) = i
          BY <3>0, <3>1
        <5> QED
          BY <3>2, <3>3, <4>1, <5>1, <5>2
      <4>3. k + (i - (k - 1)) = i + 1
        BY <3>0
      <4> QED
        BY <3>2, <4>1, <4>2, <4>3
    <3> QED
      BY <2>3, <3>4, <3>5
  <2>5. ASSUME NEW i \in DOMAIN u
        PROVE  /\ (IF i < k THEN i ELSE i + 1) \in DOMAIN s
               /\ (IF i < k THEN i ELSE i + 1) # k
               /\ u[i] = s[IF i < k THEN i ELSE i + 1]
    BY <2>1, <2>3, <2>4
  <2>6. \A i \in DOMAIN u : u[i] # x /\ \E l \in DOMAIN s : u[i] = s[l]
    BY <2>1, <2>5
  <2>7. ASSUME NEW i \in DOMAIN u, NEW j \in DOMAIN u, u[i] = u[j]
        PROVE  i = j
    <3>1. (IF i < k THEN i ELSE i + 1) = (IF j < k THEN j ELSE j + 1)
      BY <2>5, <2>7
    <3>2. i \in Nat /\ j \in Nat /\ k \in Nat
      BY <2>1, <2>3
    <3> QED
      BY <3>1, <3>2
  <2> QED
    BY <2>6, <2>7 DEF u
<1> QED
  BY <1>1, <1>2

\* What MutexesConsistent says, for the proofs of the steps that change it.
LEMMA MutexFacts ==
    ASSUME KInv
    PROVE  /\ \A m \in Mutexes : owner[m] = None <=> count[m] = 0
           /\ \A t \in Threads : \A i \in DOMAIN owned[t] :
                owned[t][i] \in Mutexes /\ owner[owned[t][i]] = t
           /\ \A t \in Threads : \A i, j \in DOMAIN owned[t] : owned[t][i] = owned[t][j] => i = j
           /\ owned \in [Threads -> Seq(Mutexes)]
           /\ owner \in [Mutexes -> Threads \cup {None}] /\ count \in [Mutexes -> Nat]
<1>1. /\ owned \in [Threads -> Seq(Mutexes)]
      /\ owner \in [Mutexes -> Threads \cup {None}] /\ count \in [Mutexes -> Nat]
  BY DEF KInv, TypeOK
<1>2. MutexesConsistent
  BY DEF KInv
<1>3. ASSUME NEW t \in Threads, NEW i \in DOMAIN owned[t]
      PROVE  owned[t][i] \in Mutexes /\ owner[owned[t][i]] = t
  <2>1. owned[t] \in Seq(Mutexes)
    BY <1>1
  <2>2. owned[t][i] \in Mutexes
    BY <2>1
  <2>3. owner[owned[t][i]] = t
    BY <1>2 DEF MutexesConsistent
  <2> QED
    BY <2>2, <2>3
<1>4. \A t \in Threads : \A i, j \in DOMAIN owned[t] : owned[t][i] = owned[t][j] => i = j
  BY <1>2 DEF MutexesConsistent
<1>5. \A m \in Mutexes : owner[m] = None <=> count[m] = 0
  BY <1>2 DEF MutexesConsistent
<1> QED
  BY <1>1, <1>3, <1>4, <1>5

\* Taking a mutex, or waiting for it, keeps the invariant.
LEMMA LockMutexStep ==
    ASSUME KInv, LockMutex
    PROVE  KInv'
<1>0. stack \in Stacks /\ host \in Threads
  BY TypeStacks DEF KInv
<1>1. /\ Top \in GoodFrames /\ Top \in Frames /\ stack[host] # <<>>
      /\ Top.thr \in Threads /\ Top.mut \in Mutexes
  BY <1>0, TopType DEF LockMutex, NeedThread, NeedMutex
<1> DEFINE t == Top.thr
           m == Top.mut
<1>2. t \in Threads /\ m \in Mutexes /\ t # None
  BY <1>1, QueueConstants
<1>3. UNCHANGED <<state, suspend, prio, base, detached, listVars, links, schedVars,
                  fiberVars, host, timerVars, alarmVars>>
  BY DEF LockMutex
<1>4. CASE /\ owner[m] \in {None, t}
           /\ owner' = [owner EXCEPT ![m] = t]
           /\ count' = [count EXCEPT ![m] = count[m] + 1]
           /\ owned' = IF owner[m] = None THEN [owned EXCEPT ![t] = Append(owned[t], m)] ELSE owned
           /\ Return
           /\ UNCHANGED waitMutex
  <2>1. stack' \in Stacks
    BY <1>0, <1>1, <1>4, ReturnType
  <2> HIDE DEF t, m
  <2>2. /\ owner' \in [Mutexes -> Threads \cup {None}] /\ count' \in [Mutexes -> Nat]
        /\ owned' \in [Threads -> Seq(Mutexes)]
    BY <1>2, <1>4, MutexFacts
  <2>3. \A n \in Mutexes : owner'[n] = None <=> count'[n] = 0
    BY <1>2, <1>4, <2>2, MutexFacts
  <2>4. ASSUME NEW u \in Threads, NEW i \in DOMAIN owned'[u], NEW j \in DOMAIN owned'[u]
        PROVE  /\ owner'[owned'[u][i]] = u
               /\ owned'[u][i] = owned'[u][j] => i = j
    <3>1. owned[u] \in Seq(Mutexes)
      BY MutexFacts
    <3>2. \A k \in DOMAIN owned[u] : owner[m] = None => owned[u][k] # m
      BY MutexFacts, QueueConstants
    <3>3. CASE owned'[u] = owned[u]
      BY <1>2, <1>4, <3>3, MutexFacts, QueueConstants
    <3>4. CASE owner[m] = None /\ u = t
      <4>1. owned'[u] = Append(owned[u], m)
        BY <1>2, <1>4, <3>4, MutexFacts
      <4>2. DOMAIN owned'[u] = 1 .. Len(owned[u]) + 1
        BY <3>1, <4>1, <1>2
      <4>3. \A k \in 1 .. Len(owned[u]) : owned'[u][k] = owned[u][k]
        BY <3>1, <4>1, <1>2
      <4>4. owned'[u][Len(owned[u]) + 1] = m
        BY <3>1, <4>1, <1>2
      <4> QED
        BY <1>2, <1>4, <3>1, <3>2, <3>4, <4>2, <4>3, <4>4, MutexFacts
    <3> QED
      BY <1>2, <1>4, <3>3, <3>4, MutexFacts
  <2>5. MutexesConsistent'
    BY <2>3, <2>4 DEF MutexesConsistent
  <2>6. TypeOK'
    BY <1>3, <1>4, <2>1, <2>2
    DEF KInv, TypeOK, Stacks, GoodFrames, listVars, schedVars, fiberVars, timerVars, alarmVars
  <2> QED
    BY <1>3, <2>5, <2>6 DEF KInv, PendingExact
<1>5. CASE /\ owner[m] \notin {None, t}
           /\ waitMutex' = [waitMutex EXCEPT ![t] = m]
           /\ Continue(<<Promote(owner[m], prio[t]), OnQ("sleep", MutexQueue(m)),
                         [Top EXCEPT !.pc = "relock"]>>)
           /\ UNCHANGED <<owned, mutexVars>>
  <2>1. Promote(owner[m], prio[t]) \in GoodFrames /\ OnQ("sleep", MutexQueue(m)) \in GoodFrames
    BY <1>2, PromoteType, PushedFrames, QueueFacts DEF KInv, TypeOK
  <2>2. [Top EXCEPT !.pc = "relock"] \in GoodFrames
    <3> DEFINE g == [Top EXCEPT !.pc = "relock"]
    <3>1. "relock" \in PCs
      BY DEF PCs
    <3>2. g \in Frames /\ g.pc = "relock" /\ g.thr = t /\ g.mut = m
      BY <1>1, <3>1, With_pc
    <3> HIDE DEF g
    <3> QED
      BY <1>2, <3>2, QueueConstants, GoodFrame DEF g, NeedThread, NeedQueue, NeedMutex
  <2>3. stack' \in Stacks
    BY <1>0, <1>1, <1>5, <2>1, <2>2, FrameLists, ContinueType
  <2>4. waitMutex' \in [Threads -> Mutexes \cup {None}]
    BY <1>2, <1>5 DEF KInv, TypeOK
  <2>5. TypeOK'
    BY <1>3, <1>5, <2>3, <2>4
    DEF KInv, TypeOK, Stacks, GoodFrames, listVars, schedVars, mutexVars, fiberVars, timerVars,
        alarmVars
  <2> QED
    BY <1>3, <1>5, <2>5, KeepQueues DEF mutexVars
<1> QED
  BY <1>4, <1>5 DEF LockMutex

\* Trying a mutex again after a wait keeps the invariant.
LEMMA RelockMutexStep ==
    ASSUME KInv, RelockMutex
    PROVE  KInv'
<1>0. stack \in Stacks /\ host \in Threads
  BY TypeStacks DEF KInv
<1>1. /\ Top \in Frames /\ stack[host] # <<>> /\ Top.thr \in Threads /\ Top.mut \in Mutexes
  BY <1>0, TopType DEF RelockMutex, NeedThread, NeedMutex
<1>2. [Top EXCEPT !.pc = "lock"] \in GoodFrames
  <2> DEFINE g == [Top EXCEPT !.pc = "lock"]
  <2>1. "lock" \in PCs
    BY DEF PCs
  <2>2. g \in Frames /\ g.pc = "lock" /\ g.thr = Top.thr /\ g.mut = Top.mut
    BY <1>1, <2>1, With_pc
  <2> HIDE DEF g
  <2> QED
    BY <1>1, <2>2, QueueConstants, GoodFrame DEF g, NeedThread, NeedQueue, NeedMutex
<1>3. stack' \in Stacks
  BY <1>0, <1>1, <1>2, FrameLists, ContinueType DEF RelockMutex
<1>4. waitMutex' \in [Threads -> Mutexes \cup {None}]
  BY DEF KInv, TypeOK, RelockMutex
<1>5. TypeOK'
  BY <1>3, <1>4
  DEF KInv, TypeOK, Stacks, GoodFrames, RelockMutex, listVars, schedVars, mutexVars, fiberVars,
      timerVars, alarmVars
<1> QED
  BY <1>5, KeepQueues DEF RelockMutex, mutexVars

\* A released mutex leaves the owner's list: nobody lists it any more.
LEMMA Released ==
    ASSUME KInv, NEW m \in Mutexes, NEW t \in Threads, owner[m] = t,
           NEW kept \in Seq(Mutexes),
           \A i \in DOMAIN kept : kept[i] # m /\ \E k \in DOMAIN owned[t] : kept[i] = owned[t][k],
           \A i, j \in DOMAIN kept : kept[i] = kept[j] => i = j,
           owned' = [owned EXCEPT ![t] = kept],
           owner' = [owner EXCEPT ![m] = None],
           count' = [count EXCEPT ![m] = 0]
    PROVE  /\ MutexesConsistent'
           /\ owned' \in [Threads -> Seq(Mutexes)]
           /\ owner' \in [Mutexes -> Threads \cup {None}] /\ count' \in [Mutexes -> Nat]
<1>1. /\ owned' \in [Threads -> Seq(Mutexes)]
      /\ owner' \in [Mutexes -> Threads \cup {None}] /\ count' \in [Mutexes -> Nat]
  BY MutexFacts
<1>2. \A n \in Mutexes : owner'[n] = None <=> count'[n] = 0
  BY MutexFacts
<1>3. ASSUME NEW u \in Threads, NEW i \in DOMAIN owned'[u], NEW j \in DOMAIN owned'[u]
      PROVE  /\ owner'[owned'[u][i]] = u
             /\ owned'[u][i] = owned'[u][j] => i = j
  <2>1. CASE u = t
    <3>1. owned'[u] = kept
      BY <2>1, MutexFacts
    <3>2. kept[i] # m /\ kept[i] \in Mutexes /\ owner[kept[i]] = t
      BY <3>1, MutexFacts
    <3> QED
      BY <2>1, <3>1, <3>2, MutexFacts
  <2>2. CASE u # t
    <3>1. owned'[u] = owned[u]
      BY <2>2, MutexFacts
    <3>2. owned[u][i] \in Mutexes /\ owner[owned[u][i]] = u
      BY <3>1, MutexFacts
    <3>3. owned[u][i] # m
      BY <2>2, <3>2
    <3> QED
      BY <3>1, <3>2, <3>3, MutexFacts
  <2> QED
    BY <2>1, <2>2
<1> QED
  BY <1>1, <1>2, <1>3 DEF MutexesConsistent

\* Giving a mutex up keeps the invariant.
LEMMA UnlockMutexStep ==
    ASSUME KInv, NEW m \in Mutexes, OSUnlockMutex(m)
    PROVE  KInv'
<1>0. stack \in Stacks /\ host \in Threads
  BY TypeStacks DEF KInv
<1>1. running \in Threads /\ owner[m] = running
  BY DEF OSUnlockMutex, KInv, TypeOK
<1>2. count' = [count EXCEPT ![m] = count[m] - 1] /\ count[m] \in Nat \ {0}
  BY <1>1, MutexFacts, QueueConstants DEF OSUnlockMutex
<1>3. UNCHANGED <<state, suspend, base, detached, waitMutex, listVars, links, schedVars,
                  fiberVars, host, timerVars, alarmVars>>
  BY DEF OSUnlockMutex
<1>4. CASE count[m] = 1
  <2> DEFINE kept == UnlinkGuestListNode(owned[running], m)
             e == ComputeThreadEffectivePriority(links, prio, base[running], kept)
  <2>1. /\ owner' = [owner EXCEPT ![m] = None]
        /\ owned' = [owned EXCEPT ![running] = kept]
        /\ Call(<<OnQ("wake", MutexQueue(m))>>)
    BY <1>4 DEF OSUnlockMutex
  <2>1a. \/ prio' = prio
         \/ prio' = [prio EXCEPT ![running] = e]
    BY <1>4 DEF OSUnlockMutex
  <2>2. owned[running] \in Seq(Mutexes)
    BY <1>1, MutexFacts
  <2>3. kept \in Seq(Mutexes)
    BY <2>2, UnlinkType
  <2>4. /\ \A i \in DOMAIN kept : kept[i] # m /\ \E k \in DOMAIN owned[running] : kept[i] = owned[running][k]
        /\ \A i, j \in DOMAIN kept : kept[i] = kept[j] => i = j
    <3>1. \A i, j \in DOMAIN owned[running] : owned[running][i] = owned[running][j] => i = j
      BY <1>1, MutexFacts
    <3> QED
      BY <2>2, <3>1, UnlinkElements
  <2>5. e \in Prios
    BY <1>1, <2>3, EffectivePriorityType DEF KInv, TypeOK
  <2> HIDE DEF kept, e
  <2>6. count' = [count EXCEPT ![m] = 0]
    BY <1>2, <1>4
  <2>7. /\ MutexesConsistent'
        /\ owned' \in [Threads -> Seq(Mutexes)]
        /\ owner' \in [Mutexes -> Threads \cup {None}] /\ count' \in [Mutexes -> Nat]
    BY <1>1, <2>1, <2>3, <2>4, <2>6, Released
  <2>8. prio' \in [Threads -> 0 .. MaxPrio + 1]
    <3>1. prio \in [Threads -> 0 .. MaxPrio + 1] /\ e \in 0 .. MaxPrio + 1
      BY <2>5, QueueConstants DEF KInv, TypeOK, Prios
    <3> QED
      BY <1>1, <2>1a, <3>1
  <2>9. stack' \in Stacks
    BY <1>0, <2>1, QueueFacts, PushedFrames, FrameLists, CallType
  <2>10. TypeOK'
    BY <1>3, <2>7, <2>8, <2>9
    DEF KInv, TypeOK, Stacks, GoodFrames, listVars, schedVars, fiberVars, timerVars, alarmVars
  <2> QED
    BY <1>3, <2>7, <2>10 DEF KInv, PendingExact
<1>5. CASE count[m] # 1
  <2>1. UNCHANGED <<owner, owned, prio, stack>>
    BY <1>5 DEF OSUnlockMutex
  <2>2. count' \in [Mutexes -> Nat] /\ \A n \in Mutexes : count'[n] = 0 <=> count[n] = 0
    BY <1>2, <1>5, MutexFacts
  <2>3. MutexesConsistent'
    BY <2>1, <2>2 DEF KInv, MutexesConsistent
  <2>4. TypeOK'
    BY <1>3, <2>1, <2>2
    DEF KInv, TypeOK, listVars, schedVars, fiberVars, timerVars, alarmVars
  <2> QED
    BY <1>3, <2>3, <2>4 DEF KInv, PendingExact
<1> QED
  BY <1>4, <1>5

\* __OSUnlockAllMutex releases the next mutex and keeps the invariant.
LEMMA UnlockAllStep ==
    ASSUME KInv, UnlockAllMutex
    PROVE  KInv'
<1>0. stack \in Stacks /\ host \in Threads
  BY TypeStacks DEF KInv
<1> DEFINE t == Top.thr
<1>1. t \in Threads /\ stack[host] # <<>>
  BY <1>0, TopType DEF UnlockAllMutex, NeedThread
<1>2. UNCHANGED <<state, suspend, prio, base, detached, waitMutex, listVars, links,
                  schedVars, fiberVars, host, timerVars, alarmVars>>
  BY DEF UnlockAllMutex
<1>3. CASE owned[t] = <<>>
  <2>1. Return /\ UNCHANGED <<owner, count, owned>>
    BY <1>3 DEF UnlockAllMutex
  <2>2. stack' \in Stacks
    BY <1>0, <1>1, <2>1, ReturnType
  <2> QED
    BY <1>2, <2>1, <2>2, StackStep DEF threadVars, mutexVars
<1>4. CASE owned[t] # <<>>
  <2> DEFINE m == Head(owned[t])
             kept == Tail(owned[t])
  <2>1. /\ owned' = [owned EXCEPT ![t] = kept]
        /\ owner' = [owner EXCEPT ![m] = None]
        /\ count' = [count EXCEPT ![m] = 0]
        /\ Call(<<OnQ("wake", MutexQueue(m))>>)
    BY <1>4 DEF UnlockAllMutex
  <2>2. owned[t] \in Seq(Mutexes) /\ 1 \in DOMAIN owned[t]
    BY <1>1, <1>4, MutexFacts
  <2>3. kept \in Seq(Mutexes) /\ m = owned[t][1]
    BY <1>4, <2>2
  <2>4. m \in Mutexes /\ owner[m] = t
    BY <1>1, <2>2, <2>3, MutexFacts
  <2>5. /\ DOMAIN kept = 1 .. Len(owned[t]) - 1
        /\ \A i \in DOMAIN kept : kept[i] = owned[t][i + 1] /\ i + 1 \in DOMAIN owned[t] /\ i + 1 # 1
    BY <1>4, <2>2
  <2> HIDE DEF t, m, kept
  <2>6. \A i \in DOMAIN kept : kept[i] # m /\ \E k \in DOMAIN owned[t] : kept[i] = owned[t][k]
    BY <1>1, <2>2, <2>3, <2>5, MutexFacts
  <2>7. \A i, j \in DOMAIN kept : kept[i] = kept[j] => i = j
    <3>1. ASSUME NEW i \in DOMAIN kept, NEW j \in DOMAIN kept, kept[i] = kept[j]
          PROVE  i = j
      <4>1. i + 1 = j + 1
        BY <1>1, <2>5, <3>1, MutexFacts
      <4>2. i \in Nat /\ j \in Nat
        BY <2>2, <2>5
      <4> QED
        BY <4>1, <4>2
    <3> QED
      BY <3>1
  <2>8. /\ MutexesConsistent'
        /\ owned' \in [Threads -> Seq(Mutexes)]
        /\ owner' \in [Mutexes -> Threads \cup {None}] /\ count' \in [Mutexes -> Nat]
    BY <1>1, <2>1, <2>3, <2>4, <2>6, <2>7, Released
  <2>9. stack' \in Stacks
    BY <1>0, <2>1, <2>4, QueueFacts, PushedFrames, FrameLists, CallType
  <2>10. TypeOK'
    BY <1>2, <2>8, <2>9
    DEF KInv, TypeOK, Stacks, GoodFrames, listVars, schedVars, fiberVars, timerVars, alarmVars
  <2> QED
    BY <1>2, <2>8, <2>10 DEF KInv, PendingExact
<1> QED
  BY <1>3, <1>4

-----------------------------------------------------------------------------
(***************************************************************************)
(* Suspension and the sleep park.                                          *)
(***************************************************************************)
LEMMA SuspendThreadStep ==
    ASSUME KInv, SuspendThread
    PROVE  KInv'
<1>0. stack \in Stacks /\ host \in Threads /\ links \in Links /\ PendingMatches(links)
  BY TypeStacks DEF KInv, TypeOK, PendingExact
<1> DEFINE t == Top.thr
           off == RemoveThreadFromQueue(links, t)
           wait == InsertThreadIntoQueueByPriority(off, prio, links.at[t], t, SuspendedWaitPriority)
           o == OwnerOf(waitMutex[t])
<1>1. t \in Threads /\ stack[host] # <<>>
  BY <1>0, TopType DEF SuspendThread, NeedThread
<1>2. off \in Links /\ PendingMatches(off)
  BY <1>0, <1>1, RemoveLinks
<1>3. links.at[t] # None => wait \in Links /\ PendingMatches(wait)
  <2>1. links.at[t] \in Queues \cup {None}
    BY <1>0, <1>1 DEF Links
  <2> QED
    BY <1>1, <1>2, <2>1, InsertLinks
<1>4. o \in Threads \cup {None}
  BY <1>1 DEF KInv, TypeOK, OwnerOf
<1>5. suspend' = [suspend EXCEPT ![t] = suspend[t] + 1]
  BY DEF SuspendThread
<1>6. \/ state' = state
      \/ state' = [state EXCEPT ![t] = "ready"]
  BY DEF SuspendThread
<1>7. resched' \in BOOLEAN
  BY DEF SuspendThread, KInv, TypeOK
<1>8. \/ prio' = prio
      \/ prio' = [prio EXCEPT ![t] = MaxPrio + 1]
  BY DEF SuspendThread, SuspendedWaitPriority
<1>9. \/ links' = links
      \/ links' = off
      \/ links.at[t] # None /\ links' = wait
  BY DEF SuspendThread
<1>10. \/ Return
       \/ Continue(<<On("propagate", o), Frame("resched")>>)
       \/ Continue(<<Frame("resched")>>)
  BY DEF SuspendThread
<1>11. UNCHANGED <<base, detached, waitMutex, owned, listVars, disable, running, current,
                   mutexVars, fiberVars, host, timerVars, alarmVars>>
  BY DEF SuspendThread
<1> HIDE DEF t, off, wait, o
<1>12. links' \in Links /\ PendingMatches(links')
  BY <1>0, <1>2, <1>3, <1>9
<1>13. stack' \in Stacks
  <2>1. <<On("propagate", o), Frame("resched")>> \in Seq(GoodFrames)
    BY <1>4, PushedFrames, FrameLists
  <2>2. <<Frame("resched")>> \in Seq(GoodFrames)
    BY PushedFrames, FrameLists
  <2> QED
    BY <1>0, <1>1, <1>10, <2>1, <2>2, ReturnType, ContinueType
<1>14. /\ suspend' \in [Threads -> Nat]
       /\ state' \in [Threads -> States]
       /\ prio' \in [Threads -> 0 .. MaxPrio + 1]
  <2>1. suspend \in [Threads -> Nat] /\ state \in [Threads -> States] /\ "ready" \in States
    BY DEF KInv, TypeOK, States
  <2>2. prio \in [Threads -> 0 .. MaxPrio + 1] /\ MaxPrio + 1 \in 0 .. MaxPrio + 1
    BY QueueConstants DEF KInv, TypeOK
  <2> QED
    BY <1>1, <1>5, <1>6, <1>8, <2>1, <2>2
<1>15. TypeOK'
  BY <1>7, <1>11, <1>12, <1>13, <1>14
  DEF KInv, TypeOK, Stacks, GoodFrames, listVars, mutexVars, fiberVars, timerVars, alarmVars
<1> QED
  BY <1>11, <1>12, <1>15, KeepMutexes DEF mutexVars

\* Resuming a thread keeps the invariant.
LEMMA ResumeThreadStep ==
    ASSUME KInv, ResumeThread
    PROVE  KInv'
<1>0. stack \in Stacks /\ host \in Threads /\ links \in Links /\ PendingMatches(links)
  BY TypeStacks DEF KInv, TypeOK, PendingExact
<1> DEFINE t == Top.thr
           eff == EffectivePriority(t)
           off == RemoveThreadFromQueue(links, t)
           e == ComputeThreadEffectivePriority(off, prio, base[t], owned[t])
           wait == InsertThreadIntoQueueByPriority(off, prio, links.at[t], t, e)
           run == InsertThreadIntoQueueByPriority(links, prio, RunQueue(eff), t, eff)
           o == OwnerOf(waitMutex[t])
<1>1. t \in Threads /\ stack[host] # <<>>
  BY <1>0, TopType DEF ResumeThread, NeedThread
<1>2. off \in Links /\ PendingMatches(off)
  BY <1>0, <1>1, RemoveLinks
<1>3. links.at[t] # None => wait \in Links /\ PendingMatches(wait)
  <2>1. links.at[t] \in Queues \cup {None}
    BY <1>0, <1>1 DEF Links
  <2> QED
    BY <1>1, <1>2, <2>1, InsertLinks
<1>4. /\ prio \in [Threads -> 0 .. MaxPrio + 1] /\ base[t] \in Prios
      /\ owned[t] \in Seq(Mutexes)
  BY <1>1 DEF KInv, TypeOK
<1>5. e \in 0 .. MaxPrio + 1 /\ eff \in 0 .. MaxPrio + 1
  <2>1. e \in Prios
    BY <1>2, <1>4, EffectivePriorityType
  <2>2. eff \in Prios
    BY <1>0, <1>4, EffectivePriorityType DEF EffectivePriority
  <2> QED
    BY <2>1, <2>2, QueueConstants DEF Prios
<1>6. run \in Links /\ PendingMatches(run)
  <2>1. RunQueue(eff) \in Queues
    BY <1>5, QueueFacts
  <2> QED
    BY <1>0, <1>1, <2>1, InsertLinks
<1>7. o \in Threads \cup {None}
  BY <1>1 DEF KInv, TypeOK, OwnerOf
<1>8. \/ suspend' = [suspend EXCEPT ![t] = IF suspend[t] = 0 THEN 0 ELSE suspend[t] - 1]
      \/ suspend' = [suspend EXCEPT ![t] = 0]
  BY DEF ResumeThread
<1>9. \/ state' = state
      \/ state' = [state EXCEPT ![t] = "ready"]
  BY DEF ResumeThread
<1>10. resched' = TRUE \/ resched' = resched
  BY DEF ResumeThread
<1>11. \/ prio' = prio
       \/ prio' = [prio EXCEPT ![t] = e]
       \/ prio' = [prio EXCEPT ![t] = eff]
  BY DEF ResumeThread
<1>12. \/ links' = links
       \/ links' = off
       \/ links.at[t] # None /\ links' = wait
       \/ links' = run
  BY DEF ResumeThread
<1>13. \/ Return
       \/ Continue(<<On("propagate", o), Frame("resched")>>)
       \/ Continue(<<Frame("resched")>>)
  BY DEF ResumeThread
<1>14. timers' \subseteq timers /\ parks' \subseteq parks
  BY DEF ResumeThread
<1>15. UNCHANGED <<base, detached, waitMutex, owned, listVars, disable, running, current,
                   mutexVars, fiberVars, host, seen, alarmVars>>
  BY DEF ResumeThread
<1> HIDE DEF t, eff, off, e, wait, run, o
<1>16. links' \in Links /\ PendingMatches(links')
  BY <1>0, <1>2, <1>3, <1>6, <1>12
<1>17. stack' \in Stacks
  <2>1. <<On("propagate", o), Frame("resched")>> \in Seq(GoodFrames)
    BY <1>7, PushedFrames, FrameLists
  <2>2. <<Frame("resched")>> \in Seq(GoodFrames)
    BY PushedFrames, FrameLists
  <2> QED
    BY <1>0, <1>1, <1>13, <2>1, <2>2, ReturnType, ContinueType
<1>18. /\ suspend' \in [Threads -> Nat]
       /\ state' \in [Threads -> States]
       /\ prio' \in [Threads -> 0 .. MaxPrio + 1]
       /\ resched' \in BOOLEAN
  <2>1. /\ suspend \in [Threads -> Nat] /\ state \in [Threads -> States] /\ "ready" \in States
        /\ resched \in BOOLEAN
    BY DEF KInv, TypeOK, States
  <2>2. suspend' \in [Threads -> Nat]
    <3>1. suspend[t] \in Nat
      BY <1>1, <2>1
    <3>2. (IF suspend[t] = 0 THEN 0 ELSE suspend[t] - 1) \in Nat
      BY <3>1
    <3> QED
      BY <1>1, <1>8, <2>1, <3>2
  <2> QED
    BY <1>1, <1>4, <1>5, <1>9, <1>10, <1>11, <2>1, <2>2
<1>19. TypeOK'
  BY <1>14, <1>15, <1>16, <1>17, <1>18
  DEF KInv, TypeOK, Stacks, GoodFrames, listVars, mutexVars, fiberVars, alarmVars
<1> QED
  BY <1>15, <1>16, <1>19, KeepMutexes DEF mutexVars

\* Coming back from the park of OSSleepTicks keeps the invariant.
LEMMA TickedStep ==
    ASSUME KInv, Ticked
    PROVE  KInv'
<1>0. stack \in Stacks /\ host \in Threads
  BY TypeStacks DEF KInv
<1> DEFINE t == Top.thr
<1>1. t \in Threads /\ stack[host] # <<>>
  BY <1>0, TopType DEF Ticked, NeedThread
<1>2. stack' \in Stacks
  BY <1>0, <1>1, ReturnType DEF Ticked
<1>3. \/ suspend' = suspend
      \/ suspend[t] > 0 /\ suspend' = [suspend EXCEPT ![t] = suspend[t] - 1]
  BY DEF Ticked
<1>4. \/ state' = state
      \/ state' = [state EXCEPT ![t] = "running"]
  BY DEF Ticked
<1>5. timers' \subseteq timers /\ parks' \subseteq parks
  BY DEF Ticked
<1>6. UNCHANGED <<prio, base, detached, waitMutex, owned, listVars, links, schedVars,
                  mutexVars, fiberVars, host, seen, alarmVars>>
  BY DEF Ticked
<1> HIDE DEF t
<1>7. suspend' \in [Threads -> Nat] /\ state' \in [Threads -> States]
  <2>1. suspend \in [Threads -> Nat] /\ state \in [Threads -> States] /\ "running" \in States
    BY DEF KInv, TypeOK, States
  <2> QED
    BY <1>1, <1>3, <1>4, <2>1
<1>8. TypeOK'
  BY <1>2, <1>5, <1>6, <1>7
  DEF KInv, TypeOK, Stacks, GoodFrames, listVars, schedVars, mutexVars, fiberVars, alarmVars
<1> QED
  BY <1>6, <1>8, KeepQueues DEF mutexVars

-----------------------------------------------------------------------------
(***************************************************************************)
(* The thread life cycle.                                                  *)
(***************************************************************************)
LEMMA CreateThreadStep ==
    ASSUME KInv, NEW t \in Threads, OSCreateThread(t)
    PROVE  KInv'
<1>0. stack \in Stacks /\ links \in Links /\ PendingMatches(links)
  BY TypeStacks DEF KInv, TypeOK, PendingExact
<1>1. links' \in Links /\ PendingMatches(links')
  <2>1. links' = [links EXCEPT !.seq = [links.seq EXCEPT ![JoinQueue(t)] = <<>>]]
    BY DEF OSCreateThread
  <2>2. JoinQueue(t) \in Queues /\ <<>> \in Seq(Threads)
    BY QueueFacts
  <2>3. /\ links'.seq = [links.seq EXCEPT ![JoinQueue(t)] = <<>>]
        /\ links'.at = links.at /\ links'.pending = links.pending
        /\ links' \in Links
    BY <1>0, <2>1, <2>2 DEF Links
  <2>4. \A p \in 0 .. MaxPrio + 1 : links'.seq[RunQueue(p)] = links.seq[RunQueue(p)]
    <3>1. links.seq \in [Queues -> Seq(Threads)]
      BY <1>0 DEF Links
    <3>2. \A p \in 0 .. MaxPrio + 1 : RunQueue(p) \in Queues /\ RunQueue(p) # JoinQueue(t)
      BY QueueFacts
    <3> QED
      BY <2>3, <3>1, <3>2
  <2> QED
    BY <1>0, <2>3, <2>4 DEF PendingMatches
<1>2. stack' \in Stacks
  <2>1. stack' = [stack EXCEPT ![t] = <<>>] /\ <<>> \in Seq(GoodFrames)
    BY FrameLists DEF OSCreateThread
  <2> QED
    BY <1>0, <2>1 DEF Stacks
<1>3. owned' = [owned EXCEPT ![t] = <<>>] /\ owned' \in [Threads -> Seq(Mutexes)]
  BY DEF OSCreateThread, KInv, TypeOK
<1>4. UNCHANGED <<schedVars, mutexVars, fiberThread, host, timerVars, alarmVars>>
  BY DEF OSCreateThread
<1>5. /\ state' \in [Threads -> States] /\ suspend' \in [Threads -> Nat]
      /\ prio' \in [Threads -> 0 .. MaxPrio + 1] /\ base' \in [Threads -> Prios]
      /\ detached' \in [Threads -> BOOLEAN] /\ waitMutex' \in [Threads -> Mutexes \cup {None}]
      /\ threadList' \subseteq Threads /\ held' \in [Threads -> Nat]
      /\ fiber' \in [Threads -> {"none", "live", "terminated"}]
  <2>1. InitPrio[t] \in Prios /\ InitPrio[t] \in 0 .. MaxPrio + 1 /\ "ready" \in States
    BY KernelConstants, QueueConstants DEF Prios, States
  <2>2. state' \in [Threads -> States] /\ suspend' \in [Threads -> Nat]
    BY <2>1 DEF OSCreateThread, KInv, TypeOK
  <2>3. prio' \in [Threads -> 0 .. MaxPrio + 1] /\ base' \in [Threads -> Prios]
    BY <2>1 DEF OSCreateThread, KInv, TypeOK
  <2>4. detached' \in [Threads -> BOOLEAN] /\ waitMutex' \in [Threads -> Mutexes \cup {None}]
    <3> DEFINE b == t \in InitDetached
    <3>1. b \in BOOLEAN /\ detached' = [detached EXCEPT ![t] = b]
      BY DEF OSCreateThread
    <3> HIDE DEF b
    <3>2. detached' \in [Threads -> BOOLEAN]
      BY <3>1 DEF KInv, TypeOK
    <3> QED
      BY <3>2 DEF OSCreateThread, KInv, TypeOK
  <2>5. threadList' \subseteq Threads /\ held' \in [Threads -> Nat]
    BY DEF OSCreateThread, KInv, TypeOK
  <2>6. fiber' \in [Threads -> {"none", "live", "terminated"}]
    BY DEF OSCreateThread, KInv, TypeOK
  <2> QED
    BY <2>2, <2>3, <2>4, <2>5, <2>6
<1>6. TypeOK'
  BY <1>1, <1>2, <1>3, <1>4, <1>5
  DEF KInv, TypeOK, Stacks, GoodFrames, schedVars, mutexVars, timerVars, alarmVars
<1>7. MutexesConsistent'
  <2>1. \A u \in Threads : owned'[u] = owned[u] \/ owned'[u] = <<>>
    BY <1>3 DEF KInv, TypeOK
  <2> QED
    BY <1>4, <2>1 DEF KInv, MutexesConsistent, mutexVars
<1> QED
  BY <1>1, <1>6, <1>7 DEF KInv, PendingExact

\* What ends a thread: its new state is a state, the stacks stay good.
LEMMA TerminateType ==
    ASSUME KInv, NEW t \in Threads, NEW tail \in {"exited", "resched"}, TerminateThread(t, tail)
    PROVE  /\ state' \in [Threads -> States] /\ threadList' \subseteq Threads
           /\ fiber' \in [Threads -> {"none", "live", "terminated"}]
           /\ fiberThread' \in Threads \cup {None}
           /\ stack' \in Stacks
<1>0. stack \in Stacks /\ host \in Threads
  BY TypeStacks DEF KInv
<1> DEFINE calls == <<On("unlockAll", t), OnQ("wake", JoinQueue(t)), Frame(tail)>>
<1>1. calls \in Seq(GoodFrames)
  BY PushedFrames, FrameLists, QueueFacts
<1>2. Terminating(t, calls)
  BY DEF TerminateThread
<1> HIDE DEF calls
<1>3. stack' \in Stacks
  <2>1. \A u \in Threads : stack[u] \in Seq(GoodFrames) /\ calls \o stack[u] \in Seq(GoodFrames)
    BY <1>0, <1>1 DEF Stacks
  <2>2. stack' = [u \in Threads |-> IF u = host THEN calls \o stack[u]
                                    ELSE IF u = t THEN <<>> ELSE stack[u]]
    BY <1>2 DEF Terminating
  <2>3. <<>> \in Seq(GoodFrames)
    BY FrameLists
  <2> QED
    BY <2>1, <2>2, <2>3 DEF Stacks
<1>4. state' \in [Threads -> States]
  <2>1. (IF detached[t] THEN "dead" ELSE "moribund") \in States
    BY DEF States
  <2> QED
    BY <1>2, <2>1 DEF Terminating, KInv, TypeOK
<1> QED
  BY <1>2, <1>3, <1>4 DEF Terminating, KInv, TypeOK

\* OSExitThread and OSCancelThread keep the invariant.
LEMMA TerminationSteps ==
    ASSUME KInv, OSExitThread \/ \E t \in Threads : OSCancelThread(t)
    PROVE  KInv'
<1>1. CASE OSExitThread
  <2>1. running \in Threads /\ TerminateThread(running, "exited")
    BY <1>1 DEF OSExitThread, KInv, TypeOK
  <2>2. /\ state' \in [Threads -> States] /\ threadList' \subseteq Threads
        /\ fiber' \in [Threads -> {"none", "live", "terminated"}]
        /\ fiberThread' \in Threads \cup {None}
        /\ stack' \in Stacks
    BY <2>1, TerminateType
  <2>3. UNCHANGED <<suspend, prio, base, detached, waitMutex, owned, links, schedVars,
                    mutexVars, host, timerVars, alarmVars, held>>
    BY <1>1 DEF OSExitThread
  <2>4. TypeOK'
    BY <2>2, <2>3
    DEF KInv, TypeOK, Stacks, GoodFrames, schedVars, mutexVars, timerVars, alarmVars
  <2> QED
    BY <2>3, <2>4, KeepQueues DEF mutexVars
<1>2. ASSUME NEW t \in Threads, OSCancelThread(t)
      PROVE  KInv'
  <2>1. TerminateThread(t, "resched") /\ resched' = (resched \/ state[t] = "running")
    BY <1>2 DEF OSCancelThread
  <2>2. /\ state' \in [Threads -> States] /\ threadList' \subseteq Threads
        /\ fiber' \in [Threads -> {"none", "live", "terminated"}]
        /\ fiberThread' \in Threads \cup {None}
        /\ stack' \in Stacks
    BY <2>1, TerminateType
  <2>3. UNCHANGED <<suspend, prio, base, detached, waitMutex, owned, disable, running,
                    current, mutexVars, host, timerVars, alarmVars, held>>
    BY <1>2 DEF OSCancelThread
  <2>4. links' = links \/ links' = RemoveThreadFromQueue(links, t)
    BY <1>2 DEF OSCancelThread
  <2>5. links \in Links /\ PendingMatches(links)
    BY DEF KInv, TypeOK, PendingExact
  <2>6. links' \in Links /\ PendingMatches(links')
    BY <2>4, <2>5, RemoveLinks
  <2>7. TypeOK'
    BY <2>1, <2>2, <2>3, <2>6
    DEF KInv, TypeOK, Stacks, GoodFrames, mutexVars, timerVars, alarmVars
  <2> QED
    BY <2>3, <2>6, <2>7, KeepMutexes DEF mutexVars
<1> QED
  BY <1>1, <1>2

\* The last call of a thread that exited keeps the invariant.
LEMMA ExitedStep ==
    ASSUME KInv, Exited
    PROVE  KInv'
<1>0. stack \in Stacks /\ host \in Threads
  BY TypeStacks DEF KInv
<1>1. stack[host] # <<>>
  BY <1>0, TopType DEF Exited
<1>2. stack' \in Stacks
  <2>1. <<SelectThread(FALSE)>> \in Seq(GoodFrames)
    BY SelectType, FrameLists
  <2> QED
    BY <1>0, <1>1, <2>1, ContinueType DEF Exited
<1>3. /\ resched' = TRUE
      /\ UNCHANGED <<threadVars, listVars, links, disable, running, current, mutexVars,
                     fiberVars, host, timerVars, alarmVars>>
  BY DEF Exited
<1>4. TypeOK'
  BY <1>2, <1>3
  DEF KInv, TypeOK, Stacks, GoodFrames, threadVars, listVars, mutexVars, fiberVars, timerVars,
      alarmVars
<1> QED
  BY <1>3, <1>4, KeepQueues DEF mutexVars, threadVars

\* OSJoinThread, before and after its sleep, and OSDetachThread keep the invariant.
LEMMA JoinSteps ==
    ASSUME KInv,
           Joined \/ \E t \in Threads : OSJoinThread(t) \/ OSDetachThread(t)
    PROVE  KInv'
<1>0. stack \in Stacks /\ host \in Threads
  BY TypeStacks DEF KInv
<1>1. ASSUME NEW t \in Threads, Reap(t) \/ UNCHANGED <<state, threadList>>
      PROVE  state' \in [Threads -> States] /\ threadList' \subseteq Threads
  BY <1>1 DEF Reap, States, KInv, TypeOK
<1>2. CASE Joined
  <2>1. Top.thr \in Threads /\ stack[host] # <<>>
    BY <1>0, <1>2, TopType DEF Joined, NeedThread
  <2>2. stack' \in Stacks
    BY <1>0, <1>2, <2>1, ReturnType DEF Joined
  <2>3. state' \in [Threads -> States] /\ threadList' \subseteq Threads
    BY <1>1, <1>2, <2>1 DEF Joined
  <2>4. UNCHANGED <<suspend, prio, base, detached, waitMutex, owned, held, links,
                    schedVars, mutexVars, fiberVars, host, timerVars, alarmVars>>
    BY <1>2 DEF Joined
  <2>5. TypeOK'
    BY <2>2, <2>3, <2>4
    DEF KInv, TypeOK, Stacks, GoodFrames, schedVars, mutexVars, fiberVars, timerVars, alarmVars
  <2> QED
    BY <2>4, <2>5, KeepQueues DEF mutexVars
<1>3. ASSUME NEW t \in Threads, OSJoinThread(t)
      PROVE  KInv'
  <2>1. stack' \in Stacks
    <3>1. stack' = stack \/ Call(<<OnQ("sleep", JoinQueue(t)), On("joined", t)>>)
      BY <1>3 DEF OSJoinThread
    <3>2. <<OnQ("sleep", JoinQueue(t)), On("joined", t)>> \in Seq(GoodFrames)
      BY PushedFrames, FrameLists, QueueFacts
    <3> QED
      BY <1>0, <3>1, <3>2, CallType
  <2>2. state' \in [Threads -> States] /\ threadList' \subseteq Threads
    BY <1>1, <1>3 DEF OSJoinThread
  <2>3. UNCHANGED <<suspend, prio, base, detached, waitMutex, owned, held, links,
                    schedVars, mutexVars, fiberVars, host, timerVars, alarmVars>>
    BY <1>3 DEF OSJoinThread
  <2>4. TypeOK'
    BY <2>1, <2>2, <2>3
    DEF KInv, TypeOK, Stacks, GoodFrames, schedVars, mutexVars, fiberVars, timerVars, alarmVars
  <2> QED
    BY <2>3, <2>4, KeepQueues DEF mutexVars
<1>4. ASSUME NEW t \in Threads, OSDetachThread(t)
      PROVE  KInv'
  <2>1. stack' \in Stacks
    <3>1. <<OnQ("wake", JoinQueue(t))>> \in Seq(GoodFrames)
      BY PushedFrames, FrameLists, QueueFacts
    <3> QED
      BY <1>0, <1>4, <3>1, CallType DEF OSDetachThread
  <2>2. state' \in [Threads -> States] /\ threadList' \subseteq Threads
    BY <1>1, <1>4 DEF OSDetachThread
  <2>3. /\ detached' \in [Threads -> BOOLEAN]
        /\ fiber' \in [Threads -> {"none", "live", "terminated"}]
        /\ fiberThread' \in Threads \cup {None}
    <3>1. /\ detached \in [Threads -> BOOLEAN]
          /\ fiber \in [Threads -> {"none", "live", "terminated"}]
          /\ fiberThread \in Threads \cup {None}
      BY DEF KInv, TypeOK
    <3>2. detached' \in [Threads -> BOOLEAN]
      BY <1>4, <3>1 DEF OSDetachThread
    <3>3. fiber' \in [Threads -> {"none", "live", "terminated"}]
      BY <1>4, <3>1 DEF OSDetachThread, fiberVars
    <3>4. fiberThread' \in Threads \cup {None}
      BY <1>4, <3>1 DEF OSDetachThread, fiberVars
    <3> QED
      BY <3>2, <3>3, <3>4
  <2>4. UNCHANGED <<suspend, prio, base, waitMutex, owned, held, links,
                    schedVars, mutexVars, host, timerVars, alarmVars>>
    BY <1>4 DEF OSDetachThread
  <2>5. TypeOK'
    BY <2>1, <2>2, <2>3, <2>4
    DEF KInv, TypeOK, Stacks, GoodFrames, schedVars, mutexVars, timerVars, alarmVars
  <2> QED
    BY <2>4, <2>5, KeepQueues DEF mutexVars
<1> QED
  BY <1>2, <1>3, <1>4

\* The return of a thread function, and what follows, keeps the invariant.
LEMMA ReturnSteps ==
    ASSUME KInv, ThreadReturn \/ Returned
    PROVE  KInv'
<1>0. stack \in Stacks /\ host \in Threads
  BY TypeStacks DEF KInv
<1>1. CASE ThreadReturn
  <2>1. links' \in Links /\ PendingMatches(links')
    BY <1>0, <1>1, RemoveLinks DEF ThreadReturn, KInv, TypeOK, PendingExact
  <2>2. stack' \in Stacks
    <3>1. <<OnQ("wakeNoSwitch", JoinQueue(host)), On("returned", host)>> \in Seq(GoodFrames)
      BY <1>0, PushedFrames, FrameLists, QueueFacts
    <3> QED
      BY <1>0, <1>1, <3>1, CallType DEF ThreadReturn
  <2>3. state' \in [Threads -> States]
    <3>1. (IF detached[host] THEN "dead" ELSE "moribund") \in States
      BY DEF States
    <3> QED
      BY <1>0, <1>1, <3>1 DEF ThreadReturn, KInv, TypeOK
  <2>4. UNCHANGED <<suspend, prio, base, detached, waitMutex, owned, listVars, schedVars,
                    mutexVars, fiberVars, host, timerVars, alarmVars>>
    BY <1>1 DEF ThreadReturn
  <2>5. TypeOK'
    BY <2>1, <2>2, <2>3, <2>4
    DEF KInv, TypeOK, Stacks, GoodFrames, listVars, schedVars, mutexVars, fiberVars, timerVars,
        alarmVars
  <2> QED
    BY <2>1, <2>4, <2>5, KeepMutexes DEF mutexVars
<1>2. CASE Returned
  <2>1. Top.thr \in Threads /\ stack[host] # <<>>
    BY <1>0, <1>2, TopType DEF Returned, NeedThread
  <2>2. stack' \in Stacks
    BY <1>0, <1>2, <2>1, ReturnType DEF Returned
  <2>3. /\ running' \in Threads \cup {None} /\ current' \in Threads \cup {None, Idle}
        /\ resched' = TRUE /\ fiber' \in [Threads -> {"none", "live", "terminated"}]
        /\ fiberThread' = None /\ host' \in Threads
    BY <1>2, <2>1, KernelConstants DEF Returned, KInv, TypeOK
  <2>4. UNCHANGED <<threadVars, listVars, links, disable, mutexVars, timerVars, alarmVars>>
    BY <1>2 DEF Returned
  <2>5. TypeOK'
    BY <2>2, <2>3, <2>4
    DEF KInv, TypeOK, Stacks, GoodFrames, threadVars, listVars, mutexVars, timerVars, alarmVars
  <2> QED
    BY <2>4, <2>5, KeepQueues DEF mutexVars, threadVars
<1> QED
  BY <1>1, <1>2

-----------------------------------------------------------------------------
(***************************************************************************)
(* The invariant, and what it gives.                                       *)
(***************************************************************************)
LEMMA InitInv == Init => KInv
<1> SUFFICES ASSUME Init PROVE KInv
  OBVIOUS
<1>1. links \in Links /\ PendingMatches(links)
  <2>1. EmptyLinks \in Links
    BY DEF EmptyLinks, Links
  <2>2. PendingMatches(EmptyLinks)
    BY QueueFacts DEF EmptyLinks, PendingMatches
  <2> QED
    BY <2>1, <2>2 DEF Init
<1>2. stack \in Stacks
  BY FrameLists DEF Init, Stacks
<1>3. InitPrio \in [Threads -> Prios] /\ InitPrio \in [Threads -> 0 .. MaxPrio + 1]
  BY KernelConstants, QueueConstants DEF Prios
<1>4. TypeOK
  <2>1. /\ state \in [Threads -> States] /\ suspend \in [Threads -> Nat]
        /\ held \in [Threads -> Nat]
    BY DEF Init, States
  <2>2. prio \in [Threads -> 0 .. MaxPrio + 1] /\ base \in [Threads -> Prios]
    BY <1>3 DEF Init
  <2>3. /\ detached \in [Threads -> BOOLEAN] /\ waitMutex \in [Threads -> Mutexes \cup {None}]
        /\ owned \in [Threads -> Seq(Mutexes)] /\ threadList \subseteq Threads
    BY KernelConstants DEF Init
  <2>4. /\ resched \in BOOLEAN /\ disable \in Nat /\ running \in Threads \cup {None}
        /\ current \in Threads \cup {None, Idle} /\ fiberThread \in Threads \cup {None}
        /\ host \in Threads
    BY KernelConstants DEF Init
  <2>5. /\ owner \in [Mutexes -> Threads \cup {None}] /\ count \in [Mutexes -> Nat]
    BY DEF Init
  <2>6. fiber \in [Threads -> {"none", "live", "terminated"}]
    BY DEF Init
  <2>7. /\ timers \subseteq Threads /\ parks \subseteq Threads /\ seen \subseteq Threads
        /\ armed \subseteq Alarms /\ periodic \subseteq Alarms /\ alarmDepth \in Int
    BY DEF Init
  <2> QED
    BY <1>1, <1>2, <2>1, <2>2, <2>3, <2>4, <2>5, <2>6, <2>7 DEF TypeOK, Stacks, GoodFrames
<1>5. MutexesConsistent
  BY QueueConstants DEF Init, MutexesConsistent
<1> QED
  BY <1>1, <1>4, <1>5 DEF KInv, PendingExact

\* Every step of the kernel keeps the invariant.
LEMMA NextInv == KInv /\ [Next]_vars => KInv'
<1> SUFFICES ASSUME KInv, [Next]_vars PROVE KInv'
  OBVIOUS
<1>1. CASE KernelStep
  <2>1. CASE FireDone \/ HealStrandedSleeper \/ ScheduleReturn \/ IdleAlarms \/ IdleExit
             \/ WakeDone \/ WakeNoSwitchDone \/ Reschedule
    BY <2>1, ControlSteps
  <2>2. CASE FireTimer \/ Reconcile \/ SelectEnter \/ IdlePump
    BY <2>2, TimerSteps
  <2>3. CASE ScheduleSwitch
    BY <2>3, ScheduleSwitchStep
  <2>4. CASE PickThread
    BY <2>4, PickThreadStep
  <2>5. CASE Switched
    BY <2>5, SwitchedStep
  <2>6. CASE WakeupThread \/ WakeNoSwitch
    BY <2>6, WakeOneStep DEF WakeupThread, WakeNoSwitch
  <2>7. CASE SleepThread \/ Slept
    BY <2>7, SleepThreadStep, SleptStep
  <2>8. CASE PromoteThreadPriority \/ PropagateMutexOwnerPriority
    BY <2>8, InheritanceSteps
  <2>9. CASE LockMutex \/ RelockMutex \/ UnlockAllMutex
    BY <2>9, LockMutexStep, RelockMutexStep, UnlockAllStep
  <2>10. CASE SuspendThread \/ ResumeThread \/ Ticked
    BY <2>10, SuspendThreadStep, ResumeThreadStep, TickedStep
  <2>11. CASE Exited \/ Joined \/ Returned
    BY <2>11, ExitedStep, JoinSteps, ReturnSteps
  <2>12. CASE ProcessAlarmQueue \/ FireAlarm \/ AlarmTail \/ AlarmsDone \/ Undefer
    BY <2>12, AlarmSteps
  <2> QED
    BY <1>1, <2>1, <2>2, <2>3, <2>4, <2>5, <2>6, <2>7, <2>8, <2>9, <2>10, <2>11, <2>12
    DEF KernelStep
<1>2. CASE GuestStep
  <2>1. CASE \E m \in Mutexes : OSLockMutex(m) \/ OSUnlockMutex(m)
    BY <2>1, GuestCalls, UnlockMutexStep
  <2>2. CASE \E t \in Threads :
               \/ OSCreateThread(t) \/ OSCancelThread(t) \/ OSJoinThread(t)
               \/ OSDetachThread(t) \/ OSSuspendThread(t) \/ OSResumeThread(t)
    BY <2>2, CreateThreadStep, TerminationSteps, JoinSteps, GuestCalls
  <2>3. CASE \E w \in WaitQueues : OSSleepThread(w) \/ OSWakeupThread(w)
    BY <2>3, GuestCalls
  <2>4. CASE \E a \in Alarms : OSSetAlarm(a) \/ OSSetPeriodicAlarm(a)
    BY <2>4, AlarmSteps
  <2>5. CASE OSSleepTicks \/ OSYieldThread \/ OSProcessAlarms
    BY <2>5, GuestCalls
  <2>6. CASE OSExitThread
    BY <2>6, TerminationSteps
  <2>7. CASE ThreadReturn
    BY <2>7, ReturnSteps
  <2>8. CASE OSProcessAlarmsDeferred
    BY <2>8, AlarmSteps
  <2>9. CASE HandlerReturn
    BY <2>9, ControlSteps
  <2> QED
    BY <1>2, <2>1, <2>2, <2>3, <2>4, <2>5, <2>6, <2>7, <2>8, <2>9 DEF GuestStep
<1>3. CASE UNCHANGED vars
  <2>1. UNCHANGED <<threadVars, listVars, links, schedVars, mutexVars, fiberVars, host, stack,
                    timerVars, alarmVars>>
    BY <1>3 DEF vars, threadVars, listVars, schedVars, mutexVars, fiberVars, timerVars, alarmVars
  <2> QED
    BY <2>1, TypeStacks, StackStep DEF KInv
<1> QED
  BY <1>1, <1>2, <1>3 DEF Next

\* The invariant of the kernel holds in every reachable state.
LEMMA Invariance == Spec => []KInv
BY InitInv, NextInv, PTL DEF Spec

\* For every number of threads, mutexes, queues and priorities, and whatever
\* calls guest code and its handlers make, the kernel's state keeps its type:
\* every queue pointer names a queue, no priority leaves 0 .. MaxPrio + 1, and
\* every call in progress on any fiber has the arguments it needs.
THEOREM TypeCorrect == Spec => []TypeOK
<1>1. KInv => TypeOK
  BY DEF KInv
<1> QED
  BY <1>1, Invariance, PTL

\* The pending mask that SelectThread reads is exact in every reachable state:
\* its "pending bit set but no thread in queue" error cannot happen, and no
\* thread is on a run queue that the mask does not show.
THEOREM PendingMaskExact == Spec => []PendingExact
<1>1. KInv => PendingExact
  BY DEF KInv
<1> QED
  BY <1>1, Invariance, PTL

\* A mutex has an owner exactly when its lock count is not zero, and a thread's
\* mutex list holds only mutexes it owns, each once: OSLockMutex, OSUnlockMutex
\* and the release at thread exit never disagree about who holds what.
THEOREM MutexesSound == Spec => []MutexesConsistent
<1>1. KInv => MutexesConsistent
  BY DEF KInv
<1> QED
  BY <1>1, Invariance, PTL

-----------------------------------------------------------------------------
(***************************************************************************)
(* Lists, as the proofs about the scheduler need them.                     *)
(***************************************************************************)

\* The elements of a list after one is taken out.
LEMMA RemoveAtElements ==
    ASSUME NEW S, NEW s \in Seq(S), NEW k \in DOMAIN s
    PROVE  LET u == RemoveAt(s, k)
           IN  /\ u \in Seq(S) /\ DOMAIN u = 1 .. Len(s) - 1
               /\ \A i \in DOMAIN u : u[i] = IF i < k THEN s[i] ELSE s[i + 1]
<1> DEFINE u == RemoveAt(s, k)
           a == SubSeq(s, 1, k - 1)
           b == SubSeq(s, k + 1, Len(s))
<1>0. k \in 1 .. Len(s) /\ Len(s) \in Nat
  OBVIOUS
<1>1. a \in Seq(S) /\ Len(a) = k - 1 /\ \A i \in 1 .. k - 1 : a[i] = s[i]
  BY <1>0
<1>2. /\ b \in Seq(S) /\ Len(b) = Len(s) - k
      /\ \A i \in 1 .. Len(s) - k : b[i] = s[k + i]
  BY <1>0
<1>3. u = a \o b
  BY DEF RemoveAt
<1> HIDE DEF a, b, u
<1>4. u \in Seq(S) /\ DOMAIN u = 1 .. Len(s) - 1
  BY <1>0, <1>1, <1>2, <1>3
<1>5. ASSUME NEW i \in 1 .. Len(s) - 1, i < k
      PROVE  u[i] = s[i]
  BY <1>0, <1>1, <1>2, <1>3, <1>5
<1>6. ASSUME NEW i \in 1 .. Len(s) - 1, ~ (i < k)
      PROVE  u[i] = s[i + 1]
  <2>1. i - (k - 1) \in 1 .. Len(s) - k
    BY <1>0, <1>6
  <2>2. u[i] = b[i - (k - 1)]
    <3>1. \A j \in 1 .. Len(b) : (a \o b)[Len(a) + j] = b[j]
      <4> SUFFICES ASSUME NEW x \in Seq(S), NEW y \in Seq(S), NEW j \in 1 .. Len(y)
                   PROVE  (x \o y)[Len(x) + j] = y[j]
        BY <1>1, <1>2
      <4> QED
        OBVIOUS
    <3>2. Len(a) + (i - (k - 1)) = i
      BY <1>0, <1>1
    <3> QED
      BY <1>2, <1>3, <2>1, <3>1, <3>2
  <2>3. k + (i - (k - 1)) = i + 1
    BY <1>0
  <2> QED
    BY <1>2, <2>1, <2>2, <2>3
<1> QED
  BY <1>4, <1>5, <1>6 DEF u

\* The elements of a list after one is put in.
LEMMA InsertAtElements ==
    ASSUME NEW S, NEW s \in Seq(S), NEW k \in DOMAIN s, NEW x \in S
    PROVE  LET u == InsertAt(s, k, x)
           IN  /\ u \in Seq(S) /\ DOMAIN u = 1 .. Len(s) + 1
               /\ \A i \in DOMAIN u :
                    u[i] = IF i < k THEN s[i] ELSE IF i = k THEN x ELSE s[i - 1]
<1> DEFINE u == InsertAt(s, k, x)
           a == SubSeq(s, 1, k - 1)
           c == <<x>>
           b == SubSeq(s, k, Len(s))
           d == a \o c
<1>0. k \in 1 .. Len(s) /\ Len(s) \in Nat
  OBVIOUS
<1>1. a \in Seq(S) /\ Len(a) = k - 1 /\ \A i \in 1 .. k - 1 : a[i] = s[i]
  BY <1>0
<1>2. /\ b \in Seq(S) /\ Len(b) = Len(s) - k + 1
      /\ \A i \in 1 .. Len(s) - k + 1 : b[i] = s[k + i - 1]
  BY <1>0
<1>3. u = d \o b
  BY DEF InsertAt
<1> HIDE DEF a, b
<1>4. d \in Seq(S) /\ Len(d) = k /\ (\A i \in 1 .. k - 1 : d[i] = s[i]) /\ d[k] = x
  BY <1>0, <1>1
<1> HIDE DEF d, u
<1>5. u \in Seq(S) /\ DOMAIN u = 1 .. Len(s) + 1
  BY <1>0, <1>2, <1>3, <1>4
<1>6. ASSUME NEW i \in 1 .. Len(s) + 1, i <= k
      PROVE  u[i] = IF i < k THEN s[i] ELSE x
  BY <1>0, <1>2, <1>3, <1>4, <1>6
<1>7. ASSUME NEW i \in 1 .. Len(s) + 1, ~ (i <= k)
      PROVE  u[i] = s[i - 1]
  <2>1. i - k \in 1 .. Len(s) - k + 1
    BY <1>0, <1>7
  <2>2. u[i] = b[i - k]
    BY <1>0, <1>2, <1>3, <1>4, <1>7
  <2>3. k + (i - k) - 1 = i - 1
    BY <1>0
  <2> QED
    BY <1>2, <2>1, <2>2, <2>3
<1>8. ASSUME NEW i \in DOMAIN u
      PROVE  u[i] = IF i < k THEN s[i] ELSE IF i = k THEN x ELSE s[i - 1]
  BY <1>0, <1>5, <1>6, <1>7
<1> QED
  BY <1>5, <1>8 DEF u

\* A list is without repetition, and in the order of the priorities P.
Once(s) == \A i, j \in DOMAIN s : s[i] = s[j] => i = j
Sorted(s, P) == \A i, j \in DOMAIN s : i < j => P[s[i]] <= P[s[j]]
Has(s, t) == \E i \in DOMAIN s : s[i] = t

\* Unlinking t takes t off the list, and nothing else.
LEMMA UnlinkList ==
    ASSUME NEW s \in Seq(Threads), NEW t \in Threads, Once(s)
    PROVE  LET u == UnlinkGuestListNode(s, t)
           IN  /\ u \in Seq(Threads) /\ Once(u)
               /\ \A x : Has(u, x) <=> Has(s, x) /\ x # t
               /\ \A P : Sorted(s, P) => Sorted(u, P)
<1> DEFINE u == UnlinkGuestListNode(s, t)
<1>1. CASE ~Has(s, t)
  <2>1. u = s
    BY <1>1 DEF UnlinkGuestListNode, Has
  <2> QED
    BY <1>1, <2>1 DEF Has
<1>2. CASE Has(s, t)
  <2> DEFINE k == CHOOSE i \in DOMAIN s : s[i] = t
  <2>1. k \in DOMAIN s /\ s[k] = t
    BY <1>2 DEF Has
  <2>2. u = RemoveAt(s, k)
    BY <1>2 DEF UnlinkGuestListNode, Has
  <2> HIDE DEF k
  <2>3. /\ u \in Seq(Threads) /\ DOMAIN u = 1 .. Len(s) - 1
        /\ \A i \in DOMAIN u : u[i] = IF i < k THEN s[i] ELSE s[i + 1]
    BY <2>1, <2>2, RemoveAtElements
  <2> HIDE DEF u
  <2> DEFINE f(i) == IF i < k THEN i ELSE i + 1
  <2>4. k \in 1 .. Len(s) /\ Len(s) \in Nat /\ DOMAIN s = 1 .. Len(s)
    BY <2>1
  <2>5. \A i \in DOMAIN u : f(i) \in DOMAIN s /\ f(i) # k /\ u[i] = s[f(i)]
    BY <2>3, <2>4
  <2>6. \A i, j \in DOMAIN u : /\ f(i) = f(j) => i = j
                               /\ i < j => f(i) < f(j)
    BY <2>3, <2>4
  <2>7. \A l \in DOMAIN s : l # k => \E i \in DOMAIN u : f(i) = l
    <3> SUFFICES ASSUME NEW l \in DOMAIN s, l # k
                 PROVE  \E i \in DOMAIN u : f(i) = l
      OBVIOUS
    <3>1. CASE l < k
      <4>1. l \in DOMAIN u /\ f(l) = l
        BY <2>3, <2>4, <3>1
      <4> QED
        BY <4>1
    <3>2. CASE l > k
      <4>1. l - 1 \in DOMAIN u /\ f(l - 1) = l
        BY <2>3, <2>4, <3>2
      <4> QED
        BY <4>1
    <3> QED
      BY <2>4, <3>1, <3>2
  <2> HIDE DEF f
  <2>8. Once(u)
    BY <2>5, <2>6 DEF Once
  <2>9. ASSUME NEW x
        PROVE  Has(u, x) <=> Has(s, x) /\ x # t
    <3>1. Has(u, x) => Has(s, x) /\ x # t
      BY <2>1, <2>5 DEF Has, Once
    <3>2. Has(s, x) /\ x # t => Has(u, x)
      BY <2>1, <2>5, <2>7 DEF Has
    <3> QED
      BY <3>1, <3>2
  <2>10. ASSUME NEW P, Sorted(s, P)
         PROVE  Sorted(u, P)
    BY <2>5, <2>6, <2>10 DEF Sorted
  <2> QED
    BY <2>3, <2>8, <2>9, <2>10 DEF u
<1> QED
  BY <1>1, <1>2

\* Dropping the head takes the head off the list, and nothing else.
LEMMA PopList ==
    ASSUME NEW s \in Seq(Threads), s # <<>>, Once(s)
    PROVE  /\ Head(s) \in Threads /\ Has(s, Head(s))
           /\ Tail(s) \in Seq(Threads) /\ Once(Tail(s))
           /\ \A x : Has(Tail(s), x) <=> Has(s, x) /\ x # Head(s)
           /\ \A P : Sorted(s, P) => Sorted(Tail(s), P)
<1> DEFINE u == Tail(s)
<1>1. /\ Len(s) \in Nat /\ Len(s) >= 1 /\ DOMAIN s = 1 .. Len(s) /\ Head(s) = s[1]
      /\ u \in Seq(Threads) /\ DOMAIN u = 1 .. Len(s) - 1
      /\ \A i \in DOMAIN u : u[i] = s[i + 1]
  OBVIOUS
<1> HIDE DEF u
<1>2. \A i \in DOMAIN u : i + 1 \in DOMAIN s /\ i + 1 # 1
  BY <1>1
<1>3. \A l \in DOMAIN s : l # 1 => l - 1 \in DOMAIN u /\ u[l - 1] = s[l]
  BY <1>1
<1>4. 1 \in DOMAIN s
  BY <1>1
<1>5. Once(u)
  BY <1>1, <1>2 DEF Once
<1>6. ASSUME NEW x
      PROVE  Has(u, x) <=> Has(s, x) /\ x # Head(s)
  <2>1. Has(u, x) => Has(s, x) /\ x # Head(s)
    BY <1>1, <1>2, <1>4 DEF Has, Once
  <2>2. Has(s, x) /\ x # Head(s) => Has(u, x)
    BY <1>1, <1>3 DEF Has
  <2> QED
    BY <2>1, <2>2
<1>7. ASSUME NEW P, Sorted(s, P)
      PROVE  Sorted(u, P)
  BY <1>1, <1>2, <1>7 DEF Sorted
<1>8. Head(s) \in Threads /\ Has(s, Head(s))
  BY <1>1, <1>4 DEF Has
<1> QED
  BY <1>1, <1>5, <1>6, <1>7, <1>8 DEF u

\* Linking t at the tail puts t on the list.
LEMMA AppendList ==
    ASSUME NEW s \in Seq(Threads), NEW t \in Threads, Once(s), ~Has(s, t)
    PROVE  /\ Append(s, t) \in Seq(Threads) /\ Once(Append(s, t)) /\ Append(s, t) # <<>>
           /\ \A x : Has(Append(s, t), x) <=> Has(s, x) \/ x = t
           /\ \A P \in [Threads -> Nat] : \A p \in Nat :
                Sorted(s, P) /\ (\A i \in DOMAIN s : P[s[i]] <= p) =>
                    Sorted(Append(s, t), [P EXCEPT ![t] = p])
<1> DEFINE u == Append(s, t)
           n == Len(s)
<1>1. /\ n \in Nat /\ DOMAIN s = 1 .. n /\ (\A i \in DOMAIN s : s[i] \in Threads)
      /\ u \in Seq(Threads) /\ DOMAIN u = 1 .. n + 1 /\ u # <<>>
      /\ (\A i \in DOMAIN s : u[i] = s[i]) /\ u[n + 1] = t
  OBVIOUS
<1> HIDE DEF u, n
<1>2. \A i \in DOMAIN u : i = n + 1 \/ i \in DOMAIN s
  BY <1>1
<1>3. (\A i \in DOMAIN s : i \in DOMAIN u) /\ n + 1 \in DOMAIN u
  BY <1>1
<1>4. Once(u)
  BY <1>1, <1>2 DEF Once, Has
<1>5. ASSUME NEW x
      PROVE  Has(u, x) <=> Has(s, x) \/ x = t
  BY <1>1, <1>2, <1>3 DEF Has
<1>6. ASSUME NEW P \in [Threads -> Nat], NEW p \in Nat, Sorted(s, P),
             \A i \in DOMAIN s : P[s[i]] <= p,
             NEW i \in DOMAIN u, NEW j \in DOMAIN u, i < j
      PROVE  [P EXCEPT ![t] = p][u[i]] <= [P EXCEPT ![t] = p][u[j]]
  <2>1. i \in DOMAIN s /\ s[i] # t /\ u[i] = s[i]
    BY <1>1, <1>2, <1>6 DEF Has
  <2>2. CASE j = n + 1
    BY <1>1, <1>6, <2>1, <2>2
  <2>3. CASE j # n + 1
    <3>1. j \in DOMAIN s /\ s[j] # t /\ u[j] = s[j]
      BY <1>1, <1>2, <2>3 DEF Has
    <3> QED
      BY <1>1, <1>6, <2>1, <3>1 DEF Sorted
  <2> QED
    BY <2>2, <2>3
<1>7. ASSUME NEW P \in [Threads -> Nat], NEW p \in Nat, Sorted(s, P),
             \A i \in DOMAIN s : P[s[i]] <= p
      PROVE  Sorted(u, [P EXCEPT ![t] = p])
  BY <1>6, <1>7 DEF Sorted
<1> QED
  BY <1>1, <1>4, <1>5, <1>7 DEF u

\* Linking t by its priority puts t on the list and keeps the list sorted.
LEMMA InsertList ==
    ASSUME NEW s \in Seq(Threads), NEW t \in Threads, Once(s), ~Has(s, t),
           NEW P \in [Threads -> Nat], NEW p \in Nat
    PROVE  LET u == InsertByPriority(s, P, t, p)
           IN  /\ u \in Seq(Threads) /\ Once(u)
               /\ \A x : Has(u, x) <=> Has(s, x) \/ x = t
               /\ Sorted(s, P) => Sorted(u, [P EXCEPT ![t] = p])
<1> DEFINE later == {i \in DOMAIN s : P[s[i]] > p}
           u == InsertByPriority(s, P, t, p)
           Q == [P EXCEPT ![t] = p]
           n == Len(s)
<1>0. n \in Nat /\ DOMAIN s = 1 .. n /\ (\A i \in DOMAIN s : s[i] \in Threads /\ s[i] # t)
  BY DEF Has
<1>1. CASE later = {}
  <2>1. u = Append(s, t)
    BY <1>1 DEF InsertByPriority
  <2>2. \A i \in DOMAIN s : P[s[i]] <= p
    BY <1>0, <1>1
  <2>3. /\ u \in Seq(Threads) /\ Once(u)
        /\ \A x : Has(u, x) <=> Has(s, x) \/ x = t
    BY <2>1, AppendList
  <2>4. Sorted(s, P) => Sorted(Append(s, t), [P EXCEPT ![t] = p])
    <3> HIDE DEF later, u, Q, n
    <3> QED
      BY <2>2, AppendList
  <2> QED
    BY <2>1, <2>3, <2>4
<1>2. CASE later # {}
  <2> DEFINE k == Min(later)
  <2>1. later \in SUBSET Nat
    OBVIOUS
  <2>2. k \in later /\ \A y \in later : k <= y
    BY <2>1, <1>2, MinInSet
  <2>3. u = InsertAt(s, k, t)
    BY <1>2 DEF InsertByPriority
  <2> HIDE DEF k
  <2>4. k \in 1 .. n /\ P[s[k]] > p /\ \A i \in DOMAIN s : i < k => P[s[i]] <= p
    BY <1>0, <2>2
  <2>5. /\ u \in Seq(Threads) /\ DOMAIN u = 1 .. n + 1
        /\ \A i \in DOMAIN u : u[i] = IF i < k THEN s[i] ELSE IF i = k THEN t ELSE s[i - 1]
    <3>1. k \in DOMAIN s
      BY <1>0, <2>4
    <3> HIDE DEF u, later, Q
    <3>2. LET v == InsertAt(s, k, t)
          IN  /\ v \in Seq(Threads) /\ DOMAIN v = 1 .. Len(s) + 1
              /\ \A i \in DOMAIN v :
                   v[i] = IF i < k THEN s[i] ELSE IF i = k THEN t ELSE s[i - 1]
      BY <3>1, InsertAtElements
    <3> QED
      BY <2>3, <3>2
  <2> HIDE DEF u, n, later, Q
  <2> DEFINE f(i) == IF i < k THEN i ELSE i - 1
  <2>20. n \in Nat /\ k \in 1 .. n /\ DOMAIN s = 1 .. n /\ DOMAIN u = 1 .. n + 1
    BY <1>0, <2>4, <2>5
  <2>21. \A i \in DOMAIN u : i < k => u[i] = s[i]
    BY <2>5
  <2>22. \A i \in DOMAIN u : i > k => u[i] = s[i - 1]
    BY <2>20, <2>5
  <2>6. \A i \in DOMAIN u : i # k => f(i) \in DOMAIN s /\ u[i] = s[f(i)]
    BY <2>20, <2>21, <2>22
  <2>7. k \in DOMAIN u /\ u[k] = t
    <3>1. k \in DOMAIN u /\ ~(k < k)
      BY <2>20
    <3> QED
      BY <2>5, <3>1
  <2>8. \A i, j \in DOMAIN u : i # k /\ j # k => /\ f(i) = f(j) => i = j
                                                 /\ i < j => f(i) < f(j)
    BY <2>20
  <2>9. \A l \in DOMAIN s : \E i \in DOMAIN u : i # k /\ f(i) = l
    <3> SUFFICES ASSUME NEW l \in DOMAIN s
                 PROVE  \E i \in DOMAIN u : i # k /\ f(i) = l
      OBVIOUS
    <3>1. CASE l < k
      <4>1. l \in DOMAIN u /\ l # k /\ f(l) = l
        BY <2>20, <3>1
      <4> QED
        BY <4>1
    <3>2. CASE l >= k
      <4>1. l + 1 \in DOMAIN u /\ l + 1 # k /\ f(l + 1) = l
        BY <2>20, <3>2
      <4> QED
        BY <4>1
    <3> QED
      BY <1>0, <2>4, <3>1, <3>2
  <2>10. \A i, j \in DOMAIN u : /\ i < k => f(i) < k
                                /\ k < j => f(j) >= k
    BY <2>20
  <2>11. \A i \in DOMAIN u : i \in Nat /\ f(i) \in Int
    BY <2>20
  <2> HIDE DEF f
  <2>12. Once(u)
    BY <1>0, <2>6, <2>7, <2>8 DEF Once
  <2>13. ASSUME NEW x
         PROVE  Has(u, x) <=> Has(s, x) \/ x = t
    BY <2>6, <2>7, <2>9 DEF Has
  <2>14. ASSUME Sorted(s, P), NEW i \in DOMAIN u, NEW j \in DOMAIN u, i < j
         PROVE  Q[u[i]] <= Q[u[j]]
    <3>0. Q[t] = p /\ \A l \in DOMAIN s : Q[s[l]] = P[s[l]]
      BY <1>0 DEF Q
    <3>1. CASE i = k
      <4>1. j # k /\ f(j) \in DOMAIN s /\ u[j] = s[f(j)] /\ f(j) >= k
        BY <2>6, <2>10, <2>11, <2>4, <2>14, <3>1
      <4>3. P[s[k]] \in Nat /\ P[s[f(j)]] \in Nat
        BY <1>0, <2>4, <4>1
      <4>2. P[s[k]] <= P[s[f(j)]]
        <5>1. k < f(j) \/ k = f(j)
          BY <2>4, <4>1
        <5>2. k < f(j) => P[s[k]] <= P[s[f(j)]]
          BY <2>4, <2>14, <4>1 DEF Sorted
        <5> QED
          BY <4>3, <5>1, <5>2
      <4> QED
        BY <2>4, <2>7, <3>0, <3>1, <4>1, <4>2, <4>3
    <3>2. CASE j = k
      <4>1. i # k /\ f(i) \in DOMAIN s /\ u[i] = s[f(i)] /\ f(i) < k
        BY <2>6, <2>10, <2>11, <2>4, <2>14, <3>2
      <4> QED
        BY <2>4, <2>7, <3>0, <3>2, <4>1
    <3>3. CASE i # k /\ j # k
      <4>1. f(i) < f(j) /\ f(i) \in DOMAIN s /\ f(j) \in DOMAIN s
        BY <2>6, <2>8, <2>14, <3>3
      <4> QED
        BY <2>6, <2>14, <3>0, <3>3, <4>1 DEF Sorted
    <3> QED
      BY <3>1, <3>2, <3>3
  <2>15. Sorted(s, P) => Sorted(u, Q)
    BY <2>14 DEF Sorted
  <2> QED
    BY <2>5, <2>12, <2>13, <2>15 DEF u, Q
<1> QED
  BY <1>1, <1>2
=============================================================================
