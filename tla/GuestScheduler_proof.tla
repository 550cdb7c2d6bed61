------------------------ MODULE GuestScheduler_proof ------------------------
(***************************************************************************)
(* Proofs that the scheduler of GuestKernel, for every guest that keeps a  *)
(* contract stated below, runs guest code as the thread it believes is     *)
(* running, keeps every thread on the queue its state says, leaves nobody  *)
(* waiting for a mutex that is free, gives up what a thread that ends      *)
(* owned, makes the owner of a mutex as urgent as those who wait for it,   *)
(* and has one fiber pump the alarms at a time.                            *)
(*                                                                         *)
(* The core, SchedInv, says what may lie on the stack of the fiber that    *)
(* has the CPU in each of three modes: its thread is running; it cannot    *)
(* run and is on its way off the CPU; nobody runs and the fiber executes   *)
(* the idle loop.  SleepInv, EndInv, LendInv and AlarmInv add what the     *)
(* calls that sleep, the terminations, priority inheritance and the alarm  *)
(* pump rely on.                                                           *)
(***************************************************************************)
EXTENDS GuestKernel_proof, FiniteSetTheorems

-----------------------------------------------------------------------------
(***************************************************************************)
(* Queues.  Place(L, t) is the queue that t is on, or None.                *)
(***************************************************************************)
Listed(L) ==
    \A q \in Queues : /\ Once(L.seq[q])
                      /\ \A i \in DOMAIN L.seq[q] : L.at[L.seq[q][i]] = q

Place(L, t) == IF L.at[t] # None /\ Has(L.seq[L.at[t]], t) THEN L.at[t] ELSE None

InOrder(L, P) == \A q \in BlockQueues : Sorted(L.seq[q], P)

\* A thread at place pl, with queue pointer at, state s, suspend count u and
\* priority p, is where the kernel expects it to be.
Placed(pl, at, s, u, p) ==
    /\ pl \in RunQueues <=> s = "ready" /\ u = 0
    /\ pl \in BlockQueues <=> s = "waiting"
    /\ at # None /\ pl = None => ThreadStateIsTerminated(s) \/ (s = "ready" /\ u >= 1)
    /\ pl \in RunQueues => pl = RunQueue(p)
    /\ ~ThreadStateIsTerminated(s) /\ u = 0 => p \in Prios

\* All threads are where they should be; all but t are, and t is on no queue.
AllPlaced(L, S, U, P) ==
    /\ Listed(L) /\ InOrder(L, P)
    /\ \A t \in Threads : Placed(Place(L, t), L.at[t], S[t], U[t], P[t])

OthersPlaced(L, S, U, P, t) ==
    /\ Listed(L) /\ InOrder(L, P) /\ Place(L, t) = None
    /\ \A u \in Threads \ {t} : Placed(Place(L, u), L.at[u], S[u], U[u], P[u])

\* A thread is on the queue that its place names, and on no other.
LEMMA PlaceFacts ==
    ASSUME NEW L \in Links, Listed(L), NEW t \in Threads
    PROVE  /\ Place(L, t) \in Queues \cup {None}
           /\ Place(L, t) # None => L.at[t] = Place(L, t)
           /\ \A q \in Queues : Has(L.seq[q], t) <=> Place(L, t) = q
<1>1. L.at[t] \in Queues \cup {None}
  BY DEF Links
<1>2. ASSUME NEW q \in Queues, Has(L.seq[q], t)
      PROVE  Place(L, t) = q
  <2>1. L.at[t] = q
    BY <1>2 DEF Listed, Has
  <2> QED
    BY <1>2, <2>1, NoneIsNoQueue DEF Place
<1> QED
  BY <1>1, <1>2, NoneIsNoQueue DEF Place

\* The list of q changes, by the thread t only, which is on no other list.
OneList(L, R, q, t) ==
    /\ R.seq = [L.seq EXCEPT ![q] = R.seq[q]] /\ Once(R.seq[q])
    /\ \A u \in Threads \ {t} : R.at[u] = L.at[u] /\ (Has(R.seq[q], u) <=> Has(L.seq[q], u))
    /\ \A r \in Queues \ {q} : ~Has(L.seq[r], t)
    /\ Has(R.seq[q], t) => R.at[t] = q

\* Then all other threads stay in place.
LEMMA OneListChanges ==
    ASSUME NEW L \in Links, Listed(L), NEW R \in Links, NEW q \in Queues, NEW t \in Threads,
           OneList(L, R, q, t)
    PROVE  /\ Listed(R)
           /\ \A u \in Threads \ {t} : Place(R, u) = Place(L, u)
           /\ Has(R.seq[q], t) => Place(R, t) = q
           /\ ~Has(R.seq[q], t) => Place(R, t) = None
<1> USE DEF OneList
<1>1. L.seq \in [Queues -> Seq(Threads)] /\ R.seq \in [Queues -> Seq(Threads)]
  BY DEF Links
<1>2. \A r \in Queues \ {q} : R.seq[r] = L.seq[r]
  BY <1>1
<1>3. \A r \in Queues : \A u \in Threads \ {t} : Has(R.seq[r], u) <=> Has(L.seq[r], u)
  BY <1>2
<1>4. \A r \in Queues : \A i \in DOMAIN R.seq[r] : R.seq[r][i] \in Threads
  <2> SUFFICES ASSUME NEW r \in Queues, NEW i \in DOMAIN R.seq[r]
               PROVE  R.seq[r][i] \in Threads
    OBVIOUS
  <2>1. R.seq[r] \in Seq(Threads)
    BY <1>1
  <2> QED
    BY <2>1
<1>5. ASSUME NEW r \in Queues, NEW i \in DOMAIN R.seq[r]
      PROVE  R.at[R.seq[r][i]] = r
  <2> DEFINE u == R.seq[r][i]
  <2>1. u \in Threads /\ Has(R.seq[r], u)
    BY <1>4 DEF Has
  <2> HIDE DEF u
  <2>2. CASE u = t
    <3>1. r = q
      BY <1>2, <2>1, <2>2
    <3> QED
      BY <2>1, <2>2, <3>1 DEF u
  <2>3. CASE u # t
    <3>1. Has(L.seq[r], u)
      BY <1>3, <2>1, <2>3
    <3>2. L.at[u] = r
      BY <3>1 DEF Listed, Has
    <3> QED
      BY <2>1, <2>3, <3>2 DEF u
  <2> QED
    BY <2>2, <2>3
<1>6. Listed(R)
  BY <1>2, <1>5 DEF Listed
<1>7. ASSUME NEW u \in Threads \ {t}
      PROVE  Place(R, u) = Place(L, u)
  <2>1. L.at[u] \in Queues \cup {None} /\ R.at[u] = L.at[u]
    BY DEF Links
  <2> QED
    BY <1>3, <2>1 DEF Place
<1>8. /\ Has(R.seq[q], t) => Place(R, t) = q
      /\ ~Has(R.seq[q], t) => Place(R, t) = None
  <2>1. \A r \in Queues : Has(R.seq[r], t) => r = q
    BY <1>2
  <2>2. /\ Place(R, t) \in Queues \cup {None}
        /\ \A r \in Queues : Has(R.seq[r], t) <=> Place(R, t) = r
    BY <1>6, PlaceFacts
  <2> QED
    BY <2>1, <2>2, NoneIsNoQueue
<1> QED
  BY <1>6, <1>7, <1>8

\* What a thread's place says of the lists.
LEMMA Elsewhere ==
    ASSUME NEW L \in Links, Listed(L), NEW t \in Threads, NEW q \in Queues,
           Place(L, t) \in {q, None}
    PROVE  \A r \in Queues \ {q} : ~Has(L.seq[r], t)
BY PlaceFacts, NoneIsNoQueue

\* Taking the head off a wait queue, and forgetting the queue pointer.
LEMMA PopPlaced ==
    ASSUME NEW L \in Links, NEW S, NEW U, NEW P, AllPlaced(L, S, U, P),
           NEW q \in BlockQueues, L.seq[q] # <<>>
    PROVE  LET t == Head(L.seq[q])
               R == PopThreadQueueHead(L, q)
               C == ClearQueuePointer(R, t)
           IN  /\ t \in Threads /\ Place(L, t) = q /\ L.at[t] = q
               /\ R \in Links /\ OthersPlaced(R, S, U, P, t) /\ R.at[t] = q
               /\ C \in Links /\ OthersPlaced(C, S, U, P, t) /\ C.at[t] = None
<1> DEFINE s == L.seq[q]
           t == Head(s)
           R == PopThreadQueueHead(L, q)
           C == ClearQueuePointer(R, t)
<1>0. /\ L.seq \in [Queues -> Seq(Threads)] /\ L.at \in [Threads -> Queues \cup {None}]
      /\ q \in Queues /\ s \in Seq(Threads) /\ Listed(L)
  BY QueueFacts DEF Links, AllPlaced
<1>1. Once(s)
  BY <1>0 DEF Listed
<1>2. /\ t \in Threads /\ Has(s, t) /\ Once(Tail(s))
      /\ \A x : Has(Tail(s), x) <=> Has(s, x) /\ x # t
      /\ \A Q : Sorted(s, Q) => Sorted(Tail(s), Q)
  BY <1>0, <1>1, PopList
<1>3. Place(L, t) = q /\ L.at[t] = q
  BY <1>0, <1>2, PlaceFacts, NoneIsNoQueue
<1>4. R \in Links /\ C \in Links
  BY <1>2, PopBlockQueue
<1>5. R.seq = [L.seq EXCEPT ![q] = Tail(s)] /\ R.at = L.at
  BY <1>0 DEF PopThreadQueueHead
<1>6. C.seq = R.seq /\ C.at = [L.at EXCEPT ![t] = None]
  BY <1>5 DEF ClearQueuePointer
<1>7. \A r \in Queues \ {q} : ~Has(L.seq[r], t)
  BY <1>0, <1>2, <1>3, Elsewhere
<1> HIDE DEF s, t, R, C
<1>8. ASSUME NEW X \in {R, C}
      PROVE  OthersPlaced(X, S, U, P, t)
  <2>1. X \in Links /\ X.seq = [L.seq EXCEPT ![q] = Tail(s)] /\ X.seq[q] = Tail(s)
    BY <1>0, <1>4, <1>5, <1>6
  <2>2. \A u \in Threads \ {t} : X.at[u] = L.at[u]
    BY <1>0, <1>2, <1>5, <1>6
  <2>3. ~Has(X.seq[q], t)
    BY <1>2, <2>1
  <2>4. \A u \in Threads \ {t} : Has(X.seq[q], u) <=> Has(L.seq[q], u)
    BY <1>2, <2>1 DEF s
  <2>5. /\ Listed(X) /\ Place(X, t) = None
        /\ \A u \in Threads \ {t} : Place(X, u) = Place(L, u)
    <3>1. X.seq = [L.seq EXCEPT ![q] = X.seq[q]] /\ Once(X.seq[q])
      BY <1>2, <2>1
    <3>2. OneList(L, X, q, t)
      BY <1>7, <2>2, <2>3, <2>4, <3>1 DEF OneList
    <3>3. X \in Links /\ q \in Queues /\ t \in Threads /\ Listed(L)
      BY <1>0, <1>2, <2>1
    <3> QED
      BY <2>3, <3>2, <3>3, OneListChanges
  <2>6. InOrder(X, P)
    BY <1>0, <1>2, <2>1, QueueFacts DEF InOrder, AllPlaced, s
  <2> QED
    BY <2>2, <2>5, <2>6 DEF OthersPlaced, AllPlaced
<1> QED
  BY <1>2, <1>3, <1>4, <1>5, <1>6, <1>8, <1>0 DEF s, t, R, C

\* Taking a thread off the queue its pointer names.
LEMMA RemovePlaced ==
    ASSUME NEW L \in Links, NEW S, NEW U, NEW P, AllPlaced(L, S, U, P), NEW t \in Threads,
           L.at[t] # None => Place(L, t) # None
    PROVE  LET R == RemoveThreadFromQueue(L, t)
           IN  R \in Links /\ OthersPlaced(R, S, U, P, t) /\ R.at[t] = None
<1> DEFINE R == RemoveThreadFromQueue(L, t)
<1>0. /\ L.seq \in [Queues -> Seq(Threads)] /\ L.at \in [Threads -> Queues \cup {None}]
      /\ Listed(L) /\ R \in Links
  BY RemoveLinks DEF Links, AllPlaced
<1>1. CASE L.at[t] = None
  <2>1. R = L
    BY <1>1 DEF RemoveThreadFromQueue
  <2> QED
    BY <1>0, <1>1, <2>1 DEF OthersPlaced, AllPlaced, Place
<1>2. CASE L.at[t] # None
  <2> DEFINE q == L.at[t]
             s == L.seq[q]
             n == UnlinkGuestListNode(s, t)
  <2>1. q \in Queues /\ s \in Seq(Threads) /\ Place(L, t) = q
    BY <1>0, <1>2, PlaceFacts
  <2>2. Once(s)
    BY <1>0, <2>1 DEF Listed
  <2>3. /\ Once(n)
        /\ \A x : Has(n, x) <=> Has(s, x) /\ x # t
        /\ \A Q : Sorted(s, Q) => Sorted(n, Q)
    BY <2>1, <2>2, UnlinkList
  <2>4. R.seq = [L.seq EXCEPT ![q] = n] /\ R.at = [L.at EXCEPT ![t] = None]
    BY <1>2 DEF RemoveThreadFromQueue
  <2> HIDE DEF q, s, n, R
  <2>5. R.seq[q] = n /\ R.seq = [L.seq EXCEPT ![q] = R.seq[q]] /\ R.at[t] = None
    BY <1>0, <2>1, <2>4
  <2>6. \A u \in Threads \ {t} : R.at[u] = L.at[u] /\ (Has(R.seq[q], u) <=> Has(L.seq[q], u))
    BY <1>0, <2>3, <2>4, <2>5 DEF s
  <2>7. \A r \in Queues \ {q} : ~Has(L.seq[r], t)
    BY <1>0, <2>1, Elsewhere
  <2>8. Once(R.seq[q]) /\ ~Has(R.seq[q], t)
    BY <2>3, <2>5
  <2>9. /\ Listed(R) /\ Place(R, t) = None
        /\ \A u \in Threads \ {t} : Place(R, u) = Place(L, u)
    <3>1. OneList(L, R, q, t)
      BY <2>5, <2>6, <2>7, <2>8 DEF OneList
    <3> QED
      BY <1>0, <2>1, <2>8, <3>1, OneListChanges
  <2>10. InOrder(R, P)
    BY <1>0, <2>1, <2>3, <2>4, <2>5, QueueFacts DEF InOrder, AllPlaced, s
  <2> QED
    BY <1>0, <2>5, <2>6, <2>9, <2>10 DEF OthersPlaced, AllPlaced, R
<1> QED
  BY <1>1, <1>2

\* Taking the head off a run queue.
LEMMA PopRunPlaced ==
    ASSUME NEW L \in Links, NEW S, NEW U, NEW P, AllPlaced(L, S, U, P),
           NEW p \in 0 .. MaxPrio + 1, L.seq[RunQueue(p)] # <<>>
    PROVE  LET t == Head(L.seq[RunQueue(p)])
               R == PopRunQueue(L, p)
           IN  /\ t \in Threads /\ Place(L, t) = RunQueue(p)
               /\ R \in Links /\ OthersPlaced(R, S, U, P, t) /\ R.at[t] = None
<1> DEFINE q == RunQueue(p)
           s == L.seq[q]
           t == Head(s)
           R == PopRunQueue(L, p)
<1>0. /\ L.seq \in [Queues -> Seq(Threads)] /\ L.at \in [Threads -> Queues \cup {None}]
      /\ q \in Queues /\ q \notin BlockQueues /\ s \in Seq(Threads) /\ Listed(L) /\ R \in Links
  BY QueueFacts, PopRunQueueLinks DEF Links, AllPlaced
<1>1. Once(s)
  BY <1>0 DEF Listed
<1>2. /\ t \in Threads /\ Has(s, t) /\ Once(Tail(s))
      /\ \A x : Has(Tail(s), x) <=> Has(s, x) /\ x # t
  BY <1>0, <1>1, PopList
<1>3. Place(L, t) = q
  BY <1>0, <1>2, PlaceFacts
<1>4. R.seq = [L.seq EXCEPT ![q] = Tail(s)] /\ R.at = [L.at EXCEPT ![t] = None]
  BY <1>0 DEF PopRunQueue
<1>5. \A r \in Queues \ {q} : ~Has(L.seq[r], t)
  BY <1>0, <1>2, <1>3, Elsewhere
<1> HIDE DEF q, s, t, R
<1>6. R.seq[q] = Tail(s) /\ R.seq = [L.seq EXCEPT ![q] = R.seq[q]] /\ R.at[t] = None
  BY <1>0, <1>2, <1>4
<1>7. \A u \in Threads \ {t} : R.at[u] = L.at[u] /\ (Has(R.seq[q], u) <=> Has(L.seq[q], u))
  BY <1>0, <1>2, <1>4, <1>6 DEF s
<1>8. Once(R.seq[q]) /\ ~Has(R.seq[q], t)
  BY <1>2, <1>6
<1>9. /\ Listed(R) /\ Place(R, t) = None
      /\ \A u \in Threads \ {t} : Place(R, u) = Place(L, u)
  <2>1. OneList(L, R, q, t)
    BY <1>5, <1>6, <1>7, <1>8 DEF OneList
  <2> QED
    BY <1>0, <1>2, <1>8, <2>1, OneListChanges
<1>10. InOrder(R, P)
  BY <1>0, <1>4, QueueFacts DEF InOrder, AllPlaced
<1>11. OthersPlaced(R, S, U, P, t)
  BY <1>7, <1>9, <1>10 DEF OthersPlaced, AllPlaced
<1> QED
  BY <1>0, <1>2, <1>3, <1>6, <1>11 DEF q, s, t, R

\* The priorities of the threads that are on the list decide its order.
LEMMA SameOrder ==
    ASSUME NEW s \in Seq(Threads), NEW P, NEW Q, Sorted(s, P),
           \A x \in Threads : Has(s, x) => Q[x] = P[x]
    PROVE  Sorted(s, Q)
<1>1. \A i \in DOMAIN s : Q[s[i]] = P[s[i]]
  BY DEF Has
<1> QED
  BY <1>1 DEF Sorted

\* A thread on no queue gets a state that needs none.
LEMMA StayPlaced ==
    ASSUME NEW L \in Links, NEW S, NEW U, NEW P, NEW t \in Threads, OthersPlaced(L, S, U, P, t),
           NEW S2, NEW U2, NEW P2,
           \A u \in Threads \ {t} : S2[u] = S[u] /\ U2[u] = U[u] /\ P2[u] = P[u],
           Placed(None, L.at[t], S2[t], U2[t], P2[t])
    PROVE  AllPlaced(L, S2, U2, P2)
<1>1. InOrder(L, P2)
  <2> SUFFICES ASSUME NEW q \in BlockQueues
               PROVE  Sorted(L.seq[q], P2)
    BY DEF InOrder
  <2>1. q \in Queues /\ L.seq[q] \in Seq(Threads) /\ Sorted(L.seq[q], P)
    BY QueueFacts DEF Links, OthersPlaced, InOrder
  <2>2. ~Has(L.seq[q], t)
    BY <2>1, PlaceFacts, NoneIsNoQueue DEF OthersPlaced
  <2>3. \A x \in Threads : Has(L.seq[q], x) => P2[x] = P[x]
    BY <2>2
  <2> QED
    BY <2>1, <2>3, SameOrder
<1>2. ASSUME NEW u \in Threads
      PROVE  Placed(Place(L, u), L.at[u], S2[u], U2[u], P2[u])
  <2>1. CASE u = t
    BY <2>1 DEF OthersPlaced
  <2>2. CASE u # t
    BY <2>2 DEF OthersPlaced
  <2> QED
    BY <2>1, <2>2
<1> QED
  BY <1>1, <1>2 DEF AllPlaced, OthersPlaced

\* A thread on no queue goes on one.
LEMMA InsertPlaced ==
    ASSUME NEW L \in Links, NEW S, NEW U, NEW P \in [Threads -> Nat], NEW t \in Threads,
           OthersPlaced(L, S, U, P, t), NEW q \in Queues, NEW p \in Nat,
           NEW S2, NEW U2, NEW P2,
           \A u \in Threads \ {t} : S2[u] = S[u] /\ U2[u] = U[u] /\ P2[u] = P[u],
           P2[t] = p, Placed(q, q, S2[t], U2[t], p)
    PROVE  AllPlaced(InsertThreadIntoQueueByPriority(L, P, q, t, p), S2, U2, P2)
<1> DEFINE R == InsertThreadIntoQueueByPriority(L, P, q, t, p)
           s == L.seq[q]
           n == InsertByPriority(s, P, t, p)
           Q == [P EXCEPT ![t] = p]
<1>0. /\ L.seq \in [Queues -> Seq(Threads)] /\ L.at \in [Threads -> Queues \cup {None}]
      /\ s \in Seq(Threads) /\ Listed(L) /\ R \in Links
  BY InsertLinks DEF Links, OthersPlaced
<1>1. Once(s) /\ \A r \in Queues : ~Has(L.seq[r], t)
  BY <1>0, PlaceFacts, NoneIsNoQueue DEF Listed, OthersPlaced
<1>2. /\ Once(n) /\ n \in Seq(Threads)
      /\ \A x : Has(n, x) <=> Has(s, x) \/ x = t
      /\ Sorted(s, P) => Sorted(n, Q)
  <2>1. s \in Seq(Threads) /\ Once(s) /\ ~Has(s, t)
    BY <1>0, <1>1
  <2> HIDE DEF s
  <2> QED
    BY <2>1, InsertList
<1>3. R.seq = [L.seq EXCEPT ![q] = n] /\ R.at = [L.at EXCEPT ![t] = q]
  BY <1>0 DEF InsertThreadIntoQueueByPriority
<1> HIDE DEF s, n, R
<1>4. R.seq[q] = n /\ R.seq = [L.seq EXCEPT ![q] = R.seq[q]] /\ R.at[t] = q
  BY <1>0, <1>3
<1>5. \A u \in Threads \ {t} : R.at[u] = L.at[u] /\ (Has(R.seq[q], u) <=> Has(L.seq[q], u))
  BY <1>0, <1>2, <1>3, <1>4 DEF s
<1>6. Once(R.seq[q]) /\ Has(R.seq[q], t)
  BY <1>2, <1>4
<1>7. /\ Listed(R) /\ Place(R, t) = q
      /\ \A u \in Threads \ {t} : Place(R, u) = Place(L, u)
  <2>1. OneList(L, R, q, t)
    BY <1>1, <1>4, <1>5, <1>6 DEF OneList
  <2> QED
    BY <1>0, <1>6, <2>1, OneListChanges
<1>8. ASSUME NEW r \in BlockQueues
      PROVE  Sorted(R.seq[r], P2)
  <2>1. r \in Queues /\ L.seq[r] \in Seq(Threads) /\ Sorted(L.seq[r], P)
    BY <1>0, QueueFacts DEF InOrder, OthersPlaced
  <2>2. CASE r = q
    <3>1. Sorted(n, Q)
      BY <1>2, <2>1, <2>2 DEF s
    <3>2. \A x \in Threads : P2[x] = Q[x]
      OBVIOUS
    <3> QED
      BY <1>2, <1>4, <2>2, <3>1, <3>2, SameOrder
  <2>3. CASE r # q
    <3>1. R.seq[r] = L.seq[r]
      BY <1>0, <1>3, <2>1, <2>3
    <3>2. \A x \in Threads : Has(L.seq[r], x) => P2[x] = P[x]
      BY <1>1, <2>1
    <3>3. Sorted(L.seq[r], P2)
      BY <2>1, <3>2, SameOrder
    <3> QED
      BY <3>1, <3>3
  <2> QED
    BY <2>2, <2>3
<1>9. ASSUME NEW u \in Threads
      PROVE  Placed(Place(R, u), R.at[u], S2[u], U2[u], P2[u])
  <2>1. CASE u = t
    BY <2>1, <1>4, <1>7
  <2>2. CASE u # t
    BY <2>2, <1>5, <1>7 DEF OthersPlaced
  <2> QED
    BY <2>1, <2>2
<1> QED
  BY <1>7, <1>8, <1>9 DEF AllPlaced, InOrder, R

\* A thread on no queue goes to the tail of a run queue.
LEMMA LinkPlaced ==
    ASSUME NEW L \in Links, NEW S, NEW U, NEW P, NEW t \in Threads,
           OthersPlaced(L, S, U, P, t), NEW p \in 0 .. MaxPrio + 1, NEW S2,
           \A u \in Threads \ {t} : S2[u] = S[u],
           Placed(RunQueue(p), RunQueue(p), S2[t], U[t], P[t])
    PROVE  AllPlaced(LinkThreadOnRunQueue(L, t, p), S2, U, P)
<1> DEFINE R == LinkThreadOnRunQueue(L, t, p)
           q == RunQueue(p)
           s == L.seq[q]
           n == Append(s, t)
<1>0. /\ L.seq \in [Queues -> Seq(Threads)] /\ L.at \in [Threads -> Queues \cup {None}]
      /\ q \in Queues /\ q \notin BlockQueues /\ s \in Seq(Threads) /\ Listed(L) /\ R \in Links
  BY LinkRunQueue, QueueFacts DEF Links, OthersPlaced
<1>1. Once(s) /\ \A r \in Queues : ~Has(L.seq[r], t)
  BY <1>0, PlaceFacts, NoneIsNoQueue DEF Listed, OthersPlaced
<1>2. Once(n) /\ \A x : Has(n, x) <=> Has(s, x) \/ x = t
  BY <1>0, <1>1, AppendList
<1>3. R.seq = [L.seq EXCEPT ![q] = n] /\ R.at = [L.at EXCEPT ![t] = q]
  BY <1>0 DEF LinkThreadOnRunQueue
<1> HIDE DEF s, n, q, R
<1>4. R.seq[q] = n /\ R.seq = [L.seq EXCEPT ![q] = R.seq[q]] /\ R.at[t] = q
  BY <1>0, <1>3
<1>5. \A u \in Threads \ {t} : R.at[u] = L.at[u] /\ (Has(R.seq[q], u) <=> Has(L.seq[q], u))
  BY <1>0, <1>2, <1>3, <1>4 DEF s
<1>6. Once(R.seq[q]) /\ Has(R.seq[q], t)
  BY <1>2, <1>4
<1>7. /\ Listed(R) /\ Place(R, t) = q
      /\ \A u \in Threads \ {t} : Place(R, u) = Place(L, u)
  <2>1. OneList(L, R, q, t)
    BY <1>1, <1>4, <1>5, <1>6 DEF OneList
  <2> QED
    BY <1>0, <1>6, <2>1, OneListChanges
<1>8. InOrder(R, P)
  BY <1>0, <1>3, QueueFacts DEF InOrder, OthersPlaced
<1>9. ASSUME NEW u \in Threads
      PROVE  Placed(Place(R, u), R.at[u], S2[u], U[u], P[u])
  <2>1. CASE u = t
    BY <2>1, <1>4, <1>7 DEF q
  <2>2. CASE u # t
    BY <2>2, <1>5, <1>7 DEF OthersPlaced
  <2> QED
    BY <2>1, <2>2
<1> QED
  BY <1>7, <1>8, <1>9 DEF AllPlaced, R

\* A thread that is on no queue.
LEMMA Unqueued ==
    ASSUME NEW L, NEW S, NEW U, NEW P, AllPlaced(L, S, U, P), NEW t \in Threads,
           Place(L, t) = None
    PROVE  OthersPlaced(L, S, U, P, t)
BY DEF AllPlaced, OthersPlaced

-----------------------------------------------------------------------------
(***************************************************************************)
(* Stacks.  The frames of the fiber on the CPU say what the kernel is in   *)
(* the middle of.                                                          *)
(***************************************************************************)

\* A pump that holds thread switches back and has still to allow them again.
Deferring == {"alarmTail", "undefer"}

\* The end of SelectThread: the thread to run next is being looked for.
Unready == {"pick", "idle", "idleAlarms"}

\* Frames that may lie anywhere on any stack.
Ordinary == PCs \ ({"suspend", "returned", "wakeNoSwitch"} \cup Unready \cup Deferring)

\* What a rescheduling call consists of; what may run on a fiber whose thread
\* is leaving the CPU, and in the idle loop.
Common      == {"fire", "heal", "resume", "propagate", "resched", "select", "schedule", "wake"}
LeaveFrames == Common \cup {"unlockAll"}
IdleFrames  == Common \cup Deferring
                 \cup {"alarms", "alarmLoop", "handler", "send", "jam", "recv"}

\* The frames that lead to a switch when the thread on the CPU cannot go on.
KeyPCs(re) == {"select", "schedule", "pick", "exited"} \cup (IF re THEN {"resched"} ELSE {})

\* A frame in K, under frames in F and above frames in B.
Shape(s, K, F, B) ==
    \E k \in DOMAIN s :
        /\ s[k].pc \in K
        /\ \A j \in DOMAIN s : /\ j < k => s[j].pc \in F
                               /\ j > k => s[j].pc \in B

\* The frames on s that hold thread switches back, counted from the bottom.
Defers(s) == {k \in 1 .. Len(s) : s[Len(s) + 1 - k].pc \in Deferring}
Count(s)  == Cardinality(Defers(s))

\* A call about its own thread is on that thread's fiber.
Own(h, f) == f.pc \in {"slept", "ticked", "lock", "relock"} => f.thr = h

\* What may lie below the top of the stack of the fiber on the CPU.
Inner(run) == Ordinary \cup Deferring \cup (IF run = None THEN {"idle", "idleAlarms"} ELSE {})

\* The thread on the CPU is running; or it cannot run and is about to leave the
\* CPU; or nobody runs and its fiber executes the idle loop.
Mode(h, run, cur, on, dis, re, s) ==
    \/ run = h /\ cur = h /\ on
    \/ run = h /\ cur = h /\ ~on /\ dis = 0 /\ Shape(s, KeyPCs(re), LeaveFrames, PCs)
    \/ run = None /\ cur = Idle /\ ~on /\ Shape(s, Unready, IdleFrames, Ordinary)

HostOK(h, run, cur, on, dis, re, pend, s) ==
    /\ Mode(h, run, cur, on, dis, re, s)
    /\ dis = Count(s)
    /\ \A i \in DOMAIN s :
          /\ Own(h, s[i])
          /\ s[i].pc \in Inner(run) \/ (i = 1 /\ s[i].pc \in {"suspend", "pick"})
          /\ s[i].pc = "suspend" => dis = 0
          /\ s[i].pc = "pick" => ~on /\ pend # {}

OtherOK(u, s) == \A i \in DOMAIN s : Own(u, s[i]) /\ s[i].pc \in Ordinary

\* Frames that may be pushed: on any fiber, and while the thread cannot run.
MayPush(h, run, on) ==
    {f \in Frames : /\ Own(h, f) /\ f.pc \in Ordinary
                    /\ run # None /\ ~on => f.pc \in LeaveFrames
                    /\ run = None => f.pc \in IdleFrames}

\* The top of the stack is not a call that must stay on top.
Clear(s) == \A i \in DOMAIN s : s[i].pc \notin {"suspend", "pick"}

\* A list is its head and its tail.
LEMMA HeadTail ==
    ASSUME NEW S, NEW s \in Seq(S), s # <<>>
    PROVE  /\ Tail(s) \in Seq(S) /\ Head(s) \in S /\ s[1] = Head(s)
           /\ Len(s) \in Nat /\ Len(s) >= 1 /\ DOMAIN s = 1 .. Len(s)
           /\ DOMAIN Tail(s) = 1 .. Len(s) - 1
           /\ \A i \in DOMAIN Tail(s) : Tail(s)[i] = s[i + 1] /\ i + 1 \in DOMAIN s
OBVIOUS

\* The elements of two lists put together.
LEMMA Concat ==
    ASSUME NEW S, NEW a \in Seq(S), NEW b \in Seq(S)
    PROVE  /\ a \o b \in Seq(S) /\ Len(a) \in Nat /\ Len(b) \in Nat
           /\ Len(a \o b) = Len(a) + Len(b)
           /\ DOMAIN a = 1 .. Len(a) /\ DOMAIN b = 1 .. Len(b)
           /\ DOMAIN (a \o b) = 1 .. Len(a) + Len(b)
           /\ \A i \in DOMAIN a : (a \o b)[i] = a[i]
           /\ \A i \in DOMAIN b : (a \o b)[Len(a) + i] = b[i]
           /\ \A i \in 1 .. Len(a) + Len(b) :
                i \in DOMAIN a \/ (i > Len(a) /\ i - Len(a) \in DOMAIN b
                                    /\ (a \o b)[i] = b[i - Len(a)])
<1>1. \A i \in DOMAIN b : (a \o b)[Len(a) + i] = b[i]
  OBVIOUS
<1>2. ASSUME NEW i \in 1 .. Len(a) + Len(b), i \notin DOMAIN a
      PROVE  i > Len(a) /\ i - Len(a) \in DOMAIN b /\ (a \o b)[i] = b[i - Len(a)]
  <2>1. i > Len(a) /\ i - Len(a) \in DOMAIN b
    BY <1>2
  <2>2. Len(a) + (i - Len(a)) = i
    OBVIOUS
  <2> QED
    BY <1>1, <2>1, <2>2
<1> QED
  BY <1>1, <1>2

\* Frames pushed on a shape, and the frame in K itself.
LEMMA ShapePush ==
    ASSUME NEW K, NEW F, NEW B, NEW a \in Seq(Frames), NEW s \in Seq(Frames),
           Shape(s, K, F, B), \A i \in DOMAIN a : a[i].pc \in F
    PROVE  Shape(a \o s, K, F, B)
<1> DEFINE u == a \o s
           n == Len(a)
<1>1. PICK k \in DOMAIN s : /\ s[k].pc \in K
                            /\ \A j \in DOMAIN s : /\ j < k => s[j].pc \in F
                                                   /\ j > k => s[j].pc \in B
  BY DEF Shape
<1>2. /\ n \in Nat /\ Len(s) \in Nat /\ DOMAIN a = 1 .. n /\ DOMAIN s = 1 .. Len(s)
      /\ DOMAIN u = 1 .. n + Len(s)
      /\ \A i \in DOMAIN a : u[i] = a[i]
      /\ \A i \in DOMAIN s : u[n + i] = s[i]
      /\ \A i \in DOMAIN u : i \in DOMAIN a \/ (i > n /\ i - n \in DOMAIN s /\ u[i] = s[i - n])
  BY Concat
<1> HIDE DEF u, n
<1>3. n + k \in DOMAIN u /\ u[n + k].pc \in K
  BY <1>1, <1>2
<1>4. ASSUME NEW j \in DOMAIN u
      PROVE  /\ j < n + k => u[j].pc \in F
             /\ j > n + k => u[j].pc \in B
  <2>1. CASE j \in DOMAIN a
    BY <1>1, <1>2, <2>1
  <2>2. CASE j > n /\ j - n \in DOMAIN s /\ u[j] = s[j - n]
    <3>1. /\ j < n + k => j - n < k
          /\ j > n + k => j - n > k
      BY <1>1, <1>2, <2>2
    <3> QED
      BY <1>1, <2>2, <3>1
  <2> QED
    BY <1>2, <2>1, <2>2
<1> QED
  BY <1>3, <1>4 DEF Shape, u

\* A key frame on top of frames that may be below it.
LEMMA ShapeTop ==
    ASSUME NEW K, NEW F, NEW B, NEW f \in Frames, NEW r \in Seq(Frames),
           f.pc \in K, \A i \in DOMAIN r : r[i].pc \in B
    PROVE  Shape(<<f>> \o r, K, F, B)
<1> DEFINE u == <<f>> \o r
<1>1. /\ DOMAIN u = 1 .. 1 + Len(r) /\ Len(r) \in Nat /\ u[1] = f
      /\ \A i \in DOMAIN u : i # 1 => i - 1 \in DOMAIN r /\ u[i] = r[i - 1]
  OBVIOUS
<1> HIDE DEF u
<1>2. 1 \in DOMAIN u /\ u[1].pc \in K
  BY <1>1
<1>3. \A j \in DOMAIN u : /\ j < 1 => u[j].pc \in F
                          /\ j > 1 => u[j].pc \in B
  BY <1>1
<1> QED
  BY <1>2, <1>3 DEF Shape, u

\* The frame on top of a shape is the one in K, or is above it.
LEMMA ShapePop ==
    ASSUME NEW K, NEW F, NEW B, NEW s \in Seq(Frames), Shape(s, K, F, B)
    PROVE  /\ s # <<>>
           /\ \/ Head(s).pc \in K /\ \A i \in DOMAIN Tail(s) : Tail(s)[i].pc \in B
              \/ Head(s).pc \in F /\ Shape(Tail(s), K, F, B)
<1> DEFINE r == Tail(s)
<1>1. PICK k \in DOMAIN s : /\ s[k].pc \in K
                            /\ \A j \in DOMAIN s : /\ j < k => s[j].pc \in F
                                                   /\ j > k => s[j].pc \in B
  BY DEF Shape
<1>2. s # <<>>
  OBVIOUS
<1>3. /\ s[1] = Head(s) /\ Len(s) \in Nat /\ Len(s) >= 1 /\ DOMAIN s = 1 .. Len(s)
      /\ DOMAIN r = 1 .. Len(s) - 1 /\ \A i \in DOMAIN r : r[i] = s[i + 1] /\ i + 1 \in DOMAIN s
  BY <1>2, HeadTail
<1> HIDE DEF r
<1>4. CASE k = 1
  <2>1. \A i \in DOMAIN r : i + 1 > 1
    BY <1>3
  <2> QED
    BY <1>1, <1>2, <1>3, <1>4, <2>1 DEF r
<1>5. CASE k # 1
  <2>1. 1 < k /\ 1 \in DOMAIN s /\ k - 1 \in DOMAIN r /\ (k - 1) + 1 = k
    BY <1>1, <1>3, <1>5
  <2>2. \A i \in DOMAIN r : /\ i < k - 1 => i + 1 < k
                            /\ i > k - 1 => i + 1 > k
    BY <1>1, <1>3
  <2>3. Shape(r, K, F, B)
    BY <1>1, <1>3, <2>1, <2>2 DEF Shape
  <2> QED
    BY <1>1, <1>2, <1>3, <2>1, <2>3 DEF r
<1> QED
  BY <1>4, <1>5

\* A key stays a key when the rescheduling flag is raised.
LEMMA ShapeRaise ==
    ASSUME NEW F, NEW B, NEW s, NEW re \in BOOLEAN, NEW re2 \in BOOLEAN, re => re2,
           Shape(s, KeyPCs(re), F, B)
    PROVE  Shape(s, KeyPCs(re2), F, B)
<1>1. KeyPCs(re) \subseteq KeyPCs(re2)
  BY DEF KeyPCs
<1> QED
  BY <1>1 DEF Shape

\* Frames that do not hold switches back leave the count as it is.
LEMMA CountPush ==
    ASSUME NEW a \in Seq(Frames), NEW s \in Seq(Frames), \A i \in DOMAIN a : a[i].pc \notin Deferring
    PROVE  Count(a \o s) = Count(s)
<1> DEFINE u == a \o s
           n == Len(a)
           m == Len(s)
<1>1. /\ n \in Nat /\ m \in Nat /\ DOMAIN a = 1 .. n /\ DOMAIN s = 1 .. m
      /\ Len(u) = n + m
      /\ \A i \in DOMAIN a : u[i] = a[i]
      /\ \A i \in DOMAIN s : u[n + i] = s[i]
  BY Concat
<1> HIDE DEF u, n, m
<1>2. ASSUME NEW k \in 1 .. m
      PROVE  u[Len(u) + 1 - k] = s[m + 1 - k]
  <2>1. m + 1 - k \in DOMAIN s /\ n + (m + 1 - k) = Len(u) + 1 - k
    BY <1>1
  <2> QED
    BY <1>1, <2>1
<1>3. ASSUME NEW k \in 1 .. Len(u), k > m
      PROVE  u[Len(u) + 1 - k].pc \notin Deferring
  <2>1. Len(u) + 1 - k \in DOMAIN a
    BY <1>1, <1>3
  <2> QED
    BY <1>1, <2>1
<1>4. Defers(u) = Defers(s)
  <2>1. Defers(u) \subseteq Defers(s)
    BY <1>1, <1>2, <1>3 DEF Defers, m
  <2>2. Defers(s) \subseteq Defers(u)
    BY <1>1, <1>2 DEF Defers, m
  <2> QED
    BY <2>1, <2>2
<1> QED
  BY <1>4 DEF Count, u

\* A stack that holds switches back nowhere has count zero, and conversely.
LEMMA CountZero ==
    ASSUME NEW s \in Seq(Frames)
    PROVE  /\ Count(s) \in Nat
           /\ Count(s) = 0 <=> \A i \in DOMAIN s : s[i].pc \notin Deferring
<1>1. Len(s) \in Nat /\ DOMAIN s = 1 .. Len(s)
  OBVIOUS
<1>2. IsFiniteSet(1 .. Len(s)) /\ IsFiniteSet(Defers(s))
  <2>1. IsFiniteSet(1 .. Len(s))
    BY <1>1, FS_Interval
  <2>2. Defers(s) \subseteq 1 .. Len(s)
    BY DEF Defers
  <2> QED
    BY <2>1, <2>2, FS_Subset
<1>3. Count(s) \in Nat /\ (Count(s) = 0 <=> Defers(s) = {})
  BY <1>2, FS_CardinalityType, FS_EmptySet DEF Count
<1>4. \A i \in DOMAIN s : Len(s) + 1 - i \in 1 .. Len(s) /\ Len(s) + 1 - (Len(s) + 1 - i) = i
  BY <1>1
<1>5. Defers(s) = {} <=> \A i \in DOMAIN s : s[i].pc \notin Deferring
  <2>1. ASSUME Defers(s) = {}, NEW i \in DOMAIN s
        PROVE  s[i].pc \notin Deferring
    BY <1>4, <2>1 DEF Defers
  <2>2. ASSUME \A i \in DOMAIN s : s[i].pc \notin Deferring, NEW k \in 1 .. Len(s)
        PROVE  s[Len(s) + 1 - k].pc \notin Deferring
    <3>1. Len(s) + 1 - k \in DOMAIN s
      BY <1>1
    <3> QED
      BY <2>2, <3>1
  <2> QED
    BY <2>1, <2>2 DEF Defers
<1> QED
  BY <1>3, <1>5

\* One more frame that holds switches back.
LEMMA CountDefer ==
    ASSUME NEW f \in Frames, NEW s \in Seq(Frames), f.pc \in Deferring
    PROVE  Count(<<f>> \o s) = Count(s) + 1
<1> DEFINE u == <<f>> \o s
           m == Len(s)
<1>1. /\ m \in Nat /\ Len(u) = m + 1 /\ u[1] = f
      /\ \A i \in 1 .. m : u[1 + i] = s[i]
  OBVIOUS
<1> HIDE DEF u
<1>2. ASSUME NEW k \in 1 .. m
      PROVE  u[Len(u) + 1 - k] = s[m + 1 - k]
  <2>1. m + 1 - k \in 1 .. m /\ 1 + (m + 1 - k) = Len(u) + 1 - k
    BY <1>1
  <2> QED
    BY <1>1, <2>1
<1>3. Len(u) + 1 - (m + 1) = 1
  BY <1>1
<1> HIDE DEF m
<1>4. Defers(u) = Defers(s) \cup {m + 1}
  <2>1. Defers(u) \subseteq Defers(s) \cup {m + 1}
    BY <1>1, <1>2 DEF Defers, m
  <2>2. ASSUME NEW k \in Defers(s)
        PROVE  k \in Defers(u)
    <3>1. k \in 1 .. m /\ s[m + 1 - k].pc \in Deferring
      BY DEF Defers, m
    <3>2. k \in 1 .. Len(u)
      BY <1>1, <3>1
    <3> QED
      BY <1>2, <3>1, <3>2 DEF Defers
  <2>3. m + 1 \in Defers(u)
    BY <1>1, <1>3 DEF Defers
  <2> QED
    BY <2>1, <2>2, <2>3
<1>5. m + 1 \notin Defers(s)
  BY <1>1 DEF Defers, m
<1>6. IsFiniteSet(Defers(s))
  <2>1. IsFiniteSet(1 .. m) /\ Defers(s) \subseteq 1 .. m
    BY <1>1, FS_Interval DEF Defers, m
  <2> QED
    BY <2>1, FS_Subset
<1> QED
  BY <1>4, <1>5, <1>6, FS_AddElement DEF Count, u

\* Below the top of the stack nothing is a call that must stay on top.
LEMMA TailClear ==
    ASSUME NEW h, NEW run, NEW cur, NEW on, NEW dis, NEW re, NEW pend, NEW s \in Seq(Frames),
           HostOK(h, run, cur, on, dis, re, pend, s), s # <<>>
    PROVE  /\ Clear(Tail(s)) /\ Tail(s) \in Seq(Frames) /\ Head(s) \in Frames
           /\ \A i \in DOMAIN Tail(s) : Own(h, Tail(s)[i]) /\ Tail(s)[i].pc \in Inner(run)
           /\ Own(h, Head(s)) /\ Head(s).pc \in Inner(run) \cup {"suspend", "pick"}
           /\ Head(s).pc = "suspend" => dis = 0
           /\ Head(s).pc = "pick" => ~on /\ pend # {}
<1> DEFINE r == Tail(s)
<1>1. /\ s[1] = Head(s) /\ Len(s) \in Nat /\ Len(s) >= 1 /\ DOMAIN s = 1 .. Len(s)
      /\ DOMAIN r = 1 .. Len(s) - 1 /\ \A i \in DOMAIN r : r[i] = s[i + 1] /\ i + 1 \in DOMAIN s
      /\ r \in Seq(Frames) /\ Head(s) \in Frames
  BY HeadTail
<1> HIDE DEF r
<1>2. \A i \in DOMAIN r : i + 1 # 1
  BY <1>1
<1>3. \A i \in DOMAIN r : Own(h, r[i]) /\ r[i].pc \in Inner(run)
  BY <1>1, <1>2 DEF HostOK
<1>4. Clear(r)
  BY <1>3 DEF Clear, Inner, Ordinary, Unready, Deferring
<1>5. 1 \in DOMAIN s
  BY <1>1
<1> QED
  BY <1>1, <1>3, <1>4, <1>5 DEF HostOK, r

\* The frame on top and the mode.
LEMMA TopMode ==
    ASSUME NEW h, NEW run, NEW cur, NEW on, NEW dis, NEW re, NEW s \in Seq(Frames),
           Mode(h, run, cur, on, dis, re, s)
    PROVE  \/ run = h /\ cur = h /\ on
           \/ /\ s # <<>> /\ run = h /\ cur = h /\ ~on /\ dis = 0
              /\ \/ Head(s).pc \in KeyPCs(re)
                 \/ Head(s).pc \in LeaveFrames /\ Shape(Tail(s), KeyPCs(re), LeaveFrames, PCs)
           \/ /\ s # <<>> /\ run = None /\ cur = Idle /\ ~on
              /\ \/ /\ Head(s).pc \in Unready
                    /\ \A i \in DOMAIN Tail(s) : Tail(s)[i].pc \in Ordinary
                 \/ /\ Head(s).pc \in IdleFrames
                    /\ Shape(Tail(s), Unready, IdleFrames, Ordinary)
BY ShapePop DEF Mode

\* A call returns.
LEMMA PopOK ==
    ASSUME NEW h \in Threads, NEW run, NEW cur, NEW on, NEW dis, NEW re, NEW pend,
           NEW s \in Seq(Frames), s # <<>>, HostOK(h, run, cur, on, dis, re, pend, s),
           Head(s).pc \notin Deferring \cup Unready,
           run # None /\ ~on => Head(s).pc \notin KeyPCs(re)
    PROVE  HostOK(h, run, cur, on, dis, re, pend, Tail(s)) /\ Clear(Tail(s))
<1> DEFINE r == Tail(s)
<1>1. /\ Clear(r) /\ r \in Seq(Frames) /\ Head(s) \in Frames
      /\ \A i \in DOMAIN r : Own(h, r[i]) /\ r[i].pc \in Inner(run)
  BY TailClear
<1>2. Mode(h, run, cur, on, dis, re, s) /\ dis = Count(s)
  BY DEF HostOK
<1>3. Mode(h, run, cur, on, dis, re, r)
  <2>1. h # None
    BY QueueConstants
  <2>2. \/ run = h /\ cur = h /\ on
        \/ run = h /\ cur = h /\ ~on /\ dis = 0 /\ Shape(r, KeyPCs(re), LeaveFrames, PCs)
        \/ run = None /\ cur = Idle /\ ~on /\ Shape(r, Unready, IdleFrames, Ordinary)
    BY <1>2, <2>1, TopMode
  <2> QED
    BY <2>2 DEF Mode
<1>4. Count(s) = Count(r)
  <2>1. s = <<Head(s)>> \o r
    OBVIOUS
  <2>2. <<Head(s)>> \in Seq(Frames) /\ \A i \in DOMAIN <<Head(s)>> : <<Head(s)>>[i].pc \notin Deferring
    BY <1>1
  <2> HIDE DEF r
  <2> QED
    BY <1>1, <2>1, <2>2, CountPush
<1> HIDE DEF r
<1>5. HostOK(h, run, cur, on, dis, re, pend, r)
  BY <1>1, <1>2, <1>3, <1>4 DEF HostOK, Clear
<1> QED
  BY <1>1, <1>5 DEF r

\* Calls are made.
LEMMA PushOK ==
    ASSUME NEW h \in Threads, NEW run, NEW cur, NEW on, NEW dis, NEW re, NEW pend,
           NEW s \in Seq(Frames), HostOK(h, run, cur, on, dis, re, pend, s), Clear(s),
           NEW fs \in Seq(MayPush(h, run, on))
    PROVE  HostOK(h, run, cur, on, dis, re, pend, fs \o s) /\ Clear(fs \o s)
<1> DEFINE u == fs \o s
<1>1. fs \in Seq(Frames) /\ \A i \in DOMAIN fs : fs[i] \in MayPush(h, run, on)
  BY DEF MayPush
<1>2. /\ DOMAIN u = 1 .. Len(fs) + Len(s) /\ u \in Seq(Frames)
      /\ \A i \in DOMAIN fs : u[i] = fs[i]
      /\ \A i \in DOMAIN u : i \in DOMAIN fs \/ (i > Len(fs) /\ i - Len(fs) \in DOMAIN s
                                                  /\ u[i] = s[i - Len(fs)])
  BY <1>1, Concat
<1>3. \A i \in DOMAIN fs : Own(h, fs[i]) /\ fs[i].pc \in Ordinary /\ fs[i].pc \notin Deferring
  BY <1>1 DEF MayPush, Ordinary
<1>4. Count(u) = Count(s)
  BY <1>1, <1>3, CountPush
<1>5. Mode(h, run, cur, on, dis, re, u)
  <2>1. CASE run = h /\ cur = h /\ on
    BY <2>1 DEF Mode
  <2>2. CASE run = h /\ cur = h /\ ~on /\ dis = 0 /\ Shape(s, KeyPCs(re), LeaveFrames, PCs)
    <3>1. \A i \in DOMAIN fs : fs[i].pc \in LeaveFrames
      BY <1>1, <2>2, QueueConstants DEF MayPush
    <3>2. Shape(u, KeyPCs(re), LeaveFrames, PCs)
      BY <1>1, <2>2, <3>1, ShapePush
    <3> QED
      BY <2>2, <3>2 DEF Mode
  <2>3. CASE run = None /\ cur = Idle /\ ~on /\ Shape(s, Unready, IdleFrames, Ordinary)
    <3>1. \A i \in DOMAIN fs : fs[i].pc \in IdleFrames
      BY <1>1, <2>3 DEF MayPush
    <3>2. Shape(u, Unready, IdleFrames, Ordinary)
      BY <1>1, <2>3, <3>1, ShapePush
    <3> QED
      BY <2>3, <3>2 DEF Mode
  <2> QED
    BY <2>1, <2>2, <2>3 DEF HostOK, Mode
<1> HIDE DEF u
<1>6. \A i \in DOMAIN s : Own(h, s[i]) /\ s[i].pc \in Inner(run) /\ s[i].pc \notin {"suspend", "pick"}
  BY DEF HostOK, Clear
<1>7. \A i \in DOMAIN u : Own(h, u[i]) /\ u[i].pc \in Inner(run) /\ u[i].pc \notin {"suspend", "pick"}
  <2>1. \A i \in DOMAIN fs : fs[i].pc \in Inner(run) /\ fs[i].pc \notin {"suspend", "pick"}
    BY <1>3 DEF Inner, Ordinary, Unready
  <2> QED
    BY <1>2, <1>3, <1>6, <2>1
<1>8. HostOK(h, run, cur, on, dis, re, pend, u)
  BY <1>4, <1>5, <1>7 DEF HostOK
<1>9. Clear(u)
  BY <1>7 DEF Clear
<1> QED
  BY <1>8, <1>9 DEF u

\* The rescheduling flag is raised and the pending mask changes.
LEMMA RaiseOK ==
    ASSUME NEW h, NEW run, NEW cur, NEW on, NEW dis, NEW re \in BOOLEAN, NEW pend,
           NEW s, HostOK(h, run, cur, on, dis, re, pend, s), Clear(s),
           NEW re2 \in BOOLEAN, re => re2, NEW pend2
    PROVE  HostOK(h, run, cur, on, dis, re2, pend2, s)
<1>1. Mode(h, run, cur, on, dis, re2, s)
  BY ShapeRaise DEF HostOK, Mode
<1> QED
  BY <1>1 DEF HostOK, Clear

\* A call that leads to a switch goes on to another one that does.
LEMMA KeyOK ==
    ASSUME NEW h \in Threads, NEW run, NEW cur, NEW on, NEW dis, NEW re, NEW pend,
           NEW s \in Seq(Frames), s # <<>>, HostOK(h, run, cur, on, dis, re, pend, s),
           Head(s).pc \in KeyPCs(re) \ {"pick"},
           NEW f \in Frames, f.pc \in {"select", "schedule"}, NEW re2, NEW pend2
    PROVE  HostOK(h, run, cur, on, dis, re2, pend2, <<f>> \o Tail(s)) /\ Clear(<<f>> \o Tail(s))
<1> DEFINE r == Tail(s)
           u == <<f>> \o r
<1>1. /\ Clear(r) /\ r \in Seq(Frames) /\ Head(s) \in Frames
      /\ \A i \in DOMAIN r : Own(h, r[i]) /\ r[i].pc \in Inner(run)
  BY TailClear
<1>2. s = <<Head(s)>> \o r
  OBVIOUS
<1> HIDE DEF r
<1>3. Mode(h, run, cur, on, dis, re, s) /\ dis = Count(s)
  BY DEF HostOK
<1>4. Head(s).pc \notin Deferring \cup Unready /\ f.pc \notin Deferring /\ f.pc \in KeyPCs(re2)
  BY DEF KeyPCs, Deferring, Unready
<1>5. Count(u) = Count(r) /\ Count(s) = Count(r)
  <2>1. /\ <<Head(s)>> \in Seq(Frames) /\ \A i \in DOMAIN <<Head(s)>> : <<Head(s)>>[i].pc \notin Deferring
        /\ <<f>> \in Seq(Frames) /\ \A i \in DOMAIN <<f>> : <<f>>[i].pc \notin Deferring
    BY <1>1, <1>4
  <2> QED
    BY <1>1, <1>2, <2>1, CountPush
<1>6. Mode(h, run, cur, on, dis, re2, u)
  <2>1. CASE run = h /\ cur = h /\ on
    BY <2>1 DEF Mode
  <2>2. CASE run = h /\ cur = h /\ ~on /\ dis = 0
    <3>0. \A i \in DOMAIN r : r[i] \in Frames
      BY <1>1
    <3>1. \A i \in DOMAIN r : r[i].pc \in PCs
      BY <3>0 DEF Frames
    <3>2. Shape(u, KeyPCs(re2), LeaveFrames, PCs)
      BY <1>1, <1>4, <3>1, ShapeTop
    <3> QED
      BY <2>2, <3>2 DEF Mode
  <2>3. CASE run = None /\ cur = Idle /\ ~on
    <3>1. Shape(r, Unready, IdleFrames, Ordinary)
      BY <1>3, <1>4, <2>3, TopMode, QueueConstants DEF r
    <3>2. <<f>> \in Seq(Frames) /\ \A i \in DOMAIN <<f>> : <<f>>[i].pc \in IdleFrames
      BY DEF IdleFrames, Common
    <3>3. Shape(u, Unready, IdleFrames, Ordinary)
      BY <1>1, <3>1, <3>2, ShapePush
    <3> QED
      BY <2>3, <3>3 DEF Mode
  <2> QED
    BY <1>3, <2>1, <2>2, <2>3 DEF Mode
<1>7. /\ DOMAIN u = 1 .. 1 + Len(r) /\ Len(r) \in Nat /\ u[1] = f
      /\ \A i \in DOMAIN u : i # 1 => i - 1 \in DOMAIN r /\ u[i] = r[i - 1]
  BY <1>1
<1> HIDE DEF u
<1>8. Own(h, f) /\ f.pc \in Inner(run) /\ f.pc \notin {"suspend", "pick"}
  BY DEF Own, Inner, Ordinary, Unready, Deferring, PCs
<1>9. \A i \in DOMAIN u : Own(h, u[i]) /\ u[i].pc \in Inner(run) /\ u[i].pc \notin {"suspend", "pick"}
  BY <1>1, <1>7, <1>8 DEF Clear
<1>10. HostOK(h, run, cur, on, dis, re2, pend2, u) /\ Clear(u)
  BY <1>3, <1>5, <1>6, <1>9 DEF HostOK, Clear
<1> QED
  BY <1>10 DEF u, r

\* A pump starts to hold switches back, and allows them again.
LEMMA DeferOK ==
    ASSUME NEW h \in Threads, NEW run, NEW cur, NEW on, NEW dis \in Nat, NEW re, NEW pend,
           NEW s \in Seq(Frames), HostOK(h, run, cur, on, dis, re, pend, s), Clear(s),
           NEW f \in Frames, f.pc \in Deferring, run # None => on
    PROVE  HostOK(h, run, cur, on, dis + 1, re, pend, <<f>> \o s) /\ Clear(<<f>> \o s)
<1> DEFINE u == <<f>> \o s
<1>1. Count(u) = dis + 1
  BY CountDefer DEF HostOK
<1>2. Mode(h, run, cur, on, dis + 1, re, u)
  <2>1. CASE run = h /\ cur = h /\ on
    BY <2>1 DEF Mode
  <2>2. CASE run = None /\ cur = Idle /\ ~on /\ Shape(s, Unready, IdleFrames, Ordinary)
    <3>1. <<f>> \in Seq(Frames) /\ \A i \in DOMAIN <<f>> : <<f>>[i].pc \in IdleFrames
      BY DEF IdleFrames, Common
    <3>2. Shape(u, Unready, IdleFrames, Ordinary)
      BY <2>2, <3>1, ShapePush
    <3> QED
      BY <2>2, <3>2 DEF Mode
  <2> QED
    BY <2>1, <2>2, QueueConstants DEF HostOK, Mode
<1>3. /\ DOMAIN u = 1 .. 1 + Len(s) /\ Len(s) \in Nat /\ u[1] = f
      /\ \A i \in DOMAIN u : i # 1 => i - 1 \in DOMAIN s /\ u[i] = s[i - 1]
  OBVIOUS
<1> HIDE DEF u
<1>4. Own(h, f) /\ f.pc \in Inner(run) /\ f.pc \notin {"suspend", "pick"}
  BY DEF Own, Inner, Deferring
<1>5. \A i \in DOMAIN s : Own(h, s[i]) /\ s[i].pc \in Inner(run) /\ s[i].pc \notin {"suspend", "pick"}
  BY DEF HostOK, Clear
<1>6. \A i \in DOMAIN u : Own(h, u[i]) /\ u[i].pc \in Inner(run) /\ u[i].pc \notin {"suspend", "pick"}
  BY <1>3, <1>4, <1>5
<1>7. HostOK(h, run, cur, on, dis + 1, re, pend, u) /\ Clear(u)
  BY <1>1, <1>2, <1>6 DEF HostOK, Clear
<1> QED
  BY <1>7 DEF u

\* The end of a scope that held thread switches back.
LEMMA UndeferOK ==
    ASSUME NEW h \in Threads, NEW run, NEW cur, NEW on, NEW dis \in Nat, NEW re, NEW pend,
           NEW s \in Seq(Frames), s # <<>>, HostOK(h, run, cur, on, dis, re, pend, s),
           Head(s).pc \in Deferring
    PROVE  /\ dis # 0 /\ (run # None => on)
           /\ HostOK(h, run, cur, on, dis - 1, re, pend, Tail(s)) /\ Clear(Tail(s))
<1> DEFINE r == Tail(s)
<1>1. /\ Clear(r) /\ r \in Seq(Frames) /\ Head(s) \in Frames
      /\ \A i \in DOMAIN r : Own(h, r[i]) /\ r[i].pc \in Inner(run)
  BY TailClear
<1>2. Mode(h, run, cur, on, dis, re, s) /\ dis = Count(s)
  BY DEF HostOK
<1>3. Head(s).pc \notin KeyPCs(re) \cup LeaveFrames \cup Unready
  BY DEF Deferring, KeyPCs, LeaveFrames, Common, Unready
<1>4. (run # None => on) /\ Mode(h, run, cur, on, dis - 1, re, r)
  <2>1. \/ run = h /\ cur = h /\ on
        \/ run = None /\ cur = Idle /\ ~on /\ Shape(r, Unready, IdleFrames, Ordinary)
    BY <1>2, <1>3, TopMode
  <2> QED
    BY <2>1 DEF Mode
<1>5. s = <<Head(s)>> \o r
  OBVIOUS
<1> HIDE DEF r
<1>6. Count(s) = Count(r) + 1 /\ Count(r) \in Nat
  BY <1>1, <1>5, CountDefer, CountZero
<1>7. dis # 0 /\ dis - 1 = Count(r)
  BY <1>2, <1>6
<1>8. HostOK(h, run, cur, on, dis - 1, re, pend, r)
  BY <1>1, <1>4, <1>7 DEF HostOK, Clear
<1> QED
  BY <1>1, <1>4, <1>7, <1>8 DEF r

-----------------------------------------------------------------------------
(***************************************************************************)
(* The invariant.                                                          *)
(***************************************************************************)

\* The fiber on the CPU is in one of the three modes, with the stack that goes
\* with it; the other fibers are suspended in ordinary calls.
ControlOK ==
    /\ HostOK(host, running, current, state[host] = "running", disable, resched,
              links.pending, stack[host])
    /\ \A u \in Threads \ {host} : OtherOK(u, stack[u])
    /\ fiberThread \in {None, host}

\* Every thread is where its state says, only the running thread is in the
\* running state, the living have fibers and are listed.
RunningOne   == \A t \in Threads : state[t] = "running" => running = t /\ suspend[t] = 0
FiberByState == \A t \in Threads : ~ThreadStateIsTerminated(state[t]) => fiber[t] = "live"
ThreadsOK    == /\ AllPlaced(links, state, suspend, prio)
                /\ RunningOne /\ FiberByState /\ ThreadListExact

SchedInv == ControlOK /\ ThreadsOK

\* The types that the steps use.
LEMMA SchedTypes ==
    ASSUME KInv
    PROVE  /\ host \in Threads /\ resched \in BOOLEAN /\ disable \in Nat
           /\ running \in Threads \cup {None} /\ running # Idle
           /\ \A u \in Threads : stack[u] \in Seq(Frames)
           /\ stack \in [Threads -> Seq(GoodFrames)]
           /\ links \in Links
           /\ state \in [Threads -> States] /\ suspend \in [Threads -> Nat]
           /\ prio \in [Threads -> Nat] /\ prio \in [Threads -> 0 .. MaxPrio + 1]
           /\ base \in [Threads -> Prios]
<1>1. TypeOK
  BY DEF KInv
<1>2. stack \in [Threads -> Seq(GoodFrames)]
  BY <1>1, TypeStacks DEF Stacks
<1>3. ASSUME NEW u \in Threads
      PROVE  stack[u] \in Seq(Frames)
  <2>1. stack[u] \in Seq(GoodFrames)
    BY <1>2
  <2>2. GoodFrames \subseteq Frames
    BY DEF GoodFrames
  <2> QED
    BY <2>1, <2>2
<1>4. prio \in [Threads -> Nat]
  <2>1. 0 .. MaxPrio + 1 \subseteq Nat
    BY QueueConstants
  <2> QED
    BY <1>1, <2>1 DEF TypeOK
<1> QED
  BY <1>1, <1>2, <1>3, <1>4, KernelConstants DEF TypeOK

\* A step that leaves the threads and their queues alone.
LEMMA ThreadsSame ==
    ASSUME ThreadsOK, UNCHANGED <<state, suspend, prio, links, running, fiber, threadList>>
    PROVE  ThreadsOK'
BY DEF ThreadsOK, RunningOne, FiberByState, ThreadListExact

\* A step on the fiber on the CPU.
LEMMA ControlStep ==
    ASSUME ControlOK, host' = host, \A u \in Threads \ {host} : OtherOK(u, stack'[u]),
           fiberThread' \in {None, host},
           HostOK(host, running', current', state'[host] = "running", disable', resched',
                  links'.pending, stack'[host])
    PROVE  ControlOK'
BY DEF ControlOK

\* The frame on top returns or is followed by the frames fs.
LEMMA Continuing ==
    ASSUME KInv, ControlOK, stack[host] # <<>>,
           NEW fs \in Seq(MayPush(host, running, state[host] = "running")),
           Continue(fs) \/ (fs = <<>> /\ Return),
           Top.pc \notin Deferring \cup Unready,
           running # None /\ state[host] # "running" => Top.pc \notin KeyPCs(resched),
           UNCHANGED <<host, running, current, disable>>, resched' \in BOOLEAN,
           resched => resched', (state'[host] = "running") <=> (state[host] = "running"),
           fiberThread' \in {None, host}
    PROVE  ControlOK'
<1> DEFINE s == stack[host]
           on == state[host] = "running"
<1>0. host \in Threads /\ resched \in BOOLEAN /\ s \in Seq(Frames) /\ stack \in [Threads -> Seq(GoodFrames)]
  BY SchedTypes
<1>1. HostOK(host, running, current, on, disable, resched, links.pending, s)
  BY DEF ControlOK
<1>2. Head(s) = Top
  BY DEF Top
<1>3. HostOK(host, running, current, on, disable, resched, links.pending, Tail(s)) /\ Clear(Tail(s))
  <2> HIDE DEF s
  <2> QED
    BY <1>0, <1>1, <1>2, PopOK DEF s
<1>4. Tail(s) \in Seq(Frames)
  BY <1>0
<1>5. HostOK(host, running, current, on, disable, resched, links.pending, fs \o Tail(s))
        /\ Clear(fs \o Tail(s))
  BY <1>0, <1>3, <1>4, PushOK
<1>6. stack'[host] = fs \o Tail(s) /\ \A u \in Threads \ {host} : stack'[u] = stack[u]
  <2>1. CASE Continue(fs)
    BY <1>0, <2>1 DEF Continue
  <2>2. CASE fs = <<>> /\ Return
    <3>1. <<>> \o Tail(s) = Tail(s)
      BY <1>4
    <3> QED
      BY <1>0, <2>2, <3>1 DEF Return
  <2> QED
    BY <2>1, <2>2
<1>7. HostOK(host, running, current, on, disable, resched', links'.pending, fs \o Tail(s))
  BY <1>0, <1>5, RaiseOK
<1> HIDE DEF s
<1>8. HostOK(host, running', current', state'[host] = "running", disable', resched',
             links'.pending, stack'[host])
  <2>1. CASE state[host] = "running"
    BY <1>6, <1>7, <2>1
  <2>2. CASE state[host] # "running"
    BY <1>6, <1>7, <2>2
  <2> QED
    BY <2>1, <2>2
<1> QED
  BY <1>6, <1>8, ControlStep DEF ControlOK

\* A call is made from guest code, or on top of a frame that goes on later.
LEMMA Calling ==
    ASSUME KInv, ControlOK, Clear(stack[host]),
           NEW fs \in Seq(MayPush(host, running, state[host] = "running")),
           Call(fs) \/ (fs = <<>> /\ stack' = stack),
           UNCHANGED <<host, running, current, disable>>, resched' \in BOOLEAN,
           resched => resched', (state'[host] = "running") <=> (state[host] = "running"),
           fiberThread' \in {None, host}
    PROVE  ControlOK'
<1> DEFINE s == stack[host]
           on == state[host] = "running"
<1>0. host \in Threads /\ resched \in BOOLEAN /\ s \in Seq(Frames) /\ stack \in [Threads -> Seq(GoodFrames)]
  BY SchedTypes
<1>1. HostOK(host, running, current, on, disable, resched, links.pending, s)
  BY DEF ControlOK
<1>2. HostOK(host, running, current, on, disable, resched, links.pending, fs \o s)
        /\ Clear(fs \o s)
  BY <1>0, <1>1, PushOK
<1>3. stack'[host] = fs \o s /\ \A u \in Threads \ {host} : stack'[u] = stack[u]
  <2>1. <<>> \o s = s
    BY <1>0
  <2> QED
    BY <1>0, <2>1 DEF Call
<1>4. HostOK(host, running, current, on, disable, resched', links'.pending, fs \o s)
  BY <1>0, <1>2, RaiseOK
<1> HIDE DEF s
<1>5. HostOK(host, running', current', state'[host] = "running", disable', resched',
             links'.pending, stack'[host])
  <2>1. CASE state[host] = "running"
    BY <1>3, <1>4, <2>1
  <2>2. CASE state[host] # "running"
    BY <1>3, <1>4, <2>2
  <2> QED
    BY <2>1, <2>2
<1> QED
  BY <1>3, <1>5, ControlStep DEF ControlOK

\* The frames of a rescheduling call may be pushed in every mode.
CommonFrames == {f \in Frames : f.pc \in Common}

\* The frames of every kernel call may be pushed at any time.
LEMMA CommonMayPush ==
    ASSUME NEW h, NEW run, NEW on
    PROVE  CommonFrames \subseteq MayPush(h, run, on)
BY DEF CommonFrames, MayPush, Common, Own, Ordinary, Unready, Deferring, LeaveFrames, IdleFrames, PCs

\* When its thread is running, so may all ordinary frames of a fiber.
LEMMA RunningMayPush ==
    ASSUME NEW h \in Threads, NEW f \in Frames, Own(h, f), f.pc \in Ordinary
    PROVE  f \in MayPush(h, h, TRUE)
BY QueueConstants DEF MayPush

\* The frames pushed, by their function.
LEMMA PushedPCs ==
    /\ \A pc \in PCs : Frame(pc) \in Frames /\ Frame(pc).pc = pc
    /\ \A pc \in PCs : \A t \in Threads \cup {None} :
         On(pc, t) \in Frames /\ On(pc, t).pc = pc /\ On(pc, t).thr = t
    /\ \A pc \in PCs : \A q \in BlockQueues :
         OnQ(pc, q) \in Frames /\ OnQ(pc, q).pc = pc /\ OnQ(pc, q).que = q
    /\ \A pc \in PCs : \A b \in SUBSET Threads :
         Batch(pc, b) \in Frames /\ Batch(pc, b).pc = pc
    /\ \A b \in BOOLEAN : SelectThread(b) \in Frames /\ SelectThread(b).pc = "select"
<1>1. ASSUME NEW pc \in PCs
      PROVE  Frame(pc) \in Frames /\ Frame(pc).pc = pc
  BY FrameType
<1>2. ASSUME NEW pc \in PCs, NEW t \in Threads \cup {None}
      PROVE  On(pc, t) \in Frames /\ On(pc, t).pc = pc /\ On(pc, t).thr = t
  BY <1>1, With_thr DEF On
<1>3. ASSUME NEW pc \in PCs, NEW q \in BlockQueues
      PROVE  OnQ(pc, q) \in Frames /\ OnQ(pc, q).pc = pc /\ OnQ(pc, q).que = q
  BY <1>1, With_que DEF OnQ
<1>4. ASSUME NEW pc \in PCs, NEW b \in SUBSET Threads
      PROVE  Batch(pc, b) \in Frames /\ Batch(pc, b).pc = pc
  BY <1>1, With_batch DEF Batch
<1>5. ASSUME NEW b \in BOOLEAN
      PROVE  SelectThread(b) \in Frames /\ SelectThread(b).pc = "select"
  <2>1. "select" \in PCs
    BY DEF PCs
  <2> QED
    BY <1>1, <2>1, With_flag DEF SelectThread
<1> QED
  BY <1>1, <1>2, <1>3, <1>4, <1>5

\* What the frame on top says about the mode.
LEMMA ModeOf ==
    ASSUME KInv, ControlOK
    PROVE  /\ running \in {None, host} /\ (running = None => current = Idle)
           /\ (running = host => current = host)
           /\ (state[host] = "running" => running = host)
           /\ AtGuest => state[host] = "running"
           /\ \A pc : At(pc) =>
                /\ pc \notin KeyPCs(resched) \cup LeaveFrames => running = None \/ state[host] = "running"
                /\ pc \notin IdleFrames \cup Unready => running = host
                /\ running = host /\ state[host] # "running" => disable = 0
<1>1. /\ stack[host] \in Seq(Frames) /\ host \in Threads /\ host # None /\ running # Idle
      /\ Mode(host, running, current, state[host] = "running", disable, resched, stack[host])
  BY SchedTypes, QueueConstants DEF ControlOK, HostOK
<1>2. \/ running = host /\ current = host /\ state[host] = "running"
      \/ /\ stack[host] # <<>> /\ running = host /\ current = host /\ state[host] # "running"
         /\ disable = 0
         /\ Head(stack[host]).pc \in KeyPCs(resched) \cup LeaveFrames
      \/ /\ stack[host] # <<>> /\ running = None /\ current = Idle /\ state[host] # "running"
         /\ Head(stack[host]).pc \in Unready \cup IdleFrames
  <2> DEFINE on == state[host] = "running"
  <2>1. Mode(host, running, current, on, disable, resched, stack[host])
    BY <1>1
  <2> HIDE DEF on
  <2>2. \/ running = host /\ current = host /\ on
        \/ /\ stack[host] # <<>> /\ running = host /\ current = host /\ ~on
           /\ disable = 0
           /\ Head(stack[host]).pc \in KeyPCs(resched) \cup LeaveFrames
        \/ /\ stack[host] # <<>> /\ running = None /\ current = Idle /\ ~on
           /\ Head(stack[host]).pc \in Unready \cup IdleFrames
    BY <1>1, <2>1, TopMode
  <2> QED
    BY <2>2 DEF on
<1>3. ASSUME NEW pc, At(pc)
      PROVE  Head(stack[host]).pc = pc
  BY <1>3 DEF At, Top
<1>4. AtGuest => stack[host] = <<>>
  BY DEF AtGuest
<1> QED
  BY <1>1, <1>2, <1>3, <1>4

-----------------------------------------------------------------------------
(***************************************************************************)
(* The steps.                                                              *)
(***************************************************************************)

\* Frames that a loop keeps.
LEMMA KeptFrames ==
    ASSUME NEW f \in Frames
    PROVE  /\ \A b \in SUBSET Threads : /\ [f EXCEPT !.batch = b] \in Frames
                                        /\ [f EXCEPT !.batch = b].pc = f.pc
           /\ \A b \in BOOLEAN : /\ [f EXCEPT !.flag = b] \in Frames
                                 /\ [f EXCEPT !.flag = b].pc = f.pc
           /\ \A pc \in PCs : /\ [f EXCEPT !.pc = pc] \in Frames
                              /\ [f EXCEPT !.pc = pc].pc = pc
                              /\ [f EXCEPT !.pc = pc].thr = f.thr
BY With_batch, With_flag, With_pc

\* Short lists of such frames.
LEMMA CommonLists ==
    /\ <<>> \in Seq(CommonFrames)
    /\ \A f \in CommonFrames : <<f>> \in Seq(CommonFrames)
    /\ \A f, g \in CommonFrames : <<f, g>> \in Seq(CommonFrames)
OBVIOUS

\* The frames that the kernel calls of every kind push.
LEMMA CommonPushed ==
    /\ \A t \in Threads : On("resume", t) \in CommonFrames
    /\ \A t \in Threads \cup {None} : On("propagate", t) \in CommonFrames
    /\ \A b \in SUBSET Threads : Batch("fire", b) \in CommonFrames /\ Batch("heal", b) \in CommonFrames
    /\ Frame("resched") \in CommonFrames
    /\ \A b \in BOOLEAN : SelectThread(b) \in CommonFrames
    /\ \A q \in BlockQueues : OnQ("wake", q) \in CommonFrames
    /\ \A f \in CommonFrames : \A b \in SUBSET Threads : [f EXCEPT !.batch = b] \in CommonFrames
    /\ \A f \in CommonFrames : \A b \in BOOLEAN : [f EXCEPT !.flag = b] \in CommonFrames
<1>1. /\ \A pc \in Common : pc \in PCs
      /\ "resume" \in Common /\ "propagate" \in Common /\ "fire" \in Common /\ "heal" \in Common
      /\ "resched" \in Common /\ "select" \in Common /\ "wake" \in Common
  BY DEF Common, PCs
<1>2. \A t \in Threads \cup {None} : On("resume", t) \in CommonFrames /\ On("propagate", t) \in CommonFrames
  BY <1>1, PushedPCs DEF CommonFrames
<1>3. \A b \in SUBSET Threads : Batch("fire", b) \in CommonFrames /\ Batch("heal", b) \in CommonFrames
  BY <1>1, PushedPCs DEF CommonFrames
<1>4. Frame("resched") \in CommonFrames
  BY <1>1, PushedPCs DEF CommonFrames
<1>5. \A b \in BOOLEAN : SelectThread(b) \in CommonFrames
  BY <1>1, PushedPCs DEF CommonFrames
<1>6. \A q \in BlockQueues : OnQ("wake", q) \in CommonFrames
  BY <1>1, PushedPCs DEF CommonFrames
<1>7. ASSUME NEW f \in CommonFrames, NEW b \in SUBSET Threads
      PROVE  [f EXCEPT !.batch = b] \in CommonFrames
  <2> DEFINE g == [f EXCEPT !.batch = b]
  <2>1. g \in Frames /\ g.pc = f.pc
    BY With_batch DEF CommonFrames
  <2> HIDE DEF g
  <2> QED
    BY <2>1 DEF CommonFrames, g
<1>8. ASSUME NEW f \in CommonFrames, NEW b \in BOOLEAN
      PROVE  [f EXCEPT !.flag = b] \in CommonFrames
  <2> DEFINE g == [f EXCEPT !.flag = b]
  <2>1. g \in Frames /\ g.pc = f.pc
    BY With_flag DEF CommonFrames
  <2> HIDE DEF g
  <2> QED
    BY <2>1 DEF CommonFrames, g
<1> QED
  BY <1>2, <1>3, <1>4, <1>5, <1>6, <1>7, <1>8

\* The frame on top is followed by frames of a rescheduling call.
LEMMA CommonStep ==
    ASSUME KInv, ControlOK, NEW pc, At(pc), pc \notin Deferring \cup Unready,
           running # None /\ state[host] # "running" => pc \notin KeyPCs(resched),
           NEW fs \in Seq(CommonFrames), Continue(fs) \/ (fs = <<>> /\ Return),
           UNCHANGED <<host, running, current, disable, fiberThread>>, resched' \in BOOLEAN,
           resched => resched', (state'[host] = "running") <=> (state[host] = "running")
    PROVE  ControlOK'
<1>1. stack[host] # <<>> /\ Top.pc = pc
  BY DEF At
<1>2. fs \in Seq(MayPush(host, running, state[host] = "running"))
  BY CommonMayPush
<1> QED
  BY <1>1, <1>2, Continuing DEF ControlOK

\* Where a call can be made, no call that must stay on top is on the stack.
LEMMA ClearTop ==
    ASSUME KInv, ControlOK, AtGuest \/ \E pc : At(pc) /\ pc \notin {"suspend", "pick"}
    PROVE  Clear(stack[host])
<1>1. CASE AtGuest
  BY <1>1 DEF AtGuest, Clear
<1>2. CASE ~AtGuest
  <2>1. stack[host] \in Seq(Frames) /\ stack[host] # <<>> /\ Head(stack[host]).pc \notin {"suspend", "pick"}
    BY <1>2, SchedTypes DEF At, AtGuest, Top
  <2> DEFINE s == stack[host]
  <2>2. /\ s[1] = Head(s)
        /\ \A i \in DOMAIN s : i # 1 => s[i].pc \in Inner(running)
    BY <2>1, HeadTail DEF ControlOK, HostOK
  <2> HIDE DEF s
  <2> QED
    BY <2>1, <2>2 DEF Clear, Inner, Ordinary, Unready, Deferring, s
<1> QED
  BY <1>1, <1>2

\* Guest code, or a frame that goes on later, calls frames of a rescheduling call.
LEMMA CommonCall ==
    ASSUME KInv, ControlOK, AtGuest \/ \E pc : At(pc) /\ pc \notin {"suspend", "pick"},
           NEW fs \in Seq(CommonFrames), Call(fs) \/ (fs = <<>> /\ stack' = stack),
           UNCHANGED <<host, running, current, disable, fiberThread>>, resched' \in BOOLEAN,
           resched => resched', (state'[host] = "running") <=> (state[host] = "running")
    PROVE  ControlOK'
<1>1. fs \in Seq(MayPush(host, running, state[host] = "running"))
  BY CommonMayPush
<1> QED
  BY <1>1, ClearTop, Calling DEF ControlOK

\* Nothing but the stacks, the timers and the alarms changes.
Calm == UNCHANGED <<state, suspend, prio, links, running, fiber, threadList, host, current,
                    disable, fiberThread, resched>>

\* The steps that touch neither the threads nor the queues.
LEMMA CalmActions ==
    /\ (FireTimer \/ FireDone \/ Reconcile \/ HealStrandedSleeper \/ WakeDone) => Calm
    /\ (SelectEnter \/ ScheduleReturn \/ Reschedule) => Calm
    /\ (IdlePump \/ IdleAlarms \/ IdleExit) => Calm
    /\ (ProcessAlarmQueue \/ HandlerReturn \/ AlarmsDone) => Calm
    /\ (OSYieldThread \/ OSProcessAlarms \/ OSSleepTicks) => Calm
    /\ \A a \in Alarms : (OSSetAlarm(a) \/ OSSetPeriodicAlarm(a)) => Calm
    /\ \A m \in Mutexes : OSLockMutex(m) => Calm
    /\ \A w \in WaitQueues : (OSSleepThread(w) \/ OSWakeupThread(w)) => Calm
    /\ \A t \in Threads : (OSSuspendThread(t) \/ OSResumeThread(t)) => Calm
    /\ (LockMutex \/ RelockMutex \/ UnlockAllMutex) => Calm
<1> USE DEF Calm, threadVars, listVars, schedVars, fiberVars
<1>1. (FireTimer \/ FireDone \/ Reconcile \/ HealStrandedSleeper \/ WakeDone) => Calm
  BY DEF FireTimer, FireDone, Reconcile, HealStrandedSleeper, WakeDone
<1>2. (SelectEnter \/ ScheduleReturn \/ Reschedule) => Calm
  BY DEF SelectEnter, ScheduleReturn, Reschedule
<1>3. (IdlePump \/ IdleAlarms \/ IdleExit) => Calm
  BY DEF IdlePump, IdleAlarms, IdleExit
<1>4. (ProcessAlarmQueue \/ HandlerReturn \/ AlarmsDone) => Calm
  BY DEF ProcessAlarmQueue, HandlerReturn, AlarmsDone
<1>5. (OSYieldThread \/ OSProcessAlarms \/ OSSleepTicks) => Calm
  BY DEF OSYieldThread, OSProcessAlarms, OSSleepTicks
<1>6. \A a \in Alarms : (OSSetAlarm(a) \/ OSSetPeriodicAlarm(a)) => Calm
  BY DEF OSSetAlarm, OSSetPeriodicAlarm, SetAlarm
<1>7. \A m \in Mutexes : OSLockMutex(m) => Calm
  BY DEF OSLockMutex
<1>8. \A w \in WaitQueues : (OSSleepThread(w) \/ OSWakeupThread(w)) => Calm
  BY DEF OSSleepThread, OSWakeupThread
<1>9. \A t \in Threads : (OSSuspendThread(t) \/ OSResumeThread(t)) => Calm
  BY DEF OSSuspendThread, OSResumeThread
<1>10. (LockMutex \/ RelockMutex \/ UnlockAllMutex) => Calm
  BY DEF LockMutex, RelockMutex, UnlockAllMutex
<1> QED
  BY <1>1, <1>2, <1>3, <1>4, <1>5, <1>6, <1>7, <1>8, <1>9, <1>10

\* After such a step only the control is left to be looked at.
LEMMA CalmStep ==
    ASSUME SchedInv, Calm, ControlOK'
    PROVE  SchedInv'
BY ThreadsSame DEF SchedInv, Calm

\* The steps of the sleep timers, the end of a wakeup and a reschedule that is
\* not needed.
LEMMA TimerControl ==
    ASSUME KInv, SchedInv
    PROVE  /\ FireTimer => SchedInv'
           /\ FireDone => SchedInv'
           /\ Reconcile => SchedInv'
           /\ HealStrandedSleeper => SchedInv'
           /\ WakeDone => SchedInv'
<1>0. ControlOK /\ ThreadsOK /\ stack \in Stacks /\ host \in Threads /\ resched \in BOOLEAN
  BY TypeStacks, SchedTypes DEF SchedInv, KInv
<1>1. /\ "fire" \notin Deferring \cup Unready \cup KeyPCs(resched)
      /\ "heal" \notin Deferring \cup Unready \cup KeyPCs(resched)
      /\ "wake" \notin Deferring \cup Unready \cup KeyPCs(resched)
      /\ "fire" \in PCs /\ "heal" \in PCs /\ "resume" \in PCs
      /\ "fire" \in Common /\ "heal" \in Common /\ "resume" \in Common /\ "select" \in Common
  BY DEF Deferring, Unready, KeyPCs, PCs, Common
<1>2. ASSUME FireTimer
      PROVE  SchedInv'
  <2>1. At("fire") /\ Top \in Frames /\ Top.pc = "fire"
    BY <1>0, <1>2, TopType DEF FireTimer
  <2>2. PICK t \in Top.batch :
            LET rest == [Top EXCEPT !.batch = @ \ {t}]
            IN  Continue(<<rest>>) \/ Continue(<<On("resume", t), rest>>)
    BY <1>2 DEF FireTimer
  <2>3. t \in Threads /\ Top.batch \ {t} \in SUBSET Threads
    BY <2>1 DEF Frames
  <2>4. [Top EXCEPT !.batch = @ \ {t}] \in CommonFrames /\ On("resume", t) \in CommonFrames
    <3>1. Top \in CommonFrames
      BY <1>1, <2>1 DEF CommonFrames
    <3> QED
      BY <2>3, <3>1, CommonPushed
  <2>5. \E fs \in Seq(CommonFrames) : Continue(fs)
    BY <2>2, <2>4, CommonLists
  <2>6. Calm
    BY <1>2, CalmActions
  <2>7. ControlOK'
    BY <1>0, <1>1, <2>1, <2>5, <2>6, CommonStep DEF Calm
  <2> QED
    BY <2>6, <2>7, CalmStep
<1>3. ASSUME FireDone
      PROVE  SchedInv'
  <2>1. At("fire") /\ Return
    BY <1>3 DEF FireDone
  <2>2. Calm
    BY <1>3, CalmActions
  <2>3. ControlOK'
    BY <1>0, <1>1, <2>1, <2>2, CommonLists, CommonStep DEF Calm
  <2> QED
    BY <2>2, <2>3, CalmStep
<1>4. ASSUME Reconcile
      PROVE  SchedInv'
  <2>1. At("fire") /\ \E heal \in SUBSET Threads : Continue(<<Batch("heal", heal)>>)
    BY <1>4 DEF Reconcile, KInv, TypeOK
  <2>2. \E fs \in Seq(CommonFrames) : Continue(fs)
    BY <2>1, CommonPushed, CommonLists
  <2>3. Calm
    BY <1>4, CalmActions
  <2>4. ControlOK'
    BY <1>0, <1>1, <2>1, <2>2, <2>3, CommonStep DEF Calm
  <2> QED
    BY <2>3, <2>4, CalmStep
<1>5. ASSUME HealStrandedSleeper
      PROVE  SchedInv'
  <2>1. At("heal") /\ Top \in Frames /\ Top.pc = "heal"
    BY <1>0, <1>5, TopType DEF HealStrandedSleeper
  <2>2. Calm
    BY <1>5, CalmActions
  <2>3. CASE Return
    BY <1>0, <1>1, <2>1, <2>2, <2>3, CommonLists, CommonStep, CalmStep DEF Calm
  <2>4. ASSUME NEW t \in Top.batch,
               Continue(<<On("resume", t), [Top EXCEPT !.batch = @ \ {t}]>>)
        PROVE  SchedInv'
    <3>1. t \in Threads /\ Top.batch \ {t} \in SUBSET Threads
      BY <2>1 DEF Frames
    <3>2. [Top EXCEPT !.batch = @ \ {t}] \in CommonFrames /\ On("resume", t) \in CommonFrames
      <4>1. Top \in CommonFrames
        BY <1>1, <2>1 DEF CommonFrames
      <4> QED
        BY <3>1, <4>1, CommonPushed
    <3>3. \E fs \in Seq(CommonFrames) : Continue(fs)
      BY <2>4, <3>2, CommonLists
    <3>4. ControlOK'
      BY <1>0, <1>1, <2>1, <2>2, <3>3, CommonStep DEF Calm
    <3> QED
      BY <2>2, <3>4, CalmStep
  <2> QED
    BY <1>5, <2>3, <2>4 DEF HealStrandedSleeper
<1>6. ASSUME WakeDone
      PROVE  SchedInv'
  <2>1. At("wake") /\ \E fs \in {<<SelectThread(FALSE)>>, <<>>} : Continue(fs)
    BY <1>6 DEF WakeDone
  <2>2. SelectThread(FALSE) \in CommonFrames
    BY CommonPushed
  <2>3. \E fs \in Seq(CommonFrames) : Continue(fs)
    BY <2>1, <2>2, CommonLists
  <2>4. Calm
    BY <1>6, CalmActions
  <2>5. ControlOK'
    BY <1>0, <1>1, <2>1, <2>3, <2>4, CommonStep DEF Calm
  <2> QED
    BY <2>4, <2>5, CalmStep
<1> QED
  BY <1>2, <1>3, <1>4, <1>5, <1>6

\* A call that leads to a switch goes on to the next one.
LEMMA KeyStep ==
    ASSUME KInv, ControlOK, NEW pc, At(pc), pc \in KeyPCs(resched) \ {"pick"},
           NEW g \in Frames, g.pc \in {"select", "schedule"},
           Continue(<<g>>) \/ \E a \in CommonFrames : Continue(<<a, g>>),
           UNCHANGED <<host, running, current, disable, fiberThread, state>>
    PROVE  ControlOK'
<1> DEFINE s == stack[host]
           r == Tail(s)
           on == state[host] = "running"
<1>0. /\ host \in Threads /\ s \in Seq(Frames) /\ s # <<>> /\ Head(s).pc = pc
      /\ stack \in [Threads -> Seq(GoodFrames)]
  BY SchedTypes DEF At, Top
<1>1. HostOK(host, running, current, on, disable, resched, links.pending, s)
  BY DEF ControlOK
<1>2. r \in Seq(Frames)
  BY <1>0
<1> HIDE DEF s, on
<1>3. HostOK(host, running, current, on, disable, resched', links'.pending, <<g>> \o r)
        /\ Clear(<<g>> \o r)
  BY <1>0, <1>1, KeyOK
<1>4. CASE Continue(<<g>>)
  <2>1. stack'[host] = <<g>> \o r /\ \A u \in Threads \ {host} : stack'[u] = stack[u]
    BY <1>0, <1>4 DEF Continue, s
  <2> QED
    BY <1>3, <2>1, ControlStep DEF ControlOK, on
<1>5. ASSUME NEW a \in CommonFrames, Continue(<<a, g>>)
      PROVE  ControlOK'
  <2>1. stack'[host] = <<a, g>> \o r /\ \A u \in Threads \ {host} : stack'[u] = stack[u]
    BY <1>0, <1>5 DEF Continue, s
  <2>2. <<a>> \o (<<g>> \o r) = <<a, g>> \o r
    <3>1. a \in Frames
      BY DEF CommonFrames
    <3> QED
      BY <1>2, <3>1
  <2>3. <<g>> \o r \in Seq(Frames) /\ <<a>> \in Seq(MayPush(host, running, on))
    BY <1>2, CommonMayPush
  <2>4. HostOK(host, running, current, on, disable, resched', links'.pending, <<a>> \o (<<g>> \o r))
    BY <1>0, <1>3, <2>3, PushOK
  <2> QED
    BY <2>1, <2>2, <2>4, ControlStep DEF ControlOK, on
<1> QED
  BY <1>4, <1>5

\* SelectThread is entered, or returns because it cannot switch.
LEMMA SelectControl ==
    ASSUME KInv, SchedInv
    PROVE  /\ SelectEnter => SchedInv'
           /\ ScheduleReturn => SchedInv'
           /\ Reschedule => SchedInv'
           /\ Exited => SchedInv'
<1>0. ControlOK /\ ThreadsOK /\ stack \in Stacks /\ host \in Threads /\ resched \in BOOLEAN
  BY TypeStacks, SchedTypes DEF SchedInv, KInv
<1>1. SelectThread(FALSE) \in CommonFrames /\ SelectThread(FALSE) \in Frames
        /\ SelectThread(FALSE).pc = "select"
  BY CommonPushed, PushedPCs
<1>2. ASSUME SelectEnter
      PROVE  SchedInv'
  <2>1. At("select") /\ Top \in Frames /\ Calm
    BY <1>0, <1>2, TopType, CalmActions DEF SelectEnter
  <2>2. \E due \in SUBSET Threads :
           Continue(<<Batch("fire", due), [Top EXCEPT !.pc = "schedule"]>>)
    BY <1>2 DEF SelectEnter, KInv, TypeOK
  <2> DEFINE g == [Top EXCEPT !.pc = "schedule"]
  <2>3. g \in Frames /\ g.pc = "schedule"
    <3>1. "schedule" \in PCs
      BY DEF PCs
    <3> QED
      BY <2>1, <3>1, With_pc
  <2> HIDE DEF g
  <2>4. \E a \in CommonFrames : Continue(<<a, g>>)
    BY <2>2, CommonPushed DEF g
  <2>5. "select" \in KeyPCs(resched) \ {"pick"}
    BY DEF KeyPCs
  <2>6. ControlOK'
    BY <1>0, <2>1, <2>3, <2>4, <2>5, KeyStep DEF Calm
  <2> QED
    BY <2>1, <2>6, CalmStep
<1>3. ASSUME ScheduleReturn
      PROVE  SchedInv'
  <2>1. At("schedule") /\ Calm /\ Return /\ (CannotSwitch \/ KeepsRunning)
    BY <1>3, CalmActions DEF ScheduleReturn
  <2>2. running # None => state[host] = "running"
    BY <1>0, <2>1, ModeOf, SchedTypes DEF CannotSwitch, KeepsRunning
  <2>3. "schedule" \notin Deferring \cup Unready
    BY DEF Deferring, Unready
  <2>4. ControlOK'
    BY <1>0, <2>1, <2>2, <2>3, CommonLists, CommonStep DEF Calm
  <2> QED
    BY <2>1, <2>4, CalmStep
<1>4. ASSUME Reschedule
      PROVE  SchedInv'
  <2>1. At("resched") /\ Calm
    BY <1>4, CalmActions DEF Reschedule
  <2>2. CASE resched
    <3>1. Continue(<<SelectThread(FALSE)>>)
      BY <1>4, <2>2 DEF Reschedule
    <3>2. "resched" \in KeyPCs(resched) \ {"pick"}
      BY <2>2 DEF KeyPCs
    <3>3. ControlOK'
      BY <1>0, <1>1, <2>1, <3>1, <3>2, KeyStep DEF Calm
    <3> QED
      BY <2>1, <3>3, CalmStep
  <2>3. CASE ~resched
    <3>1. Continue(<<>>)
      BY <1>4, <2>3 DEF Reschedule
    <3>2. "resched" \notin KeyPCs(resched) \cup Deferring \cup Unready
      BY <2>3 DEF KeyPCs, Deferring, Unready
    <3>3. ControlOK'
      BY <1>0, <2>1, <3>1, <3>2, CommonLists, CommonStep DEF Calm
    <3> QED
      BY <2>1, <3>3, CalmStep
  <2> QED
    BY <1>0, <2>2, <2>3
<1>5. ASSUME Exited
      PROVE  SchedInv'
  <2>1. /\ At("exited") /\ Continue(<<SelectThread(FALSE)>>) /\ resched' = TRUE
        /\ UNCHANGED <<state, suspend, prio, links, running, fiber, threadList, host, current,
                       disable, fiberThread>>
    BY <1>5 DEF Exited, threadVars, listVars, schedVars, fiberVars
  <2>2. "exited" \in KeyPCs(resched) \ {"pick"}
    BY DEF KeyPCs
  <2>3. ControlOK'
    BY <1>0, <1>1, <2>1, <2>2, KeyStep
  <2> QED
    BY <1>0, <2>1, <2>3, ThreadsSame DEF SchedInv
<1> QED
  BY <1>2, <1>3, <1>4, <1>5

\* The frames of the alarm pump, when the thread on the CPU is not leaving it.
LEMMA PumpMayPush ==
    ASSUME NEW h, NEW run, NEW on, run # None => on,
           NEW pc \in {"alarms", "alarmLoop", "handler"}
    PROVE  Frame(pc) \in MayPush(h, run, on)
<1>1. pc \in PCs /\ pc \in Ordinary /\ pc \in IdleFrames /\ pc \notin {"slept", "ticked", "lock", "relock"}
  BY DEF PCs, Ordinary, IdleFrames, Unready, Deferring
<1>2. Frame(pc) \in Frames /\ Frame(pc).pc = pc
  BY <1>1, PushedPCs
<1> QED
  BY <1>1, <1>2 DEF MayPush, Own

\* The alarm pump, up to the handlers it calls.
LEMMA PumpControl ==
    ASSUME KInv, SchedInv
    PROVE  /\ ProcessAlarmQueue => SchedInv'
           /\ HandlerReturn => SchedInv'
           /\ AlarmsDone => SchedInv'
           /\ OSProcessAlarms => SchedInv'
<1>0. ControlOK /\ ThreadsOK /\ stack \in Stacks /\ host \in Threads /\ resched \in BOOLEAN
  BY TypeStacks, SchedTypes DEF SchedInv, KInv
<1> DEFINE on == state[host] = "running"
<1>1. \A pc \in {"alarms", "alarmLoop", "handler"} :
        /\ pc \notin KeyPCs(resched) \cup LeaveFrames \cup Deferring \cup Unready
        /\ pc \notin {"suspend", "pick"}
  BY DEF KeyPCs, LeaveFrames, Common, Deferring, Unready
<1>2. \A pc \in {"alarms", "alarmLoop", "handler"} : At(pc) => (running # None => state[host] = "running")
  BY <1>0, <1>1, ModeOf
<1>3. ASSUME ProcessAlarmQueue
      PROVE  SchedInv'
  <2>1. /\ At("alarms") /\ Calm /\ stack[host] # <<>> /\ Top.pc = "alarms"
        /\ Return \/ Continue(<<Frame("alarmLoop")>>)
    BY <1>3, CalmActions DEF ProcessAlarmQueue, At
  <2>2. Frame("alarmLoop") \in MayPush(host, running, on)
    BY <1>2, <2>1, PumpMayPush
  <2>3. <<>> \in Seq(MayPush(host, running, on)) /\ <<Frame("alarmLoop")>> \in Seq(MayPush(host, running, on))
    BY <2>2
  <2>4. ControlOK'
    BY <1>0, <1>1, <2>1, <2>3, Continuing DEF Calm, ControlOK
  <2> QED
    BY <2>1, <2>4, CalmStep
<1>4. ASSUME HandlerReturn \/ AlarmsDone
      PROVE  SchedInv'
  <2>1. (At("handler") \/ At("alarmLoop")) /\ Return /\ Calm
    BY <1>4, CalmActions DEF HandlerReturn, AlarmsDone, AtHandler
  <2>2. ControlOK'
    BY <1>0, <1>1, <2>1, CommonLists, CommonStep DEF Calm
  <2> QED
    BY <2>1, <2>2, CalmStep
<1>5. ASSUME OSProcessAlarms
      PROVE  SchedInv'
  <2>1. Calm /\ (AtGuest \/ At("handler")) /\ Call(<<Frame("alarms")>>)
    BY <1>5, CalmActions DEF OSProcessAlarms, MayCall, AtHandler
  <2>2. Clear(stack[host])
    BY <1>0, <1>1, <2>1, ClearTop
  <2>3. Frame("alarms") \in MayPush(host, running, on)
    BY <1>0, <1>2, <2>1, PumpMayPush, ModeOf
  <2>4. <<Frame("alarms")>> \in Seq(MayPush(host, running, on))
    BY <2>3
  <2>5. ControlOK'
    BY <1>0, <2>1, <2>2, <2>4, Calling DEF Calm, ControlOK
  <2> QED
    BY <2>1, <2>5, CalmStep
<1> QED
  BY <1>3, <1>4, <1>5

\* Thread switches are held back, and allowed again.
LEMMA DeferControl ==
    ASSUME KInv, SchedInv
    PROVE  /\ FireAlarm => SchedInv'
           /\ OSProcessAlarmsDeferred => SchedInv'
           /\ AlarmTail => SchedInv'
           /\ Undefer => SchedInv'
<1> DEFINE s == stack[host]
           on == state[host] = "running"
<1>0. /\ ControlOK /\ ThreadsOK /\ stack \in [Threads -> Seq(GoodFrames)] /\ host \in Threads
      /\ resched \in BOOLEAN /\ disable \in Nat /\ s \in Seq(Frames)
  BY SchedTypes DEF SchedInv
<1>1. HostOK(host, running, current, on, disable, resched, links.pending, s)
  BY <1>0 DEF ControlOK
<1>2. ASSUME NEW pc \in {"handler", "alarms"}, NEW tail \in Deferring,
             AtGuest \/ At("handler") \/ At("alarmLoop"),
             disable' = disable + 1, Call(<<Frame(pc), Frame(tail)>>),
             UNCHANGED <<state, suspend, prio, links, running, fiber, threadList, host, current,
                         fiberThread, resched>>
      PROVE  SchedInv'
  <2>1. /\ "handler" \notin KeyPCs(resched) \cup LeaveFrames \cup {"suspend", "pick"}
        /\ "alarmLoop" \notin KeyPCs(resched) \cup LeaveFrames \cup {"suspend", "pick"}
        /\ tail \in PCs /\ pc \in PCs
    BY DEF KeyPCs, LeaveFrames, Common, Deferring, PCs
  <2>2. (running # None => on) /\ Clear(s)
    BY <1>0, <1>2, <2>1, ModeOf, ClearTop
  <2>3. Frame(tail) \in Frames /\ Frame(tail).pc \in Deferring /\ Frame(pc) \in Frames
    BY <2>1, PushedPCs
  <2> HIDE DEF s, on
  <2>4. HostOK(host, running, current, on, disable + 1, resched, links.pending, <<Frame(tail)>> \o s)
          /\ Clear(<<Frame(tail)>> \o s)
    BY <1>0, <1>1, <2>2, <2>3, DeferOK
  <2>5. <<Frame(tail)>> \o s \in Seq(Frames) /\ <<Frame(pc)>> \in Seq(MayPush(host, running, on))
    BY <1>0, <1>2, <2>2, <2>3, PumpMayPush
  <2>6. HostOK(host, running, current, on, disable + 1, resched, links.pending,
               <<Frame(pc)>> \o (<<Frame(tail)>> \o s))
    BY <1>0, <2>4, <2>5, PushOK
  <2>7. <<Frame(pc)>> \o (<<Frame(tail)>> \o s) = <<Frame(pc), Frame(tail)>> \o s
    BY <1>0, <2>3
  <2>8. stack'[host] = <<Frame(pc), Frame(tail)>> \o s /\ \A u \in Threads \ {host} : stack'[u] = stack[u]
    BY <1>0, <1>2 DEF Call, s
  <2>9. ControlOK'
    BY <1>0, <1>2, <2>6, <2>7, <2>8, ControlStep DEF ControlOK, on
  <2> QED
    BY <1>0, <1>2, <2>9, ThreadsSame DEF SchedInv
<1>3. ASSUME FireAlarm
      PROVE  SchedInv'
  BY <1>2, <1>3 DEF FireAlarm, Deferring, threadVars, listVars, fiberVars
<1>4. ASSUME OSProcessAlarmsDeferred
      PROVE  SchedInv'
  BY <1>2, <1>4 DEF OSProcessAlarmsDeferred, MayCall, AtHandler, Deferring, threadVars, listVars, fiberVars
<1>5. ASSUME NEW pc \in Deferring, At(pc), Decrement,
             Return \/ (\E fs \in {<<SelectThread(FALSE)>>, <<>>} : Continue(fs)),
             UNCHANGED <<state, suspend, prio, links, running, fiber, threadList, host, current,
                         fiberThread, resched>>
      PROVE  SchedInv'
  <2>1. s # <<>> /\ Head(s).pc \in Deferring
    BY <1>5 DEF At, Top
  <2> HIDE DEF s, on
  <2>2. /\ disable # 0 /\ Tail(s) \in Seq(Frames)
        /\ HostOK(host, running, current, on, disable - 1, resched, links.pending, Tail(s))
        /\ Clear(Tail(s))
    <3>1. Tail(s) \in Seq(Frames)
      BY <1>0, <2>1
    <3> QED
      BY <1>0, <1>1, <2>1, <3>1, UndeferOK
  <2>3. disable' = disable - 1
    BY <1>5, <2>2 DEF Decrement
  <2>4. PICK fs \in Seq(CommonFrames) :
          stack'[host] = fs \o Tail(s) /\ \A u \in Threads \ {host} : stack'[u] = stack[u]
    <3>1. SelectThread(FALSE) \in CommonFrames /\ <<>> \o Tail(s) = Tail(s)
      <4>1. <<>> \o Tail(s) = Tail(s)
        BY <2>2
      <4> QED
        BY <4>1, CommonPushed
    <3>2. CASE Return
      BY <1>0, <3>1, <3>2, CommonLists DEF Return, s
    <3>3. ASSUME NEW fs \in {<<SelectThread(FALSE)>>, <<>>}, Continue(fs)
          PROVE  /\ fs \in Seq(CommonFrames)
                 /\ stack'[host] = fs \o Tail(s) /\ \A u \in Threads \ {host} : stack'[u] = stack[u]
      BY <1>0, <3>1, <3>3, CommonLists DEF Continue, s
    <3> QED
      BY <1>5, <3>2, <3>3
  <2>5. fs \in Seq(MayPush(host, running, on))
    BY CommonMayPush
  <2>6. HostOK(host, running, current, on, disable', resched, links.pending, fs \o Tail(s))
    BY <1>0, <2>2, <2>3, <2>5, PushOK
  <2>7. ControlOK'
    BY <1>0, <1>5, <2>4, <2>6, ControlStep DEF ControlOK, on
  <2> QED
    BY <1>0, <1>5, <2>7, ThreadsSame DEF SchedInv
<1>6. ASSUME AlarmTail
      PROVE  SchedInv'
  <2>1. \E fs \in {<<SelectThread(FALSE)>>, <<>>} : Continue(fs)
    BY <1>6 DEF AlarmTail
  <2> QED
    BY <1>5, <1>6, <2>1 DEF AlarmTail, Deferring, threadVars, listVars, fiberVars
<1>7. ASSUME Undefer
      PROVE  SchedInv'
  BY <1>5, <1>7 DEF Undefer, Deferring, threadVars, listVars, fiberVars
<1> QED
  BY <1>3, <1>4, <1>6, <1>7

\* A suspension is about to start: it is on top, and nothing holds switches back.
LEMMA SuspendOK ==
    ASSUME NEW h \in Threads, NEW run, NEW cur, NEW on, NEW re, NEW pend,
           NEW s \in Seq(Frames), HostOK(h, run, cur, on, 0, re, pend, s), Clear(s), on, run = h,
           NEW f \in Frames, f.pc = "suspend"
    PROVE  HostOK(h, run, cur, on, 0, re, pend, <<f>> \o s)
<1> DEFINE u == <<f>> \o s
<1>1. Mode(h, run, cur, on, 0, re, u)
  BY QueueConstants DEF HostOK, Mode
<1>2. Count(u) = Count(s)
  <2>1. <<f>> \in Seq(Frames) /\ \A i \in DOMAIN <<f>> : <<f>>[i].pc \notin Deferring
    BY DEF Deferring
  <2> QED
    BY <2>1, CountPush
<1>3. /\ DOMAIN u = 1 .. 1 + Len(s) /\ Len(s) \in Nat /\ u[1] = f
      /\ \A i \in DOMAIN u : i # 1 => i - 1 \in DOMAIN s /\ u[i] = s[i - 1]
  OBVIOUS
<1> HIDE DEF u
<1>4. \A i \in DOMAIN s : Own(h, s[i]) /\ s[i].pc \in Inner(run) /\ s[i].pc \notin {"suspend", "pick"}
  BY DEF HostOK, Clear
<1>5. Own(h, f)
  BY DEF Own
<1>6. HostOK(h, run, cur, on, 0, re, pend, u)
  BY <1>1, <1>2, <1>3, <1>4, <1>5 DEF HostOK
<1> QED
  BY <1>6 DEF u

\* Guest code suspends a thread, its own or, with OSSleepTicks, itself.
LEMMA SuspendCall ==
    ASSUME KInv, SchedInv, Calm, state[host] = "running", disable = 0, Clear(stack[host]),
           NEW t \in Threads,
           Call(<<On("suspend", t)>>) \/ (t = host /\ Call(<<On("suspend", t), On("ticked", t)>>))
    PROVE  SchedInv'
<1> DEFINE s == stack[host]
           on == state[host] = "running"
<1>0. /\ ControlOK /\ stack \in [Threads -> Seq(GoodFrames)] /\ host \in Threads
      /\ s \in Seq(Frames) /\ running = host /\ on
  BY SchedTypes, ModeOf DEF SchedInv
<1>1. HostOK(host, running, current, on, 0, resched, links.pending, s)
  BY <1>0 DEF ControlOK
<1>2. /\ On("suspend", t) \in Frames /\ On("suspend", t).pc = "suspend"
      /\ On("ticked", t) \in Frames /\ On("ticked", t).pc = "ticked" /\ On("ticked", t).thr = t
  BY PushedPCs DEF PCs
<1> HIDE DEF s
<1>3. CASE Call(<<On("suspend", t)>>)
  <2>1. HostOK(host, running, current, on, 0, resched, links.pending, <<On("suspend", t)>> \o s)
    BY <1>0, <1>1, <1>2, SuspendOK DEF s
  <2>2. stack'[host] = <<On("suspend", t)>> \o s /\ \A u \in Threads \ {host} : stack'[u] = stack[u]
    BY <1>0, <1>3 DEF Call, s
  <2>3. ControlOK'
    BY <1>0, <2>1, <2>2, ControlStep DEF ControlOK, Calm
  <2> QED
    BY <2>3, CalmStep
<1>4. CASE t = host /\ Call(<<On("suspend", t), On("ticked", t)>>)
  <2> DEFINE r == <<On("ticked", t)>> \o s
  <2>1. On("ticked", t) \in MayPush(host, running, on)
    <3>1. Own(host, On("ticked", t)) /\ On("ticked", t).pc \in Ordinary
      BY <1>2, <1>4 DEF Own, Ordinary, Unready, Deferring, PCs
    <3> QED
      BY <1>0, <1>2, <3>1, QueueConstants DEF MayPush
  <2>2. <<On("ticked", t)>> \in Seq(MayPush(host, running, on)) /\ r \in Seq(Frames)
    BY <1>0, <1>2, <2>1
  <2>3. HostOK(host, running, current, on, 0, resched, links.pending, r) /\ Clear(r)
    BY <1>0, <1>1, <2>2, PushOK DEF s
  <2>4. <<On("suspend", t)>> \o r = <<On("suspend", t), On("ticked", t)>> \o s
    BY <1>0, <1>2
  <2> HIDE DEF r
  <2>5. HostOK(host, running, current, on, 0, resched, links.pending, <<On("suspend", t)>> \o r)
    BY <1>0, <1>2, <2>2, <2>3, SuspendOK
  <2>6. /\ stack'[host] = <<On("suspend", t), On("ticked", t)>> \o s
        /\ \A u \in Threads \ {host} : stack'[u] = stack[u]
    BY <1>0, <1>4 DEF Call, s
  <2>7. ControlOK'
    BY <1>0, <2>4, <2>5, <2>6, ControlStep DEF ControlOK, Calm
  <2> QED
    BY <2>7, CalmStep
<1> QED
  BY <1>3, <1>4

-----------------------------------------------------------------------------
(***************************************************************************)
(* The contract of the guest program.  A thread ends with OSExitThread, as *)
(* the entry functions the runtime starts do, and an alarm handler makes   *)
(* none of the calls that block or end a thread: it runs on the fiber of   *)
(* whichever thread was interrupted, or of the idle loop's.                *)
(***************************************************************************)
GuestContract ==
    /\ \A t \in Threads : "return" \notin ThreadCalls[t]
    /\ HandlerCalls \cap {"sleep", "join", "suspend", "cancel", "cancelSelf", "exit"} = {}

\* The frame of OSLockMutex.
LEMMA LockFrame ==
    ASSUME NEW t \in Threads, NEW m \in Mutexes
    PROVE  Lock(t, m) \in Frames /\ Lock(t, m).pc = "lock" /\ Lock(t, m).thr = t
<1> DEFINE e == Frame("lock")
           a == [e EXCEPT !.thr = t]
           g == [a EXCEPT !.mut = m]
<1>1. Lock(t, m) = g
  BY DEF Lock
<1>2. e \in Frames /\ e.pc = "lock"
  <2>1. "lock" \in PCs
    BY DEF PCs
  <2> QED
    BY <2>1, FrameType
<1> HIDE DEF e
<1>3. a \in Frames /\ a.pc = "lock" /\ a.thr = t
  BY <1>2, With_thr
<1> HIDE DEF a
<1>4. g \in Frames /\ g.pc = "lock" /\ g.thr = t
  BY <1>3, With_mut
<1> QED
  BY <1>1, <1>4

\* Guest code's calls that only push frames.
LEMMA CallControl ==
    ASSUME KInv, SchedInv, GuestContract
    PROVE  /\ \A a \in Alarms : OSSetAlarm(a) \/ OSSetPeriodicAlarm(a) => SchedInv'
           /\ OSYieldThread => SchedInv'
           /\ \A w \in WaitQueues : OSWakeupThread(w) => SchedInv'
           /\ \A t \in Threads : OSResumeThread(t) => SchedInv'
           /\ \A m \in Mutexes : OSLockMutex(m) => SchedInv'
           /\ \A w \in WaitQueues : OSSleepThread(w) => SchedInv'
           /\ \A t \in Threads : OSSuspendThread(t) => SchedInv'
           /\ OSSleepTicks => SchedInv'
<1> DEFINE on == state[host] = "running"
<1>0. /\ ControlOK /\ ThreadsOK /\ host \in Threads /\ resched \in BOOLEAN /\ stack[host] \in Seq(Frames)
      /\ stack \in [Threads -> Seq(GoodFrames)]
  BY SchedTypes DEF SchedInv
<1>1. \A c : MayCall(c) => AtGuest \/ At("handler")
  BY DEF MayCall, AtHandler
<1>2. /\ "handler" \notin {"suspend", "pick"}
      /\ "handler" \notin KeyPCs(resched) \cup LeaveFrames
  BY DEF KeyPCs, LeaveFrames, Common
<1>3. \A c : MayCall(c) => Clear(stack[host]) /\ (running # None => on)
  BY <1>0, <1>1, <1>2, ClearTop, ModeOf
<1>4. AtGuest => on /\ running = host /\ disable = 0
  <2>1. AtGuest => disable = 0
    BY <1>0, CountZero DEF AtGuest, ControlOK, HostOK
  <2> QED
    BY <1>0, <2>1, ModeOf
<1>5. ASSUME NEW a \in Alarms, OSSetAlarm(a) \/ OSSetPeriodicAlarm(a)
      PROVE  SchedInv'
  <2>1. Calm /\ stack' = stack
    BY <1>5, CalmActions DEF OSSetAlarm, OSSetPeriodicAlarm, SetAlarm
  <2>2. ControlOK'
    BY <1>0, <2>1 DEF ControlOK, Calm
  <2> QED
    BY <2>1, <2>2, CalmStep
<1>6. ASSUME NEW fs \in Seq(CommonFrames), Call(fs), NEW c, MayCall(c), Calm
      PROVE  SchedInv'
  BY <1>0, <1>1, <1>2, <1>6, CommonCall, CalmStep DEF Calm
<1>7. ASSUME OSYieldThread
      PROVE  SchedInv'
  <2>1. <<SelectThread(TRUE)>> \in Seq(CommonFrames)
    BY CommonLists, CommonPushed
  <2> QED
    BY <1>6, <1>7, <2>1, CalmActions DEF OSYieldThread
<1>8. ASSUME NEW w \in WaitQueues, OSWakeupThread(w)
      PROVE  SchedInv'
  <2>1. <<OnQ("wake", WaitQueue(w))>> \in Seq(CommonFrames)
    BY CommonLists, CommonPushed, QueueFacts
  <2> QED
    BY <1>6, <1>8, <2>1, CalmActions DEF OSWakeupThread
<1>9. ASSUME NEW t \in Threads, OSResumeThread(t)
      PROVE  SchedInv'
  <2>1. <<On("resume", t)>> \in Seq(CommonFrames)
    BY CommonLists, CommonPushed
  <2> QED
    BY <1>6, <1>9, <2>1, CalmActions DEF OSResumeThread
<1>10. ASSUME NEW f \in Frames, Own(host, f), f.pc \in Ordinary, Call(<<f>>),
              NEW c, MayCall(c), running # None, Calm
       PROVE  SchedInv'
  <2>1. on /\ running = host
    BY <1>0, <1>3, <1>10, ModeOf
  <2>2. f \in MayPush(host, running, on)
    BY <1>10, <2>1 DEF MayPush
  <2>3. <<f>> \in Seq(MayPush(host, running, on))
    BY <2>2
  <2>4. ControlOK'
    BY <1>0, <1>3, <1>10, <2>3, Calling DEF Calm, ControlOK
  <2> QED
    BY <1>10, <2>4, CalmStep
<1>11. ASSUME NEW m \in Mutexes, OSLockMutex(m)
       PROVE  SchedInv'
  <2>1. running # None /\ MayCall("lock") /\ Calm /\ Call(<<Lock(running, m)>>)
    BY <1>11, CalmActions DEF OSLockMutex
  <2>2. running = host
    BY <1>0, <2>1, ModeOf
  <2> DEFINE f == Lock(host, m)
  <2>3. f \in Frames /\ f.pc = "lock" /\ f.thr = host
    BY <1>0, LockFrame
  <2> HIDE DEF f
  <2>4. Own(host, f) /\ f.pc \in Ordinary
    BY <2>3 DEF Own, Ordinary, Unready, Deferring, PCs
  <2> QED
    BY <1>10, <2>1, <2>2, <2>3, <2>4 DEF f
<1>12. ASSUME NEW w \in WaitQueues, OSSleepThread(w)
       PROVE  SchedInv'
  <2>1. AtGuest /\ MayCall("sleep") /\ Calm /\ Call(<<OnQ("sleep", WaitQueue(w))>>)
    BY <1>12, CalmActions DEF OSSleepThread, MayCall, GuestContract
  <2> DEFINE f == OnQ("sleep", WaitQueue(w))
  <2>2. f \in Frames /\ f.pc = "sleep"
    BY PushedPCs, QueueFacts DEF PCs
  <2> HIDE DEF f
  <2>3. Own(host, f) /\ f.pc \in Ordinary
    BY <2>2 DEF Own, Ordinary, Unready, Deferring, PCs
  <2>4. running # None
    BY <1>0, <1>4, <2>1, QueueConstants
  <2> QED
    BY <1>10, <2>1, <2>2, <2>3, <2>4 DEF f
<1>13. ASSUME NEW t \in Threads, OSSuspendThread(t)
       PROVE  SchedInv'
  <2>1. AtGuest /\ MayCall("suspend") /\ Calm /\ Call(<<On("suspend", t)>>)
    BY <1>13, CalmActions DEF OSSuspendThread, MayCall, GuestContract
  <2> QED
    BY <1>3, <1>4, <2>1, SuspendCall
<1>14. ASSUME OSSleepTicks
       PROVE  SchedInv'
  <2> DEFINE t == IF fiberThread # None THEN fiberThread ELSE running
  <2>1. /\ MayCall("sleepTicks") /\ Calm /\ t # None /\ disable = 0 /\ current \in {None, t}
        /\ Call(<<On("suspend", t), On("ticked", t)>>)
    BY <1>14, CalmActions DEF OSSleepTicks
  <2>2. running = host /\ t = host
    <3>1. running \in {None, host} /\ fiberThread \in {None, host} /\ (running = None => current = Idle)
      BY <1>0, ModeOf DEF ControlOK
    <3>2. Idle # None /\ Idle # host
      BY <1>0, KernelConstants
    <3> QED
      BY <2>1, <3>1, <3>2
  <2>3. on
    BY <1>0, <1>3, <2>1, <2>2, QueueConstants
  <2> QED
    BY <1>0, <1>3, <2>1, <2>2, <2>3, SuspendCall
<1> QED
  BY <1>5, <1>7, <1>8, <1>9, <1>11, <1>12, <1>13, <1>14

\* A frame on top of a stack that is in order below it.
LEMMA NewTop ==
    ASSUME NEW h \in Threads, NEW run, NEW cur, NEW on, NEW dis, NEW re, NEW pend,
           NEW r \in Seq(Frames), NEW f \in Frames, Clear(r), dis = Count(r),
           \A i \in DOMAIN r : Own(h, r[i]) /\ r[i].pc \in Inner(run),
           Mode(h, run, cur, on, dis, re, <<f>> \o r),
           Own(h, f), f.pc \notin Deferring \cup {"suspend"},
           f.pc \in Inner(run) \/ (f.pc = "pick" /\ ~on /\ pend # {})
    PROVE  /\ HostOK(h, run, cur, on, dis, re, pend, <<f>> \o r)
           /\ f.pc # "pick" => Clear(<<f>> \o r)
<1> DEFINE u == <<f>> \o r
<1>1. Count(u) = Count(r)
  <2>1. <<f>> \in Seq(Frames) /\ \A i \in DOMAIN <<f>> : <<f>>[i].pc \notin Deferring
    OBVIOUS
  <2> QED
    BY <2>1, CountPush
<1>2. /\ DOMAIN u = 1 .. 1 + Len(r) /\ Len(r) \in Nat /\ u[1] = f
      /\ \A i \in DOMAIN u : i # 1 => i - 1 \in DOMAIN r /\ u[i] = r[i - 1]
  OBVIOUS
<1>3. Mode(h, run, cur, on, dis, re, u) /\ \A i \in DOMAIN r : r[i].pc \notin {"suspend", "pick"}
  BY DEF Clear
<1> HIDE DEF u
<1>4. HostOK(h, run, cur, on, dis, re, pend, u)
  <2>1. \A i \in DOMAIN u :
          /\ Own(h, u[i])
          /\ u[i].pc \in Inner(run) \/ (i = 1 /\ u[i].pc \in {"suspend", "pick"})
          /\ u[i].pc # "suspend"
          /\ u[i].pc = "pick" => i = 1
    BY <1>2, <1>3
  <2>2. \A i \in DOMAIN u : u[i].pc = "pick" => ~on /\ pend # {}
    BY <1>2, <2>1 DEF Inner, Ordinary, Unready, Deferring
  <2> QED
    BY <1>1, <1>3, <2>1, <2>2 DEF HostOK
<1>5. f.pc # "pick" => Clear(u)
  BY <1>2, <1>3 DEF Clear
<1> QED
  BY <1>4, <1>5 DEF u

\* In the idle loop the frames below the top are ordinary, and the loop goes on
\* to its next part or finds something to run.
LEMMA IdleOK ==
    ASSUME NEW h \in Threads, NEW run, NEW cur, NEW on, NEW dis, NEW re, NEW pend,
           NEW s \in Seq(Frames), s # <<>>, HostOK(h, run, cur, on, dis, re, pend, s),
           Head(s).pc \in {"idle", "idleAlarms"},
           NEW f \in Frames, f.pc \in Unready, f.pc = "pick" => pend # {}
    PROVE  /\ run = None /\ ~on
           /\ HostOK(h, run, cur, on, dis, re, pend, <<f>> \o Tail(s))
           /\ f.pc # "pick" => Clear(<<f>> \o Tail(s))
<1> DEFINE r == Tail(s)
<1>1. /\ Clear(r) /\ r \in Seq(Frames) /\ Head(s) \in Frames
      /\ \A i \in DOMAIN r : Own(h, r[i]) /\ r[i].pc \in Inner(run)
      /\ Head(s).pc \in Inner(run) \cup {"suspend", "pick"}
  BY TailClear
<1>2. s = <<Head(s)>> \o r
  OBVIOUS
<1>3. Mode(h, run, cur, on, dis, re, s) /\ dis = Count(s)
  BY DEF HostOK
<1>4. run = None
  BY <1>1 DEF Inner, Ordinary, Unready, Deferring
<1>5. Head(s).pc \notin IdleFrames \cup Deferring /\ f.pc \notin Deferring \cup {"suspend"}
  BY DEF IdleFrames, Common, Deferring, Unready
<1>6. run = None /\ cur = Idle /\ ~on /\ \A i \in DOMAIN r : r[i].pc \in Ordinary
  BY <1>3, <1>4, <1>5, TopMode, QueueConstants
<1> HIDE DEF r
<1>7. Count(s) = Count(r)
  <2>1. <<Head(s)>> \in Seq(Frames) /\ \A i \in DOMAIN <<Head(s)>> : <<Head(s)>>[i].pc \notin Deferring
    BY <1>1, <1>5
  <2> QED
    BY <1>1, <1>2, <2>1, CountPush
<1>8. Mode(h, run, cur, on, dis, re, <<f>> \o r)
  <2>1. Shape(<<f>> \o r, Unready, IdleFrames, Ordinary)
    BY <1>1, <1>6, ShapeTop
  <2> QED
    BY <1>6, <2>1 DEF Mode
<1>9. Own(h, f) /\ (f.pc \in Inner(run) \/ (f.pc = "pick" /\ ~on /\ pend # {}))
  BY <1>4, <1>6 DEF Own, Unready, Inner
<1>10. /\ HostOK(h, run, cur, on, dis, re, pend, <<f>> \o r)
       /\ f.pc # "pick" => Clear(<<f>> \o r)
  BY <1>1, <1>3, <1>5, <1>7, <1>8, <1>9, NewTop
<1> QED
  BY <1>4, <1>6, <1>10 DEF r

\* SelectThread, with switches allowed, goes on to the pick loop, or to the
\* idle loop when there is nothing to pick.
LEMMA SwitchOK ==
    ASSUME NEW h \in Threads, NEW cur, NEW on, NEW re, NEW pend,
           NEW s \in Seq(Frames), s # <<>>, HostOK(h, h, cur, on, 0, re, pend, s),
           Head(s).pc = "schedule", NEW f \in Frames, NEW re2, NEW pend2
    PROVE  /\ f.pc = "pick" /\ pend2 # {} => HostOK(h, h, cur, FALSE, 0, re2, pend2, <<f>> \o Tail(s))
           /\ f.pc = "idle" => HostOK(h, None, Idle, FALSE, 0, re2, pend2, <<f>> \o Tail(s))
<1> DEFINE r == Tail(s)
<1>1. /\ Clear(r) /\ r \in Seq(Frames) /\ Head(s) \in Frames
      /\ \A i \in DOMAIN r : Own(h, r[i]) /\ r[i].pc \in Inner(h)
  BY TailClear
<1>2. s = <<Head(s)>> \o r
  OBVIOUS
<1>3. Mode(h, h, cur, on, 0, re, s) /\ 0 = Count(s)
  BY DEF HostOK
<1> HIDE DEF r
<1>4. Count(r) = 0
  <2>1. <<Head(s)>> \in Seq(Frames) /\ \A i \in DOMAIN <<Head(s)>> : <<Head(s)>>[i].pc \notin Deferring
    BY <1>1 DEF Deferring
  <2> QED
    BY <1>1, <1>2, <1>3, <2>1, CountPush
<1>5. \A i \in DOMAIN r : Own(h, r[i]) /\ r[i].pc \in Ordinary
  BY <1>1, <1>4, CountZero, QueueConstants DEF Inner
<1>6. cur = h
  BY <1>3, QueueConstants DEF Mode
<1>7. ASSUME f.pc = "pick", pend2 # {}
      PROVE  HostOK(h, h, cur, FALSE, 0, re2, pend2, <<f>> \o r)
  <2>1. \A i \in DOMAIN r : r[i].pc \in PCs
    BY <1>5 DEF Ordinary
  <2>2. f.pc \in KeyPCs(re2) /\ Own(h, f) /\ f.pc \notin Deferring \cup {"suspend"}
    BY <1>7 DEF KeyPCs, Own, Deferring
  <2>3. Shape(<<f>> \o r, KeyPCs(re2), LeaveFrames, PCs)
    BY <1>1, <2>1, <2>2, ShapeTop
  <2>4. Mode(h, h, cur, FALSE, 0, re2, <<f>> \o r)
    BY <1>6, <2>3 DEF Mode
  <2> QED
    BY <1>1, <1>4, <1>7, <2>2, <2>4, NewTop
<1>8. ASSUME f.pc = "idle"
      PROVE  HostOK(h, None, Idle, FALSE, 0, re2, pend2, <<f>> \o r)
  <2>1. f.pc \in Unready /\ Own(h, f) /\ f.pc \notin Deferring \cup {"suspend"} /\ f.pc \in Inner(None)
    BY <1>8 DEF Unready, Own, Deferring, Inner
  <2>2. Shape(<<f>> \o r, Unready, IdleFrames, Ordinary)
    BY <1>1, <1>5, <2>1, ShapeTop
  <2>3. Mode(h, None, Idle, FALSE, 0, re2, <<f>> \o r)
    BY <2>2 DEF Mode
  <2>4. \A i \in DOMAIN r : Own(h, r[i]) /\ r[i].pc \in Inner(None)
    BY <1>5 DEF Inner
  <2> QED
    BY <1>1, <1>4, <2>1, <2>3, <2>4, NewTop
<1> QED
  BY <1>7, <1>8 DEF r

\* When the pick loop is on top, switches are allowed and nothing but ordinary
\* frames is below.
LEMMA PickTop ==
    ASSUME NEW h \in Threads, NEW run, NEW cur, NEW on, NEW dis, NEW re, NEW pend,
           NEW s \in Seq(Frames), s # <<>>, HostOK(h, run, cur, on, dis, re, pend, s),
           Head(s).pc = "pick"
    PROVE  /\ dis = 0 /\ ~on /\ pend # {}
           /\ \A i \in DOMAIN Tail(s) : Own(h, Tail(s)[i]) /\ Tail(s)[i].pc \in Ordinary
<1> DEFINE r == Tail(s)
<1>1. /\ Clear(r) /\ r \in Seq(Frames) /\ Head(s) \in Frames
      /\ \A i \in DOMAIN r : Own(h, r[i]) /\ r[i].pc \in Inner(run)
      /\ ~on /\ pend # {}
  BY TailClear
<1>2. s = <<Head(s)>> \o r
  OBVIOUS
<1>3. Mode(h, run, cur, on, dis, re, s) /\ dis = Count(s)
  BY DEF HostOK
<1>4. Head(s).pc \notin IdleFrames \cup Deferring
  BY DEF IdleFrames, Common, Deferring
<1>5. \/ run = h /\ dis = 0
      \/ \A i \in DOMAIN r : r[i].pc \in Ordinary
  BY <1>1, <1>3, <1>4, TopMode
<1> HIDE DEF r
<1>6. Count(s) = Count(r)
  <2>1. <<Head(s)>> \in Seq(Frames) /\ \A i \in DOMAIN <<Head(s)>> : <<Head(s)>>[i].pc \notin Deferring
    BY <1>1, <1>4
  <2> QED
    BY <1>1, <1>2, <2>1, CountPush
<1>7. CASE run = h /\ dis = 0
  <2>1. \A i \in DOMAIN r : Own(h, r[i]) /\ r[i].pc \in Ordinary
    BY <1>1, <1>3, <1>6, <1>7, CountZero, QueueConstants DEF Inner
  <2> QED
    BY <1>1, <1>7, <2>1 DEF r
<1>8. CASE \A i \in DOMAIN r : r[i].pc \in Ordinary
  <2>1. \A i \in DOMAIN r : r[i].pc \notin Deferring
    BY <1>8 DEF Ordinary
  <2>2. dis = 0
    BY <1>1, <1>3, <1>6, <2>1, CountZero
  <2> QED
    BY <1>1, <1>8, <2>2 DEF r
<1> QED
  BY <1>5, <1>7, <1>8

\* A thread that gets the CPU goes on in an ordinary call.
LEMMA SettledOK ==
    ASSUME NEW h \in Threads, NEW re, NEW pend, NEW s \in Seq(Frames), OtherOK(h, s)
    PROVE  HostOK(h, h, h, TRUE, 0, re, pend, s)
<1>1. Count(s) = 0
  BY CountZero DEF OtherOK, Ordinary
<1>2. \A i \in DOMAIN s : s[i].pc \in Inner(h) /\ s[i].pc \notin {"suspend", "pick"}
  BY DEF OtherOK, Inner, Ordinary, Unready
<1>3. Mode(h, h, h, TRUE, 0, re, s)
  BY DEF Mode
<1> QED
  BY <1>1, <1>2, <1>3 DEF HostOK, OtherOK

\* The thread on the CPU can no longer run, and a call is on top that leads to
\* a switch.
LEMMA LeaveOK ==
    ASSUME NEW h \in Threads, NEW re, NEW pend,
           NEW s \in Seq(Frames), HostOK(h, h, h, TRUE, 0, re, pend, s), Clear(s),
           NEW re2, NEW pend2, NEW f \in Frames, f.pc \in KeyPCs(re2) \ {"pick"}
    PROVE  HostOK(h, h, h, FALSE, 0, re2, pend2, <<f>> \o s) /\ Clear(<<f>> \o s)
<1>1. 0 = Count(s) /\ \A i \in DOMAIN s : Own(h, s[i]) /\ s[i].pc \in Inner(h)
  BY DEF HostOK, Clear
<1>2. Own(h, f) /\ f.pc \notin Deferring \cup {"suspend", "pick"} /\ f.pc \in Inner(h)
  BY DEF KeyPCs, Own, Inner, Ordinary, Unready, Deferring, PCs
<1>3. \A i \in DOMAIN s : s[i] \in Frames
  OBVIOUS
<1>4. \A i \in DOMAIN s : s[i].pc \in PCs
  BY <1>3 DEF Frames
<1>5. Shape(<<f>> \o s, KeyPCs(re2), LeaveFrames, PCs)
  BY <1>4, ShapeTop
<1>6. Mode(h, h, h, FALSE, 0, re2, <<f>> \o s)
  BY <1>5 DEF Mode
<1> QED
  BY <1>1, <1>2, <1>6, NewTop

\* What the frame on top says about itself.
LEMMA TopOwn ==
    ASSUME KInv, ControlOK, NEW pc, At(pc)
    PROVE  /\ Top \in Frames /\ Top.pc = pc /\ Own(host, Top)
           /\ pc \in Inner(running) \cup {"suspend", "pick"}
           /\ pc = "suspend" => disable = 0
<1> DEFINE s == stack[host]
           on == state[host] = "running"
<1>1. s \in Seq(Frames) /\ s # <<>> /\ Head(s) = Top /\ Top.pc = pc
  BY SchedTypes DEF At, Top
<1>2. HostOK(host, running, current, on, disable, resched, links.pending, s)
  BY DEF ControlOK
<1> HIDE DEF s, on
<1> QED
  BY <1>1, <1>2, TailClear

\* Calls that only a running thread makes: the thread on the CPU is running.
LEMMA RunningTop ==
    ASSUME KInv, ControlOK, NEW pc, At(pc),
           pc \in {"lock", "relock", "switched", "sleep", "slept", "promote", "suspend", "ticked", "joined"}
    PROVE  running = host /\ current = host /\ state[host] = "running" /\ host # None
<1>1. pc \notin KeyPCs(resched) \cup LeaveFrames \cup IdleFrames \cup Unready
  BY DEF KeyPCs, LeaveFrames, IdleFrames, Common, Unready, Deferring
<1> QED
  BY <1>1, ModeOf, SchedTypes, QueueConstants

\* The frames that a running thread may push.
OwnFrames(h) == {f \in Frames : Own(h, f) /\ f.pc \in Ordinary}

\* The thread on the CPU is running and goes on with frames of its own.
LEMMA OwnStep ==
    ASSUME KInv, ControlOK, state[host] = "running",
           NEW fs \in Seq(OwnFrames(host)),
           \/ \E pc : At(pc) /\ pc \notin Deferring \cup Unready /\ (Continue(fs) \/ (fs = <<>> /\ Return))
           \/ /\ AtGuest \/ \E pc : At(pc) /\ pc \notin {"suspend", "pick"}
              /\ Call(fs),
           UNCHANGED <<host, running, current, disable>>, resched' \in BOOLEAN,
           resched => resched', state'[host] = "running", fiberThread' \in {None, host}
    PROVE  ControlOK'
<1>1. running = host /\ host # None
  BY ModeOf, SchedTypes, QueueConstants
<1>2. OwnFrames(host) \subseteq MayPush(host, running, state[host] = "running")
  BY <1>1 DEF OwnFrames, MayPush
<1>3. fs \in Seq(MayPush(host, running, state[host] = "running"))
  BY <1>2
<1>4. ASSUME NEW pc, At(pc), pc \notin Deferring \cup Unready, Continue(fs) \/ (fs = <<>> /\ Return)
      PROVE  ControlOK'
  <2>1. stack[host] # <<>> /\ Top.pc = pc
    BY <1>4 DEF At
  <2> QED
    BY <1>3, <1>4, <2>1, Continuing
<1>5. ASSUME AtGuest \/ \E pc : At(pc) /\ pc \notin {"suspend", "pick"}, Call(fs)
      PROVE  ControlOK'
  BY <1>3, <1>5, ClearTop, Calling
<1> QED
  BY <1>4, <1>5

\* The frames of one's own that are pushed.
LEMMA OwnPushed ==
    /\ \A h \in Threads : <<>> \in Seq(OwnFrames(h)) /\ CommonFrames \subseteq OwnFrames(h)
    /\ \A h : \A t \in Threads \cup {None} : \A p \in 0 .. MaxPrio + 1 : Promote(t, p) \in OwnFrames(h)
    /\ \A h : \A q \in BlockQueues : OnQ("sleep", q) \in OwnFrames(h)
    /\ \A h : \A t \in Threads : On("joined", t) \in OwnFrames(h) /\ On("unlockAll", t) \in OwnFrames(h)
    /\ \A h : \A t \in Threads \cup {None} : On("switched", t) \in OwnFrames(h)
<1>1. /\ {"promote", "sleep", "joined", "unlockAll", "switched"} \subseteq PCs
      /\ {"promote", "sleep", "joined", "unlockAll", "switched"} \subseteq Ordinary
      /\ {"promote", "sleep", "joined", "unlockAll", "switched"} \cap {"slept", "ticked", "lock", "relock"} = {}
  BY DEF PCs, Ordinary, Unready, Deferring
<1>2. \A h : \A f \in Frames : f.pc \in {"promote", "sleep", "joined", "unlockAll", "switched"} =>
         f \in OwnFrames(h)
  BY <1>1 DEF OwnFrames, Own
<1>3. \A h \in Threads : <<>> \in Seq(OwnFrames(h)) /\ CommonFrames \subseteq OwnFrames(h)
  BY DEF CommonFrames, OwnFrames, Common, Own, Ordinary, Unready, Deferring, PCs
<1>4. ASSUME NEW h, NEW t \in Threads \cup {None}, NEW p \in 0 .. MaxPrio + 1
      PROVE  Promote(t, p) \in OwnFrames(h)
  <2> DEFINE e == Frame("promote")
             a == [e EXCEPT !.thr = t]
             g == [a EXCEPT !.num = p]
  <2>1. Promote(t, p) = g
    BY DEF Promote
  <2>2. e \in Frames /\ e.pc = "promote"
    BY <1>1, FrameType
  <2> HIDE DEF e
  <2>3. a \in Frames /\ a.pc = "promote"
    BY <2>2, With_thr
  <2> HIDE DEF a
  <2>4. g \in Frames /\ g.pc = "promote"
    BY <2>3, With_num
  <2> HIDE DEF g
  <2> QED
    BY <1>2, <2>1, <2>4
<1>5. \A h : \A q \in BlockQueues : OnQ("sleep", q) \in OwnFrames(h)
  BY <1>1, <1>2, PushedPCs
<1>6. \A h : \A t \in Threads : On("joined", t) \in OwnFrames(h) /\ On("unlockAll", t) \in OwnFrames(h)
  BY <1>1, <1>2, PushedPCs
<1>7. \A h : \A t \in Threads \cup {None} : On("switched", t) \in OwnFrames(h)
  BY <1>1, <1>2, PushedPCs
<1> QED
  BY <1>3, <1>4, <1>5, <1>6, <1>7

\* OSLockMutex and its retry loop run on the fiber of the thread that locks.
LEMMA LockControl ==
    ASSUME KInv, SchedInv
    PROVE  /\ LockMutex => SchedInv'
           /\ RelockMutex => SchedInv'
           /\ UnlockAllMutex => SchedInv'
<1>0. /\ ControlOK /\ ThreadsOK /\ host \in Threads /\ resched \in BOOLEAN /\ fiberThread \in {None, host}
      /\ stack \in Stacks /\ owner \in [Mutexes -> Threads \cup {None}] /\ prio \in [Threads -> 0 .. MaxPrio + 1]
  BY SchedTypes, TypeStacks DEF SchedInv, ControlOK, KInv, TypeOK
<1>1. {"lock", "relock", "unlockAll"} \cap (Deferring \cup Unready) = {} /\ "lock" \in PCs /\ "relock" \in PCs
        /\ "lock" \in Ordinary /\ "relock" \in Ordinary
  BY DEF Deferring, Unready, PCs, Ordinary
<1>2. ASSUME NEW pc \in {"lock", "relock"}, At(pc), NEW pc2 \in {"lock", "relock"}
      PROVE  [Top EXCEPT !.pc = pc2] \in OwnFrames(host)
  <2>1. Top \in Frames /\ Top.thr = host
    BY <1>0, <1>2, TopOwn DEF Own
  <2> DEFINE g == [Top EXCEPT !.pc = pc2]
  <2>2. g \in Frames /\ g.pc = pc2 /\ g.thr = host
    BY <1>1, <2>1, With_pc
  <2> HIDE DEF g
  <2> QED
    BY <1>1, <2>2 DEF OwnFrames, Own, g
<1>3. ASSUME LockMutex
      PROVE  SchedInv'
  <2>1. At("lock") /\ Calm /\ state[host] = "running" /\ Top.thr \in Threads /\ Top.mut \in Mutexes
    BY <1>0, <1>3, CalmActions, RunningTop, TopType DEF LockMutex, NeedThread, NeedMutex
  <2>2. CASE Return
    BY <1>0, <1>1, <2>1, <2>2, OwnStep, OwnPushed, CalmStep DEF Calm
  <2>3. CASE Continue(<<Promote(owner[Top.mut], prio[Top.thr]), OnQ("sleep", MutexQueue(Top.mut)),
                        [Top EXCEPT !.pc = "relock"]>>)
    <3> DEFINE a == Promote(owner[Top.mut], prio[Top.thr])
               b == OnQ("sleep", MutexQueue(Top.mut))
               c == [Top EXCEPT !.pc = "relock"]
    <3>1. a \in OwnFrames(host) /\ b \in OwnFrames(host) /\ c \in OwnFrames(host)
      BY <1>0, <1>2, <2>1, OwnPushed, QueueFacts
    <3> HIDE DEF a, b, c
    <3>2. <<a, b, c>> \in Seq(OwnFrames(host))
      BY <3>1
    <3>3. Continue(<<a, b, c>>)
      BY <2>3 DEF a, b, c
    <3>4. ControlOK'
      BY <1>0, <1>1, <2>1, <3>2, <3>3, OwnStep DEF Calm
    <3> QED
      BY <2>1, <3>4, CalmStep
  <2> QED
    BY <1>3, <2>2, <2>3 DEF LockMutex
<1>4. ASSUME RelockMutex
      PROVE  SchedInv'
  <2>1. At("relock") /\ Calm /\ state[host] = "running"
    BY <1>0, <1>4, CalmActions, RunningTop DEF RelockMutex
  <2> DEFINE c == [Top EXCEPT !.pc = "lock"]
  <2>2. c \in OwnFrames(host) /\ Continue(<<c>>)
    BY <1>2, <1>4, <2>1 DEF RelockMutex
  <2> HIDE DEF c
  <2>3. <<c>> \in Seq(OwnFrames(host))
    BY <2>2
  <2>4. ControlOK'
    BY <1>0, <1>1, <2>1, <2>2, <2>3, OwnStep DEF Calm
  <2> QED
    BY <2>1, <2>4, CalmStep
<1>5. ASSUME UnlockAllMutex
      PROVE  SchedInv'
  <2>1. At("unlockAll") /\ Calm /\ Top.thr \in Threads /\ "unlockAll" \notin KeyPCs(resched)
    BY <1>0, <1>5, CalmActions, TopType DEF UnlockAllMutex, NeedThread, KeyPCs
  <2>2. CASE Return
    BY <1>0, <1>1, <2>1, <2>2, CommonStep, CommonLists, CalmStep DEF Calm
  <2>3. CASE owned[Top.thr] # <<>>
    <3>1. Call(<<OnQ("wake", MutexQueue(Head(owned[Top.thr])))>>)
      BY <1>5, <2>3 DEF UnlockAllMutex
    <3>2. owned[Top.thr] \in Seq(Mutexes)
      BY <2>1 DEF KInv, TypeOK
    <3>3. Head(owned[Top.thr]) \in Mutexes
      BY <2>3, <3>2
    <3>4. <<OnQ("wake", MutexQueue(Head(owned[Top.thr])))>> \in Seq(CommonFrames)
      BY <3>3, CommonPushed, CommonLists, QueueFacts
    <3>5. \E pc : At(pc) /\ pc \notin {"suspend", "pick"}
      BY <2>1
    <3> DEFINE fs == <<OnQ("wake", MutexQueue(Head(owned[Top.thr])))>>
    <3>6. fs \in Seq(CommonFrames) /\ Call(fs)
      BY <3>1, <3>4
    <3> HIDE DEF fs
    <3>7. ControlOK'
      BY <1>0, <2>1, <3>5, <3>6, CommonCall DEF Calm
    <3> QED
      BY <2>1, <3>7, CalmStep
  <2> QED
    BY <1>5, <2>2, <2>3 DEF UnlockAllMutex
<1> QED
  BY <1>3, <1>4, <1>5

\* A fiber that gets the CPU back, in SwitchToThread.
LEMMA SwitchedControl ==
    ASSUME KInv, SchedInv, Switched
    PROVE  SchedInv'
<1>0. ControlOK /\ ThreadsOK /\ host \in Threads /\ resched \in BOOLEAN
  BY SchedTypes DEF SchedInv
<1>1. At("switched") /\ state[host] = "running" /\ running = host /\ Return
        /\ UNCHANGED <<state, suspend, prio, links, running, fiber, threadList, host, current,
                       disable, resched>>
        /\ fiberThread' \in {None, running}
  BY <1>0, RunningTop DEF Switched, threadVars, schedVars, listVars
<1>2. "switched" \notin Deferring \cup Unready
  BY DEF Deferring, Unready
<1>3. ControlOK'
  BY <1>0, <1>1, <1>2, OwnStep, OwnPushed
<1> QED
  BY <1>0, <1>1, <1>3, ThreadsSame DEF SchedInv

\* The idle loop.
LEMMA IdleControl ==
    ASSUME KInv, SchedInv
    PROVE  /\ IdlePump => SchedInv'
           /\ IdleAlarms => SchedInv'
           /\ IdleExit => SchedInv'
<1> DEFINE s == stack[host]
           r == Tail(s)
           on == state[host] = "running"
<1>0. /\ ControlOK /\ ThreadsOK /\ host \in Threads /\ s \in Seq(Frames) /\ stack \in [Threads -> Seq(GoodFrames)]
      /\ HostOK(host, running, current, on, disable, resched, links.pending, s)
  BY SchedTypes DEF SchedInv, ControlOK
<1>1. {"idle", "idleAlarms", "pick", "alarms"} \subseteq PCs /\ {"idle", "idleAlarms", "pick"} \subseteq Unready
  BY DEF PCs, Unready
<1>2. ASSUME At("idle") \/ At("idleAlarms"), Calm, NEW pc \in Unready, pc = "pick" => links.pending # {},
             NEW a, \/ Continue(<<Frame(pc)>>)
                    \/ pc # "pick" /\ a \in CommonFrames \cup {Frame("alarms")} /\ Continue(<<a, Frame(pc)>>)
      PROVE  SchedInv'
  <2> DEFINE f == Frame(pc)
  <2>1. f \in Frames /\ f.pc = pc
    BY PushedPCs DEF Unready, PCs
  <2>2. s # <<>> /\ Head(s).pc \in {"idle", "idleAlarms"} /\ r \in Seq(Frames)
    BY <1>0, <1>2 DEF At, Top
  <2> HIDE DEF f, s, on
  <2>3. /\ running = None /\ ~on
        /\ HostOK(host, running, current, on, disable, resched, links.pending, <<f>> \o r)
        /\ pc # "pick" => Clear(<<f>> \o r)
    BY <1>0, <1>2, <2>1, <2>2, IdleOK
  <2>4. CASE Continue(<<f>>)
    <3>1. stack'[host] = <<f>> \o r /\ \A u \in Threads \ {host} : stack'[u] = stack[u]
      BY <1>0, <2>4 DEF Continue, s
    <3>2. ControlOK'
      BY <1>0, <1>2, <2>3, <3>1, ControlStep DEF ControlOK, on, Calm
    <3> QED
      BY <1>2, <3>2, CalmStep
  <2>5. CASE pc # "pick" /\ a \in CommonFrames \cup {Frame("alarms")} /\ Continue(<<a, f>>)
    <3>1. stack'[host] = <<a, f>> \o r /\ \A u \in Threads \ {host} : stack'[u] = stack[u]
      BY <1>0, <2>5 DEF Continue, s
    <3>2. a \in MayPush(host, running, on)
      BY <2>3, <2>5, CommonMayPush, PumpMayPush
    <3>3. a \in Frames
      BY <3>2 DEF MayPush
    <3>4. <<a>> \o (<<f>> \o r) = <<a, f>> \o r
      BY <2>1, <2>2, <3>3
    <3>5. <<f>> \o r \in Seq(Frames) /\ <<a>> \in Seq(MayPush(host, running, on))
      BY <2>1, <2>2, <3>2
    <3>6. HostOK(host, running, current, on, disable, resched, links.pending, <<a>> \o (<<f>> \o r))
      BY <1>0, <2>3, <2>5, <3>5, PushOK
    <3>7. ControlOK'
      BY <1>0, <1>2, <3>1, <3>4, <3>6, ControlStep DEF ControlOK, on, Calm
    <3> QED
      BY <1>2, <3>7, CalmStep
  <2> QED
    BY <1>2, <2>4, <2>5 DEF f
<1>3. ASSUME IdlePump
      PROVE  SchedInv'
  <2>1. At("idle") /\ Calm /\ \E due \in SUBSET Threads : Continue(<<Batch("fire", due), Frame("idleAlarms")>>)
    BY <1>3, CalmActions DEF IdlePump, KInv, TypeOK
  <2> QED
    BY <1>1, <1>2, <2>1, CommonPushed
<1>4. ASSUME IdleAlarms
      PROVE  SchedInv'
  <2>1. /\ At("idleAlarms") /\ Calm
        /\ Continue(<<Frame("alarms"), Frame("idle")>>) \/ Continue(<<Frame("idle")>>)
    BY <1>4, CalmActions DEF IdleAlarms
  <2> QED
    BY <1>1, <1>2, <2>1
<1>5. ASSUME IdleExit
      PROVE  SchedInv'
  <2>1. At("idle") /\ Calm /\ links.pending # {} /\ Continue(<<Frame("pick")>>)
    BY <1>5, CalmActions DEF IdleExit
  <2> QED
    BY <1>1, <1>2, <2>1
<1> QED
  BY <1>3, <1>4, <1>5

\* Where a thread is, by its state.
LEMMA PlaceOf ==
    ASSUME KInv, ThreadsOK, NEW t \in Threads
    PROVE  /\ Placed(Place(links, t), links.at[t], state[t], suspend[t], prio[t])
           /\ (state[t] = "ready" /\ suspend[t] = 0) \/ state[t] = "waiting" =>
                Place(links, t) # None /\ links.at[t] = Place(links, t)
           /\ state[t] = "waiting" => links.at[t] \in BlockQueues /\ links.at[t] # None
           /\ ~(state[t] = "ready" /\ suspend[t] = 0) /\ state[t] # "waiting" =>
                Place(links, t) = None /\ OthersPlaced(links, state, suspend, prio, t)
           /\ state[t] = "running" => links.at[t] = None /\ suspend[t] = 0 /\ t = running
           /\ ~ThreadStateIsTerminated(state[t]) => fiber[t] = "live"
           /\ ~ThreadStateIsTerminated(state[t]) /\ suspend[t] = 0 => prio[t] \in Prios
<1>1. links \in Links /\ AllPlaced(links, state, suspend, prio) /\ Listed(links)
  BY SchedTypes DEF ThreadsOK, AllPlaced
<1>2. /\ Place(links, t) \in Queues \cup {None}
      /\ Place(links, t) # None => links.at[t] = Place(links, t)
  BY <1>1, PlaceFacts
<1>3. Placed(Place(links, t), links.at[t], state[t], suspend[t], prio[t])
  BY <1>1 DEF AllPlaced
<1>4. RunQueues \subseteq Queues /\ BlockQueues \subseteq Queues /\ Queues = RunQueues \cup BlockQueues
        /\ None \notin RunQueues /\ None \notin BlockQueues
  BY NoneIsNoQueue DEF Queues
<1>5. state[t] = "running" => suspend[t] = 0 /\ t = running
  BY DEF ThreadsOK, RunningOne
<1>6. ~ThreadStateIsTerminated(state[t]) => fiber[t] = "live"
  BY DEF ThreadsOK, FiberByState
<1>7. ~(state[t] = "ready" /\ suspend[t] = 0) /\ state[t] # "waiting" => Place(links, t) = None
  BY <1>2, <1>3, <1>4 DEF Placed
<1>8. Place(links, t) = None => OthersPlaced(links, state, suspend, prio, t)
  BY <1>1, Unqueued
<1> QED
  BY <1>2, <1>3, <1>4, <1>5, <1>6, <1>7, <1>8 DEF Placed, ThreadStateIsTerminated

\* A step that concerns one thread.
LEMMA OneThread ==
    ASSUME ThreadsOK, NEW t \in Threads, AllPlaced(links', state', suspend', prio'),
           \A u \in Threads \ {t} : /\ state'[u] = state[u] /\ suspend'[u] = suspend[u]
                                    /\ fiber'[u] = fiber[u] /\ (u \in threadList' <=> u \in threadList)
                                    /\ (state[u] = "running" => running' = running),
           state'[t] = "running" => running' = t /\ suspend'[t] = 0,
           ~ThreadStateIsTerminated(state'[t]) => fiber'[t] = "live",
           t \in threadList' <=> state'[t] # "dead"
    PROVE  ThreadsOK'
<1>1. RunningOne'
  BY DEF ThreadsOK, RunningOne
<1>2. FiberByState'
  BY DEF ThreadsOK, FiberByState
<1>3. ThreadListExact'
  BY DEF ThreadsOK, ThreadListExact
<1> QED
  BY <1>1, <1>2, <1>3 DEF ThreadsOK

\* SelectThread puts the running thread back on its run queue and looks for the
\* next one, or enters the idle loop.
LEMMA ScheduleSwitchControl ==
    ASSUME KInv, SchedInv, ScheduleSwitch
    PROVE  SchedInv'
<1> DEFINE s == stack[host]
           r == Tail(s)
           on == state[host] = "running"
<1>0. /\ ControlOK /\ ThreadsOK /\ host \in Threads /\ s \in Seq(Frames) /\ stack \in [Threads -> Seq(GoodFrames)]
      /\ HostOK(host, running, current, on, disable, resched, links.pending, s) /\ disable \in Nat
      /\ state \in [Threads -> States] /\ links \in Links /\ running \in Threads \cup {None}
      /\ prio \in [Threads -> 0 .. MaxPrio + 1]
  BY SchedTypes DEF SchedInv, ControlOK
<1>1. /\ At("schedule") /\ disable = 0 /\ current = running /\ running = host
      /\ UNCHANGED <<suspend, prio, threadList, disable, fiber, fiberThread, host>>
      /\ s # <<>> /\ Head(s).pc = "schedule"
  BY <1>0, ModeOf DEF ScheduleSwitch, CannotSwitch, listVars, fiberVars, At, Top
<1>2. /\ Frame("pick") \in Frames /\ Frame("pick").pc = "pick"
      /\ Frame("idle") \in Frames /\ Frame("idle").pc = "idle"
  BY PushedPCs DEF PCs
<1>3. \A t \in Threads \ {host} : state[t] # "running"
  BY <1>0, <1>1 DEF ThreadsOK, RunningOne
<1> HIDE DEF s, on
<1>4. /\ \A p2 : p2 # {} =>
           HostOK(host, host, host, FALSE, 0, resched', p2, <<Frame("pick")>> \o r)
      /\ HostOK(host, None, Idle, FALSE, 0, resched', links'.pending, <<Frame("idle")>> \o r)
  BY <1>0, <1>1, <1>2, SwitchOK
<1>5. ASSUME NEW f, Continue(<<f>>)
      PROVE  stack'[host] = <<f>> \o r /\ \A u \in Threads \ {host} : stack'[u] = stack[u]
  BY <1>0, <1>5 DEF Continue, s
<1>6. CASE on
  <2>1. /\ state' = [state EXCEPT ![host] = "ready"] /\ resched' = TRUE /\ Continue(<<Frame("pick")>>)
        /\ links' = LinkThreadOnRunQueue(links, host, prio[host])
        /\ UNCHANGED <<running, current>>
    BY <1>1, <1>6 DEF ScheduleSwitch, on
  <2>2. links'.pending # {} /\ state'[host] = "ready"
    BY <1>0, <2>1 DEF LinkThreadOnRunQueue
  <2>3. ControlOK'
    BY <1>0, <1>1, <1>4, <1>5, <2>1, <2>2, ControlStep DEF ControlOK
  <2>4. /\ OthersPlaced(links, state, suspend, prio, host) /\ suspend[host] = 0
        /\ prio[host] \in Prios
    BY <1>0, <1>6, PlaceOf DEF on, ThreadStateIsTerminated
  <2>5. AllPlaced(links', state', suspend, prio)
    <3>1. Placed(RunQueue(prio[host]), RunQueue(prio[host]), state'[host], suspend[host], prio[host])
      BY <1>0, <2>2, <2>4, QueueFacts DEF Placed, RunQueues, ThreadStateIsTerminated
    <3>2. \A u \in Threads \ {host} : state'[u] = state[u]
      BY <1>0, <2>1
    <3>3. prio[host] \in 0 .. MaxPrio + 1
      BY <1>0
    <3> HIDE DEF on
    <3> QED
      BY <1>0, <2>1, <2>4, <3>1, <3>2, <3>3, LinkPlaced
  <2>6. ThreadsOK'
    <3>1. \A u \in Threads \ {host} : state'[u] = state[u]
      BY <1>0, <2>1
    <3>2. fiber[host] = "live" /\ host \in threadList
      BY <1>0, <1>6 DEF on, ThreadsOK, FiberByState, ThreadListExact, ThreadStateIsTerminated
    <3> QED
      BY <1>0, <1>1, <1>3, <2>1, <2>2, <2>5, <3>1, <3>2, OneThread
  <2> QED
    BY <2>3, <2>6 DEF SchedInv
<1>7. CASE ~on /\ links.pending # {}
  <2>1. Continue(<<Frame("pick")>>) /\ UNCHANGED <<state, links, resched, running, current>>
    BY <1>1, <1>7 DEF ScheduleSwitch, on
  <2>2. ControlOK'
    BY <1>0, <1>1, <1>4, <1>5, <1>7, <2>1, ControlStep DEF ControlOK, on
  <2> QED
    BY <1>0, <1>1, <2>1, <2>2, ThreadsSame DEF SchedInv
<1>8. CASE ~on /\ links.pending = {}
  <2>1. Continue(<<Frame("idle")>>) /\ UNCHANGED <<state, links, resched>> /\ running' = None /\ current' = Idle
    BY <1>1, <1>8 DEF ScheduleSwitch, on
  <2>2. ControlOK'
    BY <1>0, <1>1, <1>4, <1>5, <1>8, <2>1, ControlStep DEF ControlOK, on
  <2>3. ThreadsOK'
    BY <1>0, <1>1, <1>3, <1>8, <2>1 DEF ThreadsOK, RunningOne, FiberByState, ThreadListExact, on
  <2> QED
    BY <2>2, <2>3 DEF SchedInv
<1> QED
  BY <1>6, <1>7, <1>8

\* The pick loop finds a thread that can run at the head of the most urgent
\* queue, and the switch makes it the thread on the CPU.
LEMMA PickThreadControl ==
    ASSUME KInv, SchedInv, PickThread
    PROVE  SchedInv'
<1> DEFINE s == stack[host]
           r == Tail(s)
           on == state[host] = "running"
           p == MostUrgent(links.pending)
           t == Head(links.seq[RunQueue(p)])
<1>0. /\ ControlOK /\ ThreadsOK /\ host \in Threads /\ s \in Seq(Frames) /\ stack \in [Threads -> Seq(GoodFrames)]
      /\ HostOK(host, running, current, on, disable, resched, links.pending, s)
      /\ \A u \in Threads : stack[u] \in Seq(Frames)
      /\ state \in [Threads -> States] /\ links \in Links /\ AllPlaced(links, state, suspend, prio)
      /\ fiberThread \in {None, host}
  BY SchedTypes DEF SchedInv, ControlOK, ThreadsOK
<1>1. At("pick") /\ s # <<>> /\ Head(s).pc = "pick" /\ r \in Seq(Frames)
  BY <1>0 DEF PickThread, At, Top
<1>2. /\ disable = 0 /\ ~on /\ links.pending # {}
      /\ \A i \in DOMAIN r : Own(host, r[i]) /\ r[i].pc \in Ordinary
  <2> HIDE DEF s, on
  <2> QED
    BY <1>0, <1>1, PickTop
<1>3. p \in links.pending /\ p \in 0 .. MaxPrio + 1 /\ links.seq[RunQueue(p)] # <<>>
  <2>1. links.pending \in SUBSET (0 .. MaxPrio + 1)
    BY <1>0 DEF Links
  <2>2. p \in links.pending
    BY <1>2, <2>1, MostUrgentPending
  <2> QED
    BY <2>1, <2>2 DEF KInv, PendingExact, PendingMatches
<1> HIDE DEF p
<1>4. /\ t \in Threads /\ Place(links, t) = RunQueue(p)
      /\ PopRunQueue(links, p) \in Links /\ PopRunQueue(links, p).at[t] = None
      /\ OthersPlaced(PopRunQueue(links, p), state, suspend, prio, t)
  BY <1>0, <1>3, PopRunPlaced
<1>5. state[t] = "ready" /\ suspend[t] = 0 /\ fiber[t] = "live" /\ prio[t] \in Prios
  <2>1. RunQueue(p) \in RunQueues
    BY <1>3 DEF RunQueues
  <2> HIDE DEF t
  <2> QED
    BY <1>0, <1>4, <2>1, PlaceOf DEF Placed, ThreadStateIsTerminated
<1>6. links.pending # {} /\ Runnable
  BY <1>2, <1>3, <1>5 DEF Runnable, PickQueue, Terminated, ThreadStateIsTerminated, p
<1>7. /\ links' = PopRunQueue(links, p) /\ state' = [state EXCEPT ![t] = "running"]
      /\ running' = t /\ current' = t /\ SwitchToThread(t)
      /\ UNCHANGED <<suspend, prio, threadList, disable, fiber>>
  BY <1>6 DEF PickThread, PickQueue, listVars, p
<1> HIDE DEF t, s, r, on
<1>8. AllPlaced(links', state', suspend', prio')
  <2>1. Placed(None, links'.at[t], state'[t], suspend'[t], prio'[t])
    <3>1. None \notin RunQueues /\ None \notin BlockQueues
      BY NoneIsNoQueue DEF Queues
    <3>2. state'[t] = "running" /\ links'.at[t] = None
      BY <1>0, <1>4, <1>7
    <3> QED
      BY <1>5, <1>7, <3>1, <3>2 DEF Placed, ThreadStateIsTerminated
  <2>2. \A u \in Threads \ {t} : state'[u] = state[u] /\ suspend'[u] = suspend[u] /\ prio'[u] = prio[u]
    BY <1>0, <1>4, <1>7
  <2>3. links' \in Links /\ OthersPlaced(links', state, suspend, prio, t)
    BY <1>4, <1>7
  <2> QED
    BY <1>4, <2>1, <2>2, <2>3, StayPlaced
<1>9. ThreadsOK'
  <2>1. running \in {None, host}
    BY <1>0, ModeOf
  <2>2. \A u \in Threads : state[u] # "running"
    BY <1>0, <1>2, <2>1, QueueConstants DEF ThreadsOK, RunningOne, on
  <2>3. \A u \in Threads \ {t} : state'[u] = state[u]
    BY <1>0, <1>4, <1>7
  <2>4. state'[t] = "running" /\ state[t] = "ready"
    BY <1>0, <1>4, <1>5, <1>7
  <2>5. RunningOne'
    BY <1>5, <1>7, <2>2, <2>3 DEF RunningOne
  <2>6. FiberByState' /\ ThreadListExact'
    BY <1>0, <1>5, <1>7, <2>3, <2>4 DEF ThreadsOK, FiberByState, ThreadListExact
  <2> QED
    BY <1>8, <2>5, <2>6 DEF ThreadsOK
<1>10. ControlOK'
  <2>1. host' = t /\ fiberThread' = t /\ disable' = 0 /\ running' = t /\ current' = t /\ state'[t] = "running"
    BY <1>0, <1>2, <1>4, <1>7 DEF SwitchToThread
  <2>2. OtherOK(host, r)
    BY <1>2 DEF OtherOK
  <2>3. ASSUME NEW v \in Seq(Frames), OtherOK(t, v), stack'[t] = v
        PROVE  HostOK(host', running', current', state'[host'] = "running", disable', resched',
                      links'.pending, stack'[host'])
    <3>1. HostOK(t, t, t, TRUE, 0, resched', links'.pending, v)
      BY <1>4, <2>3, SettledOK
    <3> QED
      BY <2>1, <2>3, <3>1
  <2>4. CASE t = host
    <3>1. stack'[host] = r /\ \A u \in Threads \ {host} : stack'[u] = stack[u]
      BY <1>0, <1>7, <2>4 DEF SwitchToThread, Return, r, s
    <3> QED
      BY <1>0, <1>1, <2>1, <2>2, <2>3, <2>4, <3>1 DEF ControlOK
  <2>5. CASE t # host
    <3> DEFINE f == On("switched", fiberThread)
    <3>1. f \in OwnFrames(host)
      BY <1>0, OwnPushed
    <3>2. Continue(<<f>>)
      BY <1>7, <2>5 DEF SwitchToThread
    <3> HIDE DEF f
    <3>3. stack'[host] = <<f>> \o r /\ \A u \in Threads \ {host} : stack'[u] = stack[u]
      BY <1>0, <3>2 DEF Continue, r, s
    <3>4. OtherOK(host, <<f>> \o r)
      <4> DEFINE v == <<f>> \o r
      <4>1. f \in Frames
        BY <3>1 DEF OwnFrames
      <4>2. /\ DOMAIN v = 1 .. 1 + Len(r) /\ Len(r) \in Nat /\ v[1] = f
            /\ \A i \in DOMAIN v : i # 1 => i - 1 \in DOMAIN r /\ v[i] = r[i - 1]
        BY <1>1, <4>1 DEF r
      <4> HIDE DEF v
      <4>3. OtherOK(host, v)
        BY <2>2, <3>1, <4>2 DEF OtherOK, OwnFrames
      <4> QED
        BY <4>3 DEF v
    <3>5. OtherOK(t, stack[t]) /\ stack[t] \in Seq(Frames) /\ stack'[t] = stack[t]
      BY <1>0, <1>4, <2>5, <3>3 DEF ControlOK
    <3>6. \A u \in Threads \ {t} : OtherOK(u, stack'[u])
      BY <1>0, <3>3, <3>4 DEF ControlOK
    <3>7. HostOK(host', running', current', state'[host'] = "running", disable', resched',
                 links'.pending, stack'[host'])
      BY <2>3, <3>5
    <3> QED
      BY <2>1, <3>6, <3>7 DEF ControlOK
  <2> QED
    BY <2>4, <2>5
<1> QED
  BY <1>9, <1>10 DEF SchedInv

\* A list over a set is a list over a larger one, and over the set of its elements.
LEMMA SeqSubset ==
    ASSUME NEW S, NEW T, NEW s \in Seq(S)
    PROVE  /\ S \subseteq T => s \in Seq(T)
           /\ (\A i \in DOMAIN s : s[i] \in T) => s \in Seq(T)
OBVIOUS

\* What is below the top of a running thread's stack, and the whole of it.
LEMMA RunningStack ==
    ASSUME KInv, ControlOK, state[host] = "running", disable = 0
    PROVE  /\ stack[host] \in Seq(Frames) /\ running = host /\ current = host
           /\ HostOK(host, host, host, TRUE, 0, resched, links.pending, stack[host])
           /\ \A pc : At(pc) /\ pc \notin Deferring \cup Unready =>
                /\ Tail(stack[host]) \in Seq(Frames) /\ Clear(Tail(stack[host]))
                /\ HostOK(host, host, host, TRUE, 0, resched, links.pending, Tail(stack[host]))
<1> DEFINE s == stack[host]
<1>1. host \in Threads /\ s \in Seq(Frames) /\ running = host /\ current = host
  BY SchedTypes, ModeOf
<1>2. HostOK(host, host, host, TRUE, 0, resched, links.pending, s)
  BY <1>1 DEF ControlOK
<1>3. ASSUME NEW pc, At(pc), pc \notin Deferring \cup Unready
      PROVE  /\ Tail(s) \in Seq(Frames) /\ Clear(Tail(s))
             /\ HostOK(host, host, host, TRUE, 0, resched, links.pending, Tail(s))
  <2>1. s # <<>> /\ Head(s).pc = pc
    BY <1>3 DEF At, Top
  <2>2. Tail(s) \in Seq(Frames)
    BY <1>1, <2>1
  <2> HIDE DEF s
  <2> QED
    BY <1>1, <1>2, <1>3, <2>1, <2>2, PopOK
<1> QED
  BY <1>1, <1>2, <1>3

\* The running thread stops running: a call that leads to a switch is on its
\* stack, above what it goes on with later.
LEMMA LeaveStep ==
    ASSUME KInv, ControlOK, NEW v \in Seq(Frames), Clear(v),
           HostOK(host, host, host, TRUE, 0, resched, links.pending, v),
           NEW b \in Seq(OwnFrames(host)), NEW k \in Frames, k.pc \in KeyPCs(resched') \ {"pick"},
           NEW a \in Seq(Frames), \A i \in DOMAIN a : a[i].pc \in LeaveFrames,
           stack'[host] = a \o (<<k>> \o (b \o v)),
           \A u \in Threads \ {host} : OtherOK(u, stack'[u]),
           host' = host, running' = host, current' = host, disable' = 0,
           state'[host] # "running", fiberThread' \in {None, host}
    PROVE  ControlOK'
<1>0. host \in Threads /\ host # None
  BY SchedTypes, QueueConstants
<1>1. b \in Seq(MayPush(host, host, TRUE)) /\ b \in Seq(Frames)
  <2>1. OwnFrames(host) \subseteq MayPush(host, host, TRUE) /\ OwnFrames(host) \subseteq Frames
    BY <1>0 DEF OwnFrames, MayPush
  <2> QED
    BY <2>1, SeqSubset
<1> DEFINE w == b \o v
           x == <<k>> \o w
<1>2. HostOK(host, host, host, TRUE, 0, resched, links.pending, w) /\ Clear(w) /\ w \in Seq(Frames)
  <2>1. w \in Seq(Frames)
    BY <1>1
  <2> QED
    BY <1>0, <1>1, <2>1, PushOK
<1> HIDE DEF w
<1>3. HostOK(host, host, host, FALSE, 0, resched', links'.pending, x) /\ Clear(x)
  BY <1>0, <1>2, LeaveOK
<1>4. x \in Seq(Frames)
  BY <1>2
<1> HIDE DEF x
<1>5. \A i \in DOMAIN a : a[i] \in MayPush(host, host, FALSE)
  <2>1. \A i \in DOMAIN a : a[i] \in Frames
    OBVIOUS
  <2> QED
    BY <1>0, <2>1 DEF MayPush, LeaveFrames, Common, Own, Ordinary, Unready, Deferring, PCs
<1>6. a \in Seq(MayPush(host, host, FALSE))
  BY <1>5, SeqSubset
<1>7. HostOK(host, host, host, FALSE, 0, resched', links'.pending, a \o x)
  BY <1>0, <1>3, <1>4, <1>6, PushOK
<1> QED
  BY <1>7, ControlStep DEF x, w

\* One thread is woken.  It is waiting, so it is not the one that runs.
LEMMA WakeupControl ==
    ASSUME KInv, SchedInv, WakeupThread
    PROVE  SchedInv'
<1> DEFINE q == Top.que
           t == Head(links.seq[q])
           R == PopThreadQueueHead(links, q)
<1>0. /\ ControlOK /\ ThreadsOK /\ host \in Threads /\ resched \in BOOLEAN
      /\ state \in [Threads -> States] /\ links \in Links /\ AllPlaced(links, state, suspend, prio)
      /\ suspend \in [Threads -> Nat] /\ stack \in Stacks /\ prio \in [Threads -> 0 .. MaxPrio + 1]
  BY SchedTypes, TypeStacks DEF SchedInv, ControlOK, ThreadsOK, KInv
<1>1. At("wake") /\ q \in BlockQueues /\ links.seq[q] # <<>> /\ Top \in Frames
  BY <1>0, TopType DEF WakeupThread, WakeOne, NeedQueue
<1>2. /\ t \in Threads /\ Place(links, t) = q /\ links.at[t] = q
      /\ R \in Links /\ OthersPlaced(R, state, suspend, prio, t) /\ R.at[t] = q
  <2> HIDE DEF q
  <2> QED
    BY <1>0, <1>1, PopPlaced
<1>3. /\ \/ /\ Terminated(t) \/ suspend[t] >= 1
            /\ state' = IF Terminated(t) THEN state ELSE [state EXCEPT ![t] = "ready"]
            /\ links' = IF Terminated(t) THEN ClearQueuePointer(R, t) ELSE R
            /\ UNCHANGED <<resched, stack>>
         \/ /\ ~Terminated(t) /\ suspend[t] < 1
            /\ state' = [state EXCEPT ![t] = "ready"]
            /\ links' = LinkThreadOnRunQueue(R, t, ClampPrio(prio[t]))
            /\ resched' = TRUE
            /\ Continue(<<[Top EXCEPT !.flag = TRUE]>>)
      /\ UNCHANGED <<suspend, prio, threadList, disable, running, current, fiber, fiberThread, host>>
  BY DEF WakeupThread, WakeOne, listVars, fiberVars
<1> HIDE DEF t, R, q
<1>4. state[t] = "waiting" /\ fiber[t] = "live" /\ ~Terminated(t) /\ (suspend[t] = 0 => prio[t] \in Prios)
  BY <1>0, <1>1, <1>2, PlaceOf DEF Placed, Terminated, ThreadStateIsTerminated
<1>5. /\ state' = [state EXCEPT ![t] = "ready"] /\ state'[t] = "ready"
      /\ \A u \in Threads \ {t} : state'[u] = state[u]
      /\ (state'[host] = "running") <=> (state[host] = "running")
  BY <1>0, <1>2, <1>3, <1>4
<1>6. AllPlaced(links', state', suspend', prio') => ThreadsOK'
  <2>1. t \in threadList
    BY <1>0, <1>2, <1>4 DEF ThreadsOK, ThreadListExact
  <2> QED
    BY <1>0, <1>2, <1>3, <1>4, <1>5, <2>1, OneThread
<1>7. None \notin RunQueues /\ None \notin BlockQueues
  BY NoneIsNoQueue DEF Queues
<1>8. CASE suspend[t] >= 1
  <2>1. links' = R /\ UNCHANGED <<resched, stack>>
    BY <1>0, <1>2, <1>3, <1>4, <1>8
  <2>2. ControlOK'
    <3>1. \E pc : At(pc) /\ pc \notin {"suspend", "pick"}
      BY <1>1
    <3>2. resched' \in BOOLEAN /\ (resched => resched') /\ stack' = stack
      BY <1>0, <2>1
    <3> QED
      BY <1>0, <1>3, <1>5, <3>1, <3>2, CommonCall, CommonLists
  <2>3. Placed(None, links'.at[t], state'[t], suspend'[t], prio'[t])
    BY <1>0, <1>2, <1>3, <1>5, <1>7, <1>8, <2>1 DEF Placed, ThreadStateIsTerminated
  <2>4. links' \in Links /\ OthersPlaced(links', state, suspend, prio, t)
    BY <1>2, <2>1
  <2>5. AllPlaced(links', state', suspend', prio')
    <3>1. \A u \in Threads \ {t} : state'[u] = state[u] /\ suspend'[u] = suspend[u] /\ prio'[u] = prio[u]
      BY <1>3, <1>5
    <3> QED
      BY <1>2, <2>3, <2>4, <3>1, StayPlaced
  <2> QED
    BY <1>6, <2>2, <2>5 DEF SchedInv
<1>9. CASE suspend[t] < 1
  <2>1. /\ links' = LinkThreadOnRunQueue(R, t, ClampPrio(prio[t]))
        /\ resched' = TRUE /\ Continue(<<[Top EXCEPT !.flag = TRUE]>>) /\ suspend[t] = 0
    BY <1>0, <1>2, <1>3, <1>4, <1>9
  <2>2. prio[t] \in Prios /\ ClampPrio(prio[t]) = prio[t] /\ prio[t] \in 0 .. MaxPrio + 1
    BY <1>0, <1>2, <1>4, <2>1, QueueConstants DEF Prios, ClampPrio
  <2>3. Placed(RunQueue(prio[t]), RunQueue(prio[t]), state'[t], suspend[t], prio[t])
    BY <1>5, <1>7, <2>1, <2>2, QueueFacts DEF Placed, ThreadStateIsTerminated, RunQueues
  <2>4. AllPlaced(links', state', suspend', prio')
    <3>1. links' = LinkThreadOnRunQueue(R, t, prio[t]) /\ UNCHANGED <<suspend, prio>>
      BY <1>3, <2>1, <2>2
    <3>2. AllPlaced(LinkThreadOnRunQueue(R, t, prio[t]), state', suspend, prio)
      BY <1>2, <1>5, <2>2, <2>3, LinkPlaced
    <3> QED
      BY <3>1, <3>2
  <2> DEFINE g == [Top EXCEPT !.flag = TRUE]
  <2>5. g \in Frames /\ g.pc = "wake"
    <3>1. Top.pc = "wake"
      BY <1>1 DEF At
    <3> QED
      BY <1>1, <3>1, With_flag
  <2>6. Continue(<<g>>)
    BY <2>1
  <2> HIDE DEF g
  <2>7. <<g>> \in Seq(CommonFrames)
    BY <2>5, CommonLists DEF CommonFrames, Common
  <2>8. "wake" \notin KeyPCs(resched) \cup Deferring \cup Unready
    BY DEF KeyPCs, Deferring, Unready
  <2>9. ControlOK'
    BY <1>0, <1>1, <1>3, <1>5, <2>1, <2>6, <2>7, <2>8, CommonStep
  <2> QED
    BY <1>6, <2>4, <2>9 DEF SchedInv
<1> QED
  BY <1>0, <1>2, <1>8, <1>9

\* The running thread goes to sleep on a queue, unless it cannot switch away.
LEMMA SleepControl ==
    ASSUME KInv, SchedInv, SleepThread
    PROVE  SchedInv'
<1> DEFINE q == Top.que
<1>0. /\ ControlOK /\ ThreadsOK /\ host \in Threads /\ resched \in BOOLEAN /\ host # None
      /\ state \in [Threads -> States] /\ links \in Links
      /\ suspend \in [Threads -> Nat] /\ stack \in Stacks /\ prio \in [Threads -> Nat]
      /\ stack \in [Threads -> Seq(GoodFrames)]
  BY SchedTypes, TypeStacks, QueueConstants DEF SchedInv, KInv
<1>1. At("sleep") /\ q \in BlockQueues /\ Top \in Frames /\ running = host /\ current = host /\ state[host] = "running"
  BY <1>0, TopType, RunningTop DEF SleepThread, NeedQueue
<1>2. "sleep" \notin Deferring \cup Unready
  BY DEF Deferring, Unready
<1>3. UNCHANGED <<suspend, prio, threadList, disable, running, current, fiber, fiberThread, host>>
  BY <1>0, <1>1 DEF SleepThread, listVars, fiberVars
<1>4. CASE disable # 0
  <2>1. Return /\ UNCHANGED <<state, links, resched>>
    BY <1>4 DEF SleepThread
  <2>2. ControlOK'
    BY <1>0, <1>1, <1>2, <1>3, <2>1, OwnStep, OwnPushed DEF ControlOK
  <2> QED
    BY <1>0, <1>3, <2>1, <2>2, ThreadsSame DEF SchedInv
<1>5. CASE disable = 0
  <2> DEFINE g == [Top EXCEPT !.pc = "slept"]
             f == [g EXCEPT !.thr = host]
             k == SelectThread(FALSE)
             v == Tail(stack[host])
  <2>1. /\ state' = [state EXCEPT ![host] = "waiting"] /\ resched' = TRUE
        /\ links' = InsertThreadIntoQueueByPriority(links, prio, q, host, prio[host])
        /\ Continue(<<k, f>>)
    BY <1>0, <1>1, <1>5 DEF SleepThread
  <2>2. f \in OwnFrames(host)
    <3>1. "slept" \in PCs /\ "slept" \in Ordinary
      BY DEF PCs, Ordinary, Unready, Deferring
    <3>2. g \in Frames /\ g.pc = "slept"
      BY <1>1, <3>1, With_pc
    <3> HIDE DEF g
    <3>3. f \in Frames /\ f.pc = "slept" /\ f.thr = host
      BY <1>0, <3>2, With_thr
    <3> HIDE DEF f
    <3> QED
      BY <3>1, <3>3 DEF OwnFrames, Own
  <2> HIDE DEF g, f
  <2>3. k \in Frames /\ k.pc \in KeyPCs(TRUE) \ {"pick"}
    BY PushedPCs DEF KeyPCs
  <2> HIDE DEF k
  <2>4. /\ v \in Seq(Frames) /\ Clear(v)
        /\ HostOK(host, host, host, TRUE, 0, resched, links.pending, v)
    BY <1>0, <1>1, <1>2, <1>5, RunningStack
  <2>5. stack'[host] = <<k, f>> \o v /\ \A u \in Threads \ {host} : stack'[u] = stack[u]
    BY <1>0, <2>1 DEF Continue
  <2> HIDE DEF v
  <2>6. f \in Frames /\ <<f>> \in Seq(OwnFrames(host)) /\ <<>> \in Seq(Frames)
    BY <2>2 DEF OwnFrames
  <2>7. <<k, f>> \o v = <<>> \o (<<k>> \o (<<f>> \o v))
    BY <2>3, <2>4, <2>6
  <2>8. ControlOK'
    <3>1. state'[host] # "running" /\ disable' = 0 /\ k.pc \in KeyPCs(resched') \ {"pick"}
      BY <1>0, <1>3, <1>5, <2>1, <2>3
    <3>2. \A u \in Threads \ {host} : OtherOK(u, stack'[u])
      BY <1>0, <2>5 DEF ControlOK
    <3>3. \A i \in DOMAIN <<>> : <<>>[i].pc \in LeaveFrames
      OBVIOUS
    <3>4. stack'[host] = <<>> \o (<<k>> \o (<<f>> \o v)) /\ fiberThread' \in {None, host}
      BY <1>0, <1>3, <2>5, <2>7 DEF ControlOK
    <3> QED
      BY <1>0, <1>1, <1>3, <2>3, <2>4, <2>6, <3>1, <3>2, <3>3, <3>4, LeaveStep
  <2>9. AllPlaced(links', state', suspend', prio')
    <3>1. OthersPlaced(links, state, suspend, prio, host) /\ suspend[host] = 0 /\ prio[host] \in Prios
      BY <1>0, <1>1, PlaceOf DEF ThreadStateIsTerminated
    <3>2. q \in Queues /\ q \notin RunQueues /\ prio[host] \in Nat
      BY <1>0, <1>1, QueueFacts DEF RunQueues
    <3>3. Placed(q, q, state'[host], suspend'[host], prio[host])
      <4>1. q # None
        BY <3>2, NoneIsNoQueue
      <4> QED
        BY <1>0, <1>1, <1>3, <2>1, <3>1, <3>2, <4>1 DEF Placed, ThreadStateIsTerminated
    <3>4. \A u \in Threads \ {host} : state'[u] = state[u] /\ suspend'[u] = suspend[u] /\ prio'[u] = prio[u]
      BY <1>0, <1>3, <2>1
    <3> HIDE DEF q
    <3>5. AllPlaced(InsertThreadIntoQueueByPriority(links, prio, q, host, prio[host]), state', suspend', prio')
      BY <1>0, <1>3, <3>1, <3>2, <3>3, <3>4, InsertPlaced
    <3> QED
      BY <2>1, <3>5
  <2>10. ThreadsOK'
    <3>1. fiber[host] = "live" /\ host \in threadList
      BY <1>0, <1>1 DEF ThreadsOK, FiberByState, ThreadListExact, ThreadStateIsTerminated
    <3>2. state'[host] = "waiting" /\ \A u \in Threads \ {host} : state'[u] = state[u]
      BY <1>0, <2>1
    <3> QED
      BY <1>0, <1>3, <2>9, <3>1, <3>2, OneThread
  <2> QED
    BY <2>8, <2>10 DEF SchedInv
<1> QED
  BY <1>4, <1>5

\* The undo of a sleep or of a park that did not switch away has nothing to do:
\* a thread is only back from SelectThread when it runs again.
LEMMA WokenControl ==
    ASSUME KInv, SchedInv, Slept \/ Ticked
    PROVE  SchedInv' /\ UNCHANGED <<state, suspend, links>>
<1>0. /\ ControlOK /\ ThreadsOK /\ host \in Threads /\ resched \in BOOLEAN
  BY SchedTypes DEF SchedInv
<1>1. /\ Slept => At("slept")
      /\ Ticked => At("ticked")
  BY DEF Slept, Ticked
<1>2. state[host] = "running" /\ Top.thr = host
  BY <1>0, <1>1, RunningTop, TopOwn DEF Own
<1>3. suspend[host] = 0
  BY <1>0, <1>2 DEF ThreadsOK, RunningOne
<1>4. /\ Return
      /\ UNCHANGED <<state, suspend, prio, links, running, fiber, threadList, host, current,
                     disable, fiberThread, resched>>
  BY <1>2, <1>3 DEF Slept, Ticked, schedVars, listVars, fiberVars
<1>5. {"slept", "ticked"} \cap (Deferring \cup Unready) = {}
  BY DEF Deferring, Unready
<1>6. ControlOK'
  BY <1>0, <1>1, <1>2, <1>4, <1>5, OwnStep, OwnPushed DEF ControlOK
<1> QED
  BY <1>0, <1>4, <1>6, ThreadsSame DEF SchedInv

\* A thread gets another priority: it is queued anew where it was.
LEMMA SetPriority ==
    ASSUME KInv, SchedInv, NEW t \in Threads, NEW p \in Prios, suspend[t] = 0,
           SetThreadEffectivePriority(t, p)
    PROVE  AllPlaced(links', state, suspend, prio') /\ resched' \in BOOLEAN /\ (resched => resched')
<1>0. /\ ThreadsOK /\ AllPlaced(links, state, suspend, prio) /\ links \in Links
      /\ state \in [Threads -> States] /\ prio \in [Threads -> Nat] /\ resched \in BOOLEAN
  BY SchedTypes DEF SchedInv, ThreadsOK
<1>1. resched' \in BOOLEAN /\ (resched => resched')
  BY <1>0 DEF SetThreadEffectivePriority
<1>2. p \in Nat /\ p \in 0 .. MaxPrio + 1
  BY QueueConstants DEF Prios
<1>3. CASE ThreadStateIsTerminated(state[t])
  BY <1>0, <1>1, <1>3 DEF SetThreadEffectivePriority, ThreadStateIsTerminated
<1>4. CASE ~ThreadStateIsTerminated(state[t])
  <2> DEFINE off == RemoveThreadFromQueue(links, t)
  <2>1. /\ prio' = [prio EXCEPT ![t] = p] /\ prio'[t] = p
        /\ \A u \in Threads \ {t} : prio'[u] = prio[u]
    BY <1>0, <1>4 DEF SetThreadEffectivePriority
  <2>2. ASSUME NEW q \in Queues, links.at[t] # None => Place(links, t) # None,
               links' = InsertThreadIntoQueueByPriority(off, prio, q, t, p),
               Placed(q, q, state[t], suspend[t], p)
        PROVE  AllPlaced(links', state, suspend, prio')
    <3>1. off \in Links /\ OthersPlaced(off, state, suspend, prio, t)
      BY <1>0, <2>2, RemovePlaced
    <3> HIDE DEF off
    <3>2. AllPlaced(InsertThreadIntoQueueByPriority(off, prio, q, t, p), state, suspend, prio')
      BY <1>0, <1>2, <2>1, <2>2, <3>1, InsertPlaced
    <3> QED
      BY <2>2, <3>2
  <2>3. CASE state[t] = "ready"
    <3>1. links' = InsertThreadIntoQueueByPriority(off, prio, RunQueue(p), t, p)
      BY <2>3 DEF SetThreadEffectivePriority
    <3>2. Placed(RunQueue(p), RunQueue(p), state[t], suspend[t], p) /\ RunQueue(p) \in Queues
      <4>1. RunQueue(p) \in RunQueues /\ RunQueue(p) \notin BlockQueues /\ RunQueue(p) \in Queues
        BY <1>2, QueueFacts DEF RunQueues
      <4>2. RunQueue(p) # None
        BY <4>1, NoneIsNoQueue
      <4> QED
        BY <2>3, <4>1, <4>2 DEF Placed, ThreadStateIsTerminated
    <3>3. Place(links, t) # None
      BY <1>0, <2>3, PlaceOf
    <3> QED
      BY <1>1, <2>2, <3>1, <3>2, <3>3
  <2>4. CASE state[t] = "waiting"
    <3>1. links.at[t] \in BlockQueues /\ links.at[t] # None /\ Place(links, t) # None
      BY <1>0, <2>4, PlaceOf
    <3>2. links' = InsertThreadIntoQueueByPriority(off, prio, links.at[t], t, p)
      BY <2>4, <3>1 DEF SetThreadEffectivePriority
    <3>3. Placed(links.at[t], links.at[t], state[t], suspend[t], p) /\ links.at[t] \in Queues
      <4>1. links.at[t] \notin RunQueues /\ links.at[t] \in Queues
        BY <3>1, QueueFacts DEF RunQueues
      <4> QED
        BY <2>4, <3>1, <4>1 DEF Placed, ThreadStateIsTerminated
    <3> QED
      BY <1>1, <2>2, <3>1, <3>2, <3>3
  <2>5. CASE state[t] = "running"
    <3>1. links' = links
      BY <2>5 DEF SetThreadEffectivePriority
    <3>2. OthersPlaced(links, state, suspend, prio, t) /\ links.at[t] = None
      BY <1>0, <2>5, PlaceOf
    <3>3. Placed(None, links.at[t], state[t], suspend[t], prio'[t])
      <4>1. None \notin RunQueues /\ None \notin BlockQueues
        BY NoneIsNoQueue DEF Queues
      <4> QED
        BY <2>1, <2>5, <3>2, <4>1 DEF Placed, ThreadStateIsTerminated
    <3> QED
      BY <1>0, <1>1, <2>1, <3>1, <3>2, <3>3, StayPlaced
  <2> QED
    BY <1>0, <1>1, <1>4, <2>3, <2>4, <2>5 DEF States, ThreadStateIsTerminated
<1> QED
  BY <1>3, <1>4

\* Priority inheritance moves threads within the queues, and nothing else.
LEMMA InheritanceControl ==
    ASSUME KInv, SchedInv, PromoteThreadPriority \/ PropagateMutexOwnerPriority
    PROVE  SchedInv'
<1>0. /\ ControlOK /\ ThreadsOK /\ host \in Threads /\ resched \in BOOLEAN /\ fiberThread \in {None, host}
      /\ stack \in Stacks /\ prio \in [Threads -> 0 .. MaxPrio + 1] /\ links \in Links /\ base \in [Threads -> Prios]
      /\ suspend \in [Threads -> Nat] /\ owned \in [Threads -> Seq(Mutexes)]
      /\ owner \in [Mutexes -> Threads \cup {None}] /\ waitMutex \in [Threads -> Mutexes \cup {None}]
  BY SchedTypes, TypeStacks DEF SchedInv, ControlOK, KInv, TypeOK
<1>1. {"promote", "propagate"} \cap (Deferring \cup Unready \cup KeyPCs(resched)) = {}
  BY DEF Deferring, Unready, KeyPCs
<1>2. \A t \in Threads : NextOwner(t) \in Threads \cup {None}
  BY <1>0 DEF NextOwner
<1>3. UNCHANGED <<state, suspend, running, fiber, threadList, host, current, disable, fiberThread>>
  BY DEF PromoteThreadPriority, PropagateMutexOwnerPriority, listVars, fiberVars
<1>4. AllPlaced(links', state, suspend, prio') => ThreadsOK'
  BY <1>0, <1>3 DEF ThreadsOK, RunningOne, FiberByState, ThreadListExact
<1>5. CASE PromoteThreadPriority
  <2>1. At("promote") /\ state[host] = "running" /\ Top.thr \in Threads \cup {None} /\ Top.num \in 0 .. MaxPrio + 1
    <3>1. At("promote") /\ Top \in Frames
      BY <1>0, <1>5, TopType DEF PromoteThreadPriority
    <3> QED
      BY <1>0, <3>1, RunningTop DEF Frames
  <2>2. CASE Return /\ UNCHANGED <<prio, resched, links>>
    <3>1. ControlOK'
      BY <1>0, <1>1, <1>3, <2>1, <2>2, OwnStep, OwnPushed
    <3> QED
      BY <1>0, <1>3, <2>2, <3>1, ThreadsSame DEF SchedInv
  <2>3. CASE ~(Top.thr = None \/ suspend[Top.thr] > 0 \/ prio[Top.thr] <= Top.num)
    <3>1. /\ Top.thr \in Threads /\ suspend[Top.thr] = 0 /\ Top.num \in Prios
          /\ SetThreadEffectivePriority(Top.thr, Top.num)
          /\ Continue(<<Promote(NextOwner(Top.thr), Top.num)>>)
      <4>1. Top.thr \in Threads
        BY <2>1, <2>3
      <4>2. suspend[Top.thr] = 0
        BY <1>0, <2>3, <4>1
      <4>3. Top.num \in Prios
        BY <1>0, <2>1, <2>3, <4>1, QueueConstants DEF Prios
      <4> QED
        BY <1>5, <2>3, <4>1, <4>2, <4>3 DEF PromoteThreadPriority
    <3>2. AllPlaced(links', state, suspend, prio') /\ resched' \in BOOLEAN /\ (resched => resched')
      BY <3>1, SetPriority
    <3> DEFINE g == Promote(NextOwner(Top.thr), Top.num)
    <3>3. g \in OwnFrames(host)
      BY <1>2, <2>1, <3>1, OwnPushed
    <3> HIDE DEF g
    <3>4. <<g>> \in Seq(OwnFrames(host))
      BY <3>3
    <3>5. ControlOK'
      BY <1>0, <1>1, <1>3, <2>1, <3>1, <3>2, <3>4, OwnStep DEF g
    <3> QED
      BY <1>4, <3>2, <3>5 DEF SchedInv
  <2> QED
    BY <1>5, <2>2, <2>3 DEF PromoteThreadPriority
<1>6. CASE PropagateMutexOwnerPriority
  <2>1. At("propagate") /\ Top.thr \in Threads \cup {None}
    <3>1. At("propagate") /\ Top \in Frames
      BY <1>0, <1>6, TopType DEF PropagateMutexOwnerPriority
    <3> QED
      BY <3>1 DEF Frames
  <2>2. CASE Return /\ UNCHANGED <<prio, resched, links>>
    <3>1. ControlOK'
      BY <1>0, <1>1, <1>3, <2>1, <2>2, CommonStep, CommonLists
    <3> QED
      BY <1>0, <1>3, <2>2, <3>1, ThreadsSame DEF SchedInv
  <2>3. CASE ~(Top.thr = None \/ suspend[Top.thr] > 0 \/ prio[Top.thr] = EffectivePriority(Top.thr))
    <3>1. /\ Top.thr \in Threads /\ suspend[Top.thr] = 0 /\ EffectivePriority(Top.thr) \in Prios
          /\ SetThreadEffectivePriority(Top.thr, EffectivePriority(Top.thr))
          /\ Continue(<<On("propagate", NextOwner(Top.thr))>>)
      <4>1. Top.thr \in Threads
        BY <2>1, <2>3
      <4>2. suspend[Top.thr] = 0
        BY <1>0, <2>3, <4>1
      <4>3. EffectivePriority(Top.thr) \in Prios
        BY <1>0, <4>1, EffectivePriorityType DEF EffectivePriority
      <4> QED
        BY <1>6, <2>3, <4>1, <4>2, <4>3 DEF PropagateMutexOwnerPriority
    <3>2. AllPlaced(links', state, suspend, prio') /\ resched' \in BOOLEAN /\ (resched => resched')
      BY <3>1, SetPriority
    <3>3. <<On("propagate", NextOwner(Top.thr))>> \in Seq(CommonFrames)
      BY <1>2, <3>1, CommonPushed, CommonLists
    <3> DEFINE fs == <<On("propagate", NextOwner(Top.thr))>>
    <3>4. fs \in Seq(CommonFrames) /\ Continue(fs)
      BY <3>1, <3>3
    <3> HIDE DEF fs
    <3>5. ControlOK'
      BY <1>0, <1>1, <1>3, <2>1, <3>2, <3>4, CommonStep
    <3> QED
      BY <1>4, <3>2, <3>5 DEF SchedInv
  <2> QED
    BY <1>6, <2>2, <2>3 DEF PropagateMutexOwnerPriority
<1> QED
  BY <1>5, <1>6

\* Who makes a call: a thread that is running, or a handler in the idle loop.
LEMMA CallerOK ==
    ASSUME KInv, ControlOK, NEW c, MayCall(c)
    PROVE  /\ Clear(stack[host]) /\ (AtGuest \/ \E pc : At(pc) /\ pc \notin {"suspend", "pick"})
           /\ running # None => running = host /\ state[host] = "running"
           /\ AtGuest => state[host] = "running" /\ running = host /\ current = host /\ disable = 0
<1>1. AtGuest \/ At("handler")
  BY DEF MayCall, AtHandler
<1>2. "handler" \notin {"suspend", "pick"} /\ "handler" \notin KeyPCs(resched) \cup LeaveFrames
  BY DEF KeyPCs, LeaveFrames, Common
<1>3. Clear(stack[host]) /\ (AtGuest \/ \E pc : At(pc) /\ pc \notin {"suspend", "pick"})
  BY <1>1, <1>2, ClearTop
<1>4. running # None => running = host /\ state[host] = "running"
  BY <1>1, <1>2, ModeOf
<1>5. AtGuest => disable = 0
  <2>1. stack[host] \in Seq(Frames)
    BY SchedTypes
  <2>2. disable = Count(stack[host])
    BY DEF ControlOK, HostOK
  <2>3. AtGuest => \A i \in DOMAIN stack[host] : stack[host][i].pc \notin Deferring
    BY DEF AtGuest
  <2> QED
    BY <2>1, <2>2, <2>3, CountZero
<1> QED
  BY <1>3, <1>4, <1>5, ModeOf

\* OSUnlockMutex gives back a borrowed priority; its caller is on no queue.
LEMMA UnlockControl ==
    ASSUME KInv, SchedInv, NEW m \in Mutexes, OSUnlockMutex(m)
    PROVE  SchedInv'
<1>0. /\ ControlOK /\ ThreadsOK /\ host \in Threads /\ resched \in BOOLEAN
      /\ links \in Links /\ prio \in [Threads -> 0 .. MaxPrio + 1] /\ base \in [Threads -> Prios]
      /\ owned \in [Threads -> Seq(Mutexes)]
  BY SchedTypes DEF SchedInv, KInv, TypeOK
<1>1. /\ MayCall("unlock") /\ running # None
      /\ UNCHANGED <<state, suspend, links, running, fiber, threadList, host, current, disable, fiberThread, resched>>
  BY DEF OSUnlockMutex, schedVars, listVars, fiberVars
<1>2. /\ running = host /\ state[host] = "running"
      /\ AtGuest \/ \E pc : At(pc) /\ pc \notin {"suspend", "pick"}
  BY <1>0, <1>1, CallerOK
<1>3. CASE count[m] # 1
  <2>1. UNCHANGED <<prio, stack>>
    BY <1>3 DEF OSUnlockMutex
  <2>2. ControlOK'
    BY <1>0, <1>1, <1>2, <2>1, CommonCall, CommonLists
  <2> QED
    BY <1>0, <1>1, <2>1, <2>2, ThreadsSame DEF SchedInv
<1>4. CASE count[m] = 1
  <2> DEFINE kept == UnlinkGuestListNode(owned[running], m)
             eff  == ComputeThreadEffectivePriority(links, prio, base[running], kept)
             fs   == <<OnQ("wake", MutexQueue(m))>>
  <2>1. /\ prio' = IF prio[host] < base[host] THEN [prio EXCEPT ![host] = eff] ELSE prio
        /\ Call(fs)
    BY <1>2, <1>4 DEF OSUnlockMutex
  <2>2. eff \in Prios
    <3>1. kept \in Seq(Mutexes)
      BY <1>0, <1>2, UnlinkType
    <3> HIDE DEF kept
    <3> QED
      BY <1>0, <1>2, <3>1, EffectivePriorityType
  <2>3. fs \in Seq(CommonFrames)
    BY CommonPushed, CommonLists, QueueFacts
  <2> HIDE DEF eff, fs
  <2>4. ControlOK'
    BY <1>0, <1>1, <1>2, <2>1, <2>3, CommonCall
  <2>5. OthersPlaced(links, state, suspend, prio, host) /\ links.at[host] = None /\ suspend[host] = 0
          /\ prio[host] \in Prios
    BY <1>0, <1>2, PlaceOf DEF ThreadStateIsTerminated
  <2>6. prio'[host] \in Prios /\ \A u \in Threads \ {host} : prio'[u] = prio[u]
    BY <1>0, <2>1, <2>2, <2>5
  <2>7. Placed(None, links.at[host], state[host], suspend[host], prio'[host])
    <3>1. None \notin RunQueues /\ None \notin BlockQueues
      BY NoneIsNoQueue DEF Queues
    <3> QED
      BY <1>2, <2>5, <2>6, <3>1 DEF Placed, ThreadStateIsTerminated
  <2>8. AllPlaced(links, state, suspend, prio')
    BY <1>0, <2>5, <2>6, <2>7, StayPlaced
  <2>9. ThreadsOK'
    BY <1>0, <1>1, <2>8 DEF ThreadsOK, RunningOne, FiberByState, ThreadListExact
  <2> QED
    BY <2>4, <2>9 DEF SchedInv
<1> QED
  BY <1>3, <1>4

\* A further suspension of a suspended thread, or the end of one of several.
LEMMA CountedPlaced ==
    ASSUME NEW L, NEW S, NEW U \in [Threads -> Nat], NEW P, AllPlaced(L, S, U, P), NEW t \in Threads,
           NEW n \in Nat, U[t] >= 1 /\ n >= 1
    PROVE  AllPlaced(L, S, [U EXCEPT ![t] = n], P)
<1>1. ASSUME NEW u \in Threads
      PROVE  Placed(Place(L, u), L.at[u], S[u], [U EXCEPT ![t] = n][u], P[u])
  <2>1. Placed(Place(L, u), L.at[u], S[u], U[u], P[u])
    BY DEF AllPlaced
  <2>2. CASE u = t
    <3>1. [U EXCEPT ![t] = n][u] = n /\ U[u] >= 1 /\ U[u] \in Nat
      BY <2>2
    <3>2. n # 0 /\ U[u] # 0
      BY <3>1
    <3> QED
      BY <2>1, <3>1, <3>2 DEF Placed
  <2>3. CASE u # t
    BY <2>1, <2>3
  <2> QED
    BY <2>2, <2>3
<1> QED
  BY <1>1 DEF AllPlaced

\* A thread is suspended: the running one stops running, another one leaves its
\* run queue or stays on its wait queue with the priority of a suspended waiter.
LEMMA SuspendControl ==
    ASSUME KInv, SchedInv, SuspendThread
    PROVE  SchedInv'
<1> DEFINE t == Top.thr
           off == RemoveThreadFromQueue(links, t)
<1>0. /\ ControlOK /\ ThreadsOK /\ host \in Threads /\ resched \in BOOLEAN /\ stack \in Stacks
      /\ state \in [Threads -> States] /\ links \in Links /\ AllPlaced(links, state, suspend, prio)
      /\ suspend \in [Threads -> Nat] /\ prio \in [Threads -> Nat]
      /\ owner \in [Mutexes -> Threads \cup {None}] /\ waitMutex \in [Threads -> Mutexes \cup {None}]
      /\ stack \in [Threads -> Seq(GoodFrames)] /\ fiberThread \in {None, host}
  BY SchedTypes, TypeStacks DEF SchedInv, KInv, TypeOK, ThreadsOK, ControlOK
<1>9. links \in Links /\ host \in Threads /\ prio \in [Threads -> Nat]
  BY <1>0
<1>1. At("suspend") /\ t \in Threads /\ disable = 0 /\ state[host] = "running" /\ running = host /\ current = host
  BY <1>0, TopType, TopOwn, RunningTop DEF SuspendThread, NeedThread
<1>2. "suspend" \notin Deferring \cup Unready \cup KeyPCs(resched)
  BY DEF Deferring, Unready, KeyPCs
<1>3. /\ UNCHANGED <<threadList, disable, running, current, fiber, fiberThread, host>>
      /\ suspend' = [suspend EXCEPT ![t] = @ + 1]
      /\ suspend'[t] = suspend[t] + 1 /\ \A u \in Threads \ {t} : suspend'[u] = suspend[u]
  BY <1>0, <1>1 DEF SuspendThread, listVars, fiberVars
<1>4. suspend[host] = 0 /\ \A u \in Threads \ {host} : state[u] # "running"
  BY <1>0, <1>1 DEF ThreadsOK, RunningOne
<1>5. CASE suspend[t] # 0
  <2>1. Return /\ UNCHANGED <<state, prio, links, resched>>
    BY <1>5 DEF SuspendThread
  <2>2. ControlOK'
    BY <1>0, <1>1, <1>2, <1>3, <2>1, CommonStep, CommonLists
  <2>3. suspend[t] >= 1 /\ suspend[t] + 1 >= 1 /\ suspend[t] + 1 \in Nat
    BY <1>0, <1>1, <1>5
  <2> HIDE DEF t
  <2>4. AllPlaced(links', state', suspend', prio')
    BY <1>0, <1>1, <1>3, <2>1, <2>3, CountedPlaced
  <2>5. ThreadsOK'
    BY <1>0, <1>3, <1>4, <1>5, <2>1, <2>4 DEF ThreadsOK, RunningOne, FiberByState, ThreadListExact
  <2> QED
    BY <2>2, <2>5 DEF SchedInv
<1>6. CASE suspend[t] = 0
  <2>1. /\ state' = IF state[t] = "running" THEN [state EXCEPT ![t] = "ready"] ELSE state
        /\ resched' = (resched \/ state[t] = "running")
        /\ prio' = IF state[t] = "waiting" THEN [prio EXCEPT ![t] = SuspendedWaitPriority] ELSE prio
        /\ links' = CASE state[t] = "ready" -> off
                      [] state[t] = "waiting" /\ links.at[t] # None ->
                           InsertThreadIntoQueueByPriority(off, prio, links.at[t], t, SuspendedWaitPriority)
                      [] OTHER -> links
        /\ Continue(IF state[t] = "waiting"
                    THEN <<On("propagate", OwnerOf(waitMutex[t])), Frame("resched")>>
                    ELSE <<Frame("resched")>>)
    BY <1>6 DEF SuspendThread
  <2>2. suspend'[t] = 1 /\ None \notin RunQueues /\ None \notin BlockQueues
    BY <1>3, <1>6, NoneIsNoQueue DEF Queues
  <2>3. OwnerOf(waitMutex[t]) \in Threads \cup {None}
    BY <1>0, <1>1 DEF OwnerOf
  <2>4. Frame("resched") \in CommonFrames
    BY CommonPushed
  <2> HIDE DEF t
  <2>5. CASE state[t] = "running"
    <3>1. /\ t = host /\ state' = [state EXCEPT ![host] = "ready"] /\ resched' = TRUE
          /\ UNCHANGED <<prio, links>> /\ Continue(<<Frame("resched")>>)
      BY <1>0, <1>1, <1>4, <2>1, <2>5
    <3> DEFINE k == Frame("resched")
               v == Tail(stack[host])
    <3>2. k \in Frames /\ k.pc \in KeyPCs(resched') \ {"pick"}
      BY <3>1, PushedPCs DEF PCs, KeyPCs
    <3> HIDE DEF k
    <3>3. /\ v \in Seq(Frames) /\ Clear(v)
          /\ HostOK(host, host, host, TRUE, 0, resched, links.pending, v)
      BY <1>0, <1>1, <1>2, RunningStack
    <3>4. stack'[host] = <<k>> \o v /\ \A u \in Threads \ {host} : stack'[u] = stack[u]
      BY <1>0, <3>1 DEF Continue, k
    <3> HIDE DEF v
    <3>5. <<>> \in Seq(OwnFrames(host)) /\ <<>> \in Seq(Frames) /\ <<>> \o v = v
      BY <3>3
    <3>6. <<k>> \o v = <<>> \o (<<k>> \o (<<>> \o v))
      BY <3>2, <3>3
    <3>7. ControlOK'
      <4>1. state'[host] # "running" /\ disable' = 0
        BY <1>0, <1>1, <1>3, <3>1
      <4>2. \A u \in Threads \ {host} : OtherOK(u, stack'[u])
        BY <1>0, <3>4 DEF ControlOK
      <4>3. \A i \in DOMAIN <<>> : <<>>[i].pc \in LeaveFrames
        OBVIOUS
      <4>4. stack'[host] = <<>> \o (<<k>> \o (<<>> \o v)) /\ fiberThread' \in {None, host}
        BY <1>0, <1>3, <3>4, <3>6
      <4> QED
        BY <1>0, <1>1, <1>3, <3>2, <3>3, <3>5, <4>1, <4>2, <4>3, <4>4, LeaveStep
    <3>8. OthersPlaced(links, state, suspend, prio, host) /\ links.at[host] = None
            /\ fiber[host] = "live" /\ host \in threadList
      BY <1>0, <1>1, PlaceOf DEF ThreadStateIsTerminated, ThreadsOK, ThreadListExact
    <3>9. state'[host] = "ready" /\ \A u \in Threads \ {host} : state'[u] = state[u]
      BY <1>0, <3>1
    <3>10. AllPlaced(links', state', suspend', prio')
      <4>1. Placed(None, links.at[host], state'[host], suspend'[host], prio'[host])
        BY <2>2, <3>1, <3>8, <3>9 DEF Placed, ThreadStateIsTerminated
      <4>2. \A u \in Threads \ {host} : state'[u] = state[u] /\ suspend'[u] = suspend[u] /\ prio'[u] = prio[u]
        BY <1>3, <3>1, <3>9
      <4>3. AllPlaced(links, state', suspend', prio')
        BY <1>9, <3>8, <4>1, <4>2, StayPlaced
      <4> QED
        BY <3>1, <4>3
    <3>11. ThreadsOK'
      BY <1>0, <1>3, <3>1, <3>8, <3>9, <3>10, OneThread
    <3> QED
      BY <3>7, <3>11 DEF SchedInv
  <2>6. CASE state[t] # "running"
    <3>1. UNCHANGED <<state, resched>> /\ t # host
      <4>1. state' = state /\ t # host
        BY <1>1, <2>1, <2>6
      <4>2. resched' = resched
        BY <1>0, <2>1, <2>6
      <4> QED
        BY <4>1, <4>2
    <3>2. AllPlaced(links', state', suspend', prio') => ThreadsOK'
      BY <1>0, <1>3, <2>6, <3>1 DEF ThreadsOK, RunningOne, FiberByState, ThreadListExact
    <3>3. ControlOK'
      <4> DEFINE fs == IF state[t] = "waiting"
                       THEN <<On("propagate", OwnerOf(waitMutex[t])), Frame("resched")>>
                       ELSE <<Frame("resched")>>
      <4>1. fs \in Seq(CommonFrames)
        BY <2>3, <2>4, CommonPushed, CommonLists
      <4>2. Continue(fs)
        BY <2>1
      <4> HIDE DEF fs
      <4> QED
        BY <1>0, <1>1, <1>2, <1>3, <3>1, <4>1, <4>2, CommonStep
    <3>4. CASE state[t] = "ready"
      <4>1. links' = off /\ prio' = prio
        BY <2>1, <3>4
      <4>2. Place(links, t) # None
        BY <1>0, <1>1, <1>6, <3>4, PlaceOf
      <4>3. off \in Links /\ OthersPlaced(off, state, suspend, prio, t) /\ off.at[t] = None
        BY <1>0, <1>1, <4>2, RemovePlaced
      <4> HIDE DEF off
      <4>4. Placed(None, off.at[t], state'[t], suspend'[t], prio'[t])
        BY <2>2, <3>1, <3>4, <4>3 DEF Placed, ThreadStateIsTerminated
      <4>5. \A u \in Threads \ {t} : state'[u] = state[u] /\ suspend'[u] = suspend[u] /\ prio'[u] = prio[u]
        BY <1>3, <3>1, <4>1
      <4>6. AllPlaced(off, state', suspend', prio')
        BY <1>1, <4>3, <4>4, <4>5, StayPlaced
      <4> QED
        BY <3>2, <3>3, <4>1, <4>6 DEF SchedInv
    <3>5. CASE state[t] = "waiting"
      <4>1. links.at[t] \in BlockQueues /\ links.at[t] # None /\ Place(links, t) # None
        BY <1>0, <1>1, <3>5, PlaceOf
      <4>2. /\ links' = InsertThreadIntoQueueByPriority(off, prio, links.at[t], t, SuspendedWaitPriority)
            /\ prio' = [prio EXCEPT ![t] = SuspendedWaitPriority]
            /\ prio'[t] = SuspendedWaitPriority /\ SuspendedWaitPriority \in Nat
        BY <1>0, <1>1, <2>1, <3>5, <4>1, QueueConstants DEF SuspendedWaitPriority
      <4>3. off \in Links /\ OthersPlaced(off, state, suspend, prio, t)
        BY <1>0, <1>1, <4>1, RemovePlaced
      <4> HIDE DEF off
      <4>4. links.at[t] \in Queues /\ links.at[t] \notin RunQueues
        BY <4>1, QueueFacts DEF RunQueues
      <4>5. Placed(links.at[t], links.at[t], state'[t], suspend'[t], SuspendedWaitPriority)
        BY <2>2, <3>1, <3>5, <4>1, <4>4 DEF Placed, ThreadStateIsTerminated
      <4>6. \A u \in Threads \ {t} : state'[u] = state[u] /\ suspend'[u] = suspend[u] /\ prio'[u] = prio[u]
        BY <1>0, <1>3, <3>1, <4>2
      <4>7. AllPlaced(InsertThreadIntoQueueByPriority(off, prio, links.at[t], t, SuspendedWaitPriority),
                      state', suspend', prio')
        <5>1. prio'[t] = SuspendedWaitPriority /\ SuspendedWaitPriority \in Nat
          BY <4>2
        <5> QED
          BY <1>9, <1>1, <4>3, <4>4, <4>5, <4>6, <5>1, InsertPlaced
      <4> QED
        BY <3>2, <3>3, <4>2, <4>7 DEF SchedInv
    <3>6. CASE ThreadStateIsTerminated(state[t])
      <4>1. UNCHANGED <<links, prio>>
        BY <2>1, <3>6 DEF ThreadStateIsTerminated
      <4>2. OthersPlaced(links, state, suspend, prio, t)
        BY <1>0, <1>1, <3>6, PlaceOf DEF ThreadStateIsTerminated
      <4>3. Placed(None, links.at[t], state'[t], suspend'[t], prio'[t])
        BY <2>2, <3>1, <3>6 DEF Placed, ThreadStateIsTerminated
      <4>4. \A u \in Threads \ {t} : state'[u] = state[u] /\ suspend'[u] = suspend[u] /\ prio'[u] = prio[u]
        BY <1>3, <3>1, <4>1
      <4>5. AllPlaced(links, state', suspend', prio')
        BY <1>9, <1>1, <4>2, <4>3, <4>4, StayPlaced
      <4> QED
        BY <3>2, <3>3, <4>1, <4>5 DEF SchedInv
    <3> QED
      BY <1>0, <1>1, <2>6, <3>4, <3>5, <3>6 DEF States, ThreadStateIsTerminated
  <2> QED
    BY <2>5, <2>6
<1> QED
  BY <1>5, <1>6

\* A thread is resumed: it goes on the run queue of its effective priority, or
\* back in order on the queue it waits on.
LEMMA ResumeControl ==
    ASSUME KInv, SchedInv, ResumeThread
    PROVE  SchedInv'
<1> DEFINE t == Top.thr
           off == RemoveThreadFromQueue(links, t)
           eff == EffectivePriority(t)
           e == ComputeThreadEffectivePriority(off, prio, base[t], owned[t])
<1>0. /\ ControlOK /\ ThreadsOK /\ host \in Threads /\ resched \in BOOLEAN /\ stack \in Stacks
      /\ state \in [Threads -> States] /\ links \in Links /\ AllPlaced(links, state, suspend, prio)
      /\ suspend \in [Threads -> Nat] /\ prio \in [Threads -> Nat] /\ prio \in [Threads -> 0 .. MaxPrio + 1]
      /\ owner \in [Mutexes -> Threads \cup {None}] /\ waitMutex \in [Threads -> Mutexes \cup {None}]
      /\ base \in [Threads -> Prios] /\ owned \in [Threads -> Seq(Mutexes)]
  BY SchedTypes, TypeStacks DEF SchedInv, KInv, TypeOK, ThreadsOK, ControlOK
<1>9. links \in Links /\ prio \in [Threads -> Nat] /\ suspend \in [Threads -> Nat]
        /\ AllPlaced(links, state, suspend, prio)
  BY <1>0
<1>1. At("resume") /\ t \in Threads
  BY <1>0, TopType DEF ResumeThread, NeedThread
<1>2. "resume" \notin Deferring \cup Unready \cup KeyPCs(resched)
  BY DEF Deferring, Unready, KeyPCs
<1>3. UNCHANGED <<threadList, disable, running, current, fiber, fiberThread, host>>
  BY DEF ResumeThread, listVars, fiberVars
<1>4. CASE suspend[t] # 1
  <2>1. Return /\ UNCHANGED <<state, prio, links, resched>>
          /\ suspend' = [suspend EXCEPT ![t] = IF @ = 0 THEN 0 ELSE @ - 1]
    BY <1>4 DEF ResumeThread
  <2>2. ControlOK'
    BY <1>0, <1>1, <1>2, <1>3, <2>1, CommonStep, CommonLists
  <2> HIDE DEF t
  <2>3. CASE suspend[t] = 0
    <3>1. suspend' = suspend
      BY <1>0, <1>1, <2>1, <2>3
    <3> QED
      BY <1>0, <1>3, <2>1, <2>2, <3>1, ThreadsSame DEF SchedInv
  <2>4. CASE suspend[t] # 0
    <3>1. suspend[t] >= 1 /\ suspend[t] - 1 >= 1 /\ suspend[t] - 1 \in Nat
      BY <1>0, <1>1, <1>4, <2>4
    <3>2. suspend' = [suspend EXCEPT ![t] = suspend[t] - 1]
      BY <1>0, <1>1, <2>1, <2>4
    <3>3. AllPlaced(links', state', suspend', prio')
      <4>1. AllPlaced(links, state, [suspend EXCEPT ![t] = suspend[t] - 1], prio)
        BY <1>9, <1>1, <3>1, CountedPlaced
      <4> QED
        BY <2>1, <3>2, <4>1
    <3>4. \A u \in Threads : state[u] = "running" => u # t
      BY <1>0, <2>4 DEF ThreadsOK, RunningOne
    <3>5. \A u \in Threads : u # t => suspend'[u] = suspend[u]
      BY <1>0, <3>2
    <3>6. ThreadsOK'
      BY <1>0, <1>3, <2>1, <3>3, <3>4, <3>5 DEF ThreadsOK, RunningOne, FiberByState, ThreadListExact
    <3> QED
      BY <2>2, <3>6 DEF SchedInv
  <2> QED
    BY <2>3, <2>4
<1>5. CASE suspend[t] = 1
  <2>1. /\ suspend' = [suspend EXCEPT ![t] = 0] /\ suspend'[t] = 0
        /\ \A u \in Threads \ {t} : suspend'[u] = suspend[u]
    BY <1>0, <1>1, <1>5 DEF ResumeThread
  <2>2. state[t] # "running"
    BY <1>0, <1>1, <1>5 DEF ThreadsOK, RunningOne
  <2>3. OwnerOf(waitMutex[t]) \in Threads \cup {None}
    BY <1>0, <1>1 DEF OwnerOf
  <2>4. eff \in Prios /\ e \in Prios
    <3>1. off \in Links
      BY <1>0, <1>1, RemoveLinks
    <3>2. base[t] \in Prios /\ owned[t] \in Seq(Mutexes)
      BY <1>0, <1>1
    <3> HIDE DEF off, t
    <3> QED
      BY <1>0, <3>1, <3>2, EffectivePriorityType DEF EffectivePriority
  <2>5. Prios \subseteq Nat /\ Prios \subseteq 0 .. MaxPrio + 1 /\ None \notin RunQueues /\ None \notin BlockQueues
    BY QueueConstants, NoneIsNoQueue DEF Prios, Queues
  <2>6. state' = state /\ AllPlaced(links', state', suspend', prio') => ThreadsOK'
    BY <1>0, <1>3, <2>1, <2>2 DEF ThreadsOK, RunningOne, FiberByState, ThreadListExact
  <2>7. ASSUME NEW fs \in Seq(CommonFrames), Continue(fs), state' = state, resched' \in BOOLEAN, resched => resched'
        PROVE  ControlOK'
    BY <1>0, <1>1, <1>2, <1>3, <2>7, CommonStep
  <2>8. <<Frame("resched")>> \in Seq(CommonFrames)
          /\ <<On("propagate", OwnerOf(waitMutex[t])), Frame("resched")>> \in Seq(CommonFrames)
    BY <2>3, CommonPushed, CommonLists
  <2>9. CASE state[t] = "waiting"
    <3>1. links.at[t] \in BlockQueues /\ links.at[t] # None /\ Place(links, t) # None
      BY <1>0, <1>1, <2>9, PlaceOf
    <3>2. /\ links' = InsertThreadIntoQueueByPriority(off, prio, links.at[t], t, e)
          /\ prio' = [prio EXCEPT ![t] = e] /\ UNCHANGED <<state, resched>>
          /\ Continue(<<On("propagate", OwnerOf(waitMutex[t])), Frame("resched")>>)
      BY <1>5, <2>9, <3>1 DEF ResumeThread
    <3>3. off \in Links /\ OthersPlaced(off, state, suspend, prio, t)
      BY <1>0, <1>1, <3>1, RemovePlaced
    <3>4. ControlOK'
      <4> DEFINE fs == <<On("propagate", OwnerOf(waitMutex[t])), Frame("resched")>>
      <4>1. fs \in Seq(CommonFrames) /\ Continue(fs)
        BY <2>8, <3>2
      <4> HIDE DEF fs
      <4> QED
        BY <1>0, <2>7, <3>2, <4>1
    <3> HIDE DEF e, off, t
    <3>5. links.at[t] \in Queues /\ links.at[t] \notin RunQueues /\ e \in Nat
      BY <2>4, <2>5, <3>1, QueueFacts DEF RunQueues
    <3>6. Placed(links.at[t], links.at[t], state'[t], suspend'[t], e)
      BY <2>1, <2>4, <2>9, <3>1, <3>2, <3>5 DEF Placed, ThreadStateIsTerminated
    <3>7. prio'[t] = e /\
          \A u \in Threads \ {t} : state'[u] = state[u] /\ suspend'[u] = suspend[u] /\ prio'[u] = prio[u]
      BY <1>0, <1>1, <2>1, <3>2
    <3>8. AllPlaced(InsertThreadIntoQueueByPriority(off, prio, links.at[t], t, e), state', suspend', prio')
      BY <1>9, <1>1, <3>3, <3>5, <3>6, <3>7, InsertPlaced
    <3> QED
      BY <2>6, <3>2, <3>4, <3>8 DEF SchedInv
  <2>10. CASE state[t] = "ready"
    <3>1. /\ links' = InsertThreadIntoQueueByPriority(links, prio, RunQueue(eff), t, eff)
          /\ prio' = [prio EXCEPT ![t] = eff] /\ state' = [state EXCEPT ![t] = "ready"] /\ resched' = TRUE
          /\ Continue(<<Frame("resched")>>)
      BY <1>5, <2>10 DEF ResumeThread
    <3>2. state' = state
      BY <1>0, <1>1, <2>10, <3>1
    <3>3. ControlOK'
      BY <1>0, <2>7, <2>8, <3>1, <3>2
    <3> HIDE DEF eff, t
    <3>4. OthersPlaced(links, state, suspend, prio, t)
      <4>1. ThreadsOK /\ suspend[t] # 0 /\ state[t] # "waiting"
        BY <1>0, <1>5, <2>10
      <4> QED
        BY <1>1, <4>1, PlaceOf
    <3>5. RunQueue(eff) \in Queues /\ RunQueue(eff) \notin BlockQueues /\ RunQueue(eff) \in RunQueues /\ eff \in Nat
      BY <2>4, <2>5, QueueFacts DEF RunQueues
    <3>6. Placed(RunQueue(eff), RunQueue(eff), state'[t], suspend'[t], eff)
      BY <2>1, <2>4, <2>5, <2>10, <3>2, <3>5 DEF Placed, ThreadStateIsTerminated
    <3>7. prio'[t] = eff /\
          \A u \in Threads \ {t} : state'[u] = state[u] /\ suspend'[u] = suspend[u] /\ prio'[u] = prio[u]
      BY <1>0, <1>1, <2>1, <3>1, <3>2
    <3>8. AllPlaced(InsertThreadIntoQueueByPriority(links, prio, RunQueue(eff), t, eff), state', suspend', prio')
      BY <1>9, <1>1, <3>4, <3>5, <3>6, <3>7, InsertPlaced
    <3> QED
      BY <2>6, <3>1, <3>2, <3>3, <3>8 DEF SchedInv
  <2>11. CASE ThreadStateIsTerminated(state[t])
    <3>1. Continue(<<Frame("resched")>>) /\ UNCHANGED <<state, prio, links, resched>>
      BY <1>5, <2>11 DEF ResumeThread, ThreadStateIsTerminated
    <3>2. ControlOK'
      BY <1>0, <2>7, <2>8, <3>1
    <3>3. OthersPlaced(links, state, suspend, prio, t)
      BY <1>0, <1>1, <2>11, PlaceOf DEF ThreadStateIsTerminated
    <3> HIDE DEF t
    <3>4. Placed(None, links.at[t], state'[t], suspend'[t], prio'[t])
      BY <2>5, <2>11, <3>1 DEF Placed, ThreadStateIsTerminated
    <3>5. \A u \in Threads \ {t} : state'[u] = state[u] /\ suspend'[u] = suspend[u] /\ prio'[u] = prio[u]
      BY <2>1, <3>1
    <3>6. AllPlaced(links, state', suspend', prio')
      BY <1>9, <1>1, <3>3, <3>4, <3>5, StayPlaced
    <3> QED
      BY <2>6, <3>1, <3>2, <3>6 DEF SchedInv
  <2> QED
    BY <1>0, <1>1, <2>2, <2>9, <2>10, <2>11 DEF States, ThreadStateIsTerminated
<1> QED
  BY <1>4, <1>5

\* A thread that is on no queue takes another state that needs none.
LEMMA StatePlaced ==
    ASSUME KInv, ThreadsOK, NEW t \in Threads, OthersPlaced(links', state, suspend, prio, t), links' \in Links,
           \A u \in Threads \ {t} : state'[u] = state[u] /\ suspend'[u] = suspend[u] /\ prio'[u] = prio[u],
           ThreadStateIsTerminated(state'[t]) \/ (state'[t] = "ready" /\ suspend'[t] = 1)
    PROVE  AllPlaced(links', state', suspend', prio')
<1>1. None \notin RunQueues /\ None \notin BlockQueues
  BY NoneIsNoQueue DEF Queues
<1>2. Placed(None, links'.at[t], state'[t], suspend'[t], prio'[t])
  BY <1>1 DEF Placed, ThreadStateIsTerminated
<1> QED
  BY <1>2, StayPlaced

\* A moribund thread is reaped.
LEMMA ReapThreads ==
    ASSUME KInv, ThreadsOK, NEW t \in Threads, state[t] = "moribund", Reap(t),
           UNCHANGED <<suspend, prio, links, running>>,
           \A u \in Threads \ {t} : fiber'[u] = fiber[u]
    PROVE  ThreadsOK' /\ (\A u \in Threads : (state'[u] = "running") <=> (state[u] = "running"))
<1>0. links \in Links /\ state \in [Threads -> States]
  BY SchedTypes
<1>1. /\ state'[t] = "dead" /\ \A u \in Threads \ {t} : state'[u] = state[u]
      /\ t \notin threadList' /\ \A u \in Threads \ {t} : u \in threadList' <=> u \in threadList
  BY <1>0 DEF Reap
<1>2. OthersPlaced(links', state, suspend, prio, t)
  BY PlaceOf
<1>3. AllPlaced(links', state', suspend', prio')
  BY <1>0, <1>1, <1>2, StatePlaced DEF ThreadStateIsTerminated
<1>4. ThreadsOK'
  BY <1>1, <1>3, OneThread DEF ThreadStateIsTerminated
<1> QED
  BY <1>1, <1>4

\* OSJoinThread and what follows when the joiner wakes, and OSDetachThread.
LEMMA JoinControl ==
    ASSUME KInv, SchedInv, GuestContract
    PROVE  /\ Joined => SchedInv'
           /\ \A t \in Threads : OSJoinThread(t) => SchedInv'
           /\ \A t \in Threads : OSDetachThread(t) => SchedInv'
<1>0. /\ ControlOK /\ ThreadsOK /\ host \in Threads /\ resched \in BOOLEAN /\ fiberThread \in {None, host}
      /\ stack \in Stacks
  BY SchedTypes, TypeStacks DEF SchedInv, ControlOK, KInv
<1>1. ASSUME Joined
      PROVE  SchedInv'
  <2>1. /\ At("joined") /\ state[host] = "running" /\ Top.thr \in Threads /\ Return
        /\ UNCHANGED <<suspend, prio, links, running, fiber, host, current, disable, fiberThread, resched>>
    BY <1>0, <1>1, RunningTop, TopType DEF Joined, NeedThread, schedVars, fiberVars
  <2>2. ThreadsOK' /\ state'[host] = "running"
    <3>1. CASE state[Top.thr] = "moribund"
      <4>1. Reap(Top.thr)
        BY <1>1, <3>1 DEF Joined
      <4> QED
        BY <1>0, <2>1, <3>1, <4>1, ReapThreads
    <3>2. CASE state[Top.thr] # "moribund"
      <4>1. UNCHANGED <<state, threadList>>
        BY <1>1, <3>2 DEF Joined
      <4> QED
        BY <1>0, <2>1, <4>1, ThreadsSame
    <3> QED
      BY <3>1, <3>2
  <2>3. "joined" \notin Deferring \cup Unready
    BY DEF Deferring, Unready
  <2>4. ControlOK'
    BY <1>0, <2>1, <2>2, <2>3, OwnStep, OwnPushed
  <2> QED
    BY <2>2, <2>4 DEF SchedInv
<1>2. ASSUME NEW t \in Threads, OSJoinThread(t)
      PROVE  SchedInv'
  <2>1. /\ AtGuest /\ MayCall("join")
        /\ UNCHANGED <<suspend, prio, links, running, fiber, host, current, disable, fiberThread, resched>>
    BY <1>2 DEF OSJoinThread, MayCall, GuestContract, schedVars, fiberVars
  <2>2. state[host] = "running"
    BY <1>0, <2>1, CallerOK
  <2>3. CASE ~detached[t] /\ state[t] # "moribund" /\ links.seq[JoinQueue(t)] = <<>>
    <3> DEFINE a == OnQ("sleep", JoinQueue(t))
               b == On("joined", t)
    <3>1. Call(<<a, b>>) /\ UNCHANGED <<state, threadList>>
      BY <1>2, <2>3 DEF OSJoinThread
    <3>2. a \in OwnFrames(host) /\ b \in OwnFrames(host)
      BY <1>0, OwnPushed, QueueFacts
    <3> HIDE DEF a, b
    <3>3. <<a, b>> \in Seq(OwnFrames(host))
      BY <3>2
    <3>4. ControlOK'
      BY <1>0, <2>1, <2>2, <3>1, <3>3, OwnStep
    <3> QED
      BY <1>0, <2>1, <3>1, <3>4, ThreadsSame DEF SchedInv
  <2>4. CASE ~(~detached[t] /\ state[t] # "moribund" /\ links.seq[JoinQueue(t)] = <<>>)
    <3>1. state[t] = "moribund" /\ Reap(t) /\ UNCHANGED stack
      BY <1>2, <2>4 DEF OSJoinThread
    <3>2. ThreadsOK' /\ state'[host] = "running"
      BY <1>0, <2>1, <2>2, <3>1, ReapThreads
    <3>3. ControlOK'
      BY <1>0, <2>1, <2>2, <3>1, <3>2, CommonCall, CommonLists
    <3> QED
      BY <3>2, <3>3 DEF SchedInv
  <2> QED
    BY <2>3, <2>4
<1>3. ASSUME NEW t \in Threads, OSDetachThread(t)
      PROVE  SchedInv'
  <2> DEFINE fs == <<OnQ("wake", JoinQueue(t))>>
  <2>1. /\ MayCall("detach") /\ Call(fs)
        /\ UNCHANGED <<suspend, prio, links, running, host, current, disable, resched>>
    BY <1>3 DEF OSDetachThread, schedVars
  <2>2. fs \in Seq(CommonFrames)
    BY CommonPushed, CommonLists, QueueFacts
  <2> HIDE DEF fs
  <2>3. fs \in Seq(MayPush(host, running, state[host] = "running")) /\ Clear(stack[host])
    BY <1>0, <2>1, <2>2, CommonMayPush, SeqSubset, CallerOK
  <2>4. /\ ThreadsOK'
        /\ ((state'[host] = "running") <=> (state[host] = "running"))
        /\ fiberThread' \in {None, host}
    <3>1. CASE state[t] = "moribund"
      <4>1. Reap(t) /\ fiber' = [fiber EXCEPT ![t] = "terminated"]
              /\ fiberThread' = IF fiberThread = t THEN None ELSE fiberThread
        BY <1>3, <3>1 DEF OSDetachThread
      <4>2. \A u \in Threads \ {t} : fiber'[u] = fiber[u]
        BY <4>1 DEF KInv, TypeOK
      <4> QED
        BY <1>0, <2>1, <3>1, <4>1, <4>2, ReapThreads
    <3>2. CASE state[t] # "moribund"
      <4>1. UNCHANGED <<state, threadList, fiber, fiberThread>>
        BY <1>3, <3>2 DEF OSDetachThread, fiberVars
      <4> QED
        BY <1>0, <2>1, <4>1, ThreadsSame
    <3> QED
      BY <3>1, <3>2
  <2>5. ControlOK'
    BY <1>0, <2>1, <2>3, <2>4, Calling
  <2> QED
    BY <2>4, <2>5 DEF SchedInv
<1> QED
  BY <1>1, <1>2, <1>3

\* A thread is created in a structure whose join queue is empty.
LEMMA CreateControl ==
    ASSUME KInv, SchedInv, NEW t \in Threads, OSCreateThread(t), links.seq[JoinQueue(t)] = <<>>
    PROVE  SchedInv'
<1>0. /\ ControlOK /\ ThreadsOK /\ host \in Threads /\ state \in [Threads -> States] /\ links \in Links
      /\ suspend \in [Threads -> Nat] /\ prio \in [Threads -> Nat] /\ stack \in Stacks
      /\ fiber \in [Threads -> {"none", "live", "terminated"}] /\ fiberThread \in {None, host}
  BY SchedTypes, TypeStacks DEF SchedInv, ControlOK, KInv, TypeOK
<1>1. /\ state[t] = "dead" /\ t # host
      /\ state' = [state EXCEPT ![t] = "ready"] /\ suspend' = [suspend EXCEPT ![t] = 1]
      /\ prio' = [prio EXCEPT ![t] = InitPrio[t]]
      /\ links' = [links EXCEPT !.seq[JoinQueue(t)] = <<>>]
      /\ threadList' = threadList \cup {t} /\ fiber' = [fiber EXCEPT ![t] = "live"]
      /\ stack' = [stack EXCEPT ![t] = <<>>]
      /\ UNCHANGED <<running, current, disable, resched, host, fiberThread>>
  BY DEF OSCreateThread, schedVars
<1>2. links' = links
  <2>1. links.seq \in [Queues -> Seq(Threads)] /\ JoinQueue(t) \in Queues
    BY <1>0, QueueFacts DEF Links
  <2>2. [links.seq EXCEPT ![JoinQueue(t)] = <<>>] = links.seq
    BY <2>1
  <2>3. links = [seq |-> links.seq, at |-> links.at, pending |-> links.pending]
    BY <1>0 DEF Links
  <2>4. links' = [seq |-> [links.seq EXCEPT ![JoinQueue(t)] = <<>>], at |-> links.at, pending |-> links.pending]
    BY <1>0, <1>1, <2>3 DEF Links
  <2> QED
    BY <2>2, <2>3, <2>4
<1>3. /\ state'[t] = "ready" /\ suspend'[t] = 1 /\ fiber'[t] = "live" /\ t \in threadList'
      /\ \A u \in Threads \ {t} : /\ state'[u] = state[u] /\ suspend'[u] = suspend[u] /\ prio'[u] = prio[u]
                                  /\ fiber'[u] = fiber[u] /\ (u \in threadList' <=> u \in threadList)
                                  /\ stack'[u] = stack[u]
      /\ stack'[t] = <<>>
  BY <1>0, <1>1 DEF Stacks
<1>4. OthersPlaced(links', state, suspend, prio, t)
  BY <1>0, <1>1, <1>2, PlaceOf
<1>5. AllPlaced(links', state', suspend', prio')
  BY <1>0, <1>2, <1>3, <1>4, StatePlaced
<1>6. ThreadsOK'
  BY <1>0, <1>1, <1>3, <1>5, OneThread
<1>7. ControlOK'
  <2>1. OtherOK(t, stack'[t]) /\ \A u \in Threads \ {host} : OtherOK(u, stack[u])
    BY <1>0, <1>3 DEF OtherOK, ControlOK
  <2>2. \A u \in Threads \ {host} : OtherOK(u, stack'[u])
    BY <1>3, <2>1
  <2>3. stack'[host] = stack[host] /\ state'[host] = state[host]
    BY <1>0, <1>1, <1>3
  <2>4. HostOK(host, running', current', state'[host] = "running", disable', resched',
               links'.pending, stack'[host])
    BY <1>0, <1>1, <1>2, <2>3 DEF ControlOK
  <2> QED
    BY <1>0, <1>1, <2>2, <2>4, ControlStep
<1> QED
  BY <1>6, <1>7 DEF SchedInv

\* A thread ends, its own or another's doing.
LEMMA EndControl ==
    ASSUME KInv, SchedInv, GuestContract
    PROVE  /\ OSExitThread => SchedInv'
           /\ \A t \in Threads : OSCancelThread(t) => SchedInv'
<1>0. /\ ControlOK /\ ThreadsOK /\ host \in Threads /\ state \in [Threads -> States] /\ links \in Links
      /\ stack \in Stacks /\ fiber \in [Threads -> {"none", "live", "terminated"}] /\ fiberThread \in {None, host}
      /\ resched \in BOOLEAN /\ AllPlaced(links, state, suspend, prio)
  BY SchedTypes, TypeStacks DEF SchedInv, ControlOK, KInv, TypeOK, ThreadsOK
<1>1. ASSUME NEW t \in Threads, NEW tail \in {"exited", "resched"}, TerminateThread(t, tail), AtGuest,
             NEW c, MayCall(c), ~ThreadStateIsTerminated(state[t]),
             links' \in Links, OthersPlaced(links', state, suspend, prio, t),
             UNCHANGED <<suspend, prio, disable, running, current, host>>,
             resched' \in BOOLEAN, resched => resched',
             t = host => tail \in KeyPCs(resched'), t # host => tail = "resched"
      PROVE  SchedInv'
  <2> DEFINE a == On("unlockAll", t)
             b == OnQ("wake", JoinQueue(t))
             k == Frame(tail)
             v == stack[host]
  <2>1. /\ ThreadStateIsTerminated(state'[t]) /\ \A u \in Threads \ {t} : state'[u] = state[u]
        /\ t \in threadList' <=> state'[t] # "dead"
        /\ \A u \in Threads \ {t} : fiber'[u] = fiber[u] /\ (u \in threadList' <=> u \in threadList)
        /\ fiberThread' \in {None, host}
    <3>1. t \in threadList
      BY <1>0, <1>1 DEF ThreadsOK, ThreadListExact, ThreadStateIsTerminated
    <3>2. /\ state' = [state EXCEPT ![t] = IF detached[t] THEN "dead" ELSE "moribund"]
          /\ threadList' = IF detached[t] THEN threadList \ {t} ELSE threadList
          /\ fiber' = [fiber EXCEPT ![t] = "terminated"]
          /\ fiberThread' = IF fiberThread = t THEN None ELSE fiberThread
      BY <1>1 DEF TerminateThread, Terminating
    <3>3. /\ state'[t] = (IF detached[t] THEN "dead" ELSE "moribund")
          /\ \A u \in Threads \ {t} : state'[u] = state[u] /\ fiber'[u] = fiber[u]
      BY <1>0, <3>2
    <3> QED
      BY <1>0, <3>1, <3>2, <3>3 DEF ThreadStateIsTerminated
  <2>2. AllPlaced(links', state', suspend', prio')
    BY <1>0, <1>1, <2>1, StatePlaced
  <2>3. ThreadsOK'
    BY <1>0, <1>1, <2>1, <2>2, OneThread DEF ThreadStateIsTerminated
  <2>4. /\ stack'[host] = <<a, b, k>> \o v
        /\ \A u \in Threads \ {host} : stack'[u] = IF u = t THEN <<>> ELSE stack[u]
    BY <1>0, <1>1 DEF TerminateThread, Terminating
  <2>5. \A u \in Threads \ {host} : OtherOK(u, stack'[u])
    <3>1. \A u : OtherOK(u, <<>>)
      BY DEF OtherOK
    <3> QED
      BY <1>0, <2>4, <3>1 DEF ControlOK
  <2>6. /\ state[host] = "running" /\ running = host /\ current = host /\ disable = 0 /\ Clear(v)
        /\ HostOK(host, host, host, TRUE, 0, resched, links.pending, v) /\ v \in Seq(Frames)
    BY <1>0, <1>1, CallerOK, RunningStack
  <2>7. /\ a \in Frames /\ a.pc = "unlockAll" /\ b \in Frames /\ b.pc = "wake" /\ k \in Frames /\ k.pc = tail
        /\ a \in OwnFrames(host) /\ b \in CommonFrames
    <3>1. "unlockAll" \in PCs /\ "wake" \in PCs /\ tail \in PCs
      BY DEF PCs
    <3>2. JoinQueue(t) \in BlockQueues
      BY <1>1, QueueFacts
    <3>3. a \in Frames /\ a.pc = "unlockAll" /\ a \in OwnFrames(host)
      BY <1>0, <1>1, <3>1, PushedPCs, OwnPushed
    <3>4. b \in Frames /\ b.pc = "wake" /\ b \in CommonFrames
      BY <3>1, <3>2, PushedPCs, CommonPushed
    <3>5. k \in Frames /\ k.pc = tail
      BY <3>1, PushedPCs
    <3> QED
      BY <3>3, <3>4, <3>5
  <2>8. CASE t = host
    <3>1. k.pc \in KeyPCs(resched') \ {"pick"}
      BY <1>1, <2>7, <2>8
    <3> HIDE DEF a, b, k, v
    <3>2. <<a, b>> \in Seq(Frames) /\ \A i \in DOMAIN <<a, b>> : <<a, b>>[i].pc \in LeaveFrames
      BY <2>7 DEF LeaveFrames, Common
    <3>3. <<>> \in Seq(OwnFrames(host)) /\ <<>> \o v = v
      BY <2>6
    <3>4. <<a, b, k>> \o v = <<a, b>> \o (<<k>> \o v)
      BY <2>6, <2>7
    <3>5. stack'[host] = <<a, b>> \o (<<k>> \o (<<>> \o v)) /\ state'[host] # "running"
      BY <2>1, <2>4, <2>8, <3>3, <3>4 DEF ThreadStateIsTerminated
    <3>6. ControlOK'
      BY <1>0, <1>1, <2>1, <2>5, <2>6, <2>7, <3>1, <3>2, <3>3, <3>5, LeaveStep
    <3> QED
      BY <2>3, <3>6 DEF SchedInv
  <2>9. CASE t # host
    <3>1. k \in CommonFrames
      BY <1>1, <2>9, CommonPushed
    <3> HIDE DEF a, b, k, v
    <3>2. a \in OwnFrames(host) /\ b \in OwnFrames(host) /\ k \in OwnFrames(host)
      BY <1>0, <2>7, <3>1, OwnPushed
    <3>3. OwnFrames(host) \subseteq MayPush(host, host, TRUE)
      BY <1>0, QueueConstants DEF OwnFrames, MayPush
    <3>4. a \in MayPush(host, host, TRUE) /\ b \in MayPush(host, host, TRUE) /\ k \in MayPush(host, host, TRUE)
      BY <3>2, <3>3
    <3>5. <<a, b, k>> \in Seq(MayPush(host, host, TRUE))
      <4>1. \A S : a \in S /\ b \in S /\ k \in S => <<a, b, k>> \in Seq(S)
        OBVIOUS
      <4> QED
        BY <3>4, <4>1
    <3>6. HostOK(host, host, host, TRUE, 0, resched, links.pending, <<a, b, k>> \o v) /\ Clear(<<a, b, k>> \o v)
      BY <1>0, <2>6, <3>5, PushOK
    <3>7. HostOK(host, host, host, TRUE, 0, resched', links'.pending, <<a, b, k>> \o v)
      BY <1>0, <1>1, <3>6, RaiseOK
    <3>8. state'[host] = "running"
      BY <1>0, <2>1, <2>6, <2>9
    <3>9. ControlOK'
      BY <1>0, <1>1, <2>1, <2>4, <2>5, <2>6, <3>7, <3>8, ControlStep
    <3> QED
      BY <2>3, <3>9 DEF SchedInv
  <2> QED
    BY <2>8, <2>9
<1>2. ASSUME OSExitThread
      PROVE  SchedInv'
  <2>1. /\ AtGuest /\ MayCall("exit") /\ TerminateThread(running, "exited")
        /\ UNCHANGED <<suspend, prio, links, disable, running, current, host, resched>>
    BY <1>2 DEF OSExitThread, MayCall, GuestContract, schedVars
  <2>2. running = host /\ state[host] = "running"
    BY <1>0, <2>1, CallerOK
  <2>3. OthersPlaced(links', state, suspend, prio, host) /\ links' \in Links
    BY <1>0, <2>1, <2>2, PlaceOf
  <2>4. "exited" \in KeyPCs(resched')
    BY DEF KeyPCs
  <2> QED
    BY <1>0, <1>1, <2>1, <2>2, <2>3, <2>4 DEF ThreadStateIsTerminated
<1>3. ASSUME NEW t \in Threads, OSCancelThread(t)
      PROVE  SchedInv'
  <2>1. /\ AtGuest /\ MayCall(IF t = host THEN "cancelSelf" ELSE "cancel") /\ TerminateThread(t, "resched")
        /\ UNCHANGED <<suspend, prio, disable, running, current, host>>
        /\ ~ThreadStateIsTerminated(state[t])
        /\ links' = IF state[t] = "waiting" \/ (state[t] = "ready" /\ suspend[t] < 1)
                    THEN RemoveThreadFromQueue(links, t) ELSE links
        /\ resched' = (resched \/ state[t] = "running")
    BY <1>3 DEF OSCancelThread, MayCall, GuestContract
  <2>2. running = host /\ state[host] = "running"
    BY <1>0, <2>1, CallerOK
  <2>3. resched' \in BOOLEAN /\ (resched => resched') /\ (t = host => resched')
    BY <1>0, <2>1, <2>2
  <2>4. suspend[t] \in Nat
    BY SchedTypes
  <2>5. OthersPlaced(links', state, suspend, prio, t) /\ links' \in Links
    <3>1. CASE state[t] = "waiting" \/ (state[t] = "ready" /\ suspend[t] < 1)
      <4>1. suspend[t] < 1 => suspend[t] = 0
        BY <2>4
      <4>2. Place(links, t) # None
        BY <1>0, <3>1, <4>1, PlaceOf
      <4> QED
        BY <1>0, <2>1, <3>1, <4>2, RemovePlaced
    <3>2. CASE ~(state[t] = "waiting" \/ (state[t] = "ready" /\ suspend[t] < 1))
      <4>1. suspend[t] = 0 => suspend[t] < 1
        BY <2>4
      <4> QED
        BY <1>0, <2>1, <3>2, <4>1, PlaceOf
    <3> QED
      BY <3>1, <3>2
  <2>6. t = host => "resched" \in KeyPCs(resched')
    BY <2>3 DEF KeyPCs
  <2> QED
    BY <1>0, <1>1, <2>1, <2>3, <2>5, <2>6
<1> QED
  BY <1>2, <1>3

\* What a thread's entry function would need to return is never on a stack.
LEMMA NoReturn ==
    ASSUME KInv, SchedInv, GuestContract
    PROVE  ~WakeNoSwitch /\ ~WakeNoSwitchDone /\ ~Returned /\ ~ThreadReturn
<1>1. ControlOK /\ host \in Threads
  BY SchedTypes DEF SchedInv
<1>2. "wakeNoSwitch" \notin Inner(running) \cup {"suspend", "pick"} /\ "returned" \notin Inner(running) \cup {"suspend", "pick"}
  BY DEF Inner, Ordinary, Deferring, Unready
<1>3. ~At("wakeNoSwitch") /\ ~At("returned")
  BY <1>1, <1>2, TopOwn
<1> QED
  BY <1>1, <1>3 DEF WakeNoSwitch, WakeOne, WakeNoSwitchDone, Returned, ThreadReturn, GuestContract

\* The program after OSInit.
LEMMA InitSched == Init => SchedInv
<1> SUFFICES ASSUME Init PROVE SchedInv
  OBVIOUS
<1>1. Main \in Threads /\ InitPrio \in [Threads -> Prios] /\ Main # None
  BY KernelConstants, QueueConstants
<1>2. /\ host = Main /\ running = Main /\ current = Main /\ disable = 0 /\ fiberThread = Main
      /\ state = [t \in Threads |-> IF t = Main THEN "running" ELSE "dead"]
      /\ state[Main] = "running" /\ \A t \in Threads : stack[t] = <<>>
      /\ suspend = [t \in Threads |-> 0] /\ prio = InitPrio /\ links = EmptyLinks /\ threadList = {Main}
      /\ fiber = [t \in Threads |-> IF t = Main THEN "live" ELSE "none"]
  BY <1>1 DEF Init
<1>3. ControlOK
  <2>1. \A u : OtherOK(u, <<>>)
    BY DEF OtherOK
  <2>2. HostOK(Main, Main, Main, TRUE, 0, resched, links.pending, <<>>)
    <3>1. <<>> \in Seq(Frames) /\ OtherOK(Main, <<>>)
      BY <2>1
    <3> QED
      BY <1>1, <3>1, SettledOK
  <2> QED
    BY <1>1, <1>2, <2>1, <2>2 DEF ControlOK
<1>4. AllPlaced(links, state, suspend, prio)
  <2>1. /\ \A q \in Queues : links.seq[q] = <<>>
        /\ \A t \in Threads : links.at[t] = None
    BY <1>2 DEF EmptyLinks
  <2>2. Listed(links) /\ InOrder(links, prio)
    BY <2>1, QueueFacts DEF Listed, InOrder, Once, Sorted
  <2>3. None \notin RunQueues /\ None \notin BlockQueues
    BY NoneIsNoQueue DEF Queues
  <2>4. ASSUME NEW t \in Threads
        PROVE  Placed(Place(links, t), links.at[t], state[t], suspend[t], prio[t])
    <3>1. Place(links, t) = None /\ links.at[t] = None /\ suspend[t] = 0 /\ prio[t] \in Prios
            /\ state[t] \in {"running", "dead"}
      BY <1>1, <1>2, <2>1 DEF Place
    <3> QED
      BY <2>3, <3>1 DEF Placed, ThreadStateIsTerminated
  <2> QED
    BY <2>2, <2>4 DEF AllPlaced
<1>5. RunningOne /\ FiberByState /\ ThreadListExact
  BY <1>1, <1>2 DEF RunningOne, FiberByState, ThreadListExact, ThreadStateIsTerminated
<1> QED
  BY <1>3, <1>4, <1>5 DEF SchedInv, ThreadsOK

\* A thread structure is not used again while somebody still waits to join the
\* thread it held: OSCreateThread empties the join queue it finds there.
FreshCreate  == \A t \in Threads : OSCreateThread(t) => links.seq[JoinQueue(t)] = <<>>
CreatesFresh == [][FreshCreate]_vars

\* Every step of the kernel and of guest code keeps the invariant.
LEMMA NextSched == GuestContract /\ KInv /\ SchedInv /\ [Next]_vars /\ [FreshCreate]_vars => SchedInv'
<1> SUFFICES ASSUME GuestContract, KInv, SchedInv, [Next]_vars, [FreshCreate]_vars PROVE SchedInv'
  OBVIOUS
<1>1. CASE KernelStep
  <2>1. CASE FireTimer \/ FireDone \/ Reconcile \/ HealStrandedSleeper \/ WakeDone
    BY <2>1, TimerControl
  <2>2. CASE SelectEnter \/ ScheduleReturn \/ Reschedule \/ Exited
    BY <2>2, SelectControl
  <2>3. CASE ScheduleSwitch
    BY <2>3, ScheduleSwitchControl
  <2>4. CASE IdlePump \/ IdleAlarms \/ IdleExit
    BY <2>4, IdleControl
  <2>5. CASE PickThread
    BY <2>5, PickThreadControl
  <2>6. CASE Switched
    BY <2>6, SwitchedControl
  <2>7. CASE WakeupThread
    BY <2>7, WakeupControl
  <2>8. CASE SleepThread
    BY <2>8, SleepControl
  <2>9. CASE Slept \/ Ticked
    BY <2>9, WokenControl
  <2>10. CASE PromoteThreadPriority \/ PropagateMutexOwnerPriority
    BY <2>10, InheritanceControl
  <2>11. CASE LockMutex \/ RelockMutex \/ UnlockAllMutex
    BY <2>11, LockControl
  <2>12. CASE SuspendThread
    BY <2>12, SuspendControl
  <2>13. CASE ResumeThread
    BY <2>13, ResumeControl
  <2>14. CASE Joined
    BY <2>14, JoinControl
  <2>15. CASE WakeNoSwitch \/ WakeNoSwitchDone \/ Returned
    BY <2>15, NoReturn
  <2>16. CASE ProcessAlarmQueue \/ AlarmsDone
    BY <2>16, PumpControl
  <2>17. CASE FireAlarm \/ AlarmTail \/ Undefer
    BY <2>17, DeferControl
  <2> QED
    BY <1>1, <2>1, <2>2, <2>3, <2>4, <2>5, <2>6, <2>7, <2>8, <2>9, <2>10, <2>11, <2>12, <2>13,
       <2>14, <2>15, <2>16, <2>17 DEF KernelStep
<1>2. CASE GuestStep
  <2>1. CASE \E m \in Mutexes : OSLockMutex(m) \/ OSUnlockMutex(m)
    BY <2>1, CallControl, UnlockControl
  <2>2. ASSUME NEW t \in Threads, OSCreateThread(t)
        PROVE  SchedInv'
    <3>1. stack' # stack \/ state' # state
      <4>1. state[t] = "dead" /\ state' = [state EXCEPT ![t] = "ready"] /\ state \in [Threads -> States]
        BY <2>2, SchedTypes DEF OSCreateThread
      <4> QED
        BY <4>1
    <3>2. FreshCreate
      BY <3>1 DEF vars
    <3> QED
      BY <2>2, <3>2, CreateControl DEF FreshCreate
  <2>3. CASE \E t \in Threads : OSCancelThread(t)
    BY <2>3, EndControl
  <2>4. CASE \E t \in Threads : OSJoinThread(t) \/ OSDetachThread(t)
    BY <2>4, JoinControl
  <2>5. CASE \E t \in Threads : OSSuspendThread(t) \/ OSResumeThread(t)
    BY <2>5, CallControl
  <2>6. CASE \E w \in WaitQueues : OSSleepThread(w) \/ OSWakeupThread(w)
    BY <2>6, CallControl
  <2>7. CASE \E a \in Alarms : OSSetAlarm(a) \/ OSSetPeriodicAlarm(a)
    BY <2>7, CallControl
  <2>8. CASE OSSleepTicks \/ OSYieldThread
    BY <2>8, CallControl
  <2>9. CASE OSExitThread
    BY <2>9, EndControl
  <2>10. CASE ThreadReturn
    BY <2>10, NoReturn
  <2>11. CASE OSProcessAlarms \/ HandlerReturn
    BY <2>11, PumpControl
  <2>12. CASE OSProcessAlarmsDeferred
    BY <2>12, DeferControl
  <2> QED
    BY <1>2, <2>1, <2>2, <2>3, <2>4, <2>5, <2>6, <2>7, <2>8, <2>9, <2>10, <2>11, <2>12 DEF GuestStep
<1>3. CASE UNCHANGED vars
  <2>1. Calm /\ stack' = stack
    BY <1>3 DEF vars, Calm
  <2>2. ControlOK'
    BY <2>1 DEF SchedInv, ControlOK, Calm
  <2> QED
    BY <2>1, <2>2, CalmStep
<1> QED
  BY <1>1, <1>2, <1>3 DEF Next

\* The invariant of the scheduler, for every instance and every guest program
\* that keeps the contract.
LEMMA SchedInvariance == GuestContract => (Spec /\ CreatesFresh => [](KInv /\ SchedInv))
<1> SUFFICES ASSUME GuestContract PROVE Spec /\ CreatesFresh => [](KInv /\ SchedInv)
  OBVIOUS
<1>1. Init => KInv /\ SchedInv
  BY InitInv, InitSched
<1>2. (KInv /\ SchedInv) /\ [Next]_vars /\ [FreshCreate]_vars => (KInv /\ SchedInv)'
  BY NextInv, NextSched
<1> QED
  BY <1>1, <1>2, PTL DEF Spec, CreatesFresh

\* The lists of a kernel whose threads are all in their places are sound.
LEMMA PlacedSound ==
    ASSUME KInv, SchedInv
    PROVE  QueuesSound /\ QueuedByState
<1>0. /\ links \in Links /\ Listed(links) /\ InOrder(links, prio)
      /\ \A t \in Threads : Placed(Place(links, t), links.at[t], state[t], suspend[t], prio[t])
      /\ \A q \in Queues : links.seq[q] \in Seq(Threads)
  BY SchedTypes DEF SchedInv, ThreadsOK, AllPlaced, Links
<1>1. \A q, t : OnQueue(links, t, q) <=> Has(links.seq[q], t)
  BY DEF OnQueue, Has
<1>2. LinkedOnce
  BY <1>0 DEF LinkedOnce, Listed, Once
<1>3. ASSUME NEW t \in Threads
      PROVE  /\ Place(links, t) \in Queues \cup {None}
             /\ Place(links, t) # None => links.at[t] = Place(links, t)
             /\ \A q \in Queues : OnQueue(links, t, q) <=> Place(links, t) = q
  BY <1>0, <1>1, PlaceFacts
<1>4. StalePointerHarmless
  <2> SUFFICES ASSUME NEW t \in Threads, links.at[t] # None, ~OnQueue(links, t, links.at[t])
               PROVE  ThreadStateIsTerminated(state[t]) \/ (state[t] = "ready" /\ suspend[t] >= 1)
    BY DEF StalePointerHarmless
  <2>1. Place(links, t) = None
    BY <1>1 DEF Place
  <2> QED
    BY <1>0, <2>1 DEF Placed
<1>5. QueuesOrdered
  <2>1. ASSUME NEW p \in Prios, NEW i \in DOMAIN links.seq[RunQueue(p)]
        PROVE  prio[links.seq[RunQueue(p)][i]] = p
    <3> DEFINE t == links.seq[RunQueue(p)][i]
    <3>1. RunQueue(p) \in RunQueues /\ RunQueue(p) \in Queues
      BY QueueConstants DEF RunQueues, Queues, Prios
    <3>2. t \in Threads
      BY <1>0, <3>1
    <3>3. OnQueue(links, t, RunQueue(p))
      BY DEF OnQueue
    <3>4. Place(links, t) = RunQueue(p)
      BY <1>3, <3>1, <3>2, <3>3
    <3>5. RunQueue(p) = RunQueue(prio[t])
      BY <1>0, <3>1, <3>2, <3>4 DEF Placed
    <3> QED
      BY <3>5 DEF RunQueue
  <2>2. \A q \in BlockQueues : \A i, j \in DOMAIN links.seq[q] :
           i < j => prio[links.seq[q][i]] <= prio[links.seq[q][j]]
    BY <1>0 DEF InOrder, Sorted
  <2> QED
    BY <2>1, <2>2 DEF QueuesOrdered
<1>6. RunnableHasRunQueue
  <2> SUFFICES ASSUME NEW t \in Threads, state[t] = "running" \/ (state[t] = "ready" /\ suspend[t] = 0)
               PROVE  prio[t] \in Prios
    BY DEF RunnableHasRunQueue
  <2>1. suspend[t] = 0
    BY DEF SchedInv, ThreadsOK, RunningOne
  <2> QED
    BY <1>0, <2>1 DEF Placed, ThreadStateIsTerminated
<1>7. QueuedByState
  <2> SUFFICES ASSUME NEW t \in Threads
               PROVE  /\ (\E q \in RunQueues : OnQueue(links, t, q)) <=> (state[t] = "ready" /\ suspend[t] = 0)
                      /\ (\E q \in BlockQueues : OnQueue(links, t, q)) <=> state[t] = "waiting"
    BY DEF QueuedByState
  <2>1. /\ (\E q \in RunQueues : OnQueue(links, t, q)) <=> Place(links, t) \in RunQueues
        /\ (\E q \in BlockQueues : OnQueue(links, t, q)) <=> Place(links, t) \in BlockQueues
    BY <1>3 DEF Queues
  <2> QED
    BY <1>0, <2>1 DEF Placed
<1> QED
  BY <1>2, <1>4, <1>5, <1>6, <1>7 DEF QueuesSound

\* Guest code runs on an empty stack or in a handler, never in a call of the
\* kernel: of the three modes only the one where the thread runs is left.
LEMMA GuestMode ==
    ASSUME KInv, SchedInv
    PROVE  GuestRunsAsItself
<1> SUFFICES ASSUME AtGuest
             PROVE  /\ running = host /\ current = host
                    /\ state[host] = "running" /\ suspend[host] = 0
                    /\ fiber[host] = "live" /\ fiberThread \in {None, host}
  BY DEF GuestRunsAsItself
<1>1. host \in Threads /\ ControlOK
  BY SchedTypes DEF SchedInv
<1>2. state[host] = "running" /\ running = host /\ current = host
  <2>1. stack[host] = <<>>
    BY DEF AtGuest
  <2>2. Mode(host, running, current, state[host] = "running", disable, resched, stack[host])
    BY <1>1 DEF ControlOK, HostOK
  <2> QED
    BY <2>1, <2>2 DEF Mode, Shape
<1>3. suspend[host] = 0 /\ fiber[host] = "live"
  BY <1>1, <1>2 DEF SchedInv, ThreadsOK, RunningOne, FiberByState, ThreadStateIsTerminated
<1> QED
  BY <1>1, <1>2, <1>3 DEF ControlOK

\* GuestRunsAsItself, for every set of threads, priorities and calls: SelectThread
\* and SwitchToThread never give the CPU to a fiber whose thread the kernel does
\* not take for the running one, or to a thread that is suspended or has ended.
THEOREM GuestIdentity == GuestContract => (Spec /\ CreatesFresh => []GuestRunsAsItself)
<1> SUFFICES ASSUME GuestContract PROVE Spec /\ CreatesFresh => []GuestRunsAsItself
  OBVIOUS
<1>1. KInv /\ SchedInv => GuestRunsAsItself
  BY GuestMode
<1> QED
  BY <1>1, SchedInvariance, PTL

\* QueuesSound, for every instance: a thread is linked once, on the queue its
\* pointer names, a stale pointer is never used, wait queues stay in priority
\* order through requeues and suspensions, and no runnable thread has the
\* suspended-wait priority, which has no run queue.
THEOREM SoundQueues == GuestContract => (Spec /\ CreatesFresh => []QueuesSound)
<1> SUFFICES ASSUME GuestContract PROVE Spec /\ CreatesFresh => []QueuesSound
  OBVIOUS
<1>1. KInv /\ SchedInv => QueuesSound
  BY PlacedSound
<1> QED
  BY <1>1, SchedInvariance, PTL

\* QueuedByState, for every instance: a thread is on a run queue exactly when it
\* can run and on a wait queue exactly when it waits, so no thread is lost by a
\* wakeup, a suspension, a change of priority or a cancellation, nor run twice.
THEOREM NoThreadLost == GuestContract => (Spec /\ CreatesFresh => []QueuedByState)
<1> SUFFICES ASSUME GuestContract PROVE Spec /\ CreatesFresh => []QueuedByState
  OBVIOUS
<1>1. KInv /\ SchedInv => QueuedByState
  BY PlacedSound
<1> QED
  BY <1>1, SchedInvariance, PTL

-----------------------------------------------------------------------------
(***************************************************************************)
(* What the steps push.  Most steps replace the frame on top by, or put on *)
(* top of it, frames of no special meaning for what follows.               *)
(***************************************************************************)
PlainPCs    == PCs \ {"sleep", "unlockAll", "alarms", "alarmLoop", "handler", "undefer", "idle",
                       "idleAlarms", "send", "jam", "recv"}
PlainFrames == {f \in Frames : f.pc \in PlainPCs}

\* A pump calls a handler.
HandlerCall == <<Frame("handler"), Frame("alarmTail")>>

Plain == /\ host' = host
         /\ \/ stack' = stack
            \/ stack[host] # <<>> /\ Return
            \/ At("alarmLoop") /\ Call(HandlerCall)
            \/ \E fs \in Seq(PlainFrames) : Call(fs) \/ (stack[host] # <<>> /\ Continue(fs))

\* Short lists of plain frames.
LEMMA PlainLists ==
    /\ <<>> \in Seq(PlainFrames)
    /\ \A f \in PlainFrames : <<f>> \in Seq(PlainFrames)
    /\ \A f, g \in PlainFrames : <<f, g>> \in Seq(PlainFrames)
    /\ \A f, g, h \in PlainFrames : <<f, g, h>> \in Seq(PlainFrames)
OBVIOUS

\* The plain frames that the kernel pushes.
LEMMA PlainPushed ==
    /\ \A pc \in PlainPCs : Frame(pc) \in PlainFrames
    /\ \A pc \in PlainPCs : \A t \in Threads \cup {None} : On(pc, t) \in PlainFrames
    /\ \A pc \in PlainPCs : \A q \in BlockQueues : OnQ(pc, q) \in PlainFrames
    /\ \A pc \in PlainPCs : \A b \in SUBSET Threads : Batch(pc, b) \in PlainFrames
    /\ \A b \in BOOLEAN : SelectThread(b) \in PlainFrames
    /\ \A t \in Threads \cup {None} : \A p \in 0 .. MaxPrio + 1 : Promote(t, p) \in PlainFrames
    /\ \A t \in Threads : \A m \in Mutexes : Lock(t, m) \in PlainFrames
    /\ \A f \in PlainFrames : \A b \in SUBSET Threads : [f EXCEPT !.batch = b] \in PlainFrames
    /\ \A f \in PlainFrames : \A b \in BOOLEAN : [f EXCEPT !.flag = b] \in PlainFrames
    /\ \A f \in Frames : \A pc \in PlainPCs : [f EXCEPT !.pc = pc] \in PlainFrames
<1>0. PlainPCs \subseteq PCs /\ "select" \in PlainPCs /\ "promote" \in PlainPCs /\ "lock" \in PlainPCs
  BY DEF PlainPCs, PCs
<1>1. \A pc \in PlainPCs : Frame(pc) \in PlainFrames
  BY <1>0, PushedPCs DEF PlainFrames
<1>2. \A pc \in PlainPCs : \A t \in Threads \cup {None} : On(pc, t) \in PlainFrames
  BY <1>0, PushedPCs DEF PlainFrames
<1>3. \A pc \in PlainPCs : \A q \in BlockQueues : OnQ(pc, q) \in PlainFrames
  BY <1>0, PushedPCs DEF PlainFrames
<1>4. \A pc \in PlainPCs : \A b \in SUBSET Threads : Batch(pc, b) \in PlainFrames
  BY <1>0, PushedPCs DEF PlainFrames
<1>5. \A b \in BOOLEAN : SelectThread(b) \in PlainFrames
  BY <1>0, PushedPCs DEF PlainFrames
<1>6. ASSUME NEW t \in Threads \cup {None}, NEW p \in 0 .. MaxPrio + 1
      PROVE  Promote(t, p) \in PlainFrames
  <2> DEFINE f == [Frame("promote") EXCEPT !.thr = t]
  <2>1. f \in Frames /\ f.pc = "promote"
    BY <1>0, FrameType, With_thr
  <2>2. Promote(t, p) = [f EXCEPT !.num = p]
    BY DEF Promote, Frame
  <2> HIDE DEF f
  <2>3. Promote(t, p) \in Frames /\ Promote(t, p).pc = "promote"
    BY <2>1, <2>2, With_num
  <2> QED
    BY <1>0, <2>3 DEF PlainFrames
<1>7. ASSUME NEW t \in Threads, NEW m \in Mutexes
      PROVE  Lock(t, m) \in PlainFrames
  BY <1>0, LockFrame DEF PlainFrames
<1>8. ASSUME NEW f \in PlainFrames
      PROVE  /\ \A b \in SUBSET Threads : [f EXCEPT !.batch = b] \in PlainFrames
             /\ \A b \in BOOLEAN : [f EXCEPT !.flag = b] \in PlainFrames
  <2>1. f \in Frames /\ f.pc \in PlainPCs
    BY DEF PlainFrames
  <2>2. /\ \A b \in SUBSET Threads : /\ [f EXCEPT !.batch = b] \in Frames
                                     /\ [f EXCEPT !.batch = b].pc = f.pc
        /\ \A b \in BOOLEAN : /\ [f EXCEPT !.flag = b] \in Frames
                              /\ [f EXCEPT !.flag = b].pc = f.pc
    BY <2>1, KeptFrames
  <2> QED
    BY <2>1, <2>2, Zenon DEF PlainFrames
<1>9. ASSUME NEW f \in Frames, NEW pc \in PlainPCs
      PROVE  [f EXCEPT !.pc = pc] \in PlainFrames
  <2>1. [f EXCEPT !.pc = pc] \in Frames /\ [f EXCEPT !.pc = pc].pc = pc
    BY <1>0, KeptFrames
  <2> QED
    BY <2>1, Zenon DEF PlainFrames
<1> QED
  BY <1>1, <1>2, <1>3, <1>4, <1>5, <1>6, <1>7, <1>8, <1>9

\* The names of the plain frames.
LEMMA PlainNames ==
    {"select", "schedule", "pick", "switched", "wake", "lock", "relock", "promote", "propagate",
     "slept", "suspend", "resume", "resched", "ticked", "fire", "heal", "exited",
     "joined", "alarmTail"} \subseteq PlainPCs
BY DEF PlainPCs, PCs

\* The steps of timers, of wakeups and of the scheduler push plain frames.
LEMMA PlainKernel ==
    ASSUME KInv,
           \/ FireTimer \/ FireDone \/ Reconcile \/ HealStrandedSleeper \/ SelectEnter
           \/ ScheduleReturn \/ IdleExit \/ Switched \/ WakeupThread \/ WakeDone \/ Reschedule
           \/ Exited \/ AlarmTail \/ FireAlarm \/ AlarmsDone \/ Undefer \/ HandlerReturn
    PROVE  Plain
<1>0. stack \in Stacks /\ host \in Threads /\ timers \subseteq Threads /\ parks \subseteq Threads
  BY TypeStacks DEF KInv, TypeOK
<1> USE PlainLists, PlainPushed, PlainNames
<1>1. CASE FireTimer \/ HealStrandedSleeper
  <2>1. (At("fire") \/ At("heal")) /\ host' = host /\ stack[host] # <<>>
    BY <1>1 DEF FireTimer, HealStrandedSleeper, At
  <2>2. Top \in PlainFrames /\ Top.batch \in SUBSET Threads
    BY <1>0, <2>1, TopType DEF PlainFrames, Frames
  <2>3. CASE Return
    BY <2>1, <2>3 DEF Plain
  <2>4. ASSUME NEW t \in Top.batch,
               LET rest == [Top EXCEPT !.batch = @ \ {t}]
               IN  Continue(<<rest>>) \/ Continue(<<On("resume", t), rest>>)
        PROVE  Plain
    <3>1. t \in Threads /\ [Top EXCEPT !.batch = @ \ {t}] \in PlainFrames /\ On("resume", t) \in PlainFrames
      BY <2>2
    <3> QED
      BY <2>1, <2>4, <3>1 DEF Plain
  <2> QED
    BY <1>1, <2>3, <2>4 DEF FireTimer, HealStrandedSleeper
<1>2. CASE FireDone \/ ScheduleReturn \/ Switched \/ AlarmsDone \/ Undefer \/ HandlerReturn
  BY <1>2 DEF FireDone, ScheduleReturn, Switched, AlarmsDone, Undefer, HandlerReturn, AtHandler, At, Plain
<1>3. CASE Reconcile
  <2>1. stack[host] # <<>> /\ host' = host /\ \E heal \in SUBSET Threads : Continue(<<Batch("heal", heal)>>)
    BY <1>0, <1>3 DEF Reconcile, At
  <2> QED
    BY <2>1 DEF Plain
<1>4. CASE SelectEnter
  <2>1. /\ At("select") /\ host' = host /\ stack[host] # <<>>
        /\ \E due \in SUBSET Threads : Continue(<<Batch("fire", due), [Top EXCEPT !.pc = "schedule"]>>)
    BY <1>0, <1>4 DEF SelectEnter, At
  <2>2. Top \in Frames
    BY <1>0, <2>1, TopType
  <2>3. [Top EXCEPT !.pc = "schedule"] \in PlainFrames
    BY <2>2
  <2> QED
    BY <2>1, <2>3 DEF Plain
<1>5. CASE IdleExit
  BY <1>5 DEF IdleExit, At, Plain
<1>6. CASE WakeupThread
  <2>1. /\ At("wake") /\ host' = host /\ stack[host] # <<>>
        /\ stack' = stack \/ Continue(<<[Top EXCEPT !.flag = TRUE]>>)
    BY <1>6 DEF WakeupThread, WakeOne, At
  <2>2. Top \in PlainFrames
    BY <1>0, <2>1, TopType DEF PlainFrames
  <2>3. [Top EXCEPT !.flag = TRUE] \in PlainFrames
    BY <2>2
  <2> QED
    BY <2>1, <2>3 DEF Plain
<1>7. CASE WakeDone \/ Reschedule \/ Exited \/ AlarmTail
  <2>1. /\ host' = host /\ stack[host] # <<>>
        /\ Continue(<<SelectThread(FALSE)>>) \/ Continue(<<>>)
    BY <1>7 DEF WakeDone, Reschedule, Exited, AlarmTail, At
  <2> QED
    BY <2>1 DEF Plain
<1>8. CASE FireAlarm
  BY <1>8 DEF FireAlarm, Plain, HandlerCall
<1> QED
  BY <1>1, <1>2, <1>3, <1>4, <1>5, <1>6, <1>7, <1>8

\* OSSleepThread goes on with SelectThread, or returns.
LEMMA SleepPush ==
    ASSUME KInv, SleepThread
    PROVE  \E fs \in Seq(PlainFrames) : Return \/ Continue(fs)
<1>0. stack \in Stacks /\ host \in Threads /\ running \in Threads \cup {None} /\ Main \in Threads
  BY TypeStacks, KernelConstants DEF KInv, TypeOK
<1> USE PlainLists, PlainPushed, PlainNames
<1>1. At("sleep") /\ Top \in Frames
  BY <1>0, TopType DEF SleepThread
<1>2. PICK t \in Threads : Return \/ Continue(<<SelectThread(FALSE), [Top EXCEPT !.pc = "slept", !.thr = t]>>)
  BY <1>0 DEF SleepThread
<1>3. [Top EXCEPT !.pc = "slept", !.thr = t] = [[Top EXCEPT !.thr = t] EXCEPT !.pc = "slept"]
  BY <1>1 DEF Frames
<1>4. [Top EXCEPT !.thr = t] \in Frames
  BY <1>1, With_thr
<1>5. [Top EXCEPT !.pc = "slept", !.thr = t] \in PlainFrames
  BY <1>3, <1>4
<1> QED
  BY <1>2, <1>5

\* So do those of sleeping, of priorities, of mutexes and of suspensions.
LEMMA PlainThread ==
    ASSUME KInv,
           \/ SleepThread \/ Slept \/ PromoteThreadPriority \/ PropagateMutexOwnerPriority
           \/ RelockMutex \/ SuspendThread \/ ResumeThread \/ Ticked \/ UnlockAllMutex \/ Joined
    PROVE  Plain
<1>0. /\ stack \in Stacks /\ host \in Threads /\ running \in Threads \cup {None} /\ Main \in Threads
      /\ owner \in [Mutexes -> Threads \cup {None}] /\ waitMutex \in [Threads -> Mutexes \cup {None}]
      /\ owned \in [Threads -> Seq(Mutexes)]
  BY TypeStacks, KernelConstants DEF KInv, TypeOK
<1> USE PlainLists, PlainPushed, PlainNames
<1>1. \A t \in Threads : NextOwner(t) \in Threads \cup {None} /\ OwnerOf(waitMutex[t]) \in Threads \cup {None}
  BY <1>0 DEF NextOwner, OwnerOf
<1>2. CASE SleepThread
  <2>1. host' = host /\ stack[host] # <<>>
    BY <1>2 DEF SleepThread, At
  <2> QED
    BY <1>2, <2>1, SleepPush DEF Plain
<1>3. CASE Slept \/ Ticked \/ Joined
  BY <1>3 DEF Slept, Ticked, Joined, At, Plain
<1>4. CASE PromoteThreadPriority
  <2>1. At("promote") /\ host' = host /\ stack[host] # <<>> /\ Top \in Frames
    BY <1>0, <1>4, TopType DEF PromoteThreadPriority, At
  <2>2. Top.thr \in Threads \cup {None} /\ Top.num \in 0 .. MaxPrio + 1
    BY <2>1 DEF Frames
  <2>3. CASE Return
    BY <2>1, <2>3 DEF Plain
  <2>4. CASE Top.thr # None /\ Continue(<<Promote(NextOwner(Top.thr), Top.num)>>)
    <3>1. Promote(NextOwner(Top.thr), Top.num) \in PlainFrames
      BY <1>1, <2>2, <2>4
    <3> QED
      BY <2>1, <2>4, <3>1 DEF Plain
  <2> QED
    BY <1>4, <2>3, <2>4 DEF PromoteThreadPriority
<1>5. CASE PropagateMutexOwnerPriority
  <2>1. At("propagate") /\ host' = host /\ stack[host] # <<>> /\ Top \in Frames
    BY <1>0, <1>5, TopType DEF PropagateMutexOwnerPriority, At
  <2>2. Top.thr \in Threads \cup {None}
    BY <2>1 DEF Frames
  <2>3. CASE Return
    BY <2>1, <2>3 DEF Plain
  <2>4. CASE Top.thr # None /\ Continue(<<On("propagate", NextOwner(Top.thr))>>)
    <3>1. On("propagate", NextOwner(Top.thr)) \in PlainFrames
      BY <1>1, <2>2, <2>4
    <3> QED
      BY <2>1, <2>4, <3>1 DEF Plain
  <2> QED
    BY <1>5, <2>3, <2>4 DEF PropagateMutexOwnerPriority
<1>6. CASE RelockMutex
  <2>1. At("relock") /\ host' = host /\ stack[host] # <<>> /\ Top \in Frames
    BY <1>0, <1>6, TopType DEF RelockMutex, At
  <2>2. [Top EXCEPT !.pc = "lock"] \in PlainFrames
    BY <2>1
  <2> QED
    BY <1>6, <2>1, <2>2 DEF RelockMutex, Plain
<1>7. CASE SuspendThread \/ ResumeThread
  <2>1. (At("suspend") \/ At("resume")) /\ host' = host /\ stack[host] # <<>>
    BY <1>7 DEF SuspendThread, ResumeThread, At
  <2>2. Top.thr \in Threads
    BY <1>0, <2>1, TopType DEF NeedThread
  <2>3. \/ Return \/ Continue(<<Frame("resched")>>)
        \/ Continue(<<On("propagate", OwnerOf(waitMutex[Top.thr])), Frame("resched")>>)
    BY <1>7 DEF SuspendThread, ResumeThread
  <2>4. On("propagate", OwnerOf(waitMutex[Top.thr])) \in PlainFrames /\ Frame("resched") \in PlainFrames
    BY <1>1, <2>2
  <2> QED
    BY <2>1, <2>3, <2>4 DEF Plain
<1>8. CASE UnlockAllMutex
  <2>1. At("unlockAll") /\ host' = host /\ stack[host] # <<>>
    BY <1>8 DEF UnlockAllMutex, At
  <2>2. Top.thr \in Threads
    BY <1>0, <2>1, TopType DEF NeedThread
  <2>3. CASE Return
    BY <2>1, <2>3 DEF Plain
  <2>4. CASE owned[Top.thr] # <<>> /\ Call(<<OnQ("wake", MutexQueue(Head(owned[Top.thr])))>>)
    <3>1. Head(owned[Top.thr]) \in Mutexes
      BY <1>0, <2>2, <2>4
    <3>2. OnQ("wake", MutexQueue(Head(owned[Top.thr]))) \in PlainFrames
      BY <3>1, QueueFacts
    <3> QED
      BY <2>1, <2>4, <3>2 DEF Plain
  <2> QED
    BY <1>8, <2>3, <2>4 DEF UnlockAllMutex
<1> QED
  BY <1>2, <1>3, <1>4, <1>5, <1>6, <1>7, <1>8

\* So do most calls of guest code.
LEMMA PlainCalls ==
    ASSUME KInv,
           \/ \E m \in Mutexes : OSLockMutex(m) \/ OSUnlockMutex(m)
           \/ \E t \in Threads : OSDetachThread(t) \/ OSSuspendThread(t) \/ OSResumeThread(t)
           \/ \E w \in WaitQueues : OSWakeupThread(w)
           \/ \E a \in Alarms : OSSetAlarm(a) \/ OSSetPeriodicAlarm(a)
           \/ OSSleepTicks \/ OSYieldThread
    PROVE  Plain
<1>0. running \in Threads \cup {None} /\ fiberThread \in Threads \cup {None}
  BY DEF KInv, TypeOK
<1> USE PlainLists, PlainPushed, PlainNames
<1>1. ASSUME NEW m \in Mutexes, OSLockMutex(m)
      PROVE  Plain
  BY <1>0, <1>1 DEF OSLockMutex, Plain
<1>2. ASSUME NEW m \in Mutexes, OSUnlockMutex(m)
      PROVE  Plain
  <2>1. host' = host /\ (stack' = stack \/ Call(<<OnQ("wake", MutexQueue(m))>>))
    BY <1>2 DEF OSUnlockMutex
  <2>2. OnQ("wake", MutexQueue(m)) \in PlainFrames
    BY QueueFacts
  <2> QED
    BY <2>1, <2>2 DEF Plain
<1>3. ASSUME NEW t \in Threads, OSDetachThread(t)
      PROVE  Plain
  <2>1. OnQ("wake", JoinQueue(t)) \in PlainFrames
    BY QueueFacts
  <2> QED
    BY <1>3, <2>1 DEF OSDetachThread, Plain
<1>4. ASSUME NEW t \in Threads, OSSuspendThread(t) \/ OSResumeThread(t)
      PROVE  Plain
  BY <1>4 DEF OSSuspendThread, OSResumeThread, Plain
<1>5. ASSUME NEW w \in WaitQueues, OSWakeupThread(w)
      PROVE  Plain
  <2>1. OnQ("wake", WaitQueue(w)) \in PlainFrames
    BY QueueFacts
  <2> QED
    BY <1>5, <2>1 DEF OSWakeupThread, Plain
<1>6. ASSUME NEW a \in Alarms, OSSetAlarm(a) \/ OSSetPeriodicAlarm(a)
      PROVE  Plain
  BY <1>6 DEF OSSetAlarm, OSSetPeriodicAlarm, SetAlarm, Plain
<1>7. CASE OSSleepTicks
  <2>1. \E t \in Threads : host' = host /\ Call(<<On("suspend", t), On("ticked", t)>>)
    BY <1>0, <1>7 DEF OSSleepTicks
  <2> QED
    BY <2>1 DEF Plain
<1>8. CASE OSYieldThread
  BY <1>8 DEF OSYieldThread, Plain
<1> QED
  BY <1>1, <1>2, <1>3, <1>4, <1>5, <1>6, <1>7, <1>8

-----------------------------------------------------------------------------
(***************************************************************************)
(* Who blocks.  Only OSSleepThread puts a thread on a wait queue; every    *)
(* other step leaves there who was there, or fewer.                        *)
(***************************************************************************)
\* Nobody is on a wait queue of R who is not on that of L; in particular every
\* wait queue that is empty in L is empty in R.
Fewer(L, R)   == \A q \in BlockQueues : \A x : Has(R.seq[q], x) => Has(L.seq[q], x)
Shrinks(L, R) == \A q \in BlockQueues : R.seq[q] # <<>> => L.seq[q] # <<>>

\* The first implies the second.
LEMMA FewerShrinks ==
    ASSUME NEW L \in Links, NEW R \in Links, Fewer(L, R)
    PROVE  Shrinks(L, R)
<1> SUFFICES ASSUME NEW q \in BlockQueues, R.seq[q] # <<>>, L.seq[q] = <<>>
             PROVE  FALSE
  BY DEF Shrinks
<1>1. R.seq[q] \in Seq(Threads)
  BY QueueFacts DEF Links
<1>2. 1 \in DOMAIN R.seq[q]
  BY <1>1
<1>3. Has(R.seq[q], R.seq[q][1])
  BY <1>2 DEF Has
<1>4. Has(L.seq[q], R.seq[q][1])
  BY <1>3 DEF Fewer
<1> QED
  BY <1>4 DEF Has

\* Taking a thread off a list.
LEMMA UnlinkFewer ==
    ASSUME NEW L \in Links, Listed(L), NEW t \in Threads
    PROVE  /\ Fewer(L, RemoveThreadFromQueue(L, t))
           /\ \A q \in BlockQueues : \A x :
                x # t /\ Has(L.seq[q], x) => Has(RemoveThreadFromQueue(L, t).seq[q], x)
<1> DEFINE R == RemoveThreadFromQueue(L, t)
<1>0. /\ L.seq \in [Queues -> Seq(Threads)] /\ L.at[t] \in Queues \cup {None} /\ BlockQueues \subseteq Queues
  BY QueueFacts DEF Links
<1>1. CASE L.at[t] = None
  <2>1. R = L
    BY <1>1 DEF RemoveThreadFromQueue
  <2> QED
    BY <2>1 DEF Fewer
<1>2. CASE L.at[t] # None
  <2> DEFINE q == L.at[t]
             n == UnlinkGuestListNode(L.seq[q], t)
  <2>1. q \in Queues /\ L.seq[q] \in Seq(Threads) /\ Once(L.seq[q])
    BY <1>0, <1>2 DEF Listed
  <2>2. \A x : Has(n, x) <=> Has(L.seq[q], x) /\ x # t
    BY <2>1, UnlinkList
  <2>3. R.seq = [L.seq EXCEPT ![q] = n]
    BY <1>2 DEF RemoveThreadFromQueue
  <2> HIDE DEF q, n, R
  <2>4. \A r \in BlockQueues : \A x : /\ Has(R.seq[r], x) => Has(L.seq[r], x)
                                      /\ x # t /\ Has(L.seq[r], x) => Has(R.seq[r], x)
    <3> TAKE r \in BlockQueues
    <3>1. CASE r = q
      BY <1>0, <2>2, <2>3, <3>1
    <3>2. CASE r # q
      <4>1. R.seq[r] = L.seq[r]
        BY <1>0, <2>3, <3>2
      <4> QED
        BY <4>1
    <3> QED
      BY <3>1, <3>2
  <2> QED
    BY <2>4 DEF Fewer, R
<1> QED
  BY <1>1, <1>2

\* Putting a thread back on the list it was on, or on a run queue.
LEMMA InsertFewer ==
    ASSUME NEW L \in Links, NEW R \in Links, Fewer(L, R), NEW t \in Threads,
           NEW pr \in [Threads -> Nat]
    PROVE  /\ \A q \in BlockQueues : \A p \in Nat :
                Once(R.seq[q]) /\ ~Has(R.seq[q], t) /\ Has(L.seq[q], t) =>
                    Fewer(L, InsertThreadIntoQueueByPriority(R, pr, q, t, p))
           /\ \A e, p : Fewer(L, InsertThreadIntoQueueByPriority(R, pr, RunQueue(e), t, p))
           /\ \A p : Fewer(L, LinkThreadOnRunQueue(R, t, p))
<1>0. R.seq \in [Queues -> Seq(Threads)] /\ BlockQueues \subseteq Queues /\ \A p : RunQueue(p) \notin BlockQueues
  BY QueueFacts DEF Links
<1>1. ASSUME NEW q \in BlockQueues, NEW p \in Nat, Once(R.seq[q]), ~Has(R.seq[q], t), Has(L.seq[q], t)
      PROVE  Fewer(L, InsertThreadIntoQueueByPriority(R, pr, q, t, p))
  <2> DEFINE n == InsertByPriority(R.seq[q], pr, t, p)
             I == InsertThreadIntoQueueByPriority(R, pr, q, t, p)
  <2>1. \A x : Has(n, x) <=> Has(R.seq[q], x) \/ x = t
    BY <1>0, <1>1, InsertList
  <2>2. I.seq = [R.seq EXCEPT ![q] = n]
    BY DEF InsertThreadIntoQueueByPriority
  <2> HIDE DEF n, I
  <2> SUFFICES ASSUME NEW r \in BlockQueues, NEW x, Has(I.seq[r], x)
               PROVE  Has(L.seq[r], x)
    BY DEF Fewer, I
  <2>3. CASE r = q
    <3>1. I.seq[r] = n
      BY <1>0, <2>2, <2>3
    <3>2. Has(R.seq[q], x) \/ x = t
      BY <2>1, <3>1
    <3> QED
      BY <1>1, <2>3, <3>2 DEF Fewer
  <2>4. CASE r # q
    <3>1. I.seq[r] = R.seq[r]
      BY <1>0, <2>2, <2>4
    <3> QED
      BY <3>1 DEF Fewer
  <2> QED
    BY <2>3, <2>4
<1>2. ASSUME NEW e, NEW I, NEW n, I.seq = [R.seq EXCEPT ![RunQueue(e)] = n]
      PROVE  Fewer(L, I)
  <2>1. \A r \in BlockQueues : I.seq[r] = R.seq[r]
    BY <1>0, <1>2
  <2> QED
    BY <2>1 DEF Fewer
<1>3. \A e, p : Fewer(L, InsertThreadIntoQueueByPriority(R, pr, RunQueue(e), t, p))
  <2> TAKE e, p
  <2> DEFINE I == InsertThreadIntoQueueByPriority(R, pr, RunQueue(e), t, p)
             n == InsertByPriority(R.seq[RunQueue(e)], pr, t, p)
  <2>1. I.seq = [R.seq EXCEPT ![RunQueue(e)] = n]
    BY DEF InsertThreadIntoQueueByPriority
  <2> HIDE DEF I, n
  <2>2. Fewer(L, I)
    BY <1>2, <2>1
  <2> QED
    BY <2>2 DEF I
<1>4. \A p : Fewer(L, LinkThreadOnRunQueue(R, t, p))
  <2> TAKE p
  <2> DEFINE I == LinkThreadOnRunQueue(R, t, p)
             n == Append(R.seq[RunQueue(p)], t)
  <2>1. I.seq = [R.seq EXCEPT ![RunQueue(p)] = n]
    BY DEF LinkThreadOnRunQueue
  <2> HIDE DEF I, n
  <2>2. Fewer(L, I)
    BY <1>2, <2>1
  <2> QED
    BY <2>2 DEF I
<1> QED
  BY <1>1, <1>3, <1>4

\* Taking the head off a list.
LEMMA PopFewer ==
    ASSUME NEW L \in Links, Listed(L)
    PROVE  /\ \A q \in BlockQueues : L.seq[q] # <<>> =>
                /\ PopThreadQueueHead(L, q) \in Links /\ Fewer(L, PopThreadQueueHead(L, q))
                /\ \A t : Fewer(L, ClearQueuePointer(PopThreadQueueHead(L, q), t))
           /\ \A p : Fewer(L, PopRunQueue(L, p))
<1>0. /\ L.seq \in [Queues -> Seq(Threads)] /\ BlockQueues \subseteq Queues /\ \A p : RunQueue(p) \notin BlockQueues
      /\ L.at \in [Threads -> Queues \cup {None}] /\ L.pending \in SUBSET (0 .. MaxPrio + 1)
  BY QueueFacts DEF Links
<1>1. ASSUME NEW q \in BlockQueues, L.seq[q] # <<>>
      PROVE  /\ PopThreadQueueHead(L, q) \in Links /\ Fewer(L, PopThreadQueueHead(L, q))
             /\ \A t : Fewer(L, ClearQueuePointer(PopThreadQueueHead(L, q), t))
  <2> DEFINE s == L.seq[q]
             R == PopThreadQueueHead(L, q)
  <2>1. s \in Seq(Threads) /\ Once(s)
    BY <1>0 DEF Listed
  <2>2. Tail(s) \in Seq(Threads) /\ \A x : Has(Tail(s), x) <=> Has(s, x) /\ x # Head(s)
    BY <1>1, <2>1, PopList
  <2>3. R.seq = [L.seq EXCEPT ![q] = Tail(s)] /\ R.at = L.at /\ R.pending = L.pending
          /\ \A t : ClearQueuePointer(R, t).seq = R.seq
    BY DEF PopThreadQueueHead, ClearQueuePointer
  <2>4. R \in Links
    BY <1>0, <2>2 DEF PopThreadQueueHead, Links
  <2> HIDE DEF R, s
  <2>5. ASSUME NEW r \in BlockQueues, NEW x, Has(R.seq[r], x)
        PROVE  Has(L.seq[r], x)
    <3>1. CASE r = q
      BY <1>0, <2>2, <2>3, <2>5, <3>1 DEF s
    <3>2. CASE r # q
      <4>1. R.seq[r] = L.seq[r]
        BY <1>0, <2>3, <3>2
      <4> QED
        BY <2>5, <4>1
    <3> QED
      BY <3>1, <3>2
  <2>6. Fewer(L, R) /\ \A t : Fewer(L, ClearQueuePointer(R, t))
    BY <2>3, <2>5 DEF Fewer
  <2> QED
    BY <2>4, <2>6 DEF R
<1>2. \A p : Fewer(L, PopRunQueue(L, p))
  <2> TAKE p
  <2> DEFINE R == PopRunQueue(L, p)
             n == Tail(L.seq[RunQueue(p)])
  <2>1. R.seq = [L.seq EXCEPT ![RunQueue(p)] = n]
    BY DEF PopRunQueue
  <2> HIDE DEF R, n
  <2>2. \A r \in BlockQueues : R.seq[r] = L.seq[r]
    BY <1>0, <2>1
  <2> QED
    BY <2>2 DEF Fewer, R
<1> QED
  BY <1>1, <1>2

\* A waiting thread is taken off its queue and put back on it.
LEMMA RequeueFewer ==
    ASSUME KInv, ThreadsOK, NEW t \in Threads, state[t] = "waiting", NEW p \in Nat
    PROVE  Fewer(links, InsertThreadIntoQueueByPriority(RemoveThreadFromQueue(links, t), prio, links.at[t], t, p))
<1> DEFINE off == RemoveThreadFromQueue(links, t)
           q   == links.at[t]
<1>1. links \in Links /\ AllPlaced(links, state, suspend, prio) /\ Listed(links) /\ prio \in [Threads -> Nat]
  BY SchedTypes DEF ThreadsOK, AllPlaced
<1>2. q \in BlockQueues /\ q \in Queues /\ Place(links, t) = q /\ q # None
  BY PlaceOf, QueueFacts
<1>3. Has(links.seq[q], t)
  BY <1>2 DEF Place
<1>4. off \in Links /\ OthersPlaced(off, state, suspend, prio, t)
  BY <1>1, <1>2, RemovePlaced
<1>5. Fewer(links, off)
  BY <1>1, UnlinkFewer
<1> HIDE DEF off, q
<1>6. Listed(off) /\ Place(off, t) = None
  BY <1>4 DEF OthersPlaced
<1>7. Once(off.seq[q]) /\ ~Has(off.seq[q], t)
  BY <1>2, <1>4, <1>6, PlaceFacts DEF Listed
<1>8. Fewer(links, InsertThreadIntoQueueByPriority(off, prio, q, t, p))
  BY <1>1, <1>2, <1>3, <1>4, <1>5, <1>7, InsertFewer
<1> QED
  BY <1>8 DEF off, q

\* A change of priority.
LEMMA PriorityFewer ==
    ASSUME KInv, ThreadsOK, NEW t \in Threads, NEW p \in Nat, SetThreadEffectivePriority(t, p)
    PROVE  Fewer(links, links')
<1> DEFINE off == RemoveThreadFromQueue(links, t)
<1>1. /\ links \in Links /\ off \in Links /\ Listed(links) /\ Fewer(links, links) /\ Fewer(links, off)
      /\ prio \in [Threads -> Nat]
  BY SchedTypes, UnlinkFewer, RemoveLinks DEF Fewer, ThreadsOK, AllPlaced
<1>2. CASE state[t] = "ready"
  <2>1. links' = InsertThreadIntoQueueByPriority(off, prio, RunQueue(p), t, p)
    BY <1>2 DEF SetThreadEffectivePriority
  <2> HIDE DEF off
  <2> QED
    BY <1>1, <2>1, InsertFewer
<1>3. CASE state[t] = "waiting"
  <2>1. links.at[t] # None
    BY <1>3, PlaceOf
  <2>2. links' = InsertThreadIntoQueueByPriority(off, prio, links.at[t], t, p)
    BY <1>3, <2>1 DEF SetThreadEffectivePriority
  <2> QED
    BY <1>3, <2>2, RequeueFewer
<1>4. CASE state[t] \notin {"ready", "waiting"}
  BY <1>1, <1>4 DEF SetThreadEffectivePriority
<1> QED
  BY <1>2, <1>3, <1>4

\* Every step but OSSleepThread leaves the wait queues with no new thread.
LEMMA QueueSteps ==
    ASSUME KInv, SchedInv,
           \/ ScheduleSwitch \/ PickThread \/ WakeupThread \/ Slept
           \/ PromoteThreadPriority \/ PropagateMutexOwnerPriority
           \/ SuspendThread \/ ResumeThread
           \/ \E t \in Threads : OSCreateThread(t) \/ OSCancelThread(t)
    PROVE  Fewer(links, links') /\ Shrinks(links, links')
<1>a. links \in Links /\ links' \in Links
  <2>1. Next
    BY DEF Next, KernelStep, GuestStep
  <2> QED
    BY <2>1, NextInv DEF KInv, TypeOK
<1> SUFFICES Fewer(links, links')
  BY <1>a, FewerShrinks
<1>0. /\ links \in Links /\ stack \in Stacks /\ host \in Threads /\ ThreadsOK /\ Fewer(links, links)
      /\ Listed(links) /\ prio \in [Threads -> Nat] /\ running \in Threads \cup {None}
      /\ base \in [Threads -> Prios] /\ prio \in [Threads -> 0 .. MaxPrio + 1]
      /\ owned \in [Threads -> Seq(Mutexes)]
  BY SchedTypes, TypeStacks DEF SchedInv, KInv, TypeOK, Fewer, ThreadsOK, AllPlaced
<1>1. \A t \in Threads : RemoveThreadFromQueue(links, t) \in Links /\ Fewer(links, RemoveThreadFromQueue(links, t))
  BY <1>0, RemoveLinks, UnlinkFewer
<1>2. CASE ScheduleSwitch
  <2>1. links' = links \/ (running # None /\ links' = LinkThreadOnRunQueue(links, running, prio[running]))
    BY <1>2 DEF ScheduleSwitch, CannotSwitch
  <2> QED
    BY <1>0, <2>1, InsertFewer
<1>3. CASE PickThread
  <2>1. CASE links.pending # {} /\ Runnable
    BY <1>0, <1>3, <2>1, PopFewer DEF PickThread
  <2>2. CASE ~(links.pending # {} /\ Runnable)
    <3>1. links' = links \/ (links.pending # {} /\ links' = DropUnrunnable)
      BY <1>3, <2>2 DEF PickThread
    <3>2. CASE links' = links
      BY <1>0, <3>2
    <3>3. CASE links.pending # {} /\ links' = DropUnrunnable
      <4>1. PickQueue \in Queues /\ links.seq[PickQueue] \in Seq(Threads)
        <5>1. MostUrgent(links.pending) \in 0 .. MaxPrio + 1
          BY <1>0, MostUrgentPending DEF Links
        <5>2. PickQueue \in Queues
          BY <5>1, QueueFacts DEF PickQueue
        <5> QED
          BY <1>0, <5>2 DEF Links
      <4>2. CASE links.seq[PickQueue] = <<>>
        BY <3>3, <4>2 DEF DropUnrunnable, Fewer
      <4>3. CASE links.seq[PickQueue] # <<>>
        BY <1>1, <3>3, <4>1, <4>3 DEF DropUnrunnable
      <4> QED
        BY <4>2, <4>3
    <3> QED
      BY <3>1, <3>2, <3>3
  <2> QED
    BY <2>1, <2>2
<1>4. CASE WakeupThread
  <2> DEFINE q      == Top.que
             t      == Head(links.seq[q])
             popped == PopThreadQueueHead(links, q)
  <2>1. q \in BlockQueues /\ links.seq[q] # <<>>
    BY <1>0, <1>4, TopType DEF WakeupThread, WakeOne, NeedQueue
  <2>2. t \in Threads /\ popped \in Links /\ Fewer(links, popped) /\ Fewer(links, ClearQueuePointer(popped, t))
    <3>1. t \in Threads
      <4>1. links.seq[q] \in Seq(Threads)
        BY <1>0, <2>1, QueueFacts DEF Links
      <4> QED
        BY <2>1, <4>1
    <3> QED
      BY <1>0, <2>1, <3>1, PopFewer
  <2>3. \/ links' = popped \/ links' = ClearQueuePointer(popped, t)
        \/ links' = LinkThreadOnRunQueue(popped, t, ClampPrio(prio[t]))
    BY <1>4 DEF WakeupThread, WakeOne
  <2> HIDE DEF popped, t, q
  <2> QED
    BY <1>0, <2>2, <2>3, InsertFewer
<1>5. CASE Slept
  <2>1. Top.thr \in Threads
    BY <1>0, <1>5, TopType DEF Slept, NeedThread
  <2> QED
    BY <1>0, <1>1, <1>5, <2>1 DEF Slept
<1>6. CASE PromoteThreadPriority \/ PropagateMutexOwnerPriority
  <2>1. (At("promote") \/ At("propagate")) /\ Top.thr \in Threads \cup {None} /\ Top.num \in Nat
    <3>1. At("promote") \/ At("propagate")
      BY <1>6 DEF PromoteThreadPriority, PropagateMutexOwnerPriority
    <3>2. Top \in Frames
      BY <1>0, <3>1, TopType
    <3> QED
      BY <3>1, <3>2, QueueConstants DEF Frames
  <2>2. \/ links' = links
        \/ Top.thr # None /\ SetThreadEffectivePriority(Top.thr, Top.num)
        \/ Top.thr # None /\ SetThreadEffectivePriority(Top.thr, EffectivePriority(Top.thr))
    BY <1>6 DEF PromoteThreadPriority, PropagateMutexOwnerPriority
  <2>3. \A t \in Threads : EffectivePriority(t) \in Nat
    <3>1. \A t \in Threads : EffectivePriority(t) \in Prios
      BY <1>0, EffectivePriorityType DEF EffectivePriority
    <3> QED
      BY <3>1, QueueConstants DEF Prios
  <2> QED
    BY <1>0, <2>1, <2>2, <2>3, PriorityFewer
<1>7. CASE SuspendThread \/ ResumeThread
  <2> DEFINE t   == Top.thr
             off == RemoveThreadFromQueue(links, t)
             e   == ComputeThreadEffectivePriority(off, prio, base[t], owned[t])
  <2>1. t \in Threads
    BY <1>0, <1>7, TopType DEF SuspendThread, ResumeThread, NeedThread
  <2>2. off \in Links /\ Fewer(links, off) /\ SuspendedWaitPriority \in Nat
    BY <1>1, <2>1, QueueConstants DEF SuspendedWaitPriority
  <2>3. e \in Nat
    <3>1. base[t] \in Prios /\ owned[t] \in Seq(Mutexes)
      BY <1>0, <2>1
    <3> HIDE DEF off, t
    <3>2. e \in Prios
      BY <1>0, <2>2, <3>1, EffectivePriorityType
    <3> HIDE DEF e
    <3> QED
      BY <3>2, QueueConstants DEF Prios
  <2> HIDE DEF off, t, e
  <2>4. \/ links' = links \/ links' = off
        \/ /\ state[t] = "waiting"
           /\ \E p \in Nat : links' = InsertThreadIntoQueueByPriority(off, prio, links.at[t], t, p)
        \/ \E p : links' = InsertThreadIntoQueueByPriority(links, prio, RunQueue(p), t, p)
    <3>1. CASE SuspendThread
      BY <2>2, <3>1 DEF SuspendThread, off, t
    <3>2. CASE ResumeThread
      BY <2>3, <3>2 DEF ResumeThread, off, t, e
    <3> QED
      BY <1>7, <3>1, <3>2
  <2>5. ASSUME state[t] = "waiting",
               NEW p \in Nat, links' = InsertThreadIntoQueueByPriority(off, prio, links.at[t], t, p)
        PROVE  Fewer(links, links')
    BY <1>0, <2>1, <2>5, RequeueFewer DEF off
  <2>6. ASSUME NEW p, links' = InsertThreadIntoQueueByPriority(links, prio, RunQueue(p), t, p)
        PROVE  Fewer(links, links')
    BY <1>0, <2>1, <2>6, InsertFewer
  <2> QED
    BY <1>0, <2>2, <2>4, <2>5, <2>6
<1>8. ASSUME NEW t \in Threads, OSCreateThread(t)
      PROVE  Fewer(links, links')
  <2>1. links'.seq = [links.seq EXCEPT ![JoinQueue(t)] = <<>>]
    BY <1>0, <1>8 DEF OSCreateThread, Links
  <2>2. links.seq \in [Queues -> Seq(Threads)] /\ BlockQueues \subseteq Queues
    BY <1>0, QueueFacts DEF Links
  <2>3. ASSUME NEW q \in BlockQueues, NEW x, Has(links'.seq[q], x)
        PROVE  Has(links.seq[q], x)
    <3>1. CASE q = JoinQueue(t)
      <4>1. links'.seq[q] = <<>>
        BY <2>1, <2>2, <3>1
      <4> QED
        BY <2>3, <4>1 DEF Has
    <3>2. CASE q # JoinQueue(t)
      <4>1. links'.seq[q] = links.seq[q]
        BY <2>1, <2>2, <3>2
      <4> QED
        BY <2>3, <4>1
    <3> QED
      BY <3>1, <3>2
  <2> QED
    BY <2>3 DEF Fewer
<1>9. ASSUME NEW t \in Threads, OSCancelThread(t)
      PROVE  Fewer(links, links')
  BY <1>0, <1>1, <1>9 DEF OSCancelThread
<1> QED
  BY <1>2, <1>3, <1>4, <1>5, <1>6, <1>7, <1>8, <1>9

-----------------------------------------------------------------------------
(***************************************************************************)
(* Nobody is left on the queue of a free mutex.  A call of OSSleepThread   *)
(* that has not blocked yet is at most under the promotion that OSLockMutex *)
(* makes before it, so what its caller found is still so.                  *)
(***************************************************************************)
AwakeFrames == {f \in Frames : f.pc # "sleep"}
Awake       == \A u \in Threads : stack[u] \in Seq(AwakeFrames)

\* What somebody who waits on q waits for will still happen.
Blockable(q) == /\ \A m \in Mutexes : q = MutexQueue(m) => owner[m] # None
                /\ \A t \in Threads : q = JoinQueue(t) => ~ThreadStateIsTerminated(state[t])

Dozes(s) == /\ s # <<>> /\ Head(s).pc = "sleep" /\ Blockable(Head(s).que)
            /\ Tail(s) \in Seq(AwakeFrames)

SleepsOK == /\ \A u \in Threads \ {host} : stack[u] \in Seq(AwakeFrames)
            /\ \/ stack[host] \in Seq(AwakeFrames)
               \/ Dozes(stack[host])
               \/ At("promote") /\ Dozes(Tail(stack[host]))

SleepInv == SleepsOK /\ NoWaiterOnFreeMutex

\* Nobody waits for a mutex that is free.
NoFree == \A m \in Mutexes : links.seq[MutexQueue(m)] # <<>> => owner[m] # None

\* Plain frames, and the frames of the idle loop and of the alarm pump, are no
\* sleeping calls.
LEMMA AwakePushed ==
    /\ Seq(PlainFrames) \subseteq Seq(AwakeFrames) /\ HandlerCall \in Seq(AwakeFrames)
    /\ \A pc \in {"idle", "idleAlarms", "alarmLoop", "undefer", "alarms", "pick"} : Frame(pc) \in AwakeFrames
    /\ \A f \in PlainFrames : f \in AwakeFrames
    /\ <<>> \in Seq(AwakeFrames)
    /\ \A f \in AwakeFrames : <<f>> \in Seq(AwakeFrames)
    /\ \A f, g \in AwakeFrames : <<f, g>> \in Seq(AwakeFrames)
    /\ \A f, g, h \in AwakeFrames : <<f, g, h>> \in Seq(AwakeFrames)
<1>1. PlainFrames \subseteq AwakeFrames
  BY DEF PlainFrames, PlainPCs, AwakeFrames
<1>2. ASSUME NEW pc \in {"idle", "idleAlarms", "alarmLoop", "undefer", "alarms", "pick"}
      PROVE  Frame(pc) \in AwakeFrames
  <2>1. pc \in PCs /\ pc # "sleep"
    BY DEF PCs
  <2> QED
    BY <2>1, PushedPCs DEF AwakeFrames
<1>3. Seq(PlainFrames) \subseteq Seq(AwakeFrames)
  BY <1>1, SeqSubset
<1>4. HandlerCall \in Seq(AwakeFrames)
  <2>1. \A pc \in {"handler", "alarmTail"} : pc \in PCs /\ pc # "sleep"
    BY DEF PCs
  <2>2. Frame("handler") \in AwakeFrames /\ Frame("alarmTail") \in AwakeFrames
    BY <2>1, PushedPCs DEF AwakeFrames
  <2> QED
    BY <2>2 DEF HandlerCall
<1> QED
  BY <1>1, <1>2, <1>3, <1>4

\* Without a sleeping call, a step that pushes none leaves none.
LEMMA AwakeChange ==
    ASSUME KInv, Awake, NEW fs \in Seq(AwakeFrames),
           \/ stack' = stack \/ Call(fs)
           \/ stack[host] # <<>> /\ (Return \/ Continue(fs))
    PROVE  Awake'
<1>0. host \in Threads /\ stack \in [Threads -> Seq(GoodFrames)]
  BY SchedTypes
<1> DEFINE s == stack[host]
<1>1. s \in Seq(AwakeFrames)
  BY <1>0 DEF Awake
<1>2. s # <<>> => Tail(s) \in Seq(AwakeFrames) /\ fs \o Tail(s) \in Seq(AwakeFrames)
  BY <1>1
<1>3. fs \o s \in Seq(AwakeFrames)
  BY <1>1
<1>4. ASSUME NEW u \in Threads
      PROVE  stack'[u] \in Seq(AwakeFrames)
  <2>1. CASE u # host
    <3>1. stack'[u] = stack[u]
      BY <1>0, <2>1 DEF Call, Return, Continue
    <3> QED
      BY <3>1 DEF Awake
  <2>2. CASE u = host
    <3>1. \/ stack'[u] = s \/ stack'[u] = fs \o s
          \/ s # <<>> /\ (stack'[u] = Tail(s) \/ stack'[u] = fs \o Tail(s))
      BY <1>0, <2>2 DEF Call, Return, Continue
    <3> QED
      BY <1>1, <1>2, <1>3, <3>1
  <2> QED
    BY <2>1, <2>2
<1> QED
  BY <1>4 DEF Awake

\* The same of a plain step.
LEMMA AwakePlain ==
    ASSUME KInv, Awake, Plain
    PROVE  Awake'
<1>1. PICK fs \in Seq(AwakeFrames) : \/ stack' = stack \/ Call(fs)
                                     \/ stack[host] # <<>> /\ (Return \/ Continue(fs))
  BY AwakePushed DEF Plain
<1> QED
  BY <1>1, AwakeChange

\* Only the frame on top, or one under a promotion, is a sleeping call.
LEMMA AwakeUnless ==
    ASSUME KInv, SleepsOK, ~At("sleep"), ~At("promote")
    PROVE  Awake
BY DEF SleepsOK, Dozes, Awake, At, Top

\* The steps of the scheduler, the idle loop and the life cycle that are not plain.
LEMMA AwakeSteps ==
    ASSUME KInv, Awake,
           \/ ScheduleSwitch \/ IdlePump \/ IdleAlarms \/ PickThread
           \/ ProcessAlarmQueue \/ OSProcessAlarms \/ OSProcessAlarmsDeferred
           \/ OSExitThread
           \/ \E t \in Threads : OSCreateThread(t) \/ OSCancelThread(t)
    PROVE  Awake'
<1>0. /\ host \in Threads /\ stack \in [Threads -> Seq(GoodFrames)] /\ timers \subseteq Threads
      /\ fiberThread \in Threads \cup {None} /\ running \in Threads \cup {None}
  BY SchedTypes DEF KInv, TypeOK
<1> USE AwakePushed, PlainPushed, PlainNames
<1>1. CASE ScheduleSwitch
  <2>1. stack[host] # <<>> /\ (Continue(<<Frame("pick")>>) \/ Continue(<<Frame("idle")>>))
    BY <1>1 DEF ScheduleSwitch, At
  <2> QED
    BY <2>1, AwakeChange
<1>2. CASE IdlePump
  <2>1. stack[host] # <<>> /\ \E due \in SUBSET Threads : Continue(<<Batch("fire", due), Frame("idleAlarms")>>)
    BY <1>0, <1>2 DEF IdlePump, At, TakeDue
  <2>2. \A due \in SUBSET Threads : Batch("fire", due) \in AwakeFrames
    OBVIOUS
  <2> QED
    BY <2>1, <2>2, AwakeChange
<1>3. CASE IdleAlarms
  <2>1. stack[host] # <<>> /\ (Continue(<<Frame("alarms"), Frame("idle")>>) \/ Continue(<<Frame("idle")>>))
    BY <1>3 DEF IdleAlarms, At
  <2> QED
    BY <2>1, AwakeChange
<1>4. CASE PickThread
  <2>1. \/ stack' = stack
        \/ stack[host] # <<>> /\ (Return \/ Continue(<<On("switched", fiberThread)>>))
    BY <1>4 DEF PickThread, At, SwitchToThread
  <2>2. <<On("switched", fiberThread)>> \in Seq(AwakeFrames)
    BY <1>0
  <2> QED
    BY <2>1, <2>2, AwakeChange
<1>5. CASE ProcessAlarmQueue
  <2>1. stack[host] # <<>> /\ (Return \/ Continue(<<Frame("alarmLoop")>>))
    BY <1>5 DEF ProcessAlarmQueue, At
  <2> QED
    BY <2>1, AwakeChange
<1>6. CASE OSProcessAlarms \/ OSProcessAlarmsDeferred
  <2>1. Call(<<Frame("alarms")>>) \/ Call(<<Frame("alarms"), Frame("undefer")>>)
    BY <1>6 DEF OSProcessAlarms, OSProcessAlarmsDeferred
  <2> QED
    BY <2>1, AwakeChange
<1>7. ASSUME NEW t \in Threads, NEW tail \in {"exited", "resched"}, TerminateThread(t, tail)
      PROVE  Awake'
  <2> DEFINE fs == <<On("unlockAll", t), OnQ("wake", JoinQueue(t)), Frame(tail)>>
  <2>1. JoinQueue(t) \in BlockQueues
    BY QueueFacts
  <2>2. On("unlockAll", t) \in AwakeFrames /\ OnQ("wake", JoinQueue(t)) \in AwakeFrames /\ Frame(tail) \in AwakeFrames
    <3>1. "unlockAll" \in PCs /\ "unlockAll" # "sleep"
      BY DEF PCs
    <3>2. On("unlockAll", t) \in AwakeFrames
      BY <3>1, PushedPCs DEF AwakeFrames
    <3> QED
      BY <2>1, <3>2
  <2>3. fs \in Seq(AwakeFrames)
    BY <2>2
  <2>4. stack' = [u \in Threads |-> IF u = host THEN fs \o stack[u] ELSE IF u = t THEN <<>> ELSE stack[u]]
    BY <1>7 DEF TerminateThread, Terminating
  <2> HIDE DEF fs
  <2>5. fs \o stack[host] \in Seq(AwakeFrames)
    BY <1>0, <2>3 DEF Awake
  <2> QED
    BY <2>4, <2>5 DEF Awake
<1>8. CASE OSExitThread
  <2>1. running \in Threads /\ TerminateThread(running, "exited")
    BY <1>0, <1>8 DEF OSExitThread
  <2> QED
    BY <1>7, <2>1
<1>9. ASSUME NEW t \in Threads, OSCancelThread(t)
      PROVE  Awake'
  <2>1. TerminateThread(t, "resched")
    BY <1>9 DEF OSCancelThread
  <2> QED
    BY <1>7, <2>1
<1>10. ASSUME NEW t \in Threads, OSCreateThread(t)
       PROVE  Awake'
  <2>1. stack' = [stack EXCEPT ![t] = <<>>]
    BY <1>10 DEF OSCreateThread
  <2> QED
    BY <1>0, <2>1 DEF Awake
<1> QED
  BY <1>1, <1>2, <1>3, <1>4, <1>5, <1>6, <1>8, <1>9, <1>10

\* A step that leaves no sleeping call, frees no mutex and fills no wait queue.
LEMMA RestStep ==
    ASSUME KInv, NoFree, Shrinks(links, links'), Awake', host' \in Threads,
           \A m \in Mutexes : owner'[m] = None => owner[m] = None
    PROVE  SleepInv'
<1>1. NoFree'
  BY QueueFacts DEF NoFree, Shrinks
<1> QED
  BY <1>1 DEF SleepInv, SleepsOK, Awake, NoFree, NoWaiterOnFreeMutex

\* Nobody waits for a free mutex unless a wakeup is in the middle of a queue.
LEMMA FreeUnless ==
    ASSUME KInv, NoWaiterOnFreeMutex, At("wake") => links.seq[Top.que] = <<>>
    PROVE  NoFree
BY DEF NoWaiterOnFreeMutex, NoFree

\* The top of a list and what is below it.
LEMMA PushedTop ==
    ASSUME NEW S, NEW g, NEW r \in Seq(S)
    PROVE  <<g>> \o r # <<>> /\ Head(<<g>> \o r) = g /\ Tail(<<g>> \o r) = r
<1> DEFINE T == S \cup {g}
<1>1. r \in Seq(T) /\ g \in T
  BY SeqSubset
<1> HIDE DEF T
<1> QED
  BY <1>1

\* The steps that neither block, nor wake, nor touch a mutex.
Quiet ==
    \/ FireTimer \/ FireDone \/ Reconcile \/ HealStrandedSleeper
    \/ SelectEnter \/ ScheduleReturn \/ ScheduleSwitch
    \/ IdlePump \/ IdleAlarms \/ IdleExit \/ PickThread \/ Switched
    \/ WakeDone \/ Reschedule \/ Slept \/ PropagateMutexOwnerPriority \/ RelockMutex
    \/ SuspendThread \/ ResumeThread \/ Ticked \/ Exited \/ Joined
    \/ ProcessAlarmQueue \/ FireAlarm \/ AlarmTail \/ AlarmsDone \/ Undefer

QuietCall ==
    \/ \E m \in Mutexes : OSLockMutex(m)
    \/ \E t \in Threads :
         \/ OSCreateThread(t) \/ OSCancelThread(t)
         \/ OSDetachThread(t) \/ OSSuspendThread(t) \/ OSResumeThread(t)
    \/ \E w \in WaitQueues : OSWakeupThread(w)
    \/ \E a \in Alarms : OSSetAlarm(a) \/ OSSetPeriodicAlarm(a)
    \/ OSSleepTicks \/ OSYieldThread \/ OSExitThread
    \/ OSProcessAlarms \/ OSProcessAlarmsDeferred \/ HandlerReturn

\* Where these steps are taken.
LEMMA QuietTop ==
    /\ Quiet => /\ ~AtGuest /\ ~At("sleep") /\ ~At("promote") /\ ~At("unlockAll") /\ ~At("lock")
                /\ At("wake") => links.seq[Top.que] = <<>>
    /\ QuietCall => AtGuest \/ At("handler")
<1>1. ASSUME NEW pc, At(pc)
      PROVE  ~AtGuest /\ Top.pc = pc /\ \A x : At(x) => x = pc
  BY <1>1 DEF At, AtGuest
<1>2. Quiet => \/ At("fire") \/ At("heal") \/ At("select") \/ At("schedule") \/ At("idle") \/ At("idleAlarms")
               \/ At("pick") \/ At("switched") \/ (At("wake") /\ links.seq[Top.que] = <<>>)
               \/ At("resched") \/ At("slept") \/ At("propagate") \/ At("relock") \/ At("suspend")
               \/ At("resume") \/ At("ticked") \/ At("exited") \/ At("joined") \/ At("alarms")
               \/ At("alarmLoop") \/ At("alarmTail") \/ At("undefer")
  BY DEF Quiet, FireTimer, FireDone, Reconcile, HealStrandedSleeper, SelectEnter, ScheduleReturn,
         ScheduleSwitch, IdlePump, IdleAlarms, IdleExit, PickThread, Switched, WakeDone, Reschedule, Slept,
         PropagateMutexOwnerPriority, RelockMutex, SuspendThread, ResumeThread, Ticked, Exited, Joined,
         ProcessAlarmQueue, FireAlarm, AlarmTail, AlarmsDone, Undefer
<1>3. Quiet => /\ ~AtGuest /\ ~At("sleep") /\ ~At("promote") /\ ~At("unlockAll") /\ ~At("lock")
               /\ At("wake") => links.seq[Top.que] = <<>>
  BY <1>1, <1>2
<1>4. \A c : MayCall(c) => AtGuest \/ At("handler")
  BY DEF MayCall, AtHandler
<1>5. QuietCall => AtGuest \/ At("handler")
  BY <1>4 DEF QuietCall, OSLockMutex, OSCreateThread, OSCancelThread, OSDetachThread, OSSuspendThread,
         OSResumeThread, OSWakeupThread, OSSetAlarm, OSSetPeriodicAlarm, OSSleepTicks, OSYieldThread,
         OSExitThread, OSProcessAlarms, OSProcessAlarmsDeferred, HandlerReturn, AtHandler
<1> QED
  BY <1>3, <1>5

\* What these steps do to the mutexes and the queues.
LEMMA QuietQueues ==
    ASSUME KInv, SchedInv, Quiet \/ QuietCall
    PROVE  UNCHANGED <<owner, count>> /\ Fewer(links, links') /\ Shrinks(links, links')
<1>1. UNCHANGED <<owner, count>>
  <2>1. Quiet => UNCHANGED mutexVars
    BY DEF Quiet, FireTimer, FireDone, Reconcile, HealStrandedSleeper, SelectEnter, ScheduleReturn,
         ScheduleSwitch, IdlePump, IdleAlarms, IdleExit, PickThread, Switched, WakeDone, Reschedule, Slept,
         PropagateMutexOwnerPriority, RelockMutex, SuspendThread, ResumeThread, Ticked, Exited, Joined,
         ProcessAlarmQueue, FireAlarm, AlarmTail, AlarmsDone, Undefer
  <2>2. QuietCall => UNCHANGED mutexVars
    BY DEF QuietCall, OSLockMutex, OSCreateThread, OSCancelThread, OSDetachThread, OSSuspendThread,
         OSResumeThread, OSWakeupThread, OSSetAlarm, OSSetPeriodicAlarm, SetAlarm, OSSleepTicks, OSYieldThread,
         OSExitThread, OSProcessAlarms, OSProcessAlarmsDeferred, HandlerReturn
  <2> QED
    BY <2>1, <2>2 DEF mutexVars
<1>2. \/ ScheduleSwitch \/ PickThread \/ Slept \/ PropagateMutexOwnerPriority
      \/ SuspendThread \/ ResumeThread
      \/ \E t \in Threads : OSCreateThread(t) \/ OSCancelThread(t)
      \/ links' = links
  BY DEF Quiet, FireTimer, FireDone, Reconcile, HealStrandedSleeper, SelectEnter, ScheduleReturn,
         IdlePump, IdleAlarms, IdleExit, Switched, WakeDone, Reschedule,
         RelockMutex, Ticked, Exited, Joined,
         ProcessAlarmQueue, FireAlarm, AlarmTail, AlarmsDone, Undefer,
         QuietCall, OSLockMutex, OSDetachThread, OSSuspendThread,
         OSResumeThread, OSWakeupThread, OSSetAlarm, OSSetPeriodicAlarm, SetAlarm, OSSleepTicks, OSYieldThread,
         OSExitThread, OSProcessAlarms, OSProcessAlarmsDeferred, HandlerReturn
<1>3. links' = links => Fewer(links, links') /\ Shrinks(links, links')
  BY DEF Fewer, Shrinks
<1> QED
  BY <1>1, <1>2, <1>3, QueueSteps

\* None of them leaves a sleeping call.
LEMMA QuietAwake ==
    ASSUME KInv, Awake, Quiet \/ QuietCall
    PROVE  Awake'
<1>1. CASE Quiet
  BY <1>1, AwakePlain, AwakeSteps, PlainKernel, PlainThread DEF Quiet
<1>2. CASE QuietCall
  BY <1>2, AwakePlain, AwakeSteps, PlainKernel, PlainCalls DEF QuietCall
<1> QED
  BY <1>1, <1>2

\* They keep the invariant.
LEMMA QuietStep ==
    ASSUME KInv, KInv', SchedInv, SleepInv, Quiet \/ QuietCall
    PROVE  SleepInv'
<1>1. ~At("sleep") /\ ~At("promote") /\ (At("wake") => links.seq[Top.que] = <<>>)
  BY QuietTop DEF At, AtGuest
<1>2. Awake /\ NoFree
  BY <1>1, AwakeUnless, FreeUnless DEF SleepInv
<1>3. host' \in Threads
  BY DEF KInv, TypeOK
<1> QED
  BY <1>2, <1>3, QuietQueues, QuietAwake, RestStep

\* A thread that goes to sleep leaves no sleeping call.
LEMMA SleepAwakes ==
    ASSUME KInv, SleepsOK, SleepThread
    PROVE  Dozes(stack[host]) /\ Awake'
<1>0. host \in Threads /\ stack \in [Threads -> Seq(GoodFrames)] /\ stack[host] # <<>> /\ At("sleep")
  BY SchedTypes DEF SleepThread, At
<1>1. Dozes(stack[host]) /\ \A u \in Threads \ {host} : stack[u] \in Seq(AwakeFrames)
  <2>1. stack[host] \notin Seq(AwakeFrames)
    <3>1. ASSUME stack[host] \in Seq(AwakeFrames)
          PROVE  FALSE
      <4>1. Head(stack[host]) \in AwakeFrames
        BY <1>0, <3>1
      <4> QED
        BY <1>0, <4>1 DEF At, Top, AwakeFrames
    <3> QED
      BY <3>1
  <2> QED
    BY <1>0, <2>1 DEF SleepsOK, At
<1>2. PICK fs \in Seq(AwakeFrames) : Return \/ Continue(fs)
  BY SleepPush, AwakePushed
<1>3. Tail(stack[host]) \in Seq(AwakeFrames)
  BY <1>1 DEF Dozes
<1>4. fs \o Tail(stack[host]) \in Seq(AwakeFrames)
  BY <1>3
<1> QED
  BY <1>0, <1>1, <1>2, <1>3, <1>4 DEF Awake, Return, Continue

\* A thread is woken, or goes to sleep, or the owner it will wait for is promoted.
LEMMA BlockSteps ==
    ASSUME KInv, KInv', SchedInv, SleepInv, WakeupThread \/ SleepThread \/ PromoteThreadPriority
    PROVE  SleepInv'
<1>0. /\ host \in Threads /\ stack \in [Threads -> Seq(GoodFrames)] /\ host' = host /\ stack \in Stacks
      /\ UNCHANGED <<owner, count>> /\ stack[host] # <<>> /\ links \in Links
  BY SchedTypes, TypeStacks DEF KInv, WakeupThread, WakeOne, SleepThread, PromoteThreadPriority, At, mutexVars
<1>1. CASE WakeupThread
  <2>1. /\ At("wake") /\ UNCHANGED owner /\ links.seq[Top.que] # <<>>
        /\ stack' = stack \/ Continue(<<[Top EXCEPT !.flag = TRUE]>>)
    BY <1>0, <1>1 DEF WakeupThread, WakeOne
  <2>2. Awake
    BY <2>1, AwakeUnless DEF SleepInv, At
  <2>3. Awake'
    BY <1>1, <2>2, AwakePlain, PlainKernel
  <2>4. At("wake")' /\ Top.que' = Top.que
    <3>1. Top \in Frames /\ Top.pc = "wake"
      BY <1>0, <2>1, TopType
    <3> DEFINE f == [Top EXCEPT !.flag = TRUE]
    <3>2. f \in Frames /\ f.pc = "wake" /\ f.que = Top.que
      BY <3>1, With_flag
    <3> HIDE DEF f
    <3>3. CASE stack' = stack
      BY <1>0, <2>1, <3>3 DEF At, Top
    <3>4. CASE Continue(<<f>>)
      <4>1. Tail(stack[host]) \in Seq(GoodFrames)
        BY <1>0
      <4>2. stack'[host'] = <<f>> \o Tail(stack[host])
        BY <1>0, <3>4 DEF Continue
      <4>3. Head(<<f>> \o Tail(stack[host])) = f /\ <<f>> \o Tail(stack[host]) # <<>>
        BY <4>1
      <4> QED
        BY <3>2, <4>2, <4>3 DEF At, Top
    <3> QED
      BY <2>1, <3>3, <3>4 DEF f
  <2>5. Shrinks(links, links')
    BY <1>1, QueueSteps
  <2>6. NoWaiterOnFreeMutex'
    <3> SUFFICES ASSUME NEW m \in Mutexes, links'.seq[MutexQueue(m)] # <<>>, owner'[m] = None
                 PROVE  (At("wake") /\ Top.que = MutexQueue(m))'
      BY DEF NoWaiterOnFreeMutex
    <3>1. links.seq[MutexQueue(m)] # <<>> /\ owner[m] = None
      BY <2>1, <2>5, QueueFacts DEF Shrinks
    <3> QED
      BY <2>4, <3>1 DEF SleepInv, NoWaiterOnFreeMutex
  <2> QED
    BY <1>0, <2>3, <2>6 DEF SleepInv, SleepsOK, Awake
<1>2. CASE SleepThread
  <2>1. At("sleep") /\ ~At("wake")
    BY <1>2 DEF SleepThread, At
  <2>2. NoFree
    BY <2>1, FreeUnless DEF SleepInv
  <2>3. Dozes(stack[host])
    BY <1>2, SleepAwakes DEF SleepInv
  <2>4. Awake'
    BY <1>2, SleepAwakes DEF SleepInv
  <2>5. NoFree'
    <3> SUFFICES ASSUME NEW m \in Mutexes, links'.seq[MutexQueue(m)] # <<>>
                 PROVE  owner'[m] # None
      BY DEF NoFree
    <3>1. CASE Top.que = MutexQueue(m)
      BY <1>0, <2>3, <3>1 DEF Dozes, Blockable, Top
    <3>2. CASE Top.que # MutexQueue(m)
      <4>1. links'.seq[MutexQueue(m)] = links.seq[MutexQueue(m)]
        <5>1. links.seq \in [Queues -> Seq(Threads)] /\ MutexQueue(m) \in Queues
          BY <1>0, QueueFacts DEF Links
        <5> QED
          BY <1>2, <3>2, <5>1 DEF SleepThread, InsertThreadIntoQueueByPriority
      <4> QED
        BY <1>0, <2>2, <4>1 DEF NoFree
    <3> QED
      BY <3>1, <3>2
  <2> QED
    BY <1>0, <2>4, <2>5 DEF SleepInv, SleepsOK, Awake, NoFree, NoWaiterOnFreeMutex
<1>3. CASE PromoteThreadPriority
  <2>1. At("promote") /\ ~At("wake") /\ UNCHANGED state
    BY <1>3 DEF PromoteThreadPriority, At
  <2>2. NoFree
    BY <2>1, FreeUnless DEF SleepInv
  <2>3. NoFree'
    BY <1>0, <1>3, <2>2, QueueSteps, QueueFacts DEF NoFree, Shrinks
  <2>4. SleepsOK'
    <3>1. CASE Awake
      <4>1. Awake'
        BY <1>3, <3>1, AwakePlain, PlainThread
      <4> QED
        BY <1>0, <4>1 DEF SleepsOK, Awake
    <3>2. CASE ~Awake
      <4>1. Dozes(Tail(stack[host])) /\ \A u \in Threads \ {host} : stack[u] \in Seq(AwakeFrames)
        BY <2>1, <3>2 DEF SleepInv, SleepsOK, Awake, Dozes, At, Top
      <4>2. /\ \A u \in Threads \ {host} : stack'[u] = stack[u]
            /\ \/ stack'[host] = Tail(stack[host])
               \/ \E t, p : stack'[host] = <<Promote(t, p)>> \o Tail(stack[host])
        BY <1>0, <1>3 DEF PromoteThreadPriority, Return, Continue
      <4>3. ASSUME NEW s, Dozes(s)
            PROVE  /\ s # <<>> /\ Head(s).pc = "sleep" /\ Tail(s) \in Seq(AwakeFrames)
                   /\ \A m \in Mutexes : Head(s).que = MutexQueue(m) => owner'[m] # None
                   /\ \A t \in Threads : Head(s).que = JoinQueue(t) => ~ThreadStateIsTerminated(state'[t])
        BY <1>0, <2>1, <4>3 DEF Dozes, Blockable
      <4>4. CASE stack'[host] = Tail(stack[host])
        BY <1>0, <4>1, <4>2, <4>3, <4>4 DEF SleepsOK, Dozes, Blockable
      <4>5. ASSUME NEW t, NEW p, stack'[host] = <<Promote(t, p)>> \o Tail(stack[host])
            PROVE  SleepsOK'
        <5>1. Tail(stack[host]) \in Seq(GoodFrames) /\ Promote(t, p).pc = "promote"
          BY <1>0 DEF Promote, Frame
        <5>2. LET u == <<Promote(t, p)>> \o Tail(stack[host])
              IN  u # <<>> /\ Head(u) = Promote(t, p) /\ Tail(u) = Tail(stack[host])
          BY <5>1, PushedTop
        <5>3. At("promote")' /\ Tail(stack'[host]) = Tail(stack[host])
          BY <1>0, <4>5, <5>1, <5>2 DEF At, Top
        <5>4. host' = host /\ \A u \in Threads \ {host'} : stack'[u] \in Seq(AwakeFrames)
          BY <1>0, <4>1, <4>2
        <5>5. PICK s : s = Tail(stack[host])
          OBVIOUS
        <5>6. /\ s # <<>> /\ Head(s).pc = "sleep" /\ Tail(s) \in Seq(AwakeFrames)
              /\ \A m \in Mutexes : Head(s).que = MutexQueue(m) => owner'[m] # None
              /\ \A x \in Threads : Head(s).que = JoinQueue(x) => ~ThreadStateIsTerminated(state'[x])
          BY <4>1, <4>3, <5>5
        <5>7. At("promote")' /\ Tail(stack'[host']) = s
          BY <1>0, <5>3, <5>5
        <5> QED
          BY <5>4, <5>6, <5>7 DEF SleepsOK, Dozes, Blockable
      <4> QED
        BY <4>2, <4>4, <4>5
    <3> QED
      BY <3>1, <3>2
  <2> QED
    BY <2>3, <2>4 DEF SleepInv, NoFree, NoWaiterOnFreeMutex
<1> QED
  BY <1>1, <1>2, <1>3

\* A list is pushed one frame after the other.
LEMMA PushedTwo ==
    ASSUME NEW S, NEW a, NEW b, NEW r \in Seq(S)
    PROVE  <<a, b>> \o r = <<a>> \o (<<b>> \o r)
<1> DEFINE T == S \cup {a, b}
           u == <<a, b>> \o r
           w == <<b>> \o r
           v == <<a>> \o w
<1>1. r \in Seq(T) /\ a \in T /\ b \in T
  BY SeqSubset
<1> HIDE DEF T
<1>4. u \in Seq(T) /\ w \in Seq(T)
  BY <1>1
<1>5. v \in Seq(T)
  <2> HIDE DEF w
  <2> QED
    BY <1>1, <1>4
<1>6. Len(u) = 2 + Len(r) /\ Len(w) = 1 + Len(r) /\ Len(r) \in Nat
  BY <1>1
<1>7. /\ u[1] = a /\ u[2] = b /\ w[1] = b
      /\ \A i \in 1 .. Len(r) : u[i + 2] = r[i] /\ w[i + 1] = r[i]
  BY <1>1
<1>8. Len(v) = 1 + Len(w) /\ v[1] = a /\ \A i \in 1 .. Len(w) : v[i + 1] = w[i]
  <2> HIDE DEF w
  <2> QED
    BY <1>1, <1>4
<1> HIDE DEF u, v, w
<1>9. ASSUME NEW i \in 1 .. Len(u) PROVE u[i] = v[i]
  <2>1. CASE i = 1
    BY <2>1, <1>7, <1>8
  <2>2. CASE i = 2
    <3>1. v[1 + 1] = w[1]
      BY <1>6, <1>8
    <3> QED
      BY <2>2, <3>1, <1>7
  <2>3. CASE i > 2
    <3>1. i - 2 \in 1 .. Len(r) /\ i - 1 \in 1 .. Len(w)
      BY <1>6, <2>3
    <3>2. u[(i - 2) + 2] = r[i - 2] /\ w[(i - 2) + 1] = r[i - 2] /\ v[(i - 1) + 1] = w[i - 1]
      BY <3>1, <1>7, <1>8
    <3>3. (i - 2) + 2 = i /\ (i - 2) + 1 = i - 1 /\ (i - 1) + 1 = i
      BY <1>6
    <3> QED
      BY <3>2, <3>3
  <2> QED
    BY <1>6, <2>1, <2>2, <2>3
<1>10. u = v
  <2>1. DOMAIN u = DOMAIN v /\ DOMAIN u = 1 .. Len(u)
    BY <1>4, <1>5, <1>6, <1>8
  <2>2. u = [i \in DOMAIN u |-> u[i]] /\ v = [i \in DOMAIN v |-> v[i]]
    BY <1>4, <1>5
  <2> QED
    BY <2>1, <2>2, <1>9
<1> QED
  BY <1>10 DEF u, v, w

\* A fiber is about to block on q.
LEMMA DozeStep ==
    ASSUME KInv, Awake, host' = host, NEW f, f.pc = "sleep",
           \A m \in Mutexes : f.que = MutexQueue(m) => owner'[m] # None,
           \A t \in Threads : f.que = JoinQueue(t) => ~ThreadStateIsTerminated(state'[t]), NEW r \in Seq(AwakeFrames),
           \A u \in Threads \ {host} : stack'[u] = stack[u],
           \/ stack'[host] = <<f>> \o r
           \/ \E g : g.pc = "promote" /\ stack'[host] = <<g>> \o (<<f>> \o r)
    PROVE  SleepsOK'
<1>0. \A u \in Threads \ {host} : stack'[u] \in Seq(AwakeFrames)
  BY DEF Awake
<1>1. <<f>> \o r # <<>> /\ Head(<<f>> \o r) = f /\ Tail(<<f>> \o r) = r
  BY PushedTop
<1>2. CASE stack'[host] = <<f>> \o r
  BY <1>0, <1>1, <1>2 DEF SleepsOK, Dozes, Blockable
<1>3. ASSUME NEW g, g.pc = "promote", stack'[host] = <<g>> \o (<<f>> \o r)
      PROVE  SleepsOK'
  <2>1. <<f>> \o r \in Seq(AwakeFrames \cup {f})
    <3>1. r \in Seq(AwakeFrames \cup {f})
      BY SeqSubset
    <3> QED
      BY <3>1
  <2>2. stack'[host] # <<>> /\ Head(stack'[host]) = g /\ Tail(stack'[host]) = <<f>> \o r
    BY <1>3, <2>1, PushedTop
  <2>3. At("promote")'
    BY <1>3, <2>2 DEF At, Top
  <2> QED
    BY <1>0, <1>1, <2>2, <2>3 DEF SleepsOK, Dozes, Blockable
<1> QED
  BY <1>2, <1>3

\* What a thread calls when it is going to wait.
LEMMA CallDozes ==
    ASSUME KInv, KInv', SchedInv, SleepInv,
           \/ \E w \in WaitQueues : OSSleepThread(w)
           \/ \E t \in Threads : OSJoinThread(t)
    PROVE  SleepInv'
<1>0. /\ host \in Threads /\ host' = host /\ stack \in [Threads -> Seq(GoodFrames)]
      /\ UNCHANGED <<owner, links>>
  BY SchedTypes DEF OSSleepThread, OSJoinThread, mutexVars
<1>1. AtGuest \/ At("handler")
  BY DEF OSSleepThread, OSJoinThread, MayCall, AtHandler
<1>2. ~At("sleep") /\ ~At("promote") /\ ~At("wake")
  BY <1>1 DEF At, AtGuest
<1>3. Awake /\ NoFree /\ NoFree' /\ stack[host] \in Seq(AwakeFrames)
  <2>1. Awake /\ NoFree
    BY <1>2, AwakeUnless, FreeUnless DEF SleepInv
  <2> QED
    BY <1>0, <2>1 DEF NoFree, Awake
<1>4. SleepsOK' => SleepInv'
  BY <1>3 DEF SleepInv, NoFree, NoWaiterOnFreeMutex
<1>5. ASSUME NEW w \in WaitQueues, OSSleepThread(w)
      PROVE  SleepsOK'
  <2> DEFINE f == OnQ("sleep", WaitQueue(w))
  <2>1. f.pc = "sleep" /\ f.que = WaitQueue(w)
    BY DEF OnQ, Frame
  <2>2. /\ \A x \in Mutexes : f.que = MutexQueue(x) => owner'[x] # None
        /\ \A u \in Threads : f.que = JoinQueue(u) => ~ThreadStateIsTerminated(state'[u])
    BY <2>1 DEF WaitQueue, MutexQueue, JoinQueue
  <2> HIDE DEF f
  <2>3. stack'[host] = <<f>> \o stack[host] /\ \A u \in Threads \ {host} : stack'[u] = stack[u]
    BY <1>0, <1>5 DEF OSSleepThread, Call, f
  <2> QED
    BY <1>0, <1>3, <2>1, <2>2, <2>3, DozeStep
<1>6. ASSUME NEW t \in Threads, OSJoinThread(t)
      PROVE  SleepsOK'
  <2>1. CASE ~detached[t] /\ state[t] # "moribund" /\ links.seq[JoinQueue(t)] = <<>>
    <3> DEFINE f == OnQ("sleep", JoinQueue(t))
               g == On("joined", t)
    <3>1. f.pc = "sleep" /\ f.que = JoinQueue(t) /\ g \in AwakeFrames
      BY PlainPushed, PlainNames, AwakePushed DEF OnQ, Frame
    <3>2. Call(<<f, g>>) /\ UNCHANGED state /\ ~ThreadStateIsTerminated(state[t])
      BY <1>6, <2>1 DEF OSJoinThread, SchedInv, ThreadsOK, ThreadListExact, ThreadStateIsTerminated
    <3>3. /\ \A x \in Mutexes : f.que = MutexQueue(x) => owner'[x] # None
          /\ \A u \in Threads : f.que = JoinQueue(u) => ~ThreadStateIsTerminated(state'[u])
      BY <3>1, <3>2 DEF MutexQueue, JoinQueue
    <3> HIDE DEF f, g
    <3>4. stack'[host] = <<f, g>> \o stack[host] /\ \A u \in Threads \ {host} : stack'[u] = stack[u]
      BY <1>0, <3>2 DEF Call
    <3>5. <<f, g>> \o stack[host] = <<f>> \o (<<g>> \o stack[host])
      BY <1>3, PushedTwo
    <3>6. <<g>> \o stack[host] \in Seq(AwakeFrames)
      BY <1>3, <3>1
    <3> QED
      BY <1>0, <1>3, <3>1, <3>3, <3>4, <3>5, <3>6, DozeStep
  <2>2. CASE ~(~detached[t] /\ state[t] # "moribund" /\ links.seq[JoinQueue(t)] = <<>>)
    <3>1. stack' = stack
      BY <1>6, <2>2 DEF OSJoinThread
    <3> QED
      BY <1>0, <1>3, <3>1 DEF SleepsOK, Awake
  <2> QED
    BY <2>1, <2>2
<1> QED
  BY <1>4, <1>5, <1>6

\* A mutex is taken, or its owner is lent the priority of the thread that is
\* going to wait for it.
LEMMA LockDozes ==
    ASSUME KInv, KInv', SchedInv, SleepInv, LockMutex
    PROVE  SleepInv'
<1> DEFINE t == Top.thr
           m == Top.mut
<1>0. /\ host \in Threads /\ host' = host /\ stack \in [Threads -> Seq(GoodFrames)]
      /\ UNCHANGED <<links, state>> /\ At("lock") /\ stack[host] # <<>> /\ stack \in Stacks
      /\ owner \in [Mutexes -> Threads \cup {None}] /\ prio \in [Threads -> 0 .. MaxPrio + 1]
  BY SchedTypes, TypeStacks DEF LockMutex, At, KInv, TypeOK
<1>1. t \in Threads /\ m \in Mutexes /\ t # None /\ Top \in Frames
  BY <1>0, TopType, QueueConstants DEF NeedThread, NeedMutex
<1>2. ~At("sleep") /\ ~At("promote") /\ ~At("wake")
  BY <1>0 DEF At
<1>3. Awake /\ NoFree /\ Tail(stack[host]) \in Seq(AwakeFrames)
  <2>1. Awake /\ NoFree
    BY <1>2, AwakeUnless, FreeUnless DEF SleepInv
  <2>2. stack[host] \in Seq(AwakeFrames)
    BY <1>0, <2>1 DEF Awake
  <2> QED
    BY <1>0, <2>1, <2>2
<1>4. CASE owner[m] \in {None, t}
  <2>1. owner' = [owner EXCEPT ![m] = t] /\ Return
    BY <1>4 DEF LockMutex
  <2>2. Awake'
    BY <1>0, <1>3, <2>1, AwakeChange, AwakePushed
  <2>3. \A x \in Mutexes : owner'[x] = None => owner[x] = None
    BY <1>0, <1>1, <2>1
  <2>4. Shrinks(links, links')
    BY <1>0 DEF Shrinks
  <2> QED
    BY <1>0, <1>3, <2>2, <2>3, <2>4, RestStep
<1>5. CASE owner[m] \notin {None, t}
  <2> DEFINE g == Promote(owner[m], prio[t])
             f == OnQ("sleep", MutexQueue(m))
             e == [Top EXCEPT !.pc = "relock"]
  <2>1. g.pc = "promote" /\ f.pc = "sleep" /\ f.que = MutexQueue(m)
    BY DEF Promote, OnQ, Frame
  <2>2. e \in AwakeFrames
    BY <1>1, PlainPushed, PlainNames, AwakePushed
  <2>3. UNCHANGED owner /\ Continue(<<g, f, e>>)
    BY <1>5 DEF LockMutex, mutexVars
  <2>4. /\ \A x \in Mutexes : f.que = MutexQueue(x) => owner'[x] # None
        /\ \A u \in Threads : f.que = JoinQueue(u) => ~ThreadStateIsTerminated(state'[u])
    BY <1>5, <2>1, <2>3 DEF MutexQueue, JoinQueue
  <2> HIDE DEF e, f, g, t, m
  <2>5. stack'[host] = <<g, f, e>> \o Tail(stack[host]) /\ \A u \in Threads \ {host} : stack'[u] = stack[u]
    BY <1>0, <2>3 DEF Continue
  <2>6. <<g, f, e>> \o Tail(stack[host]) = <<g>> \o (<<f>> \o (<<e>> \o Tail(stack[host])))
    <3> DEFINE r == Tail(stack[host])
    <3>1. r \in Seq(AwakeFrames)
      BY <1>3
    <3> HIDE DEF r
    <3>2. <<g, f, e>> \o r = <<g>> \o (<<f>> \o (<<e>> \o r))
      <4> DEFINE T == AwakeFrames \cup {e, f, g}
      <4>1. r \in Seq(T) /\ e \in T /\ f \in T /\ g \in T
        BY <3>1, SeqSubset
      <4>2. <<f, e>> \o r = <<f>> \o (<<e>> \o r)
        BY <3>1, PushedTwo
      <4> HIDE DEF T
      <4>3. <<g, f, e>> \o r = <<g>> \o (<<f, e>> \o r)
        BY <4>1
      <4> QED
        BY <4>2, <4>3
    <3> QED
      BY <3>2 DEF r
  <2>7. <<e>> \o Tail(stack[host]) \in Seq(AwakeFrames)
    BY <1>3, <2>2
  <2>8. SleepsOK'
    BY <1>0, <1>3, <2>1, <2>4, <2>5, <2>6, <2>7, DozeStep
  <2>9. NoFree'
    BY <1>0, <1>3, <2>3 DEF NoFree
  <2> QED
    BY <2>8, <2>9 DEF SleepInv, NoFree, NoWaiterOnFreeMutex
<1> QED
  BY <1>4, <1>5

\* A mutex is released and its waiters are going to be woken.
LEMMA ReleaseAwake ==
    ASSUME KInv, KInv', SchedInv, SleepInv, UnlockAllMutex \/ \E m \in Mutexes : OSUnlockMutex(m)
    PROVE  SleepInv'
<1>0. /\ host \in Threads /\ host' = host /\ stack \in [Threads -> Seq(GoodFrames)]
      /\ UNCHANGED links /\ owner \in [Mutexes -> Threads \cup {None}]
      /\ owned \in [Threads -> Seq(Mutexes)] /\ stack \in Stacks
  BY SchedTypes, TypeStacks DEF UnlockAllMutex, OSUnlockMutex, KInv, TypeOK
<1>1. AtGuest \/ At("handler") \/ At("unlockAll")
  BY DEF UnlockAllMutex, OSUnlockMutex, MayCall, AtHandler
<1>2. ~At("sleep") /\ ~At("promote") /\ ~At("wake")
  BY <1>1 DEF At, AtGuest
<1>3. Awake /\ NoFree /\ Awake'
  <2>1. Awake /\ NoFree
    BY <1>2, AwakeUnless, FreeUnless DEF SleepInv
  <2> QED
    BY <2>1, AwakePlain, PlainThread, PlainCalls
<1>4. ASSUME NEW m \in Mutexes, owner' = [owner EXCEPT ![m] = None], Call(<<OnQ("wake", MutexQueue(m))>>)
      PROVE  SleepInv'
  <2> DEFINE f == OnQ("wake", MutexQueue(m))
  <2>1. f.pc = "wake" /\ f.que = MutexQueue(m)
    BY DEF OnQ, Frame
  <2>2. stack'[host] = <<f>> \o stack[host] /\ stack[host] \in Seq(GoodFrames)
    BY <1>0, <1>4 DEF Call
  <2> HIDE DEF f
  <2>3. stack'[host] # <<>> /\ Head(stack'[host]) = f
    BY <2>2, PushedTop
  <2>4. (At("wake") /\ Top.que = MutexQueue(m))'
    BY <1>0, <2>1, <2>3 DEF At, Top
  <2>5. NoWaiterOnFreeMutex'
    BY <1>0, <1>3, <1>4, <2>4 DEF NoWaiterOnFreeMutex, NoFree
  <2> QED
    BY <1>0, <1>3, <2>5 DEF SleepInv, SleepsOK, Awake
<1>5. CASE UNCHANGED owner
  <2>1. Shrinks(links, links')
    BY <1>0 DEF Shrinks
  <2> QED
    BY <1>0, <1>3, <1>5, <2>1, RestStep
<1>6. CASE UnlockAllMutex
  <2>1. Top.thr \in Threads
    BY <1>0, <1>6, TopType DEF UnlockAllMutex, NeedThread
  <2>2. CASE owned[Top.thr] = <<>>
    BY <1>5, <1>6, <2>2 DEF UnlockAllMutex
  <2>3. CASE owned[Top.thr] # <<>>
    <3>1. Head(owned[Top.thr]) \in Mutexes
      BY <1>0, <2>1, <2>3
    <3> QED
      BY <1>4, <1>6, <2>3, <3>1 DEF UnlockAllMutex
  <2> QED
    BY <2>2, <2>3
<1>7. ASSUME NEW m \in Mutexes, OSUnlockMutex(m)
      PROVE  SleepInv'
  BY <1>4, <1>5, <1>7 DEF OSUnlockMutex
<1> QED
  BY <1>6, <1>7

\* Every step keeps the invariant of the waiting threads.
LEMMA NextSleep == GuestContract /\ KInv /\ KInv' /\ SchedInv /\ SleepInv /\ [Next]_vars => SleepInv'
<1> SUFFICES ASSUME GuestContract, KInv, KInv', SchedInv, SleepInv, [Next]_vars PROVE SleepInv'
  OBVIOUS
<1>1. CASE KernelStep
  <2>1. \/ Quiet \/ WakeupThread \/ SleepThread \/ PromoteThreadPriority
        \/ LockMutex \/ UnlockAllMutex \/ WakeNoSwitch \/ WakeNoSwitchDone \/ Returned
    BY <1>1 DEF KernelStep, Quiet
  <2> QED
    BY <2>1, QuietStep, BlockSteps, LockDozes, ReleaseAwake, NoReturn
<1>2. CASE GuestStep
  <2>1. \/ QuietCall \/ ThreadReturn
        \/ \E m \in Mutexes : OSUnlockMutex(m)
        \/ \E w \in WaitQueues : OSSleepThread(w)
        \/ \E t \in Threads : OSJoinThread(t)
    BY <1>2 DEF GuestStep, QuietCall
  <2> QED
    BY <2>1, QuietStep, ReleaseAwake, CallDozes, NoReturn
<1>3. CASE UNCHANGED vars
  <2>1. UNCHANGED <<stack, host, links, owner, state>>
    BY <1>3 DEF vars
  <2> QED
    BY <2>1 DEF SleepInv, SleepsOK, Dozes, Blockable, At, Top, NoWaiterOnFreeMutex
<1> QED
  BY <1>1, <1>2, <1>3 DEF Next

\* Nobody waits and nobody is about to when the kernel starts.
LEMMA InitSleep == Init => SleepInv
<1> SUFFICES ASSUME Init PROVE SleepInv
  OBVIOUS
<1>1. Main \in Threads
  BY KernelConstants
<1>2. host = Main /\ \A u \in Threads : stack[u] = <<>>
  BY <1>1 DEF Init
<1>3. \A m \in Mutexes : links.seq[MutexQueue(m)] = <<>>
  BY QueueFacts DEF Init, EmptyLinks
<1> QED
  BY <1>1, <1>2, <1>3, AwakePushed DEF SleepInv, SleepsOK, NoWaiterOnFreeMutex

\* NoWaiterOnFreeMutex, for every instance: OSLockMutex never blocks a thread on
\* a mutex that was released between its look at the owner and its sleep, and a
\* release, by OSUnlockMutex or by a termination, wakes every waiter.
THEOREM FreeMutexHasNoWaiter == GuestContract => (Spec /\ CreatesFresh => []NoWaiterOnFreeMutex)
<1> SUFFICES ASSUME GuestContract PROVE Spec /\ CreatesFresh => []NoWaiterOnFreeMutex
  OBVIOUS
<1>1. KInv /\ [Next]_vars => KInv'
  BY NextInv
<1>2. (KInv /\ SchedInv) /\ SleepInv /\ [Next]_vars => SleepInv'
  BY <1>1, NextSleep
<1>3. SleepInv => NoWaiterOnFreeMutex
  BY DEF SleepInv
<1> QED
  BY <1>2, <1>3, InitSleep, SchedInvariance, PTL DEF Spec

-----------------------------------------------------------------------------
(***************************************************************************)
(* What a thread leaves behind.  As long as no thread is ended while       *)
(* somebody waits for a mutex it owns, a termination runs to its end       *)
(* without a thread switch: at most one is in progress, on the fiber that  *)
(* is on the CPU, and it is on top of that fiber's stack.                  *)
(***************************************************************************)
Gone(t) == ThreadStateIsTerminated(state[t])

EndFree == {f \in Frames : f.pc # "unlockAll"}
NoEnd   == \A u \in Threads : stack[u] \in Seq(EndFree)

\* The end of a termination: the joiners of t are being woken.
WakesJoiners(t) == At("wake") /\ Top.que = JoinQueue(t) /\ Top.thr = None

\* No termination holds mutexes: who is gone owns nothing, and nobody waits for it.
Settled == /\ NoEnd
           /\ \A t \in Threads : Gone(t) =>
                /\ \A m \in Mutexes : owner[m] # t
                /\ links.seq[JoinQueue(t)] # <<>> => WakesJoiners(t)

\* The termination of t is going to release a mutex of t, and then wakes its joiners.
Ends(s, t) == /\ s # <<>> /\ Head(s) = On("unlockAll", t)
              /\ Tail(s) \in Seq(EndFree) /\ Tail(s) # <<>>
              /\ Head(Tail(s)) = OnQ("wake", JoinQueue(t))

\* The same, or the queue of a mutex it released is found empty.
Releasing(t) ==
    /\ \A u \in Threads \ {host} : stack[u] \in Seq(EndFree)
    /\ \/ Ends(stack[host], t)
       \/ /\ At("wake") /\ ~Top.flag /\ links.seq[Top.que] = <<>>
          /\ Ends(Tail(stack[host]), t)
    /\ \A m \in Mutexes : owner[m] = t => links.seq[MutexQueue(m)] = <<>>
    /\ \A u \in Threads \ {t} : Gone(u) =>
          (\A m \in Mutexes : owner[m] # u) /\ links.seq[JoinQueue(u)] = <<>>

EndInv == OwnedListed /\ (Settled \/ \E t \in Threads : Releasing(t))

\* Frames that are part of no termination.
LEMMA EndPushed ==
    /\ Seq(PlainFrames) \subseteq Seq(EndFree) /\ HandlerCall \in Seq(EndFree)
    /\ \A pc \in {"idle", "idleAlarms", "alarmLoop", "undefer", "alarms", "pick", "sleep"} : Frame(pc) \in EndFree
    /\ \A q \in BlockQueues : OnQ("sleep", q) \in EndFree
    /\ \A f \in PlainFrames : f \in EndFree
    /\ <<>> \in Seq(EndFree)
    /\ \A f \in EndFree : <<f>> \in Seq(EndFree)
    /\ \A f, g \in EndFree : <<f, g>> \in Seq(EndFree)
    /\ \A f, g, h \in EndFree : <<f, g, h>> \in Seq(EndFree)
<1>1. PlainFrames \subseteq EndFree
  BY DEF PlainFrames, PlainPCs, EndFree
<1>2. ASSUME NEW pc \in {"idle", "idleAlarms", "alarmLoop", "undefer", "alarms", "pick", "sleep"}
      PROVE  pc \in PCs /\ pc # "unlockAll"
  BY DEF PCs
<1>3. \A pc \in {"idle", "idleAlarms", "alarmLoop", "undefer", "alarms", "pick", "sleep"} : Frame(pc) \in EndFree
  BY <1>2, PushedPCs DEF EndFree
<1>4. \A q \in BlockQueues : OnQ("sleep", q) \in EndFree
  BY <1>2, PushedPCs DEF EndFree
<1>5. Seq(PlainFrames) \subseteq Seq(EndFree)
  BY <1>1, SeqSubset
<1>6. HandlerCall \in Seq(EndFree)
  <2>1. \A pc \in {"handler", "alarmTail"} : pc \in PCs /\ pc # "unlockAll"
    BY DEF PCs
  <2>2. Frame("handler") \in EndFree /\ Frame("alarmTail") \in EndFree
    BY <2>1, PushedPCs DEF EndFree
  <2> QED
    BY <2>2 DEF HandlerCall
<1> QED
  BY <1>1, <1>3, <1>4, <1>5, <1>6

\* Without a termination in progress, a step that starts none leaves none.
LEMMA EndChange ==
    ASSUME KInv, NoEnd, NEW fs \in Seq(EndFree),
           \/ stack' = stack \/ Call(fs)
           \/ stack[host] # <<>> /\ (Return \/ Continue(fs))
    PROVE  NoEnd'
<1>0. host \in Threads /\ stack \in [Threads -> Seq(GoodFrames)]
  BY SchedTypes
<1> DEFINE s == stack[host]
<1>1. s \in Seq(EndFree)
  BY <1>0 DEF NoEnd
<1>2. s # <<>> => Tail(s) \in Seq(EndFree) /\ fs \o Tail(s) \in Seq(EndFree)
  BY <1>1
<1>3. fs \o s \in Seq(EndFree)
  BY <1>1
<1>4. ASSUME NEW u \in Threads
      PROVE  stack'[u] \in Seq(EndFree)
  <2>1. CASE u # host
    <3>1. stack'[u] = stack[u]
      BY <1>0, <2>1 DEF Call, Return, Continue
    <3> QED
      BY <3>1 DEF NoEnd
  <2>2. CASE u = host
    <3>1. \/ stack'[u] = s \/ stack'[u] = fs \o s
          \/ s # <<>> /\ (stack'[u] = Tail(s) \/ stack'[u] = fs \o Tail(s))
      BY <1>0, <2>2 DEF Call, Return, Continue
    <3> QED
      BY <1>1, <1>2, <1>3, <3>1
  <2> QED
    BY <2>1, <2>2
<1> QED
  BY <1>4 DEF NoEnd

\* The same of a plain step.
LEMMA EndPlain ==
    ASSUME KInv, NoEnd, Plain
    PROVE  NoEnd'
<1>1. PICK fs \in Seq(EndFree) : \/ stack' = stack \/ Call(fs)
                                 \/ stack[host] # <<>> /\ (Return \/ Continue(fs))
  BY EndPushed DEF Plain
<1> QED
  BY <1>1, EndChange

\* The steps that are not plain and start no termination.
LEMMA EndSteps ==
    ASSUME KInv, NoEnd,
           \/ ScheduleSwitch \/ IdlePump \/ IdleAlarms \/ PickThread
           \/ ProcessAlarmQueue \/ OSProcessAlarms \/ OSProcessAlarmsDeferred \/ LockMutex
           \/ \E w \in WaitQueues : OSSleepThread(w)
           \/ \E t \in Threads : OSCreateThread(t) \/ OSJoinThread(t)
    PROVE  NoEnd'
<1>0. /\ host \in Threads /\ stack \in [Threads -> Seq(GoodFrames)] /\ timers \subseteq Threads
      /\ fiberThread \in Threads \cup {None} /\ running \in Threads \cup {None} /\ stack \in Stacks
      /\ owner \in [Mutexes -> Threads \cup {None}] /\ prio \in [Threads -> 0 .. MaxPrio + 1]
  BY SchedTypes, TypeStacks DEF KInv, TypeOK
<1> USE EndPushed, PlainPushed, PlainNames
<1>1. CASE ScheduleSwitch
  <2>1. stack[host] # <<>> /\ (Continue(<<Frame("pick")>>) \/ Continue(<<Frame("idle")>>))
    BY <1>1 DEF ScheduleSwitch, At
  <2> QED
    BY <2>1, EndChange
<1>2. CASE IdlePump
  <2>1. stack[host] # <<>> /\ \E due \in SUBSET Threads : Continue(<<Batch("fire", due), Frame("idleAlarms")>>)
    BY <1>0, <1>2 DEF IdlePump, At, TakeDue
  <2>2. \A due \in SUBSET Threads : Batch("fire", due) \in EndFree
    OBVIOUS
  <2> QED
    BY <2>1, <2>2, EndChange
<1>3. CASE IdleAlarms
  <2>1. stack[host] # <<>> /\ (Continue(<<Frame("alarms"), Frame("idle")>>) \/ Continue(<<Frame("idle")>>))
    BY <1>3 DEF IdleAlarms, At
  <2> QED
    BY <2>1, EndChange
<1>4. CASE PickThread
  <2>1. \/ stack' = stack
        \/ stack[host] # <<>> /\ (Return \/ Continue(<<On("switched", fiberThread)>>))
    BY <1>4 DEF PickThread, At, SwitchToThread
  <2>2. <<On("switched", fiberThread)>> \in Seq(EndFree)
    BY <1>0
  <2> QED
    BY <2>1, <2>2, EndChange
<1>5. CASE ProcessAlarmQueue
  <2>1. stack[host] # <<>> /\ (Return \/ Continue(<<Frame("alarmLoop")>>))
    BY <1>5 DEF ProcessAlarmQueue, At
  <2> QED
    BY <2>1, EndChange
<1>6. CASE OSProcessAlarms \/ OSProcessAlarmsDeferred
  <2>1. Call(<<Frame("alarms")>>) \/ Call(<<Frame("alarms"), Frame("undefer")>>)
    BY <1>6 DEF OSProcessAlarms, OSProcessAlarmsDeferred
  <2> QED
    BY <2>1, EndChange
<1>7. CASE LockMutex
  <2> DEFINE t == Top.thr
             m == Top.mut
             fs == <<Promote(owner[m], prio[t]), OnQ("sleep", MutexQueue(m)), [Top EXCEPT !.pc = "relock"]>>
  <2>1. stack[host] # <<>> /\ (Return \/ Continue(fs))
    BY <1>7 DEF LockMutex, At
  <2>2. t \in Threads /\ m \in Mutexes /\ Top \in Frames
    BY <1>0, <1>7, TopType DEF LockMutex, NeedThread, NeedMutex
  <2>3. MutexQueue(m) \in BlockQueues
    BY <2>2, QueueFacts
  <2>4. Promote(owner[m], prio[t]) \in EndFree /\ [Top EXCEPT !.pc = "relock"] \in EndFree
    BY <1>0, <2>2
  <2>5. fs \in Seq(EndFree)
    BY <2>3, <2>4
  <2> HIDE DEF fs
  <2> QED
    BY <2>1, <2>5, EndChange
<1>8. ASSUME NEW w \in WaitQueues, OSSleepThread(w)
      PROVE  NoEnd'
  <2>1. WaitQueue(w) \in BlockQueues /\ Call(<<OnQ("sleep", WaitQueue(w))>>)
    BY <1>8, QueueFacts DEF OSSleepThread
  <2> QED
    BY <2>1, EndChange
<1>9. ASSUME NEW t \in Threads, OSJoinThread(t)
      PROVE  NoEnd'
  <2>1. JoinQueue(t) \in BlockQueues /\ On("joined", t) \in EndFree
    BY QueueFacts
  <2>2. stack' = stack \/ Call(<<OnQ("sleep", JoinQueue(t)), On("joined", t)>>)
    BY <1>9 DEF OSJoinThread
  <2> QED
    BY <2>1, <2>2, EndChange
<1>10. ASSUME NEW t \in Threads, OSCreateThread(t)
       PROVE  NoEnd'
  <2>1. stack' = [stack EXCEPT ![t] = <<>>]
    BY <1>10 DEF OSCreateThread
  <2> QED
    BY <1>0, <2>1 DEF NoEnd
<1> QED
  BY <1>1, <1>2, <1>3, <1>4, <1>5, <1>6, <1>7, <1>8, <1>9, <1>10

\* The calls of guest code that end no thread.
GoingCall ==
    \/ \E m \in Mutexes : OSLockMutex(m) \/ OSUnlockMutex(m)
    \/ \E t \in Threads :
         \/ OSCreateThread(t) \/ OSJoinThread(t) \/ OSDetachThread(t)
         \/ OSSuspendThread(t) \/ OSResumeThread(t)
    \/ \E w \in WaitQueues : OSSleepThread(w) \/ OSWakeupThread(w)
    \/ \E a \in Alarms : OSSetAlarm(a) \/ OSSetPeriodicAlarm(a)
    \/ OSSleepTicks \/ OSYieldThread
    \/ OSProcessAlarms \/ OSProcessAlarmsDeferred \/ HandlerReturn

Going == Quiet \/ GoingCall \/ WakeupThread \/ SleepThread \/ PromoteThreadPriority \/ LockMutex

\* A step that ends no thread changes a state in one of these ways.
LEMMA StateMoves ==
    ASSUME KInv, Going
    PROVE  \/ UNCHANGED state
           \/ \E t \in Threads : \E x \in {"ready", "running", "waiting"} : state' = [state EXCEPT ![t] = x]
           \/ \E t \in Threads : state[t] = "moribund" /\ state' = [state EXCEPT ![t] = "dead"]
<1>0. /\ stack \in Stacks /\ host \in Threads /\ running \in Threads \cup {None} /\ Main \in Threads
      /\ links \in Links
  BY TypeStacks, KernelConstants DEF KInv, TypeOK
<1>1. CASE \/ ScheduleSwitch \/ PickThread \/ Slept \/ SuspendThread \/ ResumeThread \/ Ticked
           \/ WakeupThread \/ SleepThread \/ Joined
  <2>1. CASE ScheduleSwitch
    <3>1. UNCHANGED state \/ (running # None /\ state' = [state EXCEPT ![running] = "ready"])
      BY <2>1 DEF ScheduleSwitch, CannotSwitch
    <3> QED
      BY <1>0, <3>1
  <2>2. CASE PickThread
    <3>1. UNCHANGED state \/ (links.pending # {} /\ Runnable /\ state' = [state EXCEPT ![Head(links.seq[PickQueue])] = "running"])
      BY <2>2 DEF PickThread
    <3>2. links.pending # {} /\ Runnable => Head(links.seq[PickQueue]) \in Threads
      <4>1. ASSUME links.pending # {} PROVE links.seq[PickQueue] \in Seq(Threads)
        <5>1. MostUrgent(links.pending) \in 0 .. MaxPrio + 1
          BY <1>0, <4>1, MostUrgentPending DEF Links
        <5> QED
          BY <1>0, <5>1, QueueFacts DEF PickQueue, Links
      <4> QED
        BY <4>1 DEF Runnable
    <3> QED
      BY <3>1, <3>2
  <2>3. CASE Slept \/ SuspendThread \/ ResumeThread \/ Ticked \/ Joined
    <3>1. Top.thr \in Threads
      BY <1>0, <2>3, TopType DEF Slept, SuspendThread, ResumeThread, Ticked, Joined, NeedThread
    <3>2. \/ UNCHANGED state
          \/ \E x \in {"ready", "running", "waiting"} : state' = [state EXCEPT ![Top.thr] = x]
          \/ state[Top.thr] = "moribund" /\ state' = [state EXCEPT ![Top.thr] = "dead"]
      BY <2>3 DEF Slept, SuspendThread, ResumeThread, Ticked, Joined, Reap
    <3> QED
      BY <3>1, <3>2
  <2>4. CASE WakeupThread
    <3>1. Top.que \in BlockQueues /\ links.seq[Top.que] # <<>>
      BY <1>0, <2>4, TopType DEF WakeupThread, WakeOne, NeedQueue
    <3>2. links.seq[Top.que] \in Seq(Threads)
      BY <1>0, <3>1, QueueFacts DEF Links
    <3>3. Head(links.seq[Top.que]) \in Threads
      BY <3>1, <3>2
    <3>4. UNCHANGED state \/ state' = [state EXCEPT ![Head(links.seq[Top.que])] = "ready"]
      BY <2>4 DEF WakeupThread, WakeOne
    <3> QED
      BY <3>3, <3>4
  <2>5. CASE SleepThread
    BY <1>0, <2>5 DEF SleepThread
  <2> QED
    BY <1>1, <2>1, <2>2, <2>3, <2>4, <2>5
<1>2. ASSUME NEW t \in Threads, OSCreateThread(t) \/ OSJoinThread(t) \/ OSDetachThread(t)
      PROVE  \/ UNCHANGED state
             \/ state' = [state EXCEPT ![t] = "ready"]
             \/ state[t] = "moribund" /\ state' = [state EXCEPT ![t] = "dead"]
  BY <1>2 DEF OSCreateThread, OSJoinThread, OSDetachThread, Reap
<1>3. \/ UNCHANGED state
      \/ ScheduleSwitch \/ PickThread \/ Slept \/ SuspendThread \/ ResumeThread \/ Ticked
      \/ WakeupThread \/ SleepThread \/ Joined
      \/ \E t \in Threads : OSCreateThread(t) \/ OSJoinThread(t) \/ OSDetachThread(t)
  <2>1. CASE Quiet \/ PromoteThreadPriority \/ LockMutex \/ WakeupThread \/ SleepThread
    BY <2>1 DEF Quiet, FireTimer, FireDone, Reconcile, HealStrandedSleeper, SelectEnter, ScheduleReturn,
         IdlePump, IdleAlarms, IdleExit, Switched, WakeDone, Reschedule,
         PropagateMutexOwnerPriority, RelockMutex, Exited, PromoteThreadPriority, LockMutex,
         ProcessAlarmQueue, FireAlarm, AlarmTail, AlarmsDone, Undefer, threadVars
  <2>2. CASE GoingCall
    BY <2>2 DEF GoingCall, OSLockMutex, OSUnlockMutex, OSSuspendThread, OSResumeThread, OSSleepThread,
         OSWakeupThread, OSSetAlarm, OSSetPeriodicAlarm, SetAlarm, OSSleepTicks, OSYieldThread,
         OSProcessAlarms, OSProcessAlarmsDeferred, HandlerReturn, threadVars
  <2> QED
    BY <2>1, <2>2 DEF Going
<1> QED
  BY <1>1, <1>2, <1>3

\* It ends no thread.
LEMMA LivesOn ==
    ASSUME KInv, Going
    PROVE  \A t \in Threads : Gone(t)' => Gone(t)
<1>0. state \in [Threads -> States]
  BY DEF KInv, TypeOK
<1> QED
  BY <1>0, StateMoves DEF Gone, ThreadStateIsTerminated

\* Unlinking m keeps everything else on the list.
LEMMA UnlinkKeeps ==
    ASSUME NEW S, NEW s \in Seq(S), NEW m, NEW x \in ToSet(s), x # m
    PROVE  x \in ToSet(UnlinkGuestListNode(s, m))
<1> DEFINE u == UnlinkGuestListNode(s, m)
<1>1. CASE ~\E i \in DOMAIN s : s[i] = m
  BY <1>1 DEF UnlinkGuestListNode
<1>2. CASE \E i \in DOMAIN s : s[i] = m
  <2> DEFINE k == CHOOSE i \in DOMAIN s : s[i] = m
  <2>1. k \in DOMAIN s /\ s[k] = m
    BY <1>2
  <2>2. u = RemoveAt(s, k)
    BY <1>2 DEF UnlinkGuestListNode
  <2> HIDE DEF k
  <2>3. /\ DOMAIN u = 1 .. Len(s) - 1
        /\ \A i \in DOMAIN u : u[i] = IF i < k THEN s[i] ELSE s[i + 1]
    BY <2>1, <2>2, RemoveAtElements
  <2> HIDE DEF u
  <2>4. k \in 1 .. Len(s) /\ Len(s) \in Nat /\ DOMAIN s = 1 .. Len(s)
    BY <2>1
  <2>5. PICK l \in DOMAIN s : s[l] = x
    BY DEF ToSet
  <2>6. \E i \in DOMAIN u : u[i] = x
    <3>1. CASE l < k
      <4>1. l \in DOMAIN u /\ u[l] = x
        BY <2>3, <2>4, <2>5, <3>1
      <4> QED
        BY <4>1
    <3>2. CASE l > k
      <4>1. l - 1 \in DOMAIN u /\ ~(l - 1 < k) /\ (l - 1) + 1 = l
        BY <2>3, <2>4, <2>5, <3>2
      <4>2. u[l - 1] = s[(l - 1) + 1]
        BY <2>3, <4>1
      <4> QED
        BY <2>5, <4>1, <4>2
    <3>3. l # k
      BY <2>1, <2>5
    <3> QED
      BY <2>4, <3>1, <3>2, <3>3
  <2> QED
    BY <2>6 DEF ToSet, u
<1> QED
  BY <1>1, <1>2

\* The rest of a list has everything but the head, and a longer list has more.
LEMMA ListElements ==
    ASSUME NEW S, NEW s \in Seq(S), NEW x \in S
    PROVE  /\ s # <<>> => \A y \in ToSet(s) : y = Head(s) \/ y \in ToSet(Tail(s))
           /\ x \in ToSet(Append(s, x)) /\ \A y \in ToSet(s) : y \in ToSet(Append(s, x))
<1>0. DOMAIN s = 1 .. Len(s) /\ Len(s) \in Nat
  OBVIOUS
<1>1. ASSUME s # <<>>, NEW y \in ToSet(s), y # Head(s)
      PROVE  y \in ToSet(Tail(s))
  <2>1. PICK i \in DOMAIN s : s[i] = y
    BY DEF ToSet
  <2>2. i # 1
    BY <1>1, <2>1
  <2>3. DOMAIN Tail(s) = 1 .. Len(s) - 1 /\ \A j \in DOMAIN Tail(s) : Tail(s)[j] = s[j + 1]
    BY <1>1, HeadTail
  <2>4. i - 1 \in DOMAIN Tail(s) /\ (i - 1) + 1 = i
    BY <1>0, <2>2, <2>3
  <2>5. Tail(s)[i - 1] = y
    BY <2>1, <2>3, <2>4
  <2> QED
    BY <2>4, <2>5 DEF ToSet
<1>2. DOMAIN Append(s, x) = 1 .. Len(s) + 1 /\ Append(s, x)[Len(s) + 1] = x
      /\ \A i \in DOMAIN s : Append(s, x)[i] = s[i]
  BY <1>0
<1>3. x \in ToSet(Append(s, x)) /\ \A y \in ToSet(s) : y \in ToSet(Append(s, x))
  BY <1>0, <1>2 DEF ToSet
<1> QED
  BY <1>1, <1>3

\* Frames by their arguments.
LEMMA FrameArguments ==
    /\ \A pc, t : On(pc, t).pc = pc /\ On(pc, t).thr = t /\ On(pc, t).que = None
    /\ \A pc, q : OnQ(pc, q).pc = pc /\ OnQ(pc, q).que = q /\ OnQ(pc, q).thr = None /\ OnQ(pc, q).flag = FALSE
BY DEF On, OnQ, Frame

\* No joiner is being woken when guest code runs, or a handler, or the top is
\* another call of the kernel.
LEMMA SettledUnless ==
    ASSUME KInv, Settled, At("wake") => links.seq[Top.que] = <<>>, NEW t \in Threads, Gone(t)
    PROVE  (\A m \in Mutexes : owner[m] # t) /\ links.seq[JoinQueue(t)] = <<>>
BY DEF Settled, WakesJoiners

\* The owners of the mutexes list them, whatever the step.
LEMMA ListedStep ==
    ASSUME KInv, SchedInv, OwnedListed, [Next]_vars,
           \A t \in Threads : OSCreateThread(t) => \A m \in Mutexes : owner[m] # t
    PROVE  OwnedListed'
<1>0. /\ owner \in [Mutexes -> Threads \cup {None}] /\ owned \in [Threads -> Seq(Mutexes)]
      /\ stack \in Stacks /\ host \in Threads /\ running \in Threads \cup {None} /\ None \notin Threads
  BY TypeStacks, QueueConstants DEF KInv, TypeOK
<1>1. CASE UNCHANGED <<owner, owned>>
  BY <1>1 DEF OwnedListed
<1>2. CASE LockMutex
  <2> DEFINE t == Top.thr
             m == Top.mut
  <2>1. t \in Threads /\ m \in Mutexes
    BY <1>0, <1>2, TopType DEF LockMutex, NeedThread, NeedMutex
  <2>2. CASE owner[m] \in {None, t}
    <3>1. /\ owner' = [owner EXCEPT ![m] = t]
          /\ owned' = IF owner[m] = None THEN [owned EXCEPT ![t] = Append(@, m)] ELSE owned
      BY <1>0, <1>2, <2>1, <2>2 DEF LockMutex
    <3> HIDE DEF t, m
    <3>2. ASSUME NEW x \in Mutexes, owner'[x] # None
          PROVE  x \in ToSet(owned'[owner'[x]])
      <4>1. CASE owner[m] = None
        <5>1. owned[t] \in Seq(Mutexes) /\ owned'[t] = Append(owned[t], m) /\ \A u \in Threads \ {t} : owned'[u] = owned[u]
          BY <1>0, <2>1, <3>1, <4>1
        <5>2. m \in ToSet(owned'[t]) /\ \A y \in ToSet(owned[t]) : y \in ToSet(owned'[t])
          BY <2>1, <5>1, ListElements
        <5>3. CASE x = m
          BY <1>0, <2>1, <3>1, <5>2, <5>3
        <5>4. CASE x # m
          <6>1. owner'[x] = owner[x] /\ owner[x] \in Threads /\ x \in ToSet(owned[owner[x]])
            BY <1>0, <3>1, <3>2, <5>4 DEF OwnedListed
          <6> QED
            BY <5>1, <5>2, <6>1
        <5> QED
          BY <5>3, <5>4
      <4>2. CASE owner[m] # None
        <5>1. owner' = owner /\ owned' = owned
          BY <1>0, <2>1, <2>2, <3>1, <4>2
        <5> QED
          BY <3>2, <5>1 DEF OwnedListed
      <4> QED
        BY <4>1, <4>2
    <3> QED
      BY <3>2 DEF OwnedListed
  <2>3. CASE owner[m] \notin {None, t}
    BY <1>1, <1>2, <2>3 DEF LockMutex, mutexVars
  <2> QED
    BY <2>2, <2>3
<1>3. ASSUME NEW m \in Mutexes, NEW t \in Threads, NEW kept,
             owner' = [owner EXCEPT ![m] = None], owned' = [owned EXCEPT ![t] = kept],
             \A x \in ToSet(owned[t]) : x = m \/ x \in ToSet(kept)
      PROVE  OwnedListed'
  <2>1. ASSUME NEW x \in Mutexes, owner'[x] # None
        PROVE  x \in ToSet(owned'[owner'[x]])
    <3>1. x # m /\ owner'[x] = owner[x] /\ owner[x] \in Threads /\ x \in ToSet(owned[owner[x]])
      BY <1>0, <1>3, <2>1 DEF OwnedListed
    <3> QED
      BY <1>0, <1>3, <3>1
  <2> QED
    BY <2>1 DEF OwnedListed
<1>4. ASSUME NEW m \in Mutexes, OSUnlockMutex(m)
      PROVE  OwnedListed'
  <2>1. CASE count[m] = 1
    <3> DEFINE kept == UnlinkGuestListNode(owned[running], m)
    <3>1. /\ running \in Threads /\ owner' = [owner EXCEPT ![m] = None]
          /\ owned' = [owned EXCEPT ![running] = kept]
      BY <1>0, <1>4, <2>1 DEF OSUnlockMutex
    <3>2. \A x \in ToSet(owned[running]) : x = m \/ x \in ToSet(kept)
      BY <1>0, <3>1, UnlinkKeeps
    <3> HIDE DEF kept
    <3> QED
      BY <1>3, <3>1, <3>2
  <2>2. CASE count[m] # 1
    BY <1>1, <1>4, <2>2 DEF OSUnlockMutex
  <2> QED
    BY <2>1, <2>2
<1>5. CASE UnlockAllMutex
  <2> DEFINE t == Top.thr
  <2>1. t \in Threads
    BY <1>0, <1>5, TopType DEF UnlockAllMutex, NeedThread
  <2>2. CASE owned[t] = <<>>
    BY <1>1, <1>5, <2>2 DEF UnlockAllMutex
  <2>3. CASE owned[t] # <<>>
    <3>1. /\ owner' = [owner EXCEPT ![Head(owned[t])] = None]
          /\ owned' = [owned EXCEPT ![t] = Tail(owned[t])]
      BY <1>5, <2>3 DEF UnlockAllMutex
    <3>2. Head(owned[t]) \in Mutexes /\ owned[t] \in Seq(Mutexes)
      BY <1>0, <2>1, <2>3
    <3> HIDE DEF t
    <3>3. \A x \in ToSet(owned[t]) : x = Head(owned[t]) \/ x \in ToSet(Tail(owned[t]))
      BY <2>3, <3>2, ListElements
    <3> QED
      BY <1>3, <2>1, <3>1, <3>2, <3>3
  <2> QED
    BY <2>2, <2>3
<1>6. ASSUME NEW t \in Threads, OSCreateThread(t)
      PROVE  OwnedListed'
  <2>1. owner' = owner /\ owned' = [owned EXCEPT ![t] = <<>>] /\ \A m \in Mutexes : owner[m] # t
    BY <1>6 DEF OSCreateThread, mutexVars
  <2> QED
    BY <1>0, <2>1 DEF OwnedListed
<1>7. \/ UNCHANGED <<owner, owned>> \/ LockMutex \/ UnlockAllMutex
      \/ \E m \in Mutexes : OSUnlockMutex(m)
      \/ \E t \in Threads : OSCreateThread(t)
  <2>1. CASE KernelStep
    BY <2>1 DEF KernelStep, FireTimer, FireDone, Reconcile, HealStrandedSleeper, SelectEnter, ScheduleReturn,
         ScheduleSwitch, IdlePump, IdleAlarms, IdleExit, PickThread, Switched, WakeupThread, WakeOne, WakeDone,
         Reschedule, SleepThread, Slept, PromoteThreadPriority,
         PropagateMutexOwnerPriority, RelockMutex, SuspendThread, ResumeThread, Ticked, Exited, Joined,
         WakeNoSwitch, WakeNoSwitchDone, Returned,
         ProcessAlarmQueue, FireAlarm, AlarmTail, AlarmsDone, Undefer, threadVars, mutexVars
  <2>2. CASE GuestStep
    BY <2>2 DEF GuestStep, OSLockMutex, OSJoinThread, OSCancelThread, OSDetachThread, OSSuspendThread,
         OSResumeThread, OSSleepThread,
         OSWakeupThread, OSSetAlarm, OSSetPeriodicAlarm, SetAlarm, OSSleepTicks, OSYieldThread, OSExitThread,
         ThreadReturn, OSProcessAlarms, OSProcessAlarmsDeferred, HandlerReturn, threadVars, mutexVars
  <2>3. CASE UNCHANGED vars
    BY <2>3 DEF vars
  <2> QED
    BY <2>1, <2>2, <2>3 DEF Next
<1> QED
  BY <1>1, <1>2, <1>4, <1>5, <1>6, <1>7

\* A step that ends no thread starts no termination.
LEMMA GoingEndFree ==
    ASSUME KInv, NoEnd, Going
    PROVE  NoEnd'
<1>1. CASE Quiet
  BY <1>1, EndPlain, EndSteps, PlainKernel, PlainThread DEF Quiet
<1>2. CASE GoingCall
  BY <1>2, EndPlain, EndSteps, PlainKernel, PlainCalls DEF GoingCall
<1>3. CASE WakeupThread \/ SleepThread \/ PromoteThreadPriority
  BY <1>3, EndPlain, PlainKernel, PlainThread
<1>4. CASE LockMutex
  BY <1>4, EndSteps
<1> QED
  BY <1>1, <1>2, <1>3, <1>4 DEF Going

\* It gives no mutex to a thread that is gone.
LEMMA GoingOwners ==
    ASSUME KInv, SchedInv, Going
    PROVE  \A m \in Mutexes : owner'[m] \in {owner[m], None} \/ ~ThreadStateIsTerminated(state'[owner'[m]])
<1>0. /\ owner \in [Mutexes -> Threads \cup {None}] /\ stack \in Stacks /\ host \in Threads
      /\ state \in [Threads -> States]
  BY TypeStacks DEF KInv, TypeOK
<1>1. CASE UNCHANGED owner
  BY <1>1
<1>2. CASE LockMutex
  <2>1. At("lock") /\ state' = state
    BY <1>2 DEF LockMutex
  <2>2. Top.thr = host /\ state[host] = "running" /\ Top.mut \in Mutexes
    BY <1>0, <2>1, TopOwn, RunningTop, TopType DEF SchedInv, Own, NeedMutex
  <2>3. owner' = owner \/ owner' = [owner EXCEPT ![Top.mut] = host]
    BY <1>2, <2>2 DEF LockMutex, mutexVars
  <2>4. ~ThreadStateIsTerminated(state'[host])
    BY <2>1, <2>2 DEF ThreadStateIsTerminated
  <2> QED
    BY <1>0, <2>3, <2>4
<1>3. ASSUME NEW m \in Mutexes, OSUnlockMutex(m)
      PROVE  owner' = owner \/ owner' = [owner EXCEPT ![m] = None]
  BY <1>3 DEF OSUnlockMutex
<1>4. \/ UNCHANGED owner \/ LockMutex \/ \E m \in Mutexes : OSUnlockMutex(m)
  <2>1. CASE Quiet
    BY <2>1, QuietQueues
  <2>2. CASE WakeupThread \/ SleepThread \/ PromoteThreadPriority
    BY <2>2 DEF WakeupThread, WakeOne, SleepThread, PromoteThreadPriority, mutexVars
  <2>3. CASE GoingCall
    BY <2>3 DEF GoingCall, OSLockMutex, OSCreateThread, OSJoinThread, OSDetachThread, OSSuspendThread,
         OSResumeThread, OSSleepThread,
         OSWakeupThread, OSSetAlarm, OSSetPeriodicAlarm, SetAlarm, OSSleepTicks, OSYieldThread,
         OSProcessAlarms, OSProcessAlarmsDeferred, HandlerReturn, mutexVars
  <2> QED
    BY <2>1, <2>2, <2>3 DEF Going
<1> QED
  BY <1>0, <1>1, <1>2, <1>3, <1>4

\* Where it is taken, and what it does to the queues.
LEMMA GoingQueues ==
    ASSUME KInv, SchedInv, Going, ~WakeupThread, ~SleepThread
    PROVE  (At("wake") => links.seq[Top.que] = <<>>) /\ Shrinks(links, links')
<1>1. CASE Quiet
  BY <1>1, QuietTop, QuietQueues
<1>2. CASE PromoteThreadPriority
  BY <1>2, QueueSteps DEF PromoteThreadPriority, At
<1>3. CASE LockMutex
  BY <1>3 DEF LockMutex, At, Shrinks
<1>4. CASE GoingCall
  <2>1. AtGuest \/ At("handler")
    <3>1. \A c : MayCall(c) => AtGuest \/ At("handler")
      BY DEF MayCall, AtHandler
    <3> QED
      BY <1>4, <3>1 DEF GoingCall, OSLockMutex, OSUnlockMutex, OSCreateThread, OSJoinThread, OSDetachThread,
         OSSuspendThread, OSResumeThread, OSSleepThread, OSWakeupThread, OSSetAlarm, OSSetPeriodicAlarm,
         OSSleepTicks, OSYieldThread, OSProcessAlarms, OSProcessAlarmsDeferred, HandlerReturn, AtHandler
  <2>2. ~At("wake")
    BY <2>1 DEF AtGuest, At
  <2>3. links' = links \/ \E t \in Threads : OSCreateThread(t)
    BY <1>4 DEF GoingCall, OSLockMutex, OSUnlockMutex, OSJoinThread, OSDetachThread,
         OSSuspendThread, OSResumeThread, OSSleepThread, OSWakeupThread, OSSetAlarm, OSSetPeriodicAlarm, SetAlarm,
         OSSleepTicks, OSYieldThread, OSProcessAlarms, OSProcessAlarmsDeferred, HandlerReturn
  <2> QED
    BY <2>2, <2>3, QueueSteps DEF Shrinks
<1> QED
  BY <1>1, <1>2, <1>3, <1>4 DEF Going

\* A wakeup that goes on is about the same queue.
LEMMA WakeupTop ==
    ASSUME KInv, WakeupThread
    PROVE  /\ At("wake") /\ At("wake")'
           /\ Top'.que = Top.que /\ Top'.thr = Top.thr
<1>0. /\ host \in Threads /\ stack \in [Threads -> Seq(GoodFrames)] /\ host' = host /\ stack \in Stacks
      /\ At("wake") /\ stack[host] # <<>>
      /\ stack' = stack \/ Continue(<<[Top EXCEPT !.flag = TRUE]>>)
  BY SchedTypes, TypeStacks DEF KInv, WakeupThread, WakeOne, At
<1> DEFINE f == [Top EXCEPT !.flag = TRUE]
<1>1. Top \in Frames /\ Top.pc = "wake"
  BY <1>0, TopType
<1>2. f \in Frames /\ f.pc = "wake" /\ f.que = Top.que /\ f.thr = Top.thr
  BY <1>1, With_flag
<1> HIDE DEF f
<1>3. CASE stack' = stack
  BY <1>0, <1>3 DEF At, Top
<1>4. CASE Continue(<<f>>)
  <2>1. Tail(stack[host]) \in Seq(GoodFrames)
    BY <1>0
  <2>2. stack'[host'] = <<f>> \o Tail(stack[host])
    BY <1>0, <1>4 DEF Continue
  <2>3. Head(<<f>> \o Tail(stack[host])) = f /\ <<f>> \o Tail(stack[host]) # <<>>
    BY <2>1
  <2> QED
    BY <1>0, <1>2, <2>2, <2>3 DEF At, Top
<1> QED
  BY <1>0, <1>3, <1>4 DEF f

\* A thread about to block to join another one finds it alive.
LEMMA SleepTop ==
    ASSUME KInv, SleepInv, At("sleep"), NEW t \in Threads, Top.que = JoinQueue(t)
    PROVE  ~ThreadStateIsTerminated(state[t])
<1>0. host \in Threads /\ stack[host] # <<>>
  BY SchedTypes DEF At
<1>1. ASSUME stack[host] \in Seq(AwakeFrames)
      PROVE  FALSE
  <2>1. Head(stack[host]) \in AwakeFrames
    BY <1>0, <1>1
  <2> QED
    BY <2>1 DEF At, Top, AwakeFrames
<1>2. Dozes(stack[host])
  BY <1>1 DEF SleepInv, SleepsOK, At
<1> QED
  BY <1>2 DEF Dozes, Blockable, Top

\* Without a termination in progress, such a step leaves nothing behind.
LEMMA SettledGoing ==
    ASSUME KInv, SchedInv, SleepInv, Settled, Going
    PROVE  Settled'
<1>1. NoEnd'
  BY GoingEndFree DEF Settled
<1>2. links \in Links /\ owner \in [Mutexes -> Threads \cup {None}] /\ None \notin Threads
  BY QueueConstants DEF KInv, TypeOK
<1>3. ASSUME NEW t \in Threads, Gone(t)'
      PROVE  /\ \A m \in Mutexes : owner'[m] # t
             /\ links'.seq[JoinQueue(t)] # <<>> => WakesJoiners(t)'
  <2>1. Gone(t)
    BY <1>3, LivesOn
  <2>2. \A m \in Mutexes : owner'[m] # t
    BY <1>2, <1>3, <2>1, GoingOwners DEF Settled, Gone
  <2>3. JoinQueue(t) \in BlockQueues /\ JoinQueue(t) \in Queues
    BY QueueFacts
  <2>4. CASE WakeupThread
    <3>1. links'.seq[JoinQueue(t)] # <<>> => links.seq[JoinQueue(t)] # <<>>
      BY <2>3, <2>4, QueueSteps DEF Shrinks
    <3> QED
      BY <2>1, <2>2, <2>4, <3>1, WakeupTop DEF Settled, WakesJoiners
  <2>5. CASE SleepThread
    <3>1. At("sleep") /\ ~At("wake")
      BY <2>5 DEF SleepThread, At
    <3>2. links.seq[JoinQueue(t)] = <<>>
      BY <2>1, <3>1, SettledUnless
    <3>3. Top.que # JoinQueue(t)
      BY <2>1, <3>1, SleepTop DEF Gone
    <3>4. links'.seq[JoinQueue(t)] = links.seq[JoinQueue(t)]
      <4>1. links.seq \in [Queues -> Seq(Threads)]
        BY <1>2 DEF Links
      <4> QED
        BY <2>3, <2>5, <3>3, <4>1 DEF SleepThread, InsertThreadIntoQueueByPriority
    <3> QED
      BY <2>2, <3>2, <3>4
  <2>6. CASE ~WakeupThread /\ ~SleepThread
    <3>1. links.seq[JoinQueue(t)] = <<>>
      BY <2>1, <2>6, GoingQueues, SettledUnless
    <3>2. links'.seq[JoinQueue(t)] = <<>>
      BY <2>3, <2>6, <3>1, GoingQueues DEF Shrinks
    <3> QED
      BY <2>2, <3>2
  <2> QED
    BY <2>4, <2>5, <2>6
<1> QED
  BY <1>1, <1>3 DEF Settled

\* Nobody waits for a mutex of a thread that is about to be ended.
Uncontended(t) == \A m \in Mutexes : owner[m] = t => links.seq[MutexQueue(m)] = <<>>
EndsFree       == /\ OSExitThread => Uncontended(running)
                  /\ \A t \in Threads : OSCancelThread(t) => Uncontended(t)
EndsUncontended == [][EndsFree]_vars

\* The frames of a termination on top of a stack.
LEMMA EndsPushed ==
    ASSUME NEW t \in Threads, NEW tail \in {"exited", "resched"}, NEW r \in Seq(EndFree)
    PROVE  Ends(<<On("unlockAll", t), OnQ("wake", JoinQueue(t)), Frame(tail)>> \o r, t)
<1> DEFINE a == On("unlockAll", t)
           b == OnQ("wake", JoinQueue(t))
           c == Frame(tail)
           T == EndFree \cup {a}
<1>1. b \in EndFree /\ c \in EndFree
  BY EndPushed, PlainPushed, PlainNames, QueueFacts
<1>2. r \in Seq(T) /\ a \in T /\ b \in T /\ c \in T
  BY <1>1, SeqSubset
<1> HIDE DEF a, b, c, T
<1>3. <<a, b, c>> \o r = <<a>> \o (<<b, c>> \o r)
  BY <1>2
<1>4. <<b, c>> \o r \in Seq(EndFree) /\ <<b, c>> \o r # <<>> /\ Head(<<b, c>> \o r) = b
  BY <1>1
<1> DEFINE s == <<b, c>> \o r
<1> HIDE DEF s
<1>5. s \in Seq(EndFree) /\ s # <<>> /\ Head(s) = b /\ <<a, b, c>> \o r = <<a>> \o s
  BY <1>3, <1>4 DEF s
<1>6. <<a>> \o s # <<>> /\ Head(<<a>> \o s) = a /\ Tail(<<a>> \o s) = s
  BY <1>5, PushedTop
<1> QED
  BY <1>5, <1>6 DEF Ends, a, b, c

\* A thread is ended whose mutexes nobody waits for.
LEMMA EndStarts ==
    ASSUME KInv, SchedInv, Settled, EndsFree,
           OSExitThread \/ \E t \in Threads : OSCancelThread(t)
    PROVE  \E t \in Threads : Releasing(t)'
<1>0. /\ host \in Threads /\ stack \in [Threads -> Seq(GoodFrames)] /\ state \in [Threads -> States]
      /\ running \in Threads \cup {None} /\ host' = host /\ UNCHANGED owner
  BY SchedTypes DEF OSExitThread, OSCancelThread, mutexVars
<1>1. ~At("wake")
  <2>1. AtGuest \/ At("handler")
    BY DEF OSExitThread, OSCancelThread, MayCall, AtHandler
  <2> QED
    BY <2>1 DEF AtGuest, At
<1>2. ASSUME NEW t \in Threads, NEW tail \in {"exited", "resched"}, TerminateThread(t, tail),
             Uncontended(t), Shrinks(links, links')
      PROVE  Releasing(t)'
  <2> DEFINE fs == <<On("unlockAll", t), OnQ("wake", JoinQueue(t)), Frame(tail)>>
  <2>1. /\ stack' = [u \in Threads |-> IF u = host THEN fs \o stack[u] ELSE IF u = t THEN <<>> ELSE stack[u]]
        /\ \A u \in Threads \ {t} : state'[u] = state[u]
    BY <1>0, <1>2 DEF TerminateThread, Terminating
  <2>2. \A u \in Threads : stack[u] \in Seq(EndFree)
    BY DEF Settled, NoEnd
  <2>3. Ends(fs \o stack[host], t)
    BY <1>0, <2>2, EndsPushed
  <2> HIDE DEF fs
  <2>4. Ends(stack'[host'], t) /\ \A u \in Threads \ {host'} : stack'[u] \in Seq(EndFree)
    BY <1>0, <2>1, <2>2, <2>3, EndPushed
  <2>5. \A m \in Mutexes : owner'[m] = t => links'.seq[MutexQueue(m)] = <<>>
    BY <1>0, <1>2, QueueFacts DEF Uncontended, Shrinks
  <2>6. ASSUME NEW u \in Threads \ {t}, ThreadStateIsTerminated(state'[u])
        PROVE  (\A m \in Mutexes : owner'[m] # u) /\ links'.seq[JoinQueue(u)] = <<>>
    <3>1. Gone(u)
      BY <2>1, <2>6 DEF Gone
    <3>2. (\A m \in Mutexes : owner[m] # u) /\ links.seq[JoinQueue(u)] = <<>>
      BY <1>1, <3>1, SettledUnless
    <3> QED
      BY <1>0, <1>2, <3>2, QueueFacts DEF Shrinks
  <2> QED
    BY <2>4, <2>5, <2>6 DEF Releasing, Gone
<1>3. CASE OSExitThread
  <2>1. running \in Threads /\ TerminateThread(running, "exited") /\ links' = links /\ Uncontended(running)
    BY <1>0, <1>3 DEF OSExitThread, EndsFree
  <2>2. Shrinks(links, links')
    BY <2>1 DEF Shrinks
  <2>3. PICK t \in Threads : t = running
    BY <2>1
  <2> QED
    BY <1>2, <2>1, <2>2, <2>3
<1>4. ASSUME NEW t \in Threads, OSCancelThread(t)
      PROVE  Releasing(t)'
  <2>1. TerminateThread(t, "resched") /\ Uncontended(t)
    BY <1>4 DEF OSCancelThread, EndsFree
  <2>2. Shrinks(links, links')
    BY <1>4, QueueSteps
  <2> QED
    BY <1>2, <2>1, <2>2
<1> QED
  BY <1>3, <1>4

\* The steps of a termination that releases mutexes: nothing else runs.
LEMMA EndTops ==
    ASSUME KInv, SchedInv, GuestContract, NEW t \in Threads, Releasing(t), Next
    PROVE  UnlockAllMutex \/ WakeDone
<1>1. At("unlockAll") \/ (At("wake") /\ links.seq[Top.que] = <<>>)
  BY FrameArguments DEF Releasing, Ends, At, Top
<1>2. ~AtGuest /\ ~At("handler") /\ ~At("sleep") /\ ~At("promote") /\ ~At("lock")
  BY <1>1 DEF AtGuest, At
<1>3. ~GuestStep
  <2>1. \A c : ~MayCall(c)
    BY <1>2 DEF MayCall, AtHandler
  <2> QED
    BY <1>2, <2>1 DEF GuestStep, OSLockMutex, OSUnlockMutex, OSCreateThread, OSCancelThread, OSJoinThread,
       OSDetachThread, OSSuspendThread, OSResumeThread, OSSleepThread, OSWakeupThread, OSSetAlarm,
       OSSetPeriodicAlarm, OSSleepTicks, OSYieldThread, OSExitThread, ThreadReturn,
       OSProcessAlarms, OSProcessAlarmsDeferred, HandlerReturn, AtHandler
<1>4. KernelStep
  BY <1>3 DEF Next
<1>5. ~WakeupThread /\ ~SleepThread /\ ~PromoteThreadPriority /\ ~LockMutex
  BY <1>1, <1>2 DEF WakeupThread, WakeOne, SleepThread, PromoteThreadPriority, LockMutex, At
<1>6. ~WakeNoSwitch /\ ~WakeNoSwitchDone /\ ~Returned
  BY NoReturn
<1>7. ASSUME NEW pc, At(pc)
      PROVE  pc \in {"unlockAll", "wake"}
  BY <1>1, <1>7 DEF At
<1>8. ~FireTimer /\ ~FireDone /\ ~Reconcile /\ ~HealStrandedSleeper /\ ~SelectEnter
      /\ ~ScheduleReturn /\ ~ScheduleSwitch
  BY <1>7 DEF FireTimer, FireDone, Reconcile, HealStrandedSleeper, SelectEnter, ScheduleReturn,
     ScheduleSwitch
<1>9. ~IdlePump /\ ~IdleAlarms /\ ~IdleExit /\ ~PickThread /\ ~Switched /\ ~Reschedule /\ ~Slept
  BY <1>7 DEF IdlePump, IdleAlarms, IdleExit, PickThread, Switched, Reschedule, Slept
<1>10. ~PropagateMutexOwnerPriority /\ ~RelockMutex /\ ~SuspendThread /\ ~ResumeThread /\ ~Ticked
       /\ ~Exited /\ ~Joined
  BY <1>7 DEF PropagateMutexOwnerPriority, RelockMutex, SuspendThread, ResumeThread, Ticked, Exited,
     Joined
<1>11. ~ProcessAlarmQueue /\ ~FireAlarm /\ ~AlarmTail /\ ~AlarmsDone /\ ~Undefer
  BY <1>7 DEF ProcessAlarmQueue, FireAlarm, AlarmTail, AlarmsDone, Undefer
<1> QED
  BY <1>4, <1>5, <1>6, <1>8, <1>9, <1>10, <1>11 DEF KernelStep

\* A mutex is released, and nobody is woken; or all are.
LEMMA EndGoes ==
    ASSUME KInv, OwnedListed, NEW t \in Threads, Releasing(t), UnlockAllMutex \/ WakeDone
    PROVE  Settled' \/ Releasing(t)'
<1> DEFINE s == stack[host]
<1>0. /\ host \in Threads /\ stack \in [Threads -> Seq(GoodFrames)] /\ host' = host
      /\ UNCHANGED <<state, links>> /\ owned \in [Threads -> Seq(Mutexes)]
      /\ owner \in [Mutexes -> Threads \cup {None}] /\ s # <<>>
  BY SchedTypes DEF KInv, TypeOK, UnlockAllMutex, WakeDone, threadVars, At
<1>1. \A u \in Threads \ {host} : stack[u] \in Seq(EndFree)
  BY DEF Releasing
<1>2. CASE WakeDone
  <2>1. At("wake") /\ Continue(IF Top.flag THEN <<SelectThread(FALSE)>> ELSE <<>>) /\ UNCHANGED owner
    BY <1>2 DEF WakeDone, mutexVars
  <2>2. ~Top.flag /\ Ends(Tail(s), t)
    <3>1. ~Ends(s, t)
      BY <2>1, FrameArguments DEF Ends, At, Top
    <3> QED
      BY <3>1 DEF Releasing
  <2>3. Tail(s) \in Seq(GoodFrames)
    BY <1>0
  <2>4. <<>> \o Tail(s) = Tail(s)
    BY <2>3
  <2>5. stack'[host] = Tail(s) /\ \A u \in Threads \ {host} : stack'[u] = stack[u]
    BY <1>0, <2>1, <2>2, <2>4 DEF Continue
  <2> QED
    BY <1>0, <1>1, <2>1, <2>2, <2>5 DEF Releasing, Gone
<1>3. CASE UnlockAllMutex
  <2>1. At("unlockAll") /\ Ends(s, t) /\ Top.thr = t
    <3>1. At("unlockAll") /\ ~At("wake")
      BY <1>3 DEF UnlockAllMutex, At
    <3>2. Ends(s, t)
      BY <3>1 DEF Releasing
    <3>3. Top = On("unlockAll", t)
      BY <3>2 DEF Ends, Top
    <3> QED
      BY <3>1, <3>2, <3>3, FrameArguments
  <2>2. CASE owned[t] = <<>>
    <3>1. Return /\ UNCHANGED owner
      BY <1>3, <2>1, <2>2 DEF UnlockAllMutex
    <3>2. stack'[host] = Tail(s) /\ \A u \in Threads \ {host} : stack'[u] = stack[u]
      BY <1>0, <3>1 DEF Return
    <3>3. NoEnd' /\ WakesJoiners(t)'
      <4> DEFINE f == OnQ("wake", JoinQueue(t))
      <4>1. f.pc = "wake" /\ f.que = JoinQueue(t) /\ f.thr = None
        BY FrameArguments
      <4>2. Tail(s) \in Seq(EndFree) /\ Tail(s) # <<>> /\ Head(Tail(s)) = f
        BY <2>1 DEF Ends
      <4> HIDE DEF f
      <4>3. WakesJoiners(t)'
        BY <1>0, <3>2, <4>1, <4>2 DEF WakesJoiners, At, Top
      <4>4. NoEnd'
        BY <1>1, <3>2, <4>2 DEF NoEnd
      <4> QED
        BY <4>3, <4>4
    <3>4. \A m \in Mutexes : owner[m] # t
      <4>1. t # None
        BY QueueConstants
      <4> QED
        BY <2>2, <4>1 DEF OwnedListed, ToSet
    <3> QED
      BY <1>0, <3>1, <3>3, <3>4 DEF Settled, Releasing, Gone
  <2>3. CASE owned[t] # <<>>
    <3> DEFINE m == Head(owned[t])
               f == OnQ("wake", MutexQueue(m))
    <3>1. owner' = [owner EXCEPT ![m] = None] /\ Call(<<f>>)
      BY <1>3, <2>1, <2>3 DEF UnlockAllMutex
    <3>2. m \in Mutexes /\ owner[m] = t
      <4>1. owned[t] \in Seq(Mutexes) /\ 1 \in DOMAIN owned[t] /\ owned[t][1] = m
        BY <1>0, <2>3
      <4> QED
        BY <4>1 DEF KInv, MutexesConsistent
    <3>3. links.seq[MutexQueue(m)] = <<>>
      BY <3>2 DEF Releasing
    <3>4. f.pc = "wake" /\ f.que = MutexQueue(m) /\ f.flag = FALSE
      BY FrameArguments
    <3> HIDE DEF m, f
    <3>5. stack'[host] = <<f>> \o s /\ \A u \in Threads \ {host} : stack'[u] = stack[u]
      BY <1>0, <3>1 DEF Call
    <3>6. stack'[host] # <<>> /\ Head(stack'[host]) = f /\ Tail(stack'[host]) = s
      <4>1. s \in Seq(GoodFrames)
        BY <1>0
      <4> HIDE DEF s
      <4> QED
        BY <3>5, <4>1, PushedTop
    <3>7. (At("wake") /\ ~Top.flag /\ links.seq[Top.que] = <<>>)' /\ Ends(Tail(stack'[host']), t)
      BY <1>0, <2>1, <3>3, <3>4, <3>6 DEF At, Top
    <3>8. \A x \in Mutexes : owner'[x] \in {owner[x], None}
      BY <1>0, <3>1, <3>2
    <3>9. t # None /\ None \notin Threads
      BY QueueConstants
    <3>10. /\ \A x \in Mutexes : owner'[x] = t => links'.seq[MutexQueue(x)] = <<>>
           /\ \A u \in Threads \ {t} : Gone(u)' =>
                 (\A x \in Mutexes : owner'[x] # u) /\ links'.seq[JoinQueue(u)] = <<>>
      BY <1>0, <3>8, <3>9 DEF Releasing, Gone
    <3>11. \A u \in Threads \ {host'} : stack'[u] \in Seq(EndFree)
      BY <1>0, <1>1, <3>5
    <3> QED
      BY <3>7, <3>10, <3>11 DEF Releasing
  <2> QED
    BY <2>2, <2>3
<1> QED
  BY <1>2, <1>3

\* When a thread structure is used again nobody waits for the thread it held,
\* and that thread owns nothing.
LEMMA CreateSettled ==
    ASSUME KInv, EndInv, NEW t \in Threads, OSCreateThread(t)
    PROVE  (\A m \in Mutexes : owner[m] # t) /\ links.seq[JoinQueue(t)] = <<>>
<1>1. AtGuest \/ At("handler")
  BY DEF OSCreateThread, MayCall, AtHandler
<1>2. ~At("wake") /\ ~At("unlockAll")
  BY <1>1 DEF AtGuest, At
<1>3. \A u \in Threads : ~Releasing(u)
  BY <1>2, FrameArguments DEF Releasing, Ends, At, Top
<1>4. Settled /\ Gone(t)
  BY <1>3 DEF EndInv, OSCreateThread, Gone, ThreadStateIsTerminated
<1> QED
  BY <1>2, <1>4, SettledUnless

\* Every step keeps the invariant of what is left behind.
LEMMA NextEnd ==
    GuestContract /\ KInv /\ SchedInv /\ SleepInv /\ EndInv /\ [Next]_vars /\ [EndsFree]_vars => EndInv'
<1> SUFFICES ASSUME GuestContract, KInv, SchedInv, SleepInv, EndInv, [Next]_vars, [EndsFree]_vars
             PROVE  EndInv'
  OBVIOUS
<1>1. OwnedListed'
  BY CreateSettled, ListedStep DEF EndInv
<1>2. CASE UNCHANGED vars
  <2>1. UNCHANGED <<stack, host, links, owner, state>>
    BY <1>2 DEF vars
  <2>2. Settled => Settled'
    BY <2>1 DEF Settled, NoEnd, Gone, WakesJoiners, At, Top
  <2>3. \A t \in Threads : Releasing(t) => Releasing(t)'
    BY <2>1 DEF Releasing, Gone, At, Top
  <2> QED
    BY <1>1, <2>2, <2>3 DEF EndInv
<1>3. CASE Next /\ EndsFree /\ Settled
  <2>1. ~UnlockAllMutex
    <3>1. ASSUME At("unlockAll")
          PROVE  FALSE
      <4>1. stack[host] \in Seq(EndFree) /\ stack[host] # <<>>
        BY <1>3, <3>1, SchedTypes DEF Settled, NoEnd, At
      <4>2. Head(stack[host]) \in EndFree
        BY <4>1
      <4> QED
        BY <3>1, <4>2 DEF EndFree, At, Top
    <3> QED
      BY <3>1 DEF UnlockAllMutex
  <2>2. Going \/ OSExitThread \/ \E t \in Threads : OSCancelThread(t)
    <3>1. ~WakeNoSwitch /\ ~WakeNoSwitchDone /\ ~Returned /\ ~ThreadReturn
      BY NoReturn
    <3>2. CASE KernelStep
      BY <2>1, <3>1, <3>2 DEF KernelStep, Going, Quiet
    <3>3. CASE GuestStep
      BY <3>1, <3>3 DEF GuestStep, Going, GoingCall
    <3> QED
      BY <1>3, <3>2, <3>3 DEF Next
  <2>3. CASE Going
    BY <1>1, <1>3, <2>3, SettledGoing DEF EndInv
  <2>4. CASE OSExitThread \/ \E t \in Threads : OSCancelThread(t)
    BY <1>1, <1>3, <2>4, EndStarts DEF EndInv
  <2> QED
    BY <2>2, <2>3, <2>4
<1>4. ASSUME Next, NEW t \in Threads, Releasing(t)
      PROVE  EndInv'
  <2>1. UnlockAllMutex \/ WakeDone
    BY <1>4, EndTops
  <2>2. Settled' \/ Releasing(t)'
    BY <1>4, <2>1, EndGoes DEF EndInv
  <2> QED
    BY <1>1, <2>2 DEF EndInv
<1> QED
  BY <1>2, <1>3, <1>4 DEF EndInv

\* Nobody has ended when the kernel starts who left something behind.
LEMMA InitEnd == Init => EndInv
<1> SUFFICES ASSUME Init PROVE EndInv
  OBVIOUS
<1>1. \A m \in Mutexes : owner[m] = None
  BY DEF Init
<1>2. NoEnd
  BY EndPushed DEF Init, NoEnd
<1>3. \A t \in Threads : links.seq[JoinQueue(t)] = <<>>
  BY QueueFacts DEF Init, EmptyLinks
<1>4. None \notin Threads
  BY QueueConstants
<1> QED
  BY <1>1, <1>2, <1>3, <1>4 DEF EndInv, Settled, OwnedListed

\* What the invariant says of the owners and of the joiners.
LEMMA EndsSound ==
    ASSUME KInv, SchedInv, EndInv
    PROVE  OwnershipSound /\ LifeCycleSound
<1> DEFINE s == stack[host]
<1>0. host \in Threads /\ s \in Seq(Frames) /\ \A q \in BlockQueues : q # None
  BY SchedTypes, NoneIsNoQueue DEF Queues
<1>1. ASSUME NEW i \in DOMAIN s
      PROVE  StillToRun(s[i].pc, s[i].thr, s[i].que)
  BY <1>0 DEF StillToRun
<1>2. s # <<>> => 1 \in DOMAIN s /\ s[1] = Head(s)
  BY <1>0
<1>3. ASSUME s # <<>>, Tail(s) # <<>>
      PROVE  2 \in DOMAIN s /\ s[2] = Head(Tail(s))
  BY <1>0, <1>3
<1>4. ASSUME s # <<>>, Tail(s) # <<>>, Tail(Tail(s)) # <<>>
      PROVE  3 \in DOMAIN s /\ s[3] = Head(Tail(Tail(s)))
  BY <1>0, <1>4
<1>5. ASSUME NEW t \in Threads, Releasing(t)
      PROVE  StillToRun("unlockAll", t, None) /\ StillToRun("wake", None, JoinQueue(t))
  <2>1. /\ On("unlockAll", t).pc = "unlockAll" /\ On("unlockAll", t).thr = t /\ On("unlockAll", t).que = None
        /\ OnQ("wake", JoinQueue(t)).pc = "wake" /\ OnQ("wake", JoinQueue(t)).thr = None
        /\ OnQ("wake", JoinQueue(t)).que = JoinQueue(t)
    BY FrameArguments
  <2>2. CASE Ends(s, t)
    <3>1. /\ 1 \in DOMAIN s /\ s[1] = On("unlockAll", t)
          /\ 2 \in DOMAIN s /\ s[2] = OnQ("wake", JoinQueue(t))
      BY <1>2, <1>3, <2>2 DEF Ends
    <3> QED
      BY <1>1, <2>1, <3>1
  <2>3. CASE s # <<>> /\ Ends(Tail(s), t)
    <3>1. /\ 2 \in DOMAIN s /\ s[2] = On("unlockAll", t)
          /\ 3 \in DOMAIN s /\ s[3] = OnQ("wake", JoinQueue(t))
      BY <1>3, <1>4, <2>3 DEF Ends
    <3> QED
      BY <1>1, <2>1, <3>1
  <2> QED
    BY <1>5, <2>2, <2>3 DEF Releasing, At
<1>6. ASSUME NEW t \in Threads, WakesJoiners(t)
      PROVE  StillToRun("wake", None, JoinQueue(t))
  BY <1>1, <1>2, <1>6 DEF WakesJoiners, At, Top
<1>7. OwnerAlive
  <2> SUFFICES ASSUME NEW m \in Mutexes, owner[m] # None, Gone(owner[m])
               PROVE  StillToRun("unlockAll", owner[m], None)
    BY DEF OwnerAlive, Gone
  <2>1. owner[m] \in Threads
    BY DEF KInv, TypeOK
  <2> QED
    BY <1>5, <2>1 DEF EndInv, Settled, Releasing
<1>8. JoinersWoken
  <2> SUFFICES ASSUME NEW t \in Threads, Gone(t), links.seq[JoinQueue(t)] # <<>>
               PROVE  StillToRun("wake", None, JoinQueue(t))
    BY DEF JoinersWoken, Gone
  <2>1. CASE Settled
    BY <1>6, <2>1 DEF Settled
  <2>2. ASSUME NEW u \in Threads, Releasing(u)
        PROVE  u = t
    BY <2>2 DEF Releasing
  <2> QED
    BY <1>5, <2>1, <2>2 DEF EndInv
<1> QED
  BY <1>7, <1>8 DEF OwnershipSound, LifeCycleSound, EndInv, SchedInv, ThreadsOK

\* The invariants of the kernel, when no thread is ended while somebody waits for
\* a mutex it owns: then no structure is used again that somebody waits for.
LEMMA EndInvariance ==
    GuestContract => (Spec /\ EndsUncontended => []((KInv /\ SchedInv) /\ (SleepInv /\ EndInv)))
<1> SUFFICES ASSUME GuestContract
             PROVE  Spec /\ EndsUncontended => []((KInv /\ SchedInv) /\ (SleepInv /\ EndInv))
  OBVIOUS
<1>1. Init => (KInv /\ SchedInv) /\ (SleepInv /\ EndInv)
  BY InitInv, InitSched, InitSleep, InitEnd
<1>2. ((KInv /\ SchedInv) /\ (SleepInv /\ EndInv)) /\ [Next]_vars /\ [EndsFree]_vars
        => ((KInv /\ SchedInv) /\ (SleepInv /\ EndInv))'
  <2> SUFFICES ASSUME KInv, SchedInv, SleepInv, EndInv, [Next]_vars, [EndsFree]_vars
               PROVE  ((KInv /\ SchedInv) /\ (SleepInv /\ EndInv))'
    OBVIOUS
  <2>1. KInv'
    BY NextInv
  <2>2. [FreshCreate]_vars
    BY CreateSettled DEF FreshCreate
  <2>3. SchedInv'
    BY <2>2, NextSched
  <2> QED
    BY <2>1, <2>3, NextSleep, NextEnd
<1> QED
  BY <1>1, <1>2, PTL DEF Spec, EndsUncontended

\* OwnershipSound, for every instance: a mutex is held by a thread that lists it
\* and lives, or whose termination is going to release it.  OSExitThread and
\* OSCancelThread leave no lock behind.
THEOREM NoLockLeftBehind == GuestContract => (Spec /\ EndsUncontended => []OwnershipSound)
<1> SUFFICES ASSUME GuestContract PROVE Spec /\ EndsUncontended => []OwnershipSound
  OBVIOUS
<1>1. (KInv /\ SchedInv) /\ (SleepInv /\ EndInv) => OwnershipSound
  BY EndsSound
<1> QED
  BY <1>1, EndInvariance, PTL

\* LifeCycleSound, for every instance: the thread list holds the threads whose
\* structures are in use, and whoever joins a thread is woken by its end.
THEOREM LifeCycle == GuestContract => (Spec /\ EndsUncontended => []LifeCycleSound)
<1> SUFFICES ASSUME GuestContract PROVE Spec /\ EndsUncontended => []LifeCycleSound
  OBVIOUS
<1>1. (KInv /\ SchedInv) /\ (SleepInv /\ EndInv) => LifeCycleSound
  BY EndsSound
<1> QED
  BY <1>1, EndInvariance, PTL

\* Then the other hypothesis holds as well: no structure is used again that
\* somebody waits to join.
THEOREM EndsKeepCreatesFresh == GuestContract => (Spec /\ EndsUncontended => CreatesFresh)
<1> SUFFICES ASSUME GuestContract PROVE Spec /\ EndsUncontended => CreatesFresh
  OBVIOUS
<1>1. (KInv /\ SchedInv) /\ (SleepInv /\ EndInv) => FreshCreate
  BY CreateSettled DEF FreshCreate
<1>2. []((KInv /\ SchedInv) /\ (SleepInv /\ EndInv)) => [][FreshCreate]_vars
  BY <1>1, PTL
<1> QED
  BY <1>2, EndInvariance, PTL DEF CreatesFresh

-----------------------------------------------------------------------------
(***************************************************************************)
(* Priority inheritance.  Whoever owns a mutex and is not suspended is at  *)
(* least as urgent as each thread that waits for it.  A change of priority *)
(* disturbs this for one owner at a time, whom the kernel turns to next.   *)
(***************************************************************************)

\* The effective priority is at least as urgent as whoever waits for one of the mutexes.
LEMMA EffectiveBound ==
    ASSUME NEW L \in Links, NEW pr \in [Threads -> 0 .. MaxPrio + 1], NEW b \in Prios,
           NEW ms \in Seq(Mutexes), NEW m \in Mutexes, m \in ToSet(ms), NEW w \in Threads,
           Has(L.seq[MutexQueue(m)], w), Sorted(L.seq[MutexQueue(m)], pr)
    PROVE  ComputeThreadEffectivePriority(L, pr, b, ms) <= pr[w]
<1> DEFINE blocked == {x \in ToSet(ms) : L.seq[MutexQueue(x)] # <<>>}
           S == {b} \cup {pr[Head(L.seq[MutexQueue(x)])] : x \in blocked}
           s == L.seq[MutexQueue(m)]
<1>1. blocked \subseteq Mutexes
  BY DEF ToSet
<1>2. ASSUME NEW x \in blocked
      PROVE  pr[Head(L.seq[MutexQueue(x)])] \in 0 .. MaxPrio + 1
  <2>1. L.seq[MutexQueue(x)] \in Seq(Threads) /\ L.seq[MutexQueue(x)] # <<>>
    BY <1>1, QueueFacts DEF Links
  <2>2. Head(L.seq[MutexQueue(x)]) \in Threads
    BY <2>1
  <2> QED
    BY <2>2
<1>3. S \in SUBSET Nat /\ b \in S
  BY <1>2, QueueConstants DEF Prios
<1>4. s \in Seq(Threads) /\ s # <<>>
  BY QueueFacts DEF Links, Has
<1>5. pr[Head(s)] \in S
  BY <1>4
<1>6. pr[Head(s)] <= pr[w]
  <2>1. PICK i \in DOMAIN s : s[i] = w
    BY DEF Has
  <2>2. Head(s) = s[1] /\ 1 \in DOMAIN s /\ (i = 1 \/ 1 < i)
    BY <1>4
  <2>3. CASE i = 1
    <3>1. Head(s) = w /\ pr[w] \in Nat
      BY <2>1, <2>2, <2>3, QueueConstants
    <3> HIDE DEF s
    <3> QED
      BY <3>1
  <2>4. CASE 1 < i
    BY <2>1, <2>2, <2>4 DEF Sorted
  <2> QED
    BY <2>2, <2>3, <2>4
<1>7. Head(s) \in Threads
  BY <1>4
<1> HIDE DEF S, s
<1>8. Min(S) \in S /\ Min(S) <= pr[Head(s)]
  BY <1>3, <1>5, MinInSet
<1>9. Min(S) \in Nat /\ pr[Head(s)] \in Nat /\ pr[w] \in Nat
  <2>1. Min(S) \in Nat
    BY <1>3, <1>8
  <2>2. 0 .. MaxPrio + 1 \subseteq Nat
    BY QueueConstants
  <2> QED
    BY <1>7, <2>1, <2>2
<1>10. Min(S) <= pr[w]
  BY <1>6, <1>8, <1>9
<1> QED
  BY <1>10 DEF S, ComputeThreadEffectivePriority

\* w waits for m; the owner o is at least as urgent as whoever waits for its
\* mutexes, or it will be once it has the priority p.
Waits(w, m)    == Has(links.seq[MutexQueue(m)], w)
Lent(o)        == suspend[o] = 0 => \A m \in Mutexes : \A w \in Threads :
                     owner[m] = o /\ Waits(w, m) => prio[o] <= prio[w]
LentUpTo(o, p) == suspend[o] = 0 => \A m \in Mutexes : \A w \in Threads :
                     owner[m] = o /\ Waits(w, m) => prio[o] <= prio[w] \/ p <= prio[w]
AllLent        == \A o \in Threads : Lent(o)

\* An owner for whom it does not hold is the one the kernel has turned to.
Lending == \A o \in Threads :
              \/ Lent(o) \/ (At("propagate") /\ Top.thr = o)
              \/ (At("promote") /\ Top.thr = o /\ LentUpTo(o, Top.num))

\* The kernel finds that owner through the mutex a waiting thread records.
WaitsRecorded == \A m \in Mutexes : \A w \in Threads : Waits(w, m) => waitMutex[w] = m

\* A thread about to wait has lent its priority, or is in the middle of it.
Below(pc, q) == Tail(stack[host]) # <<>> /\ Head(Tail(stack[host])).pc = pc /\ Head(Tail(stack[host])).que = q
LendsFirst ==
    \A m \in Mutexes :
        /\ At("sleep") /\ Top.que = MutexQueue(m) =>
             /\ waitMutex[host] = m
             /\ suspend[owner[m]] = 0 => prio[owner[m]] <= prio[host]
        /\ At("promote") /\ Below("sleep", MutexQueue(m)) =>
             /\ waitMutex[host] = m /\ Top.num = prio[host]
             /\ suspend[owner[m]] = 0 => prio[owner[m]] <= prio[host] \/ Top.thr = owner[m]

LendInv == WaitsRecorded /\ LendsFirst /\ Lending

\* Without a sleeping call there is nobody about to wait.
LEMMA AwakeLends ==
    ASSUME host' \in Threads, Awake'
    PROVE  LendsFirst'
<1> DEFINE s == stack'[host']
<1>1. s \in Seq(AwakeFrames)
  BY DEF Awake
<1>2. ASSUME s # <<>>
      PROVE  Head(s) \in AwakeFrames /\ Tail(s) \in Seq(AwakeFrames)
  BY <1>1, <1>2
<1>3. ASSUME s # <<>>, Tail(s) # <<>>
      PROVE  Head(Tail(s)) \in AwakeFrames
  BY <1>2, <1>3
<1> QED
  BY <1>2, <1>3 DEF LendsFirst, Below, At, Top, AwakeFrames

\* Who is on a wait queue is waiting there.
LEMMA WaiterWaits ==
    ASSUME KInv, ThreadsOK, NEW q \in BlockQueues, NEW w \in Threads, Has(links.seq[q], w)
    PROVE  state[w] = "waiting" /\ links.at[w] = q
<1>1. links \in Links /\ Listed(links) /\ q \in Queues
  BY SchedTypes, QueueFacts DEF ThreadsOK, AllPlaced
<1>2. Place(links, w) = q /\ q # None
  BY <1>1, PlaceFacts, NoneIsNoQueue
<1>3. Placed(Place(links, w), links.at[w], state[w], suspend[w], prio[w])
  BY PlaceOf
<1> QED
  BY <1>1, <1>2, <1>3, PlaceFacts DEF Placed

\* Outside a termination and a wakeup, who is gone owns nothing.
LEMMA OwnersLive ==
    ASSUME KInv, EndInv, NEW pc, At(pc), pc \notin {"unlockAll", "wake"}, NEW t \in Threads, Gone(t)
    PROVE  \A m \in Mutexes : owner[m] # t
<1>1. ~At("wake") /\ ~At("unlockAll")
  BY DEF At
<1>2. \A u \in Threads : ~Releasing(u)
  BY <1>1, FrameArguments DEF Releasing, Ends, At, Top
<1> QED
  BY <1>1, <1>2, SettledUnless DEF EndInv

\* What an owner's effective priority is worth.
LEMMA OwnerEffective ==
    ASSUME KInv, ThreadsOK, OwnedListed, NEW t \in Threads, NEW m \in Mutexes, owner[m] = t,
           NEW w \in Threads, Waits(w, m)
    PROVE  EffectivePriority(t) <= prio[w]
<1>1. /\ links \in Links /\ prio \in [Threads -> 0 .. MaxPrio + 1] /\ base[t] \in Prios
      /\ owned[t] \in Seq(Mutexes)
  BY SchedTypes DEF KInv, TypeOK
<1>2. m \in ToSet(owned[t])
  BY QueueConstants DEF OwnedListed
<1>3. Sorted(links.seq[MutexQueue(m)], prio)
  BY QueueFacts DEF ThreadsOK, AllPlaced, InOrder
<1> QED
  BY <1>1, <1>2, <1>3, EffectiveBound DEF EffectivePriority, Waits

\* An owner stays urgent enough while nobody becomes more urgent than it.
LEMMA LentKept ==
    ASSUME KInv, KInv', Fewer(links, links'), NEW o \in Threads, Lent(o),
           suspend'[o] = 0 => suspend[o] = 0, prio'[o] <= prio[o],
           \A m \in Mutexes : owner'[m] = o => owner[m] = o \/ \A w \in Threads : ~Waits(w, m),
           \A m \in Mutexes : \A w \in Threads : owner[m] = o /\ Waits(w, m) => prio[w] <= prio'[w]
    PROVE  Lent(o)'
<1> SUFFICES ASSUME suspend'[o] = 0, NEW m \in Mutexes, NEW w \in Threads, owner'[m] = o, Waits(w, m)'
             PROVE  prio'[o] <= prio'[w]
  BY DEF Lent
<1>1. Waits(w, m)
  BY QueueFacts DEF Fewer, Waits
<1>2. prio[o] <= prio[w] /\ prio[w] <= prio'[w]
  BY <1>1 DEF Lent
<1>3. prio[o] \in Nat /\ prio[w] \in Nat /\ prio'[o] \in Nat /\ prio'[w] \in Nat
  BY QueueConstants DEF KInv, TypeOK
<1> QED
  BY <1>2, <1>3

\* A step that leaves the priorities alone, and frees a mutex or takes one that
\* nobody waits for.
LEMMA LendCalm ==
    ASSUME KInv, KInv', WaitsRecorded, AllLent, Awake', Fewer(links, links'), UNCHANGED <<prio, waitMutex>>,
           \A t \in Threads : suspend'[t] = 0 => suspend[t] = 0,
           \A m \in Mutexes : owner'[m] \in {owner[m], None} \/ \A w \in Threads : ~Waits(w, m)
    PROVE  LendInv'
<1>1. host' \in Threads /\ prio \in [Threads -> Nat] /\ None \notin Threads
  BY SchedTypes, QueueConstants DEF KInv, TypeOK
<1>2. LendsFirst'
  BY <1>1, AwakeLends
<1>3. WaitsRecorded'
  BY QueueFacts DEF WaitsRecorded, Waits, Fewer
<1>4. ASSUME NEW o \in Threads
      PROVE  Lent(o)'
  <2>1. Lent(o) /\ (suspend'[o] = 0 => suspend[o] = 0) /\ prio'[o] <= prio[o]
    BY <1>1 DEF AllLent
  <2>2. \A m \in Mutexes : owner'[m] = o => owner[m] = o \/ \A w \in Threads : ~Waits(w, m)
    BY <1>1
  <2>3. \A m \in Mutexes : \A w \in Threads : owner[m] = o /\ Waits(w, m) => prio[w] <= prio'[w]
    BY <1>1
  <2> QED
    BY <2>1, <2>2, <2>3, LentKept
<1> QED
  BY <1>2, <1>3, <1>4 DEF LendInv, Lending

\* The owner a waiting thread's priority goes to next.
LEMMA NextOwnerWaits ==
    ASSUME KInv, ThreadsOK, WaitsRecorded, NEW t \in Threads, NEW m \in Mutexes, Waits(t, m)
    PROVE  state[t] = "waiting" /\ waitMutex[t] = m /\ NextOwner(t) = owner[m] /\ OwnerOf(waitMutex[t]) = owner[m]
<1>1. state[t] = "waiting"
  BY WaiterWaits, QueueFacts DEF Waits
<1>2. waitMutex[t] = m /\ m # None
  BY QueueConstants DEF WaitsRecorded
<1> QED
  BY <1>1, <1>2 DEF NextOwner, OwnerOf

\* One thread's priority changes: only the owner of the mutex it waits for may
\* have to follow.
LEMMA LentOthers ==
    ASSUME KInv, KInv', ThreadsOK, WaitsRecorded, Fewer(links, links'), NEW t \in Threads,
           NEW p, prio'[t] = p, \A u \in Threads \ {t} : prio'[u] = prio[u] /\ (suspend'[u] = 0 => suspend[u] = 0),
           UNCHANGED owner, \A o \in Threads \ {t} : Lent(o)
    PROVE  /\ \A o \in Threads \ {t} : OwnerOf(waitMutex[t]) # o => Lent(o)'
           /\ \A o \in Threads \ {t} : state[t] # "waiting" => Lent(o)'
           /\ \A o \in Threads \ {t} : prio[t] <= prio'[t] => Lent(o)'
           /\ \A o \in Threads \ {t} : LentUpTo(o, p)'
           /\ (\A m \in Mutexes : \A w \in Threads : owner[m] = t /\ Waits(w, m) /\ w # t => prio'[t] <= prio[w])
                => Lent(t)'
<1>0. \A u \in Threads : prio[u] \in Nat /\ prio'[u] \in Nat
  BY QueueConstants DEF KInv, TypeOK
<1>1. ASSUME NEW m \in Mutexes, NEW w \in Threads, Waits(w, m)'
      PROVE  Waits(w, m)
  BY <1>1, QueueFacts DEF Fewer, Waits
<1>2. ASSUME NEW o \in Threads \ {t}, suspend'[o] = 0,
             NEW m \in Mutexes, NEW w \in Threads, owner'[m] = o, Waits(w, m)', w # t
      PROVE  prio'[o] <= prio'[w]
  BY <1>1, <1>2 DEF Lent
<1>3. ASSUME NEW o \in Threads \ {t}, suspend'[o] = 0,
             NEW m \in Mutexes, NEW w \in Threads, owner'[m] = o, Waits(w, m)', w = t
      PROVE  /\ OwnerOf(waitMutex[t]) = o /\ state[t] = "waiting" /\ prio'[o] <= prio[t]
  <2>1. Waits(t, m) /\ owner[m] = o /\ suspend[o] = 0
    BY <1>1, <1>3
  <2>2. prio'[o] <= prio[t]
    BY <2>1 DEF Lent
  <2> QED
    BY <2>1, <2>2, NextOwnerWaits
<1>4. ASSUME NEW o \in Threads \ {t}, OwnerOf(waitMutex[t]) # o \/ state[t] # "waiting" \/ prio[t] <= prio'[t]
      PROVE  Lent(o)'
  <2> SUFFICES ASSUME suspend'[o] = 0, NEW m \in Mutexes, NEW w \in Threads, owner'[m] = o, Waits(w, m)'
               PROVE  prio'[o] <= prio'[w]
    BY DEF Lent
  <2>1. CASE w # t
    BY <1>2, <2>1
  <2>2. CASE w = t
    <3>1. prio'[o] <= prio[t] /\ prio[t] <= prio'[t]
      BY <1>3, <1>4, <2>2
    <3> QED
      BY <1>0, <2>2, <3>1
  <2> QED
    BY <2>1, <2>2
<1>5. ASSUME NEW o \in Threads \ {t}
      PROVE  LentUpTo(o, p)'
  <2> SUFFICES ASSUME suspend'[o] = 0, NEW m \in Mutexes, NEW w \in Threads, owner'[m] = o, Waits(w, m)'
               PROVE  prio'[o] <= prio'[w] \/ p <= prio'[w]
    BY DEF LentUpTo
  <2> QED
    BY <1>0, <1>2
<1>6. ASSUME \A m \in Mutexes : \A w \in Threads : owner[m] = t /\ Waits(w, m) /\ w # t => prio'[t] <= prio[w]
      PROVE  Lent(t)'
  <2> SUFFICES ASSUME NEW m \in Mutexes, NEW w \in Threads, owner'[m] = t, Waits(w, m)'
               PROVE  prio'[t] <= prio'[w]
    BY DEF Lent
  <2>1. Waits(w, m) /\ owner[m] = t
    BY <1>1
  <2> QED
    BY <1>0, <1>6, <2>1
<1> QED
  BY <1>4, <1>5, <1>6

\* The frame on top after a call goes on with one or two frames.
LEMMA ContinuedTop ==
    ASSUME KInv, host' = host, stack[host] # <<>>, NEW f, NEW g,
           Continue(<<f>>) \/ Continue(<<f, g>>)
    PROVE  /\ At(f.pc)' /\ Top' = f
           /\ Continue(<<f>>) => Tail(stack'[host']) = Tail(stack[host])
<1>0. host \in Threads /\ stack \in [Threads -> Seq(GoodFrames)]
  BY SchedTypes
<1> DEFINE r == Tail(stack[host])
           w == <<g>> \o r
<1>1. r \in Seq(GoodFrames)
  BY <1>0
<1> HIDE DEF r
<1>2. w \in Seq(GoodFrames \cup {g})
  BY <1>1
<1>3. <<f, g>> \o r = <<f>> \o w
  BY <1>1, PushedTwo
<1> HIDE DEF w
<1>4. CASE Continue(<<f>>)
  <2>1. stack'[host'] = <<f>> \o r
    BY <1>0, <1>4 DEF Continue, r
  <2>2. <<f>> \o r # <<>> /\ Head(<<f>> \o r) = f /\ Tail(<<f>> \o r) = r
    BY <1>1, PushedTop
  <2> QED
    BY <2>1, <2>2 DEF At, Top, r
<1>5. CASE Continue(<<f, g>>) /\ ~Continue(<<f>>)
  <2>1. stack'[host'] = <<f>> \o w
    BY <1>0, <1>3, <1>5 DEF Continue, r
  <2>2. <<f>> \o w # <<>> /\ Head(<<f>> \o w) = f
    BY <1>2, PushedTop
  <2> QED
    BY <1>5, <2>1, <2>2 DEF At, Top
<1> QED
  BY <1>4, <1>5

\* What a waiting thread records is kept.
LEMMA RecordsKept ==
    ASSUME WaitsRecorded, Fewer(links, links'),
           \A m \in Mutexes : \A w \in Threads : Waits(w, m) => waitMutex'[w] = waitMutex[w]
    PROVE  WaitsRecorded'
BY QueueFacts DEF WaitsRecorded, Waits, Fewer

\* No owner is disturbed.
LEMMA LendRest ==
    ASSUME KInv', Awake', WaitsRecorded', Lending'
    PROVE  LendInv'
<1>1. host' \in Threads
  BY DEF KInv, TypeOK
<1> QED
  BY <1>1, AwakeLends DEF LendInv

\* One iteration of the propagation: the owner takes its effective priority, and
\* the kernel turns to whom it waits for.
LEMMA PropagateLends ==
    ASSUME KInv, KInv', SchedInv, EndInv, LendInv, PropagateMutexOwnerPriority
    PROVE  Lending'
<1>0. /\ At("propagate") /\ stack[host] # <<>> /\ host' = host /\ ThreadsOK /\ OwnedListed
      /\ UNCHANGED <<owner, suspend, waitMutex, state>> /\ WaitsRecorded /\ Lending
      /\ host \in Threads /\ stack \in Stacks /\ prio \in [Threads -> 0 .. MaxPrio + 1]
      /\ None \notin Threads /\ state \in [Threads -> States]
  BY TypeStacks, QueueConstants DEF PropagateMutexOwnerPriority, At, SchedInv, EndInv, LendInv, mutexVars, KInv, TypeOK
<1>1. Top.thr \in Threads \cup {None}
  <2>1. Top \in Frames
    BY <1>0, TopType
  <2> QED
    BY <2>1 DEF Frames
<1>2. \A o \in Threads : o # Top.thr => Lent(o)
  BY <1>0 DEF Lending, At
<1>3. CASE UNCHANGED <<prio, links>> /\ \A o \in Threads : Lent(o)
  BY <1>0, <1>3 DEF Lending, Lent, Waits
<1>4. CASE Top.thr = None
  <2>1. UNCHANGED <<prio, links>>
    BY <1>4 DEF PropagateMutexOwnerPriority
  <2> QED
    BY <1>0, <1>2, <1>3, <1>4, <2>1
<1>5. ASSUME NEW t \in Threads, t = Top.thr, NEW e, e = EffectivePriority(t)
      PROVE  Lending'
  <2>1. \A m \in Mutexes : \A w \in Threads : owner[m] = t /\ Waits(w, m) => e <= prio[w]
    BY <1>0, <1>5, OwnerEffective
  <2>2. CASE UNCHANGED <<prio, links>> /\ (suspend[t] > 0 \/ prio[t] = e)
    <3>1. Lent(t)
      BY <2>1, <2>2 DEF Lent
    <3> QED
      BY <1>2, <1>3, <1>5, <2>2, <3>1
  <2>3. CASE ~(suspend[t] > 0 \/ prio[t] = e)
    <3>1. SetThreadEffectivePriority(t, e) /\ Continue(<<On("propagate", NextOwner(t))>>)
      BY <1>0, <1>5, <2>3 DEF PropagateMutexOwnerPriority
    <3>2. CASE Gone(t)
      <4>1. UNCHANGED <<prio, links>>
        BY <3>1, <3>2 DEF SetThreadEffectivePriority, Gone, ThreadStateIsTerminated
      <4>2. Lent(t)
        BY <1>0, <3>2, OwnersLive DEF Lent
      <4> QED
        BY <1>2, <1>3, <1>5, <4>1, <4>2
    <3>3. CASE ~Gone(t)
      <4>1. prio'[t] = e /\ \A u \in Threads \ {t} : prio'[u] = prio[u]
        BY <1>0, <3>1, <3>3 DEF SetThreadEffectivePriority, Gone
      <4>2. At("propagate")' /\ Top'.thr = NextOwner(t)
        <5> DEFINE f == On("propagate", NextOwner(t))
        <5>1. f.pc = "propagate" /\ f.thr = NextOwner(t) /\ Continue(<<f>>)
          BY <3>1, FrameArguments
        <5> HIDE DEF f
        <5> QED
          BY <1>0, <5>1, ContinuedTop
      <4>3. Fewer(links, links')
        BY QueueSteps
      <4>4. /\ \A o \in Threads \ {t} : OwnerOf(waitMutex[t]) # o => Lent(o)'
            /\ \A o \in Threads \ {t} : state[t] # "waiting" => Lent(o)'
            /\ Lent(t)'
        BY <1>0, <1>2, <1>5, <2>1, <4>1, <4>3, LentOthers
      <4>5. \A o \in Threads : o = t \/ state[t] # "waiting" \/ OwnerOf(waitMutex[t]) # o \/ NextOwner(t) = o
        BY <1>0 DEF OwnerOf, NextOwner
      <4>6. ASSUME NEW o \in Threads
            PROVE  Lent(o)' \/ (At("propagate") /\ Top.thr = o)'
        BY <4>2, <4>4, <4>5
      <4> QED
        BY <4>6 DEF Lending
    <3> QED
      BY <3>2, <3>3
  <2> QED
    BY <1>0, <1>5, <2>2, <2>3 DEF PropagateMutexOwnerPriority
<1> QED
  BY <1>1, <1>4, <1>5

\* A suspension leaves every owner as urgent as it has to be, a suspended one
\* aside: a suspended waiter lends nothing.
LEMMA SuspendLends ==
    ASSUME KInv, KInv', SchedInv, AllLent, WaitsRecorded, SuspendThread, Fewer(links, links')
    PROVE  AllLent'
<1>0. /\ At("suspend") /\ ThreadsOK /\ UNCHANGED <<owner, waitMutex>> /\ host \in Threads /\ stack \in Stacks
      /\ prio \in [Threads -> 0 .. MaxPrio + 1] /\ suspend \in [Threads -> Nat] /\ MaxPrio \in Nat
      /\ prio' \in [Threads -> 0 .. MaxPrio + 1]
  BY TypeStacks, QueueConstants DEF SuspendThread, SchedInv, mutexVars, KInv, TypeOK
<1>1. PICK t \in Threads : t = Top.thr
  BY <1>0, TopType DEF NeedThread
<1>2. suspend' = [suspend EXCEPT ![t] = @ + 1] /\ (prio' = prio \/ prio' = [prio EXCEPT ![t] = SuspendedWaitPriority])
  BY <1>1 DEF SuspendThread
<1>3. /\ suspend'[t] # 0 /\ prio[t] <= prio'[t]
      /\ \A u \in Threads \ {t} : prio'[u] = prio[u] /\ (suspend'[u] = 0 => suspend[u] = 0)
  BY <1>0, <1>2 DEF SuspendedWaitPriority
<1>4. PICK p : prio'[t] = p
  OBVIOUS
<1>5. \A o \in Threads \ {t} : Lent(o)'
  BY <1>0, <1>3, <1>4, LentOthers DEF AllLent
<1>6. Lent(t)'
  BY <1>3 DEF Lent
<1> QED
  BY <1>5, <1>6 DEF AllLent

\* A resumed thread takes its effective priority; when it waits for a mutex,
\* the kernel turns to the owner.
LEMMA ResumeLends ==
    ASSUME KInv, KInv', SchedInv, EndInv, AllLent, WaitsRecorded, ResumeThread, Fewer(links, links')
    PROVE  Lending'
<1>0. /\ At("resume") /\ ThreadsOK /\ OwnedListed /\ UNCHANGED <<owner, waitMutex>> /\ host \in Threads
      /\ stack \in Stacks /\ prio \in [Threads -> 0 .. MaxPrio + 1] /\ suspend \in [Threads -> Nat]
      /\ prio \in [Threads -> Nat] /\ links \in Links /\ base \in [Threads -> Prios]
      /\ owned \in [Threads -> Seq(Mutexes)] /\ host' = host /\ stack[host] # <<>>
      /\ state \in [Threads -> States]
  BY TypeStacks, SchedTypes DEF ResumeThread, At, SchedInv, EndInv, mutexVars, KInv, TypeOK
<1>1. PICK t \in Threads : t = Top.thr
  BY <1>0, TopType DEF NeedThread
<1>2. \A u \in Threads \ {t} : prio'[u] = prio[u] /\ (suspend'[u] = 0 => suspend[u] = 0)
  BY <1>0, <1>1 DEF ResumeThread
<1>3. AllLent' => Lending'
  BY DEF AllLent, Lending
<1>4. PICK p : prio'[t] = p
  OBVIOUS
<1>5. /\ \A o \in Threads \ {t} : OwnerOf(waitMutex[t]) # o => Lent(o)'
      /\ \A o \in Threads \ {t} : state[t] # "waiting" \/ prio[t] <= prio'[t] => Lent(o)'
      /\ (\A m \in Mutexes : \A w \in Threads : owner[m] = t /\ Waits(w, m) /\ w # t => prio'[t] <= prio[w])
                => Lent(t)'
  BY <1>0, <1>2, <1>4, LentOthers DEF AllLent
<1>6. CASE suspend[t] # 1
  <2>1. prio' = prio /\ (suspend'[t] = 0 => suspend[t] = 0)
    BY <1>0, <1>1, <1>6 DEF ResumeThread
  <2>2. \A o \in Threads \ {t} : Lent(o)'
    BY <1>0, <1>5, <2>1
  <2>3. Lent(t)'
    <3>1. CASE suspend[t] = 0
      BY <1>5, <2>1, <3>1 DEF AllLent, Lent
    <3>2. CASE suspend[t] # 0
      BY <2>1, <3>2 DEF Lent
    <3> QED
      BY <3>1, <3>2
  <2> QED
    BY <1>3, <2>2, <2>3 DEF AllLent
<1>7. CASE suspend[t] = 1 /\ state[t] = "waiting"
  <2> DEFINE off == RemoveThreadFromQueue(links, t)
             e   == ComputeThreadEffectivePriority(off, prio, base[t], owned[t])
  <2>1. prio' = [prio EXCEPT ![t] = e] /\ Continue(<<On("propagate", OwnerOf(waitMutex[t])), Frame("resched")>>)
    BY <1>1, <1>7 DEF ResumeThread
  <2>2. Listed(links) /\ AllPlaced(links, state, suspend, prio) /\ Place(links, t) # None
    BY <1>0, <1>7, PlaceOf DEF ThreadsOK, AllPlaced
  <2>3. off \in Links /\ OthersPlaced(off, state, suspend, prio, t)
    BY <1>0, <2>2, RemovePlaced
  <2>4. \A q \in BlockQueues : \A x : x # t /\ Has(links.seq[q], x) => Has(off.seq[q], x)
    BY <1>0, <2>2, UnlinkFewer
  <2>5. prio'[t] = e
    BY <1>0, <2>1
  <2>6. base[t] \in Prios /\ owned[t] \in Seq(Mutexes)
    BY <1>0
  <2> HIDE DEF off
  <2>7. ASSUME NEW m \in Mutexes, NEW w \in Threads, owner[m] = t, Waits(w, m), w # t
        PROVE  e <= prio[w]
    <3>1. m \in ToSet(owned[t])
      BY <1>0, <2>7, QueueConstants DEF OwnedListed
    <3>2. Has(off.seq[MutexQueue(m)], w) /\ Sorted(off.seq[MutexQueue(m)], prio)
      BY <2>3, <2>4, <2>7, QueueFacts DEF Waits, OthersPlaced, InOrder
    <3> QED
      BY <1>0, <2>3, <2>6, <3>1, <3>2, EffectiveBound
  <2>8. Lent(t)'
    BY <1>5, <2>5, <2>7
  <2>9. At("propagate")' /\ Top'.thr = OwnerOf(waitMutex[t])
    <3> DEFINE f == On("propagate", OwnerOf(waitMutex[t]))
    <3>1. f.pc = "propagate" /\ f.thr = OwnerOf(waitMutex[t]) /\ Continue(<<f, Frame("resched")>>)
      BY <2>1, FrameArguments
    <3> HIDE DEF f
    <3> QED
      BY <1>0, <3>1, ContinuedTop
  <2> HIDE DEF e
  <2>10. ASSUME NEW o \in Threads
         PROVE  Lent(o)' \/ (At("propagate") /\ Top.thr = o)'
    BY <1>5, <2>8, <2>9
  <2> QED
    BY <2>10 DEF Lending
<1>8. CASE suspend[t] = 1 /\ state[t] = "ready"
  <2>1. prio'[t] = EffectivePriority(t)
    BY <1>0, <1>1, <1>8 DEF ResumeThread
  <2>2. Lent(t)'
    BY <1>0, <1>5, <2>1, OwnerEffective
  <2> QED
    BY <1>3, <1>5, <1>8, <2>2 DEF AllLent
<1>9. CASE suspend[t] = 1 /\ state[t] \notin {"waiting", "ready"}
  <2>1. Gone(t)
    BY <1>0, <1>9 DEF ThreadsOK, RunningOne, Gone, ThreadStateIsTerminated, States
  <2>2. Lent(t)'
    BY <1>0, <2>1, OwnersLive DEF Lent
  <2> QED
    BY <1>3, <1>5, <1>9, <2>2 DEF AllLent
<1> QED
  BY <1>6, <1>7, <1>8, <1>9

\* The quiet steps.
LEMMA QuietLends ==
    ASSUME KInv, KInv', SchedInv, SleepInv, EndInv, LendInv, Quiet \/ QuietCall
    PROVE  LendInv'
<1>0. /\ host \in Threads /\ stack \in Stacks /\ ThreadsOK /\ ControlOK /\ WaitsRecorded /\ Lending
      /\ waitMutex \in [Threads -> Mutexes \cup {None}] /\ suspend \in [Threads -> Nat]
      /\ prio \in [Threads -> 0 .. MaxPrio + 1] /\ Fewer(links, links') /\ UNCHANGED owner
  BY TypeStacks, SchedTypes, QuietQueues DEF SchedInv, LendInv, KInv, TypeOK
<1>1. ~At("sleep") /\ ~At("promote")
  BY QuietTop DEF At, AtGuest
<1>2. Awake'
  BY <1>1, AwakeUnless, QuietAwake DEF SleepInv
<1>3. ~At("propagate") => AllLent
  BY <1>0, <1>1 DEF Lending, AllLent
<1>4. \A pc : At(pc) /\ pc # "propagate" => ~At("propagate")
  BY DEF At
<1>5. CASE ~At("propagate") /\ UNCHANGED <<prio, waitMutex, suspend>>
  BY <1>0, <1>2, <1>3, <1>5, LendCalm
<1>6. CASE PropagateMutexOwnerPriority
  <2>1. Lending' /\ UNCHANGED waitMutex
    BY <1>6, PropagateLends DEF PropagateMutexOwnerPriority
  <2> QED
    BY <1>0, <1>2, <2>1, RecordsKept, LendRest
<1>7. CASE RelockMutex
  <2>1. At("relock") /\ UNCHANGED <<prio, suspend>> /\ waitMutex' = [waitMutex EXCEPT ![Top.thr] = None]
    BY <1>7 DEF RelockMutex
  <2>2. Top.thr = host /\ state[host] = "running"
    BY <1>0, <2>1, TopOwn, RunningTop DEF Own
  <2>3. \A m \in Mutexes : \A w \in Threads : Waits(w, m) => waitMutex'[w] = waitMutex[w]
    BY <1>0, <2>1, <2>2, WaiterWaits, QueueFacts DEF Waits
  <2>4. \A o \in Threads : Lent(o)'
    BY <1>0, <1>3, <1>4, <2>1, QueueFacts DEF AllLent, Lent, Fewer, Waits
  <2> QED
    BY <1>0, <1>2, <2>3, <2>4, RecordsKept, LendRest DEF Lending
<1>8. CASE SuspendThread
  <2>1. AllLent' /\ UNCHANGED waitMutex
    BY <1>0, <1>3, <1>4, <1>8, SuspendLends DEF SuspendThread
  <2> QED
    BY <1>0, <1>2, <2>1, RecordsKept, LendRest DEF Lending, AllLent
<1>9. CASE ResumeThread
  <2>1. Lending' /\ UNCHANGED waitMutex
    BY <1>0, <1>3, <1>4, <1>9, ResumeLends DEF ResumeThread
  <2> QED
    BY <1>0, <1>2, <2>1, RecordsKept, LendRest
<1>10. CASE Ticked
  <2>1. At("ticked") /\ UNCHANGED <<prio, waitMutex>>
    BY <1>10 DEF Ticked
  <2>2. Top.thr = host /\ suspend[host] = 0
    BY <1>0, <2>1, TopOwn, RunningTop DEF Own, ThreadsOK, RunningOne
  <2>3. UNCHANGED suspend
    BY <1>10, <2>2 DEF Ticked
  <2> QED
    BY <1>4, <1>5, <2>1, <2>3
<1>11. ASSUME NEW t \in Threads, OSCreateThread(t)
       PROVE  LendInv'
  <2>1. /\ state[t] = "dead" /\ waitMutex' = [waitMutex EXCEPT ![t] = None]
        /\ \A u \in Threads \ {t} : prio'[u] = prio[u] /\ (suspend'[u] = 0 => suspend[u] = 0)
    BY <1>0, <1>11 DEF OSCreateThread
  <2>2. AllLent
    BY <1>3, <1>4, <1>11 DEF OSCreateThread, MayCall, AtHandler, AtGuest, At
  <2>3. PICK p : prio'[t] = p
    OBVIOUS
  <2>4. \A o \in Threads \ {t} : Lent(o)'
    BY <1>0, <2>1, <2>2, <2>3, LentOthers DEF AllLent
  <2>5. Lent(t)'
    BY <1>0, <1>11, CreateSettled DEF Lent
  <2>6. \A m \in Mutexes : \A w \in Threads : Waits(w, m) => waitMutex'[w] = waitMutex[w]
    BY <1>0, <2>1, WaiterWaits, QueueFacts DEF Waits
  <2> QED
    BY <1>0, <1>2, <2>4, <2>5, <2>6, RecordsKept, LendRest DEF Lending
<1>12. \/ PropagateMutexOwnerPriority \/ RelockMutex \/ SuspendThread \/ ResumeThread \/ Ticked
       \/ \E t \in Threads : OSCreateThread(t)
       \/ ~At("propagate") /\ UNCHANGED <<prio, waitMutex, suspend>>
  <2>1. CASE Quiet
    BY <2>1 DEF Quiet, FireTimer, FireDone, Reconcile, HealStrandedSleeper, SelectEnter, ScheduleReturn,
         ScheduleSwitch, IdlePump, IdleAlarms, IdleExit, PickThread, Switched, WakeDone, Reschedule, Slept,
         Exited, Joined, ProcessAlarmQueue, FireAlarm, AlarmTail, AlarmsDone, Undefer, At, threadVars
  <2>2. CASE QuietCall
    <3>1. ~At("propagate")
      BY <2>2, QuietTop DEF At, AtGuest
    <3> QED
      BY <2>2, <3>1 DEF QuietCall, OSLockMutex, OSCancelThread, OSDetachThread, OSSuspendThread,
         OSResumeThread, OSWakeupThread, OSSetAlarm, OSSetPeriodicAlarm, SetAlarm, OSSleepTicks, OSYieldThread,
         OSExitThread, OSProcessAlarms, OSProcessAlarmsDeferred, HandlerReturn, threadVars
  <2> QED
    BY <2>1, <2>2
<1> QED
  BY <1>5, <1>6, <1>7, <1>8, <1>9, <1>10, <1>11, <1>12

\* The owners of the mutexes, when neither priorities nor queues change.
LEMMA LentSame ==
    ASSUME AllLent, UNCHANGED <<prio, suspend, owner, links>>
    PROVE  AllLent'
BY DEF AllLent, Lent, Waits

\* A thread is woken, or waits for a mutex whose owner it has lent its priority.
LEMMA WaitLends ==
    ASSUME KInv, KInv', SchedInv, SleepInv, LendInv, WakeupThread \/ SleepThread
    PROVE  LendInv'
<1>0. /\ UNCHANGED <<prio, waitMutex, suspend, owner>> /\ WaitsRecorded /\ host \in Threads
      /\ ThreadsOK /\ ControlOK /\ links \in Links /\ prio \in [Threads -> Nat]
      /\ Fewer(links, links)
  BY SchedTypes DEF WakeupThread, WakeOne, SleepThread, mutexVars, LendInv, SchedInv, Fewer
<1>1. AllLent /\ ~At("promote") /\ (WakeupThread => ~At("sleep"))
  BY DEF LendInv, Lending, AllLent, WakeupThread, WakeOne, SleepThread, At
<1>2. CASE WakeupThread
  <2>1. Awake
    BY <1>1, <1>2, AwakeUnless DEF SleepInv
  <2>2. Awake' /\ Fewer(links, links')
    BY <1>2, <2>1, AwakePlain, PlainKernel, QueueSteps
  <2> QED
    BY <1>0, <1>1, <2>2, LendCalm
<1>3. CASE SleepThread
  <2>1. Awake'
    BY <1>3, SleepAwakes DEF SleepInv
  <2>2. At("sleep") /\ running = host /\ state[host] = "running" /\ host # None
    BY <1>0, <1>3, RunningTop DEF SleepThread
  <2>3. CASE links' = links
    BY <1>0, <1>1, <2>1, <2>3, LendCalm
  <2>4. CASE links' = InsertThreadIntoQueueByPriority(links, prio, Top.que, host, prio[host])
    <3>1. ASSUME NEW m \in Mutexes, NEW w \in Threads, Waits(w, m)'
          PROVE  Waits(w, m) \/ (w = host /\ Top.que = MutexQueue(m))
      <4> DEFINE q == MutexQueue(m)
                 s == links.seq[q]
      <4>1. links.seq \in [Queues -> Seq(Threads)] /\ q \in Queues /\ s \in Seq(Threads)
        BY <1>0, QueueFacts DEF Links
      <4>2. links'.seq = [links.seq EXCEPT ![Top.que] = InsertByPriority(@, prio, host, prio[host])]
        BY <2>4 DEF InsertThreadIntoQueueByPriority
      <4>3. CASE Top.que = q
        <5>1. links'.seq[q] = InsertByPriority(s, prio, host, prio[host])
          BY <4>1, <4>2, <4>3
        <5>2. Once(s) /\ ~Has(s, host)
          BY <1>0, <2>2, <4>1, WaiterWaits, QueueFacts DEF ThreadsOK, AllPlaced, Listed
        <5>3. Has(links'.seq[q], w) <=> Has(s, w) \/ w = host
          <6>1. prio[host] \in Nat
            BY <1>0
          <6> HIDE DEF s
          <6>2. \A x : Has(InsertByPriority(s, prio, host, prio[host]), x) <=> Has(s, x) \/ x = host
            BY <1>0, <4>1, <5>2, <6>1, InsertList
          <6> QED
            BY <5>1, <6>2
        <5> QED
          BY <3>1, <4>3, <5>3 DEF Waits
      <4>4. CASE Top.que # q
        <5>1. links'.seq[q] = s
          BY <4>1, <4>2, <4>4
        <5> QED
          BY <3>1, <5>1 DEF Waits
      <4> QED
        BY <4>3, <4>4
    <3>2. \A m \in Mutexes : Top.que = MutexQueue(m) =>
             waitMutex[host] = m /\ (suspend[owner[m]] = 0 => prio[owner[m]] <= prio[host])
      BY <2>2 DEF LendInv, LendsFirst
    <3>3. WaitsRecorded'
      BY <1>0, <3>1, <3>2 DEF WaitsRecorded
    <3>4. \A o \in Threads : Lent(o)'
      BY <1>0, <1>1, <3>1, <3>2 DEF AllLent, Lent
    <3> QED
      BY <2>1, <3>3, <3>4, LendRest DEF Lending
  <2> QED
    BY <1>3, <2>2, <2>3, <2>4 DEF SleepThread
<1> QED
  BY <1>2, <1>3

\* Guest code waits on a queue of its own or joins a thread.
LEMMA CallLends ==
    ASSUME KInv, KInv', SchedInv, SleepInv, LendInv,
           \/ \E w \in WaitQueues : OSSleepThread(w)
           \/ \E t \in Threads : OSJoinThread(t)
    PROVE  LendInv'
<1>0. /\ UNCHANGED <<prio, waitMutex, suspend, owner, links>> /\ host' = host /\ host \in Threads
      /\ stack \in [Threads -> Seq(GoodFrames)] /\ WaitsRecorded
  BY SchedTypes DEF OSSleepThread, OSJoinThread, threadVars, mutexVars, LendInv
<1>1. ~At("sleep") /\ ~At("promote") /\ ~At("propagate")
  BY DEF OSSleepThread, OSJoinThread, MayCall, AtHandler, At, AtGuest
<1>2. AllLent' /\ WaitsRecorded'
  BY <1>0, <1>1, LentSame DEF LendInv, Lending, AllLent, WaitsRecorded, Waits
<1>3. ASSUME NEW f, f.pc = "sleep", \A m \in Mutexes : f.que # MutexQueue(m), NEW g,
             Call(<<f>>) \/ Call(<<f, g>>)
      PROVE  LendsFirst'
  <2> DEFINE r == stack[host]
             w == <<g>> \o r
  <2>1. r \in Seq(GoodFrames)
    BY <1>0
  <2>2. stack'[host'] = <<f>> \o r \/ stack'[host'] = <<f, g>> \o r
    BY <1>0, <1>3 DEF Call
  <2> HIDE DEF r
  <2>3. w \in Seq(GoodFrames \cup {g})
    BY <2>1
  <2>4. <<f, g>> \o r = <<f>> \o w
    BY <2>1, PushedTwo
  <2> HIDE DEF w
  <2>5. Head(stack'[host']) = f
    BY <2>1, <2>2, <2>3, <2>4, PushedTop
  <2> QED
    BY <1>3, <2>5 DEF LendsFirst, At, Top
<1>4. ASSUME NEW w \in WaitQueues, OSSleepThread(w)
      PROVE  LendsFirst'
  <2> DEFINE f == OnQ("sleep", WaitQueue(w))
  <2>1. f.pc = "sleep" /\ \A m \in Mutexes : f.que # MutexQueue(m)
    BY FrameArguments DEF WaitQueue, MutexQueue
  <2>2. Call(<<f>>)
    BY <1>4 DEF OSSleepThread
  <2> HIDE DEF f
  <2> QED
    BY <1>3, <2>1, <2>2
<1>5. ASSUME NEW t \in Threads, OSJoinThread(t)
      PROVE  LendsFirst'
  <2> DEFINE f == OnQ("sleep", JoinQueue(t))
             g == On("joined", t)
  <2>1. f.pc = "sleep" /\ \A m \in Mutexes : f.que # MutexQueue(m)
    BY FrameArguments DEF JoinQueue, MutexQueue
  <2>2. Call(<<f, g>>) \/ stack' = stack
    BY <1>5 DEF OSJoinThread
  <2> HIDE DEF f, g
  <2>3. CASE Call(<<f, g>>)
    BY <1>3, <2>1, <2>3
  <2>4. CASE stack' = stack
    BY <1>0, <1>1, <2>4 DEF LendsFirst, At, Top
  <2> QED
    BY <2>2, <2>3, <2>4
<1> QED
  BY <1>2, <1>4, <1>5 DEF LendInv, Lending, AllLent

\* One iteration of the promotion of an owner that is to follow: it takes the
\* priority of the thread about to wait, or is not to follow after all.
LEMMA PromoteLends ==
    ASSUME KInv, KInv', SchedInv, EndInv, LendInv, PromoteThreadPriority
    PROVE  Lending'
<1>0. /\ At("promote") /\ stack[host] # <<>> /\ host' = host /\ ThreadsOK
      /\ UNCHANGED <<owner, suspend, waitMutex, state>> /\ WaitsRecorded /\ Lending
      /\ host \in Threads /\ stack \in Stacks /\ prio \in [Threads -> Nat] /\ suspend \in [Threads -> Nat]
      /\ None \notin Threads /\ state \in [Threads -> States]
  BY TypeStacks, SchedTypes, QueueConstants
     DEF PromoteThreadPriority, At, SchedInv, LendInv, mutexVars, KInv, TypeOK
<1>1. Top.thr \in Threads \cup {None} /\ Top.num \in Nat
  <2>1. Top \in Frames
    BY <1>0, TopType
  <2> QED
    BY <2>1, QueueConstants DEF Frames
<1>2. \A o \in Threads : Lent(o) \/ (o = Top.thr /\ LentUpTo(o, Top.num))
  BY <1>0 DEF Lending, At
<1>3. CASE UNCHANGED <<prio, links>> /\ AllLent
  BY <1>0, <1>3, LentSame DEF Lending, AllLent
<1>4. CASE Top.thr = None
  <2>1. UNCHANGED <<prio, links>> /\ AllLent
    BY <1>0, <1>2, <1>4 DEF PromoteThreadPriority, AllLent
  <2> QED
    BY <1>3, <2>1
<1>5. ASSUME NEW t \in Threads, t = Top.thr, NEW p \in Nat, p = Top.num
      PROVE  Lending'
  <2>1. \A m \in Mutexes : \A w \in Threads : suspend[t] = 0 /\ owner[m] = t /\ Waits(w, m) =>
           prio[t] <= prio[w] \/ p <= prio[w]
    BY <1>2, <1>5 DEF Lent, LentUpTo
  <2>2. CASE suspend[t] > 0 \/ prio[t] <= p
    <3>1. UNCHANGED <<prio, links>>
      BY <1>5, <2>2 DEF PromoteThreadPriority
    <3>2. Lent(t)
      BY <1>0, <2>1, <2>2 DEF Lent
    <3> QED
      BY <1>2, <1>3, <1>5, <3>1, <3>2 DEF AllLent
  <2>3. CASE ~(suspend[t] > 0 \/ prio[t] <= p)
    <3>1. SetThreadEffectivePriority(t, p) /\ Continue(<<Promote(NextOwner(t), p)>>)
      BY <1>0, <1>5, <2>3 DEF PromoteThreadPriority
    <3>2. CASE Gone(t)
      <4>1. UNCHANGED <<prio, links>>
        BY <3>1, <3>2 DEF SetThreadEffectivePriority, Gone, ThreadStateIsTerminated
      <4>2. Lent(t)
        BY <1>0, <3>2, OwnersLive DEF Lent
      <4> QED
        BY <1>2, <1>3, <1>5, <4>1, <4>2 DEF AllLent
    <3>3. CASE ~Gone(t)
      <4>1. prio'[t] = p /\ \A u \in Threads \ {t} : prio'[u] = prio[u]
        BY <1>0, <3>1, <3>3 DEF SetThreadEffectivePriority, Gone
      <4>2. At("promote")' /\ Top'.thr = NextOwner(t) /\ Top'.num = p
        <5> DEFINE f == Promote(NextOwner(t), p)
        <5>1. f.pc = "promote" /\ f.thr = NextOwner(t) /\ f.num = p /\ Continue(<<f>>)
          BY <3>1 DEF Promote, Frame
        <5> HIDE DEF f
        <5> QED
          BY <1>0, <5>1, ContinuedTop
      <4>3. Fewer(links, links')
        BY QueueSteps
      <4>4. \A m \in Mutexes : \A w \in Threads : owner[m] = t /\ Waits(w, m) => prio'[t] <= prio[w]
        BY <1>0, <2>1, <2>3, <4>1
      <4>5. /\ \A o \in Threads \ {t} : OwnerOf(waitMutex[t]) # o => Lent(o)'
            /\ \A o \in Threads \ {t} : state[t] # "waiting" => Lent(o)'
            /\ \A o \in Threads \ {t} : LentUpTo(o, p)'
            /\ Lent(t)'
        BY <1>0, <1>2, <1>5, <4>1, <4>3, <4>4, LentOthers
      <4>6. \A o \in Threads : o = t \/ state[t] # "waiting" \/ OwnerOf(waitMutex[t]) # o \/ NextOwner(t) = o
        BY <1>0 DEF OwnerOf, NextOwner
      <4>7. ASSUME NEW o \in Threads
            PROVE  Lent(o)' \/ (At("promote") /\ Top.thr = o /\ LentUpTo(o, Top.num))'
        <5>1. CASE o = t \/ state[t] # "waiting" \/ OwnerOf(waitMutex[t]) # o
          BY <4>5, <5>1
        <5>2. CASE o # t /\ NextOwner(t) = o
          <6>1. LentUpTo(o, Top.num)'
            BY <4>2, <4>5, <5>2 DEF LentUpTo
          <6> QED
            BY <4>2, <5>2, <6>1
        <5> QED
          BY <4>6, <5>1, <5>2
      <4> QED
        BY <4>7 DEF Lending
    <3> QED
      BY <3>2, <3>3
  <2> QED
    BY <2>2, <2>3
<1> QED
  BY <1>1, <1>4, <1>5

\* The thread that promotes goes on promoting, or is about to wait.
LEMMA PromoteFirst ==
    ASSUME KInv, KInv', SchedInv, SleepInv, EndInv, LendInv, PromoteThreadPriority
    PROVE  LendsFirst'
<1>0. /\ At("promote") /\ stack[host] # <<>> /\ host' = host /\ LendsFirst
      /\ UNCHANGED <<owner, suspend, waitMutex>> /\ host \in Threads /\ stack \in Stacks
      /\ prio \in [Threads -> Nat] /\ None \notin Threads /\ host' \in Threads
      /\ stack \in [Threads -> Seq(GoodFrames)] /\ owner \in [Mutexes -> Threads \cup {None}]
  BY TypeStacks, SchedTypes, QueueConstants
     DEF PromoteThreadPriority, At, SchedInv, LendInv, mutexVars, KInv, TypeOK
<1>1. CASE Awake
  <2>1. Awake'
    BY <1>1, AwakePlain, PlainThread
  <2> QED
    BY <1>0, <2>1, AwakeLends
<1>2. CASE ~Awake
  <2>1. Dozes(Tail(stack[host]))
    BY <1>0, <1>2 DEF SleepInv, SleepsOK, Awake, Dozes, At, Top
  <2>2. Top.thr \in Threads \cup {None} /\ Top.num \in Nat
    <3>1. Top \in Frames
      BY <1>0, TopType
    <3> QED
      BY <3>1, QueueConstants DEF Frames
  <2>3. ASSUME NEW m \in Mutexes, Below("sleep", MutexQueue(m))
        PROVE  /\ waitMutex[host] = m /\ Top.num = prio[host] /\ owner[m] \in Threads
               /\ suspend[owner[m]] = 0 => prio[owner[m]] <= prio[host] \/ Top.thr = owner[m]
    BY <1>0, <2>1, <2>3 DEF LendsFirst, Below, Dozes, Blockable
  <2>4. CASE Top.thr = None \/ suspend[Top.thr] > 0 \/ prio[Top.thr] <= Top.num
    <3>1. Return /\ UNCHANGED prio
      BY <2>4 DEF PromoteThreadPriority
    <3>2. stack'[host'] = Tail(stack[host])
      BY <1>0, <3>1 DEF Return
    <3>3. At("sleep")' /\ ~At("promote")' /\ Top'.que = Head(Tail(stack[host])).que
      BY <2>1, <3>2 DEF Dozes, At, Top
    <3>4. ASSUME NEW m \in Mutexes, Top'.que = MutexQueue(m)
          PROVE  waitMutex[host] = m /\ (suspend[owner[m]] = 0 => prio[owner[m]] <= prio[host])
      <4>1. Below("sleep", MutexQueue(m))
        BY <2>1, <3>3, <3>4 DEF Below, Dozes
      <4> QED
        BY <1>0, <2>2, <2>3, <2>4, <4>1
    <3> QED
      BY <1>0, <3>1, <3>3, <3>4 DEF LendsFirst
  <2>5. ASSUME NEW t \in Threads, t = Top.thr, NEW p \in Nat, p = Top.num, ~(suspend[t] > 0 \/ prio[t] <= p)
        PROVE  LendsFirst'
    <3>1. SetThreadEffectivePriority(t, p) /\ Continue(<<Promote(NextOwner(t), p)>>)
      BY <1>0, <2>5 DEF PromoteThreadPriority
    <3>2. At("promote")' /\ ~At("sleep")' /\ Top'.num = p /\ Tail(stack'[host']) = Tail(stack[host])
      <4> DEFINE f == Promote(NextOwner(t), p)
      <4>1. f.pc = "promote" /\ f.num = p /\ Continue(<<f>>)
        BY <3>1 DEF Promote, Frame
      <4> HIDE DEF f
      <4>2. At("promote")' /\ Top' = f /\ Tail(stack'[host']) = Tail(stack[host])
        BY <1>0, <4>1, ContinuedTop
      <4> QED
        BY <4>1, <4>2 DEF At
    <3>3. prio' = prio \/ prio' = [prio EXCEPT ![t] = p]
      BY <3>1 DEF SetThreadEffectivePriority
    <3>4. Gone(t) => \A m \in Mutexes : owner[m] # t
      BY <1>0, OwnersLive
    <3>5. ~Gone(t) => prio' = [prio EXCEPT ![t] = p]
      BY <3>1 DEF SetThreadEffectivePriority, Gone
    <3>6. ASSUME NEW m \in Mutexes, Below("sleep", MutexQueue(m))
          PROVE  /\ waitMutex[host] = m /\ p = prio'[host]
                 /\ suspend[owner[m]] = 0 => prio'[owner[m]] <= prio'[host]
      <4>1. /\ waitMutex[host] = m /\ p = prio[host] /\ owner[m] \in Threads
            /\ suspend[owner[m]] = 0 => prio[owner[m]] <= prio[host] \/ t = owner[m]
        BY <2>3, <2>5, <3>6
      <4>2. t # host /\ prio'[host] = prio[host]
        BY <1>0, <2>5, <3>3, <4>1
      <4>3. owner[m] = t => prio'[owner[m]] = p
        BY <1>0, <3>4, <3>5
      <4>4. owner[m] # t => prio'[owner[m]] = prio[owner[m]]
        BY <1>0, <3>3, <4>1
      <4> QED
        BY <1>0, <4>1, <4>2, <4>3, <4>4
    <3> QED
      BY <1>0, <3>2, <3>6 DEF LendsFirst, Below
  <2> QED
    BY <2>2, <2>4, <2>5
<1> QED
  BY <1>1, <1>2

\* A mutex nobody waits for is taken, or the thread that is going to wait for it
\* begins to lend its priority.
LEMMA LockLends ==
    ASSUME KInv, KInv', SchedInv, SleepInv, LendInv, LockMutex
    PROVE  LendInv'
<1>0. /\ host \in Threads /\ host' = host /\ stack \in [Threads -> Seq(GoodFrames)]
      /\ UNCHANGED <<links, state, prio, suspend>> /\ At("lock") /\ stack[host] # <<>> /\ stack \in Stacks
      /\ owner \in [Mutexes -> Threads \cup {None}] /\ waitMutex \in [Threads -> Mutexes \cup {None}]
      /\ ThreadsOK /\ ControlOK /\ WaitsRecorded /\ Fewer(links, links')
  BY SchedTypes, TypeStacks DEF LockMutex, At, KInv, TypeOK, SchedInv, LendInv, Fewer
<1>1. PICK m \in Mutexes : m = Top.mut
  BY <1>0, TopType DEF NeedMutex
<1>2. Top.thr = host /\ state[host] = "running"
  BY <1>0, TopOwn, RunningTop DEF Own
<1>3. Awake /\ NoFree /\ AllLent
  <2>1. ~At("sleep") /\ ~At("promote") /\ ~At("wake") /\ ~At("propagate")
    BY <1>0 DEF At
  <2> QED
    BY <2>1, AwakeUnless, FreeUnless DEF SleepInv, LendInv, Lending, AllLent
<1>4. CASE owner[m] \in {None, host}
  <2>1. owner' = [owner EXCEPT ![m] = host] /\ Return /\ UNCHANGED waitMutex
    BY <1>1, <1>2, <1>4 DEF LockMutex
  <2>2. Awake'
    BY <1>0, <1>3, <2>1, AwakeChange, AwakePushed
  <2>3. owner[m] = None => \A w \in Threads : ~Waits(w, m)
    BY <1>3 DEF NoFree, Waits, Has
  <2>4. \A x \in Mutexes : owner'[x] \in {owner[x], None} \/ \A w \in Threads : ~Waits(w, x)
    BY <1>0, <1>4, <2>1, <2>3
  <2> QED
    BY <1>0, <1>3, <2>1, <2>2, <2>4, LendCalm
<1>5. CASE owner[m] \notin {None, host}
  <2> DEFINE g == Promote(owner[m], prio[host])
             f == OnQ("sleep", MutexQueue(m))
             e == [Top EXCEPT !.pc = "relock"]
             r == Tail(stack[host])
             v == <<e>> \o r
             w == <<f>> \o v
  <2>1. g.pc = "promote" /\ g.thr = owner[m] /\ g.num = prio[host] /\ f.pc = "sleep" /\ f.que = MutexQueue(m)
    BY DEF Promote, OnQ, Frame
  <2>2. UNCHANGED owner /\ Continue(<<g, f, e>>) /\ waitMutex' = [waitMutex EXCEPT ![host] = m]
    BY <1>1, <1>2, <1>5 DEF LockMutex, mutexVars
  <2>3. r \in Seq(GoodFrames) /\ stack'[host'] = <<g, f, e>> \o r
    BY <1>0, <2>2 DEF Continue
  <2> HIDE DEF e, f, g, r
  <2>4. <<g, f, e>> \o r = <<g>> \o w /\ w \in Seq(GoodFrames \cup {e, f, g})
    <3> DEFINE T == GoodFrames \cup {e, f, g}
    <3>1. r \in Seq(T) /\ e \in T /\ f \in T /\ g \in T
      BY <2>3, SeqSubset
    <3> HIDE DEF T
    <3>2. <<f, e>> \o r = w
      BY <2>3, PushedTwo
    <3>3. <<g, f, e>> \o r = <<g>> \o (<<f, e>> \o r) /\ w \in Seq(T)
      BY <3>1
    <3> QED
      BY <3>2, <3>3 DEF T
  <2>5. v \in Seq(GoodFrames \cup {e})
    BY <2>3
  <2> HIDE DEF v
  <2>6. w # <<>> /\ Head(w) = f
    BY <2>5, PushedTop
  <2> HIDE DEF w
  <2>7. At("promote")' /\ Top' = g /\ Tail(stack'[host']) = w
    BY <2>1, <2>3, <2>4, PushedTop DEF At, Top
  <2>8. LendsFirst'
    <3>1. ASSUME NEW x \in Mutexes, Below("sleep", MutexQueue(x))'
          PROVE  x = m
      <4>1. Head(w).que = MutexQueue(x)
        BY <2>7, <3>1 DEF Below
      <4>2. MutexQueue(m) = MutexQueue(x)
        BY <2>1, <2>6, <4>1
      <4> QED
        BY <4>2 DEF MutexQueue
    <3>2. waitMutex'[host] = m /\ ~At("sleep")'
      BY <1>0, <2>2, <2>7 DEF At
    <3> QED
      BY <1>0, <2>1, <2>2, <2>7, <3>1, <3>2 DEF LendsFirst
  <2>9. AllLent'
    BY <1>0, <1>3, <2>2, LentSame
  <2>10. \A x \in Mutexes : \A y \in Threads : Waits(y, x) => waitMutex'[y] = waitMutex[y]
    BY <1>0, <1>2, <2>2, WaiterWaits, QueueFacts DEF Waits
  <2> QED
    BY <1>0, <2>8, <2>9, <2>10, RecordsKept DEF LendInv, Lending, AllLent
<1> QED
  BY <1>4, <1>5

\* A mutex is released; its last unlock gives back a borrowed priority, as far
\* as the mutexes that are kept allow.
LEMMA UnlockLends ==
    ASSUME KInv, KInv', SchedInv, SleepInv, EndInv, LendInv, UnlockAllMutex \/ \E m \in Mutexes : OSUnlockMutex(m)
    PROVE  LendInv'
<1>0. /\ host \in Threads /\ UNCHANGED <<links, suspend, waitMutex>> /\ owner \in [Mutexes -> Threads \cup {None}]
      /\ owned \in [Threads -> Seq(Mutexes)] /\ stack \in Stacks /\ links \in Links /\ base \in [Threads -> Prios]
      /\ prio \in [Threads -> 0 .. MaxPrio + 1] /\ ThreadsOK /\ ControlOK /\ WaitsRecorded /\ OwnedListed
      /\ Fewer(links, links') /\ prio \in [Threads -> Nat]
  BY SchedTypes, TypeStacks DEF UnlockAllMutex, OSUnlockMutex, KInv, TypeOK, SchedInv, LendInv, EndInv, Fewer
<1>1. ~At("sleep") /\ ~At("promote") /\ ~At("propagate")
  BY DEF UnlockAllMutex, OSUnlockMutex, MayCall, AtHandler, AtGuest, At
<1>2. AllLent /\ Awake'
  <2>1. Awake /\ AllLent
    BY <1>1, AwakeUnless DEF SleepInv, LendInv, Lending, AllLent
  <2> QED
    BY <2>1, AwakePlain, PlainThread, PlainCalls
<1>3. CASE UNCHANGED prio /\ \A m \in Mutexes : owner'[m] \in {owner[m], None}
  BY <1>0, <1>2, <1>3, LendCalm
<1>4. CASE UnlockAllMutex
  <2>1. UNCHANGED prio /\ (UNCHANGED owner \/ \E m : owner' = [owner EXCEPT ![m] = None])
    BY <1>4 DEF UnlockAllMutex
  <2> QED
    BY <1>0, <1>3, <2>1
<1>5. ASSUME NEW m \in Mutexes, OSUnlockMutex(m)
      PROVE  LendInv'
  <2>1. running = host /\ state[host] = "running"
    BY <1>0, <1>5, CallerOK DEF OSUnlockMutex
  <2> DEFINE kept == UnlinkGuestListNode(owned[host], m)
             e    == ComputeThreadEffectivePriority(links, prio, base[host], kept)
  <2>2. CASE UNCHANGED prio
    <3>1. UNCHANGED owner \/ owner' = [owner EXCEPT ![m] = None]
      BY <1>5 DEF OSUnlockMutex
    <3> QED
      BY <1>0, <1>3, <2>2, <3>1
  <2>3. CASE ~UNCHANGED prio
    <3>1. owner' = [owner EXCEPT ![m] = None] /\ prio' = [prio EXCEPT ![host] = e]
      BY <1>5, <2>1, <2>3 DEF OSUnlockMutex
    <3>2. kept \in Seq(Mutexes) /\ base[host] \in Prios
      BY <1>0, UnlinkType
    <3>3. \A x \in Mutexes : x # m /\ owner[x] = host => x \in ToSet(kept)
      BY <1>0, UnlinkKeeps, QueueConstants DEF OwnedListed
    <3> HIDE DEF kept
    <3>4. \A x \in Mutexes : \A w \in Threads : x # m /\ owner[x] = host /\ Waits(w, x) => e <= prio[w]
      <4>1. \A x \in Mutexes : Sorted(links.seq[MutexQueue(x)], prio)
        BY <1>0, QueueFacts DEF ThreadsOK, AllPlaced, InOrder
      <4> QED
        BY <1>0, <3>2, <3>3, <4>1, EffectiveBound DEF Waits
    <3> HIDE DEF e
    <3>5. prio'[host] = e /\ \A u \in Threads \ {host} : prio'[u] = prio[u]
      BY <1>0, <3>1
    <3>6. \A x \in Mutexes : ~Waits(host, x)
      BY <1>0, <2>1, WaiterWaits, QueueFacts DEF Waits
    <3>7. \A x \in Mutexes : owner'[x] = owner[x] \/ (x = m /\ owner'[x] = None)
      BY <1>0, <3>1
    <3>8. ASSUME NEW o \in Threads
          PROVE  Lent(o)'
      <4> SUFFICES ASSUME suspend'[o] = 0, NEW x \in Mutexes, NEW w \in Threads, owner'[x] = o, Waits(w, x)'
                   PROVE  prio'[o] <= prio'[w]
        BY DEF Lent
      <4>1. Waits(w, x) /\ owner[x] = o /\ suspend[o] = 0 /\ prio'[w] = prio[w]
        BY <1>0, <3>5, <3>6, <3>7, QueueConstants DEF Waits
      <4>2. CASE o = host
        <5>1. x # m
          BY <1>0, <3>1, <4>2, QueueConstants
        <5> QED
          BY <3>4, <3>5, <4>1, <4>2, <5>1
      <4>3. CASE o # host
        BY <1>2, <3>5, <4>1, <4>3 DEF AllLent, Lent
      <4> QED
        BY <4>2, <4>3
    <3> QED
      BY <1>0, <1>2, <3>8, RecordsKept, LendRest DEF Lending
  <2> QED
    BY <2>2, <2>3
<1> QED
  BY <1>4, <1>5

\* Every step keeps the invariant of priority inheritance.
LEMMA NextLend ==
    GuestContract /\ KInv /\ KInv' /\ SchedInv /\ SleepInv /\ EndInv /\ LendInv /\ [Next]_vars => LendInv'
<1> SUFFICES ASSUME GuestContract, KInv, KInv', SchedInv, SleepInv, EndInv, LendInv, [Next]_vars
             PROVE  LendInv'
  OBVIOUS
<1>1. CASE PromoteThreadPriority
  <2>1. Lending' /\ LendsFirst'
    BY <1>1, PromoteLends, PromoteFirst
  <2>2. WaitsRecorded'
    BY <1>1, QueueSteps, RecordsKept DEF LendInv, PromoteThreadPriority
  <2> QED
    BY <2>1, <2>2 DEF LendInv
<1>2. CASE KernelStep /\ ~PromoteThreadPriority
  <2>1. \/ Quiet \/ WakeupThread \/ SleepThread
        \/ LockMutex \/ UnlockAllMutex \/ WakeNoSwitch \/ WakeNoSwitchDone \/ Returned
    BY <1>2 DEF KernelStep, Quiet
  <2> QED
    BY <2>1, QuietLends, WaitLends, LockLends, UnlockLends, NoReturn
<1>3. CASE GuestStep
  <2>1. \/ QuietCall \/ ThreadReturn
        \/ \E m \in Mutexes : OSUnlockMutex(m)
        \/ \E w \in WaitQueues : OSSleepThread(w)
        \/ \E t \in Threads : OSJoinThread(t)
    BY <1>3 DEF GuestStep, QuietCall
  <2> QED
    BY <2>1, QuietLends, UnlockLends, CallLends, NoReturn
<1>4. CASE UNCHANGED vars
  <2>1. UNCHANGED <<stack, host, links, owner, prio, suspend, waitMutex>>
    BY <1>4 DEF vars
  <2> QED
    BY <2>1 DEF LendInv, WaitsRecorded, LendsFirst, Lending, Lent, LentUpTo, Waits, Below, At, Top
<1> QED
  BY <1>1, <1>2, <1>3, <1>4 DEF Next

\* Nobody waits when the kernel starts.
LEMMA InitLend == Init => LendInv
<1> SUFFICES ASSUME Init PROVE LendInv
  OBVIOUS
<1>1. \A m \in Mutexes : links.seq[MutexQueue(m)] = <<>>
  BY QueueFacts DEF Init, EmptyLinks
<1>2. \A m \in Mutexes : \A w : ~Waits(w, m)
  BY <1>1 DEF Waits, Has
<1>3. stack[host] = <<>>
  BY KernelConstants DEF Init
<1> QED
  BY <1>2, <1>3 DEF LendInv, WaitsRecorded, LendsFirst, Lending, Lent, At

\* InheritsPriority, for every instance: when guest code runs, whoever owns a
\* mutex and is not suspended is at least as urgent as every thread blocked on
\* it.  No wait, timeout, suspension, resumption or release of another mutex
\* leaves an owner with less than its waiters lend it.
THEOREM OwnersInherit == GuestContract => (Spec /\ EndsUncontended => []InheritsPriority)
<1> SUFFICES ASSUME GuestContract PROVE Spec /\ EndsUncontended => []InheritsPriority
  OBVIOUS
<1> DEFINE Inv == (KInv /\ SchedInv) /\ (SleepInv /\ EndInv)
<1>1. Init => LendInv
  BY InitLend
<1>2. Inv /\ Inv' /\ LendInv /\ [Next]_vars => LendInv'
  BY NextLend
<1>3. Inv /\ LendInv => InheritsPriority
  <2> SUFFICES ASSUME KInv, LendInv, AtGuest, NEW m \in Mutexes, NEW i \in DOMAIN links.seq[MutexQueue(m)],
                      owner[m] # None, suspend[owner[m]] = 0
               PROVE  prio[owner[m]] <= prio[links.seq[MutexQueue(m)][i]]
    BY DEF InheritsPriority
  <2> DEFINE w == links.seq[MutexQueue(m)][i]
  <2>1. owner[m] \in Threads
    BY DEF KInv, TypeOK
  <2>2. w \in Threads
    <3>1. links.seq[MutexQueue(m)] \in Seq(Threads)
      BY SchedTypes, QueueFacts DEF Links
    <3> QED
      BY <3>1
  <2>3. Waits(w, m)
    BY DEF Waits, Has
  <2>4. Lent(owner[m])
    BY <2>1 DEF LendInv, Lending, At, AtGuest
  <2> HIDE DEF w
  <2>5. prio[owner[m]] <= prio[w]
    BY <2>2, <2>3, <2>4 DEF Lent
  <2> QED
    BY <2>5 DEF w
<1>4. Spec /\ EndsUncontended => []Inv
  BY EndInvariance
<1> HIDE DEF Inv
<1> QED
  BY <1>1, <1>2, <1>3, <1>4, PTL DEF Spec

-----------------------------------------------------------------------------
(***************************************************************************)
(* The alarm pump.  A pump in progress is either the first call of its     *)
(* fiber, when guest code pumps directly, or above a frame that keeps the  *)
(* fiber on the CPU, the end of a deferred pump or the idle loop.          *)
(***************************************************************************)
PumpPCs  == {"alarms", "alarmLoop"}
StayPCs  == {"undefer", "idle", "idleAlarms"}
LoopFree == {f \in Frames : f.pc \notin PumpPCs \cup {"handler"}}

Pumping(s) == PumpsAt(s) # {}

\* A pump is at the bottom of stack s, or in something that keeps the CPU or
\* holds the guard; a handler is in a pump.
Fits(s, i) ==
    /\ s[i].pc \in PumpPCs =>
         i = Len(s) \/ \E j \in DOMAIN s : i < j /\ s[j].pc \in StayPCs \cup {"alarmLoop"}
    /\ s[i].pc = "handler" => \E j \in DOMAIN s : i < j /\ s[j].pc = "alarmLoop"

PumpOK(s) == /\ \A i \in DOMAIN s : Fits(s, i)
             /\ \A i, j \in PumpsAt(s) : i = j

\* One fiber pumps at most, and the guard is up while it does.
AlarmInv ==
    /\ alarmDepth \in {0, 1}
    /\ \A u \in Threads : PumpOK(stack[u]) /\ (Pumping(stack[u]) => alarmDepth = 1)
    /\ \A t, u \in Threads : Pumping(stack[t]) /\ Pumping(stack[u]) => t = u

\* No thread is cancelled, or its structure used again, while it is in a pump.
NoPumpCut == \A t \in Threads \ {host} : PumpsAt(stack[t]) # {} => stack'[t] # <<>>
PumpsUncut == [][NoPumpCut]_vars

\* What every step keeps.
PumpKept == AlarmInv' /\ (GuardAccounted /\ NoPumpCut => GuardAccounted')

\* Stack u is s with frames added or taken off on top: what is common fits in
\* u as it did in s.
LEMMA PumpShift ==
    ASSUME NEW s \in Seq(Frames), NEW u \in Seq(Frames), NEW d \in Int, Len(u) = Len(s) + d,
           \A i \in DOMAIN s : i + d >= 1 => u[i + d] = s[i]
    PROVE  /\ \A i \in DOMAIN u : i - d >= 1 =>
                 i - d \in DOMAIN s /\ u[i] = s[i - d] /\ (Fits(s, i - d) => Fits(u, i))
           /\ \A i \in PumpsAt(u) : i - d >= 1 => i - d \in PumpsAt(s)
           /\ \A i \in PumpsAt(s) : i + d >= 1 => i + d \in PumpsAt(u)
<1>1. /\ Len(s) \in Nat /\ Len(u) \in Nat /\ DOMAIN s = 1 .. Len(s) /\ DOMAIN u = 1 .. Len(u)
  OBVIOUS
<1>2. ASSUME NEW i \in DOMAIN u, i - d >= 1
      PROVE  i - d \in DOMAIN s /\ u[i] = s[i - d]
  <2>1. i - d \in DOMAIN s /\ (i - d) + d = i /\ i >= 1
    BY <1>1, <1>2
  <2> QED
    BY <2>1
<1>3. ASSUME NEW j \in DOMAIN s, j + d >= 1
      PROVE  j + d \in DOMAIN u /\ u[j + d] = s[j]
  BY <1>1, <1>3
<1>4. ASSUME NEW i \in DOMAIN u, i - d >= 1, NEW j \in DOMAIN s, i - d < j
      PROVE  j + d \in DOMAIN u /\ i < j + d /\ u[j + d] = s[j]
  <2>1. j + d >= 1 /\ i < j + d
    BY <1>1, <1>4
  <2> QED
    BY <1>3, <2>1
<1>5. ASSUME NEW i \in DOMAIN u, i - d >= 1, Fits(s, i - d)
      PROVE  Fits(u, i)
  <2>1. i - d \in DOMAIN s /\ u[i] = s[i - d]
    BY <1>2, <1>5
  <2>2. ASSUME u[i].pc = "handler"
        PROVE  \E j \in DOMAIN u : i < j /\ u[j].pc = "alarmLoop"
    <3>1. PICK j \in DOMAIN s : i - d < j /\ s[j].pc = "alarmLoop"
      BY <1>5, <2>1, <2>2 DEF Fits
    <3> QED
      BY <1>4, <1>5, <3>1
  <2>3. ASSUME u[i].pc \in PumpPCs
        PROVE  i = Len(u) \/ \E j \in DOMAIN u : i < j /\ u[j].pc \in StayPCs \cup {"alarmLoop"}
    <3>1. CASE i - d = Len(s)
      BY <1>1, <3>1
    <3>2. CASE i - d # Len(s)
      <4>1. PICK j \in DOMAIN s : i - d < j /\ s[j].pc \in StayPCs \cup {"alarmLoop"}
        BY <1>5, <2>1, <2>3, <3>2 DEF Fits
      <4> QED
        BY <1>4, <1>5, <4>1
    <3> QED
      BY <3>1, <3>2
  <2> QED
    BY <2>2, <2>3 DEF Fits
<1> QED
  BY <1>2, <1>3, <1>5 DEF PumpsAt

\* Frames that do not pump, on top of stack s.
LEMMA PumpPush ==
    ASSUME NEW s \in Seq(Frames), PumpOK(s), NEW fs \in Seq(LoopFree)
    PROVE  PumpOK(fs \o s) /\ (Pumping(fs \o s) <=> Pumping(s))
<1> DEFINE u == fs \o s
           n == Len(fs)
<1>1. fs \in Seq(Frames)
  BY SeqSubset DEF LoopFree
<1>2. /\ u \in Seq(Frames) /\ n \in Int /\ n >= 0 /\ Len(u) = Len(s) + n
      /\ \A i \in DOMAIN s : u[i + n] = s[i] /\ i + n >= 1
      /\ \A i \in DOMAIN u : i - n >= 1 \/ (i \in DOMAIN fs /\ u[i] = fs[i])
  <2>1. /\ u \in Seq(Frames) /\ n \in Nat /\ Len(s) \in Nat /\ Len(u) = n + Len(s)
        /\ DOMAIN s = 1 .. Len(s) /\ DOMAIN fs = 1 .. n /\ DOMAIN u = 1 .. n + Len(s)
        /\ \A i \in DOMAIN s : u[n + i] = s[i]
        /\ \A i \in DOMAIN fs : u[i] = fs[i]
    BY <1>1, Concat
  <2> HIDE DEF u, n
  <2> QED
    BY <2>1
<1>3. \A i \in DOMAIN fs : fs[i].pc \notin PumpPCs /\ fs[i].pc # "handler"
  BY DEF LoopFree
<1> HIDE DEF u, n
<1>4. \A i \in DOMAIN u : i - n >= 1 \/ (u[i].pc \notin PumpPCs /\ u[i].pc # "handler")
  BY <1>2, <1>3
<1>5. /\ \A i \in DOMAIN u : i - n >= 1 => i - n \in DOMAIN s /\ (Fits(s, i - n) => Fits(u, i))
      /\ \A i \in PumpsAt(u) : i - n >= 1 => i - n \in PumpsAt(s)
      /\ \A i \in PumpsAt(s) : i + n >= 1 => i + n \in PumpsAt(u)
  BY <1>2, PumpShift
<1>6. \A i \in DOMAIN u : Fits(u, i)
  BY <1>4, <1>5 DEF PumpOK, Fits
<1>7. \A i \in PumpsAt(u) : i \in DOMAIN u /\ i - n \in PumpsAt(s)
  BY <1>4, <1>5 DEF PumpsAt, PumpPCs
<1>8. ASSUME NEW i \in PumpsAt(u), NEW j \in PumpsAt(u)
      PROVE  i = j
  <2>1. i - n = j - n /\ i \in Int /\ j \in Int
    BY <1>2, <1>7 DEF PumpOK
  <2> QED
    BY <1>2, <2>1
<1>9. Pumping(u) <=> Pumping(s)
  <2>1. \A i \in PumpsAt(s) : i + n \in PumpsAt(u)
    BY <1>2, <1>5 DEF PumpsAt
  <2> QED
    BY <1>7, <2>1 DEF Pumping
<1> QED
  BY <1>6, <1>8, <1>9 DEF PumpOK, u

\* The frame on top returns; when it is the loop, the pump is over.
LEMMA PumpPop ==
    ASSUME NEW s \in Seq(Frames), s # <<>>, PumpOK(s)
    PROVE  /\ PumpOK(Tail(s)) /\ Tail(s) \in Seq(Frames)
           /\ Pumping(Tail(s)) <=> Pumping(s) /\ Head(s).pc # "alarmLoop"
           /\ Head(s).pc = "alarmLoop" => Pumping(s)
<1> DEFINE u == Tail(s)
<1>1. /\ u \in Seq(Frames) /\ Len(s) \in Nat /\ Len(u) = Len(s) - 1 /\ DOMAIN s = 1 .. Len(s)
      /\ DOMAIN u = 1 .. Len(s) - 1 /\ Head(s) = s[1] /\ 1 \in DOMAIN s
      /\ \A i \in DOMAIN u : u[i] = s[i + 1]
  OBVIOUS
<1> HIDE DEF u
<1>2. /\ \A i \in DOMAIN u : i \in Int /\ i - (-1) = i + 1 /\ i - (-1) >= 1
      /\ \A i \in DOMAIN s : i \in Int /\ i + (-1) = i - 1 /\ (i # 1 => i + (-1) >= 1)
      /\ -1 \in Int /\ Len(u) = Len(s) + (-1)
  BY <1>1
<1>3. ASSUME NEW i \in DOMAIN s, i + (-1) >= 1
      PROVE  u[i + (-1)] = s[i]
  <2>1. i - 1 \in DOMAIN u /\ (i - 1) + 1 = i
    BY <1>1, <1>3
  <2> QED
    BY <1>1, <1>2, <2>1
<1>4. /\ \A i \in DOMAIN u : i + 1 \in DOMAIN s /\ (Fits(s, i + 1) => Fits(u, i))
      /\ \A i \in PumpsAt(u) : i + 1 \in PumpsAt(s)
      /\ \A i \in PumpsAt(s) : i # 1 => i - 1 \in PumpsAt(u)
  <2>1. /\ \A i \in DOMAIN u : i - (-1) >= 1 => i - (-1) \in DOMAIN s /\ (Fits(s, i - (-1)) => Fits(u, i))
        /\ \A i \in PumpsAt(u) : i - (-1) >= 1 => i - (-1) \in PumpsAt(s)
        /\ \A i \in PumpsAt(s) : i + (-1) >= 1 => i + (-1) \in PumpsAt(u)
    BY <1>1, <1>2, <1>3, PumpShift
  <2>2. PumpsAt(u) \subseteq DOMAIN u /\ PumpsAt(s) \subseteq DOMAIN s
    BY DEF PumpsAt
  <2> QED
    BY <1>2, <2>1, <2>2
<1>5. \A i \in DOMAIN u : Fits(u, i)
  BY <1>4 DEF PumpOK
<1>6. ASSUME NEW i \in PumpsAt(u), NEW j \in PumpsAt(u)
      PROVE  i = j
  <2>1. i + 1 = j + 1 /\ i \in Int /\ j \in Int
    BY <1>2, <1>4 DEF PumpOK, PumpsAt
  <2> QED
    BY <2>1
<1>7. 1 \in PumpsAt(s) <=> Head(s).pc = "alarmLoop"
  BY <1>1 DEF PumpsAt
<1>8. ASSUME 1 \in PumpsAt(s)
      PROVE  ~Pumping(u)
  <2>1. ASSUME NEW i \in PumpsAt(u)
        PROVE  FALSE
    <3>1. i + 1 = 1 /\ i \in DOMAIN u
      BY <1>4, <1>8 DEF PumpOK, PumpsAt
    <3> QED
      BY <1>1, <3>1
  <2> QED
    BY <2>1 DEF Pumping
<1>9. 1 \notin PumpsAt(s) => (Pumping(u) <=> Pumping(s))
  BY <1>4 DEF Pumping
<1> QED
  BY <1>1, <1>5, <1>6, <1>7, <1>8, <1>9 DEF PumpOK, Pumping, u

\* A pump is called, enters its loop, or calls a handler.
LEMMA PumpTop ==
    ASSUME NEW s \in Seq(Frames), PumpOK(s), NEW f \in Frames, f.pc \in PumpPCs \cup {"handler"},
           f.pc \in PumpPCs => s = <<>> \/ \E j \in DOMAIN s : s[j].pc \in StayPCs \cup {"alarmLoop"},
           f.pc = "alarmLoop" => ~Pumping(s),
           f.pc = "handler" => Pumping(s)
    PROVE  /\ PumpOK(<<f>> \o s) /\ <<f>> \o s \in Seq(Frames)
           /\ Pumping(<<f>> \o s) <=> Pumping(s) \/ f.pc = "alarmLoop"
<1> DEFINE u == <<f>> \o s
<1>1. /\ u \in Seq(Frames) /\ Len(s) \in Nat /\ Len(u) = Len(s) + 1 /\ DOMAIN s = 1 .. Len(s)
      /\ DOMAIN u = 1 .. Len(s) + 1 /\ u[1] = f
      /\ \A i \in DOMAIN s : u[i + 1] = s[i]
      /\ s = <<>> => Len(s) = 0
  OBVIOUS
<1> HIDE DEF u
<1>2. /\ \A i \in DOMAIN s : i \in Int /\ i + 1 >= 1 /\ i + 1 \in DOMAIN u /\ 1 < i + 1 /\ i + 1 # 1
      /\ \A i \in DOMAIN u : i \in Int /\ (i # 1 => i - 1 >= 1)
      /\ 1 \in Int /\ 1 \in DOMAIN u
  BY <1>1
<1>3. /\ \A i \in DOMAIN u : i - 1 >= 1 => i - 1 \in DOMAIN s /\ (Fits(s, i - 1) => Fits(u, i))
      /\ \A i \in PumpsAt(u) : i - 1 >= 1 => i - 1 \in PumpsAt(s)
      /\ \A i \in PumpsAt(s) : i + 1 >= 1 => i + 1 \in PumpsAt(u)
  BY <1>1, <1>2, PumpShift
<1>4. PumpsAt(u) \subseteq DOMAIN u /\ PumpsAt(s) \subseteq DOMAIN s
  BY DEF PumpsAt
<1>5. Fits(u, 1)
  <2>1. ASSUME f.pc \in PumpPCs
        PROVE  1 = Len(u) \/ \E j \in DOMAIN u : 1 < j /\ u[j].pc \in StayPCs \cup {"alarmLoop"}
    <3>1. CASE s = <<>>
      BY <1>1, <3>1
    <3>2. CASE s # <<>>
      <4>1. PICK j \in DOMAIN s : s[j].pc \in StayPCs \cup {"alarmLoop"}
        BY <2>1, <3>2
      <4>2. j + 1 \in DOMAIN u /\ 1 < j + 1 /\ u[j + 1] = s[j]
        BY <1>1, <1>2
      <4> QED
        BY <4>1, <4>2
    <3> QED
      BY <3>1, <3>2
  <2>2. ASSUME f.pc = "handler"
        PROVE  \E j \in DOMAIN u : 1 < j /\ u[j].pc = "alarmLoop"
    <3>1. PICK j \in DOMAIN s : s[j].pc = "alarmLoop"
      BY <2>2 DEF Pumping, PumpsAt
    <3>2. j + 1 \in DOMAIN u /\ 1 < j + 1 /\ u[j + 1] = s[j]
      BY <1>1, <1>2
    <3> QED
      BY <3>1, <3>2
  <2> QED
    BY <1>1, <2>1, <2>2 DEF Fits
<1>6. \A i \in DOMAIN u : Fits(u, i)
  BY <1>2, <1>3, <1>5 DEF PumpOK
<1>7. 1 \in PumpsAt(u) <=> f.pc = "alarmLoop"
  BY <1>1, <1>2 DEF PumpsAt
<1>8. \A i \in PumpsAt(u) : i # 1 => i - 1 \in PumpsAt(s)
  BY <1>2, <1>3, <1>4
<1>9. \A i \in PumpsAt(s) : i + 1 \in PumpsAt(u)
  BY <1>2, <1>3, <1>4
<1>10. ASSUME NEW i \in PumpsAt(u), NEW j \in PumpsAt(u)
       PROVE  i = j
  <2>1. CASE f.pc = "alarmLoop"
    BY <1>8, <2>1 DEF Pumping
  <2>2. CASE f.pc # "alarmLoop"
    <3>1. i - 1 = j - 1
      BY <1>7, <1>8, <2>2 DEF PumpOK
    <3>2. i \in Int /\ j \in Int
      BY <1>2, <1>4
    <3> QED
      BY <3>1, <3>2
  <2> QED
    BY <2>1, <2>2
<1>11. Pumping(u) <=> Pumping(s) \/ f.pc = "alarmLoop"
  BY <1>7, <1>8, <1>9 DEF Pumping
<1> QED
  BY <1>1, <1>6, <1>10, <1>11 DEF PumpOK, u

\* Frames that do not pump.
LEMMA PumpPushed ==
    /\ Seq(PlainFrames) \subseteq Seq(LoopFree)
    /\ \A f \in PlainFrames : f \in LoopFree
    /\ \A pc \in StayPCs \cup {"sleep", "unlockAll"} : Frame(pc) \in LoopFree
    /\ \A q \in BlockQueues : OnQ("sleep", q) \in LoopFree
    /\ \A t \in Threads : On("unlockAll", t) \in LoopFree
    /\ <<>> \in Seq(LoopFree)
    /\ \A f \in LoopFree : <<f>> \in Seq(LoopFree)
    /\ \A f, g \in LoopFree : <<f, g>> \in Seq(LoopFree)
    /\ \A f, g, h \in LoopFree : <<f, g, h>> \in Seq(LoopFree)
<1>1. PlainFrames \subseteq LoopFree
  BY DEF PlainFrames, PlainPCs, LoopFree, PumpPCs
<1>2. ASSUME NEW pc \in StayPCs \cup {"sleep", "unlockAll"}
      PROVE  pc \in PCs /\ pc \notin PumpPCs \cup {"handler"}
  BY DEF PCs, StayPCs, PumpPCs
<1>3. \A pc \in StayPCs \cup {"sleep", "unlockAll"} : Frame(pc) \in LoopFree
  BY <1>2, PushedPCs DEF LoopFree
<1>4. \A q \in BlockQueues : OnQ("sleep", q) \in LoopFree
  BY <1>2, PushedPCs DEF LoopFree
<1>5. \A t \in Threads : On("unlockAll", t) \in LoopFree
  BY <1>2, PushedPCs DEF LoopFree
<1>6. Seq(PlainFrames) \subseteq Seq(LoopFree)
  BY <1>1, SeqSubset
<1> QED
  BY <1>1, <1>3, <1>4, <1>5, <1>6

\* Nothing pumps on an empty stack.
LEMMA PumpEmpty == PumpOK(<<>>) /\ ~Pumping(<<>>)
BY DEF PumpOK, Pumping, PumpsAt

\* The fiber on the CPU pumps as it did; other stacks stay, or are given up.
LEMMA PumpStep ==
    ASSUME KInv, AlarmInv, alarmDepth' = alarmDepth,
           PumpOK(stack'[host]), Pumping(stack'[host]) <=> Pumping(stack[host]),
           \A u \in Threads \ {host} : stack'[u] \in {stack[u], <<>>}
    PROVE  PumpKept
<1>1. host \in Threads
  BY SchedTypes
<1>2. \A u \in Threads : PumpOK(stack'[u]) /\ (Pumping(stack'[u]) => Pumping(stack[u]))
  BY <1>1, PumpEmpty DEF AlarmInv
<1>3. AlarmInv'
  <2>1. \A u \in Threads : PumpOK(stack'[u]) /\ (Pumping(stack'[u]) => alarmDepth' = 1)
    BY <1>2 DEF AlarmInv
  <2>2. \A t, u \in Threads : Pumping(stack'[t]) /\ Pumping(stack'[u]) => t = u
    BY <1>2 DEF AlarmInv
  <2> QED
    BY <2>1, <2>2 DEF AlarmInv
<1>4. ASSUME GuardAccounted, NoPumpCut
      PROVE  GuardAccounted'
  <2> SUFFICES ASSUME alarmDepth' # 0 PROVE \E t \in Threads : Pumping(stack'[t])
    BY DEF GuardAccounted, Pumping
  <2>1. PICK t \in Threads : Pumping(stack[t])
    BY <1>4 DEF GuardAccounted, Pumping
  <2>2. CASE t = host
    BY <2>1, <2>2
  <2>3. CASE t # host
    <3>1. stack'[t] = stack[t]
      BY <1>4, <2>1, <2>3 DEF NoPumpCut, Pumping
    <3> QED
      BY <2>1, <3>1
  <2> QED
    BY <2>2, <2>3
<1> QED
  BY <1>3, <1>4 DEF PumpKept

\* A step that neither pumps nor ends a pump.
LEMMA PumpChange ==
    ASSUME KInv, AlarmInv, NEW fs \in Seq(LoopFree), alarmDepth' = alarmDepth,
           \/ stack' = stack \/ Call(fs)
           \/ stack[host] # <<>> /\ ~At("alarmLoop") /\ (Return \/ Continue(fs))
    PROVE  PumpKept
<1>0. host \in Threads /\ stack \in [Threads -> Seq(GoodFrames)] /\ stack[host] \in Seq(Frames)
  BY SchedTypes
<1> DEFINE s == stack[host]
<1>1. PumpOK(s) /\ s \in Seq(Frames)
  BY <1>0 DEF AlarmInv
<1>2. \A u \in Threads \ {host} : stack'[u] = stack[u]
  BY <1>0 DEF Call, Return, Continue
<1>3. \/ stack'[host] = s \/ stack'[host] = fs \o s
      \/ s # <<>> /\ ~At("alarmLoop") /\ (stack'[host] = Tail(s) \/ stack'[host] = fs \o Tail(s))
  BY <1>0 DEF Call, Return, Continue
<1>4. ~At("alarmLoop") /\ s # <<>> => Head(s).pc # "alarmLoop"
  BY DEF At, Top
<1>5. PumpOK(fs \o s) /\ (Pumping(fs \o s) <=> Pumping(s))
  BY <1>1, PumpPush
<1>6. s # <<>> /\ ~At("alarmLoop") =>
        Tail(s) \in Seq(Frames) /\ PumpOK(Tail(s)) /\ (Pumping(Tail(s)) <=> Pumping(s))
  BY <1>1, <1>4, PumpPop
<1>7. s # <<>> /\ ~At("alarmLoop") =>
        PumpOK(fs \o Tail(s)) /\ (Pumping(fs \o Tail(s)) <=> Pumping(s))
  BY <1>6, PumpPush
<1>8. PumpOK(stack'[host]) /\ (Pumping(stack'[host]) <=> Pumping(s))
  BY <1>1, <1>3, <1>5, <1>6, <1>7
<1> QED
  BY <1>2, <1>8, PumpStep

\* The same of a plain step.
LEMMA PumpPlain ==
    ASSUME KInv, AlarmInv, Plain, alarmDepth' = alarmDepth, ~At("alarmLoop")
    PROVE  PumpKept
<1>1. PICK fs \in Seq(LoopFree) : \/ stack' = stack \/ Call(fs)
                                  \/ stack[host] # <<>> /\ (Return \/ Continue(fs))
  BY PumpPushed DEF Plain
<1> QED
  BY <1>1, PumpChange

\* The plain steps of the kernel, and the calls of guest code.
LEMMA PumpQuiet ==
    ASSUME KInv, AlarmInv,
           \/ FireTimer \/ FireDone \/ Reconcile \/ HealStrandedSleeper \/ SelectEnter
           \/ ScheduleReturn \/ IdleExit \/ Switched \/ WakeupThread \/ WakeDone \/ Reschedule
           \/ Exited \/ AlarmTail \/ Undefer \/ HandlerReturn
           \/ SleepThread \/ Slept \/ PromoteThreadPriority \/ PropagateMutexOwnerPriority
           \/ RelockMutex \/ SuspendThread \/ ResumeThread \/ Ticked \/ UnlockAllMutex \/ Joined
    PROVE  PumpKept
<1>1. Plain
  BY PlainKernel, PlainThread
<1>2. \A pc : At(pc) /\ pc # "alarmLoop" => ~At("alarmLoop")
  BY DEF At
<1>3. alarmDepth' = alarmDepth /\ ~At("alarmLoop")
  <2>1. CASE \/ FireTimer \/ FireDone \/ Reconcile \/ HealStrandedSleeper \/ SelectEnter
             \/ ScheduleReturn \/ IdleExit \/ Switched \/ WakeupThread \/ WakeDone \/ Reschedule
    BY <1>2, <2>1 DEF FireTimer, FireDone, Reconcile, HealStrandedSleeper, SelectEnter, ScheduleReturn,
         IdleExit, Switched, WakeupThread, WakeOne, WakeDone, Reschedule, alarmVars
  <2>2. CASE Exited \/ AlarmTail \/ Undefer \/ HandlerReturn \/ SleepThread \/ Slept
    BY <1>2, <2>2 DEF Exited, AlarmTail, Undefer, HandlerReturn, AtHandler, SleepThread, Slept, alarmVars
  <2>3. CASE PromoteThreadPriority \/ PropagateMutexOwnerPriority \/ RelockMutex \/ SuspendThread
    BY <1>2, <2>3 DEF PromoteThreadPriority, PropagateMutexOwnerPriority, RelockMutex, SuspendThread, alarmVars
  <2>4. CASE ResumeThread \/ Ticked \/ UnlockAllMutex \/ Joined
    BY <1>2, <2>4 DEF ResumeThread, Ticked, UnlockAllMutex, Joined, alarmVars
  <2> QED
    BY <2>1, <2>2, <2>3, <2>4
<1> QED
  BY <1>1, <1>3, PumpPlain

\* The plain calls of guest code.
LEMMA PumpCalls ==
    ASSUME KInv, AlarmInv,
           \/ \E m \in Mutexes : OSLockMutex(m) \/ OSUnlockMutex(m)
           \/ \E t \in Threads : OSDetachThread(t) \/ OSSuspendThread(t) \/ OSResumeThread(t)
           \/ \E w \in WaitQueues : OSWakeupThread(w)
           \/ \E a \in Alarms : OSSetAlarm(a) \/ OSSetPeriodicAlarm(a)
           \/ OSSleepTicks \/ OSYieldThread
    PROVE  PumpKept
<1>1. Plain
  BY PlainCalls
<1>2. alarmDepth' = alarmDepth /\ \E c : MayCall(c)
  BY DEF OSLockMutex, OSUnlockMutex, OSDetachThread, OSSuspendThread, OSResumeThread, OSWakeupThread,
         OSSetAlarm, OSSetPeriodicAlarm, SetAlarm, OSSleepTicks, OSYieldThread, alarmVars
<1>3. ~At("alarmLoop")
  BY <1>2 DEF MayCall, AtGuest, AtHandler, At
<1> QED
  BY <1>1, <1>2, <1>3, PumpPlain

\* The steps of SelectThread's idle loop, of mutexes, and the calls that block.
LEMMA PumpBlocks ==
    ASSUME KInv, AlarmInv,
           \/ ScheduleSwitch \/ IdlePump \/ LockMutex
           \/ \E w \in WaitQueues : OSSleepThread(w)
           \/ \E t \in Threads : OSJoinThread(t)
    PROVE  PumpKept
<1>0. /\ host \in Threads /\ timers \subseteq Threads /\ stack \in Stacks
      /\ owner \in [Mutexes -> Threads \cup {None}] /\ prio \in [Threads -> 0 .. MaxPrio + 1]
  BY SchedTypes, TypeStacks DEF KInv, TypeOK
<1>1. "idle" \in StayPCs /\ "idleAlarms" \in StayPCs
  BY DEF StayPCs
<1> USE PumpPushed, PlainPushed, PlainNames
<1>2. CASE ScheduleSwitch
  <2>1. /\ stack[host] # <<>> /\ ~At("alarmLoop") /\ alarmDepth' = alarmDepth
        /\ (Continue(<<Frame("pick")>>) \/ Continue(<<Frame("idle")>>))
    BY <1>2 DEF ScheduleSwitch, At, alarmVars
  <2> QED
    BY <1>1, <2>1, PumpChange
<1>3. CASE IdlePump
  <2>1. /\ stack[host] # <<>> /\ ~At("alarmLoop") /\ alarmDepth' = alarmDepth
        /\ \E due \in SUBSET Threads : Continue(<<Batch("fire", due), Frame("idleAlarms")>>)
    BY <1>0, <1>3 DEF IdlePump, At, TakeDue, alarmVars
  <2>2. \A due \in SUBSET Threads : Batch("fire", due) \in LoopFree
    OBVIOUS
  <2> QED
    BY <1>1, <2>1, <2>2, PumpChange
<1>4. CASE LockMutex
  <2> DEFINE t == Top.thr
             m == Top.mut
             fs == <<Promote(owner[m], prio[t]), OnQ("sleep", MutexQueue(m)), [Top EXCEPT !.pc = "relock"]>>
  <2>1. /\ stack[host] # <<>> /\ ~At("alarmLoop") /\ alarmDepth' = alarmDepth
        /\ (Return \/ Continue(fs))
    BY <1>4 DEF LockMutex, At, alarmVars
  <2>2. t \in Threads /\ m \in Mutexes /\ Top \in Frames
    BY <1>0, <1>4, TopType DEF LockMutex, NeedThread, NeedMutex
  <2>3. MutexQueue(m) \in BlockQueues
    BY <2>2, QueueFacts
  <2>4. Promote(owner[m], prio[t]) \in LoopFree /\ [Top EXCEPT !.pc = "relock"] \in LoopFree
    BY <1>0, <2>2
  <2>5. fs \in Seq(LoopFree)
    BY <2>3, <2>4
  <2> HIDE DEF fs
  <2> QED
    BY <2>1, <2>5, PumpChange
<1>5. ASSUME NEW w \in WaitQueues, OSSleepThread(w)
      PROVE  PumpKept
  <2>1. WaitQueue(w) \in BlockQueues /\ Call(<<OnQ("sleep", WaitQueue(w))>>)
    BY <1>5, QueueFacts DEF OSSleepThread
  <2>2. alarmDepth' = alarmDepth
    BY <1>5 DEF OSSleepThread, alarmVars
  <2> QED
    BY <2>1, <2>2, PumpChange
<1>6. ASSUME NEW t \in Threads, OSJoinThread(t)
      PROVE  PumpKept
  <2>1. JoinQueue(t) \in BlockQueues /\ On("joined", t) \in LoopFree
    BY QueueFacts
  <2>2. stack' = stack \/ Call(<<OnQ("sleep", JoinQueue(t)), On("joined", t)>>)
    BY <1>6 DEF OSJoinThread
  <2>3. alarmDepth' = alarmDepth
    BY <1>6 DEF OSJoinThread, alarmVars
  <2> QED
    BY <2>1, <2>2, <2>3, PumpChange
<1> QED
  BY <1>2, <1>3, <1>4, <1>5, <1>6

\* The end of FiberProc: the entry function of a thread returns.
LEMMA PumpReturns ==
    ASSUME KInv, AlarmInv, ThreadReturn \/ WakeNoSwitch \/ WakeNoSwitchDone \/ Returned
    PROVE  PumpKept
<1>0. host \in Threads /\ stack \in Stacks
  BY SchedTypes, TypeStacks DEF KInv
<1>1. {"wakeNoSwitch", "returned"} \subseteq PlainPCs
  BY DEF PlainPCs, PCs
<1>2. \A pc : At(pc) /\ pc # "alarmLoop" => stack[host] # <<>> /\ ~At("alarmLoop")
  BY DEF At
<1>3. CASE ThreadReturn
  <2>1. OnQ("wakeNoSwitch", JoinQueue(host)) \in LoopFree /\ On("returned", host) \in LoopFree
    BY <1>0, <1>1, QueueFacts, PlainPushed, PumpPushed
  <2>2. Call(<<OnQ("wakeNoSwitch", JoinQueue(host)), On("returned", host)>>) /\ alarmDepth' = alarmDepth
    BY <1>3 DEF ThreadReturn, alarmVars
  <2> QED
    BY <2>1, <2>2, PumpPushed, PumpChange
<1>4. CASE WakeNoSwitch
  <2>1. At("wakeNoSwitch") /\ alarmDepth' = alarmDepth
    BY <1>4 DEF WakeNoSwitch, WakeOne, alarmVars
  <2>2. [Top EXCEPT !.flag = TRUE] \in LoopFree
    <3>1. Top \in PlainFrames
      BY <1>0, <1>1, <2>1, TopType DEF PlainFrames, At
    <3> QED
      BY <3>1, PlainPushed, PumpPushed
  <2>3. stack' = stack \/ Continue(<<[Top EXCEPT !.flag = TRUE]>>)
    BY <1>4 DEF WakeNoSwitch, WakeOne
  <2> QED
    BY <1>2, <2>1, <2>2, <2>3, PumpPushed, PumpChange
<1>5. CASE WakeNoSwitchDone \/ Returned
  <2>1. (At("wakeNoSwitch") \/ At("returned")) /\ Return /\ alarmDepth' = alarmDepth
    BY <1>5 DEF WakeNoSwitchDone, Returned, alarmVars
  <2> QED
    BY <1>2, <2>1, PumpPushed, PumpChange
<1> QED
  BY <1>3, <1>4, <1>5

\* The calls that start a thread or end one: a stack that is given up may hold
\* a pump.
LEMMA PumpLives ==
    ASSUME KInv, AlarmInv, \/ \E t \in Threads : OSCreateThread(t) \/ OSCancelThread(t)
                           \/ OSExitThread
    PROVE  PumpKept
<1>0. host \in Threads /\ stack \in [Threads -> Seq(GoodFrames)] /\ stack[host] \in Seq(Frames)
  BY SchedTypes
<1>1. ASSUME NEW t \in Threads, OSCreateThread(t)
      PROVE  PumpKept
  <2>1. t # host /\ alarmDepth' = alarmDepth /\ stack' = [stack EXCEPT ![t] = <<>>]
    BY <1>1 DEF OSCreateThread, alarmVars
  <2>2. stack'[host] = stack[host] /\ \A u \in Threads \ {host} : stack'[u] \in {stack[u], <<>>}
    BY <1>0, <2>1
  <2>3. PumpOK(stack[host])
    BY <1>0 DEF AlarmInv
  <2> QED
    BY <2>1, <2>2, <2>3, PumpStep
<1>2. ASSUME NEW t \in Threads, NEW tail \in {"exited", "resched"}, TerminateThread(t, tail),
             alarmDepth' = alarmDepth
      PROVE  PumpKept
  <2> DEFINE fs == <<On("unlockAll", t), OnQ("wake", JoinQueue(t)), Frame(tail)>>
  <2>1. stack' = [u \in Threads |-> IF u = host THEN fs \o stack[u]
                                   ELSE IF u = t THEN <<>> ELSE stack[u]]
    BY <1>2 DEF TerminateThread, Terminating
  <2>2. fs \in Seq(LoopFree)
    <3>1. OnQ("wake", JoinQueue(t)) \in LoopFree /\ Frame(tail) \in LoopFree /\ On("unlockAll", t) \in LoopFree
      BY QueueFacts, PumpPushed, PlainPushed, PlainNames
    <3> QED
      BY <3>1, PumpPushed
  <2> HIDE DEF fs
  <2>3. stack'[host] = fs \o stack[host] /\ \A u \in Threads \ {host} : stack'[u] \in {stack[u], <<>>}
    BY <1>0, <2>1
  <2>4. PumpOK(fs \o stack[host]) /\ (Pumping(fs \o stack[host]) <=> Pumping(stack[host]))
    BY <1>0, <2>2, PumpPush DEF AlarmInv
  <2> QED
    BY <1>2, <2>3, <2>4, PumpStep
<1>3. ASSUME NEW t \in Threads, OSCancelThread(t)
      PROVE  PumpKept
  <2>1. TerminateThread(t, "resched") /\ alarmDepth' = alarmDepth
    BY <1>3 DEF OSCancelThread, alarmVars
  <2> QED
    BY <1>2, <2>1
<1>4. CASE OSExitThread
  <2>1. TerminateThread(running, "exited") /\ alarmDepth' = alarmDepth /\ running \in Threads
    BY <1>4, SchedTypes DEF OSExitThread, alarmVars
  <2> QED
    BY <1>2, <2>1
<1> QED
  BY <1>1, <1>3, <1>4

\* A pump is called, on top of guest code or of a frame that stays, or from a
\* handler, below which is a pump.
LEMMA PumpEnters ==
    ASSUME KInv, AlarmInv, OSProcessAlarms \/ OSProcessAlarmsDeferred \/ IdleAlarms
    PROVE  PumpKept
<1> DEFINE s == stack[host]
           r == Tail(s)
<1>0. host \in Threads /\ stack \in [Threads -> Seq(GoodFrames)] /\ s \in Seq(Frames)
  BY SchedTypes
<1>1. PumpOK(s)
  BY <1>0 DEF AlarmInv
<1>2. alarmDepth' = alarmDepth
  BY DEF OSProcessAlarms, OSProcessAlarmsDeferred, IdleAlarms, alarmVars
<1>3. \A u \in Threads \ {host} : stack'[u] = stack[u]
  BY <1>0 DEF OSProcessAlarms, OSProcessAlarmsDeferred, IdleAlarms, Continue, Call
<1>4. SUFFICES PumpOK(stack'[host]) /\ (Pumping(stack'[host]) <=> Pumping(s))
  BY <1>2, <1>3, PumpStep
<1>5. /\ Frame("alarms") \in Frames /\ Frame("alarms").pc = "alarms" /\ "alarms" \in PumpPCs
      /\ \A pc \in StayPCs : Frame(pc) \in Frames /\ Frame(pc).pc = pc
  BY PushedPCs DEF PCs, StayPCs, PumpPCs
<1>6. ASSUME NEW q \in Seq(Frames), PumpOK(q), NEW pc \in StayPCs
      PROVE  LET u == <<Frame("alarms"), Frame(pc)>> \o q IN PumpOK(u) /\ (Pumping(u) <=> Pumping(q))
  <2> DEFINE a == Frame("alarms")
             g == Frame(pc)
             b == <<g>> \o q
  <2>1. a \in Frames /\ a.pc = "alarms" /\ g \in Frames /\ g.pc \in StayPCs /\ <<g>> \in Seq(LoopFree)
    BY <1>5, PumpPushed
  <2> HIDE DEF a, g
  <2>2. b \in Seq(Frames) /\ 1 \in DOMAIN b /\ b[1] = g
    BY <2>1
  <2>3. PumpOK(b) /\ (Pumping(b) <=> Pumping(q))
    BY <1>6, <2>1, PumpPush
  <2>4. <<a, g>> \o q = <<a>> \o b
    BY <1>6, PushedTwo
  <2> HIDE DEF b
  <2>5. PumpOK(<<a>> \o b) /\ (Pumping(<<a>> \o b) <=> Pumping(b))
    BY <1>5, <2>1, <2>2, <2>3, PumpTop
  <2> QED
    BY <2>3, <2>4, <2>5 DEF a, g
<1>7. CASE OSProcessAlarms
  <2>1. stack'[host] = <<Frame("alarms")>> \o s /\ (AtGuest \/ AtHandler)
    BY <1>0, <1>7 DEF OSProcessAlarms, Call, MayCall
  <2>2. ASSUME AtHandler
        PROVE  \E j \in DOMAIN s : s[j].pc = "alarmLoop"
    <3>1. 1 \in DOMAIN s /\ s[1].pc = "handler"
      BY <1>0, <2>2 DEF AtHandler, At, Top
    <3> QED
      BY <1>1, <3>1 DEF PumpOK, Fits
  <2>3. s = <<>> \/ \E j \in DOMAIN s : s[j].pc \in StayPCs \cup {"alarmLoop"}
    BY <2>1, <2>2 DEF AtGuest
  <2> HIDE DEF s
  <2> QED
    BY <1>0, <1>1, <1>5, <2>1, <2>3, PumpTop
<1>8. CASE OSProcessAlarmsDeferred
  <2>1. stack'[host] = <<Frame("alarms"), Frame("undefer")>> \o s /\ "undefer" \in StayPCs
    BY <1>0, <1>8 DEF OSProcessAlarmsDeferred, Call, StayPCs
  <2> QED
    BY <1>0, <1>1, <1>6, <2>1
<1>9. CASE IdleAlarms
  <2>1. s # <<>> /\ Head(s).pc # "alarmLoop"
    BY <1>9 DEF IdleAlarms, At, Top
  <2>2. r \in Seq(Frames) /\ PumpOK(r) /\ (Pumping(r) <=> Pumping(s))
    BY <1>0, <1>1, <2>1, PumpPop
  <2>3. stack'[host] = <<Frame("alarms"), Frame("idle")>> \o r \/ stack'[host] = <<Frame("idle")>> \o r
    BY <1>0, <1>9 DEF IdleAlarms, Continue
  <2>4. "idle" \in StayPCs /\ <<Frame("idle")>> \in Seq(LoopFree)
    BY PumpPushed DEF StayPCs
  <2> HIDE DEF r
  <2>5. PumpOK(<<Frame("idle")>> \o r) /\ (Pumping(<<Frame("idle")>> \o r) <=> Pumping(r))
    BY <2>2, <2>4, PumpPush
  <2> DEFINE v == <<Frame("alarms"), Frame("idle")>> \o r
  <2>6. PumpOK(v) /\ (Pumping(v) <=> Pumping(r))
    BY <1>6, <2>2, <2>4
  <2> HIDE DEF s, v
  <2>7. stack'[host] = v \/ stack'[host] = <<Frame("idle")>> \o r
    BY <2>3 DEF v
  <2> QED
    BY <2>2, <2>5, <2>6, <2>7
<1> QED
  BY <1>7, <1>8, <1>9

\* The pump calls a handler.
LEMMA PumpFires ==
    ASSUME KInv, AlarmInv, FireAlarm
    PROVE  PumpKept
<1> DEFINE s == stack[host]
           h == Frame("handler")
           a == Frame("alarmTail")
           b == <<a>> \o s
<1>0. host \in Threads /\ stack \in [Threads -> Seq(GoodFrames)] /\ s \in Seq(Frames)
  BY SchedTypes
<1>1. /\ alarmDepth' = alarmDepth /\ stack'[host] = <<h, a>> \o s
      /\ \A u \in Threads \ {host} : stack'[u] = stack[u]
  BY <1>0 DEF FireAlarm, Call
<1>2. PumpOK(s) /\ Pumping(s)
  <2>1. PumpOK(s)
    BY <1>0 DEF AlarmInv
  <2>2. s # <<>> /\ Head(s).pc = "alarmLoop"
    BY DEF FireAlarm, At, Top
  <2> HIDE DEF s
  <2> QED
    BY <1>0, <2>1, <2>2, PumpPop
<1>3. h \in Frames /\ h.pc = "handler" /\ a \in Frames /\ <<a>> \in Seq(LoopFree)
  BY PushedPCs, PlainPushed, PlainNames, PumpPushed DEF PCs
<1>4. <<h, a>> \o s = <<h>> \o b /\ b \in Seq(Frames)
  BY <1>0, <1>3, PushedTwo
<1> HIDE DEF h, a, s
<1>5. PumpOK(b) /\ Pumping(b)
  BY <1>0, <1>2, <1>3, PumpPush
<1> HIDE DEF b
<1>6. PumpOK(<<h>> \o b) /\ Pumping(<<h>> \o b)
  BY <1>3, <1>4, <1>5, PumpTop DEF PumpPCs
<1> QED
  BY <1>1, <1>2, <1>4, <1>6, PumpStep DEF s

\* ProcessAlarmQueue goes up the guard when nobody pumps, and down it when it
\* was this fiber that pumped.
LEMMA PumpGuards ==
    ASSUME KInv, AlarmInv, ProcessAlarmQueue \/ AlarmsDone
    PROVE  PumpKept
<1> DEFINE s == stack[host]
           r == Tail(s)
           f == Frame("alarmLoop")
<1>0. host \in Threads /\ stack \in [Threads -> Seq(GoodFrames)] /\ s \in Seq(Frames)
  BY SchedTypes
<1>1. PumpOK(s) /\ s # <<>>
  BY <1>0 DEF AlarmInv, ProcessAlarmQueue, AlarmsDone, At
<1>2. \A u \in Threads \ {host} : stack'[u] = stack[u]
  BY <1>0 DEF ProcessAlarmQueue, AlarmsDone, Return, Continue
<1>3. /\ r \in Seq(Frames) /\ PumpOK(r)
      /\ Pumping(r) <=> Pumping(s) /\ Head(s).pc # "alarmLoop"
      /\ Head(s).pc = "alarmLoop" => Pumping(s)
  BY <1>0, <1>1, PumpPop
<1>4. CASE ProcessAlarmQueue /\ alarmDepth # 0
  <2>1. alarmDepth' = alarmDepth /\ stack'[host] = r /\ Head(s).pc # "alarmLoop"
    BY <1>0, <1>4 DEF ProcessAlarmQueue, Return, At, Top
  <2> QED
    BY <1>2, <1>3, <2>1, PumpStep
<1>5. CASE ProcessAlarmQueue /\ alarmDepth = 0
  <2>1. alarmDepth' = 1 /\ stack'[host] = <<f>> \o r /\ Head(s).pc = "alarms"
    BY <1>0, <1>5 DEF ProcessAlarmQueue, Continue, At, Top
  <2>2. \A u \in Threads : ~Pumping(stack[u])
    BY <1>5 DEF AlarmInv
  <2>3. f \in Frames /\ f.pc = "alarmLoop" /\ "alarmLoop" \in PumpPCs /\ "alarms" \in PumpPCs
    BY PushedPCs DEF PCs, PumpPCs
  <2>4. r = <<>> \/ \E j \in DOMAIN r : r[j].pc \in StayPCs \cup {"alarmLoop"}
    <3>1. 1 \in DOMAIN s /\ s[1] = Head(s) /\ (1 = Len(s) => r = <<>>)
      <4>1. s[1] = Head(s) /\ 1 \in DOMAIN s /\ r \in Seq(Frames) /\ Len(r) = Len(s) - 1
        BY <1>0, <1>1
      <4> HIDE DEF r
      <4>2. 1 = Len(s) => Len(r) = 0
        BY <4>1
      <4>3. Len(r) = 0 => r = <<>>
        BY <4>1
      <4> QED
        BY <4>1, <4>2, <4>3
    <3>2. CASE 1 = Len(s)
      BY <3>1, <3>2
    <3>3. CASE 1 # Len(s)
      <4>1. PICK j \in DOMAIN s : 1 < j /\ s[j].pc \in StayPCs \cup {"alarmLoop"}
        BY <1>1, <2>1, <2>3, <3>1, <3>3 DEF PumpOK, Fits
      <4>2. /\ DOMAIN s = 1 .. Len(s) /\ DOMAIN r = 1 .. Len(s) - 1 /\ Len(s) \in Nat
            /\ \A i \in DOMAIN r : r[i] = s[i + 1]
        BY <1>0, <1>1
      <4>3. j - 1 \in DOMAIN r /\ (j - 1) + 1 = j
        BY <4>1, <4>2
      <4>4. r[j - 1] = s[j]
        BY <4>2, <4>3
      <4> QED
        BY <4>1, <4>3, <4>4
    <3> QED
      BY <3>2, <3>3
  <2>5. ~Pumping(s)
    BY <1>0, <2>2
  <2> HIDE DEF r, f, s
  <2>6. PumpOK(<<f>> \o r) /\ Pumping(<<f>> \o r)
    BY <1>3, <2>3, <2>4, <2>5, PumpTop
  <2>7. \A u \in Threads : PumpOK(stack'[u]) /\ (Pumping(stack'[u]) <=> u = host)
    BY <1>0, <1>2, <2>1, <2>2, <2>6 DEF AlarmInv
  <2> QED
    BY <1>0, <2>1, <2>7 DEF PumpKept, AlarmInv, GuardAccounted, Pumping
<1>6. CASE AlarmsDone
  <2>1. Head(s).pc = "alarmLoop" /\ alarmDepth' = alarmDepth - 1 /\ stack'[host] = r
    BY <1>0, <1>6 DEF AlarmsDone, At, Top, Return
  <2>2. alarmDepth' = 0 /\ \A u \in Threads \ {host} : ~Pumping(stack[u])
    BY <1>0, <1>3, <2>1 DEF AlarmInv
  <2> HIDE DEF r, s
  <2>3. \A u \in Threads : PumpOK(stack'[u]) /\ ~Pumping(stack'[u])
    BY <1>2, <1>3, <2>1, <2>2 DEF AlarmInv
  <2> QED
    BY <2>2, <2>3 DEF PumpKept, AlarmInv, GuardAccounted
<1> QED
  BY <1>4, <1>5, <1>6

\* A switch of fibers takes no pump with it.
LEMMA PumpSwitch ==
    ASSUME KInv, AlarmInv, PickThread
    PROVE  PumpKept
<1> DEFINE g == On("switched", fiberThread)
<1>1. g \in LoopFree /\ <<g>> \in Seq(LoopFree)
  <2>1. fiberThread \in Threads \cup {None}
    BY DEF KInv, TypeOK
  <2> QED
    BY <2>1, PlainPushed, PlainNames, PumpPushed
<1>2. /\ stack[host] # <<>> /\ ~At("alarmLoop") /\ alarmDepth' = alarmDepth
      /\ stack' = stack \/ Return \/ Continue(<<g>>)
  BY DEF PickThread, SwitchToThread, At, alarmVars
<1> QED
  BY <1>1, <1>2, PumpChange

\* Every step keeps the invariant of the pump; and the guard stays accounted
\* for, unless the step gives up a pump.
LEMMA NextAlarm ==
    KInv /\ AlarmInv /\ [Next]_vars =>
      AlarmInv' /\ (GuardAccounted /\ [NoPumpCut]_vars => GuardAccounted')
<1> SUFFICES ASSUME KInv, AlarmInv, [Next]_vars
             PROVE  AlarmInv' /\ (GuardAccounted /\ [NoPumpCut]_vars => GuardAccounted')
  OBVIOUS
<1>1. CASE UNCHANGED vars
  <2>1. UNCHANGED <<stack, alarmDepth>>
    BY <1>1 DEF vars
  <2> QED
    BY <2>1 DEF AlarmInv, GuardAccounted
<1>2. KernelStep => PumpKept
  BY PumpQuiet, PumpBlocks, PumpReturns, PumpEnters, PumpFires, PumpGuards, PumpSwitch
     DEF KernelStep
<1>3. GuestStep => PumpKept
  <2>1. ASSUME \/ \E m \in Mutexes : OSLockMutex(m) \/ OSUnlockMutex(m)
               \/ \E t \in Threads : \/ OSCreateThread(t) \/ OSCancelThread(t) \/ OSJoinThread(t)
                                     \/ OSDetachThread(t) \/ OSSuspendThread(t) \/ OSResumeThread(t)
               \/ \E w \in WaitQueues : OSSleepThread(w) \/ OSWakeupThread(w)
               \/ \E a \in Alarms : OSSetAlarm(a) \/ OSSetPeriodicAlarm(a)
        PROVE  PumpKept
    BY <2>1, PumpCalls, PumpBlocks, PumpLives
  <2>2. ASSUME \/ OSSleepTicks \/ OSYieldThread \/ OSExitThread \/ ThreadReturn
               \/ OSProcessAlarms \/ OSProcessAlarmsDeferred \/ HandlerReturn
        PROVE  PumpKept
    BY <2>2, PumpQuiet, PumpCalls, PumpReturns, PumpEnters, PumpLives
  <2> QED
    BY <2>1, <2>2 DEF GuestStep
<1>4. CASE Next /\ ~UNCHANGED vars
  BY <1>2, <1>3, <1>4 DEF Next, PumpKept
<1> QED
  BY <1>1, <1>4

\* Nothing pumps when the kernel starts.
LEMMA InitAlarm == Init => AlarmInv /\ GuardAccounted
<1> SUFFICES ASSUME Init PROVE AlarmInv /\ GuardAccounted
  OBVIOUS
<1>1. alarmDepth = 0 /\ \A u \in Threads : stack[u] = <<>>
  BY DEF Init
<1>2. \A u \in Threads : PumpOK(stack[u]) /\ ~Pumping(stack[u])
  BY <1>1, PumpEmpty
<1> QED
  BY <1>1, <1>2 DEF AlarmInv, GuardAccounted

\* The invariant holds of every guest.
LEMMA AlarmInvariance == Spec => [](KInv /\ AlarmInv)
<1>1. KInv /\ AlarmInv /\ [Next]_vars => KInv' /\ AlarmInv'
  BY NextInv, NextAlarm
<1> QED
  BY <1>1, InitInv, InitAlarm, PTL DEF Spec

\* What the invariant says of the pumps.
LEMMA PumpSound ==
    ASSUME AlarmInv
    PROVE  OneAlarmPump
<1> SUFFICES ASSUME NEW t \in Threads, NEW u \in Threads,
                    NEW i \in PumpsAt(stack[t]), NEW j \in PumpsAt(stack[u])
             PROVE  alarmDepth = 1 /\ t = u /\ i = j
  BY DEF OneAlarmPump
<1>1. Pumping(stack[t]) /\ Pumping(stack[u])
  BY DEF Pumping
<1>2. alarmDepth = 1 /\ t = u
  BY <1>1 DEF AlarmInv
<1> QED
  BY <1>2 DEF AlarmInv, PumpOK

\* A fiber that is not on the CPU pumps as the first thing it called, if at all.
LEMMA PumpLeft ==
    ASSUME KInv, SchedInv, AlarmInv
    PROVE  PumpLeftDirectly
<1> SUFFICES ASSUME NEW t \in Threads \ {host}, NEW i \in PumpsAt(stack[t])
             PROVE  i = Len(stack[t])
  BY DEF PumpLeftDirectly
<1> DEFINE s == stack[t]
<1>1. PumpOK(s) /\ i \in DOMAIN s /\ s[i].pc = "alarmLoop"
  BY DEF AlarmInv, PumpsAt
<1>2. \A j \in DOMAIN s : s[j].pc \notin StayPCs
  BY DEF SchedInv, ControlOK, OtherOK, Ordinary, Deferring, Unready, StayPCs
<1>3. DOMAIN s \subseteq Int
  <2>1. s \in Seq(Frames)
    BY SchedTypes
  <2> QED
    BY <2>1
<1> HIDE DEF s
<1>4. ASSUME i # Len(s)
      PROVE  FALSE
  <2>1. PICK j \in DOMAIN s : i < j /\ s[j].pc \in StayPCs \cup {"alarmLoop"}
    BY <1>1, <1>4 DEF PumpOK, Fits, PumpPCs
  <2>2. j \in PumpsAt(s) /\ i \in PumpsAt(s)
    BY <1>1, <1>2, <2>1 DEF PumpsAt
  <2>3. i = j
    BY <1>1, <2>2 DEF PumpOK
  <2> QED
    BY <1>1, <1>3, <2>1, <2>3
<1> QED
  BY <1>4 DEF s

\* OneAlarmPump, for every guest, also one that cancels threads in the middle of
\* a pump or pumps from its handlers: the alarm queue is never dispatched from
\* two places, on one fiber or on two, and the guard is up during the dispatch.
THEOREM OnePump == Spec => []OneAlarmPump
<1>1. KInv /\ AlarmInv => OneAlarmPump
  BY PumpSound
<1> QED
  BY <1>1, AlarmInvariance, PTL

\* PumpGuarded, for every instance, direct pumps from guest code and from alarm
\* handlers included, in which no thread is cancelled in the middle of its pump:
\* the guard is up exactly while one fiber pumps, and is carried across a switch
\* of fibers by a direct pump only, never by a deferred one or the idle loop.
THEOREM GuardOfOnePump ==
    GuestContract => (Spec /\ CreatesFresh /\ PumpsUncut => []PumpGuarded)
<1> SUFFICES ASSUME GuestContract PROVE Spec /\ CreatesFresh /\ PumpsUncut => []PumpGuarded
  OBVIOUS
<1>1. KInv /\ AlarmInv /\ GuardAccounted /\ [Next]_vars /\ [NoPumpCut]_vars => GuardAccounted'
  BY NextAlarm
<1>2. Spec /\ PumpsUncut => []GuardAccounted
  BY <1>1, AlarmInvariance, InitAlarm, PTL DEF Spec, PumpsUncut
<1>3. KInv /\ SchedInv /\ AlarmInv /\ GuardAccounted => PumpGuarded
  BY PumpSound, PumpLeft DEF PumpGuarded
<1> QED
  BY <1>2, <1>3, AlarmInvariance, SchedInvariance, PTL

=============================================================================
