-------------------------- MODULE EventChainProofs --------------------------
(***************************************************************************)
(* Proofs about the semaphore for every finite set of threads, and about   *)
(* the events of a thread, for any posters, kinds and masks, any number of *)
(* posts, and whether or not waits may end by themselves: first of the     *)
(* thread on the set of its events, then of its list as it is, behind its  *)
(* lock as it is.                                                          *)
(***************************************************************************)
EXTENDS EventChain, FiniteSetTheorems, WellFoundedInduction, TLAPS

----------------------------------------------------------------------------
(* The semaphore.  All but the last theorem need a pthread_cond_wait that    *)
(* returns only when it was signalled, as a run of SpuriousSpec shows.       *)

\* A thread that starts to use the semaphore makes the number of users grow by
\* one, a thread that stops makes it shrink by one.
LEMMA UsersCount ==
  ASSUME NEW S \in SUBSET Threads
  PROVE  /\ IsFiniteSet(S) /\ Cardinality(S) \in Nat
         /\ (Cardinality(S) = 0) <=> (S = {})
         /\ \A t \in Threads \ S : Cardinality(S \cup {t}) = Cardinality(S) + 1
         /\ \A t \in S : Cardinality(S \ {t}) = Cardinality(S) - 1
<1>1. IsFiniteSet(S)
  BY FS_Subset, SemAssumption
<1> QED
  BY <1>1, FS_CardinalityType, FS_EmptySet, FS_AddElement, FS_RemoveElement

LEMMA InitIInv == SemInit => SemIInv
BY UsersCount DEF SemInit, SemIInv, Counted, SemTypeOK, InUse

\* The invariant is inductive.  The counter is what decides between the
\* branches of Acquire and Release, so each step reads it as a set of users.
LEMMA StepIInv ==
  ASSUME SemIInv, [SemNext]_semVars
  PROVE  SemIInv'
<1> USE DEF SemIInv, Counted, SemTypeOK, InUse
<1>u. InUse \in SUBSET Threads
  OBVIOUS
<1>1. ASSUME NEW t \in Threads, AcquireFree(t) PROVE SemIInv'
  <2>1. InUse = {}
    BY <1>1, <1>u, UsersCount DEF AcquireFree
  <2>2. InUse' = InUse \cup {t} /\ t \in Threads \ InUse
    BY <1>1 DEF AcquireFree, Idle
  <2>3. Cardinality(InUse \cup {t}) = Cardinality(InUse) + 1
    BY <1>u, <2>2, UsersCount
  <2>4. mNbThreads' = Cardinality(InUse')
    BY <1>1, <2>2, <2>3 DEF AcquireFree
  <2> QED
    BY <1>1, <2>1, <2>4 DEF AcquireFree
<1>2. ASSUME NEW t \in Threads, AcquireWait(t) PROVE SemIInv'
  <2>1. InUse # {}
    BY <1>2, <1>u, UsersCount DEF AcquireWait
  <2>2. InUse' = InUse \cup {t} /\ t \in Threads \ InUse
    BY <1>2 DEF AcquireWait, Idle
  <2>3. mNbThreads' = Cardinality(InUse')
    BY <1>2, <1>u, <2>2, UsersCount DEF AcquireWait
  <2> QED
    BY <1>2, <2>1, <2>3 DEF AcquireWait, Idle
<1>3. ASSUME NEW t \in Threads, AcquireReturn(t) PROVE SemIInv'
  <2>1. InUse' = InUse
    BY <1>3 DEF AcquireReturn
  <2> QED
    BY <1>3, <2>1 DEF AcquireReturn
<1>4. ASSUME NEW t \in Threads, Release(t) PROVE SemIInv'
  <2>1. woken = {} /\ owners = {t} /\ t \notin waiting
    BY <1>4 DEF Release
  <2>2. /\ InUse \ {t} = waiting
        /\ mNbThreads - 1 = Cardinality(waiting)
        /\ mNbThreads - 1 \in Nat
        /\ (mNbThreads - 1 > 0) <=> waiting # {}
    BY <1>u, <2>1, UsersCount
  <2>3. CASE waiting = {}
    <3>1. waiting' = {} /\ woken' = {} /\ owners' = {}
      BY <1>4, <2>1, <2>2, <2>3 DEF Release
    <3>2. InUse' = waiting
      BY <2>3, <3>1
    <3>3. mNbThreads' = mNbThreads - 1
      BY <1>4 DEF Release
    <3>4. mNbThreads' = Cardinality(InUse')
      BY <2>2, <3>2, <3>3
    <3> QED
      BY <2>2, <3>1, <3>3, <3>4
  <2>4. CASE waiting # {}
    <3>1. PICK w \in waiting : waiting' = waiting \ {w} /\ woken' = {w}
      BY <1>4, <2>1, <2>2, <2>4 DEF Release, Signal
    <3>2. InUse' = waiting /\ owners' = {}
      BY <1>4, <2>1, <3>1 DEF Release
    <3> QED
      BY <1>4, <2>1, <2>2, <3>1, <3>2, UsersCount DEF Release
  <2> QED
    BY <2>3, <2>4
<1>5. ASSUME UNCHANGED semVars PROVE SemIInv'
  BY <1>5 DEF semVars
<1> QED
  BY <1>1, <1>2, <1>3, <1>4, <1>5 DEF SemNext, ThreadStep

THEOREM Invariance == SemSpec => []SemIInv
BY InitIInv, StepIInv, PTL DEF SemSpec

\* At most one thread is ever past Acquire, however many threads compete.
THEOREM Mutex == SemSpec => []MutualExclusion
<1>1. SemIInv => MutualExclusion
  BY DEF SemIInv, MutualExclusion
<1> QED
  BY <1>1, Invariance, PTL

\* Threads never all wait for a semaphore nobody holds: no signal is missed.
THEOREM HandOver == SemSpec => []NoLostHandOver
<1>1. SemIInv => NoLostHandOver
  BY DEF SemIInv, NoLostHandOver
<1> QED
  BY <1>1, Invariance, PTL

\* No barging: Acquire returns at once only when nobody queues or was called.
THEOREM Fifoness == SemSpec => NoBarging
<1>1. ASSUME SemIInv, NEW t \in Threads, AcquireFree(t)
      PROVE  waiting = {} /\ woken = {}
  <2>1. InUse \in SUBSET Threads /\ mNbThreads = Cardinality(InUse) /\ mNbThreads \in Nat
    BY <1>1 DEF SemIInv, Counted, SemTypeOK, InUse
  <2>2. InUse = {}
    BY <1>1, <2>1, UsersCount DEF AcquireFree
  <2> QED
    BY <2>2 DEF InUse
<1>2. SemIInv /\ [SemNext]_semVars =>
        [\A t \in Threads : AcquireFree(t) => waiting = {} /\ woken = {}]_semVars
  BY <1>1
<1> QED
  BY <1>2, Invariance, PTL DEF SemSpec, NoBarging

\* The semaphore implements the abstract lock: each of its steps lets a client
\* in, queues it or lets it out, or is invisible to the clients.
THEOREM Refinement == SemSpec => ImplementsLock
<1> USE DEF Lock!lvars
<1>1. SemInit => Lock!LockInit
  BY DEF SemInit, Lock!LockInit
<1>2. ASSUME SemIInv, [SemNext]_semVars PROVE [Lock!LockNext]_(Lock!lvars)
  <2> USE <1>2 DEF SemIInv, Counted, SemTypeOK, InUse
  <2>1. ASSUME NEW t \in Threads, AcquireFree(t) PROVE Lock!EnterAtOnce(t)
    BY <2>1, UsersCount DEF AcquireFree, Lock!EnterAtOnce
  <2>2. ASSUME NEW t \in Threads, AcquireWait(t) PROVE Lock!Ask(t)
    BY <2>2 DEF AcquireWait, Idle, Lock!Ask
  <2>3. ASSUME NEW t \in Threads, AcquireReturn(t) PROVE Lock!LetIn(t)
    BY <2>3 DEF AcquireReturn, Lock!LetIn
  <2>4. ASSUME NEW t \in Threads, Release(t) PROVE Lock!Leave(t)
    BY <2>4 DEF Release, Signal, Lock!Leave
  <2> QED
    BY <2>1, <2>2, <2>3, <2>4
    DEF SemNext, ThreadStep, semVars, Lock!LockNext
<1> QED
  BY <1>1, <1>2, Invariance, PTL DEF SemSpec, ImplementsLock, Lock!LockSpec

-----------------------------------------------------------------------------
(* The counter, on any platform.                                           *)

LEMMA StepCounted ==
  ASSUME Counted, [SpuriousNext]_semVars
  PROVE  Counted'
<1> USE DEF Counted, SemTypeOK, InUse
<1>u. InUse \in SUBSET Threads
  OBVIOUS
<1>1. ASSUME NEW t \in Threads, AcquireFree(t) \/ AcquireWait(t) PROVE Counted'
  <2>1. InUse' = InUse \cup {t} /\ t \in Threads \ InUse
    BY <1>1 DEF AcquireFree, AcquireWait, Idle
  <2>2. mNbThreads' = Cardinality(InUse')
    BY <1>1, <1>u, <2>1, UsersCount DEF AcquireFree, AcquireWait
  <2>3. mNbThreads' \in Nat
    BY <1>1 DEF AcquireFree, AcquireWait
  <2> QED
    BY <1>1, <2>2, <2>3 DEF AcquireFree, AcquireWait, Idle
<1>2. ASSUME NEW t \in Threads, AcquireReturn(t) \/ SpuriousWakeUp(t) PROVE Counted'
  <2>1. InUse' = InUse
    BY <1>2 DEF AcquireReturn, SpuriousWakeUp
  <2> QED
    BY <1>2, <2>1 DEF AcquireReturn, SpuriousWakeUp
<1>3. ASSUME NEW t \in Threads, Release(t) PROVE Counted'
  <2>1. InUse' = InUse \ {t} /\ t \in InUse
    BY <1>3 DEF Release, Signal
  <2>2. mNbThreads' = mNbThreads - 1
    BY <1>3 DEF Release
  <2>3. Cardinality(InUse \ {t}) = Cardinality(InUse) - 1
    BY <1>u, <2>1, UsersCount
  <2>4. mNbThreads' = Cardinality(InUse')
    BY <2>1, <2>2, <2>3
  <2>5. mNbThreads' \in Nat
    <3>1. InUse \ {t} \in SUBSET Threads
      BY <1>u
    <3> QED
      BY <2>1, <2>4, <3>1, UsersCount
  <2> QED
    BY <1>3, <2>4, <2>5 DEF Release, Signal
<1>4. ASSUME UNCHANGED semVars PROVE Counted'
  BY <1>4 DEF semVars
<1> QED
  BY <1>1, <1>2, <1>3, <1>4 DEF SpuriousNext, SemNext, ThreadStep

\* The counter is zero exactly when nobody uses or wants the semaphore, also if
\* waits end by themselves: the destructor throws only on a semaphore in use.
THEOREM BusyAlways == SpuriousSpec => []BusyIsTrue
<1>1. SemInit => Counted
  BY UsersCount DEF SemInit, Counted, SemTypeOK, InUse
<1>2. Counted => BusyIsTrue
  BY UsersCount DEF Counted, SemTypeOK, InUse, BusyIsTrue, Idle
<1> QED
  BY <1>1, <1>2, StepCounted, PTL DEF SpuriousSpec

----------------------------------------------------------------------------
(* The thread and its events *)

LEMMA InitEventIInv == Init => IInv
BY EventAssumption
DEF Init, IInv, TypeOK, SleepInit, SleepTypeOK, WillLookAgain, Matching

\* The invariant is inductive.  Each step that brings the thread closer to
\* sleep finds a reason to look again or makes sure that none is needed: the
\* posters are counted among the reasons between their append and their WakeUp.
LEMMA StepEventIInv ==
  ASSUME IInv, [Next]_vars
  PROVE  IInv'
<1> USE EventAssumption DEF IInv, TypeOK, SleepTypeOK
<1>1. ASSUME NEW p \in Posters, AppendEvent(p) PROVE IInv'
  <2>1. p \in Wakers'
    BY <1>1 DEF AppendEvent, Wakers
  <2>2. TypeOK'
    BY <1>1 DEF AppendEvent, sleepVars, callVars, Event
  <2> QED
    BY <1>1, <2>1, <2>2 DEF AppendEvent, WillLookAgain, sleepVars, callVars
<1>2. ASSUME NEW p \in Posters, PostWakeUp(p) PROVE IInv'
  <2>1. TypeOK'
    BY <1>2 DEF PostWakeUp, WakeUp, listVars, callVars
  <2>2. waiterPc' = "sleep" => mWakeCount' > 0
    BY <1>2 DEF PostWakeUp, WakeUp
  <2>3. waiterPc' = "asleep" => waitEnd' # "no"
    BY <1>2 DEF PostWakeUp, WakeUp
  <2> QED
    BY <1>2, <2>1, <2>2, <2>3 DEF PostWakeUp, WakeUp, WillLookAgain, callVars
<1>3. CASE CallWaitNextEvent
  BY <1>3 DEF CallWaitNextEvent, WillLookAgain, listVars, sleepVars
<1>4. CASE TakeFirst
  <2>1. PICK e \in Matching(mask) : queued' = queued \ {e} /\ handed' = handed \cup {e.n}
    BY <1>4 DEF TakeFirst
  <2>2. e.n \in 1..MaxPosts
    BY <2>1 DEF Matching, Event
  <2> QED
    BY <1>4, <2>1, <2>2 DEF TakeFirst, WillLookAgain, sleepVars, callVars
<1>5. CASE FindNothing
  BY <1>5 DEF FindNothing, WillLookAgain, Matching, listVars, callVars, sleepVars
<1>6. CASE DoNotSleep
  BY <1>6 DEF DoNotSleep, SleepNot, WillLookAgain, listVars, callVars
<1>7. CASE GoToSleep
  BY <1>7 DEF GoToSleep, FallAsleep, WillLookAgain, Matching, Wakers, listVars, callVars
<1>8. CASE WakeAndLook
  BY <1>8 DEF WakeAndLook, Awake, WillLookAgain, listVars, callVars
<1>9. CASE Platform
  BY <1>9 DEF Platform, TimeIsUp, SpuriousReturn, WillLookAgain, Matching, Wakers,
              listVars, callVars
<1>10. CASE UNCHANGED vars
  BY <1>10 DEF vars, WillLookAgain, Matching, Wakers, listVars, callVars, sleepVars
<1> QED
  BY <1>1, <1>2, <1>3, <1>4, <1>5, <1>6, <1>7, <1>8, <1>9, <1>10 DEF Next, WaiterStep

THEOREM EventInvariance == Spec => []IInv
BY InitEventIInv, StepEventIInv, PTL DEF Spec

\* No wake-up is lost, however posts, scans and sleeps interleave.
THEOREM NoLostWakeUp == Spec => []WillLookAgain
<1>1. IInv => WillLookAgain
  BY DEF IInv
<1> QED
  BY <1>1, EventInvariance, PTL

\* Only two steps touch the list: a post adds the next arrival number, and a
\* call takes out one of the events its mask selects, the first.
LEMMA ListSteps ==
  ASSUME IInv, [Next]_vars
  PROVE  \/ \E k \in Kinds : /\ posted < MaxPosts
                             /\ queued' = queued \cup {[n |-> posted + 1, kind |-> k]}
                             /\ posted' = posted + 1 /\ handed' = handed
         \/ \E e \in Matching(mask) : /\ mask \in Masks
                                      /\ \A f \in Matching(mask) : e.n <= f.n
                                      /\ queued' = queued \ {e}
                                      /\ handed' = handed \cup {e.n}
                                      /\ posted' = posted
         \/ UNCHANGED listVars
<1>1. ASSUME NEW p \in Posters, AppendEvent(p) PROVE \E k \in Kinds :
                             /\ posted < MaxPosts
                             /\ queued' = queued \cup {[n |-> posted + 1, kind |-> k]}
                             /\ posted' = posted + 1 /\ handed' = handed
  BY <1>1 DEF AppendEvent
<1>2. CASE TakeFirst
  BY <1>2 DEF TakeFirst, IInv
<1>3. CASE UNCHANGED vars \/ CallWaitNextEvent \/ FindNothing \/ DoNotSleep
             \/ GoToSleep \/ WakeAndLook \/ Platform
  BY <1>3 DEF vars, CallWaitNextEvent, FindNothing, DoNotSleep, GoToSleep, WakeAndLook,
              Platform
<1>4. ASSUME NEW p \in Posters, PostWakeUp(p) PROVE UNCHANGED listVars
  BY <1>4 DEF PostWakeUp
<1> QED
  BY <1>1, <1>2, <1>3, <1>4 DEF Next, WaiterStep

\* No event is lost, and none is handed over twice.
THEOREM Conservation == Spec => []NothingLost
<1>1. Init => NothingLost
  BY DEF Init, NothingLost
<1>2. ASSUME IInv, NothingLost, [Next]_vars PROVE NothingLost'
  <2> DEFINE NumbersOf(Q) == {e.n : e \in Q}
  <2>t. posted \in Nat /\ \A e \in queued : e.n \in 1..posted
    BY <1>2 DEF IInv, TypeOK, NothingLost
  <2>1. ASSUME NEW k \in Kinds, queued' = queued \cup {[n |-> posted + 1, kind |-> k]},
               posted' = posted + 1, handed' = handed
        PROVE  NothingLost'
    <3>1. NumbersOf(queued') = NumbersOf(queued) \cup {posted + 1}
      <4> DEFINE e == [n |-> posted + 1, kind |-> k]
      <4>1. e.n = posted + 1 /\ queued' = queued \cup {e}
        BY <2>1
      <4> HIDE DEF e
      <4> QED
        BY <4>1
    <3>2. posted + 1 \notin 1..posted /\ 1..posted' = (1..posted) \cup {posted + 1}
      BY <2>t, <2>1
    <3>3. \A e, f \in queued' : e.n = f.n => e = f
      BY <1>2, <2>t, <2>1, <3>2 DEF NothingLost
    <3> HIDE DEF NumbersOf
    <3>4. handed \cap NumbersOf(queued) = {} /\ handed \cup NumbersOf(queued) = 1..posted
      BY <1>2 DEF NothingLost, NumbersOf
    <3>5. handed' \cap NumbersOf(queued') = {} /\ handed' \cup NumbersOf(queued') = 1..posted'
      BY <2>1, <3>1, <3>2, <3>4
    <3> QED
      BY <3>3, <3>5 DEF NothingLost, NumbersOf
  <2>2. ASSUME NEW e \in queued, queued' = queued \ {e}, handed' = handed \cup {e.n},
               posted' = posted
        PROVE  NothingLost'
    <3>1. NumbersOf(queued') = NumbersOf(queued) \ {e.n} /\ e.n \in NumbersOf(queued)
      BY <1>2, <2>2 DEF NothingLost
    <3>2. \A f, g \in queued' : f.n = g.n => f = g
      BY <1>2, <2>2 DEF NothingLost
    <3> HIDE DEF NumbersOf
    <3>3. handed \cap NumbersOf(queued) = {} /\ handed \cup NumbersOf(queued) = 1..posted
      BY <1>2 DEF NothingLost, NumbersOf
    <3>4. handed' \cap NumbersOf(queued') = {} /\ handed' \cup NumbersOf(queued') = 1..posted'
      BY <2>2, <3>1, <3>3
    <3> QED
      BY <3>2, <3>4 DEF NothingLost, NumbersOf
  <2>3. CASE UNCHANGED listVars
    BY <1>2, <2>3 DEF listVars, NothingLost
  <2> QED
    BY <1>2, <2>1, <2>2, <2>3, ListSteps DEF Matching
<1> QED
  BY <1>1, <1>2, EventInvariance, PTL DEF Spec

\* The thread implements the queue with masks that its clients rely on.
THEOREM QueueRefinement == Spec => ImplementsQueue
<1> USE DEF Queue!qvars
<1>1. Init => Queue!QInit
  BY DEF Init, Queue!QInit
<1>2. ASSUME IInv, [Next]_vars PROVE [Queue!Post \/ Queue!Handle]_(Queue!qvars)
  <2>1. ASSUME NEW k \in Kinds, posted < MaxPosts,
               queued' = queued \cup {[n |-> posted + 1, kind |-> k]}, posted' = posted + 1
        PROVE  Queue!Post
    BY <2>1 DEF Queue!Post
  <2>2. ASSUME NEW e \in Matching(mask), mask \in Masks,
               \A f \in Matching(mask) : e.n <= f.n,
               queued' = queued \ {e}, posted' = posted
        PROVE  Queue!Handle
    BY <2>2 DEF Matching, Queue!Handle
  <2> QED
    BY <1>2, <2>1, <2>2, ListSteps DEF listVars
<1> QED
  BY <1>1, <1>2, EventInvariance, PTL DEF Spec, ImplementsQueue, Queue!QSpec

\* No event overtakes another of its kind.
THEOREM Fifo == Spec => InOrder
<1>1. ASSUME IInv, [Next]_vars,
             NEW e \in queued \ queued', NEW f \in queued, f.n < e.n
      PROVE  f.kind # e.kind
  <2>1. e \in Matching(mask) /\ \A g \in Matching(mask) : e.n <= g.n
    BY <1>1, ListSteps DEF listVars
  <2>2. e.n \in Int /\ f.n \in Int
    BY <1>1 DEF IInv, TypeOK, Event
  <2> QED
    BY <1>1, <2>1, <2>2 DEF Matching
<1>2. IInv /\ [Next]_vars =>
        [\A e \in queued \ queued' : \A f \in queued : f.n < e.n => f.kind # e.kind]_vars
  BY <1>1
<1> QED
  BY <1>2, EventInvariance, PTL DEF Spec, InOrder

-----------------------------------------------------------------------------
(* Numbers: what the induction theorems of the library say of a predicate, *)
(* said of a set.                                                          *)

Below == {p \in Nat \X Nat : p[1] < p[2]}

LEMMA LeastElement ==
  ASSUME NEW S, S \subseteq Nat, S # {}
  PROVE  \E m \in S : \A n \in S : m <= n
<1>1. IsWellFoundedOn(OpToRel(<, Nat), Nat)
  BY NatLessThanWellFounded, Zenon
<1>2. OpToRel(<, Nat) = Below
  BY DEF OpToRel, Below
<1>3. IsWellFoundedOn(Below, Nat)
  BY <1>1, <1>2, Zenon
<1>4. PICK m \in S : \A n \in S : ~ (<<n, m>> \in Below)
  BY <1>3, WFMin
<1>5. \A n \in S : ~ (n < m)
  <2> TAKE n \in S
  <2>1. n \in Nat /\ m \in Nat
    OBVIOUS
  <2>2. <<n, m>> \notin Below
    BY <1>4
  <2>3. n < m => <<n, m>> \in Below
    BY <2>1 DEF Below
  <2> QED
    BY <2>2, <2>3
<1> QED
  BY <1>5

LEMMA GreatestElement ==
  ASSUME NEW N \in Nat, NEW S, S \subseteq 0..N, S # {}
  PROVE  \E m \in S : \A n \in S : n <= m
<1> DEFINE T == {N - n : n \in S}
<1>1. T \subseteq Nat /\ T # {}
  <2>1. \A n \in S : N - n \in Nat
    OBVIOUS
  <2>2. T \subseteq Nat
    BY <2>1
  <2>3. PICK n : n \in S
    OBVIOUS
  <2>4. N - n \in T
    BY <2>3
  <2> QED
    BY <2>2, <2>4
<1>2. PICK t \in T : \A n \in T : t <= n
  BY <1>1, LeastElement
<1>3. PICK m \in S : t = N - m
  BY <1>2
<1>4. \A n \in S : N - m <= N - n
  BY <1>2, <1>3
<1> QED
  BY <1>4

-----------------------------------------------------------------------------
(* The walk along the chain is well defined: module EventList defines it   *)
(* by recursion, and there is a function that satisfies the definition.    *)

Further(e) == IF e = 0 THEN 0 ELSE next[e]

WalksTo(f, n) == f = [k \in 0..n |-> IF k = 0 THEN mNextEvent ELSE Further(f[k - 1])]

LEMMA WalkSteps ==
  ASSUME NEW n \in Nat, NEW f, WalksTo(f, n)
  PROVE  /\ DOMAIN f = 0..n /\ f[0] = mNextEvent
         /\ \A k \in 1..n : f[k] = Further(f[k - 1])
<1>1. f = [k \in 0..n |-> IF k = 0 THEN mNextEvent ELSE Further(f[k - 1])]
  BY DEF WalksTo
<1> DEFINE g == [k \in 0..n |-> IF k = 0 THEN mNextEvent ELSE Further(f[k - 1])]
<1>2. /\ DOMAIN g = 0..n /\ g[0] = mNextEvent
      /\ \A k \in 1..n : g[k] = Further(f[k - 1])
  OBVIOUS
<1>3. f = g
  BY <1>1
<1> HIDE DEF g
<1> QED
  BY <1>2, <1>3

LEMMA WalksAgree ==
  ASSUME NEW n \in Nat, NEW m \in Nat, NEW f, NEW g, WalksTo(f, n), WalksTo(g, m),
         NEW k \in 0..n, k <= m
  PROVE  f[k] = g[k]
<1> DEFINE D == {i \in Nat : i <= n /\ i <= m /\ f[i] # g[i]}
<1>1. /\ f[0] = g[0]
      /\ \A i \in 1..n : f[i] = Further(f[i - 1])
      /\ \A i \in 1..m : g[i] = Further(g[i - 1])
  BY WalkSteps
<1>2. ASSUME D # {} PROVE FALSE
  <2>1. PICK i \in D : \A j \in D : i <= j
    BY <1>2, LeastElement
  <2>2. i # 0 /\ i \in 1..n /\ i \in 1..m
    BY <1>1, <2>1
  <2>3. i - 1 \in Nat /\ i - 1 \notin D
    BY <2>1, <2>2
  <2>4. f[i - 1] = g[i - 1]
    BY <2>2, <2>3
  <2> QED
    BY <1>1, <2>1, <2>2, <2>4
<1> QED
  BY <1>2

LEMMA WalkExists ==
  ASSUME NEW n \in Nat
  PROVE  \E f : WalksTo(f, n)
<1> DEFINE D == {i \in Nat : ~ \E f : WalksTo(f, i)}
<1>1. ASSUME D # {} PROVE FALSE
  <2>1. PICK i \in D : \A j \in D : i <= j
    BY <1>1, LeastElement
  <2>2. CASE i = 0
    <3> DEFINE f == [k \in 0..0 |-> mNextEvent]
    <3>1. f = [k \in 0..0 |-> IF k = 0 THEN mNextEvent ELSE Further(f[k - 1])]
      OBVIOUS
    <3>2. WalksTo(f, i)
      BY <2>2, <3>1 DEF WalksTo
    <3> QED
      BY <2>1, <3>2
  <2>3. CASE i # 0
    <3>1. i - 1 \in Nat /\ i - 1 \notin D
      BY <2>1, <2>3
    <3>2. PICK f : WalksTo(f, i - 1)
      BY <3>1
    <3>3. f[0] = mNextEvent /\ \A k \in 1..i - 1 : f[k] = Further(f[k - 1])
      BY <3>1, <3>2, WalkSteps
    <3> DEFINE g == [k \in 0..i |-> IF k < i THEN f[k] ELSE Further(f[i - 1])]
    <3>4. g[0] = mNextEvent
      BY <2>1, <2>3, <3>3
    <3>5. ASSUME NEW k \in 0..i, k # 0
          PROVE  g[k] = Further(g[k - 1])
      <4>1. k - 1 \in 0..i /\ k - 1 < i /\ g[k - 1] = f[k - 1]
        BY <2>1, <3>5
      <4>2. CASE k < i
        <5>1. k \in 1..i - 1 /\ g[k] = f[k]
          BY <2>1, <3>5, <4>2
        <5> QED
          BY <3>3, <4>1, <5>1
      <4>3. CASE k = i
        <5>1. g[k] = Further(f[i - 1])
          BY <4>3
        <5> QED
          BY <4>1, <4>3, <5>1
      <4> QED
        BY <2>1, <3>5, <4>2, <4>3
    <3>6. g = [k \in 0..i |-> IF k = 0 THEN mNextEvent ELSE Further(g[k - 1])]
      BY <3>4, <3>5
    <3>7. WalksTo(g, i)
      BY <3>6 DEF WalksTo
    <3> QED
      BY <2>1, <3>7
  <2> QED
    BY <2>2, <2>3
<1> QED
  BY <1>1

LEMMA ChainWalks ==
  /\ List!ChainAt[0] = mNextEvent
  /\ \A k \in Nat : List!ChainAt[k + 1] = Further(List!ChainAt[k])
<1> DEFINE W(n) == CHOOSE f : WalksTo(f, n)
           F == [k \in Nat |-> W(k)[k]]
<1>1. \A n \in Nat : WalksTo(W(n), n)
  BY WalkExists
<1> HIDE DEF W
<1>2. F[0] = mNextEvent
  BY <1>1, WalkSteps
<1>3. \A k \in Nat : F[k + 1] = Further(F[k])
  <2> TAKE k \in Nat
  <2>1. k + 1 \in Nat /\ k + 1 \in 1..k + 1 /\ (k + 1) - 1 = k /\ k \in 0..k /\ k <= k + 1
    OBVIOUS
  <2>2. W(k + 1)[k + 1] = Further(W(k + 1)[(k + 1) - 1])
    BY <1>1, <2>1, WalkSteps
  <2>3. W(k)[k] = W(k + 1)[k]
    BY <1>1, <2>1, WalksAgree
  <2> QED
    BY <2>1, <2>2, <2>3
<1>4. F = [k \in Nat |-> IF k = 0 THEN mNextEvent
                         ELSE IF F[k - 1] = 0 THEN 0 ELSE next[F[k - 1]]]
  <2>1. ASSUME NEW k \in Nat, k # 0
        PROVE  F[k] = IF F[k - 1] = 0 THEN 0 ELSE next[F[k - 1]]
    <3>1. k - 1 \in Nat /\ (k - 1) + 1 = k
      BY <2>1
    <3> QED
      BY <1>3, <3>1 DEF Further
  <2> QED
    BY <1>2, <2>1
<1> HIDE DEF F
<1>5. List!ChainAt = [k \in Nat |-> IF k = 0 THEN mNextEvent
                        ELSE IF List!ChainAt[k - 1] = 0 THEN 0 ELSE next[List!ChainAt[k - 1]]]
  BY <1>4, Zenon DEF List!ChainAt, List!nil
<1> DEFINE G == [k \in Nat |-> IF k = 0 THEN mNextEvent
                  ELSE IF List!ChainAt[k - 1] = 0 THEN 0 ELSE next[List!ChainAt[k - 1]]]
<1>6. G[0] = mNextEvent /\ \A k \in Nat : G[k + 1] = Further(List!ChainAt[k])
  BY DEF Further
<1>7. List!ChainAt = G
  BY <1>5
<1> HIDE DEF G
<1> QED
  BY <1>6, <1>7

-----------------------------------------------------------------------------
(* The list behind its lock: each step is one of the thread, one of the    *)
(* semaphore, or one of both that leaves the other alone.                  *)

LEMMA ChainSteps ==
  ASSUME [ChainNext]_allVars
  PROVE  /\ [Next]_vars
         /\ [SemNext]_semVars
         /\ \/ \E p \in Posters : AppendEvent(p) /\ List!PostEvent
                                  /\ [n |-> posted', kind |-> kind'[posted']] \in queued'
            \/ TakeFirst /\ List!TakeEvent(mask)
            \/ UNCHANGED <<listVars, chainVars>>
<1> USE ThreadsAssumption DEF threadVars
<1> DEFINE Goal == /\ [Next]_vars
                   /\ [SemNext]_semVars
                   /\ \/ \E p \in Posters : AppendEvent(p) /\ List!PostEvent
                                  /\ [n |-> posted', kind |-> kind'[posted']] \in queued'
                      \/ TakeFirst /\ List!TakeEvent(mask)
                      \/ UNCHANGED <<listVars, chainVars>>
<1>u. UNCHANGED vars => UNCHANGED listVars
  BY DEF vars
<1>1. ASSUME NEW t \in Threads, Acquire(t) \/ AcquireReturns(t) \/ Give(t)
      PROVE  Goal
  <2>1. ThreadStep(t) /\ UNCHANGED <<vars, chainVars>>
    BY <1>1 DEF Acquire, AcquireReturns, Give, ThreadStep
  <2> QED
    BY <1>u, <2>1 DEF SemNext
<1>2. ASSUME NEW p \in Posters, Post(p) PROVE Goal
  <2>1. UNCHANGED semVars /\ AppendEvent(p) /\ List!PostEvent
        /\ [n |-> posted', kind |-> kind'[posted']] \in queued'
    BY <1>2 DEF Post
  <2> QED
    BY <2>1 DEF Next
<1>3. ASSUME NEW p \in Posters, Unlocked(p, PostWakeUp(p)) PROVE Goal
  <2>1. PostWakeUp(p) /\ UNCHANGED <<chainVars, semVars>>
    BY <1>3 DEF Unlocked
  <2>2. UNCHANGED listVars
    BY <2>1 DEF PostWakeUp
  <2> QED
    BY <2>1, <2>2 DEF Next
<1>4. ASSUME Scan PROVE Goal
  <2>1. CASE Take /\ UNCHANGED semVars
    BY <2>1 DEF Take, Next, WaiterStep
  <2>2. CASE FindNothing /\ UNCHANGED <<chainVars, semVars>>
    <3>1. UNCHANGED listVars
      BY <2>2 DEF FindNothing
    <3> QED
      BY <2>2, <3>1 DEF Next, WaiterStep
  <2> QED
    BY <1>4, <2>1, <2>2 DEF Scan
<1>5. ASSUME WaitStep PROVE Goal
  <2>1. (DoNotSleep \/ GoToSleep \/ WakeAndLook) /\ UNCHANGED <<chainVars, semVars>>
    BY <1>5 DEF WaitStep, Unlocked
  <2>2. UNCHANGED listVars
    BY <2>1 DEF DoNotSleep, GoToSleep, WakeAndLook
  <2> QED
    BY <2>1, <2>2 DEF Next, WaiterStep
<1>6. ASSUME Unlocked(Waiter, CallWaitNextEvent) PROVE Goal
  <2>1. CallWaitNextEvent /\ UNCHANGED <<chainVars, semVars>>
    BY <1>6 DEF Unlocked
  <2>2. UNCHANGED listVars
    BY <2>1 DEF CallWaitNextEvent
  <2> QED
    BY <2>1, <2>2 DEF Next
<1>7. ASSUME Platform /\ UNCHANGED <<chainVars, semVars>> PROVE Goal
  <2>1. UNCHANGED listVars
    BY <1>7 DEF Platform
  <2> QED
    BY <1>7, <2>1 DEF Next
<1>8. ASSUME UNCHANGED allVars PROVE Goal
  BY <1>8, <1>u DEF allVars
<1>9. Posters \subseteq Threads /\ Waiter \in Threads
  OBVIOUS
<1> HIDE DEF Goal
<1>10. ASSUME NEW p \in Posters, Acquire(p) \/ PosterStep(p) PROVE Goal
  BY <1>1, <1>2, <1>3, <1>9, <1>10 DEF PosterStep
<1>11. ASSUME WaiterStepOnList PROVE Goal
  BY <1>1, <1>4, <1>5, <1>9, <1>11 DEF WaiterStepOnList
<1>12. Goal
  BY <1>6, <1>7, <1>8, <1>10, <1>11 DEF ChainNext
<1> QED
  BY <1>12 DEF Goal

LEMMA ChainHasBoth == ChainSpec => Spec /\ SemSpec
<1>1. ChainInit => Init /\ SemInit
  BY DEF ChainInit
<1> QED
  BY <1>1, ChainSteps, PTL DEF ChainSpec, Spec, SemSpec

\* On its list and behind its lock as they are, the thread still implements
\* the queue with masks.
THEOREM ChainQueue == ChainSpec => ImplementsQueue
BY ChainHasBoth, QueueRefinement, PTL

\* The semaphore of the list implements the lock, with the acquisitions and
\* releases that PostEvent and WaitNextEvent make.
THEOREM ChainLock == ChainSpec => ImplementsLock
BY ChainHasBoth, Refinement, PTL

-----------------------------------------------------------------------------
(* The chain, for any list that is Linked.                                 *)

ListFacts == IInv /\ NothingLost /\ Linked

LEMMA NumbersTyped ==
  ASSUME ListFacts
  PROVE  /\ posted \in 0..MaxPosts /\ MaxPosts \in Nat /\ posted \in Nat
         /\ Numbers \subseteq 1..posted /\ Numbers \subseteq 1..MaxPosts
         /\ \A n \in Numbers : n \in Nat /\ 0 < n /\ n <= posted
         /\ \A n \in Numbers : \E e \in queued : e.n = n /\ e.kind = kind[n]
         /\ \A e \in queued : /\ e.n \in Numbers /\ e.kind = kind[e.n]
                              /\ e = [n |-> e.n, kind |-> kind[e.n]]
<1>1. posted \in 0..MaxPosts /\ MaxPosts \in Nat /\ queued \subseteq Event
  BY EventAssumption DEF ListFacts, IInv, TypeOK
<1>2. Numbers \subseteq 1..posted
  BY DEF ListFacts, NothingLost, Numbers
<1>3. \A e \in queued : e.n \in Numbers /\ e.kind = kind[e.n]
  BY DEF ListFacts, Linked, Numbers
<1>4. \A n \in Numbers : \E e \in queued : e.n = n /\ e.kind = kind[n]
  BY <1>3 DEF Numbers
<1>5. \A e \in queued : e = [n |-> e.n, kind |-> e.kind]
  BY <1>1 DEF Event
<1> QED
  BY <1>1, <1>2, <1>3, <1>4, <1>5

\* The walk stays on the chain until it falls off its end.
LEMMA WalkStays ==
  ASSUME ListFacts
  PROVE  \A k \in Nat : List!ChainAt[k] \in Numbers \cup {0}
<1> DEFINE D == {k \in Nat : List!ChainAt[k] \notin Numbers \cup {0}}
<1>1. ASSUME D # {} PROVE FALSE
  <2>1. PICK k \in D : \A j \in D : k <= j
    BY <1>1, LeastElement
  <2>2. mNextEvent \in Numbers \cup {0}
    BY DEF ListFacts, Linked, IsFirstOf
  <2>3. k # 0
    BY <2>1, <2>2, ChainWalks
  <2>4. k - 1 \in Nat /\ (k - 1) + 1 = k /\ k - 1 \notin D
    BY <2>1, <2>3
  <2>5. List!ChainAt[k - 1] \in Numbers \cup {0}
    BY <2>4
  <2>6. List!ChainAt[k] = Further(List!ChainAt[k - 1])
    BY <2>4, ChainWalks
  <2>7. ASSUME NEW n \in Numbers PROVE next[n] \in Numbers \cup {0}
    BY DEF ListFacts, Linked, IsFirstOf, Later
  <2> QED
    BY <2>1, <2>5, <2>6, <2>7 DEF Further
<1> QED
  BY <1>1

\* The walk passes every event before the one it is at.
LEMMA WalkPasses ==
  ASSUME ListFacts
  PROVE  \A k \in Nat : List!ChainAt[k] # 0 =>
           \A n \in Numbers : n < List!ChainAt[k] => \E j \in 0..k - 1 : List!ChainAt[j] = n
<1> DEFINE Passed(k) == List!ChainAt[k] # 0 =>
             \A n \in Numbers : n < List!ChainAt[k] => \E j \in 0..k - 1 : List!ChainAt[j] = n
           D == {k \in Nat : ~ Passed(k)}
<1>1. ASSUME D # {} PROVE FALSE
  <2>1. PICK k \in D : \A j \in D : k <= j
    BY <1>1, LeastElement
  <2>2. List!ChainAt[k] # 0 /\ List!ChainAt[k] \in Numbers
    BY <2>1, WalkStays
  <2>3. PICK n \in Numbers : n < List!ChainAt[k] /\ ~ \E j \in 0..k - 1 : List!ChainAt[j] = n
    BY <2>1
  <2>4. n \in Nat /\ List!ChainAt[k] \in Nat
    BY <2>2, NumbersTyped
  <2>5. CASE k = 0
    <3>1. IsFirstOf(Numbers, List!ChainAt[k])
      BY <2>5, ChainWalks DEF ListFacts, Linked
    <3>2. List!ChainAt[k] <= n
      BY <2>3, <3>1 DEF IsFirstOf
    <3> QED
      BY <2>2, <2>3, <2>4, <3>2
  <2>6. CASE k # 0
    <3>1. k - 1 \in Nat /\ (k - 1) + 1 = k /\ k - 1 \notin D /\ k - 1 \in 0..k - 1
      BY <2>1, <2>6
    <3>2. List!ChainAt[k] = Further(List!ChainAt[k - 1])
      BY <3>1, ChainWalks
    <3> DEFINE p == List!ChainAt[k - 1]
    <3>3. p # 0 /\ p \in Numbers /\ next[p] = List!ChainAt[k]
      BY <2>2, <3>1, <3>2, WalkStays DEF Further
    <3>4. Passed(k - 1)
      BY <3>1
    <3>5. IsFirstOf(Later(p), next[p])
      BY <3>3 DEF ListFacts, Linked
    <3>p. p \in Nat
      BY <3>3, NumbersTyped
    <3>6. ~ (p < n)
      <4>1. p < n => n \in Later(p)
        BY DEF Later
      <4>2. n \in Later(p) => next[p] <= n
        BY <3>5 DEF IsFirstOf
      <4>3. n \in Later(p) => List!ChainAt[k] <= n
        BY <3>3, <4>2
      <4> HIDE DEF p
      <4> QED
        BY <2>3, <2>4, <4>1, <4>3
    <3>7. n # p
      BY <2>3, <3>1
    <3>8. n < p
      <4> HIDE DEF p
      <4> QED
        BY <2>4, <3>p, <3>6, <3>7
    <3>9. \E j \in 0..(k - 1) - 1 : List!ChainAt[j] = n
      BY <3>3, <3>4, <3>8
    <3>10. 0..(k - 1) - 1 \subseteq 0..k - 1
      BY <2>1
    <3> QED
      BY <2>3, <3>9, <3>10
  <2> QED
    BY <2>5, <2>6
<1>2. \A k \in Nat : Passed(k)
  BY <1>1
<1> QED
  BY <1>2

\* The walk reaches every event of the list, the n-th posted within n steps.
LEMMA WalkReaches ==
  ASSUME ListFacts
  PROVE  \A n \in Numbers : \E k \in 0..n - 1 : List!ChainAt[k] = n
<1> DEFINE D == {n \in Numbers : ~ \E k \in 0..n - 1 : List!ChainAt[k] = n}
<1>t. /\ Numbers \subseteq Nat /\ posted \in Nat
      /\ \A n \in Numbers : n \in Nat /\ 0 < n /\ n <= posted
  <2>1. /\ posted \in Nat
        /\ \A n \in Numbers : n \in Nat /\ 0 < n /\ n <= posted
    BY NumbersTyped
  <2> QED
    BY <2>1
<1>1. ASSUME D # {} PROVE FALSE
  <2>0. D \subseteq Nat
    BY <1>t
  <2>1. PICK n \in D : \A m \in D : n <= m
    <3> HIDE DEF D
    <3> QED
      BY <1>1, <2>0, LeastElement
  <2>2. n \in Numbers /\ n \in Nat /\ n > 0
    BY <1>t, <2>1
  <2> DEFINE S == {m \in Numbers : m < n}
  <2>3. CASE S = {}
    <3>1. mNextEvent \in Numbers /\ mNextEvent <= n
      BY <2>2 DEF ListFacts, Linked, IsFirstOf
    <3>2. mNextEvent = n
      <4>1. mNextEvent \in Nat /\ ~ (mNextEvent < n)
        BY <1>t, <2>3, <3>1
      <4> QED
        BY <2>2, <3>1, <4>1
    <3>3. 0 \in 0..n - 1
      BY <2>2
    <3> QED
      BY <2>1, <3>2, <3>3, ChainWalks
  <2>4. CASE S # {}
    <3>0. \A m \in S : m \in 0..posted
      BY <1>t
    <3>1. S \subseteq 0..posted
      BY <3>0
    <3>2. PICK p \in S : \A m \in S : m <= p
      <4> HIDE DEF S
      <4> QED
        BY <1>t, <2>4, <3>1, GreatestElement
    <3>3. p \in Numbers /\ p < n /\ p \in Nat
      BY <1>t, <3>2
    <3>4. n \in Later(p) /\ IsFirstOf(Later(p), next[p])
      BY <2>2, <3>3 DEF Later, ListFacts, Linked
    <3>5. next[p] \in Numbers /\ p < next[p] /\ next[p] <= n
      BY <3>4 DEF IsFirstOf, Later
    <3>6. next[p] = n
      <4>1. next[p] \in Nat
        BY <1>t, <3>5
      <4>2. next[p] < n => next[p] <= p
        BY <3>2, <3>5
      <4> QED
        BY <2>2, <3>3, <3>5, <4>1, <4>2
    <3>7. PICK k \in 0..p - 1 : List!ChainAt[k] = p
      BY <2>1, <2>2, <3>3
    <3>8. k \in Nat /\ k + 1 \in 0..n - 1
      BY <2>2, <3>3
    <3>9. List!ChainAt[k + 1] = n
      BY <3>3, <3>6, <3>7, <3>8, <1>t, ChainWalks DEF Further
    <3> QED
      BY <2>1, <3>8, <3>9
  <2> QED
    BY <2>3, <2>4
<1> QED
  BY <1>1

\* A Linked list is what the properties of the chain ask for.
LEMMA LinkedIsList ==
  ASSUME ListFacts
  PROVE  ChainIsList
<1>t. /\ posted \in Nat
      /\ \A n \in Numbers : n \in Nat /\ 0 < n /\ n <= posted
  BY NumbersTyped
<1>1. List!Chain = Numbers
  <2>1. ASSUME NEW n \in Numbers PROVE n \in List!Chain
    <3>1. PICK k \in 0..n - 1 : List!ChainAt[k] = n
      BY WalkReaches
    <3>2. k \in 0..posted /\ n # 0
      BY <1>t
    <3> QED
      BY <3>1, <3>2 DEF List!Chain, List!nil
  <2>2. ASSUME NEW n \in List!Chain PROVE n \in Numbers
    <3>1. PICK k \in 0..posted : n = List!ChainAt[k] /\ n # 0
      BY DEF List!Chain, List!nil
    <3>2. k \in Nat
      BY <1>t
    <3> QED
      BY <3>1, <3>2, WalkStays
  <2> QED
    BY <2>1, <2>2
<1>2. {[n |-> n, kind |-> kind[n]] : n \in Numbers} = queued
  <2>1. ASSUME NEW n \in Numbers PROVE [n |-> n, kind |-> kind[n]] \in queued
    <3>1. PICK e \in queued : e.n = n
      BY NumbersTyped
    <3>2. e = [n |-> e.n, kind |-> kind[e.n]]
      BY NumbersTyped
    <3> QED
      BY <3>1, <3>2
  <2>2. ASSUME NEW e \in queued PROVE \E n \in Numbers : e = [n |-> n, kind |-> kind[n]]
    <3>1. e.n \in Numbers /\ e = [n |-> e.n, kind |-> kind[e.n]]
      BY NumbersTyped
    <3> QED
      BY <3>1
  <2> QED
    BY <2>1, <2>2
<1>3. List!ChainInOrder
  <2>1. ASSUME NEW n \in Numbers, next[n] # 0 PROVE n < next[n]
    BY <2>1 DEF ListFacts, Linked, IsFirstOf, Later
  <2> QED
    BY <1>1, <2>1 DEF List!ChainInOrder, List!nil
<1>4. List!TailIsLast
  <2>1. (mLastEvent = 0) <=> (mNextEvent = 0)
    BY <1>t DEF ListFacts, Linked, IsFirstOf, IsLastOf
  <2>2. ASSUME mNextEvent # 0
        PROVE  mLastEvent \in Numbers /\ \A n \in Numbers : n <= mLastEvent
    BY <2>2 DEF ListFacts, Linked, IsFirstOf, IsLastOf
  <2>3. ASSUME mNextEvent # 0, NEW n \in Numbers PROVE (next[n] = 0) <=> (n = mLastEvent)
    <3>1. IsFirstOf(Later(n), next[n])
      BY DEF ListFacts, Linked
    <3>2. mLastEvent \in Nat /\ n \in Nat /\ n <= mLastEvent /\ mLastEvent \in Numbers
      BY <1>t, <2>2, <2>3
    <3>3. CASE n = mLastEvent
      <4>1. \A m \in Numbers : ~ (n < m)
        BY <1>t, <2>2, <2>3, <3>2, <3>3
      <4>2. Later(n) = {}
        BY <4>1 DEF Later
      <4> QED
        BY <3>1, <3>3, <4>2 DEF IsFirstOf
    <3>4. CASE n # mLastEvent
      <4>1. mLastEvent \in Later(n)
        BY <3>2, <3>4 DEF Later
      <4>2. next[n] \in Numbers
        BY <3>1, <4>1 DEF IsFirstOf, Later
      <4> QED
        BY <1>t, <3>4, <4>2
    <3> QED
      BY <3>3, <3>4
  <2> QED
    BY <1>1, <2>1, <2>2, <2>3 DEF List!TailIsLast, List!nil
<1> QED
  BY <1>1, <1>2, <1>3, <1>4 DEF ChainIsList

\* PostEvent links the event behind the last one.
LEMMA PostLinks ==
  ASSUME ListFacts, NEW p \in Posters, AppendEvent(p), List!PostEvent,
         [n |-> posted', kind |-> kind'[posted']] \in queued'
  PROVE  Linked'
<1>t. /\ posted \in Nat /\ MaxPosts \in Nat /\ posted < MaxPosts
      /\ \A n \in Numbers : n \in Nat /\ 0 < n /\ n <= posted
  BY NumbersTyped DEF AppendEvent
<1> DEFINE new == posted + 1
<1>1. new \in 1..MaxPosts /\ new \in Nat /\ new \notin Numbers /\ new # 0 /\ posted' = new
  BY <1>t DEF AppendEvent
<1>2. PICK k \in Kinds : queued' = queued \cup {[n |-> new, kind |-> k]}
  BY DEF AppendEvent
<1>3. kind'[new] = k
  <2>1. \A e \in queued : e.n # new
    BY <1>1, NumbersTyped
  <2>2. [n |-> new, kind |-> kind'[new]] \notin queued
    BY <2>1
  <2> QED
    BY <1>1, <1>2, <2>2
<1>4. Numbers' = Numbers \cup {new}
  <2> DEFINE e == [n |-> new, kind |-> k]
  <2>1. e.n = new /\ queued' = queued \cup {e}
    BY <1>2
  <2> HIDE DEF e, new
  <2> QED
    BY <2>1 DEF Numbers
<1>5. PICK c \in Kinds : kind' = [e \in 1..new |-> IF e = new THEN c ELSE kind[e]]
  BY DEF List!PostEvent
<1>6. DOMAIN kind' = 1..posted' /\ \A n \in Numbers : kind'[n] = kind[n]
  <2>1. \A n \in Numbers : n \in 1..new /\ n # new
    BY <1>t, <1>1
  <2> QED
    BY <1>1, <1>5, <2>1
<1>7. \A e \in queued' : e.kind = kind'[e.n]
  <2>1. ASSUME NEW e \in queued PROVE e.kind = kind'[e.n]
    BY <1>6, NumbersTyped
  <2> QED
    BY <1>2, <1>3, <2>1
<1>l. /\ next \in [1..MaxPosts -> 0..MaxPosts]
      /\ IsFirstOf(Numbers, mNextEvent) /\ IsLastOf(Numbers, mLastEvent)
      /\ \A n \in Numbers : IsFirstOf(Later(n), next[n])
  BY DEF ListFacts, Linked
<1> DEFINE Above(n) == {m \in Numbers' : n < m}
<1>d. ASSUME \A n \in Numbers' : IsFirstOf(Above(n), next'[n])
      PROVE  \A n \in Numbers' : IsFirstOf(Later(n)', next'[n])
  <2>1. \A n \in Numbers' : Later(n)' = Above(n)
    BY DEF Later
  <2> HIDE DEF Above
  <2> QED
    BY <1>d, <2>1 DEF IsFirstOf
<1> HIDE DEF new
<1>8. CASE Numbers = {}
  <2>1. mLastEvent = 0
    BY <1>8, <1>l DEF IsLastOf
  <2>2. mNextEvent' = new /\ mLastEvent' = new /\ next' = [next EXCEPT ![new] = 0]
    BY <2>1 DEF List!PostEvent, List!nil, new
  <2>3. next' \in [1..MaxPosts -> 0..MaxPosts] /\ next'[new] = 0
    BY <1>t, <1>1, <1>l, <2>2
  <2>4. Numbers' = {new}
    BY <1>4, <1>8
  <2>5. IsFirstOf(Numbers', mNextEvent') /\ IsLastOf(Numbers', mLastEvent')
    BY <1>1, <2>2, <2>4 DEF IsFirstOf, IsLastOf
  <2>6. Above(new) = {}
    <3>1. ~ (new < new)
      BY <1>1
    <3> QED
      BY <2>4, <3>1
  <2>7. \A n \in Numbers' : IsFirstOf(Above(n), next'[n])
    <3>1. IsFirstOf(Above(new), next'[new])
      BY <2>3, <2>6 DEF IsFirstOf
    <3> QED
      BY <2>4, <3>1
  <2> QED
    BY <1>6, <1>7, <1>d, <2>3, <2>5, <2>7 DEF Linked
<1>9. CASE Numbers # {}
  <2> DEFINE last == mLastEvent
  <2>1. last \in Numbers /\ last # 0 /\ \A n \in Numbers : n <= last
    BY <1>t, <1>9, <1>l DEF IsLastOf
  <2>2. /\ next' = [next EXCEPT ![last] = new, ![new] = 0] /\ mLastEvent' = new
        /\ mNextEvent' = mNextEvent
    BY <2>1 DEF List!PostEvent, List!nil, new
  <2>3. \A n \in Numbers : n \in 1..MaxPosts /\ n # new
    BY <1>t, <1>1
  <2>4. /\ next' \in [1..MaxPosts -> 0..MaxPosts] /\ next'[new] = 0 /\ next'[last] = new
        /\ \A n \in Numbers : n # last => next'[n] = next[n]
    <3>1. new \in 0..MaxPosts /\ 0 \in 0..MaxPosts /\ last \in 1..MaxPosts /\ last # new
      BY <1>t, <1>1, <2>1, <2>3
    <3> HIDE DEF last
    <3> QED
      BY <1>1, <1>l, <2>2, <2>3, <3>1
  <2>5. IsFirstOf(Numbers', mNextEvent')
    <3>1. mNextEvent \in Numbers /\ \A n \in Numbers : mNextEvent <= n
      BY <1>9, <1>l DEF IsFirstOf
    <3>2. mNextEvent <= new
      BY <1>t, <3>1 DEF new
    <3> QED
      BY <1>4, <2>2, <3>1, <3>2 DEF IsFirstOf
  <2>6. IsLastOf(Numbers', mLastEvent')
    <3>1. \A n \in Numbers' : n <= new
      BY <1>t, <1>4 DEF new
    <3> QED
      BY <1>4, <2>2, <3>1 DEF IsLastOf
  <2>7. Above(new) = {}
    <3>1. \A n \in Numbers' : ~ (new < n)
      BY <1>t, <1>1, <1>4 DEF new
    <3> QED
      BY <3>1
  <2>8. Above(last) = {new}
    <3>1. \A n \in Numbers : ~ (last < n)
      BY <1>t, <2>1
    <3>2. last < new
      BY <1>t, <2>1 DEF new
    <3> HIDE DEF last
    <3> QED
      BY <1>4, <3>1, <3>2
  <2>9. ASSUME NEW n \in Numbers, n # last
        PROVE  IsFirstOf(Above(n), next'[n])
    <3>1. IsFirstOf(Later(n), next[n]) /\ last \in Later(n)
      <4>1. n < last
        BY <1>t, <2>1, <2>9
      <4> QED
        BY <1>l, <2>1, <4>1 DEF Later
    <3>2. next[n] \in Later(n) /\ \A m \in Later(n) : next[n] <= m
      BY <3>1 DEF IsFirstOf
    <3>3. Above(n) = Later(n) \cup {new}
      <4>1. n < new
        BY <1>t DEF new
      <4> QED
        BY <1>4, <4>1 DEF Later
    <3>4. next[n] <= new
      <4>1. next[n] \in Numbers
        BY <3>2 DEF Later
      <4> QED
        BY <1>t, <4>1 DEF new
    <3> QED
      BY <2>4, <2>9, <3>2, <3>3, <3>4 DEF IsFirstOf
  <2>10. \A n \in Numbers' : IsFirstOf(Above(n), next'[n])
    <3>1. IsFirstOf(Above(new), next'[new])
      BY <2>4, <2>7 DEF IsFirstOf
    <3>2. IsFirstOf(Above(last), next'[last])
      BY <1>1, <2>4, <2>8 DEF IsFirstOf
    <3> QED
      BY <1>4, <2>9, <3>1, <3>2
  <2> QED
    BY <1>6, <1>7, <1>d, <2>4, <2>5, <2>6, <2>10 DEF Linked
<1> QED
  BY <1>8, <1>9

\* WaitNextEvent unlinks the event that leaves the set, and mends the pointers
\* around it, wherever it was.
LEMMA TakeUnlinks ==
  ASSUME ListFacts, TakeFirst, List!TakeEvent(mask)
  PROVE  Linked'
<1>t. /\ posted \in Nat /\ MaxPosts \in Nat
      /\ \A n \in Numbers : n \in Nat /\ 0 < n /\ n <= posted /\ n \in 1..MaxPosts
  <2>1. Numbers \subseteq 1..MaxPosts
    BY NumbersTyped
  <2> QED
    BY <2>1, NumbersTyped
<1>l. /\ next \in [1..MaxPosts -> 0..MaxPosts]
      /\ IsFirstOf(Numbers, mNextEvent) /\ IsLastOf(Numbers, mLastEvent)
      /\ \A n \in Numbers : IsFirstOf(Later(n), next[n])
  BY DEF ListFacts, Linked
<1>1. PICK k \in 0..posted :
        /\ List!StopsAt(mask, k)
        /\ List!Unlink(List!ChainAt[k], IF k = 0 THEN 0 ELSE List!ChainAt[k - 1])
  BY DEF List!TakeEvent, List!nil
<1> DEFINE r == List!ChainAt[k]
<1>2. k \in Nat
  BY <1>1, <1>t
<1>3. r \in Numbers /\ kind[r] \in mask
  BY <1>1, <1>2, WalkStays DEF List!StopsAt, List!nil
<1>4. \A n \in Numbers : n < r => kind[n] \notin mask
  <2>1. \A n \in Numbers : n < r => \E j \in 0..k - 1 : List!ChainAt[j] = n
    BY <1>2, <1>3, <1>t, WalkPasses
  <2> QED
    BY <1>1, <2>1 DEF List!StopsAt
<1> DEFINE prev == IF k = 0 THEN 0 ELSE List!ChainAt[k - 1]
<1>5. \/ prev = 0 /\ mNextEvent = r
      \/ prev # 0 /\ prev \in Numbers /\ next[prev] = r
  <2>1. CASE k = 0
    BY <2>1, ChainWalks
  <2>2. CASE k # 0
    <3>1. k - 1 \in Nat /\ (k - 1) + 1 = k
      BY <1>2, <2>2
    <3>2. r = Further(List!ChainAt[k - 1]) /\ List!ChainAt[k - 1] \in Numbers \cup {0}
      BY <3>1, ChainWalks, WalkStays
    <3>3. r # 0
      BY <1>3, <1>t
    <3> QED
      BY <2>2, <3>2, <3>3 DEF Further
  <2> QED
    BY <2>1, <2>2
<1>6. List!Unlink(r, prev) /\ UNCHANGED <<kind, posted>>
  BY <1>1 DEF List!TakeEvent
<1> HIDE DEF r, prev
<1>7. PICK e \in Matching(mask) :
        /\ \A f \in Matching(mask) : e.n <= f.n
        /\ queued' = queued \ {e}
  BY DEF TakeFirst
<1>8. e.n = r
  <2>1. e \in queued /\ e.n \in Numbers /\ kind[e.n] \in mask
    BY <1>7, NumbersTyped DEF Matching
  <2>2. ~ (e.n < r)
    BY <1>4, <2>1
  <2>3. PICK f \in queued : f.n = r /\ f.kind = kind[r]
    BY <1>3, NumbersTyped
  <2>4. f \in Matching(mask)
    BY <1>3, <2>3 DEF Matching
  <2>5. e.n <= r
    BY <1>7, <2>3, <2>4
  <2> QED
    BY <1>t, <1>3, <2>1, <2>2, <2>5
<1>9. Numbers' = Numbers \ {r}
  <2>1. \A f \in queued : f.n = e.n => f = e
    BY <1>7 DEF ListFacts, NothingLost, Matching
  <2> QED
    BY <1>7, <1>8, <2>1 DEF Numbers
<1>10. DOMAIN kind' = 1..posted' /\ \A f \in queued' : f.kind = kind'[f.n]
  BY <1>6, <1>7 DEF ListFacts, Linked
<1> DEFINE Above(n) == {m \in Numbers' : n < m}
<1>d. ASSUME \A n \in Numbers' : IsFirstOf(Above(n), next'[n])
      PROVE  \A n \in Numbers' : IsFirstOf(Later(n)', next'[n])
  <2>1. \A n \in Numbers' : Later(n)' = Above(n)
    BY DEF Later
  <2> HIDE DEF Above
  <2> QED
    BY <1>d, <2>1 DEF IsFirstOf
<1>11. r \in Nat /\ IsFirstOf(Later(r), next[r])
  BY <1>t, <1>l, <1>3
<1>12. mLastEvent' = IF next[r] = 0 THEN prev ELSE mLastEvent
  BY <1>6 DEF List!Unlink, List!nil
<1>13. next[r] = 0 => \A n \in Numbers : ~ (r < n)
  BY <1>t, <1>11 DEF IsFirstOf, Later
<1>14. next[r] # 0 => next[r] \in Numbers /\ r < next[r] /\ \A m \in Numbers : r < m => next[r] <= m
  BY <1>11 DEF IsFirstOf, Later
<1>p. CASE prev = 0 /\ mNextEvent = r
  <2>1. mNextEvent' = next[r] /\ UNCHANGED next
    BY <1>p, <1>6 DEF List!Unlink, List!nil
  <2>2. \A n \in Numbers : r <= n
    BY <1>p, <1>3, <1>l DEF IsFirstOf
  <2>3. Numbers' = Later(r)
    <3>1. ASSUME NEW n \in Numbers, n # r PROVE r < n
      BY <1>t, <1>11, <2>2, <3>1
    <3>2. ~ (r < r)
      BY <1>11
    <3> QED
      BY <1>9, <3>1, <3>2 DEF Later
  <2>4. IsFirstOf(Numbers', mNextEvent')
    BY <1>11, <2>1, <2>3 DEF IsFirstOf
  <2>5. IsLastOf(Numbers', mLastEvent')
    <3>1. CASE next[r] = 0
      <4>1. Numbers' = {}
        BY <1>13, <2>3, <3>1 DEF Later
      <4> QED
        BY <1>p, <1>12, <3>1, <4>1 DEF IsLastOf
    <3>2. CASE next[r] # 0
      <4>1. mLastEvent \in Numbers /\ \A n \in Numbers : n <= mLastEvent
        BY <1>3, <1>l DEF IsLastOf
      <4>2. next[r] \in Numbers /\ r < next[r] /\ next[r] <= mLastEvent
        BY <1>14, <3>2, <4>1
      <4>3. mLastEvent # r
        BY <1>t, <1>11, <4>2
      <4> QED
        BY <1>9, <1>12, <3>2, <4>1, <4>3 DEF IsLastOf
    <3> QED
      BY <3>1, <3>2
  <2>6. ASSUME NEW n \in Numbers' PROVE IsFirstOf(Above(n), next'[n])
    <3>1. n \in Numbers /\ ~ (n < r) /\ n # r
      BY <1>t, <1>9, <1>11, <2>2
    <3>2. Above(n) = Later(n)
      BY <1>9, <3>1 DEF Later
    <3> QED
      BY <1>l, <2>1, <3>1, <3>2
  <2> QED
    BY <1>10, <1>d, <1>l, <2>1, <2>4, <2>5, <2>6 DEF Linked
<1>q. CASE prev # 0 /\ prev \in Numbers /\ next[prev] = r
  <2>1. next' = [next EXCEPT ![prev] = next[r]] /\ UNCHANGED mNextEvent
    BY <1>q, <1>6 DEF List!Unlink, List!nil
  <2>2. prev \in Nat /\ prev \in Numbers /\ prev < r
        /\ \A m \in Numbers : prev < m => r <= m
    BY <1>q, <1>t, <1>l, <1>3, <1>11 DEF IsFirstOf, Later
  <2>3. /\ next' \in [1..MaxPosts -> 0..MaxPosts] /\ next'[prev] = next[r]
        /\ \A n \in Numbers : n # prev => next'[n] = next[n]
    <3>1. r \in 1..MaxPosts /\ prev \in 1..MaxPosts /\ \A n \in Numbers : n \in 1..MaxPosts
      BY <1>t, <1>3, <2>2
    <3> QED
      BY <1>l, <2>1, <3>1
  <2>4. IsFirstOf(Numbers', mNextEvent')
    <3>1. mNextEvent \in Numbers /\ \A n \in Numbers : mNextEvent <= n
      BY <1>3, <1>l DEF IsFirstOf
    <3>2. mNextEvent # r
      BY <1>t, <1>11, <2>2, <3>1
    <3> QED
      BY <1>9, <2>1, <3>1, <3>2 DEF IsFirstOf
  <2>5. IsLastOf(Numbers', mLastEvent')
    <3>1. mLastEvent \in Numbers /\ \A n \in Numbers : n <= mLastEvent
      BY <1>3, <1>l DEF IsLastOf
    <3>2. CASE next[r] = 0
      <4>1. \A n \in Numbers : n # r => n <= prev
        <5>1. ASSUME NEW n \in Numbers, n # r PROVE ~ (prev < n)
          BY <1>t, <1>11, <1>13, <2>2, <3>2, <5>1
        <5> QED
          BY <1>t, <2>2, <5>1
      <4>2. prev # r
        BY <1>11, <2>2
      <4> QED
        BY <1>9, <1>12, <2>2, <3>2, <4>1, <4>2 DEF IsLastOf
    <3>3. CASE next[r] # 0
      <4>1. mLastEvent # r
        BY <1>t, <1>11, <1>14, <3>1, <3>3
      <4> QED
        BY <1>9, <1>12, <3>1, <3>3, <4>1 DEF IsLastOf
    <3> QED
      BY <3>2, <3>3
  <2>6. IsFirstOf(Above(prev), next'[prev])
    <3>1. ASSUME NEW m \in Numbers PROVE (m # r /\ prev < m) <=> r < m
      BY <1>t, <1>11, <2>2
    <3>2. Above(prev) = Later(r)
      BY <1>9, <3>1, <2>2 DEF Later
    <3> QED
      BY <1>11, <2>3, <3>2
  <2>7. ASSUME NEW n \in Numbers', n # prev PROVE IsFirstOf(Above(n), next'[n])
    <3>1. n \in Numbers /\ n # r /\ next'[n] = next[n] /\ IsFirstOf(Later(n), next[n])
      BY <1>9, <1>l, <2>3, <2>7
    <3>2. CASE n < r
      <4>1. n < prev
        BY <1>t, <1>11, <2>2, <2>7, <3>1, <3>2
      <4>2. Later(n) # {} /\ next[n] \in Later(n) /\ next[n] <= prev
            /\ \A m \in Later(n) : next[n] <= m
        BY <2>2, <3>1, <4>1 DEF IsFirstOf, Later
      <4>3. next[n] # r
        BY <1>11, <2>2, <4>2
      <4>4. Above(n) = Later(n) \ {r}
        BY <1>9 DEF Later
      <4> QED
        BY <3>1, <4>2, <4>3, <4>4 DEF IsFirstOf
    <3>3. CASE ~ (n < r)
      <4>1. Above(n) = Later(n)
        BY <1>9, <3>1, <3>3 DEF Later
      <4> QED
        BY <3>1, <4>1
    <3> QED
      BY <3>2, <3>3
  <2>8. \A n \in Numbers' : IsFirstOf(Above(n), next'[n])
    BY <2>6, <2>7
  <2> QED
    BY <1>10, <1>d, <2>3, <2>4, <2>5, <2>8 DEF Linked
<1> QED
  BY <1>5, <1>p, <1>q

LEMMA StepLinked ==
  ASSUME ListFacts, [ChainNext]_allVars
  PROVE  Linked'
<1>1. CASE UNCHANGED <<listVars, chainVars>>
  <2>1. Numbers' = Numbers
    BY <1>1 DEF listVars, Numbers
  <2>2. \A n : Later(n)' = Later(n)
    BY <2>1 DEF Later
  <2> QED
    BY <1>1, <2>1, <2>2 DEF ListFacts, Linked, listVars, chainVars, IsFirstOf, IsLastOf
<1> QED
  BY <1>1, ChainSteps, PostLinks, TakeUnlinks

\* The chain of pointers is the list: what is taken out of the middle by a
\* narrow mask, or from the end, leaves it whole, and its tail pointer true.
THEOREM ChainIsTheList == ChainSpec => []ChainIsList
<1>1. ChainInit => Linked
  <2>1. ASSUME ChainInit PROVE Numbers = {} /\ posted = 0 /\ kind = <<>>
                /\ mNextEvent = 0 /\ mLastEvent = 0 /\ next = [e \in 1..MaxPosts |-> 0]
                /\ queued = {}
    BY <2>1 DEF ChainInit, Init, List!Init, List!Events, List!nil, Numbers
  <2>2. MaxPosts \in Nat
    BY EventAssumption
  <2> QED
    BY <2>1, <2>2 DEF Linked, IsFirstOf, IsLastOf
<1>2. IInv /\ NothingLost /\ Linked /\ [ChainNext]_allVars => Linked'
  BY StepLinked DEF ListFacts
<1>3. IInv /\ NothingLost /\ Linked => ChainIsList
  BY LinkedIsList DEF ListFacts
<1>4. ChainSpec => []IInv /\ []NothingLost
  BY ChainHasBoth, EventInvariance, Conservation, PTL
<1> QED
  BY <1>1, <1>2, <1>3, <1>4, PTL DEF ChainSpec
=============================================================================
