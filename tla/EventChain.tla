----------------------------- MODULE EventChain -----------------------------
(***************************************************************************)
(* A thread with events, on its list as it is and behind its lock as it    *)
(* is: EventThread, which knows the list as a set, EventList, the chain of *)
(* pointers, and Semaphore, mQueueSemaphore, go in step.  PostEvent and    *)
(* WaitNextEvent touch the list between Acquire and Release, so what they  *)
(* do to the chain and to the set is one step of the owner.                *)
(*                                                                         *)
(* Where a thread is follows from what it has: a poster that is "idle" and *)
(* asks for the semaphore has called PostEvent, one in "wake" that owns it *)
(* has linked its event, one in "wake" that does not is at WakeUp.         *)
(***************************************************************************)
EXTENDS EventThread, Semaphore

CONSTANT Waiter   \* the thread that calls WaitNextEvent

ASSUME ThreadsAssumption == Waiter \notin Posters /\ Threads = Posters \cup {Waiter}

VARIABLES mNextEvent, mLastEvent, next, kind   \* the chain: see EventList

List == INSTANCE EventList

chainVars == <<mNextEvent, mLastEvent, next, kind>>
threadVars == <<vars, chainVars>>
allVars == <<threadVars, semVars>>

ChainInit == Init /\ List!Init /\ SemInit

(* Aside from the semaphore, and aside from the list.                      *)
Unlocked(t, step) == t \notin owners /\ step /\ UNCHANGED <<chainVars, semVars>>

(* Calls of PostEvent whose event is not in the list yet.                  *)
Posting == {p \in Posters : posterPc[p] = "idle" /\ ~Idle(p)}

(* The thread is about to look at the list, or to add to it.               *)
BeforeList(t) == IF t = Waiter THEN waiterPc = "scan" ELSE posterPc[t] = "idle"

(* Acquire, in both functions.                                             *)
Acquire(t) ==
  /\ BeforeList(t)
  /\ t \in Posters => posted + Cardinality(Posting) < MaxPosts
  /\ AcquireFree(t) \/ AcquireWait(t)
  /\ UNCHANGED threadVars

AcquireReturns(t) == AcquireReturn(t) /\ UNCHANGED threadVars

(* PostEvent, with the kind of the event put in the set.                   *)
Post(p) ==
  /\ p \in owners
  /\ AppendEvent(p)
  /\ List!PostEvent
  /\ [n |-> posted', kind |-> kind'[posted']] \in queued'
  /\ UNCHANGED semVars

(* WaitNextEvent finds an event in the set exactly when its walk does.     *)
Take == TakeFirst /\ List!TakeEvent(mask)

Scan ==
  /\ Waiter \in owners
  /\ Take \/ (FindNothing /\ UNCHANGED chainVars)
  /\ UNCHANGED semVars

(* Release, once the list was seen to.                                     *)
Give(t) == ~BeforeList(t) /\ Release(t) /\ UNCHANGED threadVars

WaitStep == Unlocked(Waiter, DoNotSleep \/ GoToSleep \/ WakeAndLook)

(* What a thread inside PostEvent or WaitNextEvent does next.              *)
PosterStep(p) ==
  \/ AcquireReturns(p) \/ Post(p) \/ Give(p)
  \/ Unlocked(p, PostWakeUp(p))

WaiterStepOnList ==
  Acquire(Waiter) \/ AcquireReturns(Waiter) \/ Scan \/ Give(Waiter) \/ WaitStep

ChainNext ==
  \/ \E p \in Posters : Acquire(p) \/ PosterStep(p)
  \/ WaiterStepOnList
  \/ Unlocked(Waiter, CallWaitNextEvent) \/ (Platform /\ UNCHANGED <<chainVars, semVars>>)

(* The fairness of EventThread, for the steps on the real list: a thread   *)
(* inside a call is scheduled again, whoever owns the semaphore gives it   *)
(* back.                                                                   *)
ChainSpec == /\ ChainInit /\ [][ChainNext]_allVars
             /\ WF_allVars(WaiterStepOnList)
             /\ \A p \in Posters : WF_allVars(PosterStep(p))

(* The chain holds the events of the set, in order of arrival, and its     *)
(* tail pointer is never stale: events taken out of the middle by a narrow *)
(* mask, or from the end, leave the pointers as the next PostEvent needs   *)
(* them.                                                                   *)
ChainIsList ==
  /\ {[n |-> e, kind |-> kind[e]] : e \in List!Chain} = queued
  /\ List!ChainInOrder
  /\ List!TailIsLast

(* The same, pointer by pointer: what the chain looks like between two     *)
(* calls, said without a walk along it.                                    *)
Numbers == {e.n : e \in queued}
Later(n) == {m \in Numbers : n < m}

IsFirstOf(S, m) == IF S = {} THEN m = 0 ELSE m \in S /\ \A n \in S : m <= n
IsLastOf(S, m) == IF S = {} THEN m = 0 ELSE m \in S /\ \A n \in S : n <= m

Linked ==
  /\ next \in [1..MaxPosts -> 0..MaxPosts]
  /\ DOMAIN kind = 1..posted
  /\ \A e \in queued : e.kind = kind[e.n]
  /\ IsFirstOf(Numbers, mNextEvent)
  /\ IsLastOf(Numbers, mLastEvent)
  /\ \A n \in Numbers : IsFirstOf(Later(n), next[n])
=============================================================================
