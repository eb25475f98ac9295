------------------------------ MODULE EventList ------------------------------
(***************************************************************************)
(* The list of events of a TDCLThread (DCL/Interfaces/TDCLThread.cpp): a   *)
(* chain of TDCLEvent objects from mNextEvent, with mLastEvent pointing at *)
(* its tail.  PostEvent links at the tail, WaitNextEvent unlinks the first *)
(* event its mask lets through, wherever it is.  Both hold the queue       *)
(* semaphore, so each is one step; what is delicate is the pair of         *)
(* pointers, not the interleaving.                                         *)
(***************************************************************************)
EXTENDS Integers

CONSTANTS Kinds, Masks,
          MaxPosts   \* bound: events ever posted; an event is its number

VARIABLES
  mNextEvent,    \* head of the chain, or nil
  mLastEvent,    \* tail of the chain, or nil
  next,          \* per event: TDCLEvent::mNextEvent
  kind,          \* per posted event: its kind
  posted

vars == <<mNextEvent, mLastEvent, next, kind, posted>>

nil == 0
Events == 1..MaxPosts

Init == /\ mNextEvent = nil /\ mLastEvent = nil
        /\ next = [e \in Events |-> nil]
        /\ posted = 0 /\ kind = <<>>

\* The k-th event of the chain, nil past its end.
ChainAt[k \in Nat] ==
  IF k = 0 THEN mNextEvent
  ELSE IF ChainAt[k - 1] = nil THEN nil ELSE next[ChainAt[k - 1]]

\* Mutant: a fresh event goes to the head.
PostAtHead ==
  /\ posted < MaxPosts
  /\ \E k \in Kinds : kind' = [e \in 1..posted + 1 |->
                                 IF e = posted + 1 THEN k ELSE kind[e]]
  /\ posted' = posted + 1
  /\ mNextEvent' = posted + 1
  /\ mLastEvent' = IF mLastEvent = nil THEN posted + 1 ELSE mLastEvent
  /\ next' = [next EXCEPT ![posted + 1] = mNextEvent]

\* TDCLThread::PostEvent, with a fresh event.
PostEvent ==
  /\ posted < MaxPosts
  /\ \E k \in Kinds : kind' = [e \in 1..posted + 1 |->
                                 IF e = posted + 1 THEN k ELSE kind[e]]
  /\ posted' = posted + 1
  /\ \/ /\ mLastEvent = nil
        /\ mNextEvent' = posted + 1
        /\ mLastEvent' = posted + 1
        /\ next' = [next EXCEPT ![posted + 1] = nil]
     \/ /\ mLastEvent # nil
        /\ next' = [next EXCEPT ![mLastEvent] = posted + 1, ![posted + 1] = nil]
        /\ mLastEvent' = posted + 1
        /\ UNCHANGED mNextEvent

\* The walk of WaitNextEvent stops at the first event the mask lets through.
StopsAt(m, k) ==
  /\ ChainAt[k] # nil
  /\ kind[ChainAt[k]] \in m
  /\ \A j \in 0..k - 1 : kind[ChainAt[j]] \notin m

\* Mutant: the tail pointer is forgotten when the tail is taken.
UnlinkKeepsTail(theResult, thePreviousEvent) ==
  /\ \/ /\ thePreviousEvent # nil
        /\ next' = [next EXCEPT ![thePreviousEvent] = next[theResult]]
        /\ UNCHANGED mNextEvent
     \/ /\ thePreviousEvent = nil
        /\ mNextEvent' = next[theResult]
        /\ UNCHANGED next
  /\ UNCHANGED mLastEvent

Unlink(theResult, thePreviousEvent) ==
  /\ \/ /\ thePreviousEvent # nil
        /\ next' = [next EXCEPT ![thePreviousEvent] = next[theResult]]
        /\ UNCHANGED mNextEvent
     \/ /\ thePreviousEvent = nil
        /\ mNextEvent' = next[theResult]
        /\ UNCHANGED next
  /\ mLastEvent' = IF next[theResult] = nil THEN thePreviousEvent
                   ELSE mLastEvent

\* WaitNextEvent, when its walk finds an event.
TakeEvent(m) ==
  /\ \E k \in 0..posted :
       /\ StopsAt(m, k)
       /\ Unlink(ChainAt[k], IF k = 0 THEN nil ELSE ChainAt[k - 1])
  /\ UNCHANGED <<kind, posted>>

(* The module EventChain runs these steps with those of EventThread.       *)

-----------------------------------------------------------------------------
Chain == {ChainAt[k] : k \in 0..posted} \ {nil}

\* The tail pointer is never stale: it is nil exactly when the list is empty,
\* and otherwise the one event of the chain that has no successor.
TailIsLast ==
  /\ mLastEvent = nil <=> mNextEvent = nil
  /\ mNextEvent # nil => /\ mLastEvent \in Chain
                         /\ \A e \in Chain : next[e] = nil <=> e = mLastEvent

\* The chain runs in order of arrival.
ChainInOrder == \A e \in Chain : next[e] # nil => e < next[e]

=============================================================================
