----------------------------- MODULE EventThread -----------------------------
(***************************************************************************)
(* A thread that waits for events: TDCLThread::PostEvent and WaitNextEvent *)
(* (DCL/Interfaces/TDCLThread.cpp) over TThread::Sleep and WakeUp          *)
(* (DCL/Interfaces/POSIX/TDCLPThreads.cpp).  The server and every link are *)
(* such threads; the sleep of one thread is the module ThreadSleep.        *)
(*                                                                         *)
(* The list of events and the sleep state are guarded by two different     *)
(* locks, so scanning the list, going to sleep, appending and waking up    *)
(* are separate steps that interleave freely.  The list itself, with its   *)
(* pointers, is the module EventList; here it is the set of the events it  *)
(* holds, numbered in the order in which they were appended.               *)
(***************************************************************************)
EXTENDS ThreadSleep

CONSTANTS Posters,   \* the threads that call PostEvent
          Kinds,     \* event kinds: the bits of TDCLEvent::EEventKind
          Masks,     \* the sets of kinds WaitNextEvent is called with
          MaxPosts   \* bound: PostEvent calls in a behaviour

ASSUME EventAssumption ==
  /\ Masks \subseteq SUBSET Kinds
  /\ MaxPosts \in Nat

VARIABLES
  queued,      \* the list: records [n |-> arrival number, kind |-> kind]
  posted,      \* number of events appended so far
  handed,      \* arrival numbers that WaitNextEvent returned to its caller
  posterPc,    \* per poster: "idle", or "wake" between append and WakeUp
  waiterPc,    \* the waiting thread: "out", "scan", "sleep", "asleep"
  mask,        \* inEventMask of the call in progress
  forever      \* inMilliseconds = kForever

listVars == <<queued, posted, handed>>
callVars == <<mask, forever>>
vars     == <<listVars, posterPc, waiterPc, callVars, sleepVars>>

Event == [n : 1..MaxPosts, kind : Kinds]

TypeOK == /\ queued \in SUBSET Event
          /\ posted \in 0..MaxPosts
          /\ handed \in SUBSET (1..MaxPosts)
          /\ posterPc \in [Posters -> {"idle", "wake"}]
          /\ waiterPc \in {"out", "scan", "sleep", "asleep"}
          /\ mask \in SUBSET Kinds
          /\ forever \in BOOLEAN
          /\ SleepTypeOK

Init == /\ queued = {} /\ posted = 0 /\ handed = {}
        /\ posterPc = [p \in Posters |-> "idle"]
        /\ waiterPc = "out" /\ mask = {} /\ forever = TRUE
        /\ SleepInit("running")

Matching(m) == {e \in queued : e.kind \in m}

-----------------------------------------------------------------------------
(* The posting threads.                                                    *)

\* PostEvent, up to the release of the queue semaphore.
AppendEvent(p) ==
  /\ posterPc[p] = "idle"
  /\ posted < MaxPosts
  /\ \E k \in Kinds : queued' = queued \cup {[n |-> posted + 1, kind |-> k]}
  /\ posted' = posted + 1
  /\ posterPc' = [posterPc EXCEPT ![p] = "wake"]
  /\ UNCHANGED <<handed, waiterPc, callVars, sleepVars>>

\* PostEvent, its last line.
PostWakeUp(p) ==
  /\ posterPc[p] = "wake"
  /\ posterPc' = [posterPc EXCEPT ![p] = "idle"]
  /\ WakeUp
  /\ UNCHANGED <<listVars, waiterPc, callVars>>

-----------------------------------------------------------------------------
(* The waiting thread.                                                     *)

CallWaitNextEvent ==
  /\ waiterPc = "out"
  /\ mask' \in Masks
  /\ forever' \in BOOLEAN
  /\ waiterPc' = "scan"
  /\ UNCHANGED <<listVars, posterPc, sleepVars>>

\* Mutants: the event stays in the list; the last match is taken.
TakeKeeps ==
  /\ waiterPc = "scan"
  /\ \E e \in Matching(mask) :
       /\ \A f \in Matching(mask) : e.n <= f.n
       /\ handed' = handed \cup {e.n}
  /\ waiterPc' = "out"
  /\ UNCHANGED <<queued, posted, posterPc, callVars, sleepVars>>
TakeLast ==
  /\ waiterPc = "scan"
  /\ \E e \in Matching(mask) :
       /\ \A f \in Matching(mask) : e.n >= f.n
       /\ queued' = queued \ {e}
       /\ handed' = handed \cup {e.n}
  /\ waiterPc' = "out"
  /\ UNCHANGED <<posted, posterPc, callVars, sleepVars>>

\* The scan finds an event: the first that matches leaves the list.
TakeFirst ==
  /\ waiterPc = "scan"
  /\ \E e \in Matching(mask) :
       /\ \A f \in Matching(mask) : e.n <= f.n
       /\ queued' = queued \ {e}
       /\ handed' = handed \cup {e.n}
  /\ waiterPc' = "out"
  /\ UNCHANGED <<posted, posterPc, callVars, sleepVars>>

FindNothing ==
  /\ waiterPc = "scan"
  /\ Matching(mask) = {}
  /\ waiterPc' = "sleep"
  /\ UNCHANGED <<listVars, posterPc, callVars, sleepVars>>

\* Sleep with a wake-up in store: look at the list again.
DoNotSleep ==
  /\ waiterPc = "sleep"
  /\ SleepNot
  /\ waiterPc' = "scan"
  /\ UNCHANGED <<listVars, posterPc, callVars>>

GoToSleep ==
  /\ waiterPc = "sleep"
  /\ FallAsleep
  /\ waiterPc' = "asleep"
  /\ UNCHANGED <<listVars, posterPc, callVars>>

\* Sleep returns: after the full time WaitNextEvent gives up, else it rescans.
WakeAndLook ==
  /\ waiterPc = "asleep"
  /\ Awake
  /\ waiterPc' = IF waitEnd = "timeout" THEN "out" ELSE "scan"
  /\ UNCHANGED <<listVars, posterPc, callVars>>

WaiterStep == TakeFirst \/ FindNothing \/ DoNotSleep \/ GoToSleep \/ WakeAndLook

\* The platform: the time of a limited wait passes, or a wait ends by itself.
Platform == /\ (~forever /\ TimeIsUp) \/ SpuriousReturn
            /\ UNCHANGED <<listVars, posterPc, waiterPc, callVars>>

Next == \/ \E p \in Posters : AppendEvent(p) \/ PostWakeUp(p)
        \/ CallWaitNextEvent \/ WaiterStep \/ Platform

Spec == Init /\ [][Next]_vars

(***************************************************************************)
(* A thread inside PostEvent or WaitNextEvent is scheduled again.  Nothing *)
(* obliges anyone to post or to call, time to pass, or POSIX to wake       *)
(* anyone up for free.                                                     *)
(***************************************************************************)
FairSpec == Spec /\ WF_vars(WaiterStep)
                 /\ \A p \in Posters : WF_vars(PostWakeUp(p))

-----------------------------------------------------------------------------
Wakers == {p \in Posters : posterPc[p] = "wake"}

\* No lost wake-up: whenever the thread is about to sleep or asleep while an
\* event it waits for is in the list, something will make it look again: a
\* wake-up in store, the end of its wait, or a poster on its way to WakeUp.
WillLookAgain ==
  Matching(mask) # {} =>
    /\ waiterPc = "sleep" => mWakeCount > 0 \/ Wakers # {}
    /\ waiterPc = "asleep" => waitEnd # "no" \/ Wakers # {}

\* Every event is in the list or was handed over, and never twice.
NothingLost ==
  /\ handed \cap {e.n : e \in queued} = {}
  /\ handed \cup {e.n : e \in queued} = 1..posted
  /\ \A e, f \in queued : e.n = f.n => e = f

\* Events are handled in order of arrival among those the mask selects, as the
\* comment of PostEvent says: an event never overtakes one of its own kind.
InOrder ==
  [][\A e \in queued \ queued' : \A f \in queued : f.n < e.n => f.kind # e.kind]_vars

\* A call never sleeps for ever on an event: if an event it waits for is in
\* the list, WaitNextEvent returns, even to a caller that set no time limit.
CallReturns == (waiterPc # "out" /\ Matching(mask) # {}) ~> waiterPc = "out"

\* The whole mechanism is a queue of events read through masks.
Queue == INSTANCE EventQueue WITH
           Kind <- Kinds, Mask <- Masks, Bound <- MaxPosts,
           arrivals <- posted, pending <- queued

ImplementsQueue == Queue!QSpec

\* The invariant behind WillLookAgain: the sleep state follows the program
\* counter, and nobody sleeps with a wake-up in store.
IInv ==
  /\ TypeOK
  /\ mState = (IF waiterPc = "asleep" THEN "sleeping" ELSE "running")
  /\ waiterPc # "asleep" => waitEnd = "no"
  /\ waiterPc = "asleep" => mWakeCount = 0
  /\ waiterPc # "out" => mask \in Masks
  /\ WillLookAgain
=============================================================================
