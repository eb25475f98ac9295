------------------------------ MODULE Semaphore ------------------------------
(***************************************************************************)
(* TDCLPThreads::TSemaphore (DCL/Interfaces/POSIX/TDCLPThreads.cpp), the   *)
(* counter, mutex and condition variable behind every lock of the library, *)
(* in its first documented use: the protection of a resource by threads    *)
(* that each Acquire and then Release.                                     *)
(*                                                                         *)
(* Everything a thread does between pthread_mutex_lock and the unlock (or  *)
(* the wait, which unlocks) is one action.  Acquire does not re-test its   *)
(* condition after pthread_cond_wait, and POSIX lets that call return      *)
(* without a signal: SemSpec is the semaphore on a platform where it does  *)
(* not, SpuriousSpec where it may.                                         *)
(***************************************************************************)
EXTENDS Integers, FiniteSets

CONSTANT Threads    \* the threads that use the semaphore

ASSUME SemAssumption == IsFiniteSet(Threads)

VARIABLES
  mNbThreads,  \* the KUInt32 counter: threads that own or want the semaphore
  waiting,     \* threads inside pthread_cond_wait
  woken,       \* threads whose wait ended and that now re-lock mMutex
  owners       \* threads that returned from Acquire and not yet Released

semVars == <<mNbThreads, waiting, woken, owners>>

SemTypeOK ==
  /\ mNbThreads \in Nat
  /\ waiting \in SUBSET Threads
  /\ woken \in SUBSET Threads
  /\ owners \in SUBSET Threads

SemInit == mNbThreads = 0 /\ waiting = {} /\ woken = {} /\ owners = {}

Idle(t) == t \notin waiting \cup woken \cup owners

\* Mutant: the counter is tested before it is incremented.
AcquireFreeTestFirst(t) ==
  /\ Idle(t)
  /\ mNbThreads <= 1
  /\ mNbThreads' = mNbThreads + 1
  /\ owners' = owners \cup {t}
  /\ UNCHANGED <<waiting, woken>>

\* Acquire on a free semaphore: the counter goes to one and the call returns.
AcquireFree(t) ==
  /\ Idle(t)
  /\ mNbThreads + 1 <= 1
  /\ mNbThreads' = mNbThreads + 1
  /\ owners' = owners \cup {t}
  /\ UNCHANGED <<waiting, woken>>

\* Acquire on a taken semaphore: the caller waits, counted.
AcquireWait(t) ==
  /\ Idle(t)
  /\ mNbThreads + 1 > 1
  /\ mNbThreads' = mNbThreads + 1
  /\ waiting' = waiting \cup {t}
  /\ UNCHANGED <<woken, owners>>

\* The wait ends: the caller has mMutex again, and Acquire returns.
AcquireReturn(t) ==
  /\ t \in woken
  /\ woken' = woken \ {t}
  /\ owners' = owners \cup {t}
  /\ UNCHANGED <<mNbThreads, waiting>>

\* pthread_cond_signal: one waiter, any of them, or nobody when none waits.
Signal ==
  \/ /\ waiting = {}
     /\ UNCHANGED <<waiting, woken>>
  \/ \E w \in waiting : /\ waiting' = waiting \ {w}
                        /\ woken' = woken \cup {w}

\* Release by an owner: signal exactly when the counter stays positive.
Release(t) ==
  /\ t \in owners
  /\ owners' = owners \ {t}
  /\ mNbThreads' = mNbThreads - 1
  /\ \/ mNbThreads - 1 > 0 /\ Signal
     \/ ~(mNbThreads - 1 > 0) /\ UNCHANGED <<waiting, woken>>

\* The platform: a pthread_cond_wait that returns without a signal.
SpuriousWakeUp(t) ==
  /\ t \in waiting
  /\ waiting' = waiting \ {t}
  /\ woken' = woken \cup {t}
  /\ UNCHANGED <<mNbThreads, owners>>

ThreadStep(t) ==
  AcquireFree(t) \/ AcquireWait(t) \/ AcquireReturn(t) \/ Release(t)

SemNext == \E t \in Threads : ThreadStep(t)

SemSpec == SemInit /\ [][SemNext]_semVars

SpuriousNext == SemNext \/ \E t \in Threads : SpuriousWakeUp(t)

SpuriousSpec == SemInit /\ [][SpuriousNext]_semVars

(***************************************************************************)
(* Properties.                                                             *)
(***************************************************************************)
\* The protected resource has at most one owner: two threads are never both
\* past Acquire, whatever the order of signals, waits and returns.
MutualExclusion == \A s, t \in owners : s = t

\* No lost hand-over: Release signals only while the counter is positive, so
\* threads never all wait for a semaphore that nobody owns or is about to own.
NoLostHandOver == waiting # {} => owners \cup woken # {}

\* The counter tells the truth: it is zero exactly when no thread uses or wants
\* the semaphore, which is what the destructor throws on.
BusyIsTrue == (mNbThreads = 0) <=> (\A t \in Threads : Idle(t))

\* No barging: while threads queue, a semaphore given back goes to one of them
\* and a newcomer cannot take it first.
NoBarging ==
  [][\A t \in Threads : AcquireFree(t) => waiting = {} /\ woken = {}]_semVars

(***************************************************************************)
(* What a lock promises, and the proof that this one keeps the promise.    *)
(***************************************************************************)
Lock == INSTANCE AbstractLock WITH
          Clients <- Threads,
          holding <- owners,
          asking  <- waiting \cup woken

ImplementsLock == Lock!LockSpec

InUse == waiting \cup woken \cup owners

\* The counter counts the threads that wait, were woken or own the semaphore,
\* and a thread is one of these at a time.  Waits that end by themselves do not
\* disturb it.
Counted ==
  /\ SemTypeOK
  /\ mNbThreads = Cardinality(InUse)
  /\ waiting \cap (woken \cup owners) = {}
  /\ woken \cap owners = {}

\* What the whole argument rests on: besides, one thread owns the semaphore or
\* has been handed it, and the others queue.
SemIInv ==
  /\ Counted
  /\ \A s, t \in woken \cup owners : s = t
  /\ waiting # {} => woken \cup owners # {}
=============================================================================
