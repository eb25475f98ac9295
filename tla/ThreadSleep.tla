----------------------------- MODULE ThreadSleep -----------------------------
(***************************************************************************)
(* The life and the sleep of one thread: TThread::Start, Run, Sleep,       *)
(* WakeUp and GetState (DCL/Interfaces/POSIX/TDCLPThreads.cpp).  The       *)
(* module has no behaviour of its own: the modules of the threads of the   *)
(* library extend or instantiate it and use its steps in theirs.           *)
(*                                                                         *)
(* Start holds mMutex until Run has set mState, so that a started thread   *)
(* is running, asleep or stopped again by the time Start returns; it is    *)
(* one step here.                                                          *)
(***************************************************************************)
EXTENDS Integers

VARIABLES
  mState,      \* TThread::mState: "stopped", "running" or "sleeping"
  mWakeCount,  \* TThread::mWakeCount
  waitEnd      \* why pthread_cond_wait will return: "no", "signal", "timeout"

sleepVars == <<mState, mWakeCount, waitEnd>>

SleepTypeOK == /\ mState \in {"stopped", "running", "sleeping"}
               /\ mWakeCount \in Nat
               /\ waitEnd \in {"no", "signal", "timeout"}

SleepInit(state) == mState = state /\ mWakeCount = 0 /\ waitEnd = "no"

\* Start of a stopped thread; with any other it throws DCLThreadActive.  The
\* count of wake-ups is left as the last run of the thread left it.
StartThread == /\ mState = "stopped"
               /\ mState' = "running"
               /\ UNCHANGED <<mWakeCount, waitEnd>>

\* Run returns.
EndThread == /\ mState' = "stopped"
             /\ UNCHANGED <<mWakeCount, waitEnd>>

\* Mutant: a wake-up that finds the thread awake is not kept in store.
WakeUpUncounted ==
  /\ waitEnd' = IF mState = "sleeping" /\ waitEnd = "no" THEN "signal" ELSE waitEnd
  /\ UNCHANGED <<mState, mWakeCount>>

\* WakeUp: a sleeping thread is signalled and the call is not counted, even if
\* the thread was already signalled; any other thread finds the call counted.
WakeUp ==
  /\ \/ /\ mState = "sleeping"
        /\ waitEnd' = IF waitEnd = "no" THEN "signal" ELSE waitEnd
        /\ UNCHANGED mWakeCount
     \/ /\ mState # "sleeping"
        /\ mWakeCount' = mWakeCount + 1
        /\ UNCHANGED waitEnd
  /\ UNCHANGED mState

\* Sleep with a wake-up in store uses it up and returns at once, ...
SleepNot == /\ mWakeCount > 0
            /\ mWakeCount' = mWakeCount - 1
            /\ UNCHANGED <<mState, waitEnd>>

\* ... and otherwise waits.
FallAsleep == /\ ~(mWakeCount > 0)
              /\ mState' = "sleeping"
              /\ waitEnd' = "no"
              /\ UNCHANGED mWakeCount

\* The platform ends the wait: its time is up, or for no reason at all (POSIX).
TimeIsUp == /\ mState = "sleeping" /\ waitEnd = "no"
            /\ waitEnd' = "timeout"
            /\ UNCHANGED <<mState, mWakeCount>>

SpuriousReturn == /\ mState = "sleeping" /\ waitEnd = "no"
                  /\ waitEnd' = "signal"
                  /\ UNCHANGED <<mState, mWakeCount>>

\* Sleep returns, true if its time was up.
Awake == /\ mState = "sleeping" /\ waitEnd # "no"
         /\ mState' = "running"
         /\ waitEnd' = "no"
         /\ UNCHANGED mWakeCount
=============================================================================
