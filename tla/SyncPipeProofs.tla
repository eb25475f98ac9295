--------------------------- MODULE SyncPipeProofs ---------------------------
(***************************************************************************)
(* Proofs about the pipe of a synchronous layer, for any number of         *)
(* sessions, of commands, of waits that end by themselves and of signals.  *)
(***************************************************************************)
EXTENDS SyncPipe, TLAPS

LEMMA InitIInv == Init => IInv
<1> SUFFICES ASSUME Init PROVE IInv
  OBVIOUS
<1> USE DEF Init, SleepInit
<1>1. TypeOK /\ unread <= sent
  <2>1. SleepTypeOK
    BY DEF SleepTypeOK
  <2>2. inPair \in BOOLEAN /\ closed \in BOOLEAN /\ peerGone \in BOOLEAN
    OBVIOUS
  <2> QED
    BY <2>1, <2>2, PipeAssumption DEF TypeOK
<1>2. ThreadState /\ Phases /\ TurnKept /\ LastTurn
  BY DEF ThreadState, Phases, TurnKept, LastTurn
<1>3. TurnsPaid
  BY DEF TurnsPaid, Turns, Started
<1> QED
  BY <1>1, <1>2, <1>3 DEF IInv

\* The thread of the pipe: a turn is in store, becomes a wait for data, and is
\* used up by an announcement or by the end of the thread, asked for or not.
LEMMA PipeStepIInv ==
  ASSUME IInv, PipeStep \/ SelectBreaks
  PROVE  IInv'
<1> USE PipeAssumption DEF IInv, TypeOK, SleepTypeOK, ThreadState, Phases, TurnKept,
        LastTurn, TurnsPaid, Turns, Started, socket, linkVars, rest, account, sleepVars
<1>1. CASE PipeSleeps
  BY <1>1 DEF PipeSleeps, SleepNot, FallAsleep
<1>2. CASE PipeAwakes
  BY <1>2 DEF PipeAwakes, Awake
<1>3. CASE SelectWaits
  BY <1>3 DEF SelectWaits
<1>4. CASE SelectFindsData
  BY <1>4 DEF SelectFindsData
<1>5. CASE SelectEnds
  <2>1. TypeOK' /\ (unread <= sent)'
    BY <1>5 DEF SelectEnds, EndThread
  <2>2. TurnsPaid'
    BY <1>5 DEF SelectEnds, EndThread
  <2>3. ThreadState' /\ Phases' /\ TurnKept' /\ LastTurn'
    BY <1>5 DEF SelectEnds, EndThread
  <2> QED
    BY <2>1, <2>2, <2>3
<1>6. CASE DataPresent
  BY <1>6 DEF DataPresent
<1>7. CASE SelectBreaks
  <2>1. TypeOK' /\ (unread <= sent)'
    BY <1>7 DEF SelectBreaks, EndThread
  <2>2. TurnsPaid'
    BY <1>7 DEF SelectBreaks, EndThread
  <2>3. ThreadState' /\ Phases' /\ TurnKept' /\ LastTurn'
    BY <1>7 DEF SelectBreaks, EndThread
  <2> QED
    BY <2>1, <2>2, <2>3
<1> QED
  BY <1>1, <1>2, <1>3, <1>4, <1>5, <1>6, <1>7 DEF PipeStep

\* The thread of the link: only ClearDataPresent touches the turns, and it
\* leaves at least one.
LEMMA LinkStepIInv ==
  ASSUME IInv, LinkStep \/ Exchange \/ LeavePipe
  PROVE  IInv'
<1> USE PipeAssumption DEF IInv, TypeOK, SleepTypeOK, ThreadState, Phases, TurnKept,
        LastTurn, TurnsPaid, Turns, Started, socket, pipeVars, rest, account, sleepVars
<1>1. CASE Connected
  BY <1>1 DEF Connected, StartThread
<1>2. ASSUME NEW from \in {"greet", "running", "look"}, NEW to \in {"clear", "running"},
             to = "running" => from = "running", ReadPipe(from, to)
      PROVE  IInv'
  BY <1>2 DEF ReadPipe
<1>3. CASE Greet
  BY <1>2, <1>3 DEF Greet
<1>4. CASE Exchange
  BY <1>2, <1>4 DEF Exchange
<1>5. CASE TakeDataEvent
  BY <1>5 DEF TakeDataEvent
<1>6. CASE LookAndRead
  BY <1>2, <1>6 DEF LookAndRead
<1>7. CASE LookInVain
  BY <1>7 DEF LookInVain
<1>8. CASE ClearDataPresent
  BY <1>8 DEF ClearDataPresent, WakeUp
<1>9. CASE LeavePipe
  BY <1>9 DEF LeavePipe
<1> QED
  BY <1>1, <1>3, <1>4, <1>5, <1>6, <1>7, <1>8, <1>9 DEF LinkStep

\* The server, the Newton and the platform.
LEMMA OtherStepIInv ==
  ASSUME IInv, \/ ServerStep \/ DeletePipe \/ Accept
               \/ NewtonSends \/ NewtonCloses \/ WaitEndsByItself
  PROVE  IInv'
<1> USE PipeAssumption DEF IInv, TypeOK, SleepTypeOK, ThreadState, Phases, TurnKept,
        LastTurn, TurnsPaid, Turns, Started, socket, pipeVars, linkVars, rest, account, sleepVars
<1>1. CASE Disconnect
  BY <1>1 DEF Disconnect
<1>2. CASE CloseSocket
  BY <1>2 DEF CloseSocket
<1>3. CASE WakePipe
  BY <1>3 DEF WakePipe, WakeUp
<1>4. CASE DisconnectReturns
  BY <1>4 DEF DisconnectReturns
<1>5. CASE DeletePipe
  BY <1>5 DEF DeletePipe
<1>6. CASE Accept
  <2>1. inPair' \in BOOLEAN /\ closed' \in BOOLEAN /\ peerGone' \in BOOLEAN
    BY <1>6 DEF Accept
  <2>2. TypeOK' /\ (unread <= sent)'
    BY <1>6, <2>1 DEF Accept
  <2>3. TurnsPaid'
    BY <1>6 DEF Accept
  <2>4. ThreadState' /\ Phases' /\ TurnKept' /\ LastTurn'
    BY <1>6 DEF Accept
  <2> QED
    BY <2>2, <2>3, <2>4
<1>7. CASE NewtonSends
  BY <1>7 DEF NewtonSends
<1>8. CASE NewtonCloses
  BY <1>8 DEF NewtonCloses
<1>9. CASE WaitEndsByItself
  BY <1>9 DEF WaitEndsByItself, SpuriousReturn
<1> QED
  BY <1>1, <1>2, <1>3, <1>4, <1>5, <1>6, <1>7, <1>8, <1>9 DEF ServerStep

LEMMA StutterIInv ==
  ASSUME IInv, UNCHANGED vars
  PROVE  IInv'
BY DEF vars, socket, pipeVars, linkVars, rest, account, sleepVars, IInv, TypeOK,
       SleepTypeOK, ThreadState, Phases, TurnKept, LastTurn, TurnsPaid, Turns, Started

\* The inductive invariant: turns are paid for and never lost, and the parties
\* are where the others believe them to be; the thread of an open session that has
\* ended was ended by a signal or an error.
THEOREM Invariance == Spec => []IInv
<1>1. ASSUME IInv, [Next]_vars PROVE IInv'
  BY <1>1, PipeStepIInv, LinkStepIInv, OtherStepIInv, StutterIInv DEF Next
<1> QED
  BY <1>1, InitIInv, PTL DEF Spec

\* DataPresent is called again only when the link has asked for it, also for
\* events that a session leaves to the next one.
THEOREM Announcements == Spec => []OneAnnouncement
<1>1. IInv => OneAnnouncement
  BY DEF IInv, TypeOK, SleepTypeOK, ThreadState, LastTurn, TurnsPaid, Turns, Started, OneAnnouncement
<1> QED
  BY <1>1, Invariance, PTL

\* Once Disconnect has returned the pipe may be deleted: its thread has ended.
THEOREM Deletion == Spec => []SafeToDelete
<1>1. IInv => SafeToDelete
  BY DEF IInv, Phases, SafeToDelete
<1> QED
  BY <1>1, Invariance, PTL
=============================================================================
