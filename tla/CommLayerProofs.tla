--------------------------- MODULE CommLayerProofs ---------------------------
(***************************************************************************)
(* Proofs about a layer that waits for Newtons, for any limit of pipes and *)
(* any number of starts, calls, failures and waits that end by themselves. *)
(***************************************************************************)
EXTENDS CommLayer, TLAPS

LEMMA InitIInv == Init => IInv
<1> SUFFICES ASSUME Init PROVE IInv
  OBVIOUS
<1>1. TypeOK
  <2>1. inPair \in BOOLEAN /\ mServer \in BOOLEAN /\ hasty \in BOOLEAN
    BY DEF Init
  <2>2. SleepTypeOK
    BY DEF Init, SleepInit, SleepTypeOK
  <2> QED
    BY <2>1, <2>2, LayerAssumption DEF Init, TypeOK
<1>2. ThreadState /\ Phases
  BY DEF Init, SleepInit, ThreadState, Phases
<1>3. Counted /\ OneTurn /\ TurnKept /\ RequestStillThere
  BY LayerAssumption DEF Init, SleepInit, Counted, OneTurn, TurnKept, RequestStillThere,
     Turns, Announced, Listens, One
<1> QED
  BY <1>1, <1>2, <1>3 DEF IInv

\* The thread of the layer carries the turn from the wait to an event and from
\* a wake-up to the next wait.
LEMMA LayerStepIInv ==
  ASSUME IInv, LayerStep
  PROVE  IInv'
<1> USE LayerAssumption DEF IInv, TypeOK, SleepTypeOK, ThreadState, Phases, Counted,
        OneTurn, TurnKept, RequestStillThere, Turns, Announced, Listens, One, bounds,
        history, pipes, socketVars, sleepVars
<1>1. CASE DoStartListening
  BY <1>1 DEF DoStartListening
<1>2. CASE WaitingConnection
  BY <1>2 DEF WaitingConnection
<1>3. CASE SelectWaits
  BY <1>3 DEF SelectWaits
<1>4. CASE SelectFindsRequest
  BY <1>4 DEF SelectFindsRequest
<1>5. CASE SelectInterrupted
  <2>1. inPair' \in BOOLEAN /\ mServer' \in BOOLEAN /\ hasty' \in BOOLEAN
    BY <1>5 DEF SelectInterrupted, EndThread
  <2>2. TypeOK'
    BY <1>5, <2>1 DEF SelectInterrupted, EndThread
  <2>3. ThreadState' /\ Phases' /\ Counted' /\ OneTurn' /\ TurnKept' /\ RequestStillThere'
    BY <1>5 DEF SelectInterrupted, EndThread
  <2> QED
    BY <2>2, <2>3
<1>6. CASE SelectFails
  BY <1>6 DEF SelectFails, EndThread
<1>7. CASE RequestPresent
  BY <1>7 DEF RequestPresent
<1>8. CASE LayerSleeps
  BY <1>8 DEF LayerSleeps, SleepNot, FallAsleep
<1>9. CASE LayerAwakes
  BY <1>9 DEF LayerAwakes, Awake
<1> QED
  BY <1>1, <1>2, <1>3, <1>4, <1>5, <1>6, <1>7, <1>8, <1>9 DEF LayerStep

\* The thread of the layer ends without being asked: it takes its turn with it.
LEMMA LayerBreaksIInv ==
  ASSUME IInv, StartFails \/ SelectBreaks
  PROVE  IInv'
<1> USE LayerAssumption DEF IInv, TypeOK, SleepTypeOK, ThreadState, Phases, Counted,
        OneTurn, TurnKept, RequestStillThere, Turns, Announced, Listens, One, bounds,
        history, pipes, socketVars, sleepVars
<1>1. CASE StartFails
  BY <1>1 DEF StartFails, EndThread
<1>2. CASE SelectBreaks
  BY <1>2 DEF SelectBreaks, EndThread
<1> QED
  BY <1>1, <1>2

\* The server answers a request and gives the turn back, or fails and keeps it.
LEMMA AnswerIInv ==
  ASSUME IInv, TakeRequest \/ DoAccept \/ DoRefuse \/ AnswerFails \/ NextRequest
               \/ AnswerBreaks
  PROVE  IInv'
<1> USE LayerAssumption DEF IInv, TypeOK, SleepTypeOK, ThreadState, Phases, Counted,
        OneTurn, TurnKept, RequestStillThere, Turns, Announced, Listens, One, bounds,
        history, pipes, socketVars, sleepVars, threadVars
<1>1. CASE TakeRequest
  BY <1>1 DEF TakeRequest
<1>2. CASE DoAccept
  BY <1>2 DEF DoAccept, AnswerRequest
<1>3. CASE DoRefuse
  BY <1>3 DEF DoRefuse, AnswerRequest
<1>4. CASE AnswerFails
  BY <1>4 DEF AnswerFails
<1>5. CASE NextRequest
  BY <1>5 DEF NextRequest, WakeUp
<1>6. CASE AnswerBreaks
  BY <1>6 DEF AnswerBreaks
<1> QED
  BY <1>1, <1>2, <1>3, <1>4, <1>5, <1>6

\* The server starts and stops the layer: the turn it adds to stop it matters only
\* if there is no pair of sockets, since the layer is closed otherwise before it
\* waits again.
LEMMA StartStopIInv ==
  ASSUME IInv, StartListening \/ StopListening \/ WakeLayer \/ StopReturns
  PROVE  IInv'
<1> USE LayerAssumption DEF IInv, TypeOK, SleepTypeOK, ThreadState, Phases, Counted,
        OneTurn, TurnKept, RequestStillThere, Turns, Announced, Listens, One, bounds,
        history, pipes, socketVars, sleepVars, threadVars
<1>1. CASE StartListening
  BY <1>1 DEF StartListening, StartThread
<1>2. CASE StopListening
  <2>1. spare' \in Nat /\ requests' \in Nat
    BY <1>2 DEF StopListening
  <2>2. inPair' \in BOOLEAN /\ hasty' \in BOOLEAN
    BY <1>2, Zenon DEF StopListening
  <2>3. /\ serverPc' = "wake"
        /\ UNCHANGED <<threadVars, sockets, waiting, mServer, starts, calls, free, fails,
                       pipes>>
    BY <1>2 DEF StopListening
  <2>4. TypeOK'
    BY <2>1, <2>2, <2>3
  <2>5. ~inPair' => ~inPair /\ sockets # "open"
    BY <1>2, Zenon DEF StopListening
  <2>6. /\ sockets \in {"none", "unpaired"} => spare' = spare + 1
        /\ requests' <= requests
        /\ serverPc \in {"idle", "failed"}
    BY <1>2 DEF StopListening, Unpaired
  <2>7. OneTurn' /\ TurnKept'
    <3> HIDE DEF IInv, TypeOK, OneTurn, TurnKept, ThreadState, Phases, Counted,
             RequestStillThere, Announced, Listens
    <3>1. /\ requests \in Nat /\ mWakeCount \in Nat /\ requests' \in Nat
          /\ requests' <= requests
          /\ layerPc' = layerPc /\ mWakeCount' = mWakeCount /\ waitEnd' = waitEnd
      BY <2>1, <2>3, <2>6 DEF IInv, TypeOK
    <3>2. /\ One(serverPc \in {"accept", "answered"}) = 0 /\ One(serverPc = "wake") = 0
          /\ One(serverPc \in {"accept", "answered"})' = 0 /\ One(serverPc = "wake")' = 1
      BY <2>3, <2>6
    <3>3. /\ One(waitEnd = "signal")' = One(waitEnd = "signal")
          /\ One(waitEnd = "signal") \in Nat
          /\ One(layerPc \in {"open", "tell", "enter", "blocked", "found"})'
               = One(layerPc \in {"open", "tell", "enter", "blocked", "found"})
          /\ One(layerPc \in {"open", "tell", "enter", "blocked", "found"}) \in Nat
      BY <3>1
    <3>4. One(layerPc # "out") \in Nat
      OBVIOUS
    <3> HIDE DEF One
    <3>5. Turns' <= Turns /\ Turns' \in Int /\ Turns \in Int
      BY <3>1, <3>2, <3>3
    <3> HIDE DEF Turns
    <3>6. One(layerPc # "out")' = One(layerPc # "out")
      BY <2>3 DEF One
    <3> QED
      BY <2>1, <2>3, <2>4, <2>5, <2>6, <3>2, <3>4, <3>5, <3>6
         DEF IInv, TypeOK, OneTurn, TurnKept
  <2>8. RequestStillThere'
    BY <1>2 DEF StopListening, Unpaired
  <2>9. ThreadState' /\ Phases' /\ Counted'
    BY <1>2 DEF StopListening, Unpaired
  <2> QED
    BY <2>4, <2>7, <2>8, <2>9
<1>3. CASE WakeLayer
  BY <1>3 DEF WakeLayer, WakeUp
<1>4. CASE StopReturns
  BY <1>4 DEF StopReturns
<1> QED
  BY <1>1, <1>2, <1>3, <1>4

\* Ends of sessions, the Newtons and the platform.
LEMMA OutsideIInv ==
  ASSUME IInv, DisconnectPipe \/ NewtonCalls \/ WaitEndsByItself
  PROVE  IInv'
<1> USE LayerAssumption DEF IInv, TypeOK, SleepTypeOK, ThreadState, Phases, Counted,
        OneTurn, TurnKept, RequestStillThere, Turns, Announced, Listens, One, bounds,
        history, pipes, socketVars, sleepVars, threadVars
<1>1. CASE DisconnectPipe
  BY <1>1 DEF DisconnectPipe
<1>2. CASE NewtonCalls
  BY <1>2 DEF NewtonCalls
<1>3. CASE WaitEndsByItself
  BY <1>3 DEF WaitEndsByItself, SpuriousReturn
<1> QED
  BY <1>1, <1>2, <1>3

LEMMA StutterIInv ==
  ASSUME IInv, UNCHANGED vars
  PROVE  IInv'
BY DEF vars, IInv, TypeOK, SleepTypeOK, ThreadState, Phases, Counted, OneTurn,
       TurnKept, RequestStillThere, Turns, Announced, Listens, One, bounds, history,
       pipes, socketVars, sleepVars,
       threadVars

\* The inductive invariant: one turn, in one place at a time, and what it becomes
\* when the start, select() or an answer fails.
THEOREM Invariance == Spec => []IInv
<1>1. ASSUME IInv, [Next]_vars PROVE IInv'
  BY <1>1, LayerStepIInv, LayerBreaksIInv, AnswerIInv, StartStopIInv, OutsideIInv,
     StutterIInv DEF Next, ServerStep, Breaks
<1> QED
  BY <1>1, InitIInv, PTL DEF Spec

\* The server finds the request it was told of, and does not wait in accept(),
\* whatever fails, as long as the layer is stopped only with a pair of sockets.
THEOREM NoBlocking == Spec => []AcceptNeverBlocks
<1>1. IInv => AcceptNeverBlocks
  BY DEF IInv, TypeOK, SleepTypeOK, RequestStillThere, Announced, Listens, One,
         AcceptNeverBlocks
<1> QED
  BY <1>1, Invariance, PTL

\* A stopped layer has no thread that could still call the server, and, if nothing
\* failed, nothing in its pair of sockets.
THEOREM StoppedForGood == Spec => []Stopped
<1>1. IInv => Stopped
  BY DEF IInv, Phases, ThreadState, Stopped
<1> QED
  BY <1>1, Invariance, PTL

\* The limit of connections is never exceeded.
THEOREM Limit == Spec => []PipeLimit
<1>1. IInv => PipeLimit
  BY LayerAssumption DEF IInv, TypeOK, Counted, PipeLimit
<1> QED
  BY <1>1, Invariance, PTL
=============================================================================
