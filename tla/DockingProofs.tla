---------------------------- MODULE DockingProofs ----------------------------
(***************************************************************************)
(* Proofs about the link, about the server and about the two together, for *)
(* any threads of the application, any number of sessions, starts and      *)
(* calls, and exceptions anywhere.  First each of them alone; then the     *)
(* whole, whose steps are steps of the parts, so that what is proved of    *)
(* the parts need not be proved again: only what relates the two is.       *)
(***************************************************************************)
EXTENDS Docking, TLAPS

-----------------------------------------------------------------------------
(* The link alone.                                                         *)

\* The part of the invariant that concerns the thread of the link.
LoopIInv == StateIsSeen /\ PlaceFitsState /\ SessionKept

LEMMA InitLinkIInv == LinkInit => LinkIInv
<1> SUFFICES ASSUME LinkInit PROVE LinkIInv
  OBVIOUS
<1>1. LinkTypeOK
  <2>1. mutexLost \in BOOLEAN /\ looping \in BOOLEAN
    BY DEF LinkInit
  <2>2. linkEvents \in Seq(LinkEvent) /\ reports \in Seq(Sessions)
    BY DEF LinkInit
  <2>3. callerPc \in [Callers -> LinkEvent \cup {Idle}]
    BY DEF LinkInit
  <2> QED
    BY <2>1, <2>2, <2>3, LinkAssumption DEF LinkInit, LinkTypeOK, States, Sessions
<1>2. StateIsSeen /\ PlaceFitsState /\ SessionKept
  BY DEF LinkInit, StateIsSeen, PlaceFitsState, SessionKept, InTurn
<1>3. ReportedOnce
  BY DEF LinkInit, ReportedOnce
<1> QED
  BY <1>1, <1>2, <1>3 DEF LinkIInv

\* Nothing but the end of a session touches the list of reports.
LEMMA ReportsKept ==
  ASSUME ReportedOnce, UNCHANGED <<reports, failed, started, pipe>>
  PROVE  ReportedOnce'
BY DEF ReportedOnce

\* The server connects the link.
LEMMA LinkConnectSteps ==
  ASSUME LinkIInv, ConnectStarts \/ ConnectThrows
  PROVE  LinkIInv'
<1> USE LinkAssumption DEF LinkIInv, States, Sessions, InTurn, loopVars, appVars, outcome
<1>1. CASE ConnectStarts
  <2>1. LinkTypeOK'
    BY <1>1 DEF ConnectStarts, LinkTypeOK
  <2>2. StateIsSeen' /\ PlaceFitsState' /\ SessionKept'
    BY <1>1 DEF ConnectStarts, LinkTypeOK, StateIsSeen, PlaceFitsState, SessionKept
  <2>3. {s \in 1..started' : s # pipe'} \ failed' = {s \in 1..started : s # pipe} \ failed
    BY <1>1 DEF ConnectStarts, LinkTypeOK, SessionKept
  <2>4. ReportedOnce'
    BY <1>1, <2>3 DEF ConnectStarts, ReportedOnce
  <2> QED
    BY <2>1, <2>2, <2>4
<1>2. CASE ConnectThrows
  <2>1. LinkTypeOK'
    BY <1>2 DEF ConnectThrows, LinkTypeOK
  <2>2. StateIsSeen' /\ PlaceFitsState' /\ SessionKept'
    BY <1>2 DEF ConnectThrows, StateIsSeen, PlaceFitsState, SessionKept
  <2>3. ReportedOnce'
    BY <1>2, ReportsKept DEF ConnectThrows
  <2> QED
    BY <2>1, <2>2, <2>3
<1> QED
  BY <1>1, <1>2

\* One turn of the loop: mState is read, its work done, and the new state set.
LEMMA LinkOwnSteps ==
  ASSUME LinkIInv, OwnStep
  PROVE  LinkIInv'
<1> USE LinkAssumption DEF LinkIInv, LinkTypeOK, States, Sessions, InTurn, StateIsSeen,
        PlaceFitsState, SessionKept, Rank, loopVars, appVars, outcome
<1>1. CASE ReadState
  BY <1>1, ReportsKept DEF ReadState
<1>2. CASE DoConnect
  BY <1>2, ReportsKept DEF DoConnect, Work, Leads
<1>3. CASE Connected
  BY <1>3, ReportsKept DEF Connected, Work, Leads
<1>4. CASE ServeData
  BY <1>4, ReportsKept DEF ServeData, Work, Leads
<1>5. CASE ServeCommand
  BY <1>5, ReportsKept DEF ServeCommand, Serve, Leads
<1>6. CASE ServeDisconnect
  BY <1>6, ReportsKept DEF ServeDisconnect, Serve, Leads
<1>7. CASE ServeClose
  BY <1>7, ReportsKept DEF ServeClose, Serve, Leads
<1>8. CASE DoDisconnect
  BY <1>8, ReportsKept DEF DoDisconnect, Leads
<1>9. CASE SetState
  BY <1>9, ReportsKept DEF SetState
<1>10. CASE HandleException
  <2>1. LinkTypeOK'
    BY <1>10 DEF HandleException
  <2>2. StateIsSeen' /\ PlaceFitsState' /\ SessionKept'
    BY <1>10 DEF HandleException
  <2>3. {s \in 1..started' : s # pipe'} \ failed' = {s \in 1..started : s # pipe} \ failed
    BY <1>10 DEF HandleException
  <2>4. ReportedOnce'
    BY <1>10, <2>3 DEF HandleException, ReportedOnce
  <2> QED
    BY <2>1, <2>2, <2>4
<1>11. CASE ThreadEnds
  BY <1>11, ReportsKept DEF ThreadEnds
<1> QED
  BY <1>1, <1>2, <1>3, <1>4, <1>5, <1>6, <1>7, <1>8, <1>9, <1>10, <1>11
  DEF OwnStep, ServeEvent

\* The report of a session: a number greater than all before, and the one that
\* was missing.
LEMMA DisconnectedStep ==
  ASSUME LinkIInv, Disconnected
  PROVE  LinkIInv'
<1> USE LinkAssumption DEF LinkIInv, States, Sessions, InTurn, appVars, Leads, Disconnected
<1>1. started \in 1..MaxSessions /\ pipe = started /\ started \notin failed
  BY DEF LinkTypeOK, SessionKept
<1>2. LinkTypeOK'
  <2>1. looping' \in BOOLEAN
    OBVIOUS
  <2>2. reports' \in Seq(Sessions)
    BY <1>1 DEF LinkTypeOK
  <2> QED
    BY <2>1, <2>2 DEF LinkTypeOK
<1>3. StateIsSeen' /\ PlaceFitsState' /\ SessionKept'
  BY <1>1 DEF StateIsSeen, PlaceFitsState, SessionKept, LinkTypeOK, Rank
<1>4. ReportedOnce'
  <2>1. /\ reports \in Seq(Sessions) /\ Len(reports) \in Nat
        /\ Len(reports') = Len(reports) + 1
        /\ reports'[Len(reports) + 1] = started
        /\ \A i \in 1..Len(reports) : reports'[i] = reports[i]
    BY <1>1 DEF LinkTypeOK
  <2>2. \A i \in 1..Len(reports) : reports[i] \in 1..started /\ reports[i] # started
    BY <1>1 DEF ReportedOnce
  <2>3. \A i, j \in 1..Len(reports') : i < j => reports'[i] < reports'[j]
    <3> SUFFICES ASSUME NEW i \in 1..Len(reports'), NEW j \in 1..Len(reports'), i < j
                 PROVE  reports'[i] < reports'[j]
      OBVIOUS
    <3>1. i \in 1..Len(reports)
      BY <2>1
    <3>2. CASE j \in 1..Len(reports)
      BY <2>1, <3>1, <3>2 DEF ReportedOnce
    <3>3. CASE j = Len(reports) + 1
      BY <1>1, <2>1, <2>2, <3>1, <3>3
    <3>4. j \in 1..Len(reports) \/ j = Len(reports) + 1
      BY <2>1
    <3> QED
      BY <3>2, <3>3, <3>4
  <2>4. {reports'[i] : i \in 1..Len(reports')}
          = {reports[i] : i \in 1..Len(reports)} \cup {started}
    BY <2>1
  <2>5. {s \in 1..started' : s # pipe'} \ failed'
          = ({s \in 1..started : s # pipe} \ failed) \cup {started}
    BY <1>1
  <2> QED
    BY <2>3, <2>4, <2>5 DEF ReportedOnce
<1> QED
  BY <1>2, <1>3, <1>4

\* The callers and the thread of the pipe only fill the queue.
LEMMA LinkCallerSteps ==
  ASSUME LinkIInv, Calling \/ DataPresent
  PROVE  LinkIInv'
<1> USE LinkAssumption DEF LinkIInv, LoopIInv
<1>1. ASSUME UNCHANGED <<linkState, loopVars, pipe, started, outcome>>
      PROVE  LoopIInv' /\ ReportedOnce'
  BY <1>1, ReportsKept DEF loopVars, outcome, StateIsSeen, PlaceFitsState, SessionKept
<1>2. ASSUME NEW c \in Callers, NEW what \in {"command", "disconnect", "close"},
             NEW refusing, Look(c, what, refusing)
      PROVE  LinkIInv'
  <2>1. [what |-> what, of |-> started] \in LinkEvent
    BY <1>2 DEF Look, LinkTypeOK, LinkEvent, Sessions
  <2>2. LinkTypeOK'
    BY <1>2, <2>1 DEF Look, LinkTypeOK, loopVars, outcome
  <2> QED
    BY <1>1, <1>2, <2>2 DEF Look
<1>3. ASSUME NEW c \in Callers, PostEvent(c) PROVE LinkIInv'
  <2>1. callerPc[c] \in LinkEvent
    BY <1>3 DEF PostEvent, LinkTypeOK
  <2>2. LinkTypeOK'
    BY <1>3, <2>1 DEF PostEvent, LinkTypeOK, loopVars, outcome
  <2> QED
    BY <1>1, <1>3, <2>2 DEF PostEvent
<1>4. CASE DataPresent
  <2>1. [what |-> "data", of |-> pipe] \in LinkEvent
    BY <1>4 DEF DataPresent, LinkTypeOK, LinkEvent, Sessions
  <2>2. LinkTypeOK'
    BY <1>4, <2>1 DEF DataPresent, LinkTypeOK, loopVars, appVars, outcome
  <2> QED
    BY <1>1, <1>4, <2>2 DEF DataPresent
<1> QED
  BY <1>2, <1>3, <1>4 DEF Calling, PostAppCommand, Disconnect, Close

LEMMA LinkStutters ==
  ASSUME LinkIInv, UNCHANGED linkVars
  PROVE  LinkIInv'
BY ReportsKept DEF linkVars, loopVars, appVars, outcome, LinkIInv, LinkTypeOK,
   StateIsSeen, PlaceFitsState, SessionKept

LEMMA StepLinkIInv ==
  ASSUME LinkIInv, [LinkNext]_linkVars
  PROVE  LinkIInv'
BY LinkConnectSteps, LinkOwnSteps, DisconnectedStep, LinkCallerSteps, LinkStutters DEF LinkNext

\* The inductive invariant: each session has its place in the loop, its state
\* and its pipe.
THEOREM LinkInvariance == LinkSpec => []LinkIInv
BY InitLinkIInv, StepLinkIInv, PTL DEF LinkSpec

\* No step leads a session back to an earlier state, and none starts a session
\* while another is on.
THEOREM WalksForward == LinkSpec => Forward
<1> DEFINE Onward == \/ linkState' = linkState
                     \/ started' = started /\ Rank(linkState') > Rank(linkState)
                     \/ started' # started /\ (pipe = 0 \/ started \in failed)
<1>1. ASSUME LinkIInv, [LinkNext]_linkVars PROVE [Onward]_linkVars
  <2> USE DEF LinkIInv
  <2>1. CASE ConnectStarts
    BY <1>1, <2>1 DEF ConnectStarts, SessionKept, LinkTypeOK, Sessions
  <2>2. CASE SetState
    BY <1>1, <2>2 DEF SetState, StateIsSeen, PlaceFitsState
  <2>3. CASE HandleException
    BY <1>1, <2>3 DEF HandleException, LinkTypeOK, States, Rank
  <2>4. CASE ConnectThrows \/ Disconnected \/ ReadState \/ ThreadEnds
    BY <2>4 DEF ConnectThrows, Disconnected, ReadState, ThreadEnds
  <2>5. CASE DoConnect \/ Connected \/ ServeEvent \/ DoDisconnect
    BY <2>5 DEF DoConnect, Connected, ServeEvent, ServeData, ServeCommand, ServeDisconnect,
                ServeClose, Serve, DoDisconnect, Work
  <2>6. CASE Calling \/ DataPresent
    BY <2>6 DEF Calling, PostAppCommand, Disconnect, Close, Look, PostEvent, DataPresent
  <2>7. CASE UNCHANGED linkVars
    BY <2>7
  <2> QED
    BY <1>1, <2>1, <2>2, <2>3, <2>4, <2>5, <2>6, <2>7 DEF LinkNext, OwnStep
<1> QED
  BY <1>1, LinkInvariance, PTL DEF LinkSpec, Forward

\* The end of each session is reported once, in order.
THEOREM Reports == LinkSpec => []ReportedOnce
<1>1. LinkIInv => ReportedOnce
  BY DEF LinkIInv
<1> QED
  BY <1>1, LinkInvariance, PTL

-----------------------------------------------------------------------------
(* The server alone, with a link that answers freely.  Its invariant has   *)
(* two parts: the loop of its thread, and the thread of the layer.         *)

LayerTypeOK ==
  /\ listening \in BOOLEAN /\ layerPc \in {"out", "open", "tell", "on"}
  /\ sockets \in {"none", "open", "unpaired", "closed"} /\ inPair \in BOOLEAN
  /\ waiting \in 0..MaxNewtons /\ pending \in BOOLEAN /\ wakes \in Nat
  /\ broken \in BOOLEAN /\ unheard \in BOOLEAN
LayerIInv == LayerTypeOK /\ LayerKept

TurnTypeOK ==
  /\ serverState \in ServerStates /\ serverSeen \in ServerStates /\ serverNext \in ServerStates
  /\ serverPc \in {"out", "top", "listen", "wait", "look", "delete", "accept", "connect",
                   "hangup", "DoStop", "stopLayer", "spin", "bottom", "down", "throw"}
  /\ serverEvents \in Seq({"waiting", "request", "disconnected", "stop"})
  /\ mPipe \in 0..MaxNewtons /\ accepted \in 0..MaxNewtons
  /\ starts \in 0..MaxStarts /\ stops \in 0..MaxStops /\ newtons \in 0..MaxNewtons
TurnIInv == TurnTypeOK /\ ServesItsState /\ LayerFollows /\ NewtonsCounted

LEMMA ServerParts == ServerIInv <=> TurnIInv /\ LayerIInv
BY Zenon DEF ServerIInv, ServerTypeOK, TurnIInv, TurnTypeOK, LayerIInv, LayerTypeOK

LEMMA ServerPartsNext == ServerIInv' <=> TurnIInv' /\ LayerIInv'
BY Zenon DEF ServerIInv, ServerTypeOK, TurnIInv, TurnTypeOK, LayerIInv, LayerTypeOK

LEMMA InitServerIInv == ServerInit => ServerIInv
<1> SUFFICES ASSUME ServerInit PROVE ServerIInv
  OBVIOUS
<1>1. TurnTypeOK
  BY ServerAssumption DEF ServerInit, TurnTypeOK, ServerStates
<1>2. ServesItsState /\ LayerFollows /\ NewtonsCounted
  BY DEF ServerInit, ServesItsState, LayerFollows, NewtonsCounted, Handling
<1>3. LayerIInv
  <2>1. /\ listening \in BOOLEAN /\ inPair \in BOOLEAN /\ pending \in BOOLEAN
        /\ broken \in BOOLEAN /\ unheard \in BOOLEAN
    BY DEF ServerInit
  <2>2. LayerTypeOK
    BY <2>1, ServerAssumption DEF ServerInit, LayerTypeOK
  <2>3. LayerKept
    BY DEF ServerInit, LayerKept
  <2> QED
    BY <2>2, <2>3 DEF LayerIInv
<1> QED
  BY <1>1, <1>2, <1>3, ServerParts DEF TurnIInv

\* What the layer keeps does not depend on the thread of the server, unless it
\* waits for the thread of the layer.
LEMMA LayerStays ==
  ASSUME LayerIInv, UNCHANGED layerVars, serverPc = "spin" => serverPc' = "spin"
  PROVE  LayerIInv'
BY DEF LayerIInv, LayerTypeOK, LayerKept, layerVars, threadVars, socketVars

\* The callers of Start and Stop: Start finds no thread at work on mState, and
\* Stop leaves it alone.
LEMMA ServerCallerSteps ==
  ASSUME ServerIInv, Start \/ Stop
  PROVE  ServerIInv'
<1> USE ServerAssumption, ServerParts
    DEF TurnIInv, TurnTypeOK, ServerStates, ServesItsState, LayerFollows, NewtonsCounted,
        Handling, loopOwn, layerVars, threadVars, socketVars
<1>1. TurnIInv'
  <2>1. CASE Start
    BY <2>1 DEF Start
  <2>2. CASE Stop
    BY <2>2 DEF Stop
  <2> QED
    BY <2>1, <2>2
<1>2. LayerIInv'
  BY LayerStays DEF Start, Stop
<1> QED
  BY ONLY <1>1, <1>2, ServerPartsNext

\* A request that is answered, and one that is not: the layer may lose it either way.
LEMMA AnswerKeepsLayer ==
  ASSUME ServerIInv, Answered \/ AnswerThrows, serverPc # "spin"
  PROVE  /\ LayerIInv' /\ waiting' \in 0..waiting
         /\ UNCHANGED <<listening, layerPc, sockets, inPair, broken, unheard>>
<1> USE ServerAssumption, ServerParts DEF LayerIInv, LayerTypeOK, threadVars
<1>1. UNCHANGED <<listening, layerPc, sockets, inPair, broken, unheard>>
  BY DEF Answered, AnswerThrows, WakeLayer
<1>2. waiting' \in 0..waiting
  BY DEF Answered, AnswerThrows
<1>3. pending' \in BOOLEAN /\ (pending' => pending)
  <2>1. pending \in BOOLEAN
    OBVIOUS
  <2>2. CASE Answered
    BY <2>2, Zenon DEF Answered, WakeLayer
  <2>3. CASE AnswerThrows
    BY <2>1, <2>3, Zenon DEF AnswerThrows
  <2> QED
    BY <2>2, <2>3
<1>4. wakes' \in Nat
  BY DEF Answered, AnswerThrows, WakeLayer
<1>5. LayerTypeOK'
  BY <1>1, <1>2, <1>3, <1>4
<1>6. LayerKept'
  BY <1>1, <1>2, <1>3 DEF LayerKept
<1> QED
  BY <1>1, <1>2, <1>5, <1>6

\* The thread of the server, alone.
LEMMA ServerOwnSteps ==
  ASSUME ServerIInv, ServerOwnStep
  PROVE  ServerIInv'
<1> USE ServerAssumption, ServerParts
    DEF TurnIInv, TurnTypeOK, ServerStates, ServesItsState, LayerFollows, NewtonsCounted,
        Handling, Then, TurnDone, loopOwn, serverBounds
<1>1. CASE ReadServerState \/ ServeServerEvent \/ SetServerState \/ ServerIsDown \/ ServerThrows
  <2>1. UNCHANGED layerVars /\ serverPc # "spin"
    BY <1>1 DEF ReadServerState, ServeServerEvent, SetServerState, ServerIsDown, ServerThrows
  <2>2. LayerIInv'
    BY <2>1, LayerStays
  <2>3. UNCHANGED <<listening, waiting>>
    BY <2>1 DEF layerVars, threadVars, socketVars
  <2>4. TurnIInv'
    <3>1. CASE ReadServerState
      BY <3>1, <2>3 DEF ReadServerState
    <3>2. CASE ServeServerEvent
      BY <3>2, <2>3 DEF ServeServerEvent
    <3>3. CASE SetServerState
      BY <3>3, <2>3 DEF SetServerState
    <3>4. CASE ServerIsDown
      BY <3>4, <2>3 DEF ServerIsDown
    <3>5. CASE ServerThrows
      BY <3>5, <2>3 DEF ServerThrows
    <3> QED
      BY <1>1, <3>1, <3>2, <3>3, <3>4, <3>5
  <2> QED
    BY ONLY <2>2, <2>4, ServerPartsNext
<1>2. CASE Listen
  <2>1. listening' \in BOOLEAN /\ listening' /\ ~listening
    BY <1>2 DEF Listen
  <2>2. TurnIInv'
    BY <1>2, <2>1 DEF Listen, socketVars
  <2>3. LayerTypeOK'
    BY <1>2, <2>1 DEF Listen, socketVars, LayerIInv, LayerTypeOK
  <2>4. LayerKept'
    BY <1>2, <2>1 DEF Listen, socketVars, LayerIInv, LayerTypeOK, LayerKept
  <2> QED
    BY ONLY <2>2, <2>3, <2>4, ServerPartsNext DEF LayerIInv
<1>3. CASE Accept
  <2>1. /\ LayerIInv' /\ waiting' \in 0..waiting
        /\ UNCHANGED <<listening, layerPc, sockets, inPair, broken, unheard>>
    BY <1>3, AnswerKeepsLayer DEF Accept
  <2>2. CASE Answered /\ accepted' = accepted + 1 /\ mPipe' = accepted' /\ Then("connect")
    <3>1. waiting \in Nat /\ waiting > 0 /\ waiting' = waiting - 1
      BY <2>2 DEF Answered, LayerIInv, LayerTypeOK
    <3>2. accepted' \in 0..MaxNewtons /\ mPipe' = accepted' /\ accepted' + waiting' <= newtons
      BY <2>2, <3>1
    <3>3. /\ serverPc = "accept" /\ serverPc' = "connect"
          /\ UNCHANGED <<listening, serverState, serverEvents, loopOwn, serverBounds>>
      BY <1>3, <2>1, <2>2 DEF Accept
    <3>4. TurnIInv'
      BY <3>2, <3>3
    <3> QED
      BY ONLY <2>1, <3>4, ServerPartsNext
  <2>3. CASE AnswerThrows /\ UNCHANGED <<mPipe, accepted>>
    <3>1. TurnIInv'
      BY <1>3, <2>1, <2>3 DEF Accept, AnswerThrows, LayerIInv, LayerTypeOK
    <3> QED
      BY ONLY <2>1, <3>1, ServerPartsNext
  <2> QED
    BY <1>3, <2>2, <2>3 DEF Accept
<1>4. CASE StopLayer
  <2>1. UNCHANGED <<listening, layerPc, sockets, waiting, broken>>
    BY <1>4 DEF StopLayer, WakeLayer
  <2>2. /\ inPair' \in BOOLEAN /\ (inPair' => sockets = "open")
        /\ unheard' \in BOOLEAN
    BY <1>4 DEF StopLayer, LayerIInv, LayerKept
  <2>3. pending' \in BOOLEAN /\ ~pending'
    BY <1>4 DEF StopLayer, WakeLayer
  <2>4. wakes' \in Nat
    BY <1>4 DEF StopLayer, WakeLayer, LayerIInv, LayerTypeOK
  <2>5. /\ serverPc' = "spin" /\ serverPc = "stopLayer"
        /\ UNCHANGED <<loopOwn, serverState, serverEvents, mPipe, accepted, serverBounds>>
    BY <1>4 DEF StopLayer
  <2>6. TurnIInv'
    BY <2>1, <2>5
  <2>7. LayerTypeOK'
    BY <2>1, <2>2, <2>3, <2>4 DEF LayerIInv, LayerTypeOK
  <2>8. LayerKept'
    BY <2>1, <2>2, <2>3, <2>5 DEF LayerIInv, LayerTypeOK, LayerKept
  <2> QED
    BY ONLY <2>6, <2>7, <2>8, ServerPartsNext DEF LayerIInv
<1>5. CASE StopReturns
  <2>1. listening' \in BOOLEAN /\ ~listening'
    BY <1>5 DEF StopReturns
  <2>2. TurnIInv'
    BY <1>5, <2>1 DEF StopReturns, socketVars
  <2>3. LayerTypeOK'
    BY <1>5, <2>1 DEF StopReturns, threadVars, socketVars, LayerIInv, LayerTypeOK
  <2>4. LayerKept'
    BY <1>5, <2>1 DEF StopReturns, threadVars, socketVars, LayerIInv, LayerTypeOK, LayerKept
  <2> QED
    BY ONLY <2>2, <2>3, <2>4, ServerPartsNext DEF LayerIInv
<1> QED
  BY <1>1, <1>2, <1>3, <1>4, <1>5 DEF ServerOwnStep

\* The thread of the server with the link, whatever the link answers.
LEMMA ServerLinkSteps ==
  ASSUME ServerIInv, AnyLink
  PROVE  ServerIInv'
<1> USE ServerAssumption, ServerParts
    DEF TurnIInv, TurnTypeOK, ServerStates, ServesItsState, LayerFollows, NewtonsCounted,
        Handling, Then, TurnDone, loopOwn, serverBounds
<1>1. CASE (\E b \in BOOLEAN : ConnectLink(b)) \/ DeleteOldPipe \/ HangUp \/ DoStop
  <2>1. UNCHANGED layerVars /\ serverPc # "spin"
    BY <1>1 DEF ConnectLink, DeleteOldPipe, HangUp, DoStop
  <2>2. LayerIInv'
    BY <2>1, LayerStays
  <2>3. UNCHANGED <<listening, waiting>>
    BY <2>1 DEF layerVars, threadVars, socketVars
  <2>4. TurnIInv'
    BY <1>1, <2>3 DEF ConnectLink, DeleteOldPipe, HangUp, DoStop
  <2> QED
    BY ONLY <2>2, <2>4, ServerPartsNext
<1>2. ASSUME NEW b \in BOOLEAN, LookAtLink(b) PROVE ServerIInv'
  <2>1. LayerIInv' /\ waiting' \in 0..waiting /\ UNCHANGED listening
    <3>1. CASE UNCHANGED layerVars
      BY <1>2, <3>1, LayerStays
      DEF LookAtLink, layerVars, threadVars, socketVars, LayerIInv, LayerTypeOK
    <3>2. CASE Answered \/ AnswerThrows
      BY <1>2, <3>2, AnswerKeepsLayer DEF LookAtLink
    <3> QED
      BY <1>2, <3>1, <3>2 DEF LookAtLink
  <2>2. TurnIInv'
    BY <1>2, <2>1 DEF LookAtLink, AnswerThrows, LayerIInv, LayerTypeOK
  <2> QED
    BY ONLY <2>1, <2>2, ServerPartsNext
<1> QED
  BY <1>1, <1>2 DEF AnyLink

\* The thread of the layer.
LEMMA LayerSteps ==
  ASSUME ServerIInv, LayerStep \/ LayerBreaks
  PROVE  ServerIInv'
<1> USE ServerAssumption, ServerParts
<1>1. LayerIInv'
  <2> USE DEF LayerIInv, LayerTypeOK, LayerKept, ServerKept, loopOwn, socketVars
  <2>1. CASE LayerOpens
    BY <2>1 DEF LayerOpens
  <2>2. CASE LayerTells
    BY <2>2 DEF LayerTells
  <2>3. CASE RequestPresent
    <3>1. pending' \in BOOLEAN
      <4>1. pending' = TRUE \/ (pending' = pending /\ pending \in BOOLEAN)
        BY <2>3 DEF RequestPresent
      <4> QED
        BY ONLY <4>1
    <3>2. wakes' \in Nat
      BY <2>3 DEF RequestPresent
    <3>3. /\ layerPc = "on" /\ sockets \notin {"none", "closed"}
          /\ UNCHANGED <<listening, unheard, layerPc, sockets, inPair, waiting, broken, serverPc>>
      BY <2>3 DEF RequestPresent, Listens
    <3> QED
      BY ONLY <3>1, <3>2, <3>3, LayerIInv DEF LayerIInv, LayerTypeOK, LayerKept
  <2>4. CASE LayerCloses
    <3>1. inPair' \in BOOLEAN /\ ~inPair'
      BY <2>4 DEF LayerCloses
    <3> QED
      BY <2>4, <3>1 DEF LayerCloses
  <2>5. CASE LayerBreaks
    <3>1. broken' \in BOOLEAN /\ broken'
      BY <2>5 DEF LayerBreaks
    <3> QED
      BY <2>5, <3>1 DEF LayerBreaks
  <2> QED
    BY <2>1, <2>2, <2>3, <2>4, <2>5 DEF LayerStep
<1>2. TurnIInv'
  <2>1. ServerKept
    BY DEF LayerStep, LayerOpens, LayerTells, RequestPresent, LayerCloses, LayerBreaks
  <2>2. serverEvents' \in Seq({"waiting", "request", "disconnected", "stop"})
    <3>1. \/ serverEvents' = Append(serverEvents, "waiting")
          \/ serverEvents' = Append(serverEvents, "request")
          \/ serverEvents' = serverEvents
      BY DEF LayerStep, LayerOpens, LayerTells, RequestPresent, LayerCloses, LayerBreaks
    <3>2. serverEvents \in Seq({"waiting", "request", "disconnected", "stop"})
      BY DEF TurnIInv, TurnTypeOK
    <3> QED
      BY ONLY <3>1, <3>2
  <2>3. waiting' \in 0..waiting
    BY DEF LayerIInv, LayerTypeOK, LayerStep, LayerOpens, LayerTells, RequestPresent,
           LayerCloses, LayerBreaks, socketVars
  <2> QED
    BY <2>1, <2>2, <2>3
    DEF ServerKept, TurnIInv, TurnTypeOK, ServesItsState, LayerFollows, NewtonsCounted,
        Handling, loopOwn, serverBounds, LayerIInv, LayerTypeOK
<1> QED
  BY ONLY <1>1, <1>2, ServerPartsNext

\* The Newtons fill the backlog, and the reports of the link the queue.
LEMMA ServerOutsideSteps ==
  ASSUME ServerIInv, NewtonCalls \/ LinkReports
  PROVE  ServerIInv'
<1> USE ServerAssumption, ServerParts
    DEF TurnIInv, TurnTypeOK, ServerStates, ServesItsState, LayerFollows, NewtonsCounted,
        Handling, loopOwn, serverBounds
<1>1. CASE NewtonCalls
  <2>1. TurnIInv'
    BY <1>1 DEF NewtonCalls, LayerIInv, LayerTypeOK
  <2>2. LayerIInv'
    BY <1>1
    DEF NewtonCalls, Listens, LayerIInv, LayerTypeOK, LayerKept, threadVars
  <2> QED
    BY ONLY <2>1, <2>2, ServerPartsNext
<1>2. CASE LinkReports
  <2>1. LayerIInv'
    BY <1>2, LayerStays DEF LinkReports
  <2>2. TurnIInv'
    BY <1>2 DEF LinkReports, layerVars, threadVars, socketVars
  <2> QED
    BY ONLY <2>1, <2>2, ServerPartsNext
<1> QED
  BY <1>1, <1>2

LEMMA ServerStutters ==
  ASSUME ServerIInv, UNCHANGED serverVars
  PROVE  ServerIInv'
<1>1. LayerIInv'
  BY ServerParts, LayerStays DEF serverVars
<1>2. TurnIInv'
  BY ServerParts
  DEF serverVars, loopOwn, layerVars, threadVars, socketVars, serverBounds, TurnIInv, TurnTypeOK,
      ServesItsState, LayerFollows, NewtonsCounted
<1> QED
  BY <1>1, <1>2, ServerPartsNext

LEMMA StepServerIInv ==
  ASSUME ServerIInv, [ServerNext]_serverVars
  PROVE  ServerIInv'
BY ServerCallerSteps, ServerOwnSteps, ServerLinkSteps, LayerSteps, ServerOutsideSteps,
   ServerStutters DEF ServerNext

\* The state, the place in the loop and the thread of the layer stay in step.
THEOREM ServerInvariance == ServerSpec => []ServerIInv
BY InitServerIInv, StepServerIInv, PTL DEF ServerSpec

\* A stopped server has no thread that listens and no open sockets, and a running
\* one has them or is opening them, whatever was called, answered or thrown before,
\* unless an error or a signal ended that thread or an earlier stop closed them.
THEOREM Listening == ServerSpec => []ListensWhileUp
<1>1. ServerIInv => ListensWhileUp
  <2> SUFFICES ASSUME ServerIInv PROVE ListensWhileUp
    OBVIOUS
  <2>1. serverState = "stopped" => ~listening /\ layerPc = "out"
    BY DEF ServerIInv, ServesItsState, LayerFollows, LayerKept, Handling
  <2>2. serverState = "stopped" /\ ~broken => sockets \in {"none", "closed"}
    BY <2>1 DEF ServerIInv, LayerKept
  <2>3. ASSUME serverState = "running", ~broken, sockets # "closed"
        PROVE  \/ layerPc = "open"
               \/ layerPc \in {"tell", "on"} /\ sockets = "open" /\ ~inPair
    <3>1. listening /\ serverPc # "spin"
      BY <2>3 DEF ServerIInv, ServesItsState, LayerFollows, Handling
    <3>2. layerPc # "out" /\ ~inPair
      BY <2>3, <3>1 DEF ServerIInv, LayerKept
    <3> QED
      BY <2>3, <3>2 DEF ServerIInv, ServerTypeOK, LayerKept
  <2> QED
    BY <2>1, <2>2, <2>3 DEF ListensWhileUp
<1> QED
  BY <1>1, ServerInvariance, PTL

-----------------------------------------------------------------------------
(* Link and server together.                                               *)

\* The part of the invariant that relates the link, the server and the pipes.
Joint == /\ live \subseteq Sessions /\ begun \subseteq Sessions /\ overlap \in BOOLEAN
         /\ NoDanglingPipe /\ NoPipeLost /\ PipeThread /\ NewPipe /\ OneReport

\* What it says of the queue of the server alone.
Queue == serverEvents \in Seq({"waiting", "request", "disconnected", "stop"})

LEMMA InitDockingIInv == Init => DockingIInv
<1> SUFFICES ASSUME Init PROVE DockingIInv
  OBVIOUS
<1>1. LinkIInv /\ ServerIInv
  BY InitLinkIInv, InitServerIInv DEF Init
<1>2. overlap \in BOOLEAN
  BY DEF Init
<1>3. /\ live \subseteq Sessions /\ begun \subseteq Sessions
      /\ NoDanglingPipe /\ NoPipeLost /\ PipeThread /\ NewPipe
  BY DEF Init, LinkInit, ServerInit, NoDanglingPipe, NoPipeLost, PipeThread, NewPipe
<1>4. OneReport
  BY DEF Init, LinkInit, ServerInit, OneReport, Ends
<1>5. SessionsInOrder
  BY DEF Init, LinkInit, ServerInit, SessionsInOrder, OneRequest, ReportFirst, Requests, Answering, Ends
<1> QED
  BY <1>1, <1>2, <1>3, <1>4, <1>5 DEF DockingIInv

-----------------------------------------------------------------------------
(* Events that come to the queue of the server and go.                     *)

LEMMA EndsAppended ==
  ASSUME NEW e \in {"waiting", "request", "disconnected", "stop"}, Queue,
         serverEvents' = Append(serverEvents, e)
  PROVE  Ends' = IF e = "disconnected" THEN Ends \cup {Len(serverEvents) + 1} ELSE Ends
BY DEF Queue, Ends

LEMMA EndsTaken ==
  ASSUME Queue, serverEvents # <<>>, serverEvents' = Tail(serverEvents)
  PROVE  /\ \A i \in Ends' : i + 1 \in Ends
         /\ Head(serverEvents) = "disconnected" => 1 \in Ends
         /\ Ends' \subseteq Nat \ {0}
<1>1. Len(serverEvents) \in Nat \ {0}
  BY DEF Queue
<1>2. Len(serverEvents') = Len(serverEvents) - 1
  BY DEF Queue
<1>3. \A i \in 1..Len(serverEvents') : serverEvents'[i] = serverEvents[i + 1]
  BY DEF Queue
<1>4. Head(serverEvents) = serverEvents[1]
  BY DEF Queue
<1> QED
  BY <1>1, <1>2, <1>3, <1>4 DEF Ends

-----------------------------------------------------------------------------
(* Steps of the whole are steps of the parts.                              *)

\* The request of DoStop, which needs no call of the application.
StopPosts == /\ started > 0
             /\ callerPc' = [callerPc EXCEPT ![TheServer] = [what |-> "disconnect", of |-> started]]
             /\ UNCHANGED <<linkState, mutexLost, loopVars, pipe, started, linkEvents, calls,
                            outcome>>

LEMMA LinkSimulated ==
  ASSUME DockingIInv, [Next]_vars
  PROVE  [LinkNext]_linkVars \/ StopPosts
<1>1. CASE ServerStep
  <2>1. CASE Connect
    BY <2>1 DEF Connect, LinkNext
  <2>2. CASE StopLooks
    BY <2>2 DEF StopLooks, StopPosts, DockingIInv, LinkIInv, LinkTypeOK, SessionKept, Sessions
  <2>3. CASE StopAsks
    BY <2>3, DockingAssumption DEF StopAsks, LinkNext, Calling
  <2> QED
    BY <1>1, <2>1, <2>2, <2>3
    DEF ServerStep, AskLink, DeleteOld, AcceptPipe, HangUpPipe, ServerAlone
<1>2. CASE LinkStep
  BY <1>2 DEF LinkStep, StartPipe, ReportEnd, LinkNext, OwnStep
<1>3. CASE AppStep
  BY <1>3 DEF AppStep, Apps, ServerAlone, LinkNext, Calling
<1>4. CASE \E c \in Apps : AppPosts(c)
  BY <1>4 DEF AppPosts, Apps, LinkNext, Calling
<1>5. CASE NewtonStep
  BY <1>5 DEF NewtonStep, LinkNext
<1>6. CASE LayerRuns \/ LayerEnds
  BY <1>6 DEF LayerRuns, LayerEnds, ServerAlone
<1>7. CASE UNCHANGED vars
  BY <1>7 DEF vars
<1> QED
  BY <1>1, <1>2, <1>3, <1>4, <1>5, <1>6, <1>7 DEF Next

LEMMA ServerSimulated ==
  ASSUME DockingIInv, [Next]_vars
  PROVE  [ServerNext]_serverVars
<1>1. CASE ServerStep
  <2>1. CASE AskLink
    BY <2>1 DEF AskLink, ServerNext, AnyLink, IsConnected
  <2>2. CASE Connect
    BY <2>2 DEF Connect, ServerNext, AnyLink
  <2>3. CASE DeleteOld \/ HangUpPipe \/ StopAsks
    BY <2>3 DEF DeleteOld, HangUpPipe, StopAsks, ServerNext, AnyLink
  <2>4. CASE AcceptPipe
    BY <2>4 DEF AcceptPipe, ServerNext, ServerOwnStep
  <2>5. CASE StopLooks
    BY <2>5 DEF StopLooks, ServerNext, AnyLink
  <2> QED
    BY <1>1, <2>1, <2>2, <2>3, <2>4, <2>5 DEF ServerStep, ServerNext, ServerOwnStep
<1>2. CASE LinkStep
  <2>1. CASE ReportEnd
    <3>1. pipe # 0 /\ mPipe > 0
      BY <2>1 DEF ReportEnd, Disconnected, DockingIInv, LinkIInv, SessionKept, InTurn,
                  NoDanglingPipe, ServerIInv, ServerTypeOK, Sessions
    <3>2. serverPc # "connect"
      BY <2>1, <3>1
      DEF ReportEnd, Disconnected, DockingIInv, PipeThread, NewPipe, NoDanglingPipe
    <3>3. "disconnected" \notin {serverEvents[i] : i \in 1..Len(serverEvents)}
      BY <3>1 DEF DockingIInv, OneReport, Ends
    <3> QED
      BY <2>1, <3>1, <3>2, <3>3 DEF ReportEnd, ServerNext, LinkReports
  <2> QED
    BY <1>2, <2>1 DEF LinkStep, StartPipe, LinkAlone
<1>3. CASE AppStep
  BY <1>3 DEF AppStep, LinkAlone, ServerNext
<1>4. CASE \E c \in Apps : AppPosts(c)
  BY <1>4 DEF AppPosts, LinkAlone
<1>5. CASE NewtonStep
  BY <1>5 DEF NewtonStep, LinkAlone, ServerNext
<1>6. CASE LayerRuns \/ LayerEnds
  BY <1>6 DEF LayerRuns, LayerEnds, ServerNext
<1>7. CASE UNCHANGED vars
  BY <1>7 DEF vars
<1> QED
  BY <1>1, <1>2, <1>3, <1>4, <1>5, <1>6, <1>7 DEF Next

LEMMA PartsIInv ==
  ASSUME DockingIInv, [Next]_vars
  PROVE  LinkIInv' /\ ServerIInv'
<1>1. ServerIInv'
  <2>1. [ServerNext]_serverVars
    BY ServerSimulated
  <2>2. ServerIInv
    BY DEF DockingIInv
  <2> QED
    BY <2>1, <2>2, StepServerIInv
<1>2. CASE [LinkNext]_linkVars
  <2>1. LinkIInv
    BY DEF DockingIInv
  <2> QED
    BY <1>1, <1>2, <2>1, StepLinkIInv
<1>3. CASE StopPosts
  <2>1. [what |-> "disconnect", of |-> started] \in LinkEvent
    BY <1>3 DEF StopPosts, LinkEvent, DockingIInv, LinkIInv, LinkTypeOK, Sessions
  <2>2. LinkTypeOK'
    BY <1>3, <2>1, DockingAssumption
    DEF StopPosts, DockingIInv, LinkIInv, LinkTypeOK, loopVars, outcome
  <2>3. StateIsSeen' /\ PlaceFitsState' /\ SessionKept'
    BY <1>3 DEF StopPosts, DockingIInv, LinkIInv, StateIsSeen, PlaceFitsState, SessionKept,
                loopVars, outcome
  <2>4. ReportedOnce'
    <3>1. UNCHANGED <<reports, failed, started, pipe>>
      BY <1>3 DEF StopPosts, outcome
    <3>2. ReportedOnce
      BY DEF DockingIInv, LinkIInv
    <3> QED
      BY <3>1, <3>2, ReportsKept
  <2> QED
    BY <1>1, <2>2, <2>3, <2>4 DEF LinkIInv
<1> QED
  BY <1>1, <1>2, <1>3, LinkSimulated

-----------------------------------------------------------------------------
(* Steps that relate the parts.                                            *)

\* The server deletes, accepts, hands over and hangs up.
LEMMA PipeSteps ==
  ASSUME DockingIInv, AskLink \/ DeleteOld \/ AcceptPipe \/ Connect \/ HangUpPipe
  PROVE  Joint'
<1> USE DockingAssumption, LinkAssumption, ServerAssumption
    DEF DockingIInv, Joint, LinkIInv, LinkTypeOK, SessionKept, ServerIInv, ServerTypeOK,
        NewtonsCounted, NoDanglingPipe, NoPipeLost, PipeThread, NewPipe, OneReport, Ends,
        ServesItsState, Handling, Sessions, Then, TurnDone, linkVars, loopVars, loopOwn,
        serverBounds
<1>1. CASE AskLink
  BY <1>1 DEF AskLink, LookAtLink, AnswerThrows, IsConnected, ServerAlone
<1>2. CASE DeleteOld
  BY <1>2 DEF DeleteOld, DeleteOldPipe
<1>3. CASE AcceptPipe
  <2>1. CASE accepted' = accepted
    BY <1>3, <2>1 DEF AcceptPipe, Accept, AnswerThrows
  <2>2. CASE accepted' = accepted + 1 /\ mPipe' = accepted' /\ Answered
    <3>1. waiting \in Nat /\ waiting > 0
      BY <2>2 DEF Answered
    <3>2. accepted' \in Sessions /\ mPipe' = accepted' /\ live' = {accepted'}
      <4>1. accepted \in Nat /\ accepted + waiting <= MaxSessions
        OBVIOUS
      <4>2. accepted' \in 1..MaxSessions /\ accepted' # accepted
        BY ONLY <2>2, <3>1, <4>1, LinkAssumption
      <4>3. live = {} /\ live' = live \cup {accepted'}
        BY <1>3, <4>2 DEF AcceptPipe, Accept
      <4> QED
        BY <2>2, <4>2, <4>3
    <3>3. /\ serverPc = "accept" /\ serverPc' = "connect" /\ Ends' = Ends
          /\ UNCHANGED <<serverState, begun, overlap, pipe, started, linkState, linkPc>>
      BY <1>3, <2>2 DEF AcceptPipe, Accept
    <3>4. pipe = 0 /\ accepted = started
      BY <3>3
    <3>5. NoDanglingPipe' /\ NoPipeLost' /\ PipeThread'
      BY <3>2, <3>3, <3>4
    <3>6. NewPipe'
      <4>1. accepted' = started' + 1 /\ mPipe' \notin begun' /\ linkState' = "disconnected"
        BY <2>2, <3>2, <3>3, <3>4
      <4> QED
        BY ONLY <3>2, <3>3, <4>1 DEF NewPipe
    <3>7. OneReport'
      BY <3>3
    <3> QED
      BY <3>2, <3>3, <3>5, <3>6, <3>7
  <2> QED
    BY <1>3, <2>1, <2>2 DEF AcceptPipe, Accept, AnswerThrows
<1>4. CASE Connect
  <2>1. Ends' = Ends /\ UNCHANGED <<live, begun, overlap, mPipe, accepted, serverState>>
    BY <1>4 DEF Connect, ConnectLink
  <2>2. CASE ConnectStarts /\ ConnectLink(FALSE)
    <3>1. /\ pipe' = started + 1 /\ started' = started + 1 /\ serverPc' = "bottom"
          /\ linkState' = "connecting" /\ linkPc' = "top"
      BY <2>2 DEF ConnectStarts, ConnectLink
    <3>2. serverPc = "connect"
      BY <2>2 DEF ConnectLink
    <3>3. NoDanglingPipe' /\ NoPipeLost' /\ PipeThread' /\ NewPipe'
      BY <2>1, <3>1, <3>2
    <3>4. Ends = {}
      BY <3>2
    <3>5. OneReport'
      <4>1. Ends' = {} /\ serverPc' # "hangup"
        BY <2>1, <3>1, <3>4
      <4> QED
        BY ONLY <4>1 DEF OneReport
    <3> QED
      BY <2>1, <3>3, <3>5
  <2>3. CASE ConnectThrows /\ ConnectLink(TRUE)
    <3>1. serverPc' = "throw" /\ UNCHANGED <<pipe, started, linkState, linkPc>>
      BY <2>3 DEF ConnectThrows, ConnectLink
    <3> QED
      BY <2>1, <3>1
  <2> QED
    BY <1>4, <2>2, <2>3 DEF Connect
<1>5. CASE HangUpPipe
  BY <1>5 DEF HangUpPipe, HangUp
<1> QED
  BY <1>1, <1>2, <1>3, <1>4, <1>5

\* The server by itself: what it takes from its queue and what it makes of it.
LEMMA ServerAloneSteps ==
  ASSUME DockingIInv, ServerStep,
         ~(AskLink \/ DeleteOld \/ AcceptPipe \/ Connect \/ HangUpPipe)
  PROVE  Joint'
<1> USE DEF DockingIInv, Joint, ServerIInv, ServerTypeOK, NoDanglingPipe, NoPipeLost,
        PipeThread, NewPipe, OneReport, ServesItsState, Handling, Then, TurnDone,
        ServerAlone, linkVars, loopVars, loopOwn, serverBounds
<1>1. CASE StopLooks
  BY <1>1 DEF StopLooks, DoStop, serverVars, Ends
<1>2. CASE StopAsks
  BY <1>2 DEF StopAsks, DoStop, PostEvent, Ends
<1>3. CASE ReadServerState /\ ServerAlone
  BY <1>3 DEF ReadServerState, Ends
<1>4. CASE Listen /\ ServerAlone
  BY <1>4 DEF Listen, Ends
<1>5. CASE ServeServerEvent /\ ServerAlone
  <2>1. Queue
    BY DEF Queue
  <2>2. /\ \A i \in Ends' : i + 1 \in Ends
        /\ Head(serverEvents) = "disconnected" => 1 \in Ends
        /\ Ends' \subseteq Nat \ {0}
    BY <1>5, <2>1, EndsTaken DEF ServeServerEvent
  <2>3. OneReport'
    BY <1>5, <2>2 DEF ServeServerEvent
  <2> QED
    BY <1>5, <2>3 DEF ServeServerEvent
<1>6. CASE (StopLayer \/ StopReturns \/ SetServerState \/ ServerIsDown \/ ServerThrows)
             /\ ServerAlone
  BY <1>6 DEF StopLayer, StopReturns, SetServerState, ServerIsDown, ServerThrows, Ends
<1> QED
  BY <1>1, <1>2, <1>3, <1>4, <1>5, <1>6 DEF ServerStep

\* The link: it starts the thread of the pipe, lets go of the pipe when it
\* reports, and never leaves the state in which the server found it.
LEMMA LinkThreadSteps ==
  ASSUME DockingIInv, LinkStep
  PROVE  Joint'
<1> USE LinkAssumption
    DEF DockingIInv, Joint, LinkIInv, StateIsSeen, PlaceFitsState, SessionKept, InTurn,
        NoDanglingPipe, NoPipeLost, PipeThread, NewPipe, OneReport, LinkAlone,
        serverVars, loopVars, appVars, outcome, Leads
<1>1. CASE StartPipe
  BY <1>1 DEF StartPipe, linkVars, LinkTypeOK, Sessions, Ends
<1>2. CASE ReportEnd
  <2>1. Ends' = Ends \cup {Len(serverEvents) + 1} /\ Ends = {}
    BY <1>2, EndsAppended
    DEF ReportEnd, Disconnected, Queue, ServerIInv, ServerTypeOK
  <2> QED
    BY <1>2, <2>1 DEF ReportEnd, Disconnected, loopOwn, serverBounds
<1>3. CASE ReadState /\ LinkAlone
  BY <1>3 DEF ReadState, Ends
<1>4. CASE pipe \in begun /\ DoConnect /\ LinkAlone
  BY <1>4 DEF DoConnect, Work, Ends
<1>5. CASE (Connected \/ ServeEvent \/ DoDisconnect) /\ LinkAlone
  BY <1>5 DEF Connected, ServeEvent, ServeData, ServeCommand, ServeDisconnect, ServeClose,
              Serve, DoDisconnect, Work, Ends
<1>6. CASE SetState /\ LinkAlone
  BY <1>6 DEF SetState, LinkTypeOK, States, Rank, Ends
<1>7. CASE (HandleException \/ ThreadEnds) /\ LinkAlone
  BY <1>7 DEF HandleException, ThreadEnds, Ends
<1> QED
  BY <1>1, <1>2, <1>3, <1>4, <1>5, <1>6, <1>7 DEF LinkStep

\* The application, the Newtons and the layer.
LEMMA OtherSteps ==
  ASSUME DockingIInv,
         \/ AppStep \/ (\E c \in Apps : AppPosts(c)) \/ NewtonStep \/ LayerRuns
         \/ LayerEnds \/ UNCHANGED vars
  PROVE  Joint'
<1> USE DEF DockingIInv, Joint, NoDanglingPipe, NoPipeLost, PipeThread, NewPipe,
        ServerIInv, ServesItsState, Handling, loopVars, loopOwn, serverBounds
<1>1. CASE Start /\ ServerAlone
  BY <1>1 DEF Start, ServerAlone, linkVars, OneReport, Ends
<1>2. ASSUME NEW e \in {"waiting", "request", "stop"}, serverEvents' = Append(serverEvents, e)
      PROVE  Ends' = Ends
  BY <1>2, EndsAppended DEF Queue, ServerTypeOK
<1>3. CASE Stop /\ ServerAlone
  BY <1>2, <1>3 DEF Stop, ServerAlone, linkVars, OneReport
<1>4. CASE LayerRuns \/ LayerEnds
  <2>1. ServerKept
    BY <1>4 DEF LayerRuns, LayerEnds, LayerStep, LayerOpens, LayerTells, RequestPresent,
                LayerCloses, LayerBreaks
  <2>2. \/ serverEvents' \in {Append(serverEvents, e) : e \in {"waiting", "request"}}
        \/ UNCHANGED serverEvents
    BY <1>4 DEF LayerRuns, LayerEnds, LayerStep, LayerOpens, LayerTells, RequestPresent,
                LayerCloses, LayerBreaks
  <2>3. Ends' = Ends
    BY <1>2, <2>2 DEF Ends
  <2> QED
    BY <1>4, <2>1, <2>3 DEF LayerRuns, LayerEnds, ServerKept, ServerAlone, linkVars, OneReport
<1>5. CASE \E c \in Callers : (PostAppCommand(c) \/ Disconnect(c) \/ Close(c) \/ PostEvent(c))
                                /\ LinkAlone
  BY <1>5 DEF PostAppCommand, Disconnect, Close, Look, PostEvent, LinkAlone, serverVars,
              OneReport, Ends
<1>6. CASE NewtonStep
  BY <1>6 DEF NewtonStep, NewtonCalls, DataPresent, LinkAlone, serverVars, linkVars,
              OneReport, Ends
<1>7. CASE UNCHANGED vars
  BY <1>7 DEF vars, serverVars, linkVars, OneReport, Ends
<1> QED
  BY <1>1, <1>3, <1>4, <1>5, <1>6, <1>7 DEF AppStep, AppPosts, Apps

-----------------------------------------------------------------------------
(* One session after another: one request at a time, behind the report.    *)

LEMMA RequestsAppended ==
  ASSUME NEW e \in {"waiting", "request", "disconnected", "stop"}, Queue,
         serverEvents' = Append(serverEvents, e)
  PROVE  /\ Requests' = IF e = "request" THEN Requests \cup {Len(serverEvents) + 1}
                        ELSE Requests
         /\ \A i \in Ends \cup Requests : i < Len(serverEvents) + 1
BY DEF Queue, Requests, Ends

LEMMA RequestsTaken ==
  ASSUME Queue, serverEvents # <<>>, serverEvents' = Tail(serverEvents)
  PROVE  /\ \A i \in Requests' : i + 1 \in Requests
         /\ Head(serverEvents) = "request" <=> 1 \in Requests
         /\ \A i \in Ends : (i = 1 /\ Head(serverEvents) = "disconnected") \/ i - 1 \in Ends'
         /\ Requests' \subseteq Nat \ {0} /\ Ends \subseteq Nat \ {0}
<1>1. Len(serverEvents) \in Nat \ {0}
  BY DEF Queue
<1>2. Len(serverEvents') = Len(serverEvents) - 1
  BY DEF Queue
<1>3. \A i \in 1..Len(serverEvents') : serverEvents'[i] = serverEvents[i + 1]
  BY DEF Queue
<1>4. Head(serverEvents) = serverEvents[1]
  BY DEF Queue
<1>5. \A i \in 1..Len(serverEvents) : i = 1 \/ serverEvents'[i - 1] = serverEvents[i]
  BY <1>1, <1>2, <1>3
<1> QED
  BY <1>1, <1>2, <1>3, <1>4, <1>5 DEF Ends, Requests

\* What disturbs the order of sessions does so for good.
LEMMA CalmBefore ==
  ASSUME DockingIInv, [Next]_vars, Calm'
  PROVE  Calm
<1>1. [LinkNext]_linkVars \/ StopPosts
  BY LinkSimulated
<1>2. failed \subseteq failed'
  BY <1>1
  DEF LinkNext, OwnStep, Calling, StopPosts, ConnectStarts, ConnectThrows, ReadState, DoConnect,
      Connected, Work, ServeEvent, ServeData, ServeCommand, ServeDisconnect, ServeClose, Serve,
      DoDisconnect, SetState, HandleException, ThreadEnds, Disconnected, PostAppCommand,
      Disconnect, Close, Look, PostEvent, DataPresent, linkVars, outcome
<1>3. overlap => overlap'
  BY DEF Next, vars, ServerStep, AskLink, ServerAlone, DeleteOld, AcceptPipe, Connect, HangUpPipe,
         StopLooks, StopAsks, LinkStep, StartPipe, ReportEnd, LinkAlone, AppStep, AppPosts,
         NewtonStep, LayerRuns, LayerEnds
<1>4. unheard => unheard'
  <2>1. [ServerNext]_serverVars
    BY ServerSimulated
  <2> QED
    BY <2>1
    DEF ServerNext, serverVars, layerVars, Start, Stop, ServerOwnStep, AnyLink, ReadServerState,
        Listen, ServeServerEvent, Accept, Answered, AnswerThrows, LookAtLink, DeleteOldPipe,
        ConnectLink, HangUp, DoStop, StopLayer, StopReturns, SetServerState, ServerIsDown,
        ServerThrows, NewtonCalls, LayerStep, ServerKept, LayerOpens, LayerTells,
        RequestPresent, LayerCloses, LayerBreaks, LinkReports
<1> QED
  BY <1>2, <1>3, <1>4 DEF Calm, DockingIInv

\* The server asks, deletes, accepts, hands over and hangs up.
LEMMA PipeStepsInOrder ==
  ASSUME DockingIInv, Calm, OneRequest, ReportFirst,
         AskLink \/ DeleteOld \/ AcceptPipe \/ Connect \/ HangUpPipe
  PROVE  OneRequest' /\ ReportFirst'
<1>1. ASSUME Answered, Answering, serverPc' \in {"bottom", "connect"},
             mPipe' \notin begun \/ UNCHANGED mPipe,
             UNCHANGED <<serverEvents, linkVars, begun>>
      PROVE  OneRequest' /\ ReportFirst'
  <2>1. /\ waiting = 1 /\ waiting' = 0 /\ UNCHANGED <<sockets, inPair>>
        /\ Requests = {} /\ Ends = {} /\ UNCHANGED <<Requests, Ends>> /\ ~Answering'
    BY <1>1 DEF Answered, Answering, OneRequest, ReportFirst, Requests, Ends, DockingIInv,
                ServerIInv, ServerTypeOK
  <2>2. wakes' > 0 => inPair \/ sockets = "closed"
    BY <1>1 DEF Answered, WakeLayer, OneRequest
  <2>3. UNCHANGED <<linkPc, pipe, started>>
    BY <1>1 DEF linkVars, loopVars
  <2>4. OneRequest'
    BY <2>1, <2>2 DEF OneRequest
  <2>5. pipe = 0 /\ mPipe \in begun => serverPc = "hangup"
    BY <2>1 DEF ReportFirst
  <2>6. ReportFirst'
    BY <1>1, <2>1, <2>3, <2>5 DEF ReportFirst, Answering
  <2> QED
    BY <2>4, <2>6
<1>2. ASSUME AnswerThrows, Answering, UNCHANGED <<serverEvents, linkVars, begun, mPipe, accepted>>
      PROVE  OneRequest' /\ ReportFirst'
  <2>1. /\ waiting' \in 0..waiting /\ UNCHANGED <<sockets, inPair, wakes>>
        /\ Requests = {} /\ Ends = {} /\ UNCHANGED <<Requests, Ends>> /\ serverPc' = "throw"
    BY <1>2 DEF AnswerThrows, Answering, OneRequest, ReportFirst, Requests, Ends, DockingIInv,
                ServerIInv, ServerTypeOK, threadVars, Then
  <2>2. UNCHANGED <<linkPc, pipe, started>>
    BY <1>2 DEF linkVars, loopVars
  <2>3. waiting \in Nat
    BY DEF DockingIInv, ServerIInv, ServerTypeOK
  <2>4. OneRequest'
    BY <1>2, <2>1, <2>2, <2>3 DEF OneRequest, Answering
  <2>5. ReportFirst'
    BY <1>2, <2>1, <2>2 DEF ReportFirst, Answering
  <2> QED
    BY <2>4, <2>5
<1> USE ServerAssumption DEF Then, TurnDone
<1>3. CASE AskLink
  <2>1. serverPc = "look" /\ Answering /\ UNCHANGED <<serverEvents, linkVars, begun, mPipe, accepted>>
    BY <1>3 DEF AskLink, LookAtLink, ServerAlone, Answering
  <2>2. CASE UNCHANGED layerVars /\ serverPc' = "delete"
    BY <2>1, <2>2 DEF OneRequest, ReportFirst, Answering, Requests, Ends, layerVars, threadVars,
                      socketVars, linkVars, loopVars
  <2> QED
    BY <1>1, <1>2, <1>3, <2>1, <2>2 DEF AskLink, LookAtLink
<1>4. CASE DeleteOld
  BY <1>4 DEF DeleteOld, DeleteOldPipe, OneRequest, ReportFirst, Answering, Requests, Ends,
              linkVars, loopVars, layerVars, threadVars, socketVars
<1>5. CASE AcceptPipe
  <2>1. Answering /\ UNCHANGED <<serverEvents, linkVars, begun>>
    BY <1>5 DEF AcceptPipe, Accept, Answering
  <2>2. CASE accepted' = accepted + 1 /\ mPipe' = accepted' /\ Answered /\ serverPc' = "connect"
    <3>1. accepted = started /\ begun \subseteq 1..started /\ started \in Nat
      BY <2>1 DEF DockingIInv, PipeThread, OneRequest, LinkIInv, LinkTypeOK, LinkAssumption,
                  Sessions
    <3>2. mPipe' \notin begun
      BY <2>2, <3>1
    <3> QED
      BY <1>1, <2>1, <2>2, <3>2
  <2> QED
    BY <1>2, <1>5, <2>1, <2>2 DEF AcceptPipe, Accept
<1>6. CASE Connect
  BY <1>6 DEF Connect, ConnectLink, ConnectStarts, ConnectThrows, OneRequest, ReportFirst,
              Answering, Requests, Ends, Calm, loopVars, layerVars, threadVars, socketVars,
              DockingIInv, LinkIInv, LinkTypeOK
<1>7. CASE HangUpPipe
  BY <1>7 DEF HangUpPipe, HangUp, OneRequest, ReportFirst, Answering, Requests, Ends, linkVars,
              loopVars, layerVars, threadVars, socketVars, DockingIInv, Sessions
<1> QED
  BY <1>3, <1>4, <1>5, <1>6, <1>7

\* The server by itself: a request that it takes was the only one, and all
\* reports are served by then.
LEMMA ServerAloneInOrder ==
  ASSUME DockingIInv, Calm, Calm', OneRequest, ReportFirst, ServerStep,
         ~(AskLink \/ DeleteOld \/ AcceptPipe \/ Connect \/ HangUpPipe)
  PROVE  OneRequest' /\ ReportFirst'
<1>1. Queue
  BY DEF Queue, DockingIInv, ServerIInv, ServerTypeOK
<1> USE DEF OneRequest, ReportFirst, Answering, Then, TurnDone, ServerAlone, linkVars, loopVars,
        loopOwn, layerVars, threadVars, socketVars, serverBounds
<1>2. CASE StopLooks
  BY <1>2 DEF StopLooks, DoStop, serverVars, Ends, Requests
<1>3. CASE StopAsks
  BY <1>3 DEF StopAsks, DoStop, PostEvent, Ends, Requests
<1>4. CASE (ReadServerState \/ SetServerState \/ ServerIsDown \/ ServerThrows) /\ ServerAlone
  BY <1>4 DEF ReadServerState, SetServerState, ServerIsDown, ServerThrows, Ends, Requests
<1>5. CASE (Listen \/ StopReturns) /\ ServerAlone
  BY <1>5 DEF Listen, StopReturns, Ends, Requests
<1>6. CASE ServeServerEvent /\ ServerAlone
  <2>1. /\ \A i \in Ends' : i + 1 \in Ends
        /\ Ends' \subseteq Nat \ {0}
    BY <1>1, <1>6, EndsTaken DEF ServeServerEvent
  <2>2. /\ \A i \in Requests' : i + 1 \in Requests
        /\ Head(serverEvents) = "request" <=> 1 \in Requests
        /\ \A i \in Ends : (i = 1 /\ Head(serverEvents) = "disconnected") \/ i - 1 \in Ends'
        /\ Requests' \subseteq Nat \ {0} /\ Ends \subseteq Nat \ {0}
    BY <1>1, <1>6, RequestsTaken DEF ServeServerEvent
  <2>3. serverPc' \in {"look", "hangup", "bottom"} /\ serverPc = "wait"
    BY <1>6 DEF ServeServerEvent
  <2>4. CASE Head(serverEvents) = "request"
    <3>1. 1 \in Requests /\ Requests' = {} /\ Ends' = {}
      BY <2>1, <2>2, <2>4
    <3>2. serverPc' = "look" /\ Ends = {}
      BY <1>6, <2>2, <2>4, <3>1 DEF ServeServerEvent
    <3> QED
      BY <1>6, <3>1, <3>2 DEF ServeServerEvent
  <2>5. CASE Head(serverEvents) = "disconnected"
    <3>1. serverPc' = "hangup"
      BY <1>6, <2>5 DEF ServeServerEvent
    <3> QED
      BY <1>6, <2>1, <2>2, <2>3, <3>1 DEF ServeServerEvent
  <2>6. CASE Head(serverEvents) \notin {"request", "disconnected"}
    <3>1. serverPc' = "bottom"
      BY <1>6, <2>6 DEF ServeServerEvent
    <3>2. Ends # {} => Ends' # {}
      BY <2>2, <2>6
    <3> QED
      BY <1>6, <2>1, <2>2, <2>3, <3>1, <3>2 DEF ServeServerEvent
  <2> QED
    BY <2>4, <2>5, <2>6
<1>7. CASE StopLayer /\ ServerAlone
  <2>1. Ends' = Ends /\ Requests' = Requests /\ ~Answering'
    BY <1>7 DEF StopLayer, Ends, Requests
  <2>2. UNCHANGED <<waiting, sockets, mPipe, accepted, pipe, started, linkPc, begun>>
    BY <1>7 DEF StopLayer
  <2>3. serverPc = "stopLayer" /\ serverPc' = "spin"
    BY <1>7 DEF StopLayer
  <2>4. inPair' \/ sockets' = "closed"
    <3>1. ~unheard'
      BY DEF Calm
    <3>2. sockets \in {"open", "closed"}
      BY <1>7, <3>1 DEF StopLayer, DockingIInv, ServerIInv, ServerTypeOK
    <3> QED
      BY <1>7, <2>2, <3>2 DEF StopLayer
  <2>5. OneRequest'
    BY <2>1, <2>2, <2>3, <2>4
  <2>6. ReportFirst'
    BY <2>1, <2>2, <2>3
  <2> QED
    BY <2>5, <2>6
<1> QED
  BY <1>2, <1>3, <1>4, <1>5, <1>6, <1>7 DEF ServerStep

\* The link has ended before there is a request, and reports at its end.
LEMMA LinkInOrder ==
  ASSUME DockingIInv, Calm, OneRequest, ReportFirst, LinkStep, Calm'
  PROVE  OneRequest' /\ ReportFirst'
<1> USE DEF OneRequest, ReportFirst, Answering, LinkAlone, serverVars, layerVars, threadVars, socketVars, loopVars,
        appVars, outcome
<1>1. CASE StartPipe
  BY <1>1 DEF StartPipe, linkVars, Ends, Requests, DockingIInv, LinkIInv, SessionKept, InTurn
<1>2. CASE ReportEnd
  <2>1. Queue
    BY DEF Queue, DockingIInv, ServerIInv, ServerTypeOK
  <2>2. Ends' = Ends \cup {Len(serverEvents) + 1} /\ Requests' = Requests
    BY <1>2, <2>1, EndsAppended, RequestsAppended DEF ReportEnd
  <2>3. Requests = {} /\ ~Answering /\ waiting = 0
    BY <1>2 DEF ReportEnd, Disconnected, DockingIInv, ServerIInv, ServerTypeOK
  <2> QED
    BY <1>2, <2>2, <2>3 DEF ReportEnd, Disconnected
<1>3. CASE ~StartPipe /\ ~ReportEnd
  <2>1. UNCHANGED <<serverVars, live, begun, overlap, pipe, started>>
    BY <1>3
    DEF LinkStep, ReadState, DoConnect, Connected, Work, ServeEvent, ServeData, ServeCommand,
        ServeDisconnect, ServeClose, Serve, DoDisconnect, SetState, HandleException, ThreadEnds
  <2>2. linkPc # "out"
    BY <1>3
    DEF LinkStep, ReadState, DoConnect, Connected, Work, ServeEvent, ServeData, ServeCommand,
        ServeDisconnect, ServeClose, Serve, DoDisconnect, SetState, HandleException, ThreadEnds
  <2> QED
    BY <2>1, <2>2 DEF Ends, Requests
<1> QED
  BY <1>1, <1>2, <1>3

\* The layer announces a Newton when no request is on its way, and closes its
\* sockets for good.
LEMMA LayerInOrder ==
  ASSUME DockingIInv, Calm, OneRequest, ReportFirst, LayerRuns \/ LayerEnds
  PROVE  OneRequest' /\ ReportFirst'
<1>1. Queue
  BY DEF Queue, DockingIInv, ServerIInv, ServerTypeOK
<1>2. UNCHANGED <<linkVars, serverPc, mPipe, accepted, begun>>
  BY DEF LayerRuns, LayerEnds, ServerAlone, LayerStep, LayerOpens, LayerTells, RequestPresent,
         LayerCloses, LayerBreaks, ServerKept
<1>3. UNCHANGED <<linkPc, pipe, started, Answering>>
  BY <1>2 DEF linkVars, loopVars, Answering
<1> USE DEF LayerRuns, LayerEnds, socketVars
<1>4. CASE RequestPresent
  <2>1. /\ Ends' = Ends /\ Requests' = Requests \cup {Len(serverEvents) + 1}
        /\ \A i \in Ends \cup Requests : i < Len(serverEvents) + 1
    BY <1>1, <1>4, EndsAppended, RequestsAppended DEF RequestPresent
  <2>2. wakes = 0 /\ ~pending /\ ~inPair /\ sockets # "closed" /\ waiting > 0
    BY <1>4 DEF RequestPresent, Listens, OneRequest, DockingIInv, ServerIInv, ServerTypeOK
  <2>3. Requests = {} /\ ~Answering /\ serverPc # "connect"
    BY <2>2 DEF OneRequest
  <2>4. linkPc = "out" /\ accepted = started
    BY <2>2 DEF OneRequest
  <2>5. pending' /\ wakes' = 0 /\ UNCHANGED <<sockets, waiting>>
    BY <1>4, <2>2 DEF RequestPresent
  <2>6. OneRequest'
    BY <1>2, <1>3, <2>1, <2>2, <2>3, <2>4, <2>5 DEF OneRequest
  <2>7. ReportFirst'
    BY <1>2, <1>3, <2>1, <2>3 DEF ReportFirst
  <2> QED
    BY <2>6, <2>7
<1>5. CASE LayerTells
  <2>1. Ends' = Ends /\ Requests' = Requests
    BY <1>1, <1>5, EndsAppended, RequestsAppended DEF LayerTells
  <2>2. UNCHANGED <<pending, wakes, sockets, inPair, waiting>>
    BY <1>5 DEF LayerTells
  <2> QED
    BY <1>2, <1>3, <2>1, <2>2 DEF OneRequest, ReportFirst
<1>6. CASE LayerOpens \/ LayerCloses \/ LayerBreaks
  <2>1. Ends' = Ends /\ Requests' = Requests
    BY <1>6 DEF LayerOpens, LayerCloses, LayerBreaks, Ends, Requests
  <2>2. UNCHANGED <<pending, wakes>> /\ waiting' \in {0, waiting}
    BY <1>6 DEF LayerOpens, LayerCloses, LayerBreaks
  <2>3. pending \/ inPair \/ sockets = "closed" => pending' \/ inPair' \/ sockets' = "closed"
    BY <1>6 DEF LayerOpens, LayerCloses, LayerBreaks
  <2>4. inPair \/ sockets = "closed" => inPair' \/ sockets' = "closed"
    BY <1>6 DEF LayerOpens, LayerCloses, LayerBreaks
  <2>5. waiting \in Nat
    BY DEF DockingIInv, ServerIInv, ServerTypeOK
  <2>6. OneRequest'
    BY <1>2, <1>3, <2>1, <2>2, <2>3, <2>4, <2>5 DEF OneRequest
  <2>7. ReportFirst'
    BY <1>2, <1>3, <2>1 DEF ReportFirst
  <2> QED
    BY <2>6, <2>7
<1> QED
  BY <1>4, <1>5, <1>6 DEF LayerStep

\* A Newton calls when the last session is over, and is announced once.
LEMMA OthersInOrder ==
  ASSUME DockingIInv, Calm, OneRequest, ReportFirst, Calm',
         \/ AppStep \/ (\E c \in Apps : AppPosts(c)) \/ NewtonStep \/ LayerRuns
         \/ LayerEnds \/ UNCHANGED vars
  PROVE  OneRequest' /\ ReportFirst'
<1>1. Queue
  BY DEF Queue, DockingIInv, ServerIInv, ServerTypeOK
<1> USE DEF OneRequest, ReportFirst, Answering, loopVars, loopOwn, layerVars, threadVars, socketVars, serverBounds
<1>2. CASE Start /\ ServerAlone
  BY <1>2 DEF Start, ServerAlone, linkVars, Ends, Requests
<1>3. CASE Stop /\ ServerAlone
  <2>1. Ends' = Ends /\ Requests' = Requests
    BY <1>1, <1>3, EndsAppended, RequestsAppended DEF Stop
  <2> QED
    BY <1>3, <2>1 DEF Stop, ServerAlone, linkVars
<1>4. CASE LayerRuns \/ LayerEnds
  BY <1>4, LayerInOrder
<1>5. CASE \E c \in Callers : (PostAppCommand(c) \/ Disconnect(c) \/ Close(c) \/ PostEvent(c))
                                /\ LinkAlone
  BY <1>5 DEF PostAppCommand, Disconnect, Close, Look, PostEvent, LinkAlone, serverVars, Ends,
              Requests
<1>6. CASE NewtonCalls /\ overlap' = (overlap \/ ~(linkPc = "out" /\ waiting = 0 /\ accepted = started))
           /\ UNCHANGED <<linkVars, live, begun>>
  <2>1. linkPc = "out" /\ waiting = 0 /\ accepted = started
    BY <1>6 DEF Calm
  <2>2. serverPc # "connect"
    BY <2>1 DEF DockingIInv, NewPipe, LinkIInv, LinkTypeOK
  <2> QED
    BY <1>6, <2>1, <2>2 DEF NewtonCalls, linkVars, Ends, Requests
<1>7. CASE DataPresent /\ LinkAlone
  BY <1>7 DEF DataPresent, LinkAlone, serverVars, Ends, Requests
<1>8. CASE UNCHANGED vars
  BY <1>8 DEF vars, serverVars, linkVars, Ends, Requests
<1> QED
  BY <1>2, <1>3, <1>4, <1>5, <1>6, <1>7, <1>8 DEF AppStep, AppPosts, Apps, NewtonStep

LEMMA StepInOrder ==
  ASSUME DockingIInv, [Next]_vars
  PROVE  SessionsInOrder'
<1> SUFFICES ASSUME Calm' PROVE OneRequest' /\ ReportFirst'
  BY DEF SessionsInOrder
<1>1. Calm /\ OneRequest /\ ReportFirst
  BY CalmBefore DEF DockingIInv, SessionsInOrder
<1> QED
  BY <1>1, PipeStepsInOrder, ServerAloneInOrder, LinkInOrder, OthersInOrder DEF Next

LEMMA StepDockingIInv ==
  ASSUME DockingIInv, [Next]_vars
  PROVE  DockingIInv'
<1>1. LinkIInv' /\ ServerIInv'
  BY PartsIInv
<1>2. Joint'
  BY PipeSteps, ServerAloneSteps, LinkThreadSteps, OtherSteps DEF Next
<1>3. SessionsInOrder'
  BY StepInOrder
<1> QED
  BY <1>1, <1>2, <1>3 DEF DockingIInv, Joint

-----------------------------------------------------------------------------
\* The invariants of the parts hold in the whole, and each pipe is where both
\* believe it to be.
THEOREM DockingInvariance == Spec => []DockingIInv
BY InitDockingIInv, StepDockingIInv, PTL DEF Spec

\* The link never uses a pipe that the server has deleted or replaced.
THEOREM NoDangling == Spec => []NoDanglingPipe
<1>1. DockingIInv => NoDanglingPipe
  BY DEF DockingIInv
<1> QED
  BY <1>1, DockingInvariance, PTL

\* The server never loses a pipe.
THEOREM NoneLost == Spec => []NoPipeLost
<1>1. DockingIInv => NoPipeLost
  BY DEF DockingIInv
<1> QED
  BY <1>1, DockingInvariance, PTL

\* As long as one session follows another, the thread of the server, which
\* serves everybody, never waits for a pipe whose thread nobody told to end.
THEOREM NeverWaitsForPipe == Spec => []NeverStuck
<1>1. DockingIInv => NeverStuck
  <2> SUFFICES ASSUME DockingIInv, serverPc = "delete", Calm
               PROVE  mPipe \notin begun
    BY DEF NeverStuck
  <2>1. Ends = {} /\ linkPc = "out"
    BY DEF DockingIInv, SessionsInOrder, OneRequest, ReportFirst, Answering
  <2>2. pipe = 0
    BY <2>1 DEF DockingIInv, LinkIInv, SessionKept, Calm
  <2> QED
    BY <2>1, <2>2 DEF DockingIInv, SessionsInOrder, ReportFirst
<1> QED
  BY <1>1, DockingInvariance, PTL

\* With the real link the server does nothing that it does not do with a link
\* that answers freely: what is proved in ServerProofs holds here too.
THEOREM ServerImplemented == Spec => ServerSafety
<1>1. Init => ServerInit
  BY DEF Init
<1> QED
  BY <1>1, DockingInvariance, ServerSimulated, PTL DEF Spec, ServerSafety
=============================================================================
