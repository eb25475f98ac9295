------------------------------- MODULE Server -------------------------------
(***************************************************************************)
(* The server that gives the link of the application to the Newtons that   *)
(* call: TDCLServer (DCL/Server/TDCLServer.cpp) with the handlers of       *)
(* TDCLSimpleServer and TDCLOneLinkServer, for one communication layer.    *)
(*                                                                         *)
(* Its thread serves a queue of events; Start and Stop are called by other *)
(* threads and change or look at mState inside mStateMutex, one step each. *)
(* Here the link answers freely; the module Docking puts the real one in.  *)
(* The thread of the layer is that of module CommLayer in larger steps.    *)
(***************************************************************************)
EXTENDS Naturals, Sequences

CONSTANTS Exceptions,   \* may accept() throw, and the thread of the layer end on an error?
          PatientStart, \* does the application wait for the thread before Start?
          MaxStarts, MaxStops, MaxNewtons   \* bounds: calls of each kind

ASSUME ServerAssumption == /\ Exceptions \in BOOLEAN /\ PatientStart \in BOOLEAN
                           /\ MaxStarts \in Nat /\ MaxStops \in Nat /\ MaxNewtons \in Nat

VARIABLES
  serverState,  \* TDCLServer::mState
  serverPc,     \* "out" (stopped), "top", "listen", "wait", "look", "delete",
                \* "accept", "connect", "hangup", "DoStop", "stopLayer",
                \* "spin", "bottom", "down", "throw"
  serverSeen, serverNext,   \* theState and theNextState of the loop
  serverEvents, \* the queue: "waiting", "request", "disconnected", "stop"
  mPipe,        \* the connection: the number of its request, 0 for nil
  accepted,     \* connections accepted
  listening,    \* the layer knows the server
  layerPc,      \* the thread of the layer: "out", "open", "tell", or "on" in its loop
  sockets,      \* its sockets: "none", "open", "unpaired", or "closed" for ever
  inPair,       \* a byte waits in the pair that interrupts the thread
  waiting,      \* Newtons in the backlog of the layer
  pending,      \* the thread sleeps until the request it announced is answered
  wakes,        \* its TThread::mWakeCount
  broken,       \* it has ended on an error or a signal before
  unheard,      \* the layer was stopped before without a pair to interrupt the thread
  starts, stops, newtons

threadVars == <<layerPc, pending, wakes>>
socketVars == <<sockets, inPair, waiting>>
layerVars  == <<listening, threadVars, socketVars, broken, unheard>>
loopOwn    == <<serverSeen, serverNext>>
serverBounds == <<starts, stops, newtons>>
serverVars == <<serverState, serverPc, loopOwn, serverEvents, mPipe, accepted, layerVars,
                serverBounds>>

ServerStates == {"stopped", "starting", "running", "stopping", "unknown"}

ServerTypeOK ==
  /\ serverState \in ServerStates /\ serverSeen \in ServerStates /\ serverNext \in ServerStates
  /\ serverPc \in {"out", "top", "listen", "wait", "look", "delete", "accept", "connect",
                   "hangup", "DoStop", "stopLayer", "spin", "bottom", "down", "throw"}
  /\ serverEvents \in Seq({"waiting", "request", "disconnected", "stop"})
  /\ mPipe \in 0..MaxNewtons /\ accepted \in 0..MaxNewtons
  /\ listening \in BOOLEAN /\ layerPc \in {"out", "open", "tell", "on"}
  /\ sockets \in {"none", "open", "unpaired", "closed"} /\ inPair \in BOOLEAN
  /\ waiting \in 0..MaxNewtons /\ pending \in BOOLEAN /\ wakes \in Nat
  /\ broken \in BOOLEAN /\ unheard \in BOOLEAN
  /\ starts \in 0..MaxStarts /\ stops \in 0..MaxStops /\ newtons \in 0..MaxNewtons

ServerInit ==
  /\ serverState = "stopped" /\ serverPc = "out"
  /\ serverSeen = "stopped" /\ serverNext = "stopped" /\ serverEvents = <<>>
  /\ mPipe = 0 /\ accepted = 0
  /\ listening = FALSE /\ layerPc = "out" /\ sockets = "none" /\ inPair = FALSE
  /\ waiting = 0 /\ pending = FALSE /\ wakes = 0
  /\ broken = FALSE /\ unheard = FALSE
  /\ starts = 0 /\ stops = 0 /\ newtons = 0

-----------------------------------------------------------------------------
(* Start and Stop.                                                         *)

Start ==
  /\ serverState = "stopped" /\ starts < MaxStarts
  /\ PatientStart => serverPc = "out"
  /\ serverState' = "starting"
  /\ starts' = starts + 1
  \* TDCLThread::Start throws if the thread of the last run has not ended; Start
  \* lets the exception through, and mState stays as it is.
  /\ serverPc' = IF serverPc = "out" THEN "top" ELSE serverPc
  /\ UNCHANGED <<loopOwn, serverEvents, mPipe, accepted, layerVars, stops, newtons>>

Stop ==
  /\ serverState \in {"running", "starting"} /\ stops < MaxStops
  /\ serverEvents' = Append(serverEvents, "stop")
  /\ stops' = stops + 1
  /\ UNCHANGED <<serverState, serverPc, loopOwn, mPipe, accepted, layerVars, starts,
                 newtons>>

-----------------------------------------------------------------------------
(* The thread of the server: Run.  Then(pc, next) names what comes next.   *)

Then(pc) == serverPc' = pc /\ UNCHANGED loopOwn
TurnDone(s) == serverPc' = "bottom" /\ serverNext' = s /\ UNCHANGED serverSeen

ReadServerState ==
  /\ serverPc = "top"
  /\ serverSeen' = serverState
  /\ serverNext' = IF serverState = "unknown" THEN "stopped" ELSE serverState
  /\ serverPc' = CASE serverState = "starting" -> "listen"
                   [] serverState = "running"  -> "wait"
                   [] serverState = "stopping" -> "DoStop"
                   [] OTHER                    -> "bottom"
  /\ UNCHANGED <<serverState, serverEvents, mPipe, accepted, layerVars, serverBounds>>

\* DoStartListening: the thread of the layer is started, and will open its sockets.
Listen ==
  /\ serverPc = "listen" /\ ~listening
  /\ listening' = TRUE /\ layerPc' = "open"
  /\ TurnDone("running")
  /\ UNCHANGED <<serverState, serverEvents, mPipe, accepted, pending, wakes, socketVars,
                 broken, unheard, serverBounds>>

\* Mutant: a stop request is served before the requests that came before it.
ServeStopFirst ==
  /\ serverPc = "wait" /\ serverEvents # <<>>
  /\ serverEvents' = Tail(serverEvents)
  /\ CASE Head(serverEvents) = "request"      -> Then("look")
       [] Head(serverEvents) = "disconnected" -> Then("hangup")
       [] OTHER -> TurnDone("running")
  /\ UNCHANGED <<serverState, mPipe, accepted, layerVars, serverBounds>>

\* ProcessEvent, up to the call of the handler.
ServeServerEvent ==
  /\ serverPc = "wait" /\ serverEvents # <<>>
  /\ serverEvents' = Tail(serverEvents)
  /\ CASE Head(serverEvents) = "request"      -> Then("look")
       [] Head(serverEvents) = "disconnected" -> Then("hangup")
       [] Head(serverEvents) = "stop"         -> TurnDone("stopping")
       [] OTHER                               -> TurnDone("running")
  /\ UNCHANGED <<serverState, mPipe, accepted, layerVars, serverBounds>>

Listens == sockets \in {"open", "unpaired"}

\* WakeUp of the thread of the layer.
WakeLayer == /\ pending' = FALSE
             /\ wakes' = IF pending THEN wakes ELSE wakes + 1
             /\ UNCHANGED layerPc

\* Accept and Refuse of the layer, which wait while no Newton does and wake the
\* thread up at their end.  They throw if the listening socket is closed, and may
\* throw with the request of a Newton in hand or left in the backlog; then without
\* the wake-up.
Answered == /\ Listens /\ waiting > 0
            /\ waiting' = waiting - 1
            /\ WakeLayer
            /\ UNCHANGED <<listening, sockets, inPair, broken, unheard>>
AnswerThrows == /\ \/ sockets = "closed" /\ UNCHANGED waiting
                   \/ Exceptions /\ waiting > 0 /\ waiting' \in {waiting - 1, waiting}
                /\ Then("throw")
                /\ UNCHANGED <<listening, threadVars, sockets, inPair, broken, unheard>>

\* HandleIncomingConnection asks the link if it is connected; if it is, the
\* layer refuses the request.
LookAtLink(connected) ==
  /\ serverPc = "look"
  /\ \/ connected /\ Answered /\ TurnDone("running")
     \/ connected /\ AnswerThrows
     \/ ~connected /\ Then("delete") /\ UNCHANGED layerVars
  /\ UNCHANGED <<serverState, serverEvents, mPipe, accepted, serverBounds>>

\* A connection left over is deleted; the pointer keeps its value.
DeleteOldPipe ==
  /\ serverPc = "delete"
  /\ Then("accept")
  /\ UNCHANGED <<serverState, serverEvents, mPipe, accepted, layerVars, serverBounds>>

Accept ==
  /\ serverPc = "accept"
  /\ \/ /\ Answered
        /\ accepted' = accepted + 1 /\ mPipe' = accepted'
        /\ Then("connect")
     \/ AnswerThrows /\ UNCHANGED <<mPipe, accepted>>
  /\ UNCHANGED <<serverState, serverEvents, serverBounds>>

\* Connect of the link throws if the link's thread has not ended (busy).
ConnectLink(busy) ==
  /\ serverPc = "connect"
  /\ \/ ~busy /\ TurnDone("running")
     \/ busy  /\ Then("throw")
  /\ UNCHANGED <<serverState, serverEvents, mPipe, accepted, layerVars, serverBounds>>

\* HandleLinkDisconnection disconnects and deletes the connection.
HangUp ==
  /\ serverPc = "hangup"
  /\ mPipe' = 0
  /\ TurnDone("running")
  /\ UNCHANGED <<serverState, serverEvents, accepted, layerVars, serverBounds>>

\* Mutant: the layer goes on listening.
DoStopKeepsLayer ==
  /\ serverPc = "DoStop"
  /\ TurnDone("stopped")
  /\ UNCHANGED <<serverState, serverEvents, mPipe, accepted, layerVars, serverBounds>>

\* DoStop: the link is asked to disconnect, and the layer stops listening.
DoStop ==
  /\ serverPc = "DoStop"
  /\ Then("stopLayer")
  /\ UNCHANGED <<serverState, serverEvents, mPipe, accepted, layerVars, serverBounds>>

\* StopListening sends a byte through the pair, if the layer has one, wakes the
\* thread up, ...
StopLayer ==
  /\ serverPc = "stopLayer"
  /\ inPair' = (inPair \/ sockets = "open")
  /\ unheard' = (unheard \/ sockets \in {"none", "unpaired"})
  /\ WakeLayer
  /\ Then("spin")
  /\ UNCHANGED <<serverState, serverEvents, mPipe, accepted, listening, sockets, waiting,
                 broken, serverBounds>>

\* ... and returns once the thread has ended.
StopReturns ==
  /\ serverPc = "spin" /\ layerPc = "out"
  /\ listening' = FALSE
  /\ TurnDone("stopped")
  /\ UNCHANGED <<serverState, serverEvents, mPipe, accepted, threadVars, socketVars,
                 broken, unheard, serverBounds>>

\* The bottom of the loop; the loop ends after the turns that stop the server.
SetServerState ==
  /\ serverPc = "bottom"
  /\ serverState' = IF serverState = serverSeen THEN serverNext ELSE serverState
  /\ serverPc' = IF serverSeen \in {"stopping", "stopped", "unknown"} THEN "down" ELSE "top"
  /\ UNCHANGED <<loopOwn, serverEvents, mPipe, accepted, layerVars, serverBounds>>

\* The application is told, and the thread ends.
ServerIsDown ==
  /\ serverPc = "down"
  /\ Then("out")
  /\ UNCHANGED <<serverState, serverEvents, mPipe, accepted, layerVars, serverBounds>>

\* HandleException.
ServerThrows ==
  /\ serverPc = "throw"
  /\ serverState' = IF serverState \in {"stopped", "starting", "stopping"}
                    THEN "stopped" ELSE "unknown"
  /\ Then("out")
  /\ UNCHANGED <<serverEvents, mPipe, accepted, layerVars, serverBounds>>

\* The steps that need nothing of the link.
ServerOwnStep == ReadServerState \/ Listen \/ ServeServerEvent \/ Accept \/ StopLayer
                   \/ StopReturns \/ SetServerState \/ ServerIsDown \/ ServerThrows

-----------------------------------------------------------------------------
(* The communication layer (module CommLayer) and the Newtons.             *)

NewtonCalls == /\ Listens /\ newtons < MaxNewtons
               /\ newtons' = newtons + 1 /\ waiting' = waiting + 1
               /\ UNCHANGED <<serverState, serverPc, loopOwn, serverEvents, mPipe, accepted,
                              listening, threadVars, sockets, inPair, broken, unheard,
                              starts, stops>>

\* What the steps of the layer leave alone of the server.
ServerKept == UNCHANGED <<serverState, serverPc, loopOwn, mPipe, accepted, listening, unheard,
                          serverBounds>>

LayerOpens == /\ layerPc = "open"
              /\ sockets' = IF sockets = "none" THEN "open" ELSE sockets
              /\ layerPc' = "tell"
              /\ ServerKept
              /\ UNCHANGED <<serverEvents, pending, wakes, inPair, waiting, broken>>

LayerTells == /\ layerPc = "tell"
              /\ serverEvents' = Append(serverEvents, "waiting")
              /\ layerPc' = "on"
              /\ ServerKept
              /\ UNCHANGED <<pending, wakes, socketVars, broken>>

\* A request is announced, and the thread sleeps, unless a wake-up is in store.
RequestPresent == /\ layerPc = "on" /\ ~pending
                  /\ Listens /\ ~inPair /\ waiting > 0
                  /\ \/ wakes > 0 /\ wakes' = wakes - 1 /\ UNCHANGED pending
                     \/ wakes = 0 /\ pending' = TRUE /\ UNCHANGED wakes
                  /\ serverEvents' = Append(serverEvents, "request")
                  /\ ServerKept
                  /\ UNCHANGED <<layerPc, socketVars, broken>>

\* The thread ends: it was interrupted and closes its sockets, or finds them closed.
LayerCloses == /\ layerPc = "on" /\ ~pending
               /\ inPair \/ sockets = "closed"
               /\ sockets' = "closed" /\ inPair' = FALSE /\ waiting' = 0
               /\ layerPc' = "out"
               /\ ServerKept
               /\ UNCHANGED <<serverEvents, pending, wakes, broken>>

LayerStep == LayerOpens \/ LayerTells \/ RequestPresent \/ LayerCloses

\* Or its start fails, for want of the listening socket or of the pair, or a signal
\* or an error ends select(); what stands for a pair never made may also end it.
LayerBreaks == /\ Exceptions
               /\ \/ /\ layerPc = "open" /\ sockets = "none"
                     /\ sockets' \in {"none", "unpaired"} /\ UNCHANGED waiting
                  \/ /\ layerPc = "on" /\ ~pending /\ Listens
                     /\ UNCHANGED <<sockets, waiting>>
                  \/ /\ layerPc = "on" /\ ~pending /\ sockets = "unpaired"
                     /\ sockets' = "closed" /\ waiting' = 0
               /\ layerPc' = "out" /\ broken' = TRUE
               /\ ServerKept
               /\ UNCHANGED <<serverEvents, pending, wakes, inPair>>

\* A link that answers freely, and reports the end of a session while the server
\* still holds the connection.
LinkReports == /\ mPipe > 0 /\ serverPc # "connect"
               /\ "disconnected" \notin {serverEvents[i] : i \in 1..Len(serverEvents)}
               /\ serverEvents' = Append(serverEvents, "disconnected")
               /\ UNCHANGED <<serverState, serverPc, loopOwn, mPipe, accepted, layerVars,
                              serverBounds>>

AnyLink == \/ \E b \in BOOLEAN : LookAtLink(b) \/ ConnectLink(b)
           \/ DeleteOldPipe \/ HangUp \/ DoStop

ServerNext == Start \/ Stop \/ ServerOwnStep \/ AnyLink \/ NewtonCalls
                \/ LayerStep \/ LayerBreaks \/ LinkReports

\* The threads of the server and of the layer are scheduled; nothing has to fail.
ServerSpec == /\ ServerInit /\ [][ServerNext]_serverVars
              /\ WF_serverVars(ServerOwnStep \/ AnyLink) /\ WF_serverVars(LayerStep)

-----------------------------------------------------------------------------
\* The thread works on the state it read, and nobody changes mState meanwhile:
\* an event is handled only while the server is running.
Handling == {"wait", "look", "delete", "accept", "connect", "hangup", "throw"}

ServesItsState ==
  /\ serverPc \in {"out", "down"} => serverState \in {"stopped", "starting", "unknown"}
  /\ serverPc = "top"             => serverState \in {"starting", "running", "stopping"}
  /\ serverPc = "listen"          => serverState = "starting"
  /\ serverPc \in Handling        => serverState = "running"
  /\ serverPc \in {"DoStop", "stopLayer", "spin"} => serverState = "stopping"
  /\ serverPc \notin {"out", "down", "top"} => serverState = serverSeen
  /\ serverPc = "bottom" =>
       \/ serverState \in {"starting", "running"} /\ serverNext = "running"
       \/ serverState = "running"  /\ serverNext = "stopping"
       \/ serverState = "stopping" /\ serverNext = "stopped"

\* The layer is turned on and off in step with the states; at the bottom of the
\* loop the next one is not yet set.
LayerFollows ==
  listening <=> IF serverPc = "bottom" THEN serverNext # "stopped"
                ELSE serverState \in {"running", "stopping", "unknown"}

\* Where the thread of the layer is, and what it leaves.  Unless an error or a
\* signal ended it, it is off until the server starts it, opens its sockets, and
\* closes them when it is stopped.
LayerKept ==
  /\ layerPc # "out" => listening
  /\ pending => layerPc = "on"
  /\ sockets = "none" => layerPc \in {"out", "open"} /\ waiting = 0
  /\ inPair => sockets = "open"
  /\ sockets = "closed" => waiting = 0 /\ ~pending
  /\ ~broken => /\ layerPc \in {"tell", "on"} => sockets \in {"open", "closed"}
                /\ layerPc = "open" => sockets \in {"none", "closed"}
                /\ layerPc = "out" => sockets = "closed" \/ (sockets = "none" /\ ~listening)
                /\ inPair => serverPc = "spin"

\* Each Newton that called waits, was accepted, or was refused.
NewtonsCounted == accepted + waiting <= newtons /\ mPipe <= accepted

ServerIInv == ServerTypeOK /\ ServesItsState /\ LayerFollows /\ LayerKept /\ NewtonsCounted

\* A server that has stopped listens no more: the thread of the layer has ended, and
\* its sockets are closed, unless it ended on an error and left them.  A server that
\* runs listens or is about to, whatever was called, answered or thrown before,
\* unless that thread has ended on an error, or has closed its sockets at an earlier
\* stop and will not open them again.
ListensWhileUp ==
  /\ serverState = "stopped" => /\ ~listening /\ layerPc = "out"
                                /\ ~broken => sockets \in {"none", "closed"}
  /\ serverState = "running" /\ ~broken /\ sockets # "closed" =>
       \/ layerPc = "open"
       \/ layerPc \in {"tell", "on"} /\ sockets = "open" /\ ~inPair

\* If Start throws, "the server is kept in the stopped state" (TDCLServer.h): a
\* server that is starting has a thread that starts it.
StartingHasThread == serverState = "starting" => serverPc \notin {"out", "down"}
=============================================================================
