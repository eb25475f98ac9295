------------------------------- MODULE Docking -------------------------------
(***************************************************************************)
(* The server and the link together: the threads of TDCLServer and of      *)
(* TDCLLink share the pipe of the session.  The server creates it (Accept),*)
(* hands it to the link (Connect) and deletes it once the link has said,   *)
(* with an event, that the session is over; or before it accepts another   *)
(* connection.  The link uses it in between.                               *)
(***************************************************************************)
EXTENDS Link, Server

CONSTANTS TheServer,  \* the thread of the server, as a caller of the link
          MaxActs     \* bound: starts of the server and calls on the link together

ASSUME DockingAssumption == TheServer \in Callers /\ MaxSessions = MaxNewtons
                              /\ MaxActs \in Nat

VARIABLES live,    \* the pipes that exist
          begun,   \* the pipes whose thread was started
          overlap  \* a Newton has called before the last session was quite over

vars == <<linkVars, serverVars, live, begun, overlap>>

Init == LinkInit /\ ServerInit /\ live = {} /\ begun = {} /\ overlap = FALSE

LinkAlone   == UNCHANGED <<serverVars, live, begun, overlap>>
ServerAlone == UNCHANGED <<linkVars, live, begun, overlap>>

-----------------------------------------------------------------------------
(* The server asks the link, and gives it the pipe.                        *)

AskLink == ~mutexLost /\ LookAtLink(IsConnected) /\ ServerAlone

\* Deleting a pipe waits for its thread, which only Disconnect makes end.
DeleteOld == /\ mPipe \notin begun
             /\ DeleteOldPipe
             /\ live' = live \ {mPipe}
             /\ UNCHANGED <<linkVars, begun, overlap>>

AcceptPipe == /\ Accept
              /\ live' = IF accepted' # accepted THEN live \cup {accepted'} ELSE live
              /\ UNCHANGED <<linkVars, begun, overlap>>

\* Connect finds the link disconnected: nobody else connects it.
Connect == /\ \/ ConnectStarts /\ ConnectLink(FALSE)
              \/ ConnectThrows /\ ConnectLink(TRUE)
           /\ UNCHANGED <<live, begun, overlap>>

\* Mutant: the pipe is forgotten and not deleted.
HangUpForgets == HangUp /\ UNCHANGED <<live, linkVars, begun, overlap>>

\* The event does not say which pipe is meant: the server disconnects and
\* deletes the one it holds.
HangUpPipe == /\ HangUp
              /\ live' = live \ {mPipe}
              /\ UNCHANGED <<linkVars, begun, overlap>>

\* DoStop asks the link to disconnect, in the two steps of any caller.
StopLooks == /\ serverPc = "DoStop" /\ callerPc[TheServer] = Idle /\ ~mutexLost
             /\ \/ /\ linkState \in {"disconnected", "disconnecting"}
                   /\ DoStop /\ UNCHANGED linkVars
                \/ /\ linkState \notin {"disconnected", "disconnecting"}
                   /\ callerPc' = [callerPc EXCEPT ![TheServer] =
                                     [what |-> "disconnect", of |-> started]]
                   /\ UNCHANGED <<serverVars, linkState, mutexLost, loopVars, pipe, started,
                                  linkEvents, calls, outcome>>
             /\ UNCHANGED <<live, begun, overlap>>

StopAsks == PostEvent(TheServer) /\ DoStop /\ UNCHANGED <<live, begun, overlap>>

ServerStep == \/ AskLink \/ DeleteOld \/ AcceptPipe \/ Connect \/ HangUpPipe
              \/ StopLooks \/ StopAsks
              \/ /\ \/ ReadServerState \/ Listen \/ ServeServerEvent \/ StopLayer
                    \/ StopReturns \/ SetServerState \/ ServerIsDown \/ ServerThrows
                 /\ ServerAlone

-----------------------------------------------------------------------------
(* The link uses the pipe, and tells the server.                           *)

\* DoConnect starts the thread of the pipe before it greets the Newton.
StartPipe == /\ linkPc = "DoConnect" /\ pipe \notin begun
             /\ begun' = begun \cup {pipe}
             /\ UNCHANGED <<linkVars, serverVars, live, overlap>>

\* Mutants: the server is not told, or already when the link begins to say goodbye.
ReportEndSilent == Disconnected /\ LinkAlone
ReportGoodbye == /\ \/ Disconnected
                    \/ linkPc = "DoDisconnect" /\ serverEvents = <<>> /\ UNCHANGED linkVars
                 /\ serverEvents' = Append(serverEvents, "disconnected")
                 /\ UNCHANGED <<serverState, serverPc, loopOwn, mPipe, accepted, layerVars,
                                serverBounds, live, begun, overlap>>

ReportEnd == /\ Disconnected
             /\ serverEvents' = Append(serverEvents, "disconnected")
             /\ UNCHANGED <<serverState, serverPc, loopOwn, mPipe, accepted, layerVars,
                            serverBounds, live, begun, overlap>>

LinkStep == \/ StartPipe \/ ReportEnd
            \/ /\ \/ ReadState \/ (pipe \in begun /\ DoConnect) \/ Connected \/ ServeEvent
                  \/ DoDisconnect \/ SetState \/ HandleException \/ ThreadEnds
               /\ LinkAlone

-----------------------------------------------------------------------------
(* The application, the layer and the Newtons.                             *)

Apps == Callers \ {TheServer}

AppStep == \/ Stop /\ ServerAlone
           \/ /\ starts + calls < MaxActs
              /\ \/ Start /\ ServerAlone
                 \/ \E c \in Apps : (PostAppCommand(c) \/ Disconnect(c) \/ Close(c)) /\ LinkAlone

AppPosts(c) == PostEvent(c) /\ LinkAlone

\* A session is over for a Newton that calls once the thread of the link has
\* ended, whether or not the server has already taken note.
NewtonStep == \/ /\ NewtonCalls
                 /\ overlap' = (overlap \/ ~(linkPc = "out" /\ waiting = 0 /\ accepted = started))
                 /\ UNCHANGED <<linkVars, live, begun>>
              \/ DataPresent /\ pipe \in live \cap begun /\ LinkAlone

LayerRuns == LayerStep /\ ServerAlone
LayerEnds == LayerBreaks /\ ServerAlone

Next == ServerStep \/ LinkStep \/ AppStep \/ (\E c \in Apps : AppPosts(c))
          \/ NewtonStep \/ LayerRuns \/ LayerEnds

(***************************************************************************)
(* The threads of the server, of the link, of the layer and of a caller    *)
(* inside a call are scheduled; nobody has to call, and nothing to fail.   *)
(***************************************************************************)
Spec == /\ Init /\ [][Next]_vars
        /\ WF_vars(ServerStep) /\ WF_vars(LinkStep) /\ WF_vars(LayerRuns)
        /\ \A c \in Apps : WF_vars(AppPosts(c))

-----------------------------------------------------------------------------
\* The link never uses a pipe that the server has deleted or replaced.
NoDanglingPipe == pipe # 0 => pipe = mPipe /\ pipe \in live

\* The server never loses a pipe: the one it holds is the only one there is.
NoPipeLost == live \subseteq {mPipe}

\* Where the pipe of a session is: its thread runs from the greeting on, ...
PipeThread ==
  /\ begun \subseteq 1..started
  /\ pipe # 0 => pipe \in begun \/ (linkState = "connecting" /\ linkPc \in {"top", "DoConnect"})

\* ... a server on the way to a new one has found the link disconnected and the
\* old one gone, ...
NewPipe ==
  /\ serverPc \in {"delete", "accept", "connect"} => linkState = "disconnected"
  /\ serverPc \in {"accept", "connect"} => mPipe \notin begun
  /\ serverPc = "accept" => live = {}
  /\ serverPc = "connect" => accepted = started + 1 /\ mPipe = accepted /\ mPipe \in live
  /\ serverState # "unknown" /\ serverPc \notin {"connect", "throw"} => accepted = started

\* ... and a report is on its way to it once, for the pipe that it still holds.
Ends == {i \in 1..Len(serverEvents) : serverEvents[i] = "disconnected"}
OneReport ==
  /\ Ends # {} \/ serverPc = "hangup" => pipe = 0 /\ mPipe \in begun
  /\ serverPc = "hangup" => Ends = {}
  /\ \A i, j \in Ends : i = j

\* No call, no exception and no stop that the layer did not hear has disturbed the
\* order of sessions so far.
Calm == ~overlap /\ failed = {} /\ ~unheard

\* While one session follows another, one Newton at a time is waiting, and one
\* request is on its way to the server or in its hands, ...
Requests == {i \in 1..Len(serverEvents) : serverEvents[i] = "request"}
Answering == serverPc \in {"look", "delete", "accept"}
OneRequest ==
  /\ waiting <= 1 /\ (serverPc = "connect" => waiting = 0)
  /\ \A i, j \in Requests : i = j
  /\ Answering \/ serverPc = "connect" => Requests = {}
  /\ Answering \/ Requests # {} => pending \/ inPair \/ sockets = "closed"
  /\ wakes > 0 => inPair \/ sockets = "closed"
  /\ Answering \/ Requests # {} \/ waiting > 0 => linkPc = "out" /\ accepted = started

\* ... and the report of the last session, without which its pipe would be in
\* the way of the next, reaches the server before the request.
ReportFirst ==
  /\ \A i \in Ends, j \in Requests : i < j
  /\ Answering => Ends = {}
  /\ pipe = 0 /\ mPipe \in begun => Ends # {} \/ serverPc = "hangup"
SessionsInOrder == Calm => OneRequest /\ ReportFirst

DockingIInv == /\ LinkIInv /\ ServerIInv
               /\ live \subseteq Sessions /\ begun \subseteq Sessions /\ overlap \in BOOLEAN
               /\ NoDanglingPipe /\ NoPipeLost /\ PipeThread /\ NewPipe /\ OneReport
               /\ SessionsInOrder

\* The server, whose thread serves everybody, never waits for the thread of a
\* pipe that nobody has told to end, as long as one session follows another.
NeverStuck == serverPc = "delete" /\ Calm => mPipe \notin begun

\* The end of a session is not only reported: its pipe is closed and deleted,
\* unless the server is stopped first, or sessions overlap or fail.  There is no
\* other pipe than the one the server holds, and none while it accepts the next.
PipeClosed ==
  (mPipe \in live /\ pipe # mPipe /\ mPipe <= started)
    ~> (mPipe \notin live \/ serverState \in {"stopped", "stopping", "unknown"} \/ ~Calm)

\* A Newton that calls once the last session is over is answered, also by the
\* real link, unless the server stops or fails, or a session does, or the thread of
\* the layer has ended.
CallAnswered == (waiting > 0) ~> \/ waiting = 0 \/ layerPc = "out"
                                 \/ serverState \in {"stopping", "unknown"} \/ ~Calm

\* Stop is honoured whatever is ahead of it in the queue, also while the link is
\* in a session, as long as no pipe of an old session holds up the server, and the
\* layer had a pair of sockets when it was stopped.
StopServed == ("stop" \in {serverEvents[i] : i \in 1..Len(serverEvents)})
                ~> (serverState \in {"stopped", "unknown"} \/ ~Calm)

\* What the module Server shows of a server with a link that answers freely
\* holds with the real link: every step of the server here is one of there.
ServerSafety == ServerInit /\ [][ServerNext]_serverVars

\* "If a TDCLPipe object was there (in an unknown state), it is deleted here":
\* the server gets past the pipe that an old session left.
OldPipeGoes == (serverPc = "delete") ~> (serverPc # "delete")
=============================================================================
