-------------------------------- MODULE Link --------------------------------
(***************************************************************************)
(* The link between the application and one Newton: TDCLLink               *)
(* (DCL/Link/TDCLLink.cpp).  The server gives it a pipe with Connect; its  *)
(* own thread greets the Newton, serves the events of its queue, says      *)
(* goodbye and tells the server; threads of the application meanwhile ask  *)
(* it to process commands, to disconnect or to close.                      *)
(*                                                                         *)
(* mState is guarded by mStateMutex.  Its critical sections are short and  *)
(* are one step each, unless the mutex was lost: Connect throws while it   *)
(* holds it.  Looking at mState and posting an event are two steps, as are *)
(* reading mState at the top of the loop and setting it at the bottom.     *)
(***************************************************************************)
EXTENDS Naturals, Sequences

CONSTANTS Callers,      \* threads of the application
          Failures,     \* may exceptions other than the end of the pipe occur?
          MaxSessions,  \* bound: sessions
          MaxCalls      \* bound: calls of the application

ASSUME LinkAssumption == /\ Failures \in BOOLEAN
                         /\ MaxSessions \in Nat /\ MaxCalls \in Nat

VARIABLES
  linkState,   \* TDCLLink::mState
  mutexLost,   \* mStateMutex was never released
  linkPc,      \* where the thread is: "out" (stopped), "top", "DoConnect",
               \* "Connected", "Running", "DoDisconnect", "Disconnected",
               \* "bottom", "throw", "end"
  seen, next,  \* theState and theNextState of the loop
  looping,     \* keepLooping
  pipe,        \* mPipe: the number of its session, 0 for nil
  started,     \* sessions started
  linkEvents,  \* the queue: records [what |-> kind, of |-> session]
  callerPc,    \* per caller: "idle", or the event it is about to post
  calls,       \* calls of the application
  reports,     \* sessions of which the server was told the end, in order
  failed       \* sessions that an exception ended

States == {"disconnected", "connecting", "connected", "running", "disconnecting", "unknown"}
Sessions == 1..MaxSessions
LinkEvent == [what : {"data", "command", "disconnect", "close"}, of : Sessions]
Idle == [what |-> "idle", of |-> 0]

loopVars == <<linkPc, seen, next, looping>>
appVars  == <<callerPc, calls>>
outcome  == <<reports, failed>>
linkVars == <<linkState, mutexLost, loopVars, pipe, started, linkEvents, appVars, outcome>>

LinkTypeOK ==
  /\ linkState \in States /\ mutexLost \in BOOLEAN
  /\ linkPc \in {"out", "top", "DoConnect", "Connected", "Running", "DoDisconnect",
                 "Disconnected", "bottom", "throw", "end"}
  /\ seen \in States /\ next \in States /\ looping \in BOOLEAN
  /\ pipe \in 0..MaxSessions /\ started \in 0..MaxSessions
  /\ linkEvents \in Seq(LinkEvent)
  /\ callerPc \in [Callers -> LinkEvent \cup {Idle}] /\ calls \in 0..MaxCalls
  /\ reports \in Seq(Sessions)
  /\ failed \subseteq Sessions

LinkInit ==
  /\ linkState = "disconnected" /\ mutexLost = FALSE
  /\ linkPc = "out" /\ seen = "disconnected" /\ next = "disconnected" /\ looping = TRUE
  /\ pipe = 0 /\ started = 0 /\ linkEvents = <<>>
  /\ callerPc = [c \in Callers |-> Idle] /\ calls = 0
  /\ reports = <<>> /\ failed = {}

-----------------------------------------------------------------------------
(* The server: IsConnected and Connect.                                    *)

IsConnected == linkState # "disconnected"

\* Connect of a link that is disconnected and whose thread has ended.
ConnectStarts ==
  /\ ~mutexLost /\ ~IsConnected /\ linkPc = "out"
  /\ started < MaxSessions
  /\ linkState' = "connecting"
  /\ started' = started + 1
  /\ pipe' = started'
  /\ linkPc' = "top" /\ looping' = TRUE
  /\ UNCHANGED <<mutexLost, seen, next, linkEvents, appVars, outcome>>

\* If the thread is still there, DCLThreadActive leaves without releasing
\* mStateMutex.
ConnectThrows ==
  /\ ~mutexLost /\ ~IsConnected /\ linkPc # "out"
  /\ mutexLost' = TRUE
  /\ UNCHANGED <<linkState, loopVars, pipe, started, linkEvents, appVars, outcome>>

-----------------------------------------------------------------------------
(* The thread of the link: Run.                                            *)

ReadState ==
  /\ linkPc = "top" /\ ~mutexLost
  /\ seen' = linkState /\ next' = linkState
  /\ linkPc' = CASE linkState = "connecting"    -> "DoConnect"
                 [] linkState = "connected"     -> "Connected"
                 [] linkState = "running"       -> "Running"
                 [] linkState = "disconnecting" -> "DoDisconnect"
                 [] OTHER                       -> "Disconnected"
  /\ UNCHANGED <<linkState, mutexLost, looping, pipe, started, linkEvents, appVars,
                 outcome>>

\* The work of one turn of the loop is done and leads to state s, meets the end
\* of the pipe, which ends the session at once, or throws.
Leads(s) == linkPc' = "bottom" /\ next' = s
Work(place, nexts) ==
  /\ linkPc = place
  /\ \/ \E s \in nexts : Leads(s)
     \/ linkPc' = "Disconnected" /\ UNCHANGED next
     \/ Failures /\ linkPc' = "throw" /\ UNCHANGED next
  /\ UNCHANGED <<linkState, mutexLost, seen, looping, pipe, started, appVars, outcome>>

DoConnect == Work("DoConnect", {"connected"}) /\ UNCHANGED linkEvents
Connected == Work("Connected", {"running"})   /\ UNCHANGED linkEvents

\* TransitionFromRunning: the first event of the queue is served.  A command of
\* the Newton may end the session, an exception of a command of the application
\* is reported to the application and goes no further.
ServeData ==
  /\ linkEvents # <<>> /\ Head(linkEvents).what = "data"
  /\ linkEvents' = Tail(linkEvents)
  /\ Work("Running", {"running", "disconnected"})

Serve(what, s) ==
  /\ linkPc = "Running"
  /\ linkEvents # <<>> /\ Head(linkEvents).what = what
  /\ linkEvents' = Tail(linkEvents)
  /\ Leads(s)
  /\ UNCHANGED <<linkState, mutexLost, seen, looping, pipe, started, appVars, outcome>>

ServeCommand    == Serve("command", "running")
ServeDisconnect == Serve("disconnect", "disconnecting")
ServeClose      == Serve("close", "disconnected")

\* Mutant: the goodbye leaves the session where it is.
DoDisconnectStays ==
  /\ linkPc = "DoDisconnect"
  /\ Leads("running")
  /\ UNCHANGED <<linkState, mutexLost, seen, looping, pipe, started, appVars, outcome,
                 linkEvents>>

\* The end of the pipe is expected here, and caught.
DoDisconnect ==
  /\ linkPc = "DoDisconnect"
  /\ Leads("disconnected") \/ (Failures /\ linkPc' = "throw" /\ UNCHANGED next)
  /\ UNCHANGED <<linkState, mutexLost, seen, looping, pipe, started, appVars, outcome,
                 linkEvents>>

\* Mutant: the loop goes on and reports again.
DisconnectedKeepsLooping ==
  /\ linkPc = "Disconnected"
  /\ pipe' = 0
  /\ reports' = Append(reports, started)
  /\ Leads("disconnected")
  /\ UNCHANGED <<linkState, mutexLost, seen, looping, started, linkEvents, appVars, failed>>

\* Disconnected tells the server; the loop will not go round again.
Disconnected ==
  /\ linkPc = "Disconnected"
  /\ pipe' = 0
  /\ reports' = Append(reports, started)
  /\ looping' = FALSE
  /\ Leads("disconnected")
  /\ UNCHANGED <<linkState, mutexLost, seen, started, linkEvents, appVars, failed>>

\* The bottom of the loop; mState is set only if it is still what it was.
SetState ==
  /\ linkPc = "bottom"
  /\ \/ seen = next /\ UNCHANGED linkState
     \/ /\ seen # next /\ ~mutexLost
        /\ linkState' = IF linkState = seen THEN next ELSE linkState
  /\ linkPc' = IF looping THEN "top" ELSE "end"
  /\ UNCHANGED <<mutexLost, seen, next, looping, pipe, started, linkEvents, appVars,
                 outcome>>

\* HandleException keeps the pipe, and does not tell the server.
HandleException ==
  /\ linkPc = "throw" /\ ~mutexLost
  /\ linkState' = IF linkState \in {"disconnected", "connecting", "disconnecting"}
                  THEN "disconnected" ELSE "unknown"
  /\ linkPc' = "end"
  /\ failed' = failed \cup {started}
  /\ UNCHANGED <<mutexLost, seen, next, looping, pipe, started, linkEvents, appVars,
                 reports>>

\* Run or HandleException has returned: the thread ends.
ThreadEnds ==
  /\ linkPc = "end"
  /\ linkPc' = "out"
  /\ UNCHANGED <<linkState, mutexLost, seen, next, looping, pipe, started, linkEvents,
                 appVars, outcome>>

ServeEvent == ServeData \/ ServeCommand \/ ServeDisconnect \/ ServeClose

\* Disconnected, the one step the server hears of, is left out.
OwnStep == ReadState \/ DoConnect \/ Connected \/ ServeEvent \/ DoDisconnect
             \/ SetState \/ HandleException \/ ThreadEnds

-----------------------------------------------------------------------------
(* The application, and the thread of the pipe.                            *)

\* PostAppCommand, Disconnect and Close look at mState first, ...
Look(c, what, refusing) ==
  /\ callerPc[c] = Idle /\ calls < MaxCalls /\ ~mutexLost
  /\ started > 0 /\ linkState \notin refusing
  /\ callerPc' = [callerPc EXCEPT ![c] = [what |-> what, of |-> started]]
  /\ calls' = calls + 1
  /\ UNCHANGED <<linkState, mutexLost, loopVars, pipe, started, linkEvents, outcome>>

\* Mutant: the caller changes mState instead of leaving that to the thread.
DisconnectSetsState(c) ==
  /\ callerPc[c] = Idle /\ calls < MaxCalls /\ ~mutexLost
  /\ linkState \notin {"disconnected", "disconnecting"}
  /\ linkState' = "disconnecting"
  /\ calls' = calls + 1
  /\ UNCHANGED <<mutexLost, loopVars, pipe, started, linkEvents, callerPc, outcome>>

PostAppCommand(c) == Look(c, "command", {"disconnected", "disconnecting"})
Disconnect(c)     == Look(c, "disconnect", {"disconnected", "disconnecting"})
Close(c)          == Look(c, "close", {"disconnected"})

\* ... and post the event in a second step.
PostEvent(c) ==
  /\ callerPc[c] # Idle
  /\ linkEvents' = Append(linkEvents, callerPc[c])
  /\ callerPc' = [callerPc EXCEPT ![c] = Idle]
  /\ UNCHANGED <<linkState, mutexLost, loopVars, pipe, started, calls, outcome>>

\* The thread of the pipe announces data once (module SyncPipe), from the end of
\* the greeting on.
DataPresent ==
  /\ pipe > 0 /\ linkState = "running"
  /\ \A i \in 1..Len(linkEvents) : linkEvents[i].what # "data"
  /\ linkEvents' = Append(linkEvents, [what |-> "data", of |-> pipe])
  /\ UNCHANGED <<linkState, mutexLost, loopVars, pipe, started, appVars, outcome>>

Calling == \E c \in Callers : PostAppCommand(c) \/ Disconnect(c) \/ Close(c) \/ PostEvent(c)

LinkNext == ConnectStarts \/ ConnectThrows \/ OwnStep \/ Disconnected \/ Calling \/ DataPresent

(***************************************************************************)
(* The thread of the link and the callers are scheduled, and the Newton    *)
(* answers or its connection breaks: the reads of the link have no         *)
(* deadline of their own.  Nobody has to connect or to call.               *)
(***************************************************************************)
LinkSpec == /\ LinkInit /\ [][LinkNext]_linkVars
            /\ WF_linkVars(OwnStep \/ Disconnected)
            /\ \A c \in Callers : WF_linkVars(PostEvent(c))

-----------------------------------------------------------------------------
\* The server is told of the end of every session once, in order, and not
\* before the link has let go of its pipe; only of a session that an exception
\* ended it hears nothing.
ReportedOnce ==
  /\ \A i, j \in 1..Len(reports) : i < j => reports[i] < reports[j]
  /\ {reports[i] : i \in 1..Len(reports)} = {s \in 1..started : s # pipe} \ failed

\* The order of the states of a session.
Rank(s) == CASE s = "connecting" -> 1 [] s = "connected" -> 2 [] s = "running" -> 3
             [] s = "disconnecting" -> 4 [] s = "unknown" -> 5 [] s = "disconnected" -> 6

\* The places of the loop between its read of mState and its write.
InTurn == {"DoConnect", "Connected", "Running", "DoDisconnect", "Disconnected", "throw"}

\* The loop never writes over a state it has not seen: Connect changes mState
\* only while the thread is not between its read and its write.
StateIsSeen == linkPc \in InTurn \cup {"bottom"} => linkState = seen

\* Each place of the loop leads onwards from the state that led to it.
PlaceFitsState ==
  /\ linkPc = "DoConnect"    => seen = "connecting"
  /\ linkPc = "Connected"    => seen = "connected"
  /\ linkPc = "Running"      => seen = "running"
  /\ linkPc = "DoDisconnect" => seen = "disconnecting"
  /\ linkPc = "bottom"       => next = seen \/ Rank(next) > Rank(seen)

\* A session, from Connect to its report, or to an exception, holds its pipe; the
\* thread ends with nothing but the pipe of a session that failed.
SessionKept ==
  /\ started = 0 => linkState = "disconnected" /\ linkPc = "out"
  /\ pipe \in {0, started} /\ failed \subseteq 1..started
  /\ linkPc \in InTurn \cup {"top"} => pipe # 0 /\ looping
  /\ linkPc = "bottom" => (looping <=> pipe # 0)
  /\ linkPc \in {"end", "out"} => pipe = 0 \/ started \in failed
  /\ started \in failed => linkPc \in {"end", "out"}

LinkIInv == LinkTypeOK /\ StateIsSeen /\ PlaceFitsState /\ SessionKept /\ ReportedOnce

\* The link walks through its states in order: no session goes back to an
\* earlier state, and none starts before the last one has let go of its pipe or
\* failed.
Forward == [][\/ linkState' = linkState
              \/ started' = started /\ Rank(linkState') > Rank(linkState)
              \/ started' # started /\ (pipe = 0 \/ started \in failed)]_linkVars

\* A request to disconnect or close that was posted in the session that is on ends
\* it, whatever is ahead of it in the queue, unless an exception does or the thread
\* waits for a mutex that will not be released.  Between two sessions there is no pipe.
RequestHonoured ==
  (pipe # 0 /\ \E i \in 1..Len(linkEvents) :
                   linkEvents[i].what \in {"disconnect", "close"} /\ linkEvents[i].of = pipe)
    ~> (pipe = 0 \/ pipe \in failed \/ mutexLost)
=============================================================================
