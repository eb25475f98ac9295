---------------------------- MODULE FullDockLink ----------------------------
(***************************************************************************)
(* One session of a docking link: TDCLFullDockLink over TDCLDockLink and   *)
(* TDCLLink (DCL/Link), with its engines (DCL/Link/Link_Engines), talking  *)
(* to a Newton.  Module Link has the threads and the states of a link as   *)
(* the server sees them; here is what is said between kConnecting and      *)
(* kDisconnected, and who handles it.                                      *)
(*                                                                         *)
(* The thread of the link either waits for an event (pc = "running") or    *)
(* for one message of the Newton, in the middle of a dialogue.  The Newton *)
(* and the application act whenever they like: requests cross, a hello     *)
(* slips in between a question and its answer.                             *)
(***************************************************************************)
EXTENDS SyncEngine, Sequences, TLC

CONSTANTS Kits,         \* what a link may be made of: the command sets it handles
                        \* (mHandledCommandSets) and the optional engines it has
          MaxCalls,     \* bound: commands of the application
          MaxTurns      \* bound: requests and hellos of the Newton

ASSUME DockAssumption ==
  /\ Kits \subseteq [handles : SUBSET {"browse", "keyboard", "sync"},
                     engines : SUBSET {"keyboard", "sync"}]
  /\ MaxCalls \in Nat /\ MaxTurns \in Nat

VARIABLES
  kit,
  pc,           \* what the thread of the link waits for: a message of the dialogue
                \* that begins or ends the session, the result of a request to
                \* install, the echo of StartKeyboard, or ("running") an event
  tries,        \* indexAttempts
  engine,       \* mCurrentEngine
  sync,         \* the synchronisation engine, a record of module SyncEngine
  interrupted,  \* mInterrupted
  events,       \* the events of the link
  toNewton, fromNewton,  \* messages under way
  mode, waiting,  \* what the Newton does, and the request it wants answered
  gone,         \* the Newton has closed the connection
  calls, turns,
  password,     \* history: what the Newton last gave as its password
  accepted,     \* history: packages the Newton took
  confirmed,    \* history: packages the engine reported as installed
  stray,        \* history: the link gave up a result that was still to come
  lost          \* history: a message of the Newton ended in an exception

linkVars   == <<kit, pc, tries, engine, sync, interrupted, events>>
newtonVars == <<mode, waiting, gone, turns, password, accepted>>
reports    == <<confirmed, stray, lost>>
vars       == <<linkVars, toNewton, fromNewton, newtonVars, calls, reports>>

Commands == {"install", "startKeys", "keys", "stopKeys", "sync"}
Asks     == {"RequestToBrowse", "BrowseQuery", "LoadPackageFile", "BrowseOther",
             "Synchronize", "OperationCanceled"}
Dialogue == {"dock", "name", "info", "icons", "password"}
Waits    == Dialogue \cup {"install", "keyboard", "goodbye"}
Ended    == {"over", "failed"}

\* The commands of the Dock protocol that a session uses, with one argument.
DockCommands ==
  {"RequestToDock", "InitiateDocking", "NewtonName", "DesktopInfo", "NewtonInfo",
   "WhichIcons", "SetTimeout", "Password", "Result", "UnknownCommand", "Hello", "Disconnect",
   "RequestToBrowse", "BrowseQuery", "BrowseReply", "BrowseOther", "LoadPackageFile",
   "RequestToInstall", "LoadPackage", "StartKeyboard", "Keyboard", "Synchronize",
   "OperationDone", "OperationCanceled", "OpCanceledAck"}
    \cup {Asked[s] : s \in DOMAIN Asked} \cup {Awaited[s] : s \in DOMAIN Asked \ {"End"}}

Message       == [cmd : DockCommands,
                  arg : {"-", "ok", "error", "nil", "retry", "bad", "right", "wrong"}
                          \cup DockCommands]
Msg(cmd, arg) == [cmd |-> cmd, arg |-> arg]
Say(cmd)      == <<Msg(cmd, "-")>>
Result(r)     == <<Msg("Result", r)>>

\* What is sent to a Newton that has left is not seen by anybody.
Send(what) == toNewton' = IF gone THEN toNewton ELSE toNewton \o what
Incoming   == {fromNewton[i] : i \in DOMAIN fromNewton \cap {1}}
EndOfPipe  == fromNewton = <<>> /\ gone

Init ==
  /\ kit \in Kits
  /\ pc = "dock" /\ tries = 0
  /\ engine = "none" /\ sync = NoSync /\ interrupted = FALSE
  /\ events = <<>> /\ toNewton = <<>> /\ fromNewton = <<>>
  /\ mode = "away" /\ waiting = "none" /\ gone = FALSE
  /\ calls = 0 /\ turns = 0
  /\ password = "none" /\ accepted = 0
  /\ confirmed = 0 /\ stray = FALSE /\ lost = FALSE

-----------------------------------------------------------------------------
(* The dialogue that begins a session: TDCLLink::DoConnect, then           *)
(* TDCLDockLink::DoConnect.  Any other message ends the session.           *)

Expected == [dock |-> "RequestToDock", name |-> "NewtonName", info |-> "NewtonInfo",
             icons |-> "Result", password |-> "Password"]
Answer   == [dock |-> "InitiateDocking", name |-> "DesktopInfo", info |-> "WhichIcons",
             icons |-> "SetTimeout"]
Follows  == [dock |-> "name", name |-> "info", info |-> "icons", icons |-> "password"]

Fails(m) == m.cmd # Expected[pc] \/ (pc = "icons" /\ m.arg # "ok")

\* Mutant: a fourth attempt is not needed, the third is believed.
CheckPasswordTwice(m) ==
  \/ /\ m.arg = "right" \/ tries = 2
     /\ Send(Say("Password")) /\ pc' = "running" /\ tries' = 0
  \/ /\ m.arg # "right" /\ tries < 2
     /\ Send(Result("retry")) /\ tries' = tries + 1 /\ UNCHANGED pc

\* Mutant: the Newton is not told that it may try again.
CheckPasswordQuietly(m) ==
  \/ /\ m.arg = "right"
     /\ Send(Say("Password")) /\ pc' = "running" /\ tries' = 0
  \/ /\ m.arg # "right"
     /\ tries' = tries + 1 /\ UNCHANGED <<pc, toNewton>>

\* The Newton has three attempts.
CheckPassword(m) ==
  \/ /\ m.arg = "right"
     /\ Send(Say("Password")) /\ pc' = "running" /\ tries' = 0
  \/ /\ m.arg # "right" /\ tries < 2
     /\ Send(Result("retry")) /\ tries' = tries + 1 /\ UNCHANGED pc
  \/ /\ m.arg # "right" /\ tries = 2
     /\ Send(Result("bad")) /\ pc' = "failed" /\ UNCHANGED tries

DialogueStep ==
  /\ pc \in Dialogue
  /\ \E m \in Incoming :
       /\ \/ /\ Fails(m)
             /\ pc' = "failed"
             /\ UNCHANGED <<tries, toNewton>>
          \/ /\ ~Fails(m) /\ pc # "password"
             /\ Send(Say(Answer[pc]))
             /\ pc' = Follows[pc]
             /\ UNCHANGED tries
          \/ /\ ~Fails(m) /\ pc = "password"
             /\ CheckPassword(m)
  /\ fromNewton' = Tail(fromNewton)
  /\ UNCHANGED <<kit, engine, sync, interrupted, events, newtonVars, calls, reports>>

\* The Newton has left: the end of the pipe, or a message that cannot be sent.
DialogueBreaks ==
  /\ gone /\ pc \in Dialogue
  /\ pc' = "over"
  /\ UNCHANGED <<kit, tries, engine, sync, interrupted, events, toNewton, fromNewton,
                 newtonVars, calls, reports>>

-----------------------------------------------------------------------------
(* A message of the Newton while the link is running.  The current engine  *)
(* sees it first.  What an engine does is a record: did it handle the      *)
(* message, did it throw, what did it send, and the engine that is current *)
(* afterwards.                                                             *)

Passes == [handled |-> FALSE, thrown |-> FALSE, reported |-> FALSE,
           sent |-> <<>>, engine |-> engine, sync |-> sync]
Handles(sent) == [Passes EXCEPT !.handled = TRUE, !.sent = sent]
Throws        == [Passes EXCEPT !.thrown = TRUE]

\* TDCLBrowseEngine.  A path or a file that is not there, and what is not
\* written yet, is an exception.  To load a package the engine gives way to the
\* engine for packages, which is told at once that its work is over.
BrowseDoes(m) ==
  CASE m.cmd = "BrowseQuery" -> {Handles(Say("BrowseReply")), Throws}
    [] m.cmd = "LoadPackageFile" -> {[Handles(Say("LoadPackage")) EXCEPT !.engine = "none"],
                                     Throws, [Throws EXCEPT !.engine = "loadpkg"]}
    [] m.cmd = "BrowseOther" -> {Throws}
    [] OTHER -> {Passes}

\* Mutant: an error of the Newton is not looked at.
LoadPkgTakesAny(m) ==
  IF m.cmd = "Result" THEN {[Handles(<<>>) EXCEPT !.engine = "none", !.reported = TRUE]}
  ELSE {[Passes EXCEPT !.engine = "none"]}

\* TDCLLoadPkgEngine: whatever comes, the work is over, unless it is an error.
LoadPkgDoes(m) ==
  CASE m.cmd = "Result" /\ m.arg = "ok" ->
         {[Handles(<<>>) EXCEPT !.engine = "none", !.reported = TRUE]}
    [] m.cmd = "Result" /\ m.arg # "ok" -> {Throws}
    [] OTHER -> {[Passes EXCEPT !.engine = "none"]}

\* The states in which a result may be under way.
ResultStates == {x \in States : Awaited[x] = "Result"} \cup {"WFAddedID", "Interrupted"}

\* TDCLSyncEngine: mInterrupted overrides every state reached, the end included.
Interrupt(s) == IF interrupted THEN [s EXCEPT !.state = "Interrupted"] ELSE s

\* Mutant: the end of a synchronisation leaves its engine current.
SyncHandlesOn(next) == [Handles(Say(Asked[next.state])) EXCEPT !.sync = Interrupt(next)]

SyncHandles(next) ==
  [Handles(Say(Asked[next.state])) EXCEPT
     !.sync = Interrupt(next),
     !.engine = IF Interrupt(next).state = "End" THEN "none" ELSE "sync"]

SyncDoes(m) ==
  LET good == m.cmd = Awaited[sync.state] /\ (m.cmd = "Result" => m.arg = "ok")
      bad  == SyncThrows(sync, m.cmd, m.arg)
  IN  CASE sync.state = "Interrupted" -> {[Passes EXCEPT !.sent = Say("OperationDone")]}
        [] good \/ bad ->
             (IF good /\ sync.state # "WFPackageIDs"
              THEN {SyncHandles(next) : next \in SyncTransition(sync, m.arg)} ELSE {})
               \cup (IF bad THEN {Throws} ELSE {})
        [] OTHER -> {[Passes EXCEPT !.sync = Interrupt(sync)]}

EngineDoes(m) ==
  LET does == CASE engine = "browse" -> BrowseDoes(m)
                [] engine = "loadpkg" -> LoadPkgDoes(m)
                [] engine = "sync" -> SyncDoes(m)
                [] OTHER -> {Passes}     \* TDCLLinkEngine, TDCLKeyboardEngine, none
  IN  does \cup {Throws : d \in {d \in does : gone /\ d.sent # <<>>}}

\* TDCLFullDockLink::ProcessDockCommand, once the engine and TDCLDockLink have
\* passed: the current engine is dropped, and the request may need another.  A
\* command of a set that is not handled is unknown; -28031 says that there is no
\* engine (DoBrowse, DoUseKeyboard, DoSynchronize).
Wanted  == [RequestToBrowse |-> "browse", StartKeyboard |-> "keyboard", Synchronize |-> "sync"]
Opening == [browse |-> Result("ok"), keyboard |-> <<>>, sync |-> Say("GetSyncOptions")]

\* Mutant: an unknown command gets no answer.
LinkServesQuietly(m) ==
  [engine |-> IF m.cmd \in DOMAIN Wanted THEN Wanted[m.cmd] ELSE "none",
   sent |-> CASE m.cmd \in DOMAIN Wanted -> Opening[Wanted[m.cmd]]
              [] m.cmd = "OperationCanceled" -> Say("OpCanceledAck")
              [] OTHER -> <<>>]

LinkServes(m) ==
  IF m.cmd \in DOMAIN Wanted /\ Wanted[m.cmd] \in kit.handles
  THEN LET e == Wanted[m.cmd]
       IN  IF e \in kit.engines \cup {"browse"} THEN [engine |-> e, sent |-> Opening[e]]
           ELSE [engine |-> "none", sent |-> Result("error")]
  ELSE [engine |-> "none",
        sent |-> CASE m.cmd = "OperationCanceled" -> Say("OpCanceledAck")
                   [] m.cmd = "OpCanceledAck" -> <<>>
                   [] OTHER -> <<Msg("UnknownCommand", m.cmd)>>]

\* The engine handled the message, or threw and the application was told.
EngineServes(d) ==
  /\ d.handled \/ d.thrown
  /\ engine' = d.engine /\ sync' = d.sync
  /\ Send(d.sent)
  /\ confirmed' = confirmed + (IF d.reported THEN 1 ELSE 0)
  /\ stray' = (stray \/ (d.handled /\ engine = "browse" /\ d.engine = "none"))
  /\ lost' = (lost \/ (d.thrown /\ engine # "loadpkg"))
  /\ UNCHANGED <<pc, interrupted>>

\* TDCLDockLink::ProcessDockCommand: the Newton hangs up, or says hello.
DockLinkServes(m, d) ==
  /\ ~d.handled /\ ~d.thrown /\ m.cmd \in {"Disconnect", "Hello"}
  /\ pc' = IF m.cmd = "Disconnect" THEN "over" ELSE pc
  /\ engine' = d.engine /\ sync' = d.sync
  /\ Send(d.sent)
  /\ stray' = (stray \/ (engine = "loadpkg" /\ d.engine = "none"))
  /\ UNCHANGED <<interrupted, confirmed, lost>>

\* The engine that is dropped may have asked for a result.
SyncGivesUp(m) == /\ engine = "sync" /\ sync.state \in ResultStates
                  /\ m.cmd \notin {"Result", "AddedID", "OperationCanceled"}

FullLinkServes(m, d) ==
  /\ ~d.handled /\ ~d.thrown /\ m.cmd \notin {"Disconnect", "Hello"}
  /\ LET r == LinkServes(m) IN
       /\ engine' = r.engine
       /\ Send(d.sent \o r.sent)
       /\ sync' = CASE r.engine = "sync" -> StartSynchronizing
                    [] engine = "sync" /\ r.engine # "sync" -> NoSync
                    [] OTHER -> sync
       /\ interrupted' = (interrupted /\ r.engine # "sync")
       /\ pc' \in {pc} \cup (IF gone /\ r.sent # <<>> THEN {"over"} ELSE {})
  /\ stray' = (stray \/ engine = "loadpkg" \/ SyncGivesUp(m))
  /\ UNCHANGED <<confirmed, lost>>

-----------------------------------------------------------------------------
(* The events.  TDCLLink::TransitionFromRunning takes the first event that *)
(* the mask lets through: with an engine (TDCLLinkEngine, or               *)
(* TDCLKeyboardEngine::GetAppCommandMask) the commands of the keyboard     *)
(* only, else every command.                                               *)

Lets(e) == engine = "none" \/ e \in {"data", "disconnect", "keys", "stopKeys"}

\* Event i is the next one, and leaves the list.
TakeEvent(i) ==
  /\ pc = "running"
  /\ Lets(events[i]) /\ \A j \in 1..i - 1 : ~Lets(events[j])
  /\ events' = SubSeq(events, 1, i - 1) \o SubSeq(events, i + 1, Len(events))

\* The thread of the pipe, which looks again each time the link asks it to.
DataPresent ==
  /\ pc \in {"running", "install", "keyboard"}
  /\ fromNewton # <<>> \/ gone
  /\ \A i \in DOMAIN events : events[i] # "data"
  /\ events' = Append(events, "data")
  /\ UNCHANGED <<kit, pc, tries, engine, sync, interrupted, toNewton, fromNewton,
                 newtonVars, calls, reports>>

ServeData ==
  /\ \E i \in DOMAIN events : events[i] = "data" /\ TakeEvent(i)
  /\ \/ /\ fromNewton = <<>>
        /\ pc' = IF gone THEN "over" ELSE pc
        /\ UNCHANGED <<engine, sync, interrupted, toNewton, fromNewton, reports>>
     \/ /\ fromNewton # <<>>
        /\ \E d \in EngineDoes(Head(fromNewton)) :
             \/ EngineServes(d)
             \/ DockLinkServes(Head(fromNewton), d)
             \/ FullLinkServes(Head(fromNewton), d)
        /\ fromNewton' = Tail(fromNewton)
  /\ UNCHANGED <<kit, tries, newtonVars, calls>>

-----------------------------------------------------------------------------
(* The commands of the application: TDCLFullDockLink::ProcessAppCommand.   *)
(* An exception, the end of the pipe included, is reported as the end of   *)
(* the command, and the session goes on with the engine as it is.          *)

Posts(e) == /\ pc \in {"running", "install", "keyboard"}
            /\ events' = Append(events, e)
            /\ UNCHANGED <<kit, pc, tries, engine, sync, interrupted, toNewton, fromNewton,
                           newtonVars, reports>>

\* InstallPackage, StartUsingKeyboard, SendKeyboardString, SendKeyboardChar,
\* StopUsingKeyboard, Synchronize
PostCommand == /\ calls < MaxCalls /\ calls' = calls + 1
               /\ \E e \in Commands : Posts(e)

\* TDCLLink::Disconnect
PostDisconnect == /\ \A i \in DOMAIN events : events[i] # "disconnect"
                  /\ Posts("disconnect") /\ UNCHANGED calls

\* An engine that is current when the command begins, and the keyboard is the
\* only one that knows any.  No engine and no use for the command: DCLBadAppCmd.
ServeWithEngine(e) ==
  /\ engine # "none" \/ e \in {"keys", "stopKeys"}
  /\ Send(IF engine # "keyboard" THEN <<>>
          ELSE IF e = "keys" THEN Say("Keyboard") ELSE Say("OperationCanceled"))
  /\ UNCHANGED <<pc, engine, sync, interrupted>>

ServeInstall(e) ==
  /\ e = "install" /\ engine = "none"
  /\ engine' = "loadpkg" /\ Send(Say("RequestToInstall"))
  /\ pc' \in {"install"} \cup (IF gone THEN {"running"} ELSE {})
  /\ UNCHANGED <<sync, interrupted>>

ServeStartKeys(e) ==
  /\ e = "startKeys" /\ engine = "none" /\ "keyboard" \in kit.engines
  /\ engine' = "keyboard" /\ Send(Say("StartKeyboard"))
  /\ pc' \in {"keyboard"} \cup (IF gone THEN {"running"} ELSE {})
  /\ UNCHANGED <<sync, interrupted>>

ServeSync(e) ==
  /\ e = "sync" /\ engine = "none" /\ "sync" \in kit.engines
  /\ engine' = "sync" /\ Send(Say("GetSyncOptions"))
  /\ sync' = StartSynchronizing /\ interrupted' = FALSE
  /\ UNCHANGED pc

ServeInVain(e) ==
  /\ engine = "none"
  /\ \/ e = "startKeys" /\ "keyboard" \notin kit.engines
     \/ e = "sync" /\ "sync" \notin kit.engines
  /\ UNCHANGED <<pc, engine, sync, interrupted, toNewton>>

ServeCommand ==
  /\ \E i \in DOMAIN events :
       /\ events[i] \in Commands /\ TakeEvent(i)
       /\ \/ ServeWithEngine(events[i])
          \/ ServeInstall(events[i])
          \/ ServeStartKeys(events[i])
          \/ ServeSync(events[i])
          \/ ServeInVain(events[i])
  /\ UNCHANGED <<kit, tries, fromNewton, newtonVars, calls, reports>>

\* DoInstallPackage: the package is sent, or cannot be read or sent.
InstallPackage == /\ \/ Send(Say("LoadPackage")) \/ UNCHANGED toNewton
                  /\ pc' = "running"

\* TDCLDockCommand::GetResultCmd: a hello is skipped while there is more to read;
\* the result is 0 if nothing but a hello was read.
GetResult ==
  /\ pc = "install" /\ fromNewton # <<>>
  /\ LET m == Head(fromNewton) IN
       \/ /\ m.cmd = "Hello" /\ (Tail(fromNewton) # <<>> \/ gone)
          /\ UNCHANGED <<pc, toNewton, stray, lost>>
       \/ /\ m.cmd = "Hello" /\ Tail(fromNewton) = <<>> /\ ~gone
          /\ InstallPackage
          /\ stray' = TRUE /\ UNCHANGED lost
       \/ /\ m.cmd = "Result" /\ m.arg = "ok"
          /\ InstallPackage
          /\ UNCHANGED <<stray, lost>>
       \/ /\ m.cmd = "Result" /\ m.arg # "ok"
          /\ pc' = "running"
          /\ UNCHANGED <<toNewton, stray, lost>>
       \/ /\ m.cmd \notin {"Hello", "Result"}
          /\ pc' = "running" /\ stray' = TRUE /\ lost' = TRUE
          /\ UNCHANGED toNewton
  /\ fromNewton' = Tail(fromNewton)
  /\ UNCHANGED <<kit, tries, engine, sync, interrupted, events, newtonVars, calls, confirmed>>

\* The Newton echoes StartKeyboard; anything else is unexpected.
GetEcho ==
  /\ pc = "keyboard" /\ fromNewton # <<>>
  /\ pc' = "running"
  /\ lost' = (lost \/ Head(fromNewton).cmd # "StartKeyboard")
  /\ fromNewton' = Tail(fromNewton)
  /\ UNCHANGED <<kit, tries, engine, sync, interrupted, events, toNewton, newtonVars, calls,
                 confirmed, stray>>

\* The end of the pipe in the middle of a command is an error of the command.
CommandBreaks ==
  /\ EndOfPipe /\ pc \in {"install", "keyboard"}
  /\ pc' = "running"
  /\ UNCHANGED <<kit, tries, engine, sync, interrupted, events, toNewton, fromNewton,
                 newtonVars, calls, reports>>

\* TDCLSyncEngine::StopSynchronizing, from a thread of the application.
StopSynchronizing ==
  /\ engine = "sync" /\ ~interrupted
  /\ interrupted' = TRUE
  /\ UNCHANGED <<kit, pc, tries, engine, sync, events, toNewton, fromNewton,
                 newtonVars, calls, reports>>

-----------------------------------------------------------------------------
(* The dialogue that ends a session: TDCLLink::DoDisconnect.               *)

ServeDisconnect ==
  /\ \E i \in DOMAIN events : events[i] = "disconnect" /\ TakeEvent(i)
  /\ Send(Say("Disconnect"))
  /\ pc' \in {"goodbye"} \cup (IF gone THEN {"failed"} ELSE {})
  /\ UNCHANGED <<kit, tries, engine, sync, interrupted, fromNewton, newtonVars, calls, reports>>

\* A hello is skipped, but nothing more is waited for.
Goodbye ==
  /\ pc = "goodbye" /\ fromNewton # <<>>
  /\ LET m == Head(fromNewton) IN
       pc' = CASE m.cmd = "Result" -> IF m.arg = "ok" THEN "over" ELSE "failed"
               [] m.cmd = "Hello" -> IF Tail(fromNewton) # <<>> \/ gone THEN pc ELSE "over"
               [] OTHER -> "failed"
  /\ fromNewton' = Tail(fromNewton)
  /\ UNCHANGED <<kit, tries, engine, sync, interrupted, events, toNewton, newtonVars, calls,
                 reports>>

GoodbyeBreaks ==
  /\ EndOfPipe /\ pc = "goodbye"
  /\ pc' = "over"
  /\ UNCHANGED <<kit, tries, engine, sync, interrupted, events, toNewton, fromNewton,
                 newtonVars, calls, reports>>

-----------------------------------------------------------------------------
(* The Newton.  It answers in order, asks one thing at a time, and may     *)
(* cancel what it does, say hello or leave at any time.                    *)

SyncQuestions == {Asked[s] : s \in DOMAIN Asked \ {"End"}}

Answers ==
  [InitiateDocking |-> "NewtonName", DesktopInfo |-> "NewtonInfo", WhichIcons |-> "Result",
   SetTimeout |-> "Password", RequestToInstall |-> "Result", LoadPackage |-> "Result",
   StartKeyboard |-> "StartKeyboard", OperationCanceled |-> "OpCanceledAck",
   Disconnect |-> "Result"]

AnswerTo(m) ==
  IF m.cmd = "Result" THEN "Password"
  ELSE IF m.cmd \in SyncQuestions
  THEN Awaited[CHOOSE s \in DOMAIN Asked \ {"End"} : Asked[s] = m.cmd]
  ELSE Answers[m.cmd]

Arguments(cmd) == CASE cmd = "Result" -> {"ok", "error"}
                    [] cmd = "Password" -> {"right", "wrong"}
                    [] cmd = "SyncOptions" -> {"ok", "nil"}
                    [] OTHER -> {"-"}

AnswersTo(m) == {Msg(AnswerTo(m), a) : a \in Arguments(AnswerTo(m))}
                  \cup (IF m.cmd = "AddEntry" THEN {Msg("Result", "error")} ELSE {})

\* A Newton that cancels does not hear the rest.
Hears(m) == waiting # "OperationCanceled" \/ m.cmd \in {"OpCanceledAck", "Disconnect"}

IsAsked(m) == \/ m.cmd \in DOMAIN Answers \cup SyncQuestions
              \/ m.cmd = "Result" /\ m.arg = "retry"

ModeAfter(m) ==
  CASE m.cmd = "Disconnect" -> "closed"
    [] m.cmd = "Result" /\ m.arg = "ok" -> "browse"
    [] m.cmd = "GetSyncOptions" -> "sync"
    [] m.cmd = "StartKeyboard" -> "keyboard"
    [] m.cmd \in {"Password", "LoadPackage", "OperationDone", "OpCanceledAck",
                  "OperationCanceled"} -> "free"
    [] m.cmd = "UnknownCommand" \/ (m.cmd = "Result" /\ m.arg = "error") ->
         IF mode = "docking" THEN mode ELSE "free"
    [] OTHER -> mode

\* What ends the wait for an answer.
IsAnswer(m) ==
  \/ m.cmd = "OpCanceledAck" /\ waiting = "OperationCanceled"
  \/ m.cmd = "UnknownCommand" /\ m.arg = waiting
  \/ m.cmd = "Result" /\ waiting \in {"RequestToBrowse", "Synchronize"}
  \/ m.cmd = "GetSyncOptions" /\ waiting = "Synchronize"
  \/ m.cmd = "BrowseReply" /\ waiting = "BrowseQuery"
  \/ m.cmd = "LoadPackage" /\ waiting = "LoadPackageFile"

NewtonReads ==
  /\ ~gone /\ pc \notin Ended /\ toNewton # <<>>
  /\ toNewton' = Tail(toNewton)
  /\ LET m == Head(toNewton) IN
       \/ /\ ~Hears(m)
          /\ UNCHANGED <<fromNewton, mode, waiting, password, accepted>>
       \/ /\ Hears(m)
          /\ mode' = ModeAfter(m)
          /\ waiting' = IF IsAnswer(m) \/ m.cmd = "Disconnect" THEN "none" ELSE waiting
          /\ \/ /\ ~IsAsked(m)
                /\ UNCHANGED <<fromNewton, password, accepted>>
             \/ /\ IsAsked(m)
                /\ \E a \in AnswersTo(m) :
                     /\ fromNewton' = Append(fromNewton, a)
                     /\ password' = IF a.cmd = "Password" THEN a.arg ELSE password
                     /\ accepted' = accepted +
                          (IF m.cmd = "LoadPackage" /\ a.arg = "ok" THEN 1 ELSE 0)
  /\ UNCHANGED <<linkVars, gone, turns, calls, reports>>

NewtonSends(m) ==
  /\ ~gone /\ pc \notin Ended
  /\ fromNewton' = Append(fromNewton, m)
  /\ UNCHANGED <<linkVars, toNewton, gone, password, accepted, calls, reports>>

NewtonDocks == /\ mode = "away" /\ mode' = "docking"
               /\ NewtonSends(Msg("RequestToDock", "-"))
               /\ UNCHANGED <<waiting, turns>>

MayAsk == [free |-> {"RequestToBrowse", "Synchronize", "StartKeyboard", "Disconnect"},
           browse |-> {"BrowseQuery", "LoadPackageFile", "BrowseOther", "OperationCanceled"},
           keyboard |-> {"OperationCanceled"}, sync |-> {"OperationCanceled"},
           docking |-> {"OperationCanceled"}, away |-> {}, closed |-> {}]

NewtonAsks ==
  /\ turns < MaxTurns /\ turns' = turns + 1
  /\ waiting = "none"
  /\ \E q \in MayAsk[mode] :
       /\ NewtonSends(Msg(q, "-"))
       /\ waiting' = IF q \in Asks THEN q ELSE waiting
       /\ mode' = CASE q = "StartKeyboard" -> "keyboard"
                    [] q = "Disconnect" -> "closed"
                    [] OTHER -> mode

NewtonSaysHello == /\ turns < MaxTurns /\ turns' = turns + 1
                   /\ mode \notin {"away", "docking", "closed"}
                   /\ NewtonSends(Msg("Hello", "-"))
                   /\ UNCHANGED <<mode, waiting>>

NewtonLeaves == /\ ~gone /\ mode # "away" /\ pc \notin Ended
                /\ gone' = TRUE /\ toNewton' = <<>>
                /\ mode' = "closed" /\ waiting' = "none"
                /\ UNCHANGED <<linkVars, fromNewton, turns, password, accepted, calls, reports>>

-----------------------------------------------------------------------------
LinkStep == \/ DialogueStep \/ DialogueBreaks \/ ServeData \/ ServeCommand \/ GetResult
            \/ GetEcho \/ CommandBreaks \/ ServeDisconnect \/ Goodbye \/ GoodbyeBreaks

Next == \/ LinkStep \/ DataPresent \/ PostCommand \/ PostDisconnect \/ StopSynchronizing
        \/ NewtonReads \/ NewtonDocks \/ NewtonAsks \/ NewtonSaysHello \/ NewtonLeaves

Spec == Init /\ [][Next]_vars

\* The thread of the link and that of the pipe run; the Newton answers.
FairSpec == Spec /\ WF_vars(LinkStep) /\ WF_vars(DataPresent) /\ WF_vars(NewtonReads)
-----------------------------------------------------------------------------
Engines == {"none", "browse", "loadpkg", "keyboard", "sync"}
Session == {"running", "install", "keyboard", "goodbye"}

TypeOK ==
  /\ kit \in Kits
  /\ pc \in Dialogue \cup Session \cup Ended
  /\ tries \in 0..2
  /\ engine \in Engines /\ sync \in Sync /\ interrupted \in BOOLEAN
  /\ events \in Seq(Commands \cup {"data", "disconnect"})
  /\ toNewton \in Seq(Message) /\ fromNewton \in Seq(Message)
  /\ mode \in DOMAIN MayAsk /\ waiting \in Asks \cup {"none"} /\ gone \in BOOLEAN
  /\ {calls, turns, accepted, confirmed} \subseteq Nat
  /\ password \in {"none", "right", "wrong"}
  /\ stray \in BOOLEAN /\ lost \in BOOLEAN

\* The engine in charge is one that the link has and that is at work; during
\* the first dialogue, and when the sync engine has said that it is done, none is.
EngineAtWork ==
  /\ pc \in Dialogue => engine = "none"
  /\ pc = "install" => engine = "loadpkg"
  /\ pc = "keyboard" => engine = "keyboard"
  /\ engine \in {"keyboard", "sync"} => engine \in kit.engines
  /\ engine = "sync" => sync.state \notin {"Uninitialized", "End"}

-----------------------------------------------------------------------------
(* What is owed.  Each of these speaks of all the messages under way, and  *)
(* of the engine that is to get them.                                      *)

At(queue, cmds) == {i \in DOMAIN queue : queue[i].cmd \in cmds}

\* At most one message, under way to one side or to the other.
AtMostOne(there, back) == /\ there = {} \/ back = {}
                          /\ \A i, j \in there : i = j
                          /\ \A i, j \in back : i = j

\* The Newton is asked for one password at a time, in the dialogue that begins a
\* session and nowhere else, and what is under way is what it gave last.
AsksPassword(m) == m.cmd = "SetTimeout" \/ (m.cmd = "Result" /\ m.arg = "retry")

PasswordAsked == {i \in DOMAIN toNewton : AsksPassword(toNewton[i])}
PasswordGiven == At(fromNewton, {"Password"})

OnePassword ==
  pc \notin Ended =>
    /\ AtMostOne(PasswordAsked, PasswordGiven)
    /\ \A i \in PasswordGiven : fromNewton[i].arg = password
    /\ pc # "password" => PasswordAsked \cup PasswordGiven = {}

\* A Newton that cancels waits for one acknowledgement, and answers nothing until
\* it hears it.
Cancels == At(fromNewton, {"OperationCanceled"})
Acks    == At(toNewton, {"OpCanceledAck"})
Results == At(fromNewton, {"Result", "AddedID"})

OneCancel ==
  /\ gone => toNewton = <<>> /\ waiting = "none"
  /\ pc \notin {"goodbye"} \cup Ended =>
       /\ At(toNewton, {"Disconnect"}) = {}
       /\ AtMostOne(Acks, Cancels)
       /\ Acks # {} => waiting = "OperationCanceled"
       /\ Cancels # {} => waiting = "OperationCanceled" \/ gone
       /\ waiting = "OperationCanceled" => Acks \cup Cancels # {} \/ lost
       /\ \A i \in Cancels, j \in Results : j < i

\* The Newton is going to hear message i.
WillHear(i) == waiting = "OperationCanceled" => \E j \in Acks : j < i

\* While the link waits for a message, there is a question that will be heard, if
\* nothing has come yet.
Question == [name |-> "InitiateDocking", info |-> "DesktopInfo", icons |-> "WhichIcons",
             install |-> "RequestToInstall", keyboard |-> "StartKeyboard",
             goodbye |-> "Disconnect"]

AnswerToCome ==
  pc \in Waits \ {"dock"} /\ ~lost =>
    \/ fromNewton # <<>> \/ gone
    \/ \E i \in IF pc = "password" THEN PasswordAsked ELSE At(toNewton, {Question[pc]}) :
         pc = "goodbye" \/ WillHear(i)

\* Unless the link gave up a result that was still to come, there is at most one to
\* come, and who asked for it still waits: the dialogue, or the engine in charge.
\* What an engine for packages gets is the result of its package.
ResultsAsked ==
  {i \in At(toNewton, {"WhichIcons", "RequestToInstall", "LoadPackage", "SetCurrentStore",
                        "SetStoreToDefault", "ChangedEntry", "AddEntry"}) : WillHear(i)}

OneResult ==
  /\ confirmed <= accepted \/ stray
  /\ pc \notin {"goodbye"} \cup Ended /\ ~stray =>
       /\ AtMostOne(ResultsAsked, Results)
       /\ ResultsAsked \cup Results # {} =>
            \/ pc \in {"icons", "install"}
            \/ pc = "running" /\ engine = "loadpkg"
            \/ pc = "running" /\ engine = "sync" /\ sync.state \in ResultStates
       /\ pc = "running" /\ engine = "loadpkg" =>
            /\ ResultsAsked \subseteq At(toNewton, {"LoadPackage"})
            /\ \A i \in Results :
                 fromNewton[i].cmd = "Result" /\ fromNewton[i].arg = "ok" => confirmed < accepted

DockIInv == /\ TypeOK /\ EngineAtWork /\ InLoops(sync)
            /\ OnePassword /\ OneCancel /\ AnswerToCome /\ OneResult

\* A session that serves a Newton is one in which the Newton gave the right
\* password.
Authenticated == pc \in Session => password = "right"

\* The link never waits for a message while the Newton has nothing to answer, unless
\* a message was lost in an exception: a Newton that cancelled, and was not heard,
\* waits too.
NeverBothWait ==
  pc \in Waits \ {"dock"} /\ ~lost => toNewton # <<>> \/ fromNewton # <<>> \/ gone

\* As long as the link waits for each result that is to come, no more packages are
\* reported as installed than the Newton has taken.
InstallTold == stray \/ confirmed <= accepted

\* The same without the condition, as GetResultCmd says that it returns the error
\* of a result it has read, and DockCommandProcessed that nil means success.
InstallConfirmed == confirmed <= accepted

\* A synchronisation that was not stopped has gone through each soup of each
\* source on each store and, where only changes are asked for, has offered the
\* source every entry that is due and that it wants: no level of the four loops,
\* which the answers of the Newton drive, ends early or starts in the middle.
NothingMissed == sync.state = "End" => sync.visited = Places /\ ~sync.missed

\* Every request of the Newton is answered, if only by UnknownCommand, unless it
\* ended in an exception (which tells the application, not the Newton).
NewtonServed == waiting # "none" ~> waiting = "none" \/ lost \/ gone \/ pc \in Ended

\* A synchronisation comes to its end, unless it meets an error or is stopped.
SyncEnds == engine = "sync" ~> engine # "sync" \/ lost \/ interrupted \/ pc \in Ended
=============================================================================
