------------------------------ MODULE SyncPipe ------------------------------
(***************************************************************************)
(* The connection of a synchronous communication layer: TSyncPipe          *)
(* (DCL/Communication_Layers/TDCLSyncCommLayer.cpp) over a BSD socket      *)
(* (POSIX/TDCLBSDSocket.cpp).  A thread of the pipe waits in select() and  *)
(* tells the link, with DataPresent, that the Newton sent something; it    *)
(* then sleeps until the link asks again with ClearDataPresent.  A pair of *)
(* sockets lets Disconnect break the wait.                                 *)
(*                                                                         *)
(* Four parties: the thread of the pipe, the thread of the link that reads *)
(* the pipe, the server that disconnects and deletes it, and the Newton.   *)
(* The link and its queue outlive the pipe: the next session gets a new    *)
(* pipe and the same link.                                                 *)
(***************************************************************************)
EXTENDS ThreadSleep

CONSTANTS MaxSessions,  \* bound: pipes accepted in a behaviour
          MaxSent,      \* bound: commands the Newton sends in a session
          MaxFree,      \* bound: waits that end by themselves in a session
          MaxSignals    \* bound: selects that a signal or an error ends in a session

ASSUME PipeAssumption == /\ MaxSessions \in Nat \ {0} /\ MaxSent \in Nat
                         /\ MaxFree \in Nat /\ MaxSignals \in Nat

VARIABLES
  pipePc,      \* "out", "sleep", "asleep", "enter", "blocked" (select), "told"
  inPair,      \* a byte waits in the pair of sockets
  closed,      \* the client socket was closed by DoDisconnect
  sent,        \* commands sent by the Newton in this session
  unread,      \* commands waiting in the client socket
  peerGone,    \* the Newton closed its end
  linkPc,      \* "none", "connect", "greet", "running", "look", "clear",
               \* or "gone" once the link has left its pipe
  dataEvents,  \* kBytesAvailable events in the queue of the link
  serverPc,    \* "idle", "close", "wake", "spin", "done"
  sessions,    \* pipes accepted so far
  credit,      \* ClearDataPresent calls less DataPresent calls, for this pipe
  free,        \* waits of this pipe that ended by themselves
  signals      \* selects of this pipe that a signal or an error ended

socket   == <<inPair, closed, sent, unread, peerGone>>
pipeVars == <<pipePc, sleepVars>>
linkVars == <<linkPc, dataEvents>>
account  == <<credit, free, signals>>
rest     == <<serverPc, sessions>>
vars     == <<socket, pipeVars, linkVars, rest, account>>

Readable == unread > 0 \/ peerGone

Init == /\ SleepInit("stopped") /\ pipePc = "out"
        /\ inPair = FALSE /\ closed = FALSE /\ credit = 0 /\ free = 0 /\ signals = 0
        /\ sent = 0 /\ unread = 0 /\ peerGone = FALSE
        /\ linkPc = "connect" /\ dataEvents = 0
        /\ serverPc = "idle" /\ sessions = 1

-----------------------------------------------------------------------------
(* The thread of the pipe: TSyncPipe::Run and WaitForIncomingData.         *)

PipeSleeps == /\ pipePc = "sleep"
              /\ \/ SleepNot /\ pipePc' = "enter"
                 \/ FallAsleep /\ pipePc' = "asleep"
              /\ UNCHANGED <<socket, linkVars, rest, account>>

PipeAwakes == /\ pipePc = "asleep"
              /\ Awake
              /\ pipePc' = "enter"
              /\ UNCHANGED <<socket, linkVars, rest, account>>

\* select() waits while there is nothing to return.
SelectWaits == /\ pipePc = "enter"
               /\ ~inPair /\ ~closed /\ ~Readable
               /\ pipePc' = "blocked"
               /\ UNCHANGED <<sleepVars, socket, linkVars, rest, account>>

SelectFindsData == /\ pipePc \in {"enter", "blocked"}
                   /\ ~inPair /\ ~closed /\ Readable
                   /\ pipePc' = "told"
                   /\ UNCHANGED <<sleepVars, socket, linkVars, rest, account>>

\* The pair of sockets is readable: it is emptied and the thread ends.  On a
\* descriptor that is closed already select() fails, and the thread ends too; a
\* wait that has begun does not notice that its descriptor is closed.
SelectEnds == /\ pipePc \in {"enter", "blocked"}
              /\ inPair \/ (closed /\ pipePc = "enter")
              /\ inPair' = FALSE
              /\ EndThread
              /\ pipePc' = "out"
              /\ UNCHANGED <<closed, sent, unread, peerGone, linkVars, rest, account>>

\* Mutant: the thread does not wait for ClearDataPresent.
DataPresentAgain == /\ pipePc = "told"
                    /\ dataEvents' = dataEvents + 1
                    /\ credit' = credit - 1 /\ UNCHANGED <<free, signals>>
                    /\ pipePc' = "enter"
                    /\ UNCHANGED <<sleepVars, socket, linkPc, rest>>

DataPresent == /\ pipePc = "told"
               /\ dataEvents' = dataEvents + 1
               /\ credit' = credit - 1 /\ UNCHANGED <<free, signals>>
               /\ pipePc' = "sleep"
               /\ UNCHANGED <<sleepVars, socket, linkPc, rest>>

\* A signal ends select(), or an error does: the thread ends, by the answer false
\* or by an exception, whatever the session is at.  Nothing makes this happen.
SelectBreaks == /\ pipePc \in {"enter", "blocked"} /\ signals < MaxSignals
                /\ signals' = signals + 1
                /\ EndThread
                /\ pipePc' = "out"
                /\ UNCHANGED <<socket, linkVars, rest, credit, free>>

PipeStep == PipeSleeps \/ PipeAwakes \/ SelectWaits \/ SelectFindsData
              \/ SelectEnds \/ DataPresent

-----------------------------------------------------------------------------
(* The thread of the link, seen from the pipe.                             *)

\* TSyncPipe::Connected records the link and starts the thread.
Connected == /\ linkPc = "connect"
             /\ StartThread /\ pipePc' = "sleep"
             /\ linkPc' = "greet"
             /\ UNCHANGED <<socket, dataEvents, rest, account>>

\* The link reads the pipe: a command, the end of the connection, or an error
\* if the socket was closed under it.  `from` and `to` are places in its code.
ReadPipe(from, to) ==
  /\ linkPc = from
  /\ \/ /\ ~closed /\ unread > 0
        /\ unread' = unread - 1 /\ linkPc' = to
     \/ /\ closed \/ (unread = 0 /\ peerGone)
        /\ linkPc' = "gone" /\ UNCHANGED unread
  /\ UNCHANGED <<pipeVars, inPair, closed, sent, peerGone, dataEvents, rest, account>>

\* The dialogue of DoConnect, and an answer read outside the main loop.
Greet    == ReadPipe("greet", "clear")
Exchange == ReadPipe("running", "running")

TakeDataEvent == /\ linkPc = "running" /\ dataEvents > 0
                 /\ dataEvents' = dataEvents - 1
                 /\ linkPc' = "look"
                 /\ UNCHANGED <<pipeVars, socket, rest, account>>

\* Mutant: no ClearDataPresent when the bytes were read before.
LookInVainForget == /\ linkPc = "look"
                    /\ closed \/ ~Readable
                    /\ linkPc' = "running"
                    /\ UNCHANGED <<pipeVars, socket, dataEvents, rest, account>>

\* BytesAvailable: the bytes of the event may have been read in the meantime.
LookAndRead == /\ ~closed /\ Readable
               /\ ReadPipe("look", "clear")
LookInVain  == /\ linkPc = "look"
               /\ closed \/ ~Readable
               /\ linkPc' = "clear"
               /\ UNCHANGED <<pipeVars, socket, dataEvents, rest, account>>

ClearDataPresent == /\ linkPc = "clear"
                    /\ WakeUp
                    /\ linkPc' = "running"
                    /\ credit' = credit + 1 /\ UNCHANGED <<free, signals>>
                    /\ UNCHANGED <<pipePc, socket, dataEvents, rest>>

\* The application or the Newton ends the session; the server is told.
LeavePipe == /\ linkPc = "running"
             /\ linkPc' = "gone"
             /\ UNCHANGED <<pipeVars, socket, dataEvents, rest, account>>

LinkStep == Connected \/ Greet \/ TakeDataEvent \/ LookAndRead
              \/ LookInVain \/ ClearDataPresent

-----------------------------------------------------------------------------
(* The server: TSyncPipe::Disconnect, then delete, then the next Accept.   *)

\* Mutant: the pair of sockets is forgotten.
DisconnectUnpaired ==
  /\ serverPc = "idle" /\ linkPc = "gone"
  /\ serverPc' = "close"
  /\ UNCHANGED <<pipeVars, socket, linkVars, sessions, account>>

\* The link has told the server that it left.
Disconnect ==
  /\ serverPc = "idle" /\ linkPc = "gone"
  /\ inPair' = TRUE /\ serverPc' = "close"
  /\ UNCHANGED <<pipeVars, closed, sent, unread, peerGone, linkVars, sessions, account>>

CloseSocket == /\ serverPc = "close"
               /\ closed' = TRUE
               /\ serverPc' = "wake"
               /\ UNCHANGED <<pipeVars, inPair, sent, unread, peerGone, linkVars,
                              sessions, account>>

WakePipe == /\ serverPc = "wake"
            /\ WakeUp
            /\ serverPc' = "spin"
            /\ UNCHANGED <<pipePc, socket, linkVars, sessions, account>>

DisconnectReturns == /\ serverPc = "spin" /\ mState = "stopped"
                     /\ serverPc' = "done"
                     /\ UNCHANGED <<pipeVars, socket, linkVars, sessions, account>>

\* delete waits for the thread to end; the link waits for another session.
DeletePipe == /\ serverPc = "done" /\ mState = "stopped" /\ linkPc = "gone"
              /\ serverPc' = "idle"
              /\ linkPc' = "none"
              /\ UNCHANGED <<pipeVars, socket, dataEvents, sessions, account>>

Accept == /\ linkPc = "none" /\ sessions < MaxSessions
          /\ linkPc' = "connect"
          /\ sessions' = sessions + 1
          /\ mWakeCount' = 0 /\ credit' = 0 /\ free' = 0 /\ signals' = 0
          /\ inPair' = FALSE /\ closed' = FALSE
          /\ sent' = 0 /\ unread' = 0 /\ peerGone' = FALSE
          /\ UNCHANGED <<mState, waitEnd, pipePc, dataEvents, serverPc>>

ServerStep == Disconnect \/ CloseSocket \/ WakePipe \/ DisconnectReturns

-----------------------------------------------------------------------------
NewtonSends == /\ linkPc # "none" /\ sent < MaxSent /\ ~peerGone
               /\ sent' = sent + 1
               /\ unread' = unread + 1
               /\ UNCHANGED <<pipeVars, inPair, closed, peerGone, linkVars, rest, account>>

NewtonCloses == /\ linkPc # "none" /\ ~peerGone
                /\ peerGone' = TRUE
                /\ UNCHANGED <<pipeVars, inPair, closed, sent, unread, linkVars, rest, account>>

Turns == mWakeCount + (IF waitEnd = "signal" THEN 1 ELSE 0)
           + (IF pipePc \in {"enter", "blocked", "told"} THEN 1 ELSE 0)

WaitEndsByItself == /\ SpuriousReturn
                    /\ free < MaxFree
                    /\ free' = free + 1
                    /\ UNCHANGED <<pipePc, socket, linkVars, rest, credit, signals>>

Next == PipeStep \/ SelectBreaks \/ LinkStep \/ Exchange \/ LeavePipe \/ ServerStep
          \/ DeletePipe \/ Accept \/ NewtonSends \/ NewtonCloses \/ WaitEndsByItself

Spec == Init /\ [][Next]_vars

\* The three threads are scheduled.  The Newton owes nothing, and nobody has to
\* end a session; no signal has to come.
FairSpec == Spec /\ WF_vars(PipeStep) /\ WF_vars(LinkStep) /\ WF_vars(ServerStep)

-----------------------------------------------------------------------------
TypeOK ==
  /\ SleepTypeOK
  /\ pipePc \in {"out", "sleep", "asleep", "enter", "blocked", "told"}
  /\ inPair \in BOOLEAN /\ closed \in BOOLEAN /\ peerGone \in BOOLEAN
  /\ sent \in 0..MaxSent /\ unread \in 0..MaxSent
  /\ linkPc \in {"none", "connect", "greet", "running", "look", "clear", "gone"}
  /\ dataEvents \in Nat /\ credit \in Int
  /\ free \in 0..MaxFree /\ signals \in 0..MaxSignals
  /\ serverPc \in {"idle", "close", "wake", "spin", "done"}
  /\ sessions \in 1..MaxSessions

\* The comment of TDCLLink::DataPresent: it is called once, and again only when
\* the link has called ClearDataPresent.  Every call is paid for by one of the
\* link, also with events of an earlier session still in the queue, or else by a
\* wait that ended by itself.
OneAnnouncement == credit + free >= 0

\* How that comes about: ClearDataPresent gives the thread of the pipe a turn,
\* in store, in a signal or in its wait.  Calls that find the thread signalled
\* already share a turn, but a link back in its loop always has a turn or an
\* announcement left to come, as long as the thread lives, ...
TurnKept == linkPc = "running" => pipePc = "out" \/ Turns + dataEvents > 0

\* ... and WakeUp in Disconnect leaves the thread a turn that ends it.
LastTurn == serverPc = "spin" => /\ pipePc \in {"sleep", "told"} => mWakeCount > 0
                                 /\ pipePc = "asleep" => waitEnd = "signal"

\* The pipe is in use and its thread was started.
Started == linkPc \notin {"none", "connect"} /\ serverPc # "done"

\* No turn without a ClearDataPresent or a wait that ended by itself, except the
\* one of Disconnect, and a thread that ended before has used one to end.
TurnsPaid ==
  Turns <= credit + free + (IF serverPc = "spin" /\ pipePc # "out" THEN 1 ELSE 0)
             - (IF Started /\ serverPc # "spin" /\ pipePc = "out" THEN 1 ELSE 0)

\* Who is where: the server moves once the link left, and a thread that was
\* started lives until Disconnect makes the pair of sockets readable or a signal
\* ends it.
Phases ==
  /\ linkPc = "none" => serverPc = "idle" /\ pipePc = "out"
  /\ serverPc # "idle" => linkPc = "gone"
  /\ serverPc = "idle" /\ linkPc # "none" => ~inPair /\ ~closed
  /\ serverPc = "idle" /\ linkPc \notin {"none", "connect"}
       => pipePc # "out" \/ signals > 0
  /\ serverPc \in {"close", "wake", "spin"} => inPair \/ pipePc = "out"
  /\ serverPc = "done" => pipePc = "out"

ThreadState ==
  /\ mState = "stopped" <=> pipePc = "out"
  /\ mState = "sleeping" <=> pipePc = "asleep"
  /\ waitEnd = "no" \/ (waitEnd = "signal" /\ mState = "sleeping")

IInv == TypeOK /\ unread <= sent /\ ThreadState /\ Phases
          /\ TurnKept /\ LastTurn /\ TurnsPaid

\* The comments of TDCLSyncCommLayer.h on Disconnect: it waits until the thread
\* of the pipe has ended, and the pipe may be deleted at any time afterwards.
SafeToDelete == serverPc = "done" => pipePc = "out"

\* What the Newton sends is read, or the session ends, or a signal ended the thread
\* that watches the socket.
DataIsRead == (linkPc = "running" /\ unread > 0)
                 ~> (unread = 0 \/ linkPc \in {"gone", "none"} \/ pipePc = "out")

\* The comments of TDCLSyncCommLayer.h on ClearDataPresent, the link "wishes to be told as
\* soon as data are there", and on WaitForIncomingData, which "returns when data
\* are there or when it was interrupted by Disconnect": in an open session what the
\* Newton sends is read.  A signal refutes it.
ToldWhenAsked == (linkPc = "running" /\ unread > 0)
                    ~> (unread = 0 \/ linkPc \in {"gone", "none"})

\* Disconnect ends, whatever the thread of the pipe is doing when it is called.
DisconnectEnds == serverPc = "close" ~> serverPc \in {"done", "idle"}
=============================================================================
