------------------------------ MODULE CommLayer ------------------------------
(***************************************************************************)
(* A synchronous communication layer that waits for Newtons to call:       *)
(* TDCLSyncCommLayer (DCL/Communication_Layers/TDCLSyncCommLayer.cpp) over *)
(* a listening BSD socket (POSIX/TDCLBSDSocket.cpp).  The thread of the    *)
(* layer waits in select(), posts kIncomingRequest to the server, and      *)
(* sleeps until the server has accepted or refused the request.  The       *)
(* server, on its own thread, starts and stops the layer and answers.      *)
(*                                                                         *)
(* The listening socket and then the pair of sockets that breaks the wait  *)
(* are opened when the thread starts; the thread closes both, and a closed *)
(* descriptor keeps its old value.  The start may fail, select() may be    *)
(* ended by a signal, and an answer may throw.                             *)
(***************************************************************************)
EXTENDS ThreadSleep

CONSTANTS MaxPipeCount, \* TDCLCommLayer::mMaxPipeCount, 0 for no limit
          MaxStarts,    \* bound: calls of StartListening
          MaxCalls,     \* bound: Newtons that call
          MaxFree,      \* bound: waits that end by themselves
          MaxFails      \* bound: starts, selects and answers that fail

ASSUME LayerAssumption == /\ MaxPipeCount \in Nat /\ MaxStarts \in Nat
                          /\ MaxCalls \in Nat /\ MaxFree \in Nat /\ MaxFails \in Nat

VARIABLES
  layerPc,     \* "out", "open", "tell", "enter", "blocked", "found", "sleep",
               \* "asleep"
  sockets,     \* "none", "open", "unpaired" if the listening socket was opened but
               \* not the pair, or "closed" with the old descriptors kept
  inPair,      \* a byte waits in the pair of sockets
  waiting,     \* Newtons in the backlog of the listening socket
  mServer,     \* the layer knows its server
  requests,    \* kIncomingRequest events in the queue of the server
  serverPc,    \* "idle", "accept", "answered", "wake", "spin", or "failed" once an
               \* exception has ended the thread of the server
  starts, calls,
  live,        \* pipes in use
  mCurrentPipeCount,
  free,        \* waits that ended by themselves
  fails,       \* starts, selects and answers that failed
  spare,       \* times the layer was stopped without a pair to interrupt its thread
  hasty        \* it is being stopped that way, and its thread had not ended

threadVars == <<layerPc, sleepVars>>
socketVars == <<sockets, inPair, waiting>>
pipes      == <<live, mCurrentPipeCount>>
history    == <<free, fails, spare, hasty>>
bounds     == <<starts, calls, history>>
vars == <<threadVars, socketVars, mServer, requests, serverPc, bounds, pipes>>

Init == /\ SleepInit("stopped") /\ layerPc = "out"
        /\ sockets = "none" /\ inPair = FALSE /\ waiting = 0
        /\ mServer = FALSE /\ requests = 0 /\ serverPc = "idle"
        /\ starts = 0 /\ calls = 0
        /\ live = 0 /\ mCurrentPipeCount = 0
        /\ free = 0 /\ fails = 0 /\ spare = 0 /\ hasty = FALSE

Listens == sockets \in {"open", "unpaired"}

-----------------------------------------------------------------------------
(* The thread of the layer: Run, DoStartListening, WaitForIncomingRequest. *)

\* DoStartListening does nothing if the descriptor of the socket is not -1.
DoStartListening ==
  /\ layerPc = "open"
  /\ sockets' = IF sockets = "none" THEN "open" ELSE sockets
  /\ layerPc' = "tell"
  /\ UNCHANGED <<sleepVars, inPair, waiting, mServer, requests, serverPc, bounds, pipes>>

\* The port is in use, or there are no descriptors left for the socket or for the
\* pair: the thread ends, the application is told, the layer keeps its server.  A
\* listening socket whose pair could not be made stays open.
StartFails ==
  /\ layerPc = "open" /\ sockets = "none" /\ fails < MaxFails
  /\ fails' = fails + 1
  /\ sockets' \in {"none", "unpaired"}
  /\ EndThread /\ layerPc' = "out"
  /\ UNCHANGED <<inPair, waiting, mServer, requests, serverPc, starts, calls, free,
                 spare, hasty, pipes>>

\* kWaitingConnection is posted to the server, which tells the application.
WaitingConnection ==
  /\ layerPc = "tell"
  /\ layerPc' = "enter"
  /\ UNCHANGED <<sleepVars, socketVars, mServer, requests, serverPc, bounds, pipes>>

SelectWaits ==
  /\ layerPc = "enter" /\ Listens /\ ~inPair /\ waiting = 0
  /\ layerPc' = "blocked"
  /\ UNCHANGED <<sleepVars, socketVars, mServer, requests, serverPc, bounds, pipes>>

SelectFindsRequest ==
  /\ layerPc \in {"enter", "blocked"} /\ Listens /\ ~inPair /\ waiting > 0
  /\ layerPc' = "found"
  /\ UNCHANGED <<sleepVars, socketVars, mServer, requests, serverPc, bounds, pipes>>

\* The byte of DoStopListening: the thread closes the sockets, with the
\* requests still in the backlog, and ends.
SelectInterrupted ==
  /\ layerPc \in {"enter", "blocked"} /\ sockets = "open" /\ inPair
  /\ sockets' = "closed" /\ inPair' = FALSE /\ waiting' = 0
  /\ EndThread /\ layerPc' = "out"
  /\ UNCHANGED <<mServer, requests, serverPc, bounds, pipes>>

\* select() fails on descriptors that are closed, and the thread ends.
SelectFails ==
  /\ layerPc = "enter" /\ sockets = "closed"
  /\ EndThread /\ layerPc' = "out"
  /\ UNCHANGED <<socketVars, mServer, requests, serverPc, bounds, pipes>>

\* A signal ends select(), or an error does: the thread ends and leaves the sockets
\* open.  What it finds in place of a pair that was never made is not its own, and
\* may look like the byte of DoStopListening.
SelectBreaks ==
  /\ layerPc \in {"enter", "blocked"} /\ Listens /\ fails < MaxFails
  /\ fails' = fails + 1
  /\ \/ UNCHANGED socketVars
     \/ sockets = "unpaired" /\ sockets' = "closed" /\ waiting' = 0 /\ UNCHANGED inPair
  /\ EndThread /\ layerPc' = "out"
  /\ UNCHANGED <<mServer, requests, serverPc, starts, calls, free, spare, hasty, pipes>>

\* Mutant: the thread does not wait for the answer.
RequestPresentAgain ==
  /\ layerPc = "found"
  /\ requests' = requests + 1
  /\ layerPc' = "enter"
  /\ UNCHANGED <<sleepVars, socketVars, mServer, serverPc, bounds, pipes>>

RequestPresent ==
  /\ layerPc = "found"
  /\ requests' = requests + 1
  /\ layerPc' = "sleep"
  /\ UNCHANGED <<sleepVars, socketVars, mServer, serverPc, bounds, pipes>>

LayerSleeps == /\ layerPc = "sleep"
               /\ \/ SleepNot /\ layerPc' = "enter"
                  \/ FallAsleep /\ layerPc' = "asleep"
               /\ UNCHANGED <<socketVars, mServer, requests, serverPc, bounds, pipes>>

LayerAwakes == /\ layerPc = "asleep"
               /\ Awake
               /\ layerPc' = "enter"
               /\ UNCHANGED <<socketVars, mServer, requests, serverPc, bounds, pipes>>

LayerStep == DoStartListening \/ WaitingConnection \/ SelectWaits
               \/ SelectFindsRequest \/ SelectInterrupted \/ SelectFails
               \/ RequestPresent \/ LayerSleeps \/ LayerAwakes

-----------------------------------------------------------------------------
(* The server.                                                             *)

\* StartListening; on a layer that is listening already it throws.
StartListening ==
  /\ serverPc = "idle" /\ ~mServer /\ starts < MaxStarts
  /\ mServer' = TRUE
  /\ starts' = starts + 1
  /\ StartThread /\ layerPc' = "open"
  /\ UNCHANGED <<socketVars, requests, serverPc, calls, history, pipes>>

Unpaired == sockets \in {"none", "unpaired"}

\* Mutant: the layer is only woken up, the pair of sockets is forgotten.
StopListeningUnpaired ==
  /\ serverPc \in {"idle", "failed"} /\ mServer
  /\ serverPc' = "wake"
  /\ UNCHANGED <<threadVars, socketVars, mServer, requests, bounds, pipes>>

\* StopListening sends a byte through the pair, if there is a pair to send it
\* through, ...  After a failure it is called by Kill or RemoveCommLayer, and the
\* events of the server that failed go unread.
StopListening ==
  /\ serverPc \in {"idle", "failed"} /\ mServer
  /\ inPair' = (inPair \/ sockets = "open")
  /\ hasty' = (Unpaired /\ layerPc # "out")
  /\ spare' = IF Unpaired THEN spare + 1 ELSE spare
  /\ requests' = IF serverPc = "failed" THEN 0 ELSE requests
  /\ serverPc' = "wake"
  /\ UNCHANGED <<threadVars, sockets, waiting, mServer, starts, calls, free, fails, pipes>>

\* ... wakes the thread up, in case the server never answered, ...
WakeLayer == /\ serverPc = "wake"
             /\ WakeUp
             /\ serverPc' = "spin"
             /\ UNCHANGED <<layerPc, socketVars, mServer, requests, bounds, pipes>>

\* ... and waits for it to end.
StopReturns == /\ serverPc = "spin" /\ mState = "stopped"
               /\ mServer' = FALSE /\ hasty' = FALSE
               /\ serverPc' = "idle"
               /\ UNCHANGED <<threadVars, socketVars, requests, starts, calls, free, fails,
                              spare, pipes>>

\* The server takes a kIncomingRequest event and calls accept(), which waits
\* for a request if there is none.  Refuse closes the connection at once.
TakeRequest == /\ serverPc = "idle" /\ mServer /\ requests > 0
               /\ requests' = requests - 1
               /\ serverPc' = "accept"
               /\ UNCHANGED <<threadVars, socketVars, mServer, bounds, pipes>>

AnswerRequest == /\ serverPc = "accept" /\ Listens /\ waiting > 0
                 /\ waiting' = waiting - 1
                 /\ serverPc' = "answered"
                 /\ UNCHANGED <<threadVars, sockets, inPair, mServer, requests, bounds>>

\* DoAccept makes a pipe, or closes the connection if there are too many.
DoAccept == /\ AnswerRequest
            /\ \/ /\ MaxPipeCount = 0 \/ mCurrentPipeCount < MaxPipeCount
                  /\ mCurrentPipeCount' = mCurrentPipeCount + 1
                  /\ live' = live + 1
               \/ /\ MaxPipeCount # 0 /\ mCurrentPipeCount >= MaxPipeCount
                  /\ UNCHANGED pipes

DoRefuse == AnswerRequest /\ UNCHANGED pipes

\* accept() fails on a closed socket: an exception, and no WakeUp.
AnswerFails == /\ serverPc = "accept" /\ sockets = "closed"
               /\ serverPc' = "failed"
               /\ UNCHANGED <<threadVars, socketVars, mServer, requests, bounds, pipes>>

\* accept() fails on an open one, with the request or for lack of descriptors, or the
\* socket it made cannot be set up or closed: no WakeUp either.
AnswerBreaks == /\ serverPc = "accept" /\ Listens /\ fails < MaxFails
                /\ fails' = fails + 1
                /\ waiting' \in {waiting, IF waiting > 0 THEN waiting - 1 ELSE 0}
                /\ serverPc' = "failed"
                /\ UNCHANGED <<threadVars, sockets, inPair, mServer, requests, starts,
                               calls, free, spare, hasty, pipes>>

\* Mutant: the thread is not woken up after the answer.
NextRequestForgotten ==
  /\ serverPc = "answered"
  /\ serverPc' = "idle"
  /\ UNCHANGED <<threadVars, socketVars, mServer, requests, bounds, pipes>>

\* The last line of Accept and Refuse.
NextRequest == /\ serverPc = "answered"
               /\ WakeUp
               /\ serverPc' = "idle"
               /\ UNCHANGED <<layerPc, socketVars, mServer, requests, bounds, pipes>>

\* A session ends: TSyncPipe::Disconnect does not call Disconnected, which
\* would count the pipe out.
DisconnectPipe == /\ serverPc \in {"idle", "failed"} /\ live > 0
                  /\ live' = live - 1
                  /\ UNCHANGED <<threadVars, socketVars, mServer, requests, serverPc,
                                 bounds, mCurrentPipeCount>>

ServerStep == TakeRequest \/ DoAccept \/ DoRefuse \/ AnswerFails \/ NextRequest
                \/ WakeLayer \/ StopReturns

-----------------------------------------------------------------------------
NewtonCalls == /\ Listens /\ calls < MaxCalls
               /\ calls' = calls + 1
               /\ waiting' = waiting + 1
               /\ UNCHANGED <<threadVars, sockets, inPair, mServer, requests, serverPc,
                              starts, history, pipes>>

WaitEndsByItself == /\ SpuriousReturn
                    /\ free < MaxFree
                    /\ free' = free + 1
                    /\ UNCHANGED <<layerPc, socketVars, mServer, requests, serverPc,
                                   starts, calls, fails, spare, hasty, pipes>>

Breaks == StartFails \/ SelectBreaks \/ AnswerBreaks

Next == LayerStep \/ ServerStep \/ StartListening \/ StopListening
          \/ DisconnectPipe \/ NewtonCalls \/ WaitEndsByItself \/ Breaks

Spec == Init /\ [][Next]_vars

\* Both threads are scheduled, and the server handles the events it is sent;
\* nobody has to start or stop the layer, no Newton has to call, and nothing has to
\* fail.
FairSpec == Spec /\ WF_vars(LayerStep) /\ WF_vars(ServerStep)

-----------------------------------------------------------------------------
TypeOK ==
  /\ SleepTypeOK
  /\ layerPc \in {"out", "open", "tell", "enter", "blocked", "found", "sleep", "asleep"}
  /\ sockets \in {"none", "open", "unpaired", "closed"} /\ inPair \in BOOLEAN
  /\ waiting \in 0..MaxCalls /\ calls \in 0..MaxCalls
  /\ mServer \in BOOLEAN /\ requests \in Nat /\ starts \in 0..MaxStarts
  /\ serverPc \in {"idle", "accept", "answered", "wake", "spin", "failed"}
  /\ live \in Nat /\ mCurrentPipeCount \in Nat
  /\ free \in 0..MaxFree /\ fails \in 0..MaxFails /\ spare \in Nat /\ hasty \in BOOLEAN

One(b) == IF b THEN 1 ELSE 0

Turns == requests + One(serverPc \in {"accept", "answered"})
           + mWakeCount + One(waitEnd = "signal")
           + One(layerPc \in {"open", "tell", "enter", "blocked", "found"})

\* Why the server does not block in accept(): as long as nobody interrupts the
\* layer there is one turn, which is with the thread of the layer, in an event, in
\* the hands of the server, or in a wake-up on its way back.  A wait that ends by
\* itself may add one, and so may a StopListening without a pair, whose wake-up
\* then waits for the next start.
OneTurn == ~inPair /\ sockets # "closed" =>
             Turns + One(serverPc = "wake") <= One(layerPc # "out") + free + spare

\* The turn is not lost as long as the thread of the layer lives and the server
\* serves its events.
TurnKept == layerPc # "out" /\ serverPc \in {"idle", "accept", "answered"} => Turns >= 1

\* With one turn, whoever has it in his hands after the thread found a request
\* has that request still before him.
Announced == requests + One(serverPc = "accept") + One(layerPc = "found")

RequestStillThere ==
  Listens /\ free = 0 /\ spare = 0 =>
    Announced <= 1 /\ (Announced > 0 => waiting > 0)

ThreadState ==
  /\ mState = "stopped" <=> layerPc = "out"
  /\ mState = "sleeping" <=> layerPc = "asleep"
  /\ waitEnd = "no" \/ (waitEnd = "signal" /\ mState = "sleeping")

\* Who is where: the server is busy with the layer only while the layer knows it,
\* and there is nothing to announce before there is a socket.  Unless something
\* failed, the sockets live as long as the thread that opened them.
Phases ==
  /\ ~mServer => layerPc = "out" /\ serverPc = "idle"
  /\ sockets = "none" => /\ layerPc \in {"out", "open"} /\ requests = 0
                         /\ serverPc \notin {"accept", "answered"}
  /\ inPair => sockets = "open"
  /\ fails = 0 => /\ sockets = "open" => layerPc \notin {"out", "open"}
                  /\ sockets # "unpaired"
                  /\ inPair => serverPc \in {"wake", "spin"}

Counted == waiting <= calls /\ live <= mCurrentPipeCount
             /\ (MaxPipeCount # 0 => mCurrentPipeCount <= MaxPipeCount)

IInv == TypeOK /\ ThreadState /\ Phases /\ Counted /\ OneTurn /\ TurnKept
          /\ RequestStillThere

\* The server never blocks in accept(): the layer announces one request at a
\* time, so each request the server is told of is in the backlog when it answers,
\* unless a wait ended by itself, or the layer was stopped while it had no pair of
\* sockets, and made the layer announce one twice.
AcceptNeverBlocks ==
  serverPc = "accept" /\ Listens /\ free = 0 /\ spare = 0 => waiting > 0

\* The comment before WaitingConnection in Run: "we are listening now".
NowListening == layerPc = "tell" => sockets = "open"

\* When StopListening has returned, the thread has ended and will not touch
\* the server any more; it left nothing to break a later wait, unless it had ended
\* on an error.
Stopped == ~mServer => /\ layerPc = "out" /\ mState = "stopped"
                       /\ fails = 0 => ~inPair

\* At most MaxPipeCount connections at a time, however requests, answers and
\* ends of sessions interleave.
PipeLimit == MaxPipeCount # 0 => live <= MaxPipeCount

\* A request is announced to the server, and answered, or the layer stops, or an
\* error has ended the thread of the layer or of the server.
RequestsServed ==
  (waiting > 0) ~> (waiting = 0 \/ serverPc \in {"spin", "failed"} \/ layerPc = "out")

\* StopListening ends, unless it found no pair of sockets to interrupt the thread.
StopEnds == (serverPc = "wake") ~> (serverPc = "idle" \/ hasty)

\* The comment of TDCLSyncCommLayer.h on DoStopListening, that it interrupts the
\* wait, and on StopListening, that it waits for the end of the thread: StopListening
\* ends.  A Stop soon after a Start refutes it.
StopAlwaysEnds == (serverPc = "wake") ~> (serverPc = "idle")

\* The comments of TDCLCommLayer.h on Accept and Refuse, which do not wait "if no
\* connection is present": an answer returns.  A start that failed refutes it.
AnswerReturns == (serverPc = "accept") ~> (serverPc # "accept")

\* The comment of TDCLCommLayer.h on the limit, "the number of connections at the
\* same time": with fewer in use there is room for another.  A session that ended
\* refutes it.
RoomLeft == MaxPipeCount # 0 /\ live < MaxPipeCount => mCurrentPipeCount < MaxPipeCount
=============================================================================
