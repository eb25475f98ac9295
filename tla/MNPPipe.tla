------------------------------- MODULE MNPPipe -------------------------------
(***************************************************************************)
(* The pipe that speaks MNP with the Newton over a serial port             *)
(* (TDCLMNPPipe), under the thread of one link.  The pipe puts what the    *)
(* link writes in frames numbered on eight bits, takes the Newton's frames *)
(* apart, acknowledges them, and lets the link read the bytes they hold.   *)
(* It never waits for an acknowledgement, never sends a frame twice and    *)
(* never compares the number of a frame with the one it expects.           *)
(*                                                                         *)
(* Bytes are numbered in the order they are sent, in each direction, so a  *)
(* byte lost, repeated or moved shows.  A frame is a record; its bytes on  *)
(* the line (SYN, DLE, STX, the doubled DLE, ETX, the CRC) are abstracted  *)
(* to whether the CRC is right: a frame damaged on the line has the kind   *)
(* "bad".  The Newton's side is external: it is modelled from what the     *)
(* pipe expects of it.                                                     *)
(***************************************************************************)
EXTENDS Integers, SequencesExt

CONSTANTS
    MaxBytes,      \* bound: bytes each side sends
    FrameSize,     \* bound: bytes in a frame of the Newton
    Capacity,      \* mOutputBufferCapacity
    CommandSize,   \* bytes the link asks for at once
    IndexSpan,     \* the numbers of frames are taken modulo this (256)
    Credits,       \* kDefaultCredits: frames the Newton sends ahead
    MaxFaults      \* bound: frames damaged, and times the Newton repeats

ASSUME MNPAssumption ==
    /\ {MaxBytes, MaxFaults} \subseteq Nat
    /\ {FrameSize, Capacity, CommandSize, Credits} \subseteq Nat \ {0}
    /\ IndexSpan \in Nat /\ 2 * Credits <= IndexSpan

VARIABLES
    phase,      \* where the link is with the pipe
    inBuffer,   \* mInputBuffer, from mInputBufferCrsr to mInputBufferSize
    inIndex,    \* mInputPacketIndex
    outBuffer,  \* mOutputBuffer, up to mOutputBufferCrsr
    outIndex,   \* mOutputPacketIndex
    keepAlive,  \* mSendKeepAlive
    left,       \* bytesLeft of the Read in progress, 0 when none is
    delivered,  \* the bytes the link has read
    written,    \* the number of bytes the link has written
    toLink, toNewton,   \* the frames on the line
    newton,     \* the Newton's side
    repeats, damages, skipped   \* what went wrong so far

pipeVars == <<inBuffer, inIndex, outBuffer, outIndex, keepAlive>>
linkVars == <<phase, left, delivered, written>>
faultVars == <<repeats, damages, skipped>>
vars == <<pipeVars, linkVars, toLink, toNewton, newton, faultVars>>

Kinds == {"LR", "LT", "LA", "LD", "bad"}
Frame == [kind : Kinds, index : 0 .. IndexSpan - 1, data : Seq(0 .. MaxBytes)]

Next1Wide(index) == index + 1    \* the slip: an index of more than eight bits
Next1(index) == (index + 1) % IndexSpan
Bytes(from, count) == [i \in 1 .. count |-> from + i]

\* Bound on the frames that wait to be read.
Room == Len(toLink) < Credits

LR == [kind |-> "LR", index |-> 0, data |-> <<>>]
LD == [kind |-> "LD", index |-> 1, data |-> <<0>>]   \* kMNPFooter
LT(index, data) == [kind |-> "LT", index |-> index, data |-> data]
LA(index) == [kind |-> "LA", index |-> index, data |-> <<>>]

MNPInit ==
    /\ phase = "connecting"
    /\ inBuffer = <<>> /\ inIndex = 0
    /\ outBuffer = <<>> /\ outIndex = 0
    /\ keepAlive = FALSE
    /\ left = 0 /\ delivered = <<>> /\ written = 0
    /\ toLink = <<>> /\ toNewton = <<>>
    /\ newton = [phase |-> "down", index |-> 1, sent |-> 0,
                 pending |-> <<>>, expected |-> 1, got |-> <<>>]
    /\ repeats = 0 /\ damages = 0 /\ skipped = FALSE

-----------------------------------------------------------------------------
(***************************************************************************)
(* The pipe.                                                               *)
(***************************************************************************)

WriteFrame(frame) == toNewton' = Append(toNewton, frame)

(* ReadFrame: blocks until a whole frame is there; throws when its framing *)
(* or its CRC is wrong.                                                    *)
ReadFrame(kinds) ==
    /\ toLink # <<>>
    /\ Head(toLink).kind \in kinds
    /\ toLink' = Tail(toLink)

(* BytesAvailable: the buffer, or whatever waits on the serial port, an    *)
(* acknowledgement included.                                               *)
BytesAvailable == inBuffer # <<>> \/ toLink # <<>>

(* Connected: the Newton's request, the answer, then any frame.            *)
ReadRequest ==
    /\ phase = "connecting"
    /\ \/ /\ ReadFrame({"bad"})
          /\ phase' = "failed"
          /\ UNCHANGED <<toNewton, inIndex>>
       \/ /\ ReadFrame(Kinds \ {"bad"})
          /\ WriteFrame(LR)
          /\ inIndex' = 1
          /\ phase' = "answered"
    /\ UNCHANGED <<inBuffer, outBuffer, outIndex, keepAlive, left, delivered,
                   written, newton, faultVars>>

ReadConfirmation ==
    /\ phase = "answered"
    /\ \/ /\ ReadFrame({"bad"})
          /\ phase' = "failed"
          /\ UNCHANGED outIndex
       \/ /\ ReadFrame(Kinds \ {"bad"})
          /\ phase' = "open"
          /\ outIndex' = 1
    /\ UNCHANGED <<inBuffer, inIndex, outBuffer, keepAlive, left, delivered,
                   written, toNewton, newton, faultVars>>

(* The slips a maintainer could make: an acknowledgement sent before       *)
(* mInputPacketIndex is updated, or ahead of it.                           *)
SendACKBehind(index) == WriteFrame(LA((index + IndexSpan - 1) % IndexSpan))
SendACKAhead(index) == WriteFrame(LA(Next1(index)))

(* SendACK names the last frame received.                                  *)
SendACK(index) == WriteFrame(LA(index))

(* The copy of Read: as many bytes as it still wants; the slip empties the *)
(* buffer before its rest is read.                                         *)
CopyDataDropsRest(data, wanted) ==
    LET count == IF wanted < Len(data) THEN wanted ELSE Len(data)
    IN  /\ delivered' = delivered \o SubSeq(data, 1, count)
        /\ left' = wanted - count
        /\ inBuffer' = <<>>

CopyData(data, wanted) ==
    LET count == IF wanted < Len(data) THEN wanted ELSE Len(data)
    IN  /\ delivered' = delivered \o SubSeq(data, 1, count)
        /\ left' = wanted - count
        /\ inBuffer' = SubSeq(data, count + 1, Len(data))

(* Read, called when the thread was woken by data and by the commands that *)
(* wait for an answer: with an empty buffer it goes on in ReceiveData.     *)
Read ==
    /\ phase = "open" /\ left = 0
    /\ BytesAvailable
    /\ CopyData(inBuffer, CommandSize)
    /\ UNCHANGED <<phase, inIndex, outBuffer, outIndex, keepAlive, written,
                   toLink, toNewton, newton, faultVars>>

(* ReceiveData, on an acknowledgement.                                     *)
ReceiveAcknowledgement ==
    /\ phase = "open" /\ left > 0
    /\ ReadFrame({"LA"})
    /\ IF keepAlive THEN SendACK(inIndex) ELSE UNCHANGED toNewton
    /\ UNCHANGED <<pipeVars, linkVars, newton, faultVars>>

(* ReceiveData, on any other frame: its bytes are data, whatever its kind  *)
(* and its number.                                                         *)
ReceiveData ==
    /\ phase = "open" /\ left > 0
    /\ ReadFrame(Kinds \ {"LA", "bad"})
    /\ inIndex' = Head(toLink).index
    /\ SendACK(inIndex')
    /\ CopyData(Head(toLink).data, left)
    /\ UNCHANGED <<phase, outBuffer, outIndex, keepAlive, written, newton,
                   faultVars>>

(* SetKeepAlive, by the link of the inspector once it has read the first   *)
(* commands of the Newton.                                                 *)
SetKeepAlive ==
    /\ phase = "open" /\ left = 0 /\ delivered # <<>>
    /\ keepAlive' = TRUE
    /\ UNCHANGED <<inBuffer, inIndex, outBuffer, outIndex, linkVars, toLink,
                   toNewton, newton, faultVars>>

(* ReadFrame throws: the exception ends the link, unless it was reading    *)
(* the answer to a command of the application, which catches it and lets   *)
(* the link go on after the damaged frame.                                 *)
ReadThrows ==
    /\ phase = "open" /\ left > 0
    /\ ReadFrame({"bad"})
    /\ left' = 0
    /\ \/ phase' = "failed" /\ UNCHANGED skipped
       \/ skipped' = TRUE /\ UNCHANGED phase
    /\ UNCHANGED <<pipeVars, delivered, written, toNewton, newton, repeats,
                   damages>>

(* The slip: mOutputPacketIndex++ before the frame is written.             *)
FullFramesAhead(data) ==
    [i \in 1 .. Len(data) \div Capacity |->
        LT((outIndex + i) % IndexSpan,
           SubSeq(data, (i - 1) * Capacity + 1, i * Capacity))]

(* SendData, as often as the buffer gets full: the frames that hold the    *)
(* bytes of the buffer and those written after them.                       *)
FullFrames(data) ==
    [i \in 1 .. Len(data) \div Capacity |->
        LT((outIndex + i - 1) % IndexSpan,
           SubSeq(data, (i - 1) * Capacity + 1, i * Capacity))]

Write ==
    /\ phase = "open" /\ left = 0
    /\ \E count \in 1 .. MaxBytes - written :
        LET data == outBuffer \o Bytes(written, count)
            sent == Len(data) \div Capacity
        IN  /\ written' = written + count
            /\ toNewton' = toNewton \o FullFrames(data)
            /\ outIndex' = (outIndex + sent) % IndexSpan
            /\ outBuffer' = SubSeq(data, sent * Capacity + 1, Len(data))
    /\ UNCHANGED <<phase, left, delivered, inBuffer, inIndex, keepAlive,
                   toLink, newton, faultVars>>

(* FlushOutput: a frame even when the buffer is empty, as it is after a    *)
(* Write that filled it.  (Bound: one such frame at a time.)               *)
FlushOutput ==
    /\ phase = "open" /\ left = 0
    /\ outBuffer # <<>> \/ (written \in 1 .. MaxBytes - 1 /\ toNewton = <<>> /\ Room)
    /\ WriteFrame(LT(outIndex, outBuffer))
    /\ outIndex' = Next1(outIndex)
    /\ outBuffer' = <<>>
    /\ UNCHANGED <<inBuffer, inIndex, keepAlive, linkVars, toLink, newton,
                   faultVars>>

(* Disconnect: what is left in the output buffer is never sent.            *)
Disconnect ==
    /\ phase = "open" /\ left = 0
    /\ WriteFrame(LD)
    /\ phase' = "closed"
    /\ UNCHANGED <<pipeVars, left, delivered, written, toLink, newton,
                   faultVars>>

-----------------------------------------------------------------------------
(***************************************************************************)
(* The Newton (external) and the line.                                     *)
(***************************************************************************)

NewtonRequests ==
    /\ newton.phase = "down"
    /\ toLink' = Append(toLink, LR)
    /\ newton' = [newton EXCEPT !.phase = "asking"]
    /\ UNCHANGED <<pipeVars, linkVars, toNewton, faultVars>>

(* It numbers its frames from 1 and sends as many as it has credits for.   *)
NewtonSends ==
    /\ newton.phase = "up" /\ Room
    /\ Len(newton.pending) < Credits
    /\ \E count \in 1 .. FrameSize :
        LET frame == LT(newton.index, Bytes(newton.sent, count))
        IN  /\ newton.sent + count <= MaxBytes
            /\ toLink' = Append(toLink, frame)
            /\ newton' = [newton EXCEPT !.sent = @ + count,
                              !.index = Next1(@),
                              !.pending = Append(@, frame)]
    /\ UNCHANGED <<pipeVars, linkVars, toNewton, faultVars>>

(* The acknowledgement of a frame is that of the frames before it.         *)
Acknowledged(pending, index) ==
    LET named == {i \in DOMAIN pending : pending[i].index = index}
    IN  IF named = {} THEN pending
        ELSE SubSeq(pending, 1 + CHOOSE i \in named : TRUE, Len(pending))

NewtonReceives ==
    /\ newton.phase # "gone" /\ toNewton # <<>>
    /\ toNewton' = Tail(toNewton)
    /\ LET frame == Head(toNewton)
           inOrder == frame.kind = "LT" /\ frame.index = newton.expected
       IN  \/ /\ frame.kind = "LR"
              /\ newton' = [newton EXCEPT !.phase = "up"]
              /\ toLink' = Append(toLink, LA(0))
           \/ /\ frame.kind = "LA"
              /\ newton' = [newton EXCEPT
                               !.pending = Acknowledged(@, frame.index)]
              /\ UNCHANGED toLink
           \/ /\ inOrder
              /\ newton' = [newton EXCEPT !.got = @ \o frame.data,
                                          !.expected = Next1(@)]
              /\ toLink' = Append(toLink, LA(frame.index))
           \/ /\ frame.kind = "LD"
              /\ newton' = [newton EXCEPT !.phase = "gone"]
              /\ UNCHANGED toLink
           \/ /\ frame.kind = "bad" \/ (frame.kind = "LT" /\ ~inOrder)
              /\ UNCHANGED <<newton, toLink>>
    /\ UNCHANGED <<pipeVars, linkVars, faultVars>>

(* It sends again what was not acknowledged in time.                       *)
NewtonRepeats ==
    /\ newton.phase = "up" /\ newton.pending # <<>>
    /\ repeats + damages < MaxFaults
    /\ toLink' = toLink \o newton.pending
    /\ repeats' = repeats + 1
    /\ UNCHANGED <<pipeVars, linkVars, toNewton, newton, damages, skipped>>

NewtonHangsUp ==
    /\ newton.phase = "up" /\ Room
    /\ toLink' = Append(toLink, LD)
    /\ newton' = [newton EXCEPT !.phase = "gone"]
    /\ UNCHANGED <<pipeVars, linkVars, toNewton, faultVars>>

LineDamages ==
    /\ repeats + damages < MaxFaults
    /\ damages' = damages + 1
    /\ \/ /\ toLink # <<>>
          /\ toLink' = [toLink EXCEPT ![Len(toLink)].kind = "bad"]
          /\ UNCHANGED toNewton
       \/ /\ toNewton # <<>>
          /\ toNewton' = [toNewton EXCEPT ![Len(toNewton)].kind = "bad"]
          /\ UNCHANGED toLink
    /\ UNCHANGED <<pipeVars, linkVars, newton, repeats, skipped>>

-----------------------------------------------------------------------------
Reading == Read \/ ReceiveAcknowledgement \/ ReceiveData \/ ReadThrows
Connecting == ReadRequest \/ ReadConfirmation
Writing == Write \/ FlushOutput \/ Disconnect
NewtonSide == NewtonRequests \/ NewtonSends \/ NewtonReceives
                 \/ NewtonRepeats \/ NewtonHangsUp

MNPNext == Connecting \/ Reading \/ SetKeepAlive \/ Writing \/ NewtonSide \/ LineDamages

MNPSpec == MNPInit /\ [][MNPNext]_vars

(* The link's thread reads what it is woken for; the Newton takes what     *)
(* reaches it.                                                             *)
MNPFairSpec ==
    MNPSpec /\ WF_vars(Reading) /\ WF_vars(Connecting) /\ WF_vars(NewtonReceives)

-----------------------------------------------------------------------------
(* The data bytes of the frames of some kinds in a sequence of frames.     *)
DataOf(kinds, frames) ==
    FlattenSeq([i \in DOMAIN frames |->
                   IF frames[i].kind \in kinds THEN frames[i].data ELSE <<>>])

(* Type invariant, with what the code relies on between two calls of Read: *)
(* it waits for a frame only when every byte of the buffer was copied, and *)
(* the output buffer is never full between two calls.                      *)
MNPIInv ==
    /\ phase \in {"connecting", "answered", "open", "closed", "failed"}
    /\ inBuffer \in Seq(0 .. MaxBytes) /\ outBuffer \in Seq(1 .. MaxBytes)
    /\ {inIndex, outIndex} \subseteq 0 .. IndexSpan - 1
    /\ keepAlive \in BOOLEAN /\ skipped \in BOOLEAN
    /\ left \in 0 .. CommandSize /\ written \in 0 .. MaxBytes
    /\ delivered \in Seq(0 .. MaxBytes)
    /\ toLink \in Seq(Frame) /\ toNewton \in Seq(Frame)
    /\ left > 0 => inBuffer = <<>> /\ phase = "open"
    /\ Len(outBuffer) < Capacity

DeliveredInOrder ==
    repeats = 0 /\ ~skipped => \A i \in DOMAIN delivered : delivered[i] \in {0, i}

(* What the link reads is what the Newton sent, in order and once, and     *)
(* what the Newton gets is what the link wrote, as long as the Newton      *)
(* repeated nothing and the line damaged nothing that was passed over.     *)
(* The bytes of an LD frame come after, as data.                           *)
BothStreams ==
    /\ MNPIInv
    /\ repeats = 0 /\ damages = 0 =>
         IsPrefix(Bytes(0, newton.sent), delivered \o inBuffer \o DataOf({"LT", "LD"}, toLink))
    /\ DeliveredInOrder
    /\ damages = 0 =>
         newton.got \o DataOf({"LT"}, toNewton) \o outBuffer = Bytes(0, written)

(* What makes the two streams whole, step by step.  Towards the link, even *)
(* a damaged frame still counts until it is read, since its reader goes    *)
(* no further; a frame that the handshake reads carries nothing.           *)
HandshakeIsFirst ==
    /\ newton.phase = "down" => phase = "connecting" /\ toLink = <<>>
    /\ phase = "connecting" =>
         /\ newton.phase \in {"down", "asking"} /\ newton.sent = 0
         /\ toNewton = <<>>
         /\ newton.phase = "asking" => Len(toLink) = 1 /\ toLink[1].data = <<>>
    /\ phase \in {"connecting", "answered"} =>
         /\ delivered = <<>> /\ inBuffer = <<>> /\ left = 0
         /\ outBuffer = <<>> /\ written = 0
         /\ newton.expected = 1 /\ newton.got = <<>>
         /\ \A i \in DOMAIN toNewton : toNewton[i].kind \in {"LR", "bad"}
    /\ phase = "answered" =>
         IF newton.phase = "asking" THEN toLink = <<>> /\ newton.sent = 0
         ELSE toLink # <<>> /\ toLink[1].data = <<>>

InStream ==
    repeats = 0 /\ ~skipped /\ phase # "failed" =>
      LET stream == delivered \o inBuffer \o DataOf(Kinds, toLink)
      IN  \/ stream = Bytes(0, newton.sent)
          \/ newton.phase = "gone" /\ stream = Append(Bytes(0, newton.sent), 0)

(* Towards the Newton, the frames carry the numbers it expects of them:    *)
(* number[i] is what it will expect when it receives the i-th.             *)
Numbered(frames, first, number) ==
    /\ number \in [1 .. Len(frames) + 1 -> 0 .. IndexSpan - 1]
    /\ number[1] = first
    /\ \A i \in DOMAIN frames :
         IF frames[i].kind = "LT"
         THEN frames[i].index = number[i] /\ number[i + 1] = Next1(number[i])
         ELSE number[i + 1] = number[i]

OutStream ==
    damages = 0 =>
      /\ newton.got \o DataOf({"LT"}, toNewton) \o outBuffer = Bytes(0, written)
      /\ \E number \in [1 .. Len(toNewton) + 1 -> 0 .. IndexSpan - 1] :
           /\ Numbered(toNewton, newton.expected, number)
           /\ phase \in {"open", "closed"} => number[Len(toNewton) + 1] = outIndex

NewtonState ==
    [phase : {"down", "asking", "up", "gone"}, index : 0 .. IndexSpan - 1,
     sent : 0 .. MaxBytes, pending : Seq(Frame), expected : 0 .. IndexSpan - 1,
     got : Seq(0 .. MaxBytes)]

(* Frames without data, and what only a damaged line brings.               *)
LineIInv ==
    /\ MNPIInv
    /\ newton \in NewtonState /\ {repeats, damages} \subseteq Nat
    /\ \A i \in DOMAIN newton.pending : newton.pending[i].kind = "LT"
    /\ \A i \in DOMAIN toLink : toLink[i].kind \in {"LR", "LA"} => toLink[i].data = <<>>
    /\ damages = 0 => /\ phase # "failed" /\ ~skipped
                      /\ \A i \in DOMAIN toLink : toLink[i].kind # "bad"
                      /\ \A i \in DOMAIN toNewton : toNewton[i].kind # "bad"

StreamIInv ==
    LineIInv /\ HandshakeIsFirst /\ InStream /\ DeliveredInOrder /\ OutStream

(* A byte the Newton no longer keeps for a repetition has been received:   *)
(* an acknowledgement names a frame whose data reached the buffer.  Frames *)
(* repeated after the index wrapped change nothing to it.                  *)
AckMeansReceived ==
    ~skipped =>
        1 .. newton.sent \subseteq Range(DataOf({"LT"}, newton.pending))
                                     \cup Range(delivered \o inBuffer)

(* Why an acknowledgement can be believed.  Before the Newton has been     *)
(* answered nothing was sent; after that no request is under way, and      *)
(* neither is anything but data and acknowledgements until it hangs up.    *)
BeforeTheAnswer ==
    IF newton.phase \in {"down", "asking"}
    THEN /\ phase \in {"connecting", "answered", "failed"}
         /\ phase # "answered" => toNewton = <<>>
         /\ phase # "connecting" => toLink = <<>>
         /\ newton.index = 1 /\ newton.sent = 0 /\ newton.pending = <<>>
         /\ delivered = <<>> /\ inBuffer = <<>> /\ ~keepAlive
         /\ \A i \in DOMAIN toNewton : toNewton[i].kind \in {"LR", "bad"}
    ELSE /\ phase # "connecting"
         /\ newton.phase = "up" =>
              \A i \in DOMAIN toLink : /\ toLink[i].kind \in {"LT", "LA", "bad"}
                                       /\ toLink[i].kind = "LT" => toLink[i].data # <<>>

(* How many frames ago a number was given, when the next one is to be      *)
(* `next': 1 is the last.                                                  *)
Age(next, index) == 1 + ((next - 1 - index) % IndexSpan)

(* A number goes from the frames on their way to the link (those that have *)
(* bytes), through mInputPacketIndex, to the acknowledgements.             *)
Carrying == {i \in DOMAIN toLink : toLink[i].data # <<>>}
Heard == delivered # <<>> \/ inBuffer # <<>>
Acks == {i \in DOMAIN toNewton : toNewton[i].kind = "LA"}

(* Each is one of the last numbers, so that its age tells which it is.     *)
InWindow(index) == Age(newton.index, index) <= Len(newton.pending) + Credits

Window ==
    /\ keepAlive => Heard
    /\ newton.phase = "up" =>
         /\ Len(newton.pending) <= Credits
         /\ \A i \in DOMAIN newton.pending :
              /\ newton.pending[i].data # <<>>
              /\ Age(newton.index, newton.pending[i].index) = Len(newton.pending) - i + 1
         /\ \A i \in Carrying : InWindow(toLink[i].index)
         /\ Heard => InWindow(inIndex)
         /\ \A i \in Acks : InWindow(toNewton[i].index)

(* A frame that follows another is less than Credits frames older: more    *)
(* are never repeated.                                                     *)
Follows(first, second) ==
    Age(newton.index, second) < Age(newton.index, first) + Credits

InSequence ==
    newton.phase = "up" =>
      /\ \A i, j \in Acks : i < j => Follows(toNewton[i].index, toNewton[j].index)
      /\ Heard => /\ \A i \in Acks : Follows(toNewton[i].index, inIndex)
                  /\ \A j \in Carrying : Follows(inIndex, toLink[j].index)
      /\ \A i \in Acks, j \in Carrying : Follows(toNewton[i].index, toLink[j].index)
      /\ \A i, j \in Carrying : i < j => Follows(toLink[i].index, toLink[j].index)

(* Whoever learns of a number learns that the bytes up to it were received *)
(* (or, on the way to the link, will be when it is read).                  *)
Received == Range(delivered \o inBuffer)
Carried(last) == UNION {Range(toLink[i].data) : i \in 1 .. last}
Confirms(index, bytes) ==
    \A i \in DOMAIN newton.pending :
        Age(newton.index, index) <= Age(newton.index, newton.pending[i].index)
          => Range(newton.pending[i].data) \subseteq bytes

Confirmed ==
    newton.phase = "up" /\ ~skipped =>
      /\ \A i \in Acks : Confirms(toNewton[i].index, Received)
      /\ Heard => Confirms(inIndex, Received)
      /\ phase # "failed" =>
           /\ \A i \in Carrying : Confirms(toLink[i].index, Received \cup Carried(i))
           /\ \A i \in DOMAIN newton.pending :
                Range(newton.pending[i].data) \subseteq Received \cup Carried(Len(toLink))

AckIInv ==
    /\ LineIInv /\ HandshakeIsFirst /\ BeforeTheAnswer
    /\ Window /\ InSequence /\ Confirmed /\ AckMeansReceived

(* Every frame the Newton sent is acknowledged in the end, so it can go on *)
(* sending, unless the line failed or one side hung up.                    *)
NewtonGoesOn ==
    []<>(\/ newton.pending = <<>> \/ newton.phase = "gone"
         \/ phase \in {"closed", "failed"} \/ damages > 0)

(* What was flushed reaches the Newton.                                    *)
FlushedArrives ==
    \A count \in 1 .. MaxBytes :
        (written = count /\ outBuffer = <<>>)
           ~> (Len(newton.got) >= count \/ newton.phase = "gone" \/ damages > 0)

(* TDCLMNPPipe.h says of BytesAvailable: "true s'il y a des octets         *)
(* disponibles": then the link may Read without being blocked.             *)
BytesAreThere ==
    phase = "open" /\ left = 0 /\ BytesAvailable =>
        inBuffer # <<>> \/ DataOf({"LT", "LD"}, toLink) # <<>>
=============================================================================
