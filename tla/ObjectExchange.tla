--------------------------- MODULE ObjectExchange ---------------------------
(***************************************************************************)
(* Newton objects that go to the Newton and come back: an application      *)
(* changes its objects, sends the first of them in a dock command          *)
(* (TDCLDockCmdNSObject, TDCLDockCommand::SendCommand) over a buffered     *)
(* pipe, reads the command that answers (ReceiveCommand) and goes on with  *)
(* the objects it holds.  The Newton, which is external, returns what it   *)
(* received, as it does for kDRefTest, or leaves.                          *)
(*                                                                         *)
(* How objects become bytes and come back is given by two operators, the   *)
(* encoder and the decoder of module NSOF.                                 *)
(***************************************************************************)
EXTENDS NSObjects, StreamNumbers, BufferedStream

CONSTANTS
  Encoding(_, _, _), \* the bytes of an object: of a heap, a reference and junk
  Decoding(_),   \* what a decoder makes of bytes: records with ok and heap
  Starts,        \* the objects the application may begin with
  Names,         \* names of the slots it sets and removes
  Immediates,    \* immediates it stores
  Junk,          \* what memory may hold that was never assigned
  MaxEdits,      \* bound: changes of the objects
  MaxExchanges   \* bound: commands sent

\* The application begins with objects that the library has made.
ASSUME ObjectsAssumption ==
  /\ \A heap \in Starts : IsHeap(heap) /\ Findable(heap)
  /\ Names \subseteq Nat /\ Immediates \subseteq Int

VARIABLES
  heap,      \* the application's objects
  stage,     \* what it is doing, or how the session ended
  pieces,    \* SendCommand: what it has still to write, call by call
  size,      \* ReceiveCommand: theLength of the command
  edits, exchanges   \* history: for the bounds

exchangeVars == <<heap, stage, pieces, size, edits, exchanges>>
vars == <<exchangeVars, streamVars>>

Init ==
  /\ StreamInit
  /\ heap \in Starts /\ stage = "edit" /\ pieces = <<>> /\ size = 0
  /\ edits = 0 /\ exchanges = 0

----------------------------------------------------------------------------
(* The application changes its objects *)

OfType(type) == {o \in DOMAIN heap : heap[o].type = type}
Values == {Ref(r) : r \in Immediates} \cup {Ptr(o) : o \in DOMAIN heap}

Edit(o, object) ==
  /\ stage = "edit" /\ edits < MaxEdits
  /\ heap' = [heap EXCEPT ![o] = object]
  /\ edits' = edits + 1
  /\ UNCHANGED <<stage, pieces, size, exchanges, streamVars>>

SetSlot == \E o \in OfType("frame"), name \in Names, value \in Values :
  Edit(o, Set(heap, heap[o], Sym(name), value))

RemoveASlot == \E o \in OfType("frame"), name \in Names :
  HasSlot(heap, heap[o], name) /\ Edit(o, RemoveSlot(heap, heap[o], name))

AddItem == \E o \in OfType("array"), value \in Values : Edit(o, Add(heap[o], value))

ChangeClass == \E o \in OfType("array") \cup OfType("binary"), name \in Names :
  Edit(o, SetClass(heap, heap[o], Sym(name)))

----------------------------------------------------------------------------
(* SendCommand *)

Newt == <<110, 101, 119, 116>>
Dock == <<100, 111, 99, 107>>
RefTest == <<114, 116, 115, 116>>
Zeroes(n) == [i \in 1 .. n |-> 0]
Padding(n) == (4 - (n % 4)) % 4

\* What SendCommand writes, and no call for what there is nothing of.
Call(bytes) == IF bytes = <<>> THEN <<>> ELSE <<bytes>>
Pieces(body) ==
  <<Newt, Dock, RefTest, PutLong(Len(body))>>
    \o Call(body) \o Call(Zeroes(Padding(Len(body))))

\* Bound: the length of a command is a KUInt32.
IsBody(body) == body \in Seq(0 .. 255) /\ Len(body) + 20 < Word

\* The command is made of the object, and SendCommand is called: the header's
\* four longs, the body and the zeroes that complete it are written in turn.
SendCommand == \E junk \in Junk :
  LET body == Encoding(heap, Ptr(1), junk) IN
  /\ stage = "edit" /\ exchanges < MaxExchanges
  /\ IsBody(body)
  /\ stage' = "sending"
  /\ pieces' = Pieces(body)
  /\ exchanges' = exchanges + 1
  /\ UNCHANGED <<heap, size, edits, streamVars>>

SendPiece ==
  /\ stage = "sending" /\ pieces # <<>> /\ thrown = "none"
  /\ Write(Head(pieces))
  /\ pieces' = Tail(pieces)
  /\ UNCHANGED <<heap, stage, size, edits, exchanges>>

\* Mutant: the end of the command stays in the buffer.
SendEndsUnflushed ==
  /\ stage = "sending" /\ pieces = <<>> /\ thrown = "none" /\ at = "out"
  /\ stage' = "flushing"
  /\ UNCHANGED <<heap, pieces, size, edits, exchanges, streamVars>>

SendEnds ==
  /\ stage = "sending" /\ pieces = <<>> /\ thrown = "none"
  /\ FlushOutput
  /\ stage' = "flushing"
  /\ UNCHANGED <<heap, pieces, size, edits, exchanges>>

SendThrew ==
  /\ stage \in {"sending", "flushing"} /\ at = "out" /\ thrown # "none"
  /\ stage' = "thrown"
  /\ UNCHANGED <<heap, pieces, size, edits, exchanges, streamVars>>

SendCrashed ==
  /\ stage \in {"sending", "flushing"} /\ at = "crashed"
  /\ stage' = "crashed"
  /\ UNCHANGED <<heap, pieces, size, edits, exchanges, streamVars>>

----------------------------------------------------------------------------
(* ReceiveCommand *)

ReceiveCommand ==
  /\ stage = "flushing" /\ thrown = "none"
  /\ Read(16)
  /\ stage' = "header"
  /\ UNCHANGED <<heap, pieces, size, edits, exchanges>>

\* Mutant: the zeroes after the body are left unread.
Unpadded(length) == length

\* thePaddedLength.
Padded(length) == length + Padding(length)

\* theHeader is all zeroes before it is read.
HeaderRead ==
  LET theHeader == got \o Zeroes(16 - Len(got))
      word(i) == SubSeq(theHeader, 4 * i + 1, 4 * i + 4)
      theLength == Long(word(3))
      outcome == CASE thrown # "none" -> "thrown"
                   [] thrown = "none" /\ (\/ ioCount = 0 \/ word(0) = Zeroes(4)
                                          \/ word(1) = Zeroes(4)) -> "eof"
                   [] OTHER -> IF word(0) # Newt \/ word(1) # Dock THEN "badCommand"
                               ELSE IF theLength = 0 THEN "noData" ELSE "body"
  IN
  /\ stage = "header" /\ at = "out"
  /\ stage' = outcome
  /\ IF outcome = "body"
     THEN size' = theLength /\ Read(Padded(theLength))
     ELSE UNCHANGED <<size, streamVars>>
  /\ UNCHANGED <<heap, pieces, edits, exchanges>>

\* How many bytes were read is not looked at: after a short read the command
\* is made from memory that was never assigned ("garbage").
BodyRead ==
  /\ stage = "body" /\ at = "out"
  /\ stage' = CASE thrown # "none" -> "thrown"
                [] OTHER -> IF Len(got) < size THEN "garbage" ELSE "received"
  /\ UNCHANGED <<heap, pieces, size, edits, exchanges, streamVars>>

\* GetObject of the command: from here on the application has the new objects.
ReadObject ==
  LET d == Decoding(SubSeq(got, 1, size)) IN
  /\ stage = "received"
  /\ IF d.ok THEN stage' = "edit" /\ heap' = d.heap
     ELSE stage' = "undecodable" /\ UNCHANGED heap
  /\ size' = 0
  /\ UNCHANGED <<pieces, edits, exchanges, streamVars>>

----------------------------------------------------------------------------
(* The Newton, which is external *)

\* The length of a command whose header this is.
WholeLength(bytes) == 16 + Padded(Long(SubSeq(bytes, 13, 16)))
IsCommand(bytes) == Len(bytes) >= 16 /\ Len(bytes) = WholeLength(bytes)

WholeCommand == IsCommand(wire)

NewtonAnswers ==
  /\ open /\ WholeCommand
  /\ line' = line \o wire
  /\ NewtonTakes(Len(wire))
  /\ UNCHANGED <<exchangeVars, callVars, open, faultVars>>

\* The connection is lost in the middle of the answer.
NewtonBreaks == \E k \in CutSizes :
  /\ open /\ WholeCommand /\ k < Len(wire)
  /\ line' = line \o First(wire, k) /\ open' = FALSE
  /\ NewtonTakes(Len(wire))
  /\ UNCHANGED <<exchangeVars, callVars, faultVars>>

NewtonLeaves == NewtonCloses /\ UNCHANGED exchangeVars

----------------------------------------------------------------------------
\* The steps of the program once the application has called it.
Step ==
  \/ SendPiece \/ SendEnds \/ SendThrew \/ SendCrashed
  \/ ReceiveCommand \/ HeaderRead \/ BodyRead
  \/ PipeStep /\ UNCHANGED exchangeVars

Next ==
  \/ SetSlot \/ RemoveASlot \/ AddItem \/ ChangeClass \/ SendCommand \/ ReadObject
  \/ Step
  \/ NewtonAnswers \/ NewtonBreaks \/ NewtonLeaves

\* The program's thread runs, and a Newton that stays answers a command.
Spec ==
  Init /\ [][Next]_vars /\ WF_vars(Step) /\ WF_vars(NewtonAnswers)

----------------------------------------------------------------------------
\* After any changes and any decoding, each slot of each frame is where
\* TDCLNSFrame::GetKeyIndex looks for its key, and no key is there twice: the
\* flag mKeysAreSorted is true only of frames that are sorted, also when Set
\* sorts a frame FromNSOF left unsorted.
SlotsFound == Findable(heap)

\* An object that comes back is the object that was sent, shared objects and
\* cycles included: the encoder and the decoder number the objects alike
\* (AddObjectToList, kPrecedent), and the bytes reach the decoder whole.
EchoIsEqual ==
  [][stage = "received" => stage' = "edit" /\ Same(heap', heap)]_stage

\* When the application has its answer, nothing is left of the exchange: in
\* mBuffer, on its way to the Newton or from it.  A byte too many or too few
\* (the zeroes that complete a command) would be taken for the next command.
InStep ==
  stage \in {"received", "edit"} =>
    buffer = <<>> /\ wire = <<>> /\ line = <<>> /\ at = "out"

\* What ReceiveCommand hands to the decoder is what the encoder gave to
\* SendCommand, byte for byte: of a command that returns whole, no byte is lost
\* and none is taken for another, wherever the calls were cut or interrupted.
BodyReturns ==
  stage = "received" => \E junk \in Junk : SubSeq(got, 1, size) = Encoding(heap, Ptr(1), junk)

\* The codec alone returns the objects that are sent.
CodecReturns ==
  stage = "received" => \A junk \in Junk :
    LET d == Decoding(Encoding(heap, Ptr(1), junk)) IN d.ok /\ Same(d.heap, heap)

\* The codec gives objects for the bytes, and marks no frame as sorted (FromNSOF).
CodecMarks ==
  stage = "received" => \A junk \in Junk :
    LET h == Decoding(Encoding(heap, Ptr(1), junk)).heap
    IN IsHeap(h) /\ \A o \in DOMAIN h : h[o].type = "frame" => ~h[o].sorted

\* A command that was sent is answered, or its session ends: SendCommand
\* leaves nothing in mBuffer that the Newton waits for.
ExchangeEnds == stage = "sending" ~> stage \notin {"sending", "flushing", "header", "body"}

----------------------------------------------------------------------------
(* The inductive invariant *)

\* What of the command is still to be given to Write, and what is on its way.
Piece(i) == IF i <= Len(pieces) THEN pieces[i] ELSE <<>>
Unwritten ==
  Piece(1) \o (Piece(2) \o (Piece(3) \o (Piece(4) \o (Piece(5) \o Piece(6)))))
Outgoing == (wire \o Unsent) \o (rest \o Unwritten)

\* An answer, whole or cut, goes no further than its header says.
IsAnswer(bytes) == Len(bytes) >= 16 => Len(bytes) <= WholeLength(bytes)

AllBytes(sequences) == sequences \subseteq Seq(Nat)

\* Between two exchanges no byte is anywhere.
Quiet ==
  /\ at = "out"
  /\ buffer = <<>> /\ rest = <<>> /\ wire = <<>> /\ line = <<>>

\* While the command is sent it is in one piece, from the line to the call
\* that is still to be made, until the Newton has all of it and answers.
Sending ==
  /\ at \in {"out", "fill", "send"} /\ (at = "out" => rest = <<>>)
  /\ pieces \in Seq(Seq(Nat)) /\ Len(pieces) <= 6
  /\ AllBytes({wire, line, buffer, rest}) /\ Len(buffer) <= Capacity
  /\ at = "send" => left \in 0 .. Len(buffer)
  /\ stage = "sending" /\ at = "send" => ~flushing
  /\ stage = "flushing" =>
       /\ pieces = <<>> /\ rest = <<>>
       /\ IF at = "send" THEN flushing ELSE at = "out" /\ buffer = <<>>
  /\ \/ IsCommand(Outgoing) /\ line = <<>>
     \/ Outgoing = <<>> /\ IsAnswer(line)

\* The header is read from the front of the answer; a Read that ends before
\* all sixteen bytes came ends with the connection.
AwaitingHeader ==
  /\ at \in {"recv", "out"} /\ buffer = <<>> /\ rest = <<>>
  /\ AllBytes({wire, line, got}) /\ left \in Nat /\ Len(got) + left = 16
  /\ at = "out" /\ left > 0 => line = <<>> /\ ~open
  /\ \/ IsCommand(wire) /\ line = <<>> /\ got = <<>>
     \/ wire = <<>> /\ IsAnswer(got \o line)

\* There is no more on the line than the body takes.
AwaitingBody ==
  /\ at \in {"recv", "out"} /\ buffer = <<>> /\ rest = <<>> /\ wire = <<>>
  /\ AllBytes({line, got}) /\ left \in Nat /\ Len(line) <= left
  /\ at = "out" => line = <<>>

\* After an exception, or a crash, the session is over.
ExchangeIInv ==
  /\ stage \in {"edit", "received"} => Quiet
  /\ thrown = "none" /\ at # "crashed" =>
       /\ stage \in {"sending", "flushing"} => Sending
       /\ stage = "header" => AwaitingHeader
       /\ stage = "body" => AwaitingBody

\* The command that carries a body, with the zeroes that complete it.
Header(n) == Newt \o (Dock \o (RefTest \o PutLong(n)))
Completed(body) == body \o Zeroes(Padding(Len(body)))
Command(body) == Header(Len(body)) \o Completed(body)

\* Where the bytes of a body are until the application has them back.  After a
\* header that was cut nothing more comes.
Carried(body) ==
  /\ stage = "received" => size = Len(body) /\ IsPrefix(body, got)
  /\ thrown = "none" /\ at # "crashed" =>
       /\ stage \in {"sending", "flushing"} =>
            Outgoing = Command(body) \/ (Outgoing = <<>> /\ IsPrefix(line, Command(body)))
       /\ stage = "header" =>
            wire = Command(body) \/ (wire = <<>> /\ IsPrefix(got \o line, Command(body)))
       /\ stage = "body" =>
            \/ size = Len(body) /\ IsPrefix(got \o line, Completed(body))
            \/ size > 0 /\ got = <<>> /\ line = <<>>

CarriedIInv ==
  stage \in {"sending", "flushing", "header", "body", "received"} =>
    \E junk \in Junk : LET body == Encoding(heap, Ptr(1), junk) IN
      IsBody(body) /\ Carried(body)

\* The application has objects, and finds their slots.
HeapIInv == IsHeap(heap) /\ Findable(heap)
=============================================================================
