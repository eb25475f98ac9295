--------------------------- MODULE BufferedStream ---------------------------
(***************************************************************************)
(* The bytes of a pipe: TDCLBufferedPipe, which collects what is written,  *)
(* over TDCLBSDSocket::TBSDSocketPipe, which sends and receives with the   *)
(* system's send() and recv() until everything asked for was moved.        *)
(*                                                                         *)
(* One thread uses the pipe.  send() and recv() may move less than they    *)
(* were asked for, be interrupted (EINTR, or EAGAIN when the time set with *)
(* SO_RCVTIMEO is over), return after the pipe's timeout, or fail because  *)
(* the connection is gone.                                                 *)
(***************************************************************************)
EXTENDS Integers, Sequences

CONSTANTS
  Capacity,      \* inBufferCapacity: the size of mBuffer
  Word,          \* KUInt32 counts modulo Word
  CutSizes,      \* bound: how much send() and recv() may move when it is less than
                 \* they could
  MaxFaults      \* bound: calls of the system that are cut, interrupted or late

ASSUME StreamAssumption ==
  /\ Capacity \in Nat \ {0}
  /\ Word \in Nat /\ Capacity < Word
  /\ CutSizes \subseteq Nat /\ MaxFaults \in Nat

VARIABLES
  at,        \* where the thread is: "out" of the pipe, in "fill", "send" or "recv"
  rest,      \* of the bytes given to Write, those not yet in mBuffer
  buffer,    \* mBuffer up to mBufferSize
  flushing,  \* the socket's Write was called by FlushOutput
  left,      \* toWrite, toRead: what the socket has still to move
  ioCount,   \* *ioCount of the socket's Read or Write
  thrown,    \* the exception the last call ended with, or "none"
  got,       \* what Read has put in its caller's memory
  wire,      \* bytes sent that the Newton has not taken
  line,      \* bytes of the Newton that were not received
  open,      \* the connection stands; the Newton closes it
  given,     \* history: bytes put in mBuffer that the Newton has not taken
  moved,     \* history: bytes the system has moved in the last call
  faults,    \* history: calls that were cut, interrupted or late, for the bound
  disturbed  \* history: one was interrupted or late

callVars == <<at, rest, buffer, flushing, left, ioCount, thrown, got, moved>>
netVars == <<wire, line, open, given>>
faultVars == <<faults, disturbed>>
streamVars == <<callVars, netVars, faultVars>>

\* ioCount -= n, of two KUInt32.
Minus(count, n) == IF n <= count THEN count - n ELSE count - n + Word

Least(a, b) == IF a < b THEN a ELSE b
First(s, n) == SubSeq(s, 1, n)
After(s, n) == SubSeq(s, n + 1, Len(s))

StreamInit ==
  /\ at = "out" /\ rest = <<>> /\ buffer = <<>> /\ flushing = FALSE
  /\ left = 0 /\ ioCount = 0 /\ thrown = "none" /\ got = <<>> /\ moved = 0
  /\ wire = <<>> /\ line = <<>> /\ open = TRUE /\ given = <<>>
  /\ faults = 0 /\ disturbed = FALSE

----------------------------------------------------------------------------
(* The calls *)

\* TDCLBufferedPipe::Write is called with bytes.
Write(bytes) ==
  /\ at = "out"
  /\ at' = "fill" /\ rest' = bytes /\ thrown' = "none"
  /\ UNCHANGED <<buffer, flushing, left, ioCount, got, moved, netVars, faultVars>>

\* The socket's Write is entered with the whole of the buffer.
StartSend(bytes, flush) ==
  /\ at' = "send" /\ flushing' = flush
  /\ left' = Len(bytes) /\ ioCount' = Len(bytes) /\ moved' = 0

\* One turn of the loop of TDCLBufferedPipe::Write: a piece goes to the
\* buffer, and a full buffer is handed to the socket.
Fill ==
  LET piece == First(rest, Least(Len(rest), Capacity - Len(buffer))) IN
  /\ at = "fill"
  /\ buffer' = buffer \o piece
  /\ rest' = After(rest, Len(piece))
  /\ given' = given \o piece
  /\ IF Len(buffer) + Len(piece) = Capacity
     THEN StartSend(buffer', FALSE)
     ELSE at' = "out" /\ UNCHANGED <<flushing, left, ioCount, moved>>
  /\ UNCHANGED <<thrown, got, wire, line, open, faultVars>>

\* TDCLBufferedPipe::FlushOutput is called.
FlushOutput ==
  /\ at = "out"
  /\ thrown' = "none"
  /\ IF buffer = <<>>
     THEN UNCHANGED <<at, flushing, left, ioCount, moved>>
     ELSE StartSend(buffer, TRUE)
  /\ UNCHANGED <<rest, buffer, got, netVars, faultVars>>

\* TDCLBufferedPipe::Read, which is the socket's Read, is called for n bytes.
Read(n) ==
  /\ at = "out"
  /\ at' = "recv" /\ left' = n /\ ioCount' = n /\ moved' = 0
  /\ got' = <<>> /\ thrown' = "none"
  /\ UNCHANGED <<rest, buffer, flushing, netVars, faultVars>>

----------------------------------------------------------------------------
(* The loop of TBSDSocketPipe::Write *)

\* What the socket has still to send of the buffer.
Unsent == IF at = "send" THEN After(buffer, Len(buffer) - left) ELSE buffer

\* The system moves k of n bytes: all of them, or fewer.
Moves(k, n) ==
  /\ k < n => k \in CutSizes /\ faults < MaxFaults
  /\ faults' = IF k < n THEN faults + 1 ELSE faults
  /\ UNCHANGED disturbed

Disturbance == /\ faults < MaxFaults /\ faults' = faults + 1
               /\ disturbed' = TRUE

\* send() takes the next k bytes.
Send(k) ==
  /\ at = "send" /\ left > 0
  /\ k \in 1 .. left
  /\ Moves(k, left)
  /\ wire' = wire \o First(Unsent, k)
  /\ left' = left - k /\ moved' = moved + k
  /\ UNCHANGED <<at, rest, buffer, flushing, ioCount, thrown, got,
                 line, open, given>>

\* Everything was sent: the buffer is empty, and Write goes on with the rest.
SendDone ==
  /\ at = "send" /\ left = 0
  /\ buffer' = <<>>
  /\ at' = IF flushing \/ rest = <<>> THEN "out" ELSE "fill"
  /\ UNCHANGED <<rest, flushing, left, ioCount, thrown, got, moved, netVars, faultVars>>

\* Mutant: the bytes that were sent are not taken from the buffer.
SendThrowsKeeps(exception) ==
  /\ at' = "out" /\ ioCount' = Minus(ioCount, left)
  /\ rest' = <<>> /\ thrown' = exception
  /\ UNCHANGED <<buffer, flushing, left, got, line, open, given>>

\* An error of send(): the count is put right on the way out of the socket,
\* and the buffer keeps what was not sent.  A count that has wrapped around
\* makes memmove() run out of the process's memory.
SendThrows(exception) ==
  LET count == Minus(ioCount, left) IN
  /\ ioCount' = count
  /\ rest' = <<>>
  /\ IF count <= Len(buffer)
     THEN at' = "out" /\ buffer' = After(buffer, count) /\ thrown' = exception
     ELSE at' = "crashed" /\ UNCHANGED <<buffer, thrown>>
  /\ UNCHANGED <<flushing, left, got, line, open, given>>

SendFails ==
  /\ at = "send" /\ left > 0 /\ ~open
  /\ SendThrows("broken")
  /\ UNCHANGED <<wire, moved, faultVars>>

\* EINTR, EAGAIN: the count is reduced, and the loop goes on.
SendAgain ==
  /\ at = "send" /\ left > 0 /\ Disturbance
  /\ ioCount' = Minus(ioCount, left)
  /\ UNCHANGED <<at, rest, buffer, flushing, left, thrown, got, moved, netVars>>

\* send() takes bytes and returns after the timeout.
SendLate(k) ==
  /\ at = "send" /\ left > 0 /\ Disturbance
  /\ k \in CutSizes \cup {left} /\ k \in 1 .. left
  /\ wire' = wire \o First(Unsent, k) /\ moved' = moved + k
  /\ SendThrows("timeout")

----------------------------------------------------------------------------
(* The loop of TBSDSocketPipe::Read *)

\* recv() returns the next k bytes of the line.
Recv(k) ==
  /\ at = "recv" /\ left > 0
  /\ k \in 1 .. Least(left, Len(line))
  /\ Moves(k, Least(left, Len(line)))
  /\ got' = got \o First(line, k)
  /\ line' = After(line, k)
  /\ left' = left - k /\ moved' = moved + k
  /\ UNCHANGED <<at, rest, buffer, flushing, ioCount, thrown,
                 wire, open, given>>

RecvDone ==
  /\ at = "recv" /\ left = 0
  /\ at' = "out"
  /\ UNCHANGED <<rest, buffer, flushing, left, ioCount, thrown, got, moved,
                 netVars, faultVars>>

\* recv() returns 0: the end of the stream is no error.
RecvEnd ==
  /\ at = "recv" /\ left > 0 /\ line = <<>> /\ ~open
  /\ at' = "out" /\ ioCount' = Minus(ioCount, left)
  /\ UNCHANGED <<rest, buffer, flushing, left, thrown, got, moved,
                 netVars, faultVars>>

\* recv() fails, as the connection was reset.
RecvFails ==
  /\ at = "recv" /\ left > 0 /\ line = <<>> /\ ~open
  /\ at' = "out" /\ ioCount' = Minus(ioCount, left) /\ thrown' = "broken"
  /\ UNCHANGED <<rest, buffer, flushing, left, got, moved, netVars, faultVars>>

\* EINTR, EAGAIN: the count is reduced, and the loop goes on.
RecvAgain ==
  /\ at = "recv" /\ left > 0 /\ Disturbance
  /\ ioCount' = Minus(ioCount, left)
  /\ UNCHANGED <<at, rest, buffer, flushing, left, thrown, got, moved, netVars>>

\* recv() returns bytes after the timeout: they are not counted, and gone.
RecvLate(k) ==
  /\ at = "recv" /\ left > 0 /\ Disturbance
  /\ k \in CutSizes \cup {Least(left, Len(line))} /\ k \in 1 .. Least(left, Len(line))
  /\ line' = After(line, k) /\ moved' = moved + k
  /\ at' = "out" /\ ioCount' = Minus(ioCount, left) /\ thrown' = "timeout"
  /\ UNCHANGED <<rest, buffer, flushing, left, got, wire, open, given>>

----------------------------------------------------------------------------
(* The Newton, which is external: it takes what was sent, answers and leaves *)

NewtonTakes(n) ==
  /\ n \in 1 .. Len(wire)
  /\ wire' = After(wire, n) /\ given' = After(given, n)

NewtonCloses ==
  /\ open /\ open' = FALSE
  /\ UNCHANGED <<callVars, wire, line, given, faultVars>>

PipeStep ==
  \/ Fill \/ SendDone \/ SendFails \/ SendAgain
  \/ RecvDone \/ RecvEnd \/ RecvFails \/ RecvAgain
  \/ \E k \in 1 .. Len(buffer) : Send(k) \/ SendLate(k)
  \/ \E k \in 1 .. Len(line) : Recv(k) \/ RecvLate(k)

StreamNext ==
  \/ PipeStep \/ FlushOutput \/ NewtonCloses
  \/ \E bytes \in Seq(Nat) \ {<<>>} : Write(bytes)
  \/ \E n \in 1 .. Word - 1 : Read(n)
  \/ \E n \in 1 .. Len(wire) :
       NewtonTakes(n) /\ UNCHANGED <<callVars, line, open, faultVars>>
  \/ \E bytes \in Seq(Nat) :
       line' = line \o bytes /\ UNCHANGED <<callVars, wire, open, given, faultVars>>

StreamSpec == StreamInit /\ [][StreamNext]_streamVars

----------------------------------------------------------------------------
\* What was sent and what is to be sent are, together, what was put in the
\* buffer: no byte is lost, sent twice or sent out of order, whatever send()
\* takes at a time and wherever the connection breaks
\* (TDCLBufferedPipe::Write and FlushOutput).  Calls that are interrupted or
\* come back late are left out: see CountsTrue.
BytesInOrder ==
  ~disturbed => wire \o Unsent = given

\* TDCLStream.h:61-64 and 77-80 say that the count is the number of bytes read
\* or written on the way out, also when an exception is thrown.
CountsTrue == at \in {"out", "fill"} => ioCount = moved

----------------------------------------------------------------------------
(* The inductive invariant *)

StreamTypeOK ==
  /\ at \in {"out", "fill", "send", "recv", "crashed"}
  /\ rest \in Seq(Nat) /\ buffer \in Seq(Nat) /\ got \in Seq(Nat)
  /\ wire \in Seq(Nat) /\ line \in Seq(Nat) /\ given \in Seq(Nat)
  /\ left \in Nat /\ ioCount \in Nat /\ moved \in Nat
  /\ disturbed \in BOOLEAN

\* TDCLBufferedPipe never writes behind the end of mBuffer.
BufferFits == Len(buffer) <= Capacity

\* The socket has no more to send than the buffer holds, and no more to read
\* than a KUInt32 counts.
LeftFits ==
  /\ at = "send" => left <= Len(buffer)
  /\ at = "recv" => left < Word
  /\ ioCount < Word

\* As long as no call is interrupted or late, the count is the whole of what
\* is asked for while the socket moves bytes, and what was moved afterwards.
CountsInStep ==
  ~disturbed =>
    /\ at = "send" => ioCount = Len(buffer)
    /\ at \in {"send", "recv"} => ioCount = moved + left
    /\ at # "crashed"
    /\ CountsTrue

StreamIInv ==
  StreamTypeOK /\ BufferFits /\ LeftFits /\ CountsInStep /\ BytesInOrder
=============================================================================
