----------------------------- MODULE Paperback -----------------------------
(***************************************************************************)
(* UDCLPaperback::BuildBook (DCL/Package/UDCLPaperback.cpp): a text file   *)
(* becomes a book: its bytes are read and converted to UTF-16, the ends of *)
(* lines become CR, the lines that begin with a prefix become the table of *)
(* contents (and may be taken out of the text), and the book tells where   *)
(* its chapters and its chunks begin.  The text is one block of memory     *)
(* that the loops change in place, and beyond its size there is whatever   *)
(* the heap holds.  The loops are modelled turn by turn.                   *)
(*                                                                         *)
(* The file was written by a program that uses UUTF16Conv as its header    *)
(* says: it converts piece by piece into a buffer, and what a call did not *)
(* read it passes again.  Or it comes from elsewhere.                      *)
(***************************************************************************)
EXTENDS UTF16Conv

CONSTANTS
  Texts,        \* what is written: records [lines, ending, option]; the option
                \* is for the characters the encoding lacks
  Room,         \* bytes in the buffer of the program that writes
  Pieces,       \* words it passes in a call
  Foreign,      \* files from elsewhere: records [file, encoding, lines, whole]
  Prefix,       \* inTOCPrefix
  Garbage,      \* words the heap may hold
  Chunk,        \* bytes read at once (65536)
  BookChunk     \* characters in a chunk of the book (2000)

CR == 13
LF == 10

ASSUME PaperbackAssumption ==
  /\ Chunk \in Nat \ {0} /\ BookChunk \in Nat \ {0}
  /\ Prefix # <<>> /\ \A i \in DOMAIN Prefix : Prefix[i] \in 1..127 \ {CR, LF}

Encodings == {"kISO88591", "kISO88592", "kMacRoman", "kUTF8", "kUTF16"}
TOCs == {"none", "kept", "deleted"}   \* inTOCPrefix = nil, or inDeleteTOCLines

VARIABLES
  job,        \* what is written and how, and the arguments of BuildBook
  at,         \* words written
  file,       \* the bytes of inTextStream
  stage,      \* where BuildBook is
  buffer,     \* theBuffer: bytes read
  text,       \* theText, with the words of the heap behind it
  size,       \* theTextSize
  index,      \* indexString
  entries,    \* theTOCEntries
  indexes,    \* theTOCIndexes
  book        \* theResult: <<>> (NIL) or one frame

vars == <<job, at, file, stage, buffer, text, size, index, entries, indexes, book>>
tocVars == <<entries, indexes>>

----------------------------------------------------------------------------
(* The writer *)

Words(lines, ending) == FlattenSeq([i \in DOMAIN lines |-> lines[i] \o ending])

Written == Words(job.lines, job.ending)

UTF16Bytes(words) ==
  FlattenSeq([i \in DOMAIN words |-> <<words[i] \div 256, words[i] % 256>>])

Jobs ==
  {[writer |-> TRUE, whole |-> TRUE, lines |-> t.lines, ending |-> t.ending,
    option |-> t.option, encoding |-> e, toc |-> "none", garbage |-> 0] :
     t \in Texts, e \in Encodings}

ForeignJob(f) ==
  [writer |-> FALSE, whole |-> f.whole, lines |-> f.lines, ending |-> <<LF>>,
   encoding |-> f.encoding, option |-> "", toc |-> "none", garbage |-> 0]

Init ==
  /\ \/ job \in Jobs /\ file = <<>> /\ at = 0
     \/ \E f \in Foreign : job = ForeignJob(f) /\ file = f.file /\ at = Len(Written)
  /\ stage = "write" /\ buffer = <<>> /\ text = [i \in {} |-> 0] /\ size = 0
  /\ index = 0 /\ entries = <<>> /\ indexes = <<>> /\ book = <<>>

To == [kISO88591 |-> "ToISO88591", kISO88592 |-> "ToISO88592",
       kMacRoman |-> "ToMacRoman", kUTF8 |-> "ToUTF8"]

\* One call.  A writer that may not replace what the encoding lacks gives up.
Write ==
  /\ stage = "write" /\ at < Len(Written)
  /\ \E n \in Pieces :
       LET rest == SubSeq(Written, at + 1, Len(Written))
           piece == IF Len(rest) < n THEN rest ELSE SubSeq(rest, 1, n)
           call == IF job.encoding = "kUTF16"
                   THEN [read |-> Len(piece), out |-> UTF16Bytes(piece),
                         result |-> "kInputExhausted"]
                   ELSE Conversion(To[job.encoding], piece, Room, job.option)
       IN /\ at' = at + call.read
          /\ file' = file \o call.out
          /\ stage' = IF call.result = "kUnrepCharEncountered" THEN "done" ELSE stage
  /\ UNCHANGED <<job, buffer, text, size, index, tocVars, book>>

\* BuildBook is called.
Call ==
  /\ stage = "write" /\ at = Len(Written) /\ stage' = "read"
  /\ \E c \in TOCs, g \in Garbage : job' = [job EXCEPT !.toc = c, !.garbage = g]
  /\ UNCHANGED <<at, file, buffer, text, size, index, tocVars, book>>

----------------------------------------------------------------------------
(* ExtractString *)

\* inTextStream->Read: at the end of the file it gives less than was asked for.
ReadChunk ==
  LET rest == Len(file) - Len(buffer)
      read == IF rest < Chunk THEN rest ELSE Chunk
  IN /\ stage = "read"
     /\ buffer' = buffer \o SubSeq(file, Len(buffer) + 1, Len(buffer) + read)
     /\ stage' = IF read = Chunk THEN "read" ELSE "convert"
     /\ UNCHANGED <<job, at, file, text, size, index, tocVars, book>>

FromEncoding(encoding, bytes) ==
  CASE encoding = "kUTF8" -> Conversion("FromUTF8", bytes, Len(bytes), "")
    [] encoding = "kUTF16" ->
         [out |-> [i \in 1 .. Len(bytes) \div 2 |-> 256 * bytes[2 * i - 1] + bytes[2 * i]],
          result |-> "kInputExhausted"]
    [] encoding = "kISO88591" -> [out |-> bytes, result |-> "kInputExhausted"]
    [] encoding = "kISO88592" ->
         [out |-> [i \in DOMAIN bytes |-> FromISO88592(bytes[i])], result |-> "kInputExhausted"]
    [] encoding = "kMacRoman" ->
         [out |-> [i \in DOMAIN bytes |-> FromMacRoman(bytes[i])], result |-> "kInputExhausted"]

\* With kUTF16 the size stays a number of bytes.  BuildBook catches the error.
Convert ==
  LET made == FromEncoding(job.encoding, buffer)
      count == IF job.encoding = "kUTF16" THEN Len(buffer) ELSE Len(made.out)
  IN /\ stage = "convert"
     /\ IF made.result = "kInputExhausted"
        THEN /\ text' = [i \in 0 .. count |-> IF i < Len(made.out) THEN made.out[i + 1]
                                              ELSE job.garbage]
             /\ size' = count /\ stage' = "end lines"
        ELSE /\ stage' = "done" /\ UNCHANGED <<text, size>>
     /\ index' = 0
     /\ UNCHANGED <<job, at, file, buffer, tocVars, book>>

----------------------------------------------------------------------------
(* ConvertEndLines and BuildTOC *)

Moved(to, from, count) ==   \* memmove
  [i \in DOMAIN text |-> IF i \in to .. to + count - 1 THEN text[i + from - to] ELSE text[i]]

\* The word after a CR is looked at even when the CR is the last of the text.
ConvertEndLine ==
  /\ stage = "end lines" /\ index < size
  /\ \/ /\ text[index] = LF
        /\ text' = [text EXCEPT ![index] = CR] /\ size' = size
     \/ /\ text[index] = CR /\ text[index + 1] = LF
        /\ text' = Moved(index + 1, index + 2, size - index - 1) /\ size' = size - 1
     \/ /\ text[index] # LF /\ ~(text[index] = CR /\ text[index + 1] = LF)
        /\ UNCHANGED <<text, size>>
  /\ index' = index + 1
  /\ UNCHANGED <<job, at, file, stage, buffer, tocVars, book>>

EndLinesConverted ==
  /\ stage = "end lines" /\ index >= size
  /\ stage' = IF job.toc = "none" THEN "book" ELSE "toc"
  /\ index' = 0
  /\ UNCHANGED <<job, at, file, buffer, text, size, tocVars, book>>

\* The part of the prefix that the text is long enough to show.
Shown == IF size - index < Len(Prefix) THEN size - index ELSE Len(Prefix)
Matches == \A i \in 1 .. Shown : text[index + i - 1] = Prefix[i]

\* 0, as it was initialised, when the text ends with the prefix.
TOCEntryStart == IF Matches /\ index + Shown < size THEN index + Shown ELSE 0

LineEnd == LET ends == {i \in index .. size - 1 : text[i] = CR}
           IN IF ends = {} THEN size ELSE Min(ends)

IsEntry == Matches /\ LineEnd # TOCEntryStart
Slice(first, end) == [i \in 1 .. end - first |-> text[first + i - 1]]

\* Mutant: after a deletion the loop goes on where the line ended.
DeleteLineGoesOn ==
  /\ text' = IF size > LineEnd THEN Moved(index, LineEnd + 1, size - LineEnd) ELSE text
  /\ size' = size - (LineEnd - index)
  /\ index' = LineEnd + 1

\* The end of the line goes with the line, but only the line is taken off the size.
DeleteLine ==
  /\ text' = IF size > LineEnd THEN Moved(index, LineEnd + 1, size - LineEnd) ELSE text
  /\ size' = size - (LineEnd - index)
  /\ index' = index

KeepLine == index' = LineEnd + 1 /\ UNCHANGED <<text, size>>

AddEntry ==
  /\ entries' = Append(entries, Slice(TOCEntryStart, LineEnd))
  /\ indexes' = Append(indexes, index)

BuildTOCLine ==
  /\ stage = "toc" /\ index < size
  /\ \/ IsEntry /\ job.toc = "deleted" /\ AddEntry /\ DeleteLine
     \/ IsEntry /\ job.toc = "kept" /\ AddEntry /\ KeepLine
     \/ ~IsEntry /\ KeepLine /\ UNCHANGED tocVars
  /\ UNCHANGED <<job, at, file, stage, buffer, book>>

TOCBuilt ==
  /\ stage = "toc" /\ index >= size /\ stage' = "book"
  /\ UNCHANGED <<job, at, file, buffer, text, size, index, tocVars, book>>

----------------------------------------------------------------------------
(* BuildBook *)

\* A string up to its terminator.
CString(words) ==
  LET zeroes == {i \in DOMAIN words : words[i] = 0}
  IN IF zeroes = {} THEN words ELSE SubSeq(words, 1, Min(zeroes) - 1)

\* Where the chunks end.
Chunks(length) ==
  [i \in 1 .. (IF length = 0 THEN 0 ELSE (length - 1) \div BookChunk) |-> i * BookChunk]
     \o <<length>>

BuildBook ==
  LET theString == Slice(0, size)
      theLength == Len(CString(theString))
      lines == FlattenSeq([i \in DOMAIN entries |-> CString(entries[i]) \o <<CR>>])
  IN /\ stage = "book" /\ stage' = "done"
     /\ book' = <<[text |-> theString, cs |-> Chunks(theLength), tl |-> theLength - 1,
                   places |-> indexes, toc |-> lines]>>
     /\ UNCHANGED <<job, at, file, buffer, text, size, index, tocVars>>

Next == \/ Write \/ Call \/ ReadChunk \/ Convert \/ ConvertEndLine
        \/ EndLinesConverted \/ BuildTOCLine \/ TOCBuilt \/ BuildBook

Spec == Init /\ [][Next]_vars /\ WF_vars(Next)

----------------------------------------------------------------------------
(* Properties *)

\* The words an encoding has.  UUTF16Conv cannot find fl in its table for
\* MacRoman, where fi and fl are in the wrong order.
LatinTwo == (0..160) \cup Range(kFromISO88592Table)
MacRoman == (0..127) \cup (Range(kFromMacRomanTable) \ {fl})

Representable(encoding, word) ==
  CASE encoding = "kISO88591" -> word < 256
    [] encoding = "kISO88592" -> word \in LatinTwo
    [] encoding = "kMacRoman" -> word \in MacRoman
    [] OTHER -> TRUE

ExpectedLines ==
  [i \in DOMAIN job.lines |-> [k \in DOMAIN job.lines[i] |->
     IF ~job.writer \/ Representable(job.encoding, job.lines[i][k])
     THEN job.lines[i][k] ELSE kSubstituteChar]]

Chapter(line) == job.toc # "none" /\ IsStrictPrefix(Prefix, line)
Kept(lines) == IF job.toc = "deleted" THEN SelectSeq(lines, LAMBDA l : ~Chapter(l)) ELSE lines

ExpectedText == Words(Kept(ExpectedLines), <<CR>>)
Chapters(f(_)) ==
  FlattenSeq([i \in DOMAIN ExpectedLines |->
                IF Chapter(ExpectedLines[i]) THEN f(i) ELSE <<>>])
ExpectedTOC ==
  Chapters(LAMBDA i : SubSeq(ExpectedLines[i], Len(Prefix) + 1, Len(ExpectedLines[i]))
                        \o <<CR>>)
ExpectedPlaces ==
  Chapters(LAMBDA i : <<Len(Words(Kept(SubSeq(ExpectedLines, 1, i - 1)), <<CR>>))>>)

\* Excluded: pairs of words that the writer converted, and a text that ends
\* with CR in front of a word LF on the heap.
Sound ==
  /\ job.writer => \A i \in DOMAIN Written : ~Surrogate(Written[i])
  /\ ~(job.ending = <<CR>> /\ job.garbage = LF)

TextKept(b) ==
  /\ IsPrefix(ExpectedText, CString(b.text))
  /\ Len(b.text) <= Len(ExpectedText) + Len(b.places)
                      + (IF job.encoding = "kUTF16" THEN Len(Written) ELSE 0)
  /\ b.tl + 1 = Last(b.cs)

ContentsFound(b) ==
  /\ IsPrefix(ExpectedTOC, b.toc)
  /\ IsPrefix(ExpectedPlaces, b.places)

(* The text of the book is the text that was written, without the lines    *)
(* that became chapters if they are to go, and each of these is in the     *)
(* table of contents, in order, with the place in the text where it was;   *)
(* a file that ends within a character makes no book.  What the code adds  *)
(* behind is at most a word for every line taken out, and the half of a    *)
(* UTF-16 text that ExtractString took for text.  For a text whose last    *)
(* line has an end, as UDCLPaperback.h promises (BuildBook, after          *)
(* ExtractString, ConvertEndLines and BuildTOC worked on one buffer).      *)
BookIsTheText ==
  stage = "done" /\ book # <<>> =>
    /\ job.whole
    /\ Sound => TextKept(book[1]) /\ ContentsFound(book[1])

(* BuildBook comes to an end: every piece the writer passes again is taken *)
(* in the end, and the loop over the lines, which goes back after it took  *)
(* one out, still gets through the text it makes shorter.                  *)
BookEnds == <>(stage = "done")
=============================================================================
