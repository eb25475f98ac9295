----------------------------- MODULE UTF16Conv -----------------------------
(***************************************************************************)
(* UUTF16Conv (K/Unicode/UUTF16Conv.cpp): what it makes of UTF-16 for a    *)
(* buffer that may be too small, and of encoded bytes.  A word of UTF-16   *)
(* is the number that UByteSex_FromBigEndian gives; where the code forgets *)
(* to call it, the number is Unswapped.  ASCII and UCS-4 are left out.     *)
(***************************************************************************)
EXTENDS Integers, SequencesExt

CONSTANT LittleEndian   \* TARGET_RT_LITTLE_ENDIAN

ASSUME EndianAssumption == LittleEndian \in BOOLEAN

kFromISO88592Table ==
   <<160, 260, 728, 321, 164, 317, 346, 167, 168, 352, 350, 356, 377, 173,
     381, 379, 176, 261, 731, 322, 180, 318, 347, 711, 184, 353, 351, 357,
     378, 733, 382, 380, 340, 193, 194, 258, 196, 313, 262, 199, 268, 201,
     280, 203, 282, 205, 206, 270, 272, 323, 327, 211, 212, 336, 214, 215,
     344, 366, 218, 368, 220, 221, 354, 223, 341, 225, 226, 259, 228, 314,
     263, 231, 269, 233, 281, 235, 283, 237, 238, 271, 273, 324, 328, 243,
     244, 337, 246, 247, 345, 367, 250, 369, 252, 253, 355, 729>>

kFromMacRomanTable ==
   <<196, 197, 199, 201, 209, 214, 220, 225, 224, 226, 228, 227, 229, 231,
     233, 232, 234, 235, 237, 236, 238, 239, 241, 243, 242, 244, 246, 245,
     250, 249, 251, 252, 8224, 176, 162, 163, 167, 8226, 182, 223, 174, 169,
     8482, 180, 168, 8800, 198, 216, 8734, 177, 8804, 8805, 165, 181, 8706,
     8721, 8719, 960, 8747, 170, 186, 937, 230, 248, 191, 161, 172, 8730,
     402, 8776, 8710, 171, 187, 8230, 160, 192, 195, 213, 338, 339, 8211,
     8212, 8220, 8221, 8216, 8217, 247, 9674, 255, 376, 8260, 8364, 8249,
     8250, 64257, 64258, 8225, 183, 8218, 8222, 8240, 194, 202, 193, 203,
     200, 205, 206, 207, 204, 211, 212, 63743, 210, 218, 219, 217, 305, 710,
     732, 175, 728, 729, 730, 184, 733, 731, 711>>

fi == 64257   \* the ligatures fi
fl == 64258   \* and fl

(* The tables of the other way have the same pairs, in descending order of *)
(* the words, but for the first two of MacRoman, and <<0, 0>> at the end.  *)
Descending(pairs) == SortSeq(pairs, LAMBDA p, q : p[2] > q[2]) \o <<<<0, 0>>>>

kToISO88592Table ==
  LET pairs == [i \in DOMAIN kFromISO88592Table |-> <<i + 159, kFromISO88592Table[i]>>]
  IN Descending(SelectSeq(pairs, LAMBDA p : p[2] > 255))

kToMacRomanTable ==
  LET pairs == [i \in DOMAIN kFromMacRomanTable |-> <<i + 127, kFromMacRomanTable[i]>>]
      sorted == Descending(pairs)
  IN [sorted EXCEPT ![1] = sorted[2], ![2] = sorted[1]]

kSubstituteChar == 26

Surrogate(word) == word \in 55296..57343
Unswapped(word) == IF LittleEndian THEN ((word % 256) * 256) + (word \div 256) ELSE word

(* What the loops do with the character they are at: the words or bytes    *)
(* they count as read and those they go forward by, what they write, and   *)
(* the result with which they stop, if they do.                            *)
Taken(read, forward, out) == [read |-> read, forward |-> forward, out |-> out, stop |-> "no"]
Stopped(read, result) == [read |-> read, forward |-> 0, out |-> <<>>, stop |-> result]

----------------------------------------------------------------------------
(* One byte per character.  A surrogate counts for two words, but the      *)
(* pointer goes forward by one.                                            *)

Pair(words) == Surrogate(words[1])
Unfinished(words) == Pair(words) /\ Len(words) = 1

\* kRepCharOnUnrepChar or kStopOnUnrepChar.
Unrepresentable(words, option) ==
  IF option = "kRepCharOnUnrepChar"
  THEN Taken(IF Pair(words) THEN 2 ELSE 1, 1, <<kSubstituteChar>>)
  ELSE Stopped(IF Pair(words) THEN 1 ELSE 0, "kUnrepCharEncountered")

ToISO88591(words, option) ==
  CASE words[1] < 256 -> Taken(1, 1, <<words[1]>>)
    [] Unfinished(words) -> Stopped(0, "kMiddleOfMultiChar")
    [] OTHER -> Unrepresentable(words, option)

\* The search goes on as long as the words of the table are above the one
\* looked for: only in a table in descending order does it find them all.
Search(table, words, option) ==
  LET i == CHOOSE i \in DOMAIN table :
             table[i][2] <= words[1] /\ \A j \in 1..i - 1 : table[j][2] > words[1]
  IN IF table[i][2] = words[1] THEN Taken(1, 1, <<table[i][1]>>)
     ELSE Unrepresentable(words, option)

\* A pair is not called unrepresentable: the low byte of its first word is written.
LowByte(words) == IF Unfinished(words) THEN Stopped(0, "kMiddleOfMultiChar")
                  ELSE Taken(2, 1, <<words[1] % 256>>)

ToISO88592(words, option) ==
  CASE words[1] <= 160 -> Taken(1, 1, <<words[1]>>)
    [] words[1] \in 161..255 -> IF kFromISO88592Table[words[1] - 159] = words[1]
                               THEN Taken(1, 1, <<words[1]>>)
                               ELSE Unrepresentable(words, option)
    [] Pair(words) -> LowByte(words)
    [] OTHER -> Search(kToISO88592Table, words, option)

ToMacRoman(words, option) ==
  CASE words[1] < 128 -> Taken(1, 1, <<words[1]>>)
    [] words[1] \in 128..159 -> Unrepresentable(words, option)
    [] Pair(words) -> LowByte(words)
    [] OTHER -> Search(kToMacRomanTable, words, option)

FromISO88592(byte) == IF byte > 160 THEN kFromISO88592Table[byte - 159] ELSE byte
FromMacRoman(byte) == IF byte >= 128 THEN kFromMacRomanTable[byte - 127] ELSE byte

----------------------------------------------------------------------------
(* UTF-8 *)

UTF8Size(ucs4) == CASE ucs4 < 128 -> 1
                    [] ucs4 \in 128..2047 -> 2
                    [] ucs4 \in 2048..65535 -> 3
                    [] ucs4 \in 65536..2097151 -> 4
                    [] ucs4 \in 2097152..67108863 -> 5
                    [] OTHER -> 6

\* The bits of the first byte that say how many bytes follow.
Lead == <<0, 192, 224, 240, 248, 252>>

UTF8Bytes(ucs4, size) ==
  [i \in 1..size |-> LET bits == ucs4 \div 64 ^ (size - i)
                     IN IF i = 1 THEN Lead[size] + bits ELSE 128 + (bits % 64)]

\* The second word of a pair is read as it lies in memory.
UCS4(words) ==
  IF Pair(words)
  THEN (words[1] - 55296) * 1024 + Unswapped(words[2]) - 56320 + 65536
  ELSE words[1]

\* Mutant: a character that just fits into the buffer waits for the next one.
ToUTF8CharLate(words, room) ==
  LET read == IF Pair(words) THEN 2 ELSE 1
      size == UTF8Size(UCS4(words))
  IN IF Unfinished(words) \/ (size > 1 /\ room <= size)
     THEN Stopped(0, "kMiddleOfMultiChar")
     ELSE Taken(read, read, UTF8Bytes(UCS4(words), size))

ToUTF8Char(words, room) ==
  LET read == IF Pair(words) THEN 2 ELSE 1
      size == UTF8Size(UCS4(words))
  IN IF Unfinished(words) \/ room < size
     THEN Stopped(0, "kMiddleOfMultiChar")
     ELSE Taken(read, read, UTF8Bytes(UCS4(words), size))

\* A byte that begins no character passes for the first of six.
SizeOfLead(byte) ==
  CASE byte < 128 -> 1
    [] byte \in 192..223 -> 2
    [] byte \in 224..239 -> 3
    [] byte \in 240..247 -> 4
    [] byte \in 248..251 -> 5
    [] OTHER -> 6

FromUTF8Char(bytes, room) ==
  LET size == SizeOfLead(bytes[1])
      first == (bytes[1] % <<128, 32, 16, 8, 4, 2>>[size])
      ucs4 == FoldLeft(LAMBDA u, byte : 64 * u + (byte % 64), first, SubSeq(bytes, 2, size))
  IN CASE Len(bytes) < size -> Stopped(0, "kMiddleOfMultiChar")
       [] Len(bytes) >= size /\ ucs4 < 65536 -> Taken(size, size, <<ucs4>>)
       [] Len(bytes) >= size /\ ucs4 >= 65536 /\ room > 1 ->
            Taken(size, size, <<((ucs4 - 65536) \div 1024 + 55296) % 65536,
                                ((ucs4 - 65536) % 1024) + 56320>>)
       [] OTHER -> Stopped(0, "kMiddleOfMultiChar")

----------------------------------------------------------------------------
Char(function, rest, room, option) ==
  CASE function = "ToISO88591" -> ToISO88591(rest, option)
    [] function = "ToISO88592" -> ToISO88592(rest, option)
    [] function = "ToMacRoman" -> ToMacRoman(rest, option)
    [] function = "ToUTF8" -> ToUTF8Char(rest, room)
    [] function = "FromUTF8" -> FromUTF8Char(rest, room)

(* One call: characters are taken until the input or the buffer of "room"  *)
(* is used up, or a character stops it.                                    *)
Conversion(function, input, room, option) ==
  LET Calls == [read : Nat, at : Nat, out : Seq(Nat), result : STRING]
      convert[c \in Calls] ==
        LET left == Len(input) - c.read
            char == Char(function, SubSeq(input, c.at + 1, c.at + left), room - Len(c.out), option)
        IN CASE c.result # "no" -> c
             [] c.result = "no" /\ left = 0 -> [c EXCEPT !.result = "kInputExhausted"]
             [] c.result = "no" /\ left # 0 /\ Len(c.out) = room ->
                  [c EXCEPT !.result = "kOutputExhausted"]
             [] OTHER -> convert[[read |-> c.read + char.read, at |-> c.at + char.forward,
                                  out |-> c.out \o char.out, result |-> char.stop]]
  IN convert[[read |-> 0, at |-> 0, out |-> <<>>, result |-> "no"]]
=============================================================================
