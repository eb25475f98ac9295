--------------------------- MODULE StreamNumbers ---------------------------
(***************************************************************************)
(* The numbers of a TDCLStream: shorts and longs, as their bytes.          *)
(***************************************************************************)
EXTENDS Integers, Sequences

PutShort(n) == <<n \div 256, n % 256>>
PutLong(n) == PutShort(n \div 65536) \o PutShort(n % 65536)

Short(bytes) == 256 * bytes[1] + bytes[2]
Long(bytes) == 65536 * Short(bytes) + Short(SubSeq(bytes, 3, 4))
=============================================================================
