------------------------------ MODULE Package ------------------------------
(***************************************************************************)
(* TDCLPackage and its parts (TDCLPkgPart, TDCLPkgRelocatablePart,         *)
(* TDCLPkgNOSPart): an application adds and removes parts, renames the     *)
(* package, changes the objects of its parts, writes the package for some  *)
(* load address and reads back what it wrote.                              *)
(*                                                                         *)
(* A part lies at part.at (mOffset).  It is "raw", or has words to         *)
(* relocate ("reloc"), or an object ("nos"; part.heap is empty before it   *)
(* is decoded).  A string or an information is its bytes; the words of a   *)
(* part to relocate are numbers, not taken modulo 2^32, as none comes near *)
(* it.  The fields targets, moves and stale are history.                   *)
(***************************************************************************)
EXTENDS NSObjects, Padding

CONSTANTS
  Encoding(_, _, _, _), \* what an encoder makes of an object: of a heap, a
               \* reference, the offset of the part and the padding
  Decoding(_, _), \* what a decoder makes of the words of a part at an offset
  Starts,      \* the parts the application may have added at first
  NewParts,    \* parts it may add
  NewNames,    \* names it may give
  Loads,       \* load addresses it writes the package for
  PageSize,    \* RELOCATION_PAGE_SIZE
  MaxSetCount, \* from here on a set has room for a whole page: 256 offsets
  MaxEdits,    \* bound: changes
  MaxWrites    \* bound: calls of WriteToStream

ASSUME PageAssumption ==
  /\ MaxSetCount \in Nat \ {0} /\ MaxSetCount % 4 = 0
  /\ PageSize = 4 * MaxSetCount
  /\ Loads \subseteq Nat

VARIABLES
  parts,       \* mParts
  name,        \* mNameStr
  extra,       \* mExtraInfo
  relocFlag,   \* kDirRelocationFlag in mPackageFlags
  file,        \* what WriteToStream wrote last
  stage,       \* what the application did last
  edits, writes

vars == <<parts, name, extra, relocFlag, file, stage, edits, writes>>

DirectorySize == 52   \* sizeof(SPackageDirectory)
EntrySize == 32       \* sizeof(SPartEntry)
SetsHeader == 20      \* of SPackageRelocationData, before the sets
NoName == <<0, 0>>
Copyright == <<0, 0>> \* no copyright, the string of a new package

RawPart(info, words, size) ==
  [kind |-> "raw", info |-> info, extraInfo |-> <<>>, at |-> 0, words |-> words,
   size |-> size, base |-> 0, relocs |-> <<>>, heap |-> <<>>, dirty |-> FALSE, pad |-> 8,
   targets |-> <<>>, moves |-> 0, stale |-> FALSE]

\* Words that are right where the part lies, at its base address.
RelocatablePart(info, base, words, relocs) ==
  [RawPart(info, words, 4 * Len(words)) EXCEPT
     !.kind = "reloc", !.at = base, !.base = base, !.relocs = relocs,
     !.targets = [i \in DOMAIN relocs |-> words[relocs[i] \div 4 + 1] - base]]

NOSPart(info, heap, pad) ==
  [RawPart(info, <<>>, 0) EXCEPT !.kind = "nos", !.heap = heap, !.dirty = TRUE, !.pad = pad]

Init ==
  /\ parts \in Starts /\ name = NoName /\ extra = <<>> /\ relocFlag = FALSE
  /\ file = <<>> /\ stage = "edit" /\ edits = 0 /\ writes = 0

----------------------------------------------------------------------------
(* The application changes the package *)

Edit ==
  /\ edits < MaxEdits /\ stage # "endless"
  /\ edits' = edits + 1 /\ stage' = "edit"
  /\ UNCHANGED <<extra, relocFlag, file, writes>>

AddPart == \E part \in NewParts :
  /\ Edit
  /\ parts' = Append(parts, part)
  /\ UNCHANGED name

RemovePart == \E i \in DOMAIN parts :
  /\ Edit
  /\ parts' = RemoveAt(parts, i)
  /\ UNCHANGED name

RemovePartHandlerInfo == \E i \in DOMAIN parts :
  /\ Edit
  /\ parts' = [parts EXCEPT ![i].info = <<>>, ![i].extraInfo = <<>>]
  /\ UNCHANGED name

SetPackageName == \E n \in NewNames :
  /\ Edit
  /\ name' = n
  /\ UNCHANGED parts

\* TDCLPkgNOSPart::GetObject: what throws leaves the part as it was.
Decoded(part) ==
  LET d == Decoding(part.words, part.at)
  IN IF part.heap # <<>> \/ ~d.ok THEN part
     ELSE [part EXCEPT !.heap = d.heap, !.dirty = FALSE, !.pad = part.words[0][2]]

GetObject == \E i \in DOMAIN parts :
  /\ parts[i].kind = "nos" /\ parts[i].heap = <<>>
  /\ Edit
  /\ parts' = [parts EXCEPT ![i] = Decoded(@)]
  /\ UNCHANGED name

\* The application sets a slot of the object it has of a part.  It cannot say
\* so: Dirty is declared and not defined.
ChangeObject == \E i \in DOMAIN parts, key \in {kSYM.left, kSYM.class} :
  \E value \in {MakeInt(0)} \cup {Ptr(o) : o \in DOMAIN parts[i].heap} :
    /\ parts[i].kind = "nos" /\ parts[i].heap # <<>>
    /\ Edit
    /\ parts' = [parts EXCEPT ![i].heap[1] = Set(parts[i].heap, @, Sym(key), value),
                              ![i].stale = ~parts[i].dirty]
    /\ UNCHANGED name

----------------------------------------------------------------------------
(* Encoding a part for the place where it will lie *)

\* TDCLPkgRelocatablePart::Encode.  mBaseAddress stays: a second call adds the
\* way from there to words that made the way before.
Relocated(part, place) ==
  [part EXCEPT !.words = [w \in DOMAIN @ |->
                            IF 4 * (w - 1) \in ToSet(part.relocs)
                            THEN @[w] + place - part.base ELSE @[w]],
               !.moves = @ + 1]

\* TDCLPkgNOSPart::Encode, with the object when there is one.  An object that
\* cannot be decoded is an exception; one that cannot be encoded has the
\* encoder go round for ever.
Reencoded(part, place, e) ==
  IF e.endless THEN [part |-> part, outcome |-> "endless"]
  ELSE [part |-> [part EXCEPT !.at = place, !.words = e.words, !.size = e.offset - place,
                              !.dirty = FALSE, !.stale = FALSE],
        outcome |-> "written"]

EncodedObject(part, place) ==
  IF part.heap = <<>> THEN [part |-> part, outcome |-> "thrown"]
  ELSE Reencoded(part, place, Encoding(part.heap, Ptr(1), place, part.pad))

IsOffsetDependant(part) == part.kind = "nos" \/ part.relocs # <<>>
MustEncode(part, place) == (place # part.at /\ IsOffsetDependant(part)) \/ part.dirty

\* GetSize and GetBuffer.
Placed(part, place) ==
  IF MustEncode(part, place) /\ part.kind = "nos" THEN EncodedObject(Decoded(part), place)
  ELSE [part |-> [(IF MustEncode(part, place) THEN Relocated(part, place) ELSE part)
                    EXCEPT !.at = place],
        outcome |-> "written"]

----------------------------------------------------------------------------
(* WriteToStream *)

\* A loop over a sequence: total[n] is what it has after n turns.
Totals(step, start, s) ==
  LET total[n \in 0 .. Len(s)] == IF n = 0 THEN start ELSE step[<<total[n - 1], s[n]>>]
  IN total
Total(step, start, s) == Totals(step, start, s)[Len(s)]

Plus == [p \in Int \X Int |-> p[1] + p[2]]
Join == [p \in Seq(Nat) \X Seq(Nat) |-> p[1] \o p[2]]
SumOf(s) == Total(Plus, 0, s)
Joined(s) == Total(Join, <<>>, s)

\* The bytes of the directory that follow the entries, without the zeroes.
DirectoryData ==
  Copyright \o name \o extra \o Joined([i \in DOMAIN parts |-> parts[i].info \o parts[i].extraInfo])

UnpaddedSize ==
  DirectorySize + Len(Copyright) + Len(name) + EntrySize * Len(parts) + Len(extra)
    + SumOf([i \in DOMAIN parts |-> Len(parts[i].info) + Len(parts[i].extraInfo)])
TheDirectorySize == Padded(UnpaddedSize, 4)

RelocationCount(part) == Len(part.relocs)

\* Mutant: relocations less than a page apart are taken to lie in one page.
OnePageLess(part) ==
  IF part.relocs = <<>> THEN 0
  ELSE 1 + (Last(part.relocs) - Head(part.relocs)) \div PageSize

\* GetRelocationPageCountEstimate, of relocations whose last is not before the
\* first.  SetRelocations sorts them by where they are in memory, not by value.
PageCountEstimate(part) ==
  CASE part.relocs = <<>> -> 0
    [] OTHER -> IF Head(part.relocs) = Last(part.relocs) THEN 1
                ELSE 2 + (Last(part.relocs) - Head(part.relocs)) \div PageSize

\* relocationSetMaxSize.
SetMaxSize(count) == 4 + (IF count < MaxSetCount THEN Padded(count, 4) ELSE MaxSetCount)

RelocationSize ==
  LET pages == SumOf([i \in DOMAIN parts |-> PageCountEstimate(parts[i])])
      count == SumOf([i \in DOMAIN parts |-> RelocationCount(parts[i])])
  IN IF pages = 0 THEN 0 ELSE SetsHeader + pages * SetMaxSize(count)

\* One of the three loops over the parts: each is asked for its size at the
\* place where it will lie, and the next place is a multiple of four.
Placement(sofar, placed) ==
  IF placed.outcome # "written"
  THEN [sofar EXCEPT !.parts = Append(@, placed.part), !.outcome = placed.outcome]
  ELSE [sofar EXCEPT !.parts = Append(@, placed.part),
                     !.offsets = Append(@, sofar.end),
                     !.end = Padded(@ + placed.part.size, 4)]

NextPlacement(sofar, part, base) ==
  IF sofar.outcome # "written" THEN [sofar EXCEPT !.parts = Append(@, part)]
  ELSE Placement(sofar, Placed(part, sofar.end + base))

Turns(some, from, base) ==
  LET pass[n \in 0 .. Len(some)] ==
        IF n = 0 THEN [parts |-> <<>>, offsets |-> <<>>, end |-> from, outcome |-> "written"]
        ELSE NextPlacement(pass[n - 1], some[n], base)
  IN pass
Pass(some, from, base) == Turns(some, from, base)[Len(some)]

\* The sets: a new one wherever the page is not that of the relocation before.
PageSets == [page : Nat, offsets : Seq(Nat)]
AddedTo(sets, address) ==
  LET page == address \div PageSize
      offset == (address % PageSize) \div 4
  IN IF sets # <<>> /\ Last(sets).page = page
     THEN [sets EXCEPT ![Len(sets)].offsets = Append(@, offset)]
     ELSE Append(sets, [page |-> page, offsets |-> <<offset>>])
AddToSets == [p \in Seq(PageSets) \X Nat |-> AddedTo(p[1], p[2])]
SetsOf(addresses) == Total(AddToSets, <<>>, addresses)

\* What the sets take in the file, of what was left free for them.
SizeOfSets(sets) == SumOf([k \in DOMAIN sets |-> 4 + Padded(Len(sets[k].offsets), 4)])

\* Where the parts begin.
DataOffset == TheDirectorySize + RelocationSize

\* infoOffset: mExtraInfo and fExtraInfo are written and not counted.
InfoOffset(i) ==
  Len(Copyright) + Len(name) + SumOf([j \in 1 .. i - 1 |-> Len(parts[j].info)])

\* allRelocations, when the parts lie at these offsets.
AllRelocations(offsets) ==
  Joined([i \in DOMAIN parts |->
            [r \in DOMAIN parts[i].relocs |-> parts[i].relocs[r] + offsets[i]]])

FileOf(load, entries, written) ==
  LET zeroes == TheDirectorySize - UnpaddedSize
  IN [load |-> load,
      relocFlag |-> relocFlag \/ RelocationSize > 0,
      nameLength |-> Len(name),
      directorySize |-> TheDirectorySize,
      entries |-> [i \in DOMAIN parts |->
                     [offset |-> entries.offsets[i],
                      size |-> entries.parts[i].size,
                      isNOS |-> parts[i].kind = "nos",
                      infoOffset |-> InfoOffset(i), infoSize |-> Len(parts[i].info)]],
      directoryData |-> DirectoryData \o [i \in 1 .. zeroes |-> 0],
      relocationSize |-> RelocationSize,
      sets |-> SetsOf(AllRelocations(written.offsets)),
      partData |-> {[offset |-> written.offsets[i] - DataOffset, words |-> written.parts[i].words] :
                      i \in DOMAIN parts}]

\* The loops for the size of the package, for the entries and for the parts
\* themselves.  They agree on the places: what the first one could encode stays
\* encoded.
Write(load, sizes) ==
  LET entries == Pass(sizes.parts, 0, DataOffset + load)
      written == Pass(entries.parts, DataOffset, load)
  IN /\ stage' = sizes.outcome
     /\ IF stage' = "written"
        THEN parts' = written.parts /\ file' = FileOf(load, entries, written)
        ELSE parts' = sizes.parts /\ UNCHANGED file

WriteToStream == \E load \in Loads :
  /\ stage # "endless" /\ writes < MaxWrites
  /\ writes' = writes + 1
  /\ Write(load, Pass(parts, DataOffset, load))
  /\ UNCHANGED <<name, extra, relocFlag, edits>>

----------------------------------------------------------------------------
(* ReadPackage *)

\* The bytes of the directory from one offset up to another.
Bytes(from, to) == [b \in 1 .. to - from |-> file.directoryData[from + b]]
DirectoryDataSize == file.directorySize - DirectorySize - EntrySize * Len(file.entries)

PartDataOffset == file.directorySize + (IF file.relocFlag THEN file.relocationSize ELSE 0)

\* allRelocations.
AddressesOf(set) ==
  [o \in DOMAIN set.offsets |-> PageSize * set.page + 4 * set.offsets[o]]
Addresses ==
  IF file.relocFlag THEN Joined([k \in DOMAIN file.sets |-> AddressesOf(file.sets[k])])
  ELSE <<>>

\* Those of a part: as many as lie in it, from the first one not before it.
RelocationsOf(entry) ==
  LET from == PartDataOffset + entry.offset
      after == {r \in DOMAIN Addresses : Addresses[r] >= from}
      inside == {r \in after : Addresses[r] < from + entry.size}
      first == CHOOSE r \in after : \A s \in after : r <= s
  IN [r \in 1 .. Cardinality(inside) |-> Addresses[first + r - 1] - from]

\* What comes after the information of part i, up to that of the next one or
\* to the end of the directory: the zeroes there count.
ExtraInfo(i) ==
  Bytes(file.entries[i].infoOffset + file.entries[i].infoSize,
        IF i < Len(file.entries) THEN file.entries[i + 1].infoOffset
        ELSE DirectoryDataSize)

\* The base address is that of the first part, without the load address.
PartOf(i) ==
  LET entry == file.entries[i]
      relocs == RelocationsOf(entry)
      at == PartDataOffset + entry.offset + file.load
      data == {d \in file.partData : d.offset = entry.offset}
  IN [kind |-> IF entry.isNOS THEN "nos" ELSE IF relocs # <<>> THEN "reloc" ELSE "raw",
      info |-> Bytes(entry.infoOffset, entry.infoOffset + entry.infoSize),
      extraInfo |-> ExtraInfo(i), at |-> at,
      words |-> IF data = {} THEN <<>> ELSE (CHOOSE d \in data : TRUE).words,
      size |-> entry.size, base |-> PartDataOffset, relocs |-> relocs,
      heap |-> <<>>, dirty |-> FALSE, pad |-> 8, targets |-> parts[i].targets,
      moves |-> IF relocs = <<>> THEN 0
                ELSE IF at = PartDataOffset /\ parts[i].moves <= 1 THEN 0 ELSE 2,
      stale |-> FALSE]

SetsFitInFile ==
  file.relocFlag =>
    SizeOfSets(file.sets) <= IF file.relocationSize = 0 THEN 0
                             ELSE file.relocationSize - SetsHeader

\* A new object is made of the file, for the address it was written for.  (A
\* file whose sets were written over its parts is not followed further.)
ReadPackage ==
  /\ stage = "written" /\ SetsFitInFile
  /\ stage' = "read"
  /\ parts' = [i \in DOMAIN file.entries |-> PartOf(i)]
  /\ name' = Bytes(Len(Copyright), Len(Copyright) + file.nameLength)
  /\ extra' = Bytes(Len(Copyright) + file.nameLength,
                    IF file.entries = <<>> THEN DirectoryDataSize
                    ELSE file.entries[1].infoOffset)
  /\ relocFlag' = file.relocFlag
  /\ UNCHANGED <<file, edits, writes>>

----------------------------------------------------------------------------
Next ==
  \/ AddPart \/ RemovePart \/ RemovePartHandlerInfo \/ SetPackageName
  \/ GetObject \/ ChangeObject \/ WriteToStream \/ ReadPackage

Spec == Init /\ [][Next]_vars

----------------------------------------------------------------------------
(* What the parts are throughout, and the file for them *)

PartFields == DOMAIN RawPart(<<>>, <<>>, 0)

\* The words to relocate lie in the part, the last of them not before the first.
IsPart(part) ==
  /\ DOMAIN part = PartFields
  /\ Len(part.info) \in Nat /\ Len(part.extraInfo) \in Nat /\ part.size \in Nat
  /\ part.relocs \in Seq(Nat)
  /\ \A r \in DOMAIN part.relocs : part.relocs[r] % 4 = 0 /\ part.relocs[r] < part.size
  /\ part.relocs # <<>> => Head(part.relocs) <= Last(part.relocs)
  /\ part.kind # "reloc" => part.relocs = <<>>
  /\ part.dirty \in BOOLEAN /\ (part.dirty => part.kind = "nos")

\* The application adds parts that are well formed, and names.
ASSUME PartsAssumption ==
  /\ \A part \in NewParts : IsPart(part)
  /\ \A start \in Starts : start \in Seq(ToSet(start)) /\ \A i \in DOMAIN start : IsPart(start[i])
  /\ \A n \in NewNames : Len(n) \in Nat

\* An encoder goes on from where the part begins.
EncoderGrows ==
  \A load \in Loads : LET sizes == Pass(parts, DataOffset, load)
                      IN \A i \in DOMAIN sizes.parts : sizes.parts[i].size \in Nat

TypeOK ==
  /\ parts \in Seq(ToSet(parts)) /\ \A i \in DOMAIN parts : IsPart(parts[i])
  /\ Len(name) \in Nat /\ Len(extra) \in Nat /\ relocFlag \in BOOLEAN

\* The offsets of the parts of a file are multiples of four, one part after the
\* other, and the sets were made of the words to relocate there.
Entry(i) == file.entries[i]
EntriesOK ==
  /\ file.entries \in Seq(ToSet(file.entries))
  /\ DOMAIN file.entries = DOMAIN parts /\ Len(file.entries) = Len(parts)
  /\ \A i \in DOMAIN parts :
       /\ Entry(i).offset \in Nat /\ Entry(i).offset % 4 = 0
       /\ Entry(i).size = parts[i].size
       /\ Entry(i).isNOS = (parts[i].kind = "nos")
       /\ Entry(i).infoOffset \in Int /\ Entry(i).infoSize \in Int
  /\ \A i \in 1 .. Len(parts) - 1 : Entry(i).offset + parts[i].size <= Entry(i + 1).offset

FileOK ==
  /\ file.relocFlag = (relocFlag \/ RelocationSize > 0)
  /\ file.relocationSize = RelocationSize /\ file.directorySize = TheDirectorySize
  /\ file.nameLength \in Int
  /\ EntriesOK
  /\ file.sets = SetsOf(AllRelocations([i \in DOMAIN parts |-> DataOffset + Entry(i).offset]))

PackageIInv == TypeOK /\ (stage = "written" => FileOK)

----------------------------------------------------------------------------
\* Where this program writes informations in the places it says.
InfoInPlace ==
  extra = <<>> /\ \A i \in 1 .. Len(parts) - 1 : parts[i].extraInfo = <<>>

\* A frame without slots cannot be read back: it has no map.
NoEmptyFrame(heap) == \A o \in DOMAIN heap : heap[o].type = "frame" => heap[o].keys # <<>>

InOrder(relocs) == \A r \in 1 .. Len(relocs) - 1 : relocs[r] < relocs[r + 1]

\* The part q that was read is the part p that was written.
SamePart(p, q) ==
  LET object == Decoding(q.words, q.at) IN
  /\ q.kind = p.kind /\ q.at = p.at
  /\ p.kind = "raw" => q.words = p.words /\ q.size = p.size
  /\ p.kind = "reloc" /\ p.moves <= 1 =>
       /\ q.relocs = p.relocs
       /\ \A r \in DOMAIN q.relocs : q.words[q.relocs[r] \div 4 + 1] = p.targets[r] + q.at
  /\ p.kind = "nos" /\ ~p.stale /\ p.heap # <<>> /\ NoEmptyFrame(p.heap) =>
       object.ok /\ Same(object.heap, p.heap)

\* A package that is read is the package that was written: its name, the
\* informations for the handlers and the parts, with the object graphs of the
\* NewtonScript parts (shared objects, cycles and shared maps included) and the
\* addresses in the others, for the place where they now lie.  The three loops
\* of WriteToStream and the reader agree on every offset.  Left out is what
\* this code does not keep: informations after others that have extra bytes,
\* frames without slots, parts moved twice, objects changed without Dirty.
PackageIsEqual ==
  [][stage = "written" /\ stage' = "read" =>
       /\ name' = name /\ Len(parts') = Len(parts)
       /\ \A i \in DOMAIN parts :
            /\ InfoInPlace => parts'[i].info = parts[i].info
            /\ (\A j \in DOMAIN parts : InOrder(parts[j].relocs)) =>
                 SamePart(parts[i], parts'[i])]_stage

\* The relocation sets, which are written when the parts are in the file, stay
\* within the room GetRelocationPageCountEstimate and relocationSetMaxSize left
\* for them, when the relocations of each part come in increasing order.
SetsFit ==
  stage = "written" /\ (\A i \in DOMAIN parts : InOrder(parts[i].relocs)) => SetsFitInFile

\* The references in the objects of a heap.
Refs(heap) ==
  UNION {CASE heap[o].type = "frame" -> ToSet(heap[o].keys) \cup ToSet(heap[o].values)
           [] heap[o].type = "array" -> {heap[o].class} \cup ToSet(heap[o].items)
           [] heap[o].type = "binary" -> {heap[o].class}
           [] heap[o].type = "symbol" -> {} : o \in DOMAIN heap}

\* WriteToStream ends, unless the objects of a part refer to two symbols of one
\* name: every pointer of mStack is written, and leaves it, when its object is.
WriteEnds ==
  stage = "endless" =>
    \E i \in DOMAIN parts : \E a, b \in Refs(parts[i].heap) :
      a # b /\ Equal(parts[i].heap, a, b)
=============================================================================
