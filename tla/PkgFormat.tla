----------------------------- MODULE PkgFormat -----------------------------
(***************************************************************************)
(* The objects of a part of a package: TDCLPkgEncoder and TDCLPkgDecoder,  *)
(* with the ToPkg and FromPkg of every kind of object.                     *)
(*                                                                         *)
(* The stream is a function from positions in the part to what is there: a *)
(* reference, <<"at", o>> for a pointer (the long o + 1) to the object     *)
(* with offset o, <<"head", kind, size>> for the two longs that begin an   *)
(* object, the bytes of a binary, the hash value and the string of a       *)
(* symbol.  An offset is a position plus the offset of the part, which is  *)
(* where the part lies in the package, in a machine that loads it.         *)
(***************************************************************************)
EXTENDS NSObjects, Padding

KDCLPkg == [kSymbolClass |-> Ref(349522), kMapSorted |-> 1, kMapShared |-> 2]

NameSize == 8   \* bound: hash value and string of a symbol, of three characters

----------------------------------------------------------------------------
(* The encoder *)

\* e.list holds the objects encoded so far, e.pending the pointers to write
\* when their object is (mStack), e.maps the keys of frames whose map is there.
Put(e, word, size) ==
  [e EXCEPT !.words = (e.offset - e.part :> word) @@ @, !.offset = @ + size]

Header(kind, size) == <<"head", kind, size>>
At(offset) == <<"at", offset>>

\* AlignStream: positions, not offsets, are multiples of the padding.
AlignStream(e) == [e EXCEPT !.offset = e.part + Padded(@ - e.part, e.pad)]

\* WasObjectEncoded: symbols count as one when they have one name.
Encoded(heap, e, ref) == {i \in DOMAIN e.list : Equal(heap, e.list[i].ref, ref)}
CookieOf(heap, e, ref) ==
  LET places == Encoded(heap, e, ref)
  IN e.list[CHOOSE i \in places : \A j \in places : i <= j].at

\* AddObject inside an object.
AddObject(heap, e, ref) ==
  CASE ~IsRealPtr(ref) -> Put(e, ref, 4)
    [] IsRealPtr(ref) /\ Encoded(heap, e, ref) # {} -> Put(e, At(CookieOf(heap, e, ref)), 4)
    [] IsRealPtr(ref) /\ Encoded(heap, e, ref) = {} ->
         Put([e EXCEPT !.pending = Append(@, [ref |-> ref, at |-> e.offset])], MakeInt(0), 4)

AddObjects(heap, e, refs) ==
  FoldLeft(LAMBDA enc, ref : AddObject(heap, enc, ref), e, refs)

SymbolToPkg(e, name) ==
  Put(Put(Put(e, Header("bytes", 12 + NameSize), 8), KDCLPkg.kSymbolClass, 4),
      <<"name", name>>, NameSize)

BinaryToPkg(heap, e, binary) ==
  LET size == Len(binary.data)
      head == Put(e, Header("bytes", 12 + size), 8)
  IN Put(AddObject(heap, head, binary.class), <<"data", binary.data>>, size)

ArrayToPkg(heap, e, array) ==
  LET head == Put(e, Header("slotted", 12 + 4 * Len(array.items)), 8)
  IN AddObjects(heap, head, <<array.class>> \o array.items)

\* Mutant: any map with keys of the frame will do, in whatever order.
BestSupermapOfAnyOrder(e, names) ==
  LET fits == {i \in DOMAIN e.maps : /\ Len(e.maps[i].names) \in 1 .. Len(names)
                                     /\ ToSet(e.maps[i].names) \subseteq ToSet(names)}
      best == CHOOSE i \in fits : \A j \in fits : i <= j
  IN IF fits = {} THEN [shared |-> 0, map |-> kNILREF]
     ELSE [shared |-> Len(e.maps[best].names), map |-> At(e.maps[best].at)]

\* GetBestSupermap: the longest of the maps that begin the keys of the frame,
\* the first of equals.
BestSupermap(e, names) ==
  LET size(i) == Len(e.maps[i].names)
      fits == {i \in DOMAIN e.maps : /\ size(i) \in 1 .. Len(names)
                                     /\ IsPrefix(e.maps[i].names, names)}
      best == CHOOSE i \in fits : \A j \in fits :
                size(j) < size(i) \/ (size(j) = size(i) /\ i <= j)
  IN IF fits = {} THEN [shared |-> 0, map |-> kNILREF]
     ELSE [shared |-> size(best), map |-> At(e.maps[best].at)]

\* "Note that supermap is shared", in its class.
MarkShared(e, super) ==
  LET class == super.map[2] - e.part + 8
      flags == ToInt(e.words[class])
  IN IF super.shared = 0 \/ (flags \div KDCLPkg.kMapShared) % 2 = 1 THEN e
     ELSE [e EXCEPT !.words[class] = MakeInt(flags + KDCLPkg.kMapShared)]

\* The map of a frame, with the keys its supermap has not.  The bit kMapProto
\* of its class, which no reader of this program looks at, is left out.
MapToPkg(heap, e, frame, names, super) ==
  LET own == SubSeq(frame.keys, super.shared + 1, Len(frame.keys))
      class == MakeInt(IF frame.sorted THEN KDCLPkg.kMapSorted ELSE 0)
      head == Put(e, Header("slotted", 16 + 4 * Len(own)), 8)
      keys == AddObjects(heap, Put(Put(head, class, 4), super.map, 4), own)
  IN [keys EXCEPT !.maps = Append(@, [names |-> names, at |-> e.offset])]

\* The pointer to the map is written before the values, the map after them.
\* A frame without slots has no map: its pointer leads to what comes next.
FrameToPkg(heap, e, frame) ==
  LET n == Len(frame.keys)
      names == [i \in 1 .. n |-> Name(heap, frame.keys[i])]
      super == BestSupermap(e, names)
      end == e.part + Padded(e.offset - e.part + 12 + 4 * n, e.pad)
      map == IF super.shared = n /\ n > 0 THEN super.map ELSE At(end)
      head == Put(Put(e, Header("frame", 12 + 4 * n), 8), map, 4)
      slots == AlignStream(AddObjects(heap, head, frame.values))
  IN MarkShared(IF super.shared < n THEN MapToPkg(heap, slots, frame, names, super) ELSE slots,
                super)

ToPkg(heap, e, ref) ==
  IF IsSymbol(heap, ref) THEN SymbolToPkg(e, Name(heap, ref))
  ELSE LET object == heap[ref[2]] IN
       CASE object.type = "binary" -> BinaryToPkg(heap, e, object)
         [] object.type = "array" -> ArrayToPkg(heap, e, object)
         [] object.type = "frame" -> FrameToPkg(heap, e, object)

\* Mutant: the search ends with the first pointer it finds.
WriteOnePointer(e, ref) ==
  LET mine == {i \in DOMAIN e.pending : e.pending[i].ref = ref}
      i == CHOOSE k \in mine : \A j \in mine : j <= k
  IN IF mine = {} THEN e
     ELSE [e EXCEPT !.pending = RemoveAt(@, i),
                    !.words[e.pending[i].at - e.part] = At(e.offset)]

\* The pointers that wait for this very object are written and leave mStack.
WritePointers(e, ref) ==
  LET mine == {i \in DOMAIN e.pending : e.pending[i].ref = ref}
      places == {e.pending[i].at - e.part : i \in mine}
  IN [e EXCEPT !.pending = SelectSeq(@, LAMBDA item : item.ref # ref),
               !.words = [p \in DOMAIN @ |-> IF p \in places THEN At(e.offset) ELSE @[p]]]

\* PutObject, but for the objects it adds from mStack.
PutObject(heap, e, ref) ==
  LET known == [e EXCEPT !.list = Append(@, [ref |-> ref, at |-> e.offset])]
  IN AlignStream(ToPkg(heap, WritePointers(known, ref), ref))

\* The objects of mStack, the last one first.  One that counts as encoded
\* (another symbol with its name was) is only pointed to and stays on mStack:
\* the loop meets it again for ever.
RECURSIVE PutPending(_, _)
PutPending(heap, e) ==
  LET ref == Last(e.pending).ref IN
  CASE e.pending = <<>> -> e
    [] OTHER -> IF Encoded(heap, e, ref) # {} THEN [e EXCEPT !.endless = TRUE]
                ELSE PutPending(heap, PutObject(heap, e, ref))

\* Init: an array of one item, the object, whose second long is the padding.
Encode(heap, ref, part, pad) ==
  LET e == [words |-> (0 :> <<"first", pad>>) @@ (8 :> kNILREF) @@ (12 :> At(part + 16)),
            offset |-> part + 16, part |-> part, pad |-> pad,
            list |-> <<>>, pending |-> <<>>, maps |-> <<>>, endless |-> FALSE]
  IN PutPending(heap, PutObject(heap, e, ref))

----------------------------------------------------------------------------
(* The decoder *)

Fail(d) == [d EXCEPT !.ok = FALSE]
Push(d, ref) == [d EXCEPT !.refs = Append(@, ref)]
Pop(d, n) == [d EXCEPT !.refs = SubSeq(@, 1, Len(@) - n)]
LastRefs(d, n) == SubSeq(d.refs, Len(d.refs) - n + 1, Len(d.refs))

\* AddObjectToList, with the offset of the object for a cookie.
New(d, at, object) ==
  [d EXCEPT !.heap = Append(@, object),
            !.list = Append(@, [ref |-> Ptr(Len(d.heap) + 1), at |-> at])]

RECURSIVE GetNextObject(_, _)

GetObjects(d, positions) ==
  FoldLeft(LAMBDA dec, pos : GetNextObject(dec, pos), d, positions)

\* The positions of n longs from pos on.
Longs(pos, n) == [i \in 1 .. n |-> pos + 4 * (i - 1)]

SymbolFromPkg(d, pos) ==
  Push(New(d, pos + d.part, NewSymbol(d.words[pos + 12][2])), Ptr(Len(d.heap) + 1))

\* The object is in the list before its class, which may refer to it.
BinaryFromPkg(d, pos, size) ==
  LET o == Len(d.heap) + 1
      data == IF size = 12 THEN <<>> ELSE d.words[pos + 12][2]
      c == GetNextObject(New(d, pos + d.part, NewBinary(Sym(kSYM.binary), data)), pos + 8)
  IN IF ~c.ok THEN c
     ELSE Push([Pop(c, 1) EXCEPT !.heap[o].class = LastRefs(c, 1)[1]], Ptr(o))

ArrayFromPkg(d, pos, size) ==
  LET o == Len(d.heap) + 1
      m == (size - 8) \div 4
      a == GetObjects(New(d, pos + d.part, NewArray(kNILREF, <<>>)), Longs(pos + 8, m))
      refs == LastRefs(a, m)
  IN IF ~a.ok THEN a
     ELSE Push([Pop(a, m) EXCEPT !.heap[o] = NewArray(refs[1], Tail(refs))], Ptr(o))

IsMap(d, ref) ==
  /\ ref[1] = "at" /\ ref[2] - d.part \in DOMAIN d.words
  /\ LET head == d.words[ref[2] - d.part]
     IN head[1] = "head" /\ head[2] = "slotted" /\ head[3] > 12

\* The keys of a map, after those of its supermap.  The arrays that maps are
\* for the reader are not kept: nothing of the object leads to them.
RECURSIVE KeysFromPkg(_, _)
KeysFromPkg(d, map) ==
  LET pos == map[2] - d.part
      n == (d.words[pos][3] - 16) \div 4
      super == d.words[pos + 12]
  IN CASE ~IsMap(d, map) -> Fail(d)
       [] OTHER -> GetObjects(IF super = kNILREF THEN d ELSE KeysFromPkg(d, super),
                              Longs(pos + 16, n))

\* "BookMaker apparently generates packages with maps of class 'Array": the
\* flags of such a map are 0.
MapFlags(d, map) ==
  LET class == d.words[map[2] - d.part + 8] IN IF IsInt(class) THEN ToInt(class) ELSE 0

FrameFromPkg(d, pos, size) ==
  LET o == Len(d.heap) + 1
      n == (size - 12) \div 4
      map == d.words[pos + 8]
      k == KeysFromPkg(New(d, pos + d.part, NewFrame), map)
      whole == d.words[map[2] - d.part][3] = 16 + 4 * n
      sorted == whole /\ (MapFlags(d, map) \div KDCLPkg.kMapSorted) % 2 = 1
      f == GetObjects(k, Longs(pos + 12, n))
      keys == SubSeq(LastRefs(f, 2 * n), 1, n)
      values == LastRefs(f, n)
      frame == [type |-> "frame", keys |-> keys, values |-> values, sorted |-> sorted,
                isFunction |-> ~sorted /\ LooksLikeFunction(f.heap, keys, values)]
  IN CASE ~k.ok -> k
       [] OTHER -> IF Len(k.refs) # Len(d.refs) + n THEN Fail(k)
                   ELSE IF ~f.ok THEN f
                   ELSE Push([Pop(f, 2 * n) EXCEPT !.heap[o] = frame], Ptr(o))

\* What a pointer leads to, when it is met for the first time.
ObjectFromPkg(d, pos) ==
  LET head == d.words[pos] IN
  CASE pos \notin DOMAIN d.words -> Fail(d)
    [] OTHER ->
       CASE head[1] # "head" -> Fail(d)
         [] OTHER ->
            CASE head[2] = "frame" -> FrameFromPkg(d, pos, head[3])
              [] head[2] = "slotted" -> ArrayFromPkg(d, pos, head[3])
              [] head[2] = "bytes" ->
                   IF d.words[pos + 8] = KDCLPkg.kSymbolClass THEN SymbolFromPkg(d, pos)
                   ELSE BinaryFromPkg(d, pos, head[3])

GetNextObject(d, pos) ==
  LET word == d.words[pos]
      known == {i \in DOMAIN d.list : d.list[i].at = word[2]}
  IN CASE ~d.ok \/ pos \notin DOMAIN d.words -> Fail(d)
       [] OTHER ->
          CASE word[1] = "imm" -> Push(d, word)
            [] word[1] = "at" ->
                 IF known # {} THEN Push(d, d.list[CHOOSE i \in known : TRUE].ref)
                 ELSE ObjectFromPkg(d, word[2] - d.part)
            [] OTHER -> Fail(d)

\* A decoder of the words of a part that lies at an offset, and its object.
Decode(words, part) ==
  LET d == [words |-> words, part |-> part, heap |-> <<>>, list |-> <<>>, refs |-> <<>>,
            ok |-> TRUE]
  IN IF 0 \notin DOMAIN words \/ words[0][1] # "first" THEN Fail(d)
     ELSE GetNextObject(d, 12)
=============================================================================
