-------------------------------- MODULE NSOF --------------------------------
(***************************************************************************)
(* The Newton Streamed Object Format: TDCLNSOFEncoder and TDCLNSOFDecoder, *)
(* with the ToNSOF and FromNSOF of every kind of object.                   *)
(*                                                                         *)
(* An encoder has the bytes it wrote (out) and mList, the objects it wrote *)
(* so far.  A decoder has the bytes to read (in), the objects it made      *)
(* (heap), its own mList and the references it returned that were not used *)
(* yet (refs, a stack); ok turns false with the exception that ends it.    *)
(***************************************************************************)
EXTENDS NSObjects, StreamNumbers

kNSOFVersion == 2
KDCLNSOF == [kImmediate |-> 0, kCharacter |-> 1, kUnicodeCharacter |-> 2,
             kBinaryObject |-> 3, kArray |-> 4, kPlainArray |-> 5, kFrame |-> 6,
             kSymbol |-> 7, kString |-> 8, kPrecedent |-> 9, kNIL |-> 10,
             kSmallRect |-> 11]

----------------------------------------------------------------------------
(* Extended longs *)

PutXLong(n) == IF n <= 254 THEN <<n>> ELSE <<255>> \o PutLong(n)

\* GetXLong: the number and how many bytes it took, more than there are at the end.
XLongSize(bytes) == IF bytes # <<>> /\ bytes[1] = 255 THEN 5 ELSE 1
XLong(bytes) == IF bytes[1] = 255 THEN Long(Tail(bytes)) ELSE bytes[1]

----------------------------------------------------------------------------
(* The encoder *)

Put(e, bytes) == [e EXCEPT !.out = @ \o bytes]

\* Mutant: objects are numbered from one.
PutPrecedentFromOne(e, id) == Put(e, <<KDCLNSOF.kPrecedent>> \o PutXLong(id + 1))

PutPrecedent(e, id) == Put(e, <<KDCLNSOF.kPrecedent>> \o PutXLong(id))

\* TDCLNSRef::ToNSOF of an immediate.
PutRef(e, r) ==
  LET char == r \div 16 IN
  CASE IsChar(Ref(r)) /\ char >= 256 -> Put(e, <<KDCLNSOF.kUnicodeCharacter>> \o PutShort(char))
    [] IsChar(Ref(r)) /\ char < 256 -> Put(e, <<KDCLNSOF.kCharacter, char>>)
    [] Ref(r) = kNILREF -> Put(e, <<KDCLNSOF.kNIL>>)
    [] OTHER -> Put(e, <<KDCLNSOF.kImmediate>> \o PutXLong(r))

\* A frame of four slots whose top, left, bottom and right are integers.
RectKeys == <<kSYM.top, kSYM.left, kSYM.bottom, kSYM.right>>
IsRect(heap, frame) ==
  /\ Len(frame.keys) = 4
  /\ \A i \in 1 .. 4 : IsInt(Get(heap, frame, RectKeys[i]))

\* rectVals: the bytes of a rectangle.  Those of a value that does not fit in
\* a byte are never assigned: junk is what the memory holds.
RectVals(heap, frame, junk) ==
  [i \in 1 .. 4 |-> LET n == ToInt(Get(heap, frame, RectKeys[i]))
                    IN IF n \in 0 .. 255 THEN n ELSE junk]

RECURSIVE AddObject(_, _, _, _)

AddObjects(heap, junk, e, refs) ==
  FoldLeft(LAMBDA enc, ref : AddObject(heap, junk, enc, ref), e, refs)

SymbolToNSOF(e, name) == Put(e, <<KDCLNSOF.kSymbol>> \o PutXLong(1) \o <<name>>)

BinaryToNSOF(heap, junk, e, binary) ==
  LET size == PutXLong(Len(binary.data)) IN
  IF Equal(heap, binary.class, Sym(kSYM.string))
  THEN Put(e, <<KDCLNSOF.kString>> \o size \o binary.data)
  ELSE Put(AddObject(heap, junk, Put(e, <<KDCLNSOF.kBinaryObject>> \o size), binary.class),
           binary.data)

ArrayToNSOF(heap, junk, e, array) ==
  LET size == PutXLong(Len(array.items)) IN
  IF Equal(heap, array.class, Sym(kSYM.array))
  THEN AddObjects(heap, junk, Put(e, <<KDCLNSOF.kPlainArray>> \o size), array.items)
  ELSE AddObjects(heap, junk, Put(e, <<KDCLNSOF.kArray>> \o size),
                  <<array.class>> \o array.items)

FrameToNSOF(heap, junk, e, frame) ==
  IF IsRect(heap, frame)
  THEN Put(e, <<KDCLNSOF.kSmallRect>> \o RectVals(heap, frame, junk))
  ELSE AddObjects(heap, junk, Put(e, <<KDCLNSOF.kFrame>> \o PutXLong(Len(frame.keys))),
                  frame.keys \o frame.values)

ToNSOF(heap, junk, e, ref) ==
  IF IsSymbol(heap, ref) THEN SymbolToNSOF(e, Name(heap, ref))
  ELSE LET object == heap[ref[2]] IN
       CASE object.type = "binary" -> BinaryToNSOF(heap, junk, e, object)
         [] object.type = "array" -> ArrayToNSOF(heap, junk, e, object)
         [] object.type = "frame" -> FrameToNSOF(heap, junk, e, object)

\* WasObjectEncoded: the places in mList that hold this object, a symbol of
\* the same name included.
Encoded(heap, e, ref) == {i \in DOMAIN e.list : Equal(heap, e.list[i], ref)}

\* TDCLNSEncoder::AddObject.
AddObject(heap, junk, e, ref) ==
  LET places == Encoded(heap, e, ref) IN
  CASE ~IsRealPtr(ref) -> PutRef(e, ref[2])
    [] IsRealPtr(ref) /\ places # {} ->
         PutPrecedent(e, (CHOOSE i \in places : \A j \in places : i <= j) - 1)
    [] IsRealPtr(ref) /\ places = {} ->
         ToNSOF(heap, junk, [e EXCEPT !.list = Append(@, ref)], ref)

Encode(heap, ref, junk) ==
  AddObject(heap, junk, [out |-> <<kNSOFVersion>>, list |-> <<>>], ref).out

----------------------------------------------------------------------------
(* The decoder *)

Fail(d) == [d EXCEPT !.ok = FALSE]
Skip(d, n) == [d EXCEPT !.in = SubSeq(@, n + 1, Len(@))]
Push(d, ref) == [d EXCEPT !.refs = Append(@, ref)]
Pop(d, n) == [d EXCEPT !.refs = SubSeq(@, 1, Len(@) - n)]
LastRefs(d, n) == SubSeq(d.refs, Len(d.refs) - n + 1, Len(d.refs))

\* AddObjectToList, for an object that was just made.
New(d, object) ==
  [d EXCEPT !.heap = Append(@, object), !.list = Append(@, Ptr(Len(d.heap) + 1))]

RECURSIVE GetNextObject(_)

GetObjects(d, n) ==
  FoldLeft(LAMBDA dec, i : GetNextObject(dec), d, [i \in 1 .. n |-> i])

SymbolFromNSOF(d, n) ==
  IF n # 1 \/ d.in = <<>> THEN Fail(d)
  ELSE Push(New(Skip(d, 1), NewSymbol(d.in[1])), Ptr(Len(d.heap) + 1))

StringFromNSOF(d, n) ==
  IF Len(d.in) < n THEN Fail(d)
  ELSE Push(New(Skip(d, n), NewBinary(Sym(kSYM.string), SubSeq(d.in, 1, n))),
            Ptr(Len(d.heap) + 1))

\* The object is in the list before its class, which may refer to it.
BinaryFromNSOF(d, n) ==
  LET o == Len(d.heap) + 1
      c == GetObjects(New(d, NewBinary(Sym(kSYM.binary), <<>>)), 1)
      binary == NewBinary(LastRefs(c, 1)[1], SubSeq(c.in, 1, n))
  IN IF ~c.ok \/ Len(c.in) < n THEN Fail(c)
     ELSE Push([Pop(Skip(c, n), 1) EXCEPT !.heap[o] = binary], Ptr(o))

ArrayFromNSOF(d, n, isPlain) ==
  LET o == Len(d.heap) + 1
      m == IF isPlain THEN n ELSE n + 1
      a == GetObjects(New(d, NewArray(Sym(kSYM.array), <<>>)), m)
      refs == LastRefs(a, m)
      array == IF isPlain THEN NewArray(Sym(kSYM.array), refs)
               ELSE NewArray(Head(refs), Tail(refs))
  IN IF ~a.ok THEN a ELSE Push([Pop(a, m) EXCEPT !.heap[o] = array], Ptr(o))

FrameFromNSOF(d, n) ==
  LET o == Len(d.heap) + 1
      f == GetObjects(New(d, [NewFrame EXCEPT !.sorted = FALSE]), 2 * n)
      keys == SubSeq(LastRefs(f, 2 * n), 1, n)
      values == LastRefs(f, n)
      frame == [type |-> "frame", keys |-> keys, values |-> values, sorted |-> FALSE,
                isFunction |-> LooksLikeFunction(f.heap, keys, values)]
  IN IF ~f.ok THEN f ELSE Push([Pop(f, 2 * n) EXCEPT !.heap[o] = frame], Ptr(o))

FrameFromNSOFAsRect(d) ==
  IF Len(d.in) < 4 THEN Fail(d)
  ELSE Push(New(Skip(d, 4),
                [type |-> "frame", keys |-> [i \in 1 .. 4 |-> Sym(RectKeys[i])],
                 values |-> [i \in 1 .. 4 |-> MakeInt(d.in[i])],
                 sorted |-> FALSE, isFunction |-> FALSE]),
            Ptr(Len(d.heap) + 1))

\* TDCLNSDecoder::GetObject.
GetObject(d, id) == IF id < Len(d.list) THEN Push(d, d.list[id + 1]) ELSE Fail(d)

GetChar(d, size) ==
  IF Len(d.in) < size THEN Fail(d)
  ELSE Push(Skip(d, size), MakeChar(IF size = 1 THEN d.in[1] ELSE Short(d.in)))

\* What follows the type, when it starts with an XLong.
GetSized(d, type) ==
  LET size == XLongSize(d.in)
      rest == Skip(d, size)
      n == XLong(d.in)
  IN CASE Len(d.in) < size -> Fail(d)
       [] OTHER ->
          CASE type = KDCLNSOF.kImmediate -> Push(rest, Ref(n))
            [] type = KDCLNSOF.kPrecedent -> GetObject(rest, n)
            [] type = KDCLNSOF.kSymbol -> SymbolFromNSOF(rest, n)
            [] type = KDCLNSOF.kString -> StringFromNSOF(rest, n)
            [] type = KDCLNSOF.kBinaryObject -> BinaryFromNSOF(rest, n)
            [] type = KDCLNSOF.kArray -> ArrayFromNSOF(rest, n, FALSE)
            [] type = KDCLNSOF.kPlainArray -> ArrayFromNSOF(rest, n, TRUE)
            [] type = KDCLNSOF.kFrame -> FrameFromNSOF(rest, n)
            [] OTHER -> Fail(d)

GetNextObject(d) ==
  LET rest == Skip(d, 1) IN
  CASE ~d.ok \/ d.in = <<>> -> Fail(d)
    [] OTHER ->
       CASE d.in[1] = KDCLNSOF.kNIL -> Push(rest, kNILREF)
         [] d.in[1] = KDCLNSOF.kCharacter -> GetChar(rest, 1)
         [] d.in[1] = KDCLNSOF.kUnicodeCharacter -> GetChar(rest, 2)
         [] d.in[1] = KDCLNSOF.kSmallRect -> FrameFromNSOFAsRect(rest)
         [] OTHER -> GetSized(rest, d.in[1])

\* A decoder made of these bytes, and the first object it returns.
Decode(bytes) ==
  LET d == [in |-> bytes, heap |-> <<>>, list |-> <<>>, refs |-> <<>>, ok |-> TRUE]
  IN IF bytes = <<>> \/ bytes[1] # kNSOFVersion THEN Fail(d)
     ELSE GetNextObject(Skip(d, 1))
=============================================================================
