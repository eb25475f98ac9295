----------------------------- MODULE NSObjects -----------------------------
(***************************************************************************)
(* The objects of DCL/NS_Objects: references, frames, arrays, binaries and *)
(* symbols, in a heap of their own.                                        *)
(*                                                                         *)
(* A heap is a sequence of objects.  A reference (TDCLNSRef) is a pair:    *)
(* <<"imm", r>> is the immediate with mRef = r, <<"sym", n>> the constant  *)
(* symbol n of KDCLSYM, <<"ptr", i>> a pointer to heap[i].  A symbol's     *)
(* name is one number, in the order in which TDCLNSSymbol::Compare puts    *)
(* the names: by the value of their hash function.                         *)
(***************************************************************************)
EXTENDS Integers, Sequences, FiniteSets, SequencesExt, TLC

CONSTANT SortThreshold   \* kSortThreshold: from here on a frame is sorted

ASSUME SortThresholdAssumption == SortThreshold \in Nat

----------------------------------------------------------------------------
(* References *)

kSYM == [argFrame |-> 1, right |-> 2, string |-> 3, class |-> 4, top |-> 5,
         CodeBlock |-> 6, numArgs |-> 7, instructions |-> 8, array |-> 9,
         literals |-> 10, left |-> 11, bottom |-> 12, binary |-> 13]

Ref(r) == <<"imm", r>>
Sym(name) == <<"sym", name>>
Ptr(i) == <<"ptr", i>>

kNILREF == Ref(2)
kNewFuncClass == Ref(50)
MakeInt(n) == Ref(4 * n)
MakeChar(c) == Ref(16 * c + 6)

IsInt(ref) == ref[1] = "imm" /\ ref[2] % 4 = 0
IsChar(ref) == ref[1] = "imm" /\ ref[2] % 16 = 6
IsRealPtr(ref) == ref[1] # "imm"
ToInt(ref) == ref[2] \div 4

IsSymbol(heap, ref) ==
  ref[1] = "sym" \/ (ref[1] = "ptr" /\ heap[ref[2]].type = "symbol")
Name(heap, ref) == IF ref[1] = "sym" THEN ref[2] ELSE heap[ref[2]].name

\* operator ==: the same reference, or symbols with one name.
Equal(heap, a, b) ==
  \/ a = b
  \/ IsSymbol(heap, a) /\ IsSymbol(heap, b) /\ Name(heap, a) = Name(heap, b)

----------------------------------------------------------------------------
(* Frames *)

NewFrame == [type |-> "frame", keys |-> <<>>, values |-> <<>>,
             sorted |-> TRUE, isFunction |-> FALSE]

\* GetKeyIndex: where the search for a name stops, past the end if nowhere.
KeyIndex(heap, frame, name) ==
  LET stops == {i \in DOMAIN frame.keys :
                  LET key == Name(heap, frame.keys[i]) IN
                  key = name \/ (frame.sorted /\ key > name)}
  IN IF stops = {} THEN Len(frame.keys) + 1
     ELSE CHOOSE i \in stops : \A j \in stops : i <= j

HasSlot(heap, frame, name) ==
  LET i == KeyIndex(heap, frame, name)
  IN i <= Len(frame.keys) /\ Name(heap, frame.keys[i]) = name

Get(heap, frame, name) ==
  IF HasSlot(heap, frame, name) THEN frame.values[KeyIndex(heap, frame, name)] ELSE kNILREF

\* Mutant: the frame is marked and left as it is.
SortedInName(heap, frame) == [frame EXCEPT !.sorted = TRUE]

\* Where the insertion sort puts a slot: behind those of lesser names, and
\* behind those of its own name that were ahead of it.
SortedPlace(heap, frame, i) ==
  LET name(j) == Name(heap, frame.keys[j])
  IN Cardinality({j \in DOMAIN frame.keys :
                    name(j) < name(i) \/ (name(j) = name(i) /\ j <= i)})

\* The insertion sort of Set.
Sorted(heap, frame) ==
  LET slot(n) == CHOOSE i \in DOMAIN frame.keys : SortedPlace(heap, frame, i) = n
  IN [frame EXCEPT !.keys = [n \in DOMAIN frame.keys |-> frame.keys[slot(n)]],
                   !.values = [n \in DOMAIN frame.keys |-> frame.values[slot(n)]],
                   !.sorted = TRUE]

Set(heap, frame, key, value) ==
  LET i == KeyIndex(heap, frame, Name(heap, key))
      added == [frame EXCEPT !.keys = InsertAt(@, i, key),
                             !.values = InsertAt(@, i, value)]
      sort == ~frame.isFunction /\ ~frame.sorted /\ Len(added.keys) > SortThreshold
  IN CASE HasSlot(heap, frame, Name(heap, key)) -> [frame EXCEPT !.values[i] = value]
       [] OTHER -> IF sort THEN Sorted(heap, added) ELSE added

\* A function without its class is a function no more.
RemoveSlot(heap, frame, name) ==
  LET i == KeyIndex(heap, frame, name) IN
  IF ~HasSlot(heap, frame, name) THEN frame
  ELSE [frame EXCEPT !.keys = RemoveAt(@, i), !.values = RemoveAt(@, i),
                     !.isFunction = @ /\ name # kSYM.class]

\* The constructor of TDCLNSFunction: five slots, in the order it sets them.
NewFunction ==
  [type |-> "frame",
   keys |-> <<Sym(kSYM.class), Sym(kSYM.instructions), Sym(kSYM.literals),
              Sym(kSYM.argFrame), Sym(kSYM.numArgs)>>,
   values |-> <<kNewFuncClass, kNILREF, kNILREF, kNILREF, MakeInt(0)>>,
   sorted |-> FALSE, isFunction |-> TRUE]

\* How a decoder knows a function: "the same test as on the Newton".
LooksLikeFunction(heap, keys, values) ==
  /\ keys # <<>>
  /\ Equal(heap, keys[1], Sym(kSYM.class))
  /\ values[1] = kNewFuncClass \/ Equal(heap, values[1], Sym(kSYM.CodeBlock))

----------------------------------------------------------------------------
(* Arrays, binaries and symbols *)

NewArray(class, items) == [type |-> "array", class |-> class, items |-> items]
NewBinary(class, data) == [type |-> "binary", class |-> class, data |-> data]
NewSymbol(name) == [type |-> "symbol", name |-> name]

Add(array, item) == [array EXCEPT !.items = Append(@, item)]

SetClass(heap, object, class) ==
  IF object.type = "frame" THEN Set(heap, object, Sym(kSYM.class), class)
  ELSE [object EXCEPT !.class = class]

----------------------------------------------------------------------------
(* What the properties say of heaps *)

Compound(heap) == {i \in DOMAIN heap : heap[i].type # "symbol"}
Slots(heap, frame) == {Name(heap, frame.keys[i]) : i \in DOMAIN frame.keys}

References == ({"imm"} \X Int) \cup ({"sym", "ptr"} \X Nat)
Frames == [type : {"frame"}, keys : Seq(References), values : Seq(References),
           sorted : BOOLEAN, isFunction : BOOLEAN]
Objects == Frames \cup [type : {"array"}, class : References, items : Seq(References)]
                  \cup [type : {"binary"}, class : References, data : Seq(Nat)]
                  \cup [type : {"symbol"}, name : Nat]

\* A reference that can be a key, and a frame with such keys and their values.
IsKey(heap, ref) ==
  ref[1] = "sym" \/ (ref[1] = "ptr" /\ ref[2] \in DOMAIN heap /\ IsSymbol(heap, ref))
Keyed(heap, frame) ==
  /\ frame \in Frames /\ Len(frame.values) = Len(frame.keys)
  /\ \A i \in DOMAIN frame.keys : IsKey(heap, frame.keys[i])

IsHeap(heap) ==
  /\ heap \in Seq(Objects)
  /\ \A o \in DOMAIN heap : heap[o].type = "frame" => Keyed(heap, heap[o])

\* Each slot is where GetKeyIndex looks for its key, and no key is there twice.
Findable(heap) ==
  \A o \in Compound(heap) : heap[o].type = "frame" =>
    \A i \in DOMAIN heap[o].keys :
      KeyIndex(heap, heap[o], Name(heap, heap[o].keys[i])) = i

\* The heaps g and h hold the same graph from their first objects on: some
\* one-to-one map of the objects of g to objects of h keeps classes, bytes,
\* items and what each slot's key leads to, and with it what is shared.
Same(g, h) ==
  \E f \in [Compound(g) -> Compound(h)] :
    LET SameRef(a, b) ==
          \/ IsSymbol(g, a) /\ IsSymbol(h, b) /\ Name(g, a) = Name(h, b)
          \/ a[1] = "imm" /\ a = b
          \/ /\ a[1] = "ptr" /\ b[1] = "ptr"
             /\ a[2] \in Compound(g) /\ b[2] = f[a[2]]
        SameItems(s, t) == Len(s) = Len(t) /\ \A i \in DOMAIN s : SameRef(s[i], t[i])
        SameObject(a, b) ==
          /\ a.type = b.type
          /\ CASE a.type = "binary" -> a.data = b.data /\ SameRef(a.class, b.class)
               [] a.type = "array" -> SameItems(a.items, b.items) /\ SameRef(a.class, b.class)
               [] a.type = "frame" ->
                    /\ Len(a.keys) = Len(b.keys)
                    /\ Slots(g, a) = Slots(h, b)
                    /\ \A name \in Slots(g, a) :
                         SameRef(Get(g, a, name), Get(h, b, name))
    IN /\ f[1] = 1
       /\ \A i, j \in Compound(g) : f[i] = f[j] => i = j
       /\ \A i \in Compound(g) : SameObject(g[i], h[f[i]])
=============================================================================
