------------------------ MODULE ObjectExchangeProofs ------------------------
(***************************************************************************)
(* Proofs about the bytes of a pipe and about the exchange of objects, for *)
(* every encoder and decoder, every capacity of the buffer and whatever    *)
(* send(), recv() and the Newton do: bytes arrive in order, those of a     *)
(* command stay in one piece on their way, an answer is read from its      *)
(* first byte to its last, and what the application has of it is found.    *)
(***************************************************************************)
EXTENDS ObjectExchange, FiniteSetTheorems, SequenceTheorems,
        NaturalsInduction, WellFoundedInduction, TLAPS

----------------------------------------------------------------------------
(* Sequences *)

\* What InsertAt makes of a sequence.
Inserted(S, s, i, e) ==
  /\ InsertAt(s, i, e) \in Seq(S)
  /\ Len(InsertAt(s, i, e)) = Len(s) + 1
  /\ \A j \in 1 .. Len(s) + 1 :
       InsertAt(s, i, e)[j] = IF j < i THEN s[j] ELSE IF j = i THEN e ELSE s[j - 1]

LEMMA InsertAtIs ==
  ASSUME NEW S, NEW s \in Seq(S), NEW i \in 1 .. Len(s) + 1, NEW e \in S
  PROVE  Inserted(S, s, i, e)
<1>0. Len(s) \in Nat
  OBVIOUS
<1>1. /\ SubSeq(s, 1, i - 1) \in Seq(S) /\ Len(SubSeq(s, 1, i - 1)) = i - 1
      /\ \A j \in 1 .. i - 1 : SubSeq(s, 1, i - 1)[j] = s[j]
  BY SubSeqProperties
<1>2. /\ SubSeq(s, i, Len(s)) \in Seq(S) /\ Len(SubSeq(s, i, Len(s))) = Len(s) - i + 1
      /\ \A j \in 1 .. Len(s) - i + 1 : SubSeq(s, i, Len(s))[j] = s[i + j - 1]
  BY SubSeqProperties
<1>3. PICK u \in Seq(S) : u = SubSeq(s, 1, i - 1)
  BY <1>1
<1>4. PICK t \in Seq(S) : t = u \o <<e>>
  <2>1. <<e>> \in Seq(S)
    OBVIOUS
  <2> QED
    BY <2>1, ConcatProperties
<1>5. Len(t) = i /\ \A j \in 1 .. i : t[j] = IF j < i THEN s[j] ELSE e
  <2>1. <<e>> \in Seq(S) /\ Len(<<e>>) = 1 /\ <<e>>[1] = e /\ Len(u) = i - 1
    BY <1>1, <1>3
  <2>2. /\ Len(t) = Len(u) + Len(<<e>>)
        /\ \A j \in 1 .. Len(u) + Len(<<e>>) :
             t[j] = IF j <= Len(u) THEN u[j] ELSE <<e>>[j - Len(u)]
    BY <1>4, <2>1, ConcatProperties
  <2> HIDE <1>4
  <2>3. PICK w : w = <<e>>
    OBVIOUS
  <2> QED
    BY <1>1, <1>3, <2>1, <2>2, <2>3
<1>6. PICK v \in Seq(S) : v = SubSeq(s, i, Len(s))
  BY <1>2
<1>7. Len(v) = Len(s) - i + 1 /\ \A j \in 1 .. Len(s) - i + 1 : v[j] = s[i + j - 1]
  BY <1>2, <1>6
<1>8. /\ t \o v \in Seq(S) /\ Len(t \o v) = Len(s) + 1
      /\ \A j \in 1 .. Len(s) + 1 : (t \o v)[j] = IF j <= i THEN t[j] ELSE v[j - i]
  <2>1. /\ t \o v \in Seq(S) /\ Len(t \o v) = Len(t) + Len(v)
        /\ \A j \in 1 .. Len(t) + Len(v) :
             (t \o v)[j] = IF j <= Len(t) THEN t[j] ELSE v[j - Len(t)]
    BY ConcatProperties
  <2>2. Len(t) = i /\ Len(t) + Len(v) = Len(s) + 1
    BY <1>0, <1>5, <1>7
  <2> QED
    BY <2>1, <2>2
<1>9. \A j \in 1 .. Len(s) + 1 :
        (t \o v)[j] = IF j < i THEN s[j] ELSE IF j = i THEN e ELSE s[j - 1]
  BY <1>0, <1>5, <1>7, <1>8
<1> QED
  BY <1>3, <1>4, <1>6, <1>8, <1>9 DEF InsertAt, Inserted

\* What RemoveAt makes of a sequence.
LEMMA RemoveAtIs ==
  ASSUME NEW S, NEW s \in Seq(S), NEW i \in 1 .. Len(s)
  PROVE  /\ RemoveAt(s, i) \in Seq(S)
         /\ Len(RemoveAt(s, i)) = Len(s) - 1
         /\ \A j \in 1 .. Len(s) - 1 :
              RemoveAt(s, i)[j] = IF j < i THEN s[j] ELSE s[j + 1]
<1>0. Len(s) \in Nat
  OBVIOUS
<1>1. /\ SubSeq(s, 1, i - 1) \in Seq(S) /\ Len(SubSeq(s, 1, i - 1)) = i - 1
      /\ \A j \in 1 .. i - 1 : SubSeq(s, 1, i - 1)[j] = s[j]
  BY SubSeqProperties
<1>2. /\ SubSeq(s, i + 1, Len(s)) \in Seq(S) /\ Len(SubSeq(s, i + 1, Len(s))) = Len(s) - i
      /\ \A j \in 1 .. Len(s) - i : SubSeq(s, i + 1, Len(s))[j] = s[i + j]
  BY SubSeqProperties
<1>3. PICK u \in Seq(S) : u = SubSeq(s, 1, i - 1)
  BY <1>1
<1>4. PICK v \in Seq(S) : v = SubSeq(s, i + 1, Len(s))
  BY <1>2
<1>5. /\ u \o v \in Seq(S) /\ Len(u \o v) = Len(s) - 1
      /\ \A j \in 1 .. Len(s) - 1 : (u \o v)[j] = IF j < i THEN u[j] ELSE v[j - i + 1]
  <2>1. Len(u) = i - 1 /\ Len(v) = Len(s) - i
    BY <1>1, <1>2, <1>3, <1>4
  <2> QED
    BY <1>0, <2>1, ConcatProperties
<1>6. ASSUME NEW j \in 1 .. Len(s) - 1
      PROVE  (u \o v)[j] = IF j < i THEN s[j] ELSE s[j + 1]
  <2>1. CASE j < i
    <3>1. j \in 1 .. i - 1
      BY <2>1
    <3> QED
      BY <1>1, <1>3, <1>5, <2>1, <3>1
  <2>2. CASE ~(j < i)
    <3>1. j - i + 1 \in 1 .. Len(s) - i /\ i + (j - i + 1) = j + 1
      BY <1>0, <2>2
    <3> QED
      BY <1>2, <1>4, <1>5, <2>2, <3>1
  <2> QED
    BY <2>1, <2>2
<1> QED
  BY <1>3, <1>4, <1>5, <1>6 DEF RemoveAt

\* The pairs of numbers in order, which is a well-founded relation.
Ascending == {p \in Nat \X Nat : p[1] < p[2]}

\* A set of numbers that is not empty has a least one.
LEMMA LeastPlace ==
  ASSUME NEW S, S \subseteq Nat, S # {}
  PROVE  \E i \in S : \A j \in S : i <= j
<1>1. OpToRel(<, Nat) = Ascending
  BY DEF OpToRel, Ascending
<1>2. IsWellFoundedOn(Ascending, Nat)
  BY <1>1, NatLessThanWellFounded, Zenon
<1>3. PICK i \in S : \A j \in S : <<j, i>> \notin Ascending
  BY <1>2, WFMin
<1>4. ASSUME NEW j \in S
      PROVE  i <= j
  <2>1. i \in Nat /\ j \in Nat /\ <<j, i>> \notin Ascending
    BY <1>3
  <2>2. j < i => <<j, i>> \in Ascending
    BY <2>1 DEF Ascending
  <2> QED
    BY <2>1, <2>2
<1> QED
  BY <1>4

----------------------------------------------------------------------------
(* The search of GetKeyIndex *)

NameAt(store, frame, i) == Name(store, frame.keys[i])

\* A frame whose keys have names.
Named(store, frame) ==
  frame \in Frames /\ \A i \in DOMAIN frame.keys : NameAt(store, frame, i) \in Nat

\* A key has a name.
LEMMA KeyHasName ==
  ASSUME NEW store \in Seq(Objects), NEW key \in References, IsKey(store, key)
  PROVE  Name(store, key) \in Nat
<1>1. CASE key[1] = "sym"
  BY <1>1 DEF References, Name
<1>2. CASE key[1] # "sym"
  <2>1. key[1] = "ptr" /\ key[2] \in DOMAIN store /\ store[key[2]].type = "symbol"
    BY <1>2 DEF IsKey, IsSymbol
  <2>2. store[key[2]] \in Objects
    BY <2>1
  <2>3. store[key[2]].name \in Nat
    BY <2>1, <2>2 DEF Objects, Frames
  <2> QED
    BY <1>2, <2>3 DEF Name
<1> QED
  BY <1>1, <1>2

\* So the keys of a frame have names.
LEMMA KeyedIsNamed ==
  ASSUME NEW store \in Seq(Objects), NEW frame, Keyed(store, frame)
  PROVE  Named(store, frame)
<1>1. \A i \in DOMAIN frame.keys : frame.keys[i] \in References /\ IsKey(store, frame.keys[i])
  BY DEF Keyed, Frames
<1> QED
  BY <1>1, KeyHasName DEF Keyed, Named, NameAt

\* No name is there twice, and the names of a sorted frame ascend.
InOrder(store, frame) ==
  \A i, j \in DOMAIN frame.keys : i < j =>
    /\ NameAt(store, frame, i) # NameAt(store, frame, j)
    /\ frame.sorted => NameAt(store, frame, i) < NameAt(store, frame, j)

Stops(store, frame, name, i) ==
  NameAt(store, frame, i) = name \/ (frame.sorted /\ NameAt(store, frame, i) > name)

\* The search goes past what does not stop it, and no further.
LEMMA KeyIndexIs ==
  ASSUME NEW store, NEW frame, Named(store, frame), NEW name
  PROVE  LET i == KeyIndex(store, frame, name) IN
         /\ i \in 1 .. Len(frame.keys) + 1
         /\ \A j \in DOMAIN frame.keys : j < i => ~Stops(store, frame, name, j)
         /\ i <= Len(frame.keys) => Stops(store, frame, name, i)
<1> DEFINE stops == {i \in DOMAIN frame.keys : Stops(store, frame, name, i)}
<1>1. Len(frame.keys) \in Nat /\ DOMAIN frame.keys = 1 .. Len(frame.keys)
  BY DEF Named, Frames
<1>2. KeyIndex(store, frame, name) =
        IF stops = {} THEN Len(frame.keys) + 1 ELSE CHOOSE i \in stops : \A j \in stops : i <= j
  BY DEF KeyIndex, Stops, NameAt
<1>3. CASE stops = {}
  BY <1>1, <1>2, <1>3
<1>4. CASE stops # {}
  <2>1. \E i \in stops : \A j \in stops : i <= j
    <3>1. stops \subseteq Nat
      BY <1>1
    <3> QED
      BY <1>4, <3>1, LeastPlace
  <2>2. /\ KeyIndex(store, frame, name) \in stops
        /\ \A j \in stops : KeyIndex(store, frame, name) <= j
    BY <1>2, <1>4, <2>1
  <2> QED
    BY <1>1, <2>2
<1> QED
  BY <1>3, <1>4

\* A frame is searched with success if and only if it is in order.
LEMMA FoundInOrder ==
  ASSUME NEW store, NEW frame, Named(store, frame)
  PROVE  (\A i \in DOMAIN frame.keys : KeyIndex(store, frame, NameAt(store, frame, i)) = i)
           <=> InOrder(store, frame)
<1>1. Len(frame.keys) \in Nat /\ DOMAIN frame.keys = 1 .. Len(frame.keys)
  BY DEF Named, Frames
<1>2. frame.sorted \in BOOLEAN /\ \A i \in DOMAIN frame.keys : NameAt(store, frame, i) \in Nat
  BY DEF Named, Frames
<1>3. ASSUME \A i \in DOMAIN frame.keys : KeyIndex(store, frame, NameAt(store, frame, i)) = i
      PROVE  InOrder(store, frame)
  <2> SUFFICES ASSUME NEW i \in DOMAIN frame.keys, NEW j \in DOMAIN frame.keys, i < j
               PROVE  ~Stops(store, frame, NameAt(store, frame, j), i)
    BY <1>1, <1>2 DEF InOrder, Stops
  <2>1. KeyIndex(store, frame, NameAt(store, frame, j)) = j
    BY <1>3
  <2> QED
    BY <2>1, KeyIndexIs
<1>4. ASSUME InOrder(store, frame), NEW i \in DOMAIN frame.keys
      PROVE  KeyIndex(store, frame, NameAt(store, frame, i)) = i
  <2>1. PICK k : k = KeyIndex(store, frame, NameAt(store, frame, i))
    OBVIOUS
  <2>2. /\ k \in 1 .. Len(frame.keys) + 1
        /\ \A j \in DOMAIN frame.keys : j < k => ~Stops(store, frame, NameAt(store, frame, i), j)
        /\ k <= Len(frame.keys) => Stops(store, frame, NameAt(store, frame, i), k)
    BY <2>1, KeyIndexIs
  <2>3. Stops(store, frame, NameAt(store, frame, i), i)
    BY DEF Stops
  <2>4. k <= i
    BY <1>1, <2>2, <2>3
  <2>5. ~(k < i)
    BY <1>1, <1>2, <1>4, <2>2 DEF InOrder, Stops
  <2> QED
    BY <1>1, <2>1, <2>2, <2>4, <2>5
<1> QED
  BY <1>3, <1>4

----------------------------------------------------------------------------
(* The insertion sort of Set *)

\* That n names are all different, and that places of them are in their order.
Different(n, names) == \A i, j \in 1 .. n : names[i] = names[j] => i = j
Follows(n, names, place) == \A i, j \in 1 .. n : names[i] < names[j] => place[i] < place[j]

\* As many places as names, and different ones for different names: none is free.
LEMMA EachPlaceTaken ==
  ASSUME NEW n \in Nat, NEW names \in [1 .. n -> Nat], NEW place \in [1 .. n -> 1 .. n],
         Different(n, names), Follows(n, names, place)
  PROVE  \A m \in 1 .. n : \E i \in 1 .. n : place[i] = m
<1>1. ASSUME NEW i \in 1 .. n, NEW j \in 1 .. n, place[i] = place[j]
      PROVE  i = j
  <2>1. names[i] \in Nat /\ names[j] \in Nat /\ place[i] \in 1 .. n
    BY Zenon
  <2>2. ~(place[i] < place[i])
    BY <2>1
  <2>3. ~(names[i] < names[j])
    BY <1>1, <2>2 DEF Follows
  <2>4. ~(names[j] < names[i])
    BY <1>1, <2>2 DEF Follows
  <2>5. names[i] = names[j]
    BY <2>1, <2>3, <2>4
  <2> QED
    BY <2>5 DEF Different
<1>2. place \in Injection(1 .. n, 1 .. n)
  BY <1>1 DEF Injection, IsInjective
<1>3. IsFiniteSet(1 .. n)
  BY FS_Interval
<1>4. place \in Surjection(1 .. n, 1 .. n)
  BY <1>2, <1>3, FS_Injection
<1> QED
  BY <1>4 DEF Surjection

\* Where the sort puts slots of these names.
Places(n, names) ==
  [i \in 1 .. n |-> Cardinality({j \in 1 .. n : names[j] < names[i]
                                                \/ (names[j] = names[i] /\ j <= i)})]

\* Where the sort puts the slots is a permutation of them in which lesser names
\* come first.
LEMMA SortedPlaces ==
  ASSUME NEW n \in Nat, NEW names \in [1 .. n -> Nat],
         Different(n, names)
  PROVE  /\ \A i \in 1 .. n : Places(n, names)[i] \in 1 .. n
         /\ Follows(n, names, Places(n, names))
         /\ \A m \in 1 .. n : \E i \in 1 .. n : Places(n, names)[i] = m
<1> DEFINE place == Places(n, names)
<1> DEFINE upTo(i) == {j \in 1 .. n : names[j] < names[i] \/ (names[j] = names[i] /\ j <= i)}
<1>1. IsFiniteSet(1 .. n) /\ Cardinality(1 .. n) = n
  BY FS_Interval
<1>2. ASSUME NEW i \in 1 .. n
      PROVE  /\ IsFiniteSet(upTo(i)) /\ Cardinality(upTo(i)) \in Nat
             /\ Cardinality(upTo(i)) <= n /\ Cardinality(upTo(i)) # 0
  <2>1. upTo(i) \in SUBSET (1 .. n) /\ i \in upTo(i)
    OBVIOUS
  <2>2. IsFiniteSet(upTo(i)) /\ Cardinality(upTo(i)) <= n
    BY <1>1, <2>1, FS_Subset
  <2>3. Cardinality(upTo(i)) \in Nat
    BY <2>2, FS_CardinalityType
  <2>4. Cardinality(upTo(i)) # 0
    BY <2>1, <2>2, FS_EmptySet
  <2> QED
    BY <2>2, <2>3, <2>4
<1>3. \A i \in 1 .. n : place[i] = Cardinality(upTo(i))
  BY DEF Places
<1>s. place = [i \in 1 .. n |-> place[i]]
  BY DEF Places
<1> HIDE DEF upTo, place
<1>4. ASSUME NEW i \in 1 .. n
      PROVE  place[i] \in 1 .. n
  <2>1. PICK c \in Nat : c = Cardinality(upTo(i)) /\ c <= n /\ c # 0
    BY <1>2
  <2>2. place[i] = c
    BY <1>3, <2>1, Zenon
  <2>3. c \in 1 .. n
    BY <2>1
  <2> QED
    BY <2>2, <2>3, Zenon
<1>5. ASSUME NEW i \in 1 .. n, NEW j \in 1 .. n, names[i] < names[j]
      PROVE  place[i] < place[j]
  <2>1. upTo(i) \subseteq upTo(j) /\ j \in upTo(j) /\ j \notin upTo(i)
    <3>1. \A k \in 1 .. n : names[k] \in Nat
      OBVIOUS
    <3> QED
      BY <1>5, <3>1 DEF upTo
  <2>2. Cardinality(upTo(i)) <= Cardinality(upTo(j)) /\ Cardinality(upTo(i)) # Cardinality(upTo(j))
    <3>1. upTo(i) \in SUBSET upTo(j) /\ upTo(i) # upTo(j)
      BY <2>1
    <3> QED
      BY <1>2, <3>1, FS_Subset
  <2>3. PICK c \in Nat, d \in Nat : c = Cardinality(upTo(i)) /\ d = Cardinality(upTo(j))
    BY <1>2
  <2> QED
    BY <1>3, <2>2, <2>3
<1>6. place \in [1 .. n -> 1 .. n]
  BY <1>4, <1>s
<1>7. Follows(n, names, place)
  BY <1>5 DEF Follows
<1> QED
  BY <1>4, <1>6, <1>7, EachPlaceTaken, Zenon DEF place

\* Any frame whose names are all different is in order after the sort.
LEMMA SortedInOrder ==
  ASSUME NEW store \in Seq(Objects), NEW frame, Keyed(store, frame),
         \A i, j \in DOMAIN frame.keys : NameAt(store, frame, i) = NameAt(store, frame, j) => i = j
  PROVE  Keyed(store, Sorted(store, frame)) /\ InOrder(store, Sorted(store, frame))
<1> DEFINE n == Len(frame.keys)
           names == [i \in 1 .. n |-> NameAt(store, frame, i)]
           place == Places(n, names)
           slot(m) == CHOOSE i \in 1 .. n : place[i] = m
           keys == [m \in 1 .. n |-> frame.keys[slot(m)]]
           values == [m \in 1 .. n |-> frame.values[slot(m)]]
<1>1. /\ n \in Nat /\ DOMAIN frame.keys = 1 .. n /\ DOMAIN frame.values = 1 .. n
      /\ \A i \in 1 .. n : /\ frame.keys[i] \in References /\ frame.values[i] \in References
                           /\ NameAt(store, frame, i) \in Nat /\ IsKey(store, frame.keys[i])
  BY KeyedIsNamed DEF Keyed, Named, Frames
<1>2. names \in [1 .. n -> Nat] /\ Different(n, names)
  BY <1>1 DEF Different
<1>3. /\ \A i \in 1 .. n : place[i] \in 1 .. n
      /\ Follows(n, names, place)
      /\ \A m \in 1 .. n : \E i \in 1 .. n : place[i] = m
  BY <1>1, <1>2, SortedPlaces
<1>4. \A i \in 1 .. n : SortedPlace(store, frame, i) = place[i]
  BY <1>1 DEF SortedPlace, NameAt, Places
<1>5. Sorted(store, frame) = [frame EXCEPT !.keys = keys, !.values = values, !.sorted = TRUE]
  <2> DEFINE found(m) == CHOOSE i \in DOMAIN frame.keys : SortedPlace(store, frame, i) = m
  <2>1. ASSUME NEW m
        PROVE  found(m) = slot(m)
    <3>1. \A i \in 1 .. n : SortedPlace(store, frame, i) = m <=> place[i] = m
      BY <1>4
    <3> HIDE DEF place
    <3> QED
      BY <1>1, <3>1
  <2> HIDE DEF found, slot
  <2>2. Sorted(store, frame) =
          [frame EXCEPT !.keys = [m \in DOMAIN frame.keys |-> frame.keys[found(m)]],
                        !.values = [m \in DOMAIN frame.keys |-> frame.values[found(m)]],
                        !.sorted = TRUE]
    BY DEF Sorted, found
  <2>3. /\ [m \in DOMAIN frame.keys |-> frame.keys[found(m)]] = keys
        /\ [m \in DOMAIN frame.keys |-> frame.values[found(m)]] = values
    BY <1>1, <2>1
  <2> QED
    BY <2>2, <2>3
<1> HIDE DEF place
<1>6. ASSUME NEW m \in 1 .. n
      PROVE  slot(m) \in 1 .. n /\ place[slot(m)] = m
  BY <1>3
<1> HIDE DEF slot
<1>7. /\ Sorted(store, frame) \in Frames
      /\ Sorted(store, frame).keys = keys /\ Sorted(store, frame).values = values
      /\ Sorted(store, frame).sorted = TRUE
  <2>1. keys \in Seq(References) /\ values \in Seq(References)
    <3>1. \A m \in 1 .. n : frame.keys[slot(m)] \in References /\ frame.values[slot(m)] \in References
      BY <1>1, <1>6
    <3> QED
      BY <1>1, <3>1
  <2> QED
    BY <1>5, <2>1 DEF Keyed, Frames
<1>8. Keyed(store, Sorted(store, frame))
  <2>1. Len(keys) = n /\ Len(values) = n
    BY <1>1
  <2> QED
    BY <1>1, <1>6, <1>7, <2>1 DEF Keyed
<1>9. ASSUME NEW i \in 1 .. n, NEW j \in 1 .. n, i < j
      PROVE  names[slot(i)] < names[slot(j)]
  <2>1. /\ slot(i) \in 1 .. n /\ slot(j) \in 1 .. n
        /\ place[slot(i)] = i /\ place[slot(j)] = j
    BY <1>6
  <2>2. ~(names[slot(j)] < names[slot(i)])
    <3>1. names[slot(j)] < names[slot(i)] => place[slot(j)] < place[slot(i)]
      BY <1>3, <2>1 DEF Follows
    <3> QED
      BY <1>9, <2>1, <3>1
  <2>3. names[slot(i)] # names[slot(j)]
    BY <1>2, <1>9, <2>1 DEF Different
  <2>4. names[slot(i)] \in Nat /\ names[slot(j)] \in Nat
    BY <1>2, <2>1
  <2> QED
    BY <2>2, <2>3, <2>4
<1>10. \A m \in 1 .. n : NameAt(store, Sorted(store, frame), m) = names[slot(m)]
  BY <1>6, <1>7 DEF NameAt
<1>11. DOMAIN Sorted(store, frame).keys = 1 .. n
  BY <1>7
<1> HIDE DEF names
<1>12. \A m \in 1 .. n : names[slot(m)] \in Nat
  BY <1>2, <1>6
<1> QED
  BY <1>8, <1>9, <1>10, <1>11, <1>12 DEF InOrder

----------------------------------------------------------------------------
(* Set and RemoveSlot *)

\* A slot that is not found is nowhere, and where the search stops is its place.
LEMMA AddedInOrder ==
  ASSUME NEW store \in Seq(Objects), NEW frame, Keyed(store, frame), InOrder(store, frame),
         NEW key \in References, IsKey(store, key), NEW value \in References,
         ~HasSlot(store, frame, Name(store, key)),
         NEW i, i = KeyIndex(store, frame, Name(store, key)),
         NEW added, added = [frame EXCEPT !.keys = InsertAt(@, i, key),
                                          !.values = InsertAt(@, i, value)]
  PROVE  Keyed(store, added) /\ InOrder(store, added)
<1> DEFINE n == Len(frame.keys)
<1>1. /\ n \in Nat /\ DOMAIN frame.keys = 1 .. n /\ Len(frame.values) = n
      /\ frame.keys \in Seq(References) /\ frame.values \in Seq(References)
      /\ frame \in Frames /\ Named(store, frame)
      /\ \A j \in 1 .. n : NameAt(store, frame, j) \in Nat /\ IsKey(store, frame.keys[j])
  BY KeyedIsNamed DEF Keyed, Named, Frames
<1>2. /\ i \in 1 .. n + 1
      /\ \A j \in 1 .. n : j < i => ~Stops(store, frame, Name(store, key), j)
      /\ i <= n => Stops(store, frame, Name(store, key), i)
  BY <1>1, KeyIndexIs
<1>3. i <= n => NameAt(store, frame, i) # Name(store, key)
  BY DEF HasSlot, NameAt
<1>4. /\ added \in Frames /\ added.sorted = frame.sorted
      /\ added.keys = InsertAt(frame.keys, i, key)
      /\ added.values = InsertAt(frame.values, i, value)
  <2>1. InsertAt(frame.keys, i, key) \in Seq(References) /\ InsertAt(frame.values, i, value) \in Seq(References)
    <3>1. /\ Inserted(References, frame.keys, i, key)
          /\ Inserted(References, frame.values, i, value)
      BY <1>1, <1>2, InsertAtIs
    <3> QED
      BY <3>1 DEF Inserted
  <2> QED
    BY <1>1, <2>1 DEF Frames
<1>5. /\ Len(added.keys) = n + 1 /\ Len(added.values) = n + 1 /\ DOMAIN added.keys = 1 .. n + 1
      /\ \A j \in 1 .. n + 1 :
           added.keys[j] = IF j < i THEN frame.keys[j] ELSE IF j = i THEN key ELSE frame.keys[j - 1]
  <2>1. PICK keys, values : keys = frame.keys /\ values = frame.values
    OBVIOUS
  <2>2. /\ keys \in Seq(References) /\ values \in Seq(References)
        /\ i \in 1 .. Len(keys) + 1 /\ i \in 1 .. Len(values) + 1
        /\ Len(keys) = n /\ Len(values) = n /\ key \in References /\ value \in References
    BY <1>1, <1>2, <2>1
  <2>3. /\ InsertAt(keys, i, key) \in Seq(References) /\ Len(InsertAt(keys, i, key)) = Len(keys) + 1
        /\ \A j \in 1 .. Len(keys) + 1 :
             InsertAt(keys, i, key)[j] =
               IF j < i THEN keys[j] ELSE IF j = i THEN key ELSE keys[j - 1]
    <3>1. Inserted(References, keys, i, key)
      BY <2>2, InsertAtIs, Zenon
    <3> QED
      BY <3>1 DEF Inserted
  <2>4. Len(InsertAt(values, i, value)) = Len(values) + 1
    <3>1. Inserted(References, values, i, value)
      BY <2>2, InsertAtIs, Zenon
    <3> QED
      BY <3>1 DEF Inserted
  <2>5. PICK new : new = InsertAt(keys, i, key)
    OBVIOUS
  <2>6. new \in Seq(References) /\ Len(new) = n + 1
    BY <2>2, <2>3, <2>5
  <2>7. DOMAIN new = 1 .. n + 1
    BY <2>6
  <2>8. /\ added.keys = new /\ Len(added.values) = n + 1
    BY <1>4, <2>1, <2>2, <2>4, <2>5
  <2> QED
    BY <2>1, <2>2, <2>3, <2>5, <2>6, <2>7, <2>8
<1>6. ASSUME NEW j \in 1 .. n + 1
      PROVE  IsKey(store, added.keys[j])
  <2>1. CASE j < i
    BY <1>1, <1>2, <1>5, <2>1
  <2>2. CASE j = i
    BY <1>5, <2>2
  <2>3. CASE i < j
    <3>1. j - 1 \in 1 .. n /\ ~(j < i) /\ j # i
      BY <1>1, <1>2, <2>3
    <3> QED
      BY <1>1, <1>5, <3>1
  <2> QED
    BY <1>2, <2>1, <2>2, <2>3
<1>7. Keyed(store, added)
  BY <1>4, <1>5, <1>6 DEF Keyed
<1>8. PICK name : name = Name(store, key)
  OBVIOUS
<1>9. \A j \in 1 .. n + 1 :
        NameAt(store, added, j) = IF j < i THEN NameAt(store, frame, j)
                                 ELSE IF j = i THEN name ELSE NameAt(store, frame, j - 1)
  BY <1>5, <1>8 DEF NameAt
<1>10. name \in Nat
  BY <1>8, KeyHasName
<1>11. frame.sorted \in BOOLEAN
  BY <1>1 DEF Frames
<1>12. \A j, k \in 1 .. n : j < k =>
         /\ NameAt(store, frame, j) # NameAt(store, frame, k)
         /\ frame.sorted => NameAt(store, frame, j) < NameAt(store, frame, k)
  BY <1>1 DEF InOrder
<1>13. \A j \in 1 .. n :
         /\ NameAt(store, frame, j) # name
         /\ frame.sorted /\ j < i => NameAt(store, frame, j) < name
         /\ frame.sorted /\ ~(j < i) => name < NameAt(store, frame, j)
  <2> SUFFICES ASSUME NEW j \in 1 .. n
               PROVE  /\ NameAt(store, frame, j) # name
                      /\ frame.sorted /\ j < i => NameAt(store, frame, j) < name
                      /\ frame.sorted /\ ~(j < i) => name < NameAt(store, frame, j)
    OBVIOUS
  <2>1. CASE j < i
    BY <1>1, <1>2, <1>8, <1>10, <2>1 DEF Stops
  <2>2. CASE ~(j < i) /\ frame.sorted
    <3>1. i <= n /\ i \in 1 .. n
      BY <1>1, <1>2, <2>2
    <3>2. name < NameAt(store, frame, i)
      BY <1>1, <1>2, <1>3, <1>8, <1>10, <3>1 DEF Stops
    <3>3. i = j \/ NameAt(store, frame, i) < NameAt(store, frame, j)
      BY <1>2, <1>12, <2>2, <3>1
    <3> QED
      BY <1>1, <1>10, <2>2, <3>1, <3>2, <3>3
  <2>3. CASE ~(j < i) /\ ~frame.sorted
    BY <1>1, <1>2, <1>3, <1>8, <2>3 DEF Stops
  <2> QED
    BY <2>1, <2>2, <2>3
<1>14. ASSUME NEW j \in 1 .. n + 1, NEW k \in 1 .. n + 1, j < k
       PROVE  /\ NameAt(store, added, j) # NameAt(store, added, k)
              /\ frame.sorted => NameAt(store, added, j) < NameAt(store, added, k)
  <2>1. CASE k < i
    BY <1>1, <1>2, <1>9, <1>12, <1>14, <2>1
  <2>2. CASE k = i
    BY <1>1, <1>2, <1>9, <1>13, <1>14, <2>2
  <2>3. CASE i < k
    <3>1. k - 1 \in 1 .. n /\ ~(k - 1 < i) /\ NameAt(store, added, k) = NameAt(store, frame, k - 1)
      BY <1>1, <1>2, <1>9, <2>3
    <3>2. CASE j < i
      <4>1. j \in 1 .. n /\ j < k - 1 /\ NameAt(store, added, j) = NameAt(store, frame, j)
        BY <1>1, <1>2, <1>9, <2>3, <3>2
      <4> QED
        BY <1>12, <3>1, <4>1
    <3>3. CASE j = i
      <4>1. NameAt(store, added, j) = name
        BY <1>9, <3>3
      <4> QED
        BY <1>13, <3>1, <4>1
    <3>4. CASE i < j
      <4>1. /\ j - 1 \in 1 .. n /\ j - 1 < k - 1
            /\ NameAt(store, added, j) = NameAt(store, frame, j - 1)
        BY <1>1, <1>2, <1>9, <1>14, <3>4
      <4> QED
        BY <1>12, <3>1, <4>1
    <3> QED
      BY <1>2, <3>2, <3>3, <3>4
  <2> QED
    BY <1>2, <2>1, <2>2, <2>3
<1> QED
  BY <1>4, <1>5, <1>7, <1>14 DEF InOrder

\* Set keeps a frame in order: it overwrites a value, adds a slot where it is
\* searched for, or sorts the slots and marks the frame.
LEMMA SetInOrder ==
  ASSUME NEW store \in Seq(Objects), NEW frame, Keyed(store, frame), InOrder(store, frame),
         NEW key \in References, IsKey(store, key), NEW value \in References
  PROVE  Keyed(store, Set(store, frame, key, value)) /\ InOrder(store, Set(store, frame, key, value))
<1>1. PICK i : i = KeyIndex(store, frame, Name(store, key))
  OBVIOUS
<1>2. frame \in Frames /\ Named(store, frame)
  BY KeyedIsNamed DEF Keyed
<1>3. CASE HasSlot(store, frame, Name(store, key))
  <2>1. i \in 1 .. Len(frame.keys)
    BY <1>1, <1>2, <1>3, KeyIndexIs DEF HasSlot, Frames
  <2>2. Set(store, frame, key, value) = [frame EXCEPT !.values[i] = value]
    BY <1>1, <1>3 DEF Set
  <2>3. PICK values : values = [frame.values EXCEPT ![i] = value]
    OBVIOUS
  <2>4. values \in Seq(References) /\ Len(values) = Len(frame.keys)
    BY <1>2, <2>1, <2>3 DEF Keyed, Frames
  <2>5. Set(store, frame, key, value) = [frame EXCEPT !.values = values]
    BY <2>2, <2>3
  <2>6. /\ Set(store, frame, key, value) \in Frames
        /\ Set(store, frame, key, value).keys = frame.keys
        /\ Set(store, frame, key, value).values = values
        /\ Set(store, frame, key, value).sorted = frame.sorted
    BY <1>2, <2>4, <2>5 DEF Frames
  <2> QED
    BY <2>4, <2>6 DEF Keyed, InOrder, NameAt
<1>4. CASE ~HasSlot(store, frame, Name(store, key))
  <2>1. PICK added : added = [frame EXCEPT !.keys = InsertAt(@, i, key),
                                           !.values = InsertAt(@, i, value)]
    OBVIOUS
  <2>2. Keyed(store, added) /\ InOrder(store, added)
    BY <1>1, <1>4, <2>1, AddedInOrder
  <2>3. Set(store, frame, key, value) \in {added, Sorted(store, added)}
    BY <1>1, <1>4, <2>1 DEF Set
  <2>4. DOMAIN added.keys = 1 .. Len(added.keys) /\ Len(added.keys) \in Nat
    BY <2>2 DEF Keyed, Frames
  <2>5. \A j, k \in DOMAIN added.keys : NameAt(store, added, j) = NameAt(store, added, k) => j = k
    BY <2>2, <2>4 DEF InOrder
  <2>6. Keyed(store, Sorted(store, added)) /\ InOrder(store, Sorted(store, added))
    BY <2>2, <2>5, SortedInOrder
  <2> QED
    BY <2>2, <2>3, <2>6
<1> QED
  BY <1>3, <1>4

\* RemoveSlot keeps a frame in order.
LEMMA RemovedInOrder ==
  ASSUME NEW store \in Seq(Objects), NEW frame, Keyed(store, frame), InOrder(store, frame),
         NEW name
  PROVE  Keyed(store, RemoveSlot(store, frame, name)) /\ InOrder(store, RemoveSlot(store, frame, name))
<1>1. PICK i : i = KeyIndex(store, frame, name)
  OBVIOUS
<1>2. frame \in Frames /\ Named(store, frame)
  BY KeyedIsNamed DEF Keyed
<1>3. CASE ~HasSlot(store, frame, name)
  BY <1>3 DEF RemoveSlot
<1>4. CASE HasSlot(store, frame, name)
  <2>1. PICK n \in Nat : n = Len(frame.keys)
    BY <1>2 DEF Frames
  <2>2. i \in 1 .. n
    BY <1>1, <1>2, <1>4, <2>1, KeyIndexIs DEF HasSlot
  <2>3. PICK keys, values : keys = RemoveAt(frame.keys, i) /\ values = RemoveAt(frame.values, i)
    OBVIOUS
  <2>4. /\ frame.keys \in Seq(References) /\ frame.values \in Seq(References) /\ Len(frame.values) = n
        /\ DOMAIN frame.keys = 1 .. n
    BY <1>2, <2>1 DEF Keyed, Frames
  <2>5. /\ keys \in Seq(References) /\ values \in Seq(References)
        /\ Len(keys) = n - 1 /\ Len(values) = n - 1
        /\ \A j \in 1 .. n - 1 : keys[j] = IF j < i THEN frame.keys[j] ELSE frame.keys[j + 1]
    <3>1. /\ RemoveAt(frame.keys, i) \in Seq(References) /\ Len(RemoveAt(frame.keys, i)) = n - 1
          /\ \A j \in 1 .. n - 1 : RemoveAt(frame.keys, i)[j] =
                                     IF j < i THEN frame.keys[j] ELSE frame.keys[j + 1]
      <4>1. i \in 1 .. Len(frame.keys)
        BY <2>1, <2>2
      <4> QED
        BY <2>1, <2>4, <4>1, RemoveAtIs
    <3>2. RemoveAt(frame.values, i) \in Seq(References) /\ Len(RemoveAt(frame.values, i)) = n - 1
      <4>1. i \in 1 .. Len(frame.values)
        BY <2>2, <2>4
      <4> QED
        BY <2>4, <4>1, RemoveAtIs
    <3> QED
      BY <2>3, <3>1, <3>2
  <2>6. PICK new : new = RemoveSlot(store, frame, name)
    OBVIOUS
  <2>7. new = [frame EXCEPT !.keys = keys, !.values = values,
                            !.isFunction = @ /\ name # kSYM.class]
    BY <1>1, <1>4, <2>3, <2>6 DEF RemoveSlot
  <2>8. new \in Frames /\ new.keys = keys /\ new.values = values /\ new.sorted = frame.sorted
    BY <1>2, <2>5, <2>7 DEF Frames
  <2>9. DOMAIN keys = 1 .. n - 1
    BY <2>5
  <2>10. \A j \in 1 .. n - 1 : \E k \in 1 .. n : keys[j] = frame.keys[k]
    BY <2>2, <2>5
  <2>11. Keyed(store, new)
    BY <2>4, <2>5, <2>8, <2>9, <2>10 DEF Keyed
  <2>12. ASSUME NEW j \in 1 .. n - 1, NEW k \in 1 .. n - 1, j < k
         PROVE  /\ NameAt(store, new, j) # NameAt(store, new, k)
                /\ new.sorted => NameAt(store, new, j) < NameAt(store, new, k)
    <3>1. PICK a \in 1 .. n, b \in 1 .. n :
            a < b /\ keys[j] = frame.keys[a] /\ keys[k] = frame.keys[b]
      <4>1. CASE k < i
        BY <2>2, <2>5, <2>12, <4>1
      <4>2. CASE j < i /\ ~(k < i)
        <5>1. k + 1 \in 1 .. n /\ j \in 1 .. n /\ j < k + 1
          BY <2>12
        <5> QED
          BY <2>5, <4>2, <5>1
      <4>3. CASE ~(j < i)
        <5>1. k + 1 \in 1 .. n /\ j + 1 \in 1 .. n /\ j + 1 < k + 1 /\ ~(k < i)
          BY <2>2, <2>12, <4>3
        <5> QED
          BY <2>5, <4>3, <5>1
      <4> QED
        BY <4>1, <4>2, <4>3
    <3>2. /\ NameAt(store, new, j) = NameAt(store, frame, a)
          /\ NameAt(store, new, k) = NameAt(store, frame, b)
      BY <2>8, <3>1 DEF NameAt
    <3> QED
      BY <2>4, <2>8, <3>1, <3>2 DEF InOrder
  <2> QED
    BY <2>6, <2>8, <2>9, <2>11, <2>12 DEF InOrder
<1> QED
  BY <1>3, <1>4

----------------------------------------------------------------------------
(* Heaps *)

\* Each slot is found if and only if each frame is in order.
LEMMA FindableIs ==
  ASSUME NEW store, IsHeap(store)
  PROVE  Findable(store) <=>
           \A o \in DOMAIN store : store[o].type = "frame" => InOrder(store, store[o])
<1>1. ASSUME NEW o \in DOMAIN store, store[o].type = "frame"
      PROVE  (\A i \in DOMAIN store[o].keys :
                KeyIndex(store, store[o], Name(store, store[o].keys[i])) = i)
               <=> InOrder(store, store[o])
  <2>1. store \in Seq(Objects) /\ Keyed(store, store[o])
    BY <1>1 DEF IsHeap
  <2>2. Named(store, store[o])
    BY <2>1, KeyedIsNamed
  <2>3. (\A i \in DOMAIN store[o].keys : KeyIndex(store, store[o], NameAt(store, store[o], i)) = i)
           <=> InOrder(store, store[o])
    BY <2>2, FoundInOrder
  <2> QED
    BY <2>3 DEF NameAt
<1>2. Findable(store) <=>
        \A o \in DOMAIN store : store[o].type = "frame" =>
          \A i \in DOMAIN store[o].keys :
            KeyIndex(store, store[o], Name(store, store[o].keys[i])) = i
  BY DEF Findable, Compound
<1> QED
  BY <1>1, <1>2

\* A change of an object that is no symbol leaves keys and names.
LEMMA KeysStay ==
  ASSUME NEW store \in Seq(Objects), NEW o \in DOMAIN store, NEW object,
         store[o].type # "symbol", object.type = store[o].type,
         NEW key \in References, IsKey(store, key)
  PROVE  /\ IsKey([store EXCEPT ![o] = object], key)
         /\ Name([store EXCEPT ![o] = object], key) = Name(store, key)
<1>1. PICK new : new = [store EXCEPT ![o] = object]
  OBVIOUS
<1>2. DOMAIN new = DOMAIN store /\ \A i \in DOMAIN store : i # o => new[i] = store[i]
  BY <1>1
<1>3. CASE key[1] = "sym"
  BY <1>1, <1>3 DEF IsKey, Name
<1>4. CASE key[1] # "sym"
  <2>1. key[1] = "ptr" /\ key[2] \in DOMAIN store /\ store[key[2]].type = "symbol"
    BY <1>4 DEF IsKey, IsSymbol
  <2>2. new[key[2]] = store[key[2]]
    BY <1>2, <2>1
  <2> QED
    BY <1>1, <1>2, <1>4, <2>1, <2>2 DEF IsKey, IsSymbol, Name
<1> QED
  BY <1>3, <1>4

\* With it, what is found elsewhere stays found.
LEMMA ChangedHeap ==
  ASSUME NEW store, IsHeap(store), Findable(store), NEW o \in DOMAIN store,
         NEW object \in Objects, store[o].type # "symbol", object.type = store[o].type,
         object.type = "frame" => Keyed(store, object) /\ InOrder(store, object)
  PROVE  /\ IsHeap([store EXCEPT ![o] = object])
         /\ Findable([store EXCEPT ![o] = object])
<1>1. PICK new : new = [store EXCEPT ![o] = object]
  OBVIOUS
<1>2. store \in Seq(Objects) /\ new \in Seq(Objects) /\ DOMAIN new = DOMAIN store
  BY <1>1 DEF IsHeap
<1>3. ASSUME NEW i \in DOMAIN new, new[i].type = "frame"
      PROVE  Keyed(store, new[i]) /\ InOrder(store, new[i])
  <2>1. CASE i = o
    BY <1>1, <1>2, <1>3, <2>1
  <2>2. CASE i # o
    <3>1. new[i] = store[i] /\ i \in DOMAIN store
      BY <1>1, <1>2, <2>2
    <3> QED
      BY <1>3, <3>1, FindableIs DEF IsHeap
  <2> QED
    BY <2>1, <2>2
<1>4. ASSUME NEW frame, Keyed(store, frame), InOrder(store, frame)
      PROVE  Keyed(new, frame) /\ InOrder(new, frame)
  <2>1. \A i \in DOMAIN frame.keys : frame.keys[i] \in References /\ IsKey(store, frame.keys[i])
    BY <1>4 DEF Keyed, Frames
  <2>2. \A i \in DOMAIN frame.keys : /\ IsKey(new, frame.keys[i])
                                     /\ Name(new, frame.keys[i]) = Name(store, frame.keys[i])
    <3> SUFFICES ASSUME NEW i \in DOMAIN frame.keys
                 PROVE  /\ IsKey(new, frame.keys[i])
                        /\ Name(new, frame.keys[i]) = Name(store, frame.keys[i])
      OBVIOUS
    <3>1. PICK key \in References : key = frame.keys[i] /\ IsKey(store, key)
      BY <2>1
    <3> QED
      <4>1. store \in Seq(Objects) /\ IsKey(store, key)
        BY <1>2, <3>1
      <4>2. /\ IsKey([store EXCEPT ![o] = object], key)
            /\ Name([store EXCEPT ![o] = object], key) = Name(store, key)
        BY <4>1, KeysStay
      <4> QED
        BY <1>1, <3>1, <4>2
  <2> QED
    BY <1>4, <2>2 DEF Keyed, InOrder, NameAt
<1>5. IsHeap(new)
  BY <1>2, <1>3, <1>4 DEF IsHeap
<1>6. Findable(new)
  BY <1>3, <1>4, <1>5, FindableIs
<1> QED
  BY <1>1, <1>5, <1>6

\* Set on a frame of a heap.
LEMMA SetIsFound ==
  ASSUME NEW store, IsHeap(store), Findable(store), NEW o \in DOMAIN store,
         store[o].type = "frame", NEW name \in Nat, NEW value \in References
  PROVE  LET new == [store EXCEPT ![o] = Set(store, store[o], Sym(name), value)]
         IN  IsHeap(new) /\ Findable(new)
<1>1. store \in Seq(Objects) /\ Keyed(store, store[o]) /\ InOrder(store, store[o])
  BY FindableIs DEF IsHeap
<1>2. Sym(name) \in References /\ IsKey(store, Sym(name))
  BY DEF Sym, References, IsKey
<1>3. PICK frame : frame = Set(store, store[o], Sym(name), value)
  OBVIOUS
<1>4. Keyed(store, frame) /\ InOrder(store, frame)
  BY <1>1, <1>2, <1>3, SetInOrder
<1>5. frame \in Objects /\ frame.type = "frame"
  BY <1>4 DEF Keyed, Frames, Objects
<1> QED
  BY <1>3, <1>4, <1>5, ChangedHeap

\* RemoveSlot on a frame of a heap.
LEMMA RemovedIsFound ==
  ASSUME NEW store, IsHeap(store), Findable(store), NEW o \in DOMAIN store,
         store[o].type = "frame", NEW name
  PROVE  LET new == [store EXCEPT ![o] = RemoveSlot(store, store[o], name)]
         IN  IsHeap(new) /\ Findable(new)
<1>1. store \in Seq(Objects) /\ Keyed(store, store[o]) /\ InOrder(store, store[o])
  BY FindableIs DEF IsHeap
<1>2. PICK frame : frame = RemoveSlot(store, store[o], name)
  OBVIOUS
<1>3. Keyed(store, frame) /\ InOrder(store, frame)
  BY <1>1, <1>2, RemovedInOrder
<1>4. frame \in Objects /\ frame.type = "frame"
  BY <1>3 DEF Keyed, Frames, Objects
<1> QED
  BY <1>2, <1>3, <1>4, ChangedHeap

\* Arrays and binaries have no slots to find.
LEMMA OthersAreFound ==
  ASSUME NEW store, IsHeap(store), Findable(store), NEW o \in DOMAIN store, NEW value \in References
  PROVE  /\ store[o].type = "array" =>
              LET new == [store EXCEPT ![o] = Add(store[o], value)]
              IN  IsHeap(new) /\ Findable(new)
         /\ store[o].type \in {"array", "binary"} =>
              LET new == [store EXCEPT ![o] = SetClass(store, store[o], value)]
              IN  IsHeap(new) /\ Findable(new)
<1>1. store[o] \in Objects
  BY DEF IsHeap
<1>2. ASSUME store[o].type = "array"
      PROVE  Add(store[o], value) \in Objects /\ Add(store[o], value).type = "array"
  BY <1>1, <1>2 DEF Add, Objects, Frames
<1>3. ASSUME store[o].type \in {"array", "binary"}
      PROVE  /\ SetClass(store, store[o], value) \in Objects
             /\ SetClass(store, store[o], value).type = store[o].type
  BY <1>1, <1>3 DEF SetClass, Objects, Frames
<1> QED
  BY <1>2, <1>3, ChangedHeap

\* A heap with the graph of another one has its slots, and as many: so none of
\* its keys is there twice.  It is searched from end to end.
LEMMA SameIsFound ==
  ASSUME NEW g, NEW h, IsHeap(g), IsHeap(h), Same(g, h), Findable(h),
         \A o \in DOMAIN g : g[o].type = "frame" => ~g[o].sorted
  PROVE  Findable(g)
<1> SUFFICES ASSUME NEW o \in DOMAIN g, g[o].type = "frame"
             PROVE  InOrder(g, g[o])
  BY FindableIs
<1>1. PICK p \in DOMAIN h : /\ h[p].type = "frame" /\ Len(g[o].keys) = Len(h[p].keys)
                            /\ Slots(g, g[o]) = Slots(h, h[p])
  <2>1. PICK f \in [Compound(g) -> Compound(h)] :
          \A i \in Compound(g) :
            /\ g[i].type = h[f[i]].type
            /\ g[i].type = "frame" => /\ Len(g[i].keys) = Len(h[f[i]].keys)
                                      /\ Slots(g, g[i]) = Slots(h, h[f[i]])
    BY DEF Same
  <2>2. o \in Compound(g) /\ f[o] \in Compound(h) /\ f[o] \in DOMAIN h
    BY <2>1 DEF Compound
  <2>3. /\ h[f[o]].type = "frame" /\ Len(g[o].keys) = Len(h[f[o]].keys)
        /\ Slots(g, g[o]) = Slots(h, h[f[o]])
    BY <2>1, <2>2, Zenon
  <2> QED
    BY <2>2, <2>3, Zenon
<1>2. /\ Keyed(g, g[o]) /\ Keyed(h, h[p]) /\ InOrder(h, h[p]) /\ ~g[o].sorted
  BY <1>1, FindableIs DEF IsHeap
<1>3. PICK n \in Nat : /\ n = Len(g[o].keys) /\ DOMAIN g[o].keys = 1 .. n
                       /\ DOMAIN h[p].keys = 1 .. n
  <2>0. g[o].keys \in Seq(References) /\ h[p].keys \in Seq(References)
    <3>1. g[o] \in Frames /\ h[p] \in Frames
      BY <1>2 DEF Keyed
    <3>2. \A frame \in Frames : frame.keys \in Seq(References)
      BY DEF Frames
    <3> QED
      BY <3>1, <3>2, Zenon
  <2>1. PICK a \in Seq(References), b \in Seq(References) : a = g[o].keys /\ b = h[p].keys
    BY <2>0
  <2>2. Len(a) = Len(b)
    BY <1>1, <2>1
  <2> QED
    BY <2>1, <2>2
<1>4. IsFiniteSet(1 .. n)
  <2>1. 1 \in Int /\ n \in Int
    OBVIOUS
  <2> QED
    BY <2>1, FS_Interval, Zenon
<1> DEFINE S == Slots(g, g[o])
           theirs == [i \in 1 .. n |-> NameAt(h, h[p], i)]
           ours == [i \in 1 .. n |-> NameAt(g, g[o], i)]
<1>5. theirs \in Surjection(1 .. n, S) /\ theirs \in Injection(1 .. n, S)
  <2>1. S = {NameAt(h, h[p], i) : i \in 1 .. n}
    BY <1>1, <1>3 DEF Slots, NameAt
  <2>2. \A i, j \in 1 .. n : theirs[i] = theirs[j] => i = j
    BY <1>2, <1>3 DEF InOrder
  <2> QED
    BY <2>1, <2>2 DEF Surjection, Injection, IsInjective
<1>6. IsFiniteSet(S) /\ Cardinality(S) = Cardinality(1 .. n)
  BY <1>4, <1>5, FS_Surjection
<1>7. ours \in Surjection(1 .. n, S)
  BY <1>3 DEF Slots, NameAt, Surjection
<1>8. ours \in Injection(1 .. n, S)
  BY <1>4, <1>6, <1>7, FS_Surjection
<1>9. \A i, j \in 1 .. n : NameAt(g, g[o], i) = NameAt(g, g[o], j) => i = j
  BY <1>8 DEF Injection, IsInjective
<1> QED
  BY <1>2, <1>3, <1>9 DEF InOrder

----------------------------------------------------------------------------
(* Sequences cut in two *)

\* The facts of the library, for sequences of bytes.
LEMMA Joined ==
  ASSUME NEW s \in Seq(Nat), NEW t \in Seq(Nat)
  PROVE  /\ s \o t \in Seq(Nat) /\ Len(s \o t) = Len(s) + Len(t)
         /\ \A i \in 1 .. Len(s) + Len(t) :
              (s \o t)[i] = IF i <= Len(s) THEN s[i] ELSE t[i - Len(s)]
BY ConcatProperties

\* Bytes of three parts may be joined in any order.
LEMMA Associative ==
  ASSUME NEW s \in Seq(Nat), NEW t \in Seq(Nat), NEW u \in Seq(Nat)
  PROVE  (s \o t) \o u = s \o (t \o u)
BY ConcatAssociative

\* Sequences with the same bytes at the same places are the same.
LEMMA Identical ==
  ASSUME NEW s \in Seq(Nat), NEW t \in Seq(Nat), Len(s) = Len(t),
         \A i \in 1 .. Len(s) : s[i] = t[i]
  PROVE  s = t
BY SeqEqual

\* A sequence is its first n elements and the others.
LEMMA Cut ==
  ASSUME NEW s \in Seq(Nat), NEW n \in 0 .. Len(s)
  PROVE  /\ First(s, n) \in Seq(Nat) /\ Len(First(s, n)) = n
         /\ After(s, n) \in Seq(Nat) /\ Len(After(s, n)) = Len(s) - n
         /\ First(s, n) \o After(s, n) = s
         /\ \A i \in 1 .. n : First(s, n)[i] = s[i]
         /\ \A i \in 1 .. Len(s) - n : After(s, n)[i] = s[n + i]
<1>1. \A i \in 1 .. Len(s) : s[i] \in Nat
  BY ElementOfSeq
<1>2. First(s, n) \in Seq(Nat) /\ Len(First(s, n)) = n
  BY <1>1, SubSeqProperties, Z3 DEF First
<1>3. After(s, n) \in Seq(Nat) /\ Len(After(s, n)) = Len(s) - n
  BY <1>1, SubSeqProperties, Z3 DEF After
<1>4. First(s, n) \o After(s, n) = s
  <2>1. 1 \in 1 .. Len(s) + 1 /\ n \in 1 - 1 .. Len(s) /\ Len(s) \in n .. Len(s)
    OBVIOUS
  <2>2. SubSeq(s, 1, n) \o SubSeq(s, n + 1, Len(s)) = SubSeq(s, 1, Len(s))
    BY <2>1, ConcatAdjacentSubSeq
  <2> QED
    BY <2>2, SubSeqFull DEF First, After
<1>5. \A i \in 1 .. n : First(s, n)[i] = s[i]
  <2>1. \A i \in 1 .. n - 1 + 1 : SubSeq(s, 1, n)[i] = s[1 + i - 1]
    BY <1>1, SubSeqProperties, Z3
  <2> QED
    BY <2>1 DEF First
<1>6. \A i \in 1 .. Len(s) - n : After(s, n)[i] = s[n + i]
  <2>1. \A i \in 1 .. Len(s) - (n + 1) + 1 : SubSeq(s, n + 1, Len(s))[i] = s[n + 1 + i - 1]
    BY <1>1, SubSeqProperties, Z3
  <2> QED
    BY <2>1 DEF After
<1> QED
  BY <1>2, <1>3, <1>4, <1>5, <1>6

\* A sequence that is first cut in two is cut again in its second part.
LEMMA CutTwice ==
  ASSUME NEW s \in Seq(Nat), NEW m \in 0 .. Len(s), NEW n \in 0 .. Len(s) - m
  PROVE  First(After(s, m), n) \o After(s, m + n) = After(s, m)
<1>1. /\ After(s, m) \in Seq(Nat) /\ Len(After(s, m)) = Len(s) - m
      /\ First(After(s, m), n) \in Seq(Nat) /\ Len(First(After(s, m), n)) = n
  BY Cut
<1>2. After(s, m + n) \in Seq(Nat) /\ Len(After(s, m + n)) = Len(s) - (m + n)
  BY Cut
<1> DEFINE t == First(After(s, m), n) \o After(s, m + n)
<1>3. n + (Len(s) - (m + n)) = Len(s) - m
  OBVIOUS
<1>4. t \in Seq(Nat) /\ Len(t) = Len(s) - m
  BY <1>1, <1>2, <1>3, Joined
<1>5. ASSUME NEW i \in 1 .. Len(s) - m
      PROVE  t[i] = After(s, m)[i]
  <2>1. After(s, m)[i] = s[m + i]
    BY Cut
  <2>2. t[i] = IF i <= n THEN First(After(s, m), n)[i] ELSE After(s, m + n)[i - n]
    <3>1. i \in 1 .. n + (Len(s) - (m + n))
      BY <1>3
    <3> QED
      <4> DEFINE a == First(After(s, m), n)
                 b == After(s, m + n)
      <4>1. a \in Seq(Nat) /\ Len(a) = n /\ b \in Seq(Nat) /\ Len(b) = Len(s) - (m + n)
        BY <1>1, <1>2
      <4> HIDE DEF a, b
      <4>2. (a \o b)[i] = IF i <= n THEN a[i] ELSE b[i - n]
        BY <3>1, <4>1, Joined
      <4> QED
        BY <4>2 DEF a, b
  <2>3. CASE i <= n
    <3>1. n \in 0 .. Len(After(s, m)) /\ i \in 1 .. n
      BY <1>1, <2>3
    <3>2. First(After(s, m), n)[i] = After(s, m)[i]
      BY <1>1, <3>1, Cut
    <3> QED
      BY <2>2, <2>3, <3>2
  <2>4. CASE ~(i <= n)
    <3>1. m + n \in 0 .. Len(s) /\ i - n \in 1 .. Len(s) - (m + n)
      BY <2>4
    <3>2. After(s, m + n)[i - n] = s[m + n + (i - n)]
      BY <3>1, Cut
    <3>3. m + n + (i - n) = m + i
      OBVIOUS
    <3> QED
      BY <2>1, <2>2, <2>4, <3>2, <3>3
  <2> QED
    BY <2>3, <2>4
<1> QED
  BY <1>1, <1>4, <1>5, Identical

\* What is left of a sequence after all, and after nothing of it.
LEMMA CutAtEnds ==
  ASSUME NEW s \in Seq(Nat)
  PROVE  After(s, Len(s)) = <<>> /\ After(s, 0) = s /\ After(s, Len(s) - Len(s)) = s
<1>1. After(s, Len(s)) = <<>>
  BY SubSeqEmpty DEF After
<1>2. After(s, 0) = s
  BY SubSeqFull DEF After
<1> QED
  BY <1>1, <1>2

\* What is taken from the front of two sequences is taken from the first one.
LEMMA CutOfConcat ==
  ASSUME NEW s \in Seq(Nat), NEW t \in Seq(Nat), NEW n \in 0 .. Len(s)
  PROVE  After(s \o t, n) = After(s, n) \o t
<1>1. s \o t \in Seq(Nat) /\ Len(s \o t) = Len(s) + Len(t)
  BY Joined
<1>2. After(s \o t, n) \in Seq(Nat) /\ Len(After(s \o t, n)) = Len(s) + Len(t) - n
  <2>1. n \in 0 .. Len(s \o t) /\ Len(s \o t) - n = Len(s) + Len(t) - n
    BY <1>1
  <2> QED
    BY <1>1, <2>1, Cut
<1>3. After(s, n) \in Seq(Nat) /\ Len(After(s, n)) = Len(s) - n
  BY Cut
<1>4. After(s, n) \o t \in Seq(Nat) /\ Len(After(s, n) \o t) = Len(s) - n + Len(t)
  BY <1>3, Joined
<1>5. ASSUME NEW i \in 1 .. Len(s) + Len(t) - n
      PROVE  After(s \o t, n)[i] = (After(s, n) \o t)[i]
  <2>1. After(s \o t, n)[i] = (s \o t)[n + i]
    <3>1. n \in 0 .. Len(s \o t) /\ i \in 1 .. Len(s \o t) - n
      BY <1>1
    <3> QED
      BY <1>1, <3>1, Cut
  <2>2. (s \o t)[n + i] = IF n + i <= Len(s) THEN s[n + i] ELSE t[n + i - Len(s)]
    <3>1. n + i \in 1 .. Len(s) + Len(t)
      OBVIOUS
    <3> QED
      BY <3>1, Joined
  <2>3. (After(s, n) \o t)[i] =
          IF i <= Len(s) - n THEN After(s, n)[i] ELSE t[i - (Len(s) - n)]
    BY <1>3, Joined
  <2>4. CASE i <= Len(s) - n
    <3>1. i \in 1 .. Len(s) - n
      BY <2>4
    <3>2. After(s, n)[i] = s[n + i]
      BY <3>1, Cut
    <3> QED
      BY <2>1, <2>2, <2>3, <2>4, <3>2
  <2>5. CASE ~(i <= Len(s) - n)
    <3>1. n + i - Len(s) = i - (Len(s) - n) /\ ~(n + i <= Len(s))
      BY <2>5
    <3> QED
      BY <2>1, <2>2, <2>3, <2>5, <3>1
  <2> QED
    BY <2>4, <2>5
<1>6. Len(s) + Len(t) - n = Len(s) - n + Len(t)
  OBVIOUS
<1> QED
  BY <1>2, <1>4, <1>5, <1>6, Identical

\* What is behind any place of a sequence is a sequence.
LEMMA AfterType ==
  ASSUME NEW s \in Seq(Nat), NEW n \in Nat
  PROVE  After(s, n) \in Seq(Nat)
<1>1. CASE n \in 0 .. Len(s)
  BY <1>1, Cut
<1>2. CASE n > Len(s)
  <2>1. After(s, n) = <<>>
    BY <1>2, SubSeqEmpty DEF After
  <2> QED
    BY <2>1
<1> QED
  BY <1>1, <1>2

\* A KUInt32 stays one when another is taken from it.
LEMMA MinusFacts ==
  ASSUME NEW a \in Nat, NEW b \in Nat, a < Word, b < Word
  PROVE  /\ Minus(a, b) \in Nat /\ Minus(a, b) < Word
         /\ b <= a => Minus(a, b) = a - b
BY StreamAssumption DEF Minus

----------------------------------------------------------------------------
(* The invariant holds at first *)

\* The inductive invariant of a pipe holds at first.
LEMMA InitStreamIInv == StreamInit => StreamIInv
<1> SUFFICES ASSUME StreamInit PROVE StreamIInv
  OBVIOUS
<1> USE StreamAssumption DEF StreamInit
<1>1. StreamTypeOK
  BY EmptySeq DEF StreamTypeOK
<1>2. BufferFits /\ LeftFits /\ CountsInStep
  BY DEF BufferFits, LeftFits, CountsInStep, CountsTrue
<1>3. BytesInOrder
  BY ConcatEmptySeq, EmptySeq DEF BytesInOrder, Unsent
<1> QED
  BY <1>1, <1>2, <1>3 DEF StreamIInv

----------------------------------------------------------------------------
(* It is kept by the calls *)

\* Outside of the socket's Write, what is to be sent is the whole buffer.
LEMMA OrderKept ==
  ASSUME BytesInOrder, at # "send", at' # "send",
         UNCHANGED <<buffer, wire, given>>, disturbed' = disturbed
  PROVE  BytesInOrder'
BY DEF BytesInOrder, Unsent

\* A call of Write takes its bytes.
LEMMA WriteStep ==
  ASSUME StreamIInv, NEW bytes \in Seq(Nat), Write(bytes)
  PROVE  StreamIInv'
<1> USE DEF StreamIInv, Write, netVars, faultVars
<1>1. StreamTypeOK'
  BY DEF StreamTypeOK
<1>2. BufferFits' /\ LeftFits' /\ CountsInStep'
  BY DEF BufferFits, LeftFits, CountsInStep, CountsTrue
<1>3. BytesInOrder'
  BY OrderKept
<1> QED
  BY <1>1, <1>2, <1>3

\* A call of Read begins with nothing.
LEMMA ReadStep ==
  ASSUME StreamIInv, NEW n \in 1 .. Word - 1, Read(n)
  PROVE  StreamIInv'
<1> USE StreamAssumption DEF StreamIInv, Read, netVars, faultVars
<1>1. StreamTypeOK'
  BY EmptySeq DEF StreamTypeOK
<1>2. BufferFits' /\ LeftFits' /\ CountsInStep'
  BY DEF BufferFits, LeftFits, CountsInStep, CountsTrue
<1>3. BytesInOrder'
  BY OrderKept
<1> QED
  BY <1>1, <1>2, <1>3

\* FlushOutput hands the buffer to the loop of send().
LEMMA FlushStep ==
  ASSUME StreamIInv, FlushOutput
  PROVE  StreamIInv'
<1> USE StreamAssumption DEF StreamIInv, FlushOutput, StartSend, netVars, faultVars
<1>1. Len(buffer) \in Nat /\ buffer \in Seq(Nat)
  BY DEF StreamTypeOK
<1>2. StreamTypeOK'
  BY <1>1 DEF StreamTypeOK
<1>3. BufferFits' /\ LeftFits' /\ CountsInStep'
  <2>1. CASE buffer = <<>>
    BY <2>1 DEF BufferFits, LeftFits, CountsInStep, CountsTrue
  <2>2. CASE buffer # <<>>
    BY <1>1, <2>2 DEF BufferFits, LeftFits, CountsInStep, CountsTrue
  <2> QED
    BY <2>1, <2>2
<1>4. BytesInOrder'
  <2>1. CASE buffer = <<>>
    BY <2>1, OrderKept
  <2>2. CASE buffer # <<>>
    <3>1. After(buffer, Len(buffer) - Len(buffer)) = buffer
      BY <1>1, CutAtEnds
    <3> QED
      BY <2>2, <3>1 DEF BytesInOrder, Unsent
  <2> QED
    BY <2>1, <2>2
<1> QED
  BY <1>2, <1>3, <1>4

\* Write fills the buffer.
LEMMA FillStep ==
  ASSUME StreamIInv, Fill
  PROVE  StreamIInv'
<1> DEFINE k == Least(Len(rest), Capacity - Len(buffer))
           piece == First(rest, k)
<1> USE StreamAssumption
<1>1. buffer \in Seq(Nat) /\ rest \in Seq(Nat) /\ given \in Seq(Nat) /\ wire \in Seq(Nat)
  BY DEF StreamIInv, StreamTypeOK
<1>2. k \in 0 .. Len(rest) /\ Len(buffer) + k <= Capacity
  <2>1. Len(buffer) \in Nat /\ Len(rest) \in Nat /\ Len(buffer) <= Capacity
    BY <1>1 DEF StreamIInv, BufferFits
  <2> QED
    BY <2>1 DEF Least
<1>3. piece \in Seq(Nat) /\ Len(piece) = k /\ After(rest, Len(piece)) \in Seq(Nat)
  <2>1. piece \in Seq(Nat) /\ Len(piece) = k
    BY <1>1, <1>2, Cut
  <2> QED
    BY <1>1, <1>2, <2>1, Cut
<1>4. /\ buffer' = buffer \o piece /\ rest' = After(rest, Len(piece))
      /\ given' = given \o piece /\ at = "fill"
      /\ UNCHANGED <<thrown, got, wire, line, open, faults, disturbed>>
  BY DEF Fill, faultVars
<1>5. \/ /\ at' = "send" /\ left' = Len(buffer') /\ ioCount' = Len(buffer') /\ moved' = 0
      \/ at' = "out" /\ UNCHANGED <<left, ioCount, moved>>
  BY DEF Fill, StartSend
<1> HIDE DEF k, piece
<1>6. /\ buffer' \in Seq(Nat) /\ Len(buffer') = Len(buffer) + k
      /\ given' \in Seq(Nat) /\ Len(buffer') \in Nat
  <2>1. buffer \o piece \in Seq(Nat) /\ Len(buffer \o piece) = Len(buffer) + k
    BY <1>1, <1>3, Joined
  <2>2. given \o piece \in Seq(Nat)
    BY <1>1, <1>3, Joined
  <2>3. Len(buffer \o piece) \in Nat
    BY <2>1
  <2> QED
    BY <1>4, <2>1, <2>2, <2>3
<1>7. StreamTypeOK'
  <2>1. at' \in {"send", "out"} /\ left' \in Nat /\ ioCount' \in Nat /\ moved' \in Nat
    BY <1>5, <1>6 DEF StreamIInv, StreamTypeOK
  <2> QED
    BY <1>3, <1>4, <1>6, <2>1 DEF StreamIInv, StreamTypeOK
<1>8. BufferFits' /\ LeftFits' /\ CountsInStep'
  <2>1. Len(buffer') <= Capacity
    BY <1>2, <1>6
  <2>2. LeftFits'
    BY <1>4, <1>5, <1>6, <2>1 DEF StreamIInv, LeftFits
  <2>3. CountsInStep'
    <3>1. CASE at' = "send"
      <4>1. ioCount' = Len(buffer') /\ ioCount' = moved' + left'
        BY <1>5, <1>6, <3>1
      <4> QED
        BY <3>1, <4>1 DEF CountsInStep, CountsTrue
    <3>2. CASE at' # "send"
      BY <1>4, <1>5, <3>2 DEF StreamIInv, CountsInStep, CountsTrue
    <3> QED
      BY <3>1, <3>2
  <2> QED
    BY <2>1, <2>2, <2>3 DEF BufferFits
<1>9. BytesInOrder'
  <2>1. Unsent' = buffer'
    <3>1. After(buffer', Len(buffer') - Len(buffer')) = buffer'
      BY <1>6, CutAtEnds
    <3> QED
      BY <1>5, <3>1 DEF Unsent
  <2>2. wire \o (buffer \o piece) = (wire \o buffer) \o piece
    BY <1>1, <1>3, Associative
  <2> QED
    BY <1>4, <2>1, <2>2 DEF StreamIInv, BytesInOrder, Unsent
<1> QED
  BY <1>7, <1>8, <1>9 DEF StreamIInv

----------------------------------------------------------------------------
(* It is kept by the loop of the socket's Write *)

\* What is behind the bytes that were sent.
LEMMA UnsentIsRest ==
  ASSUME StreamTypeOK, LeftFits, at = "send"
  PROVE  /\ Len(buffer) - left \in 0 .. Len(buffer)
         /\ Unsent = After(buffer, Len(buffer) - left)
         /\ Unsent \in Seq(Nat) /\ Len(Unsent) = left
<1>1. buffer \in Seq(Nat) /\ Len(buffer) \in Nat /\ left \in Nat /\ left <= Len(buffer)
  BY DEF StreamTypeOK, LeftFits
<1>2. Len(buffer) - left \in 0 .. Len(buffer) /\ Len(buffer) - (Len(buffer) - left) = left
  BY <1>1
<1>3. Unsent = After(buffer, Len(buffer) - left)
  BY DEF Unsent
<1> QED
  BY <1>1, <1>2, <1>3, Cut

\* send() takes a part of the buffer.
LEMMA SendStep ==
  ASSUME StreamIInv, NEW k \in 1 .. Len(buffer), Send(k)
  PROVE  StreamIInv'
<1>1. /\ at = "send" /\ k <= left /\ wire' = wire \o First(Unsent, k)
      /\ left' = left - k /\ moved' = moved + k
      /\ UNCHANGED <<at, rest, buffer, ioCount, thrown, got, line, given, disturbed>>
  BY DEF Send, Moves, StreamIInv, StreamTypeOK
<1>2. /\ buffer \in Seq(Nat) /\ wire \in Seq(Nat) /\ Len(buffer) \in Nat
      /\ left \in Nat /\ moved \in Nat /\ left <= Len(buffer)
  BY <1>1 DEF StreamIInv, StreamTypeOK, LeftFits
<1>3. /\ Len(buffer) - left \in 0 .. Len(buffer)
      /\ Unsent = After(buffer, Len(buffer) - left)
      /\ Unsent \in Seq(Nat) /\ Len(Unsent) = left
  BY <1>1, UnsentIsRest DEF StreamIInv
<1>4. First(Unsent, k) \in Seq(Nat)
  BY <1>1, <1>3, Cut
<1>5. StreamTypeOK'
  <2>1. wire' \in Seq(Nat)
    BY <1>1, <1>2, <1>4, Joined
  <2>2. left' \in Nat /\ moved' \in Nat
    BY <1>1, <1>2
  <2> QED
    BY <1>1, <2>1, <2>2 DEF StreamIInv, StreamTypeOK
<1>6. BufferFits' /\ LeftFits'
  <2>1. left' <= Len(buffer)
    BY <1>1, <1>2
  <2> QED
    BY <1>1, <2>1 DEF StreamIInv, BufferFits, LeftFits
<1>7. CountsInStep'
  <2>1. moved' + left' = moved + left
    BY <1>1, <1>2
  <2> QED
    BY <1>1, <2>1 DEF StreamIInv, CountsInStep, CountsTrue
<1>8. BytesInOrder'
  <2>1. Unsent' = After(buffer, Len(buffer) - left + k)
    <3>1. Len(buffer) - (left - k) = Len(buffer) - left + k
      BY <1>2
    <3> QED
      BY <1>1, <3>1 DEF Unsent
  <2>2. Unsent' \in Seq(Nat)
    <3>1. Len(buffer) - left + k \in Nat
      BY <1>2, <1>3
    <3> QED
      BY <1>2, <2>1, <3>1, AfterType
  <2>3. First(Unsent, k) \o Unsent' = Unsent
    <3>1. k \in 0 .. Len(buffer) - (Len(buffer) - left)
      BY <1>1, <1>2
    <3> QED
      BY <1>2, <1>3, <2>1, <3>1, CutTwice
  <2>4. (wire \o First(Unsent, k)) \o Unsent' = wire \o Unsent
    <3> DEFINE a == First(Unsent, k)
               b == Unsent'
    <3>1. a \in Seq(Nat) /\ b \in Seq(Nat) /\ a \o b = Unsent
      BY <1>4, <2>2, <2>3
    <3> HIDE DEF a, b
    <3>2. (wire \o a) \o b = wire \o (a \o b)
      BY <1>2, <3>1, Associative
    <3> QED
      BY <3>1, <3>2 DEF a, b
  <2> QED
    BY <1>1, <2>4 DEF StreamIInv, BytesInOrder
<1> QED
  BY <1>5, <1>6, <1>7, <1>8 DEF StreamIInv

\* The loop of send() ends.
LEMMA SendDoneStep ==
  ASSUME StreamIInv, SendDone
  PROVE  StreamIInv'
<1>1. /\ at = "send" /\ left = 0 /\ buffer' = <<>> /\ at' \in {"out", "fill"}
      /\ UNCHANGED <<rest, left, ioCount, got, moved, wire, line, given, disturbed>>
  BY DEF SendDone, netVars, faultVars
<1>2. buffer \in Seq(Nat) /\ wire \in Seq(Nat) /\ moved \in Nat /\ Len(<<>>) = 0
  BY DEF StreamIInv, StreamTypeOK
<1>3. StreamTypeOK'
  BY <1>1, EmptySeq DEF StreamIInv, StreamTypeOK
<1>4. BufferFits' /\ LeftFits'
  BY <1>1, <1>2, StreamAssumption DEF StreamIInv, BufferFits, LeftFits
<1>5. CountsInStep'
  <2>1. moved + left = moved
    BY <1>1, <1>2
  <2> QED
    BY <1>1, <2>1 DEF StreamIInv, CountsInStep, CountsTrue
<1>6. BytesInOrder'
  <2>1. Unsent = <<>>
    <3>1. Len(buffer) - left = Len(buffer)
      BY <1>1, <1>2
    <3> QED
      BY <1>1, <1>2, <3>1, CutAtEnds DEF Unsent
  <2>2. Unsent' = <<>>
    BY <1>1 DEF Unsent
  <2> QED
    BY <1>1, <2>1, <2>2 DEF StreamIInv, BytesInOrder
<1> QED
  BY <1>3, <1>4, <1>5, <1>6 DEF StreamIInv

\* The way out of the socket by an exception, when no call was disturbed: what
\* was not sent, and nothing else, stays in the buffer.
LEMMA SendFailsStep ==
  ASSUME StreamIInv, SendFails
  PROVE  StreamIInv'
<1> DEFINE count == Minus(ioCount, left)
<1>1. /\ at = "send" /\ ioCount' = count /\ rest' = <<>>
      /\ UNCHANGED <<left, got, moved, wire, line, given, disturbed>>
  BY DEF SendFails, SendThrows, faultVars
<1>2. \/ count <= Len(buffer) /\ at' = "out" /\ buffer' = After(buffer, count)
      \/ ~(count <= Len(buffer)) /\ at' = "crashed" /\ buffer' = buffer
  BY DEF SendFails, SendThrows
<1>3. /\ buffer \in Seq(Nat) /\ Len(buffer) \in Nat /\ ioCount \in Nat /\ left \in Nat
      /\ moved \in Nat /\ left <= Len(buffer) /\ Len(buffer) <= Capacity /\ ioCount < Word
      /\ left < Word
  BY <1>1, StreamAssumption DEF StreamIInv, StreamTypeOK, LeftFits, BufferFits
<1>4. count \in Nat /\ count < Word /\ (left <= ioCount => count = ioCount - left)
  BY <1>3, MinusFacts
<1> HIDE DEF count
<1>5. buffer' \in Seq(Nat) /\ Len(buffer') <= Len(buffer)
  <2>1. CASE count <= Len(buffer) /\ buffer' = After(buffer, count)
    <3>1. count \in 0 .. Len(buffer)
      BY <1>3, <1>4, <2>1
    <3>2. After(buffer, count) \in Seq(Nat) /\ Len(After(buffer, count)) = Len(buffer) - count
      BY <1>3, <3>1, Cut
    <3> QED
      BY <2>1, <3>2, <1>3, <1>4
  <2>2. CASE buffer' = buffer
    BY <1>3, <2>2
  <2> QED
    BY <1>2, <2>1, <2>2
<1>6. StreamTypeOK'
  BY <1>1, <1>2, <1>4, <1>5, EmptySeq DEF StreamIInv, StreamTypeOK
<1>7. BufferFits' /\ LeftFits'
  <2>1. Len(buffer') <= Capacity
    <3>1. Len(buffer') \in Nat
      BY <1>5
    <3> QED
      BY <3>1, <1>3, <1>5, StreamAssumption
  <2> QED
    BY <1>1, <1>2, <1>4, <2>1 DEF BufferFits, LeftFits
<1>8. ASSUME ~disturbed
      PROVE  at' = "out" /\ buffer' = Unsent /\ count = moved
  <2>1. ioCount = Len(buffer) /\ ioCount = moved + left
    BY <1>1, <1>8 DEF StreamIInv, CountsInStep
  <2>2. count = Len(buffer) - left /\ count = moved /\ count <= Len(buffer)
    BY <1>3, <1>4, <2>1
  <2> QED
    BY <1>1, <1>2, <2>2 DEF Unsent
<1>9. CountsInStep'
  BY <1>1, <1>8 DEF CountsInStep, CountsTrue
<1>10. BytesInOrder'
  BY <1>1, <1>8 DEF StreamIInv, BytesInOrder, Unsent
<1> QED
  BY <1>6, <1>7, <1>9, <1>10 DEF StreamIInv

\* EINTR and EAGAIN.
LEMMA AgainStep ==
  ASSUME StreamIInv, SendAgain \/ RecvAgain
  PROVE  StreamIInv'
<1>1. /\ ioCount' = Minus(ioCount, left) /\ disturbed'
      /\ at \in {"send", "recv"}
      /\ UNCHANGED <<at, rest, buffer, left, got, moved, wire, line, given>>
  BY DEF SendAgain, RecvAgain, Disturbance, netVars
<1>2. ioCount \in Nat /\ left \in Nat /\ ioCount < Word /\ left < Word
  BY <1>1, StreamAssumption DEF StreamIInv, StreamTypeOK, LeftFits, BufferFits
<1>3. Minus(ioCount, left) \in Nat /\ Minus(ioCount, left) < Word
  BY <1>2, MinusFacts
<1>4. disturbed' = TRUE
  BY DEF SendAgain, RecvAgain, Disturbance
<1>5. StreamTypeOK'
  BY <1>1, <1>3, <1>4 DEF StreamIInv, StreamTypeOK
<1>6. BufferFits' /\ LeftFits'
  BY <1>1, <1>3 DEF StreamIInv, BufferFits, LeftFits
<1>7. CountsInStep' /\ BytesInOrder'
  BY <1>4 DEF CountsInStep, BytesInOrder
<1> QED
  BY <1>5, <1>6, <1>7 DEF StreamIInv

\* send() takes some bytes and comes back late.
LEMMA SendLateStep ==
  ASSUME StreamIInv, NEW k \in 1 .. Len(buffer), SendLate(k)
  PROVE  StreamIInv'
<1> DEFINE count == Minus(ioCount, left)
<1>1. /\ at = "send" /\ ioCount' = count /\ rest' = <<>> /\ k <= left
      /\ wire' = wire \o First(Unsent, k) /\ moved' = moved + k /\ disturbed' = TRUE
      /\ UNCHANGED <<left, got, line, given>>
  BY DEF SendLate, SendThrows, Disturbance, StreamIInv, StreamTypeOK
<1>2. \/ count <= Len(buffer) /\ at' = "out" /\ buffer' = After(buffer, count)
      \/ ~(count <= Len(buffer)) /\ at' = "crashed" /\ buffer' = buffer
  BY DEF SendLate, SendThrows
<1>3. /\ buffer \in Seq(Nat) /\ Len(buffer) \in Nat /\ ioCount \in Nat /\ left \in Nat
      /\ wire \in Seq(Nat) /\ moved \in Nat /\ left <= Len(buffer)
      /\ Len(buffer) <= Capacity /\ ioCount < Word /\ left < Word
  BY <1>1, StreamAssumption DEF StreamIInv, StreamTypeOK, LeftFits, BufferFits
<1>4. count \in Nat /\ count < Word
  BY <1>3, MinusFacts
<1> HIDE DEF count
<1>5. buffer' \in Seq(Nat) /\ Len(buffer') <= Len(buffer)
  <2>1. CASE count <= Len(buffer) /\ buffer' = After(buffer, count)
    <3>1. count \in 0 .. Len(buffer)
      BY <1>3, <1>4, <2>1
    <3>2. After(buffer, count) \in Seq(Nat) /\ Len(After(buffer, count)) = Len(buffer) - count
      BY <1>3, <3>1, Cut
    <3> QED
      BY <2>1, <3>2, <1>3, <1>4
  <2>2. CASE buffer' = buffer
    BY <1>3, <2>2
  <2> QED
    BY <1>2, <2>1, <2>2
<1>6. wire' \in Seq(Nat) /\ moved' \in Nat
  <2>1. Unsent \in Seq(Nat) /\ Len(Unsent) = left
    BY <1>1, UnsentIsRest DEF StreamIInv
  <2>2. First(Unsent, k) \in Seq(Nat)
    BY <1>1, <2>1, Cut
  <2>3. wire' \in Seq(Nat)
    BY <1>1, <1>3, <2>2, Joined
  <2> QED
    BY <1>1, <1>3, <2>3
<1>7. StreamTypeOK'
  BY <1>1, <1>2, <1>4, <1>5, <1>6, EmptySeq DEF StreamIInv, StreamTypeOK
<1>8. BufferFits' /\ LeftFits'
  <2>1. Len(buffer') <= Capacity
    <3>1. Len(buffer') \in Nat
      BY <1>5
    <3> QED
      BY <3>1, <1>3, <1>5, StreamAssumption
  <2> QED
    BY <1>1, <1>2, <1>4, <2>1 DEF BufferFits, LeftFits
<1>9. CountsInStep' /\ BytesInOrder'
  BY <1>1 DEF CountsInStep, BytesInOrder
<1> QED
  BY <1>7, <1>8, <1>9 DEF StreamIInv

----------------------------------------------------------------------------
(* It is kept by the loop of the socket's Read *)

\* recv() brings some bytes.
LEMMA RecvStep ==
  ASSUME StreamIInv, NEW k \in 1 .. Len(line), Recv(k)
  PROVE  StreamIInv'
<1>1. /\ at = "recv" /\ k <= left /\ got' = got \o First(line, k) /\ line' = After(line, k)
      /\ left' = left - k /\ moved' = moved + k
      /\ UNCHANGED <<at, rest, buffer, ioCount, thrown, wire, given, disturbed>>
  BY DEF Recv, Moves, Least, StreamIInv, StreamTypeOK
<1>2. /\ line \in Seq(Nat) /\ got \in Seq(Nat) /\ left \in Nat /\ moved \in Nat
      /\ left < Word
  BY <1>1 DEF StreamIInv, StreamTypeOK, LeftFits
<1>3. First(line, k) \in Seq(Nat) /\ line' \in Seq(Nat)
  <2>1. k \in 0 .. Len(line)
    BY <1>2
  <2>2. First(line, k) \in Seq(Nat) /\ After(line, k) \in Seq(Nat)
    BY <1>2, <2>1, Cut
  <2> QED
    BY <1>1, <2>2
<1>4. got' \in Seq(Nat) /\ left' \in Nat /\ moved' \in Nat /\ left' < Word
      /\ moved' + left' = moved + left
  <2>1. got' \in Seq(Nat)
    BY <1>1, <1>2, <1>3, Joined
  <2> QED
    BY <1>1, <1>2, <2>1, StreamAssumption
<1>5. StreamTypeOK'
  BY <1>1, <1>3, <1>4 DEF StreamIInv, StreamTypeOK
<1>6. BufferFits' /\ LeftFits'
  BY <1>1, <1>4 DEF StreamIInv, BufferFits, LeftFits
<1>7. CountsInStep'
  BY <1>1, <1>4 DEF StreamIInv, CountsInStep, CountsTrue
<1>8. BytesInOrder'
  BY <1>1, OrderKept DEF StreamIInv
<1> QED
  BY <1>5, <1>6, <1>7, <1>8 DEF StreamIInv

\* Read ends: it has all it asked for, or the connection ends, or recv() fails.
LEMMA RecvEndSteps ==
  ASSUME StreamIInv, RecvDone \/ RecvEnd \/ RecvFails
  PROVE  StreamIInv'
<1>1. /\ at = "recv" /\ at' = "out"
      /\ (ioCount' = ioCount /\ left = 0) \/ ioCount' = Minus(ioCount, left)
      /\ UNCHANGED <<rest, buffer, left, got, moved, wire, line, given, disturbed>>
  BY DEF RecvDone, RecvEnd, RecvFails, netVars, faultVars
<1>2. ioCount \in Nat /\ left \in Nat /\ moved \in Nat /\ ioCount < Word /\ left < Word
  BY <1>1 DEF StreamIInv, StreamTypeOK, LeftFits
<1>3. /\ Minus(ioCount, left) \in Nat /\ Minus(ioCount, left) < Word
      /\ left <= ioCount => Minus(ioCount, left) = ioCount - left
  BY <1>2, MinusFacts
<1>4. StreamTypeOK'
  BY <1>1, <1>2, <1>3 DEF StreamIInv, StreamTypeOK
<1>5. BufferFits' /\ LeftFits'
  BY <1>1, <1>2, <1>3 DEF StreamIInv, BufferFits, LeftFits
<1>6. ASSUME ~disturbed
      PROVE  ioCount' = moved
  <2>1. ioCount = moved + left
    BY <1>1, <1>6 DEF StreamIInv, CountsInStep
  <2> QED
    BY <1>1, <1>2, <1>3, <2>1
<1>7. CountsInStep'
  BY <1>1, <1>6 DEF CountsInStep, CountsTrue
<1>8. BytesInOrder'
  BY <1>1, OrderKept DEF StreamIInv
<1> QED
  BY <1>4, <1>5, <1>7, <1>8 DEF StreamIInv

\* recv() brings some bytes and comes back late.
LEMMA RecvLateStep ==
  ASSUME StreamIInv, NEW k \in 1 .. Len(line), RecvLate(k)
  PROVE  StreamIInv'
<1>1. /\ at = "recv" /\ at' = "out" /\ line' = After(line, k) /\ moved' = moved + k
      /\ ioCount' = Minus(ioCount, left) /\ disturbed' = TRUE
      /\ UNCHANGED <<rest, buffer, left, got, wire, given>>
  BY DEF RecvLate, Disturbance
<1>2. /\ ioCount \in Nat /\ left \in Nat /\ ioCount < Word /\ left < Word
      /\ line \in Seq(Nat) /\ moved \in Nat
  BY <1>1 DEF StreamIInv, StreamTypeOK, LeftFits
<1>3. Minus(ioCount, left) \in Nat /\ Minus(ioCount, left) < Word
  BY <1>2, MinusFacts
<1>4. line' \in Seq(Nat) /\ moved' \in Nat
  <2>1. k \in Nat
    OBVIOUS
  <2> QED
    BY <1>1, <1>2, <2>1, AfterType
<1>5. StreamTypeOK'
  BY <1>1, <1>3, <1>4 DEF StreamIInv, StreamTypeOK
<1>6. BufferFits' /\ LeftFits'
  BY <1>1, <1>3 DEF StreamIInv, BufferFits, LeftFits
<1>7. CountsInStep' /\ BytesInOrder'
  BY <1>1 DEF CountsInStep, BytesInOrder
<1> QED
  BY <1>5, <1>6, <1>7 DEF StreamIInv

----------------------------------------------------------------------------
(* It is kept by the Newton *)

\* The Newton takes the first bytes that were sent: they are the first that
\* were put in the buffer.
LEMMA TakesStep ==
  ASSUME StreamIInv, NEW n \in 1 .. Len(wire), NewtonTakes(n),
         UNCHANGED <<callVars, line, open, faultVars>>
  PROVE  StreamIInv'
<1>1. /\ wire' = After(wire, n) /\ given' = After(given, n)
      /\ UNCHANGED <<at, rest, buffer, left, ioCount, got, moved, line, disturbed>>
  BY DEF NewtonTakes, callVars, faultVars
<1>2. wire \in Seq(Nat) /\ given \in Seq(Nat) /\ buffer \in Seq(Nat)
  BY DEF StreamIInv, StreamTypeOK
<1>3. n \in 0 .. Len(wire) /\ n \in Nat
  BY <1>2
<1>4. wire' \in Seq(Nat) /\ given' \in Seq(Nat)
  BY <1>1, <1>2, <1>3, AfterType
<1>5. StreamTypeOK'
  BY <1>1, <1>4 DEF StreamIInv, StreamTypeOK
<1>6. BufferFits' /\ LeftFits' /\ CountsInStep'
  BY <1>1 DEF StreamIInv, BufferFits, LeftFits, CountsInStep, CountsTrue
<1>7. BytesInOrder'
  <2>1. Unsent \in Seq(Nat) /\ Unsent' = Unsent
    <3>1. Unsent' = Unsent
      BY <1>1 DEF Unsent
    <3>2. CASE at = "send"
      BY <3>1, <3>2, UnsentIsRest DEF StreamIInv
    <3>3. CASE at # "send"
      BY <1>2, <3>1, <3>3 DEF Unsent
    <3> QED
      BY <3>2, <3>3
  <2>2. After(wire \o Unsent, n) = After(wire, n) \o Unsent
    BY <1>2, <1>3, <2>1, CutOfConcat
  <2> QED
    BY <1>1, <2>1, <2>2 DEF StreamIInv, BytesInOrder
<1> QED
  BY <1>5, <1>6, <1>7 DEF StreamIInv

\* The Newton sends bytes, or closes the connection.
LEMMA AnswerStep ==
  ASSUME StreamIInv, line' \in Seq(Nat), UNCHANGED <<callVars, wire, given, faultVars>>
  PROVE  StreamIInv'
<1>1. UNCHANGED <<at, rest, buffer, left, ioCount, got, moved, wire, given, disturbed>>
  BY DEF callVars, faultVars
<1>2. StreamTypeOK'
  BY <1>1 DEF StreamIInv, StreamTypeOK
<1>3. BufferFits' /\ LeftFits' /\ CountsInStep'
  BY <1>1 DEF StreamIInv, BufferFits, LeftFits, CountsInStep, CountsTrue
<1>4. BytesInOrder'
  BY <1>1 DEF StreamIInv, BytesInOrder, Unsent
<1> QED
  BY <1>2, <1>3, <1>4 DEF StreamIInv

----------------------------------------------------------------------------
(* The theorems *)

\* Every step of a pipe keeps its inductive invariant.
LEMMA NextStreamIInv == StreamIInv /\ [StreamNext]_streamVars => StreamIInv'
<1> SUFFICES ASSUME StreamIInv, [StreamNext]_streamVars PROVE StreamIInv'
  OBVIOUS
<1>0. line \in Seq(Nat)
  BY DEF StreamIInv, StreamTypeOK
<1>1. CASE PipeStep
  <2>1. CASE Fill
    BY <2>1, FillStep
  <2>2. CASE SendDone
    BY <2>2, SendDoneStep
  <2>3. CASE SendFails
    BY <2>3, SendFailsStep
  <2>4. CASE SendAgain \/ RecvAgain
    BY <2>4, AgainStep
  <2>5. CASE RecvDone \/ RecvEnd \/ RecvFails
    BY <2>5, RecvEndSteps
  <2>6. ASSUME NEW k \in 1 .. Len(buffer), Send(k) \/ SendLate(k)
        PROVE  StreamIInv'
    BY <2>6, SendStep, SendLateStep
  <2>7. ASSUME NEW k \in 1 .. Len(line), Recv(k) \/ RecvLate(k)
        PROVE  StreamIInv'
    BY <2>7, RecvStep, RecvLateStep
  <2> QED
    BY <1>1, <2>1, <2>2, <2>3, <2>4, <2>5, <2>6, <2>7 DEF PipeStep
<1>2. CASE FlushOutput
  BY <1>2, FlushStep
<1>3. CASE NewtonCloses
  BY <1>0, <1>3, AnswerStep DEF NewtonCloses
<1>4. ASSUME NEW bytes \in Seq(Nat), Write(bytes)
      PROVE  StreamIInv'
  BY <1>4, WriteStep
<1>5. ASSUME NEW n \in 1 .. Word - 1, Read(n)
      PROVE  StreamIInv'
  BY <1>5, ReadStep
<1>6. ASSUME NEW n \in 1 .. Len(wire), NewtonTakes(n),
             UNCHANGED <<callVars, line, open, faultVars>>
      PROVE  StreamIInv'
  BY <1>6, TakesStep
<1>7. ASSUME NEW bytes \in Seq(Nat), line' = line \o bytes,
             UNCHANGED <<callVars, wire, open, given, faultVars>>
      PROVE  StreamIInv'
  <2>1. line' \in Seq(Nat)
    BY <1>0, <1>7, Joined
  <2> QED
    BY <1>7, <2>1, AnswerStep
<1>8. CASE UNCHANGED streamVars
  BY <1>0, <1>8, AnswerStep DEF streamVars, netVars
<1> QED
  BY <1>1, <1>2, <1>3, <1>4, <1>5, <1>6, <1>7, <1>8 DEF StreamNext

\* TDCLBufferedPipe and TBSDSocketPipe keep the invariant of the bytes: no byte
\* is written behind mBuffer, and without a disturbance the counts are right.
THEOREM StreamInvariant == StreamSpec => []StreamIInv
<1>1. StreamInit => StreamIInv
  BY InitStreamIInv
<1>2. StreamIInv /\ [StreamNext]_streamVars => StreamIInv'
  BY NextStreamIInv
<1> QED
  BY <1>1, <1>2, PTL DEF StreamSpec

\* What TDCLBufferedPipe::Write was given reaches the wire once and in order,
\* for every capacity of the buffer and every way send() cuts the bytes.
THEOREM BytesAreInOrder == StreamSpec => []BytesInOrder
<1>1. StreamIInv => BytesInOrder
  BY DEF StreamIInv
<1> QED
  BY <1>1, StreamInvariant, PTL

\* As long as no call is interrupted or late, the count of the socket's Read and
\* Write is the number of bytes moved, also when an exception is thrown; and the
\* memmove() of TDCLBufferedPipe stays inside the buffer.
THEOREM CountsUndisturbed == StreamSpec => [](~disturbed => CountsTrue /\ at # "crashed")
<1>1. StreamIInv => (~disturbed => CountsTrue /\ at # "crashed")
  BY DEF StreamIInv, CountsInStep
<1> QED
  BY <1>1, StreamInvariant, PTL

\* For the provers: \o, SubSeq and Len without their definitions.
Bytes == Seq(Nat)
Cat(s, t) == s \o t
Part(s, m, n) == SubSeq(s, m, n)
Size(s) == Len(s)

\* Nothing written before or after some bytes leaves them as they are.
LEMMA WithNothing ==
  ASSUME NEW s \in Seq(Nat)
  PROVE  s \o <<>> = s /\ <<>> \o s = s
BY ConcatEmptySeq

\* Nothing followed by nothing is nothing.
LEMMA NothingAtAll ==
  ASSUME NEW s \in Seq(Nat), NEW t \in Seq(Nat)
  PROVE  s \o t = <<>> => s = <<>> /\ t = <<>>
<1>1. Len(s \o t) = Len(s) + Len(t) /\ Len(s) \in Nat /\ Len(t) \in Nat
  BY Joined
<1>2. s \o t = <<>> => Len(s) = 0 /\ Len(t) = 0
  <2>1. Len(<<>>) = 0
    OBVIOUS
  <2> QED
    BY <1>1, <2>1
<1> QED
  BY <1>2, EmptySeq

\* A part of a sequence that lies in its first part, and one that lies behind it.
LEMMA PartOfFirst ==
  ASSUME NEW s \in Seq(Nat), NEW t \in Seq(Nat), NEW m \in Nat, NEW n \in Nat,
         1 <= m, m <= n + 1, n <= Len(s)
  PROVE  SubSeq(s \o t, m, n) = SubSeq(s, m, n)
<1>1. /\ s \o t \in Seq(Nat) /\ Len(s \o t) = Len(s) + Len(t) /\ Len(s) \in Nat /\ Len(t) \in Nat
      /\ \A i \in 1 .. Len(s) + Len(t) :
           (s \o t)[i] = IF i <= Len(s) THEN s[i] ELSE t[i - Len(s)]
  BY Joined
<1>2. \A i \in m .. n : (s \o t)[i] = s[i]
  BY <1>1
<1>3. /\ SubSeq(s \o t, m, n) = [i \in 1 .. n - m + 1 |-> (s \o t)[m + i - 1]]
      /\ SubSeq(s, m, n) = [i \in 1 .. n - m + 1 |-> s[m + i - 1]]
  OBVIOUS
<1>4. \A i \in 1 .. n - m + 1 : (s \o t)[m + i - 1] = s[m + i - 1]
  BY <1>2
<1> QED
  BY <1>3, <1>4

\* Bytes behind others are found by moving the places by their number.
LEMMA Behind ==
  ASSUME NEW s \in Seq(Nat), NEW t \in Seq(Nat), NEW m \in Nat, NEW n \in Nat,
         1 <= m, m <= n + 1, n <= Len(t),
         NEW x, NEW y, x = Len(s) + m, y = Len(s) + n
  PROVE  Part(Cat(s, t), x, y) = Part(t, m, n)
<1>1. /\ s \o t \in Seq(Nat) /\ Len(s \o t) = Len(s) + Len(t) /\ Len(s) \in Nat /\ Len(t) \in Nat
      /\ \A i \in 1 .. Len(s) + Len(t) :
           (s \o t)[i] = IF i <= Len(s) THEN s[i] ELSE t[i - Len(s)]
  BY Joined
<1>2. \A i \in m .. n : (s \o t)[Len(s) + i] = t[i]
  BY <1>1
<1> DEFINE u == s \o t
<1>3. x \in Nat /\ y \in Nat /\ y - x + 1 = n - m + 1 /\ x <= y + 1
      /\ \A i \in x .. y : u[i] \in Nat
  BY <1>1
<1>4. \A i \in m .. n : t[i] \in Nat
  BY <1>1
<1>5. \A i \in 1 .. n - m + 1 : u[x + i - 1] = t[m + i - 1]
  <2> TAKE i \in 1 .. n - m + 1
  <2>1. m + i - 1 \in m .. n /\ x + i - 1 = Len(s) + (m + i - 1)
    BY <1>1
  <2> QED
    BY <1>2, <2>1
<1> HIDE DEF u
<1>6. /\ SubSeq(u, x, y) \in Seq(Nat) /\ Len(SubSeq(u, x, y)) = n - m + 1
      /\ \A i \in 1 .. n - m + 1 : SubSeq(u, x, y)[i] = u[x + i - 1]
  <2>1. x \in Int /\ y \in Int
    BY <1>3
  <2>2. /\ SubSeq(u, x, y) \in Seq(Nat)
        /\ Len(SubSeq(u, x, y)) = IF x <= y THEN y - x + 1 ELSE 0
        /\ \A i \in 1 .. y - x + 1 : SubSeq(u, x, y)[i] = u[x + i - 1]
    BY <1>3, <2>1, SubSeqProperties, Z3
  <2> QED
    BY <1>3, <2>2
<1>7. /\ SubSeq(t, m, n) \in Seq(Nat) /\ Len(SubSeq(t, m, n)) = n - m + 1
      /\ \A i \in 1 .. n - m + 1 : SubSeq(t, m, n)[i] = t[m + i - 1]
  <2>1. m \in Int /\ n \in Int
    OBVIOUS
  <2>2. /\ SubSeq(t, m, n) \in Seq(Nat)
        /\ Len(SubSeq(t, m, n)) = IF m <= n THEN n - m + 1 ELSE 0
        /\ \A i \in 1 .. n - m + 1 : SubSeq(t, m, n)[i] = t[m + i - 1]
    BY <1>4, <2>1, SubSeqProperties, Z3
  <2> QED
    BY <2>2
<1>8. SubSeq(u, x, y) = SubSeq(t, m, n)
  <2>1. \A i \in 1 .. n - m + 1 : SubSeq(u, x, y)[i] = SubSeq(t, m, n)[i]
    BY <1>5, <1>6, <1>7
  <2> QED
    BY <1>6, <1>7, <2>1, Identical
<1> QED
  BY <1>8 DEF u, Part, Cat

\* A body is padded by at most three bytes.
LEMMA PaddingType == \A n \in Nat : Padding(n) \in 0 .. 3 /\ Padded(n) \in Nat /\ Padded(n) >= n
BY DEF Padding, Padded

\* A long is read as it was written.
LEMMA LongOfPut ==
  ASSUME NEW n \in Nat
  PROVE  /\ PutLong(n) \in Seq(Nat) /\ Len(PutLong(n)) = 4
         /\ Long(PutLong(n)) = n
<1>1. PICK h \in Nat, l \in Nat : h = n \div 65536 /\ l = n % 65536 /\ n = 65536 * h + l
  OBVIOUS
<1>2. PICK a \in Nat, b \in Nat : a = h \div 256 /\ b = h % 256 /\ h = 256 * a + b
  OBVIOUS
<1>3. PICK c \in Nat, d \in Nat : c = l \div 256 /\ d = l % 256 /\ l = 256 * c + d
  OBVIOUS
<1>4. PICK s \in Seq(Nat) : s = <<a, b>>
  <2>1. <<a, b>> \in Seq(Nat)
    OBVIOUS
  <2> QED
    BY <2>1
<1>5. PICK t \in Seq(Nat) : t = <<c, d>>
  <2>1. <<c, d>> \in Seq(Nat)
    OBVIOUS
  <2> QED
    BY <2>1
<1>6. Len(s) = 2 /\ Len(t) = 2 /\ s[1] = a /\ s[2] = b /\ t[1] = c /\ t[2] = d
  BY <1>4, <1>5
<1>7. PutLong(n) = s \o t
  BY <1>1, <1>2, <1>3, <1>4, <1>5 DEF PutLong, PutShort
<1>8. /\ s \o t \in Seq(Nat) /\ Len(s \o t) = 4
      /\ (s \o t)[1] = a /\ (s \o t)[2] = b
  <2>1. /\ s \o t \in Seq(Nat) /\ Len(s \o t) = Len(s) + Len(t)
        /\ \A i \in 1 .. Len(s) + Len(t) : (s \o t)[i] = IF i <= Len(s) THEN s[i] ELSE t[i - Len(s)]
    BY Joined
  <2> QED
    BY <1>6, <2>1
<1>9. PICK u \in Seq(Nat) : u = s \o t
  BY <1>8
<1>10. SubSeq(u, 3, 4) = t
  <2>1. /\ u \in Seq(Nat) /\ Len(u) = 4 /\ u[3] = t[1] /\ u[4] = t[2]
    <3>1. /\ Len(s \o t) = Len(s) + Len(t)
          /\ \A i \in 1 .. Len(s) + Len(t) :
               (s \o t)[i] = IF i <= Len(s) THEN s[i] ELSE t[i - Len(s)]
      BY Joined
    <3>2. Len(u) = 4
      BY <1>8, <1>9
    <3>3. u[3] = t[1]
      BY <1>6, <1>9, <3>1
    <3>4. u[4] = t[2]
      BY <1>6, <1>9, <3>1
    <3> QED
      BY <3>2, <3>3, <3>4
  <2>2. \A i \in 3 .. 4 : u[i] \in Nat
    <3>1. \A i \in 1 .. Len(u) : u[i] \in Nat
      BY ElementOfSeq
    <3> QED
      BY <2>1, <3>1
  <2>3. /\ SubSeq(u, 3, 4) \in Seq(Nat) /\ Len(SubSeq(u, 3, 4)) = 2
        /\ \A i \in 1 .. 2 : SubSeq(u, 3, 4)[i] = u[3 + i - 1]
    BY <2>2, SubSeqProperties, Z3
  <2>4. \A i \in 1 .. 2 : SubSeq(u, 3, 4)[i] = t[i]
    BY <2>1, <2>3
  <2> QED
    BY <1>6, <2>3, <2>4, Identical
<1>11. Short(u) = h /\ Short(t) = l
  BY <1>2, <1>3, <1>6, <1>8, <1>9 DEF Short
<1>12. Long(u) = n
  <2>1. n = 65536 * h + l
    BY <1>1
  <2>2. PICK v : v = SubSeq(u, 3, 4)
    OBVIOUS
  <2>3. Long(u) = 65536 * Short(u) + Short(v)
    BY <2>2, SMT DEF Long
  <2>4. Short(v) = l
    BY <1>10, <1>11, <2>2
  <2> QED
    BY <1>11, <2>1, <2>3, <2>4, SMT
<1> QED
  BY <1>7, <1>8, <1>9, <1>12

\* A long of a stream is a natural number.
LEMMA LongType ==
  ASSUME NEW s \in Seq(Nat), Len(s) = 4
  PROVE  Long(s) \in Nat
<1>1. s[1] \in Nat /\ s[2] \in Nat /\ s[3] \in Nat /\ s[4] \in Nat
  <2>1. \A i \in 1 .. Len(s) : s[i] \in Nat
    BY ElementOfSeq
  <2> QED
    BY <2>1
<1>2. SubSeq(s, 3, 4)[1] = s[3] /\ SubSeq(s, 3, 4)[2] = s[4]
  OBVIOUS
<1> QED
  BY <1>1, <1>2 DEF Long, Short

----------------------------------------------------------------------------
(* Commands *)

\* The header says how long the command is, whatever follows it.
LEMMA HeaderTells ==
  ASSUME NEW s \in Seq(Nat), NEW t \in Seq(Nat), Len(s) >= 16
  PROVE  WholeLength(s \o t) = WholeLength(s) /\ WholeLength(s) \in Nat
         /\ Long(SubSeq(s, 13, 16)) \in Nat
<1>1. SubSeq(s \o t, 13, 16) = SubSeq(s, 13, 16)
  BY PartOfFirst
<1>2. SubSeq(s, 13, 16) \in Seq(Nat) /\ Len(SubSeq(s, 13, 16)) = 4
  <2>1. \A i \in 13 .. 16 : s[i] \in Nat
    BY ElementOfSeq
  <2> QED
    BY <2>1, SubSeqProperties, Z3
<1>3. Long(SubSeq(s, 13, 16)) \in Nat
  BY <1>2, LongType
<1> QED
  <2>1. Padded(Long(SubSeq(s, 13, 16))) \in Nat
    BY <1>3, PaddingType
  <2>2. WholeLength(s) \in Nat
    BY <2>1 DEF WholeLength
  <2> QED
    BY <1>1, <1>3, <2>2 DEF WholeLength

\* What a header tells of the length, for bytes of any kind.
LEMMA HeaderTellsBytes ==
  /\ \A s, t \in Bytes : Size(s) >= 16 => WholeLength(Cat(s, t)) = WholeLength(s)
  /\ \A s \in Bytes : Size(s) >= 16 => Long(Part(s, 13, 16)) \in Nat
<1>1. \A s, t \in Bytes : Size(s) >= 16 => WholeLength(Cat(s, t)) = WholeLength(s)
  BY HeaderTells DEF Bytes, Cat, Size
<1>2. ASSUME NEW s \in Bytes, Size(s) >= 16
      PROVE  Long(Part(s, 13, 16)) \in Nat
  <2>1. s \in Seq(Nat) /\ <<>> \in Seq(Nat) /\ Len(s) >= 16
    BY <1>2, EmptySeq DEF Bytes, Size
  <2> QED
    BY <2>1, HeaderTells DEF Part
<1> QED
  BY <1>1, <1>2

\* A command is followed by nothing of the same command.
LEMMA CommandIsWhole ==
  ASSUME NEW s \in Seq(Nat), NEW t \in Seq(Nat), IsCommand(s), IsCommand(s \o t)
  PROVE  t = <<>>
<1>1. Len(s \o t) = Len(s) + Len(t) /\ Len(s) \in Nat /\ Len(t) \in Nat
  BY Joined
<1>2. Len(s) + Len(t) = Len(s)
  BY <1>1, HeaderTells DEF IsCommand
<1> QED
  BY <1>1, <1>2, EmptySeq

\* A connection that is lost leaves the beginning of an answer.
LEMMA CutAnswer ==
  ASSUME NEW s \in Seq(Nat), IsCommand(s), NEW n \in 0 .. Len(s)
  PROVE  IsAnswer(First(s, n))
<1>1. /\ First(s, n) \in Seq(Nat) /\ Len(First(s, n)) = n /\ After(s, n) \in Seq(Nat)
      /\ First(s, n) \o After(s, n) = s
  BY Cut
<1>2. n >= 16 => WholeLength(First(s, n)) = Len(s)
  BY <1>1, HeaderTells DEF IsCommand
<1> QED
  BY <1>1, <1>2 DEF IsAnswer

----------------------------------------------------------------------------
(* What is on its way to the Newton *)

\* The calls of Write still to be made, as one sequence of bytes.
LEMMA UnwrittenType ==
  ASSUME pieces \in Seq(Seq(Nat))
  PROVE  /\ \A i \in 1 .. 6 : Piece(i) \in Seq(Nat)
         /\ Unwritten \in Seq(Nat)
<1>1. \A i \in 1 .. 6 : Piece(i) \in Seq(Nat)
  <2>1. \A i \in 1 .. Len(pieces) : pieces[i] \in Seq(Nat)
    BY ElementOfSeq
  <2>2. <<>> \in Seq(Nat)
    BY EmptySeq
  <2> QED
    BY <2>1, <2>2 DEF Piece
<1>2. /\ Piece(1) \in Seq(Nat) /\ Piece(2) \in Seq(Nat) /\ Piece(3) \in Seq(Nat)
      /\ Piece(4) \in Seq(Nat) /\ Piece(5) \in Seq(Nat) /\ Piece(6) \in Seq(Nat)
  BY <1>1
<1>3. Piece(5) \o Piece(6) \in Seq(Nat)
  BY <1>2, Joined
<1>4. Piece(4) \o (Piece(5) \o Piece(6)) \in Seq(Nat)
  BY <1>2, <1>3, Joined
<1>5. Piece(3) \o (Piece(4) \o (Piece(5) \o Piece(6))) \in Seq(Nat)
  BY <1>2, <1>4, Joined
<1>6. Piece(2) \o (Piece(3) \o (Piece(4) \o (Piece(5) \o Piece(6)))) \in Seq(Nat)
  BY <1>2, <1>5, Joined
<1>7. Unwritten \in Seq(Nat)
  BY <1>2, <1>6, Joined DEF Unwritten
<1> QED
  BY <1>1, <1>7

\* When no piece is left, no byte is left to write.
LEMMA NothingUnwritten ==
  ASSUME pieces = <<>>
  PROVE  Unwritten = <<>>
<1>1. \A i \in 1 .. 6 : Piece(i) = <<>>
  <2>1. Len(pieces) = 0
    OBVIOUS
  <2> QED
    BY <2>1 DEF Piece
<1>2. Unwritten = <<>> \o (<<>> \o (<<>> \o (<<>> \o (<<>> \o <<>>))))
  BY <1>1 DEF Unwritten
<1>3. <<>> \o <<>> = <<>>
  BY WithNothing, EmptySeq
<1> QED
  BY <1>2, <1>3

\* While a command is sent, every part of it is a sequence of bytes.
LEMMA UnsentInSending ==
  ASSUME Sending
  PROVE  /\ Unsent \in Seq(Nat)
         /\ at = "send" => /\ left \in 0 .. Len(buffer) /\ Len(buffer) \in Nat
                           /\ Unsent = After(buffer, Len(buffer) - left)
                           /\ Len(Unsent) = left
         /\ at # "send" => Unsent = buffer
         /\ {wire, line, buffer, rest, Unwritten} \subseteq Seq(Nat)
<1>1. {wire, line, buffer, rest} \subseteq Seq(Nat) /\ pieces \in Seq(Seq(Nat))
  BY DEF Sending, AllBytes
<1>2. ASSUME at = "send"
      PROVE  /\ Unsent \in Seq(Nat) /\ Len(Unsent) = left /\ left \in 0 .. Len(buffer)
             /\ Len(buffer) \in Nat
             /\ Unsent = After(buffer, Len(buffer) - left)
  <2>1. left \in 0 .. Len(buffer) /\ Len(buffer) \in Nat
    BY <1>1, <1>2 DEF Sending
  <2>2. Len(buffer) - left \in 0 .. Len(buffer) /\ Len(buffer) - (Len(buffer) - left) = left
    BY <2>1
  <2> QED
    BY <1>1, <1>2, <2>1, <2>2, Cut DEF Unsent
<1>3. at # "send" => Unsent = buffer
  BY DEF Unsent
<1> QED
  BY <1>1, <1>2, <1>3, UnwrittenType

\* Bytes that move from one place to the next stay where they are in the whole.
LEMMA JoinedType ==
  ASSUME NEW s \in Seq(Nat), NEW t \in Seq(Nat)
  PROVE  s \o t \in Seq(Nat)
BY ConcatProperties

\* Sequences of bytes may be put together in any order of parentheses.
LEMMA CatFacts ==
  /\ \A s, t \in Bytes : Cat(s, t) \in Bytes
  /\ \A s, t, u \in Bytes : Cat(Cat(s, t), u) = Cat(s, Cat(t, u))
BY JoinedType, Associative DEF Bytes, Cat

\* A piece taken from the rest to the buffer leaves the order of the bytes.
LEMMA FromRestToBuffer ==
  ASSUME NEW w \in Bytes, NEW b \in Bytes, NEW p \in Bytes, NEW r \in Bytes, NEW u \in Bytes
  PROVE  Cat(Cat(w, b), Cat(Cat(p, r), u)) = Cat(Cat(w, Cat(b, p)), Cat(r, u))
<1>1. Cat(w, b) \in Bytes /\ Cat(r, u) \in Bytes
  BY CatFacts
<1>2. Cat(Cat(p, r), u) = Cat(p, Cat(r, u))
  BY CatFacts
<1>3. Cat(Cat(Cat(w, b), p), Cat(r, u)) = Cat(Cat(w, b), Cat(p, Cat(r, u)))
  BY <1>1, CatFacts
<1>4. Cat(Cat(w, b), p) = Cat(w, Cat(b, p))
  BY CatFacts
<1> QED
  BY <1>2, <1>3, <1>4

\* A part of the buffer put on the wire leaves the order of the bytes.
LEMMA FromBufferToWire ==
  ASSUME NEW w \in Seq(Nat), NEW b \in Seq(Nat), NEW p \in Seq(Nat), NEW y
  PROVE  (w \o (p \o b)) \o y = ((w \o p) \o b) \o y
<1>1. (w \o p) \o b = w \o (p \o b)
  BY Associative
<1> QED
  BY <1>1

\* What is on its way is what the Newton has and what is behind it.
LEMMA WireAndOther ==
  ASSUME Sending
  PROVE  /\ rest \o Unwritten \in Seq(Nat)
         /\ Unsent \o (rest \o Unwritten) \in Seq(Nat)
         /\ Outgoing = wire \o (Unsent \o (rest \o Unwritten))
         /\ Outgoing \in Seq(Nat)
<1>1. wire \in Seq(Nat) /\ rest \in Seq(Nat) /\ Unsent \in Seq(Nat) /\ Unwritten \in Seq(Nat)
  BY UnsentInSending
<1>2. PICK y \in Seq(Nat) : y = rest \o Unwritten
  BY <1>1, JoinedType
<1>3. Unsent \o y \in Seq(Nat)
  BY <1>1, JoinedType
<1>4. (wire \o Unsent) \o y = wire \o (Unsent \o y)
  BY <1>1, Associative
<1>5. wire \o (Unsent \o y) \in Seq(Nat)
  BY <1>1, <1>3, JoinedType
<1> QED
  BY <1>2, <1>3, <1>4, <1>5 DEF Outgoing

\* Nothing is on its way as soon as the Newton has a command: it is all of the
\* command, and the other places are empty.
LEMMA WholeAtNewton ==
  ASSUME Sending, IsCommand(wire)
  PROVE  line = <<>> /\ IsCommand(Outgoing) /\ Unsent \o (rest \o Unwritten) = <<>>
         /\ Unsent = <<>> /\ rest = <<>> /\ Unwritten = <<>> /\ Outgoing = wire
<1>1. wire \in Seq(Nat) /\ rest \in Seq(Nat) /\ Unsent \in Seq(Nat) /\ Unwritten \in Seq(Nat)
  BY UnsentInSending
<1>2. PICK y \in Seq(Nat) : y = rest \o Unwritten
  BY <1>1, JoinedType
<1>3. PICK z \in Seq(Nat) : z = Unsent \o y
  BY <1>1, JoinedType
<1>4. Outgoing = wire \o z
  BY <1>2, <1>3, WireAndOther
<1>5. Outgoing # <<>>
  <2>0. PICK w \in Seq(Nat) : w = wire
    BY <1>1
  <2>1. Len(w \o z) = Len(w) + Len(z) /\ Len(z) \in Nat
    BY Joined
  <2>1a. Len(w) >= 16 /\ Len(w) \in Nat
    BY <2>0 DEF IsCommand
  <2>2. Len(Outgoing) >= 16
    BY <1>4, <2>0, <2>1, <2>1a
  <2>3. Len(<<>>) = 0
    OBVIOUS
  <2> QED
    BY <2>2, <2>3
<1>6. IsCommand(Outgoing) /\ line = <<>>
  BY <1>5 DEF Sending
<1>7. z = <<>>
  BY <1>1, <1>4, <1>6, CommandIsWhole
<1>8. Unsent = <<>> /\ y = <<>>
  BY <1>1, <1>3, <1>7, NothingAtAll
<1>9. rest = <<>> /\ Unwritten = <<>>
  BY <1>1, <1>2, <1>8, NothingAtAll
<1>10. Outgoing = wire
  BY <1>1, <1>4, <1>7, WithNothing
<1> QED
  BY <1>2, <1>3, <1>6, <1>7, <1>8, <1>9, <1>10

----------------------------------------------------------------------------
(* The command stays in one piece while it is sent *)

\* A piece goes from the bytes given to Write into the buffer.
LEMMA SendingFill ==
  ASSUME Sending, stage = "sending", Fill, UNCHANGED exchangeVars
  PROVE  Sending' /\ Outgoing' = Outgoing /\ line' = line
<1> DEFINE n == Least(Len(rest), Capacity - Len(buffer))
           piece == First(rest, n)
<1>1. /\ wire \in Seq(Nat) /\ rest \in Seq(Nat) /\ buffer \in Seq(Nat) /\ line \in Seq(Nat)
      /\ Unwritten \in Seq(Nat) /\ Len(buffer) <= Capacity
      /\ pieces \in Seq(Seq(Nat)) /\ Len(pieces) <= 6
  BY UnsentInSending DEF Sending
<1>2. n \in 0 .. Len(rest) /\ Len(buffer) + n <= Capacity
      /\ (Len(buffer) + n # Capacity => n = Len(rest))
  BY <1>1, StreamAssumption DEF Least
<1>3. /\ buffer' = buffer \o piece /\ rest' = After(rest, Len(piece)) /\ at = "fill"
      /\ UNCHANGED <<wire, line, stage, pieces>>
      /\ \/ at' = "send" /\ flushing' = FALSE /\ left' = Len(buffer')
         \/ Len(buffer) + Len(piece) # Capacity /\ at' = "out"
  BY DEF Fill, StartSend, exchangeVars
<1> HIDE DEF n
<1>4. piece \in Seq(Nat) /\ Len(piece) = n /\ After(rest, n) \in Seq(Nat)
      /\ Len(After(rest, n)) = Len(rest) - n /\ piece \o After(rest, n) = rest
  BY <1>1, <1>2, Cut
<1> HIDE DEF piece
<1>5. buffer' \in Seq(Nat) /\ Len(buffer') = Len(buffer) + n /\ rest' \in Seq(Nat)
      /\ Len(rest') = Len(rest) - n /\ rest = piece \o rest'
  BY <1>1, <1>3, <1>4, Joined
<1>6. at' = "out" => rest' = <<>>
  <2>1. at' = "out" => Len(rest') = 0
    BY <1>1, <1>2, <1>3, <1>4, <1>5
  <2> QED
    BY <1>5, <2>1, EmptySeq
<1>7. Unsent = buffer /\ Unsent' = buffer' /\ Unwritten' = Unwritten
  <2>1. at' = "send" => Unsent' = buffer'
    <3>1. Len(buffer') - Len(buffer') = 0
      BY <1>1, <1>2, <1>5
    <3> QED
      BY <1>3, <1>5, <3>1, CutAtEnds DEF Unsent
  <2>2. at' = "out" => Unsent' = buffer'
    BY DEF Unsent
  <2>3. Unwritten' = Unwritten
    BY <1>3 DEF Unwritten, Piece
  <2> QED
    BY <1>3, <2>1, <2>2, <2>3 DEF Unsent
<1>8. Outgoing' = Outgoing
  <2>1. wire \in Bytes /\ buffer \in Bytes /\ piece \in Bytes /\ rest' \in Bytes
        /\ Unwritten \in Bytes
    BY <1>1, <1>4, <1>5 DEF Bytes
  <2>2. Cat(Cat(wire, buffer), Cat(Cat(piece, rest'), Unwritten))
          = Cat(Cat(wire, Cat(buffer, piece)), Cat(rest', Unwritten))
    BY <2>1, FromRestToBuffer
  <2>3. Outgoing = Cat(Cat(wire, buffer), Cat(rest, Unwritten)) /\ rest = Cat(piece, rest')
    BY <1>5, <1>7 DEF Outgoing, Cat
  <2>4. Outgoing' = Cat(Cat(wire, Cat(buffer, piece)), Cat(rest', Unwritten))
    BY <1>3, <1>7 DEF Outgoing, Cat
  <2> QED
    BY <2>2, <2>3, <2>4
<1>9. Len(buffer') <= Capacity /\ (at' = "send" => left' \in 0 .. Len(buffer'))
  BY <1>1, <1>2, <1>3, <1>5
<1>10. AllBytes({wire, line, buffer, rest})'
  BY <1>1, <1>3, <1>5 DEF AllBytes
<1>11. at' \in {"out", "fill", "send"} /\ (at' = "send" => ~flushing') /\ stage' = "sending"
  BY <1>3
<1>12. (IsCommand(Outgoing) /\ line = <<>>)' \/ (Outgoing = <<>> /\ IsAnswer(line))'
  BY <1>3, <1>8 DEF Sending
<1>s. Sending'
  BY <1>1, <1>3, <1>6, <1>9, <1>10, <1>11, <1>12 DEF Sending
<1> QED
  BY <1>s, <1>3, <1>8

\* send() takes bytes.
LEMMA SendingSend ==
  ASSUME Sending, NEW k \in 1 .. Len(buffer), Send(k), UNCHANGED exchangeVars
  PROVE  Sending' /\ Outgoing' = Outgoing /\ line' = line
<1>1. /\ wire \in Seq(Nat) /\ rest \in Seq(Nat) /\ buffer \in Seq(Nat) /\ line \in Seq(Nat)
      /\ Unwritten \in Seq(Nat) /\ Unsent \in Seq(Nat)
  BY UnsentInSending
<1>2. /\ at = "send" /\ k <= left /\ wire' = wire \o First(Unsent, k) /\ left' = left - k
      /\ UNCHANGED <<at, rest, buffer, flushing, line, stage, pieces>>
  BY DEF Send, exchangeVars
<1>3. /\ left \in 0 .. Len(buffer) /\ Len(buffer) \in Nat /\ Len(Unsent) = left
      /\ Unsent = After(buffer, Len(buffer) - left)
  BY <1>2, UnsentInSending
<1>4. k \in 0 .. Len(Unsent) /\ left' \in 0 .. Len(buffer)
  BY <1>2, <1>3
<1>5. First(Unsent, k) \in Seq(Nat) /\ wire' \in Seq(Nat)
  <2>1. First(Unsent, k) \in Seq(Nat)
    BY <1>1, <1>4, Cut
  <2> QED
    BY <1>1, <1>2, <2>1, JoinedType
<1>6. Unsent = First(Unsent, k) \o Unsent' /\ Unsent' \in Seq(Nat)
  <2>1. Unsent' = After(buffer, Len(buffer) - (left - k))
    BY <1>2 DEF Unsent
  <2>2. /\ Len(buffer) - left \in 0 .. Len(buffer)
        /\ k \in 0 .. Len(buffer) - (Len(buffer) - left)
        /\ Len(buffer) - (left - k) = (Len(buffer) - left) + k
        /\ Len(buffer) - (left - k) \in 0 .. Len(buffer)
    BY <1>2, <1>3
  <2>3. First(After(buffer, Len(buffer) - left), k) \o After(buffer, (Len(buffer) - left) + k)
          = After(buffer, Len(buffer) - left)
    BY <1>1, <2>2, CutTwice
  <2>4. Unsent' \in Seq(Nat)
    BY <1>1, <2>1, <2>2, Cut
  <2> QED
    BY <1>3, <2>1, <2>2, <2>3, <2>4
<1>7. Unwritten' = Unwritten
  BY <1>2 DEF Unwritten, Piece
<1>8. Outgoing' = Outgoing
  <2>1. PICK p \in Seq(Nat) : p = First(Unsent, k)
    BY <1>5
  <2>2. PICK b \in Seq(Nat) : b = Unsent'
    BY <1>6
  <2>3. PICK y : y = rest \o Unwritten
    OBVIOUS
  <2>0. PICK w \in Seq(Nat) : w = wire
    BY <1>1
  <2>4. (w \o (p \o b)) \o y = ((w \o p) \o b) \o y
    BY FromBufferToWire
  <2>5. Outgoing = (w \o (p \o b)) \o y
    BY <1>6, <2>0, <2>1, <2>2, <2>3 DEF Outgoing
  <2>6. Outgoing' = ((w \o p) \o b) \o y
    BY <1>2, <1>7, <2>0, <2>1, <2>2, <2>3 DEF Outgoing
  <2> QED
    BY <2>4, <2>5, <2>6
<1>9. AllBytes({wire, line, buffer, rest})'
  BY <1>1, <1>2, <1>5 DEF AllBytes
<1>s. Sending'
  BY <1>2, <1>4, <1>8, <1>9 DEF Sending
<1> QED
  BY <1>s, <1>2, <1>8

\* Everything was sent, or the call was interrupted.
LEMMA SendingDone ==
  ASSUME Sending, stage \in {"sending", "flushing"}, SendDone, UNCHANGED exchangeVars
  PROVE  Sending' /\ Outgoing' = Outgoing /\ line' = line
<1>1. /\ wire \in Seq(Nat) /\ rest \in Seq(Nat) /\ buffer \in Seq(Nat) /\ line \in Seq(Nat)
      /\ Unsent \in Seq(Nat)
  BY UnsentInSending
<1>2. /\ at = "send" /\ left = 0 /\ buffer' = <<>>
      /\ at' = IF flushing \/ rest = <<>> THEN "out" ELSE "fill"
      /\ UNCHANGED <<wire, rest, flushing, line, stage, pieces>>
  BY DEF SendDone, netVars, exchangeVars
<1>3. Unsent = <<>>
  <2>1. Len(Unsent) = 0
    BY <1>2, UnsentInSending
  <2> QED
    BY <1>1, <2>1, EmptySeq
<1>4. Unsent' = <<>> /\ Unwritten' = Unwritten
  <2>1. at' # "send"
    BY <1>2
  <2>2. Unwritten' = Unwritten
    BY <1>2 DEF Unwritten, Piece
  <2> QED
    BY <1>2, <2>1, <2>2 DEF Unsent
<1>5. Outgoing' = Outgoing
  BY <1>2, <1>3, <1>4 DEF Outgoing
<1>6. AllBytes({wire, line, buffer, rest})' /\ Len(buffer') <= Capacity
  <2>1. <<>> \in Seq(Nat) /\ Len(<<>>) = 0
    BY EmptySeq
  <2> QED
    BY <1>1, <1>2, <2>1, StreamAssumption DEF AllBytes
<1>7. /\ at' \in {"out", "fill"} /\ (at' = "out" => rest' = <<>>)
      /\ stage' = "flushing" => pieces' = <<>> /\ rest' = <<>> /\ at' = "out"
  BY <1>2 DEF Sending
<1>s. Sending'
  BY <1>2, <1>5, <1>6, <1>7 DEF Sending
<1> QED
  BY <1>s, <1>2, <1>5

\* Nothing moves: the call was interrupted, or only the connection changed.
LEMMA SendingStays ==
  ASSUME Sending,
         UNCHANGED <<at, wire, rest, buffer, flushing, left, line, stage, pieces>>
  PROVE  Sending' /\ Outgoing' = Outgoing /\ line' = line
<1>1. Unsent' = Unsent /\ Unwritten' = Unwritten
  BY DEF Unsent, Unwritten, Piece
<1>2. Outgoing' = Outgoing
  BY <1>1 DEF Outgoing
<1>s. Sending'
  BY <1>2 DEF Sending, AllBytes
<1> QED
  BY <1>s, <1>2

\* The next piece of the command is given to Write.
LEMMA SendingPiece ==
  ASSUME Sending, SendPiece
  PROVE  Sending' /\ Outgoing' = Outgoing /\ line' = line
<1>1. /\ wire \in Seq(Nat) /\ rest \in Seq(Nat) /\ buffer \in Seq(Nat) /\ line \in Seq(Nat)
      /\ Unwritten \in Seq(Nat) /\ pieces \in Seq(Seq(Nat)) /\ Len(pieces) <= 6
      /\ Len(buffer) <= Capacity /\ rest = <<>> /\ Unsent \in Seq(Nat)
  <2>1. at = "out"
    BY DEF SendPiece, Write
  <2> QED
    BY <2>1, UnsentInSending DEF Sending
<1>2. /\ at = "out" /\ at' = "fill" /\ rest' = Head(pieces) /\ stage = "sending"
      /\ pieces # <<>> /\ pieces' = Tail(pieces)
      /\ UNCHANGED <<wire, buffer, line, stage>>
  BY DEF SendPiece, Write, netVars
<1>3. /\ Tail(pieces) \in Seq(Seq(Nat)) /\ Len(Tail(pieces)) = Len(pieces) - 1
      /\ Len(pieces) \in Nat \ {0}
      /\ \A i \in 1 .. Len(pieces) - 1 : Tail(pieces)[i] = pieces[i + 1]
      /\ Head(pieces) = pieces[1]
  BY <1>1, <1>2, HeadTailProperties
<1>4. /\ \A i \in 1 .. 5 : Piece(i)' = Piece(i + 1)
      /\ Piece(6)' = <<>> /\ Piece(1) = Head(pieces)
  <2>1. ASSUME NEW i \in 1 .. 5
        PROVE  Piece(i)' = Piece(i + 1)
    <3>1. i <= Len(pieces) - 1 <=> i + 1 <= Len(pieces)
      BY <1>3
    <3>2. i + 1 <= Len(pieces) => pieces'[i] = pieces[i + 1]
      BY <1>2, <1>3
    <3> QED
      BY <1>2, <1>3, <3>1, <3>2 DEF Piece
  <2>2. Piece(6)' = <<>>
    BY <1>1, <1>2, <1>3 DEF Piece
  <2>3. Piece(1) = Head(pieces)
    BY <1>3 DEF Piece
  <2> QED
    BY <2>1, <2>2, <2>3
<1>5. Unwritten = Cat(Head(pieces), Unwritten') /\ Unwritten' \in Bytes
  <2>1. /\ Piece(1)' = Piece(2) /\ Piece(2)' = Piece(3) /\ Piece(3)' = Piece(4)
        /\ Piece(4)' = Piece(5) /\ Piece(5)' = Piece(6) /\ Piece(6)' = <<>>
    BY <1>4
  <2>2. Piece(6) \o <<>> = Piece(6)
    <3>1. Piece(6) \in Seq(Nat)
      <4>1. \A i \in 1 .. 6 : Piece(i) \in Seq(Nat)
        BY <1>1, UnwrittenType
      <4> QED
        BY <4>1
    <3> QED
      BY <3>1, WithNothing
  <2>3. Unwritten' = Piece(2) \o (Piece(3) \o (Piece(4) \o (Piece(5) \o Piece(6))))
    BY <2>1, <2>2 DEF Unwritten
  <2>4. Unwritten' \in Bytes
    <3>1. \A i \in 1 .. 6 : Piece(i) \in Bytes
      BY <1>1, UnwrittenType DEF Bytes
    <3>2. Unwritten' = Cat(Piece(2), Cat(Piece(3), Cat(Piece(4), Cat(Piece(5), Piece(6)))))
      BY <2>3 DEF Cat
    <3> QED
      BY <3>1, <3>2, CatFacts
  <2> QED
    BY <1>4, <2>3, <2>4 DEF Unwritten, Cat
<1>6. Unsent' = Unsent
  BY <1>2 DEF Unsent
<1>7. Outgoing' = Outgoing
  <2>1. Outgoing = Cat(Cat(wire, Unsent), Cat(<<>>, Unwritten))
    BY <1>1 DEF Outgoing, Cat
  <2>2. Outgoing' = Cat(Cat(wire, Unsent), Cat(Head(pieces), Unwritten'))
    BY <1>2, <1>6 DEF Outgoing, Cat
  <2>3. Cat(<<>>, Unwritten) = Unwritten
    BY <1>1, WithNothing DEF Cat
  <2> QED
    BY <1>5, <2>1, <2>2, <2>3
<1>8. rest' \in Seq(Nat)
  BY <1>1, <1>2, <1>3, ElementOfSeq
<1>9. AllBytes({wire, line, buffer, rest})'
  BY <1>1, <1>2, <1>8 DEF AllBytes
<1>10. pieces' \in Seq(Seq(Nat)) /\ Len(pieces') <= 6
  BY <1>1, <1>2, <1>3
<1>s. Sending'
  BY <1>1, <1>2, <1>7, <1>9, <1>10 DEF Sending
<1> QED
  BY <1>s, <1>2, <1>7

\* SendCommand calls FlushOutput.
LEMMA SendingEnds ==
  ASSUME Sending, SendEnds
  PROVE  Sending' /\ Outgoing' = Outgoing /\ line' = line
<1>1. /\ wire \in Seq(Nat) /\ buffer \in Seq(Nat) /\ line \in Seq(Nat)
      /\ at = "out" /\ rest = <<>> /\ pieces = <<>> /\ Unsent = buffer
      /\ Len(buffer) <= Capacity
  <2>1. at = "out" /\ pieces = <<>>
    BY DEF SendEnds, FlushOutput
  <2> QED
    BY <2>1, UnsentInSending DEF Sending
<1>2. /\ UNCHANGED <<wire, rest, buffer, line, pieces>> /\ stage' = "flushing"
      /\ \/ buffer = <<>> /\ at' = "out"
         \/ at' = "send" /\ flushing' = TRUE /\ left' = Len(buffer)
  BY <1>1 DEF SendEnds, FlushOutput, StartSend, netVars
<1>3. Unsent' = buffer
  <2>1. CASE at' = "out"
    BY <1>2, <2>1 DEF Unsent
  <2>2. CASE at' = "send" /\ left' = Len(buffer)
    <3>1. Unsent' = After(buffer, Len(buffer) - Len(buffer))
      BY <1>2, <2>2 DEF Unsent
    <3> QED
      BY <1>1, <3>1, CutAtEnds
  <2> QED
    BY <1>2, <2>1, <2>2
<1>4. Unwritten' = Unwritten
  BY <1>2 DEF Unwritten, Piece
<1>5. Outgoing' = Outgoing
  BY <1>1, <1>2, <1>3, <1>4 DEF Outgoing
<1>6. at' = "send" => left' \in 0 .. Len(buffer')
  BY <1>1, <1>2
<1>7. AllBytes({wire, line, buffer, rest})'
  BY <1>1, <1>2 DEF AllBytes, Sending
<1>8. pieces' \in Seq(Seq(Nat)) /\ Len(pieces') <= 6
  BY <1>2 DEF Sending
<1>s. Sending'
  BY <1>1, <1>2, <1>5, <1>6, <1>7, <1>8 DEF Sending
<1> QED
  BY <1>s, <1>2, <1>5

\* The Newton has the whole command, and its answer is on the line.
LEMMA SendingAnswered ==
  ASSUME Sending, IsCommand(wire), UNCHANGED <<exchangeVars, callVars>>,
         wire' = After(wire, Len(wire)),
         NEW n \in 0 .. Len(wire), line' = line \o First(wire, n)
  PROVE  /\ Sending'
         /\ Outgoing = wire /\ Outgoing' = <<>> /\ line' = First(wire, n)
<1>1. /\ wire \in Seq(Nat) /\ rest \in Seq(Nat) /\ buffer \in Seq(Nat)
      /\ UNCHANGED <<at, rest, buffer, flushing, left, stage, pieces>>
  BY UnsentInSending DEF exchangeVars, callVars
<1>2. Unsent = <<>> /\ rest = <<>> /\ Unwritten = <<>> /\ line = <<>>
  BY WholeAtNewton
<1>3. wire' = <<>>
  BY <1>1, CutAtEnds
<1>4. First(wire, n) \in Seq(Nat) /\ IsAnswer(First(wire, n))
  BY <1>1, Cut, CutAnswer
<1>5. line' = First(wire, n)
  BY <1>2, <1>4, WithNothing
<1>6. Unsent' = <<>> /\ rest' = <<>> /\ Unwritten' = <<>>
  <2>1. Unsent' = Unsent /\ Unwritten' = Unwritten
    BY <1>1 DEF Unsent, Unwritten, Piece
  <2> QED
    BY <1>1, <1>2, <2>1
<1>7. Outgoing' = <<>>
  <2>1. <<>> \o <<>> = <<>>
    BY WithNothing, EmptySeq
  <2>2. Outgoing' = (<<>> \o <<>>) \o (<<>> \o <<>>)
    BY <1>3, <1>6 DEF Outgoing
  <2> QED
    BY <2>1, <2>2
<1>8. AllBytes({wire, line, buffer, rest})'
  <2>1. <<>> \in Seq(Nat)
    BY EmptySeq
  <2> QED
    BY <1>1, <1>3, <1>4, <1>5, <2>1 DEF AllBytes
<1>s. Sending'
  BY <1>1, <1>4, <1>5, <1>7, <1>8 DEF Sending
<1> QED
  BY <1>s, <1>5, <1>7, WholeAtNewton

----------------------------------------------------------------------------
(* The command that is made is what its header says *)

\* Zeroes are bytes.
LEMMA ZeroesType ==
  ASSUME NEW n \in Nat
  PROVE  /\ Zeroes(n) \in Seq(Nat) /\ Len(Zeroes(n)) = n
         /\ Zeroes(n) = <<>> <=> n = 0
<1>1. Zeroes(n) \in Seq(Nat) /\ Len(Zeroes(n)) = n
  BY DEF Zeroes
<1>2. n = 0 => Zeroes(n) = <<>>
  BY <1>1, EmptySeq
<1>3. Len(<<>>) = 0
  OBVIOUS
<1> QED
  BY <1>1, <1>2, <1>3

\* Two sequences of bytes after one another are as long as both.
LEMMA CatLength ==
  \A s, t \in Bytes : /\ Cat(s, t) \in Bytes /\ Size(s) \in Nat /\ Size(t) \in Nat
                      /\ Size(Cat(s, t)) = Size(s) + Size(t)
BY Joined DEF Bytes, Cat, Size

\* The same as Behind, for any two sequences of bytes.
LEMMA BehindBytes ==
  \A s, t \in Bytes, m, n, x, y \in Nat :
    1 <= m /\ m <= n + 1 /\ n <= Size(t) /\ x = Size(s) + m /\ y = Size(s) + n
      => Part(Cat(s, t), x, y) = Part(t, m, n)
BY Behind DEF Bytes, Size

\* What lies behind a long lies four bytes further on.
LEMMA BehindALong ==
  ASSUME NEW f \in Bytes, NEW s \in Bytes, Size(f) = 4,
         NEW m \in Nat, NEW n \in Nat, 1 <= m, m <= n + 1, n <= Size(s)
  PROVE  /\ Cat(f, s) \in Bytes /\ Size(Cat(f, s)) = Size(s) + 4
         /\ Part(Cat(f, s), m + 4, n + 4) = Part(s, m, n)
<1>1. Cat(f, s) \in Bytes /\ Size(Cat(f, s)) = Size(s) + 4
  BY CatLength
<1>2. PICK x \in Nat, y \in Nat : x = m + 4 /\ y = n + 4
  OBVIOUS
<1>3. x = Size(f) + m /\ y = Size(f) + n
  BY <1>2
<1>4. Part(Cat(f, s), x, y) = Part(s, m, n)
  BY <1>3, BehindBytes
<1> QED
  BY <1>1, <1>2, <1>4

\* The four longs of the header are sixteen bytes, and the last is the length.
LEMMA HeaderFacts ==
  ASSUME NEW n \in Nat
  PROVE  /\ Newt \in Bytes /\ Dock \in Bytes /\ RefTest \in Bytes /\ PutLong(n) \in Bytes
         /\ Cat(Newt, Cat(Dock, Cat(RefTest, PutLong(n)))) \in Bytes
         /\ Size(Cat(Newt, Cat(Dock, Cat(RefTest, PutLong(n))))) = 16
         /\ Part(Cat(Newt, Cat(Dock, Cat(RefTest, PutLong(n)))), 13, 16) = PutLong(n)
<1>1. Newt \in Bytes /\ Size(Newt) = 4
  BY DEF Newt, Bytes, Size
<1>2. Dock \in Bytes /\ Size(Dock) = 4
  BY DEF Dock, Bytes, Size
<1>3. RefTest \in Bytes /\ Size(RefTest) = 4
  BY DEF RefTest, Bytes, Size
<1>4. PutLong(n) \in Bytes /\ Size(PutLong(n)) = 4
  BY LongOfPut DEF Bytes, Size
<1>5. Part(PutLong(n), 1, 4) = PutLong(n)
  BY LongOfPut, SubSeqFull DEF Part
<1> DEFINE a == Cat(RefTest, PutLong(n))
           b == Cat(Dock, a)
           c == Cat(Newt, b)
<1>6. a \in Bytes /\ Size(a) = 8 /\ Part(a, 5, 8) = Part(PutLong(n), 1, 4)
  <2> HIDE <1>1, <1>2, <1>5
  <2> QED
    BY <1>3, <1>4, BehindALong
<1> HIDE DEF a
<1>7. b \in Bytes /\ Size(b) = 12 /\ Part(b, 9, 12) = Part(a, 5, 8)
  BY <1>2, <1>6, BehindALong
<1> HIDE DEF b
<1>8. c \in Bytes /\ Size(c) = 16 /\ Part(c, 13, 16) = Part(b, 9, 12)
  BY <1>1, <1>7, BehindALong
<1> HIDE DEF c
<1> QED
  BY <1>1, <1>2, <1>3, <1>4, <1>5, <1>6, <1>7, <1>8 DEF a, b, c

\* A call that is appended to others.
LEMMA OneMore ==
  ASSUME NEW q \in Seq(Bytes), NEW e \in Bytes
  PROVE  /\ q \o <<e>> \in Seq(Bytes) /\ Len(q \o <<e>>) = Len(q) + 1
         /\ \A i \in 1 .. Len(q) : (q \o <<e>>)[i] = q[i]
         /\ (q \o <<e>>)[Len(q) + 1] = e
<1>1. <<e>> \in Seq(Bytes) /\ Len(<<e>>) = 1 /\ <<e>>[1] = e
  OBVIOUS
<1>2. /\ q \o <<e>> \in Seq(Bytes) /\ Len(q \o <<e>>) = Len(q) + Len(<<e>>)
      /\ \A i \in 1 .. Len(q) + Len(<<e>>) :
           (q \o <<e>>)[i] = IF i <= Len(q) THEN q[i] ELSE <<e>>[i - Len(q)]
  BY <1>1, ConcatProperties
<1>3. Len(q) \in Nat /\ Len(q) + 1 \in 1 .. Len(q) + 1 /\ (Len(q) + 1) - Len(q) = 1
  OBVIOUS
<1> QED
  BY <1>1, <1>2, <1>3

SixCalls(a, b, c, d, e, f) == <<a, b, c, d>> \o Call(e) \o Call(f)

IsSixCalls(p, a, b, c, d, e, f) ==
  /\ p \in Seq(Bytes) /\ Len(p) \in 4 .. 6 /\ Len(p) <= 6
  /\ p[1] = a /\ p[2] = b /\ p[3] = c /\ p[4] = d
  /\ 5 <= Len(p) => p[5] = e
  /\ 6 <= Len(p) => p[6] = f
  /\ ~(5 <= Len(p)) => e = <<>>
  /\ ~(6 <= Len(p)) => f = <<>>

\* The calls that SendCommand makes, without those that would write nothing.
LEMMA SixCallsAre ==
  \A a, b, c, d, e, f \in Bytes :
    (e = <<>> => f = <<>>) => IsSixCalls(SixCalls(a, b, c, d, e, f), a, b, c, d, e, f)
<1> SUFFICES ASSUME NEW a \in Bytes, NEW b \in Bytes, NEW c \in Bytes, NEW d \in Bytes,
                    NEW e \in Bytes, NEW f \in Bytes, e = <<>> => f = <<>>
             PROVE  IsSixCalls(SixCalls(a, b, c, d, e, f), a, b, c, d, e, f)
  OBVIOUS
<1>0. PICK p : p = SixCalls(a, b, c, d, e, f)
  OBVIOUS
<1> DEFINE q == <<a, b, c, d>>
<1>1. q \in Seq(Bytes) /\ Len(q) = 4 /\ q[1] = a /\ q[2] = b /\ q[3] = c /\ q[4] = d
  OBVIOUS
<1>2. p = (q \o Call(e)) \o Call(f)
  BY <1>0 DEF SixCalls
<1> HIDE DEF q
<1>3. ASSUME e = <<>>
      PROVE  IsSixCalls(p, a, b, c, d, e, f)
  <2>1. p = q
    <3>1. Call(e) = <<>> /\ Call(f) = <<>>
      BY <1>3 DEF Call
    <3>2. q \o <<>> = q
      BY <1>1, ConcatEmptySeq
    <3> QED
      BY <1>2, <3>1, <3>2
  <2>2. p \in Seq(Bytes) /\ Len(p) = 4 /\ p[1] = a /\ p[2] = b /\ p[3] = c /\ p[4] = d
    BY <1>1, <2>1
  <2>3. ~(5 <= Len(p)) /\ ~(6 <= Len(p)) /\ Len(p) \in 4 .. 6
    BY <2>2
  <2> QED
    BY <1>3, <2>2, <2>3 DEF IsSixCalls
<1>4. ASSUME e # <<>>
      PROVE  IsSixCalls(p, a, b, c, d, e, f)
  <2> DEFINE r == q \o <<e>>
  <2>1. /\ r \in Seq(Bytes) /\ Len(r) = 5
        /\ r[1] = a /\ r[2] = b /\ r[3] = c /\ r[4] = d /\ r[5] = e
    <3>1. /\ r \in Seq(Bytes) /\ Len(r) = Len(q) + 1
          /\ \A i \in 1 .. Len(q) : r[i] = q[i]
          /\ r[Len(q) + 1] = e
      BY <1>1, OneMore, Zenon
    <3> HIDE DEF r
    <3> QED
      BY <1>1, <3>1
  <2>2. p = r \o Call(f)
    BY <1>2, <1>4 DEF Call
  <2> HIDE DEF r
  <2>3. CASE f = <<>>
    <3>1. p = r
      <4>1. r \o <<>> = r
        BY <2>1, ConcatEmptySeq
      <4> QED
        BY <2>2, <2>3, <4>1 DEF Call
    <3>2. /\ p \in Seq(Bytes) /\ Len(p) = 5
          /\ p[1] = a /\ p[2] = b /\ p[3] = c /\ p[4] = d /\ p[5] = e
      BY <2>1, <3>1
    <3>3. ~(6 <= Len(p)) /\ Len(p) \in 4 .. 6 /\ 5 <= Len(p)
      BY <3>2
    <3> QED
      BY <2>3, <3>2, <3>3 DEF IsSixCalls
  <2>4. CASE f # <<>>
    <3>1. p = r \o <<f>>
      BY <2>2, <2>4 DEF Call
    <3>2. /\ p \in Seq(Bytes) /\ Len(p) = 6
          /\ p[1] = a /\ p[2] = b /\ p[3] = c /\ p[4] = d /\ p[5] = e /\ p[6] = f
      <4>1. /\ r \o <<f>> \in Seq(Bytes) /\ Len(r \o <<f>>) = Len(r) + 1
            /\ \A i \in 1 .. Len(r) : (r \o <<f>>)[i] = r[i]
            /\ (r \o <<f>>)[Len(r) + 1] = f
        BY <2>1, OneMore, Zenon
      <4>2. /\ p \in Seq(Bytes) /\ Len(p) = Len(r) + 1
            /\ \A i \in 1 .. Len(r) : p[i] = r[i]
            /\ p[Len(r) + 1] = f
        BY <3>1, <4>1, Zenon
      <4> QED
        BY <2>1, <4>2
    <3>3. Len(p) \in 4 .. 6 /\ 5 <= Len(p) /\ 6 <= Len(p)
      BY <3>2
    <3> QED
      BY <3>2, <3>3 DEF IsSixCalls
  <2> QED
    BY <2>3, <2>4
<1> QED
  BY <1>0, <1>3, <1>4

\* What SendCommand writes in its four, five or six calls is one command: its
\* header says how long it is, with the zeroes that complete it.
LEMMA PiecesAreCommand ==
  ASSUME NEW body \in Seq(Nat), pieces = Pieces(body)
  PROVE  /\ pieces \in Seq(Seq(Nat)) /\ Len(pieces) <= 6
         /\ Unwritten \in Seq(Nat) /\ IsCommand(Unwritten) /\ Unwritten = Command(body)
         /\ Unwritten = Command(body)
<1> DEFINE n == Len(body)
           z == Zeroes(Padding(n))
           h == Cat(Newt, Cat(Dock, Cat(RefTest, PutLong(n))))
<1>1. n \in Nat /\ Padding(n) \in Nat /\ Padded(n) = n + Padding(n) /\ (n = 0 => Padding(n) = 0)
  <2>1. n \in Nat
    OBVIOUS
  <2> HIDE DEF n
  <2>2. n = 0 => Padding(n) = 0
    BY DEF Padding
  <2> QED
    <3>1. Padding(n) \in 0 .. 3
      BY <2>1, PaddingType
    <3> QED
      BY <2>1, <2>2, <3>1 DEF Padded
<1>2. body \in Bytes /\ (body = <<>> <=> n = 0) /\ Size(body) = n
  BY EmptySeq DEF Bytes, Size
<1>3. z \in Bytes /\ Size(z) = Padding(n) /\ (z = <<>> <=> Padding(n) = 0)
  BY <1>1, ZeroesType DEF Bytes, Size
<1>4. /\ Newt \in Bytes /\ Dock \in Bytes /\ RefTest \in Bytes /\ PutLong(n) \in Bytes
      /\ h \in Bytes /\ Size(h) = 16 /\ Part(h, 13, 16) = PutLong(n)
  BY <1>1, HeaderFacts
<1>5. pieces = SixCalls(Newt, Dock, RefTest, PutLong(n), body, z)
  BY DEF Pieces, SixCalls
<1> HIDE DEF n, z
<1>6. /\ pieces \in Seq(Bytes) /\ Len(pieces) <= 6
      /\ Piece(1) = Newt /\ Piece(2) = Dock /\ Piece(3) = RefTest /\ Piece(4) = PutLong(n)
      /\ Piece(5) = body /\ Piece(6) = z
  <2>1. body = <<>> => z = <<>>
    BY <1>1, <1>2, <1>3
  <2>2. /\ pieces \in Seq(Bytes) /\ Len(pieces) \in 4 .. 6 /\ Len(pieces) <= 6
        /\ pieces[1] = Newt /\ pieces[2] = Dock /\ pieces[3] = RefTest
        /\ pieces[4] = PutLong(n)
        /\ 5 <= Len(pieces) => pieces[5] = body
        /\ 6 <= Len(pieces) => pieces[6] = z
        /\ ~(5 <= Len(pieces)) => body = <<>>
        /\ ~(6 <= Len(pieces)) => z = <<>>
    <3>1. PICK l \in Bytes : l = PutLong(n)
      BY <1>4
    <3>2. PICK w \in Bytes : w = z
      BY <1>3
    <3>3. PICK p : p = SixCalls(Newt, Dock, RefTest, l, body, w)
      OBVIOUS
    <3>4. /\ p \in Seq(Bytes) /\ Len(p) \in 4 .. 6 /\ Len(p) <= 6
          /\ p[1] = Newt /\ p[2] = Dock /\ p[3] = RefTest /\ p[4] = l
          /\ 5 <= Len(p) => p[5] = body
          /\ 6 <= Len(p) => p[6] = w
          /\ ~(5 <= Len(p)) => body = <<>>
          /\ ~(6 <= Len(p)) => w = <<>>
      <4>1. /\ Newt \in Bytes /\ Dock \in Bytes /\ RefTest \in Bytes /\ body \in Bytes
            /\ body = <<>> => w = <<>>
        BY <1>2, <1>4, <2>1, <3>2
      <4>2. IsSixCalls(p, Newt, Dock, RefTest, l, body, w)
        BY <3>3, <4>1, SixCallsAre
      <4> QED
        BY <4>2 DEF IsSixCalls
    <3> QED
      BY <1>5, <3>1, <3>2, <3>3, <3>4
  <2>3. /\ Piece(1) = pieces[1] /\ Piece(2) = pieces[2] /\ Piece(3) = pieces[3]
        /\ Piece(4) = pieces[4]
    BY <2>2 DEF Piece
  <2>4. Piece(5) = body /\ Piece(6) = z
    BY <2>2 DEF Piece
  <2>5. Piece(1) = Newt /\ Piece(2) = Dock /\ Piece(3) = RefTest /\ Piece(4) = PutLong(n)
    <3>1. /\ pieces[1] = Newt /\ pieces[2] = Dock /\ pieces[3] = RefTest
          /\ pieces[4] = PutLong(n)
      BY <2>2
    <3> QED
      BY <2>3, <3>1, Zenon
  <2>6. Len(pieces) <= 6
    BY <2>2, Zenon
  <2> QED
    BY <2>2, <2>4, <2>5, <2>6, Zenon
<1>7. Unwritten = Cat(h, Cat(body, z))
  <2>2. Unwritten = Cat(Newt, Cat(Dock, Cat(RefTest, Cat(PutLong(n), Cat(body, z)))))
    BY <1>6 DEF Unwritten, Cat
  <2>3. Cat(body, z) \in Bytes
    BY <1>2, <1>3, CatFacts
  <2>4. Cat(RefTest, Cat(PutLong(n), Cat(body, z))) = Cat(Cat(RefTest, PutLong(n)), Cat(body, z))
    BY <1>4, <2>3, CatFacts
  <2>5. Cat(Dock, Cat(Cat(RefTest, PutLong(n)), Cat(body, z)))
          = Cat(Cat(Dock, Cat(RefTest, PutLong(n))), Cat(body, z))
    BY <1>4, <2>3, CatFacts
  <2>6. Cat(Newt, Cat(Cat(Dock, Cat(RefTest, PutLong(n))), Cat(body, z))) = Cat(h, Cat(body, z))
    BY <1>4, <2>3, CatFacts
  <2> QED
    BY <2>2, <2>4, <2>5, <2>6
<1>12. Unwritten = Command(body)
  BY <1>7 DEF n, z, Command, Header, Completed, Cat
<1> HIDE DEF h
<1>8. Cat(body, z) \in Bytes /\ Size(Cat(body, z)) = n + Padding(n)
  BY <1>2, <1>3, CatLength
<1>9. Unwritten \in Bytes /\ Size(Unwritten) = 16 + n + Padding(n)
  BY <1>1, <1>4, <1>7, <1>8, CatLength
<1>10. Part(Unwritten, 13, 16) = PutLong(n)
  <2>1. PICK s \in Seq(Nat) : s = h /\ Len(s) = 16
    BY <1>4 DEF Bytes, Size
  <2>2. PICK t \in Seq(Nat) : t = Cat(body, z)
    BY <1>8 DEF Bytes
  <2>3. SubSeq(s \o t, 13, 16) = SubSeq(s, 13, 16)
    <3>1. 1 <= 13 /\ 13 <= 16 + 1 /\ 16 <= Len(s) /\ 13 \in Nat /\ 16 \in Nat
      BY <2>1
    <3> QED
      BY <3>1, PartOfFirst
  <2> QED
    BY <1>4, <1>7, <2>1, <2>2, <2>3 DEF Part, Cat
<1>11. WholeLength(Unwritten) = 16 + Padded(n)
  BY <1>1, <1>10, LongOfPut DEF WholeLength, Part
<1> QED
  BY <1>1, <1>6, <1>9, <1>11, <1>12 DEF IsCommand, Bytes, Size

----------------------------------------------------------------------------
(* The answer is read as far as its header says *)

\* recv() takes bytes from the line: together they are what they were.
LEMMA ReadOn ==
  ASSUME NEW k \in 1 .. Len(line), Recv(k), left \in Nat,
         got \in Seq(Nat), line \in Seq(Nat)
  PROVE  /\ got' \in Seq(Nat) /\ line' \in Seq(Nat) /\ got' \o line' = got \o line
         /\ left' \in Nat /\ left' = left - k
         /\ Len(got') = Len(got) + k /\ Len(line') = Len(line) - k
         /\ k \in Nat /\ Len(got) \in Nat /\ Len(line) \in Nat
<1>1. got' = got \o First(line, k) /\ line' = After(line, k) /\ left' = left - k /\ k <= left
  BY DEF Recv, Least
<1>2. k \in 0 .. Len(line)
  OBVIOUS
<1>3. /\ First(line, k) \in Seq(Nat) /\ Len(First(line, k)) = k
      /\ After(line, k) \in Seq(Nat) /\ Len(After(line, k)) = Len(line) - k
      /\ First(line, k) \o After(line, k) = line
  BY <1>2, Cut
<1> DEFINE p == First(line, k)
           q == After(line, k)
<1>4. p \in Bytes /\ q \in Bytes /\ got \in Bytes /\ Cat(p, q) = line /\ Size(p) = k
  BY <1>3 DEF Bytes, Cat, Size
<1>5. got' = Cat(got, p) /\ line' = q
  BY <1>1 DEF Cat
<1> HIDE DEF p, q
<1>6. Cat(Cat(got, p), q) = Cat(got, Cat(p, q))
  BY <1>4, CatFacts
<1>7. Cat(got, p) \in Bytes /\ Size(Cat(got, p)) = Size(got) + k
  BY <1>4, CatLength
<1>8. got' \o line' = got \o line
  BY <1>4, <1>5, <1>6 DEF Cat
<1>9. left' \in Nat /\ left' = left - k /\ k \in Nat
  BY <1>1, <1>2
<1>10. got' \in Seq(Nat) /\ Len(got') = Len(got) + k
  BY <1>5, <1>7 DEF Bytes, Size
<1>11. line' \in Seq(Nat) /\ Len(line') = Len(line) - k
  BY <1>1, <1>3
<1>12. Len(got) \in Nat /\ Len(line) \in Nat
  OBVIOUS
<1> QED
  BY <1>8, <1>9, <1>10, <1>11, <1>12

\* recv() moves bytes of the answer from the line into the header.
LEMMA HeaderRecv ==
  ASSUME AwaitingHeader, NEW k \in 1 .. Len(line), Recv(k)
  PROVE  AwaitingHeader' /\ UNCHANGED <<wire, got \o line>>
<1>1. /\ wire \in Seq(Nat) /\ line \in Seq(Nat) /\ got \in Seq(Nat) /\ left \in Nat
      /\ Len(got) + left = 16
  BY DEF AwaitingHeader, AllBytes
<1>2. at = "recv" /\ UNCHANGED <<at, rest, buffer, wire>>
  BY DEF Recv
<1>3. /\ got' \in Seq(Nat) /\ line' \in Seq(Nat) /\ got' \o line' = got \o line
      /\ left' \in Nat /\ Len(got') + left' = 16
  <2>1. /\ got' \in Seq(Nat) /\ line' \in Seq(Nat) /\ got' \o line' = got \o line
        /\ left' \in Nat /\ left' = left - k
        /\ Len(got') = Len(got) + k /\ Len(line') = Len(line) - k
        /\ k \in Nat /\ Len(got) \in Nat /\ Len(line) \in Nat
    BY <1>1, ReadOn
  <2>2. Len(got') + left' = 16
    BY <1>1, <2>1
  <2> QED
    BY <2>1, <2>2
<1>4. line # <<>>
  <2>1. Len(<<>>) = 0
    OBVIOUS
  <2>2. Len(line) # 0
    OBVIOUS
  <2> QED
    BY <2>1, <2>2
<1>5. wire = <<>> /\ IsAnswer(got \o line)
  BY <1>4 DEF AwaitingHeader
<1>6. AllBytes({wire, line, got})'
  BY <1>1, <1>2, <1>3 DEF AllBytes
<1>7. buffer' = <<>> /\ rest' = <<>> /\ wire' = <<>> /\ at' = "recv"
  BY <1>2, <1>5 DEF AwaitingHeader
<1>8. IsAnswer(got \o line)'
  BY <1>3, <1>5
<1>s. AwaitingHeader'
  BY <1>3, <1>6, <1>7, <1>8 DEF AwaitingHeader
<1> QED
  BY <1>s, <1>2, <1>3

\* A step that moves no byte and ends no Read early.
LEMMA HeaderStays ==
  ASSUME AwaitingHeader, at' \in {"recv", "out"},
         at' = "out" /\ left' > 0 => line' = <<>> /\ ~open',
         UNCHANGED <<rest, buffer, wire, line, got, left>>
  PROVE  AwaitingHeader' /\ UNCHANGED <<wire, got \o line>>
<1>1. AllBytes({wire, line, got})' /\ buffer' = <<>> /\ rest' = <<>>
  BY DEF AwaitingHeader, AllBytes
<1>2. left' \in Nat /\ (Len(got) + left = 16)'
  BY DEF AwaitingHeader
<1>3. \/ (IsCommand(wire) /\ line = <<>> /\ got = <<>>)'
      \/ (wire = <<>> /\ IsAnswer(got \o line))'
  BY DEF AwaitingHeader
<1>s. AwaitingHeader'
  BY <1>1, <1>2, <1>3 DEF AwaitingHeader
<1> QED
  BY <1>s

\* Every step of the pipe while the header is read.
LEMMA HeaderPipeStep ==
  ASSUME AwaitingHeader, PipeStep, thrown' = "none"
  PROVE  AwaitingHeader' /\ UNCHANGED <<wire, got \o line>>
<1>1. at \in {"recv", "out"} /\ line \in Seq(Nat) /\ left \in Nat
  BY DEF AwaitingHeader, AllBytes
<1>2. CASE Fill \/ SendDone \/ SendFails \/ SendAgain
  BY <1>1, <1>2 DEF Fill, SendDone, SendFails, SendAgain
<1>3. CASE RecvDone
  <2>1. ~(left' > 0) /\ at' = "out" /\ UNCHANGED <<rest, buffer, wire, line, got, left>>
    BY <1>3 DEF RecvDone, netVars
  <2> QED
    BY <2>1, HeaderStays
<1>4. CASE RecvEnd
  <2>1. line' = <<>> /\ ~open' /\ at' = "out" /\ UNCHANGED <<rest, buffer, wire, line, got, left>>
    BY <1>4 DEF RecvEnd, netVars
  <2> QED
    BY <2>1, HeaderStays
<1>5. CASE RecvFails
  BY <1>5 DEF RecvFails
<1>6. CASE RecvAgain
  <2>1. at' = "recv" /\ UNCHANGED <<rest, buffer, wire, line, got, left>>
    BY <1>6 DEF RecvAgain, netVars
  <2> QED
    BY <2>1, HeaderStays
<1>7. ASSUME NEW k \in 1 .. Len(buffer), Send(k) \/ SendLate(k)
      PROVE  FALSE
  BY <1>1, <1>7 DEF Send, SendLate
<1>8. ASSUME NEW k \in 1 .. Len(line), Recv(k)
      PROVE  AwaitingHeader' /\ UNCHANGED <<wire, got \o line>>
  BY <1>8, HeaderRecv
<1>9. ASSUME NEW k \in 1 .. Len(line), RecvLate(k)
      PROVE  FALSE
  BY <1>9 DEF RecvLate
<1> QED
  BY <1>2, <1>3, <1>4, <1>5, <1>6, <1>7, <1>8, <1>9 DEF PipeStep

\* The Newton answers while the header is awaited.
LEMMA HeaderAnswered ==
  ASSUME AwaitingHeader, IsCommand(wire), open, UNCHANGED callVars,
         wire' = After(wire, Len(wire)),
         NEW n \in 0 .. Len(wire), line' = line \o First(wire, n)
  PROVE  AwaitingHeader' /\ wire' = <<>> /\ got' \o line' = First(wire, n)
<1>1. /\ wire \in Seq(Nat) /\ line \in Seq(Nat) /\ got \in Seq(Nat)
      /\ UNCHANGED <<at, rest, buffer, left, got>>
  BY DEF AwaitingHeader, AllBytes, callVars
<1>2. wire # <<>>
  <2>1. Len(<<>>) = 0
    OBVIOUS
  <2>2. Len(wire) >= 16
    BY DEF IsCommand
  <2> QED
    BY <2>1, <2>2
<1>3. line = <<>> /\ got = <<>> /\ ~(at = "out" /\ left > 0)
  BY <1>2 DEF AwaitingHeader
<1>4. First(wire, n) \in Seq(Nat) /\ IsAnswer(First(wire, n)) /\ wire' = <<>>
  BY <1>1, Cut, CutAnswer, CutAtEnds
<1>5. line' = First(wire, n) /\ got' \o line' = First(wire, n)
  BY <1>1, <1>3, <1>4, WithNothing
<1>6. AllBytes({wire, line, got})'
  <2>1. <<>> \in Seq(Nat)
    BY EmptySeq
  <2> QED
    BY <1>1, <1>4, <1>5, <2>1 DEF AllBytes
<1>s. AwaitingHeader'
  BY <1>1, <1>3, <1>4, <1>5, <1>6 DEF AwaitingHeader
<1> QED
  BY <1>s, <1>4, <1>5

\* The header says how much of the command is still on the line.
LEMMA HeaderIsRead ==
  ASSUME AwaitingHeader, HeaderRead, stage' = "body"
  PROVE  /\ AwaitingBody'
         /\ wire = <<>> /\ line' = line /\ got' = <<>> /\ size' \in Nat \ {0}
         /\ \/ line = <<>>
            \/ Len(got) = 16 /\ size' = Long(SubSeq(got, 13, 16))
<1> DEFINE theHeader == got \o Zeroes(16 - Len(got))
           theLength == Long(SubSeq(theHeader, 13, 16))
<1>1. /\ at = "out" /\ buffer = <<>> /\ rest = <<>>
      /\ line \in Seq(Nat) /\ got \in Seq(Nat) /\ left \in Nat
      /\ Len(got) \in Nat /\ Len(line) \in Nat /\ Len(got) + left = 16
      /\ left > 0 => line = <<>>
  <2>1. /\ at = "out" /\ buffer = <<>> /\ rest = <<>> /\ left \in Nat /\ Len(got) + left = 16
        /\ left > 0 => line = <<>>
    BY DEF AwaitingHeader, HeaderRead
  <2>2. line \in Seq(Nat) /\ got \in Seq(Nat)
    BY DEF AwaitingHeader, AllBytes
  <2> QED
    BY <2>1, <2>2
<1>2. /\ SubSeq(theHeader, 4 * 0 + 1, 4 * 0 + 4) # Zeroes(4)
      /\ Read(Padded(Long(SubSeq(theHeader, 4 * 3 + 1, 4 * 3 + 4))))
  BY DEF HeaderRead
<1>3. Read(Padded(theLength))
  <2>1. 4 * 3 + 1 = 13 /\ 4 * 3 + 4 = 16
    OBVIOUS
  <2> QED
    BY <1>2, <2>1
<1>4. theHeader \in Seq(Nat) /\ Len(theHeader) = 16
  <2>1. 16 - Len(got) \in Nat /\ Len(got) + (16 - Len(got)) = 16
    BY <1>1
  <2>2. Zeroes(16 - Len(got)) \in Seq(Nat) /\ Len(Zeroes(16 - Len(got))) = 16 - Len(got)
    BY <2>1, ZeroesType
  <2> QED
    BY <1>1, <2>1, <2>2, Joined
<1>5. got # <<>>
  <2>1. ASSUME got = <<>>
        PROVE  FALSE
    <3>1. Len(got) = 0 /\ 16 - Len(got) = 16
      BY <2>1
    <3>2. theHeader = Zeroes(16)
      <4>1. Zeroes(16) \in Seq(Nat)
        BY ZeroesType
      <4> QED
        BY <2>1, <3>1, <4>1, WithNothing
    <3>3. SubSeq(Zeroes(16), 1, 4) = Zeroes(4)
      BY DEF Zeroes
    <3>4. 4 * 0 + 1 = 1 /\ 4 * 0 + 4 = 4
      OBVIOUS
    <3> QED
      BY <1>2, <3>2, <3>3, <3>4
  <2> QED
    BY <2>1
<1>6. wire = <<>> /\ IsAnswer(got \o line)
  BY <1>5 DEF AwaitingHeader
<1>7. theLength \in Nat
  <2> HIDE DEF theHeader
  <2>1. theHeader \in Bytes /\ Size(theHeader) >= 16
    BY <1>4 DEF Bytes, Size
  <2>2. Long(Part(theHeader, 13, 16)) \in Nat
    BY <2>1, HeaderTellsBytes
  <2> QED
    BY <2>2 DEF Part
<1> HIDE DEF theHeader, theLength
<1>8. Padded(theLength) \in Nat
  BY <1>7, PaddingType
<1>9. Len(line) <= Padded(theLength)
  <2>1. CASE left > 0
    <3>1. Len(line) = 0
      BY <1>1, <2>1
    <3> QED
      BY <1>8, <3>1
  <2>2. CASE left = 0
    <3>1. Len(got) = 16
      BY <1>1, <2>2
    <3>2. theHeader = got
      <4>1. Zeroes(0) = <<>>
        BY ZeroesType
      <4>2. 16 - Len(got) = 0
        BY <3>1
      <4> QED
        BY <1>1, <4>1, <4>2, WithNothing DEF theHeader
    <3>3. WholeLength(got \o line) = WholeLength(got)
      <4>1. got \in Bytes /\ line \in Bytes /\ Size(got) >= 16
        BY <1>1, <3>1 DEF Bytes, Size
      <4>2. WholeLength(Cat(got, line)) = WholeLength(got)
        BY <4>1, HeaderTellsBytes
      <4> QED
        BY <4>2 DEF Cat
    <3>4. WholeLength(got) = 16 + Padded(theLength)
      BY <3>2 DEF WholeLength, theLength
    <3>5. Len(got \o line) = 16 + Len(line)
      <4>1. got \in Bytes /\ line \in Bytes /\ Size(got) = 16
        BY <1>1, <3>1 DEF Bytes, Size
      <4>2. Size(Cat(got, line)) = 16 + Size(line)
        BY <4>1, CatLength
      <4> QED
        BY <4>2 DEF Cat, Size
    <3>6. 16 + Len(line) <= 16 + Padded(theLength)
      <4>1. Len(got \o line) >= 16
        BY <1>1, <3>5
      <4>2. Len(got \o line) <= WholeLength(got \o line)
        BY <1>6, <4>1 DEF IsAnswer
      <4> QED
        BY <3>3, <3>4, <3>5, <4>2
    <3> QED
      BY <1>1, <1>8, <3>6
  <2> QED
    BY <1>1, <2>1, <2>2
<1>10. /\ at' = "recv" /\ left' = Padded(theLength) /\ got' = <<>>
       /\ UNCHANGED <<rest, buffer, wire, line>>
  BY <1>3 DEF Read, netVars
<1>11. AllBytes({line, got})'
  <2>1. <<>> \in Seq(Nat)
    BY EmptySeq
  <2> QED
    BY <1>1, <1>10, <2>1 DEF AllBytes
<1>s. AwaitingBody'
  BY <1>1, <1>6, <1>8, <1>9, <1>10, <1>11 DEF AwaitingBody
<1>12. size' = theLength /\ theLength # 0
  <2>1. /\ size' = Long(SubSeq(theHeader, 4 * 3 + 1, 4 * 3 + 4))
        /\ Long(SubSeq(theHeader, 4 * 3 + 1, 4 * 3 + 4)) # 0
    BY DEF HeaderRead, theHeader
  <2>2. 4 * 3 + 1 = 13 /\ 4 * 3 + 4 = 16
    OBVIOUS
  <2> QED
    BY <2>1, <2>2 DEF theLength
<1>13. line = <<>> \/ (Len(got) = 16 /\ theLength = Long(SubSeq(got, 13, 16)))
  <2>1. CASE left > 0
    BY <1>1, <2>1
  <2>2. CASE left = 0
    <3>1. Len(got) = 16
      BY <1>1, <2>2
    <3>2. theHeader = got
      <4>1. Zeroes(0) = <<>>
        BY ZeroesType
      <4>2. 16 - Len(got) = 0
        BY <3>1
      <4> QED
        BY <1>1, <4>1, <4>2, WithNothing DEF theHeader
    <3> QED
      BY <3>1, <3>2 DEF theLength
  <2> QED
    BY <1>1, <2>1, <2>2
<1> QED
  BY <1>s, <1>6, <1>7, <1>10, <1>12, <1>13

\* The same for a step while the body is read.
LEMMA BodyStays ==
  ASSUME AwaitingBody, at' \in {"recv", "out"}, at' = "out" => line' = <<>>,
         UNCHANGED <<rest, buffer, wire, line, got, left>>
  PROVE  AwaitingBody' /\ UNCHANGED (got \o line)
<1>1. AllBytes({line, got})' /\ buffer' = <<>> /\ rest' = <<>> /\ wire' = <<>>
  BY DEF AwaitingBody, AllBytes
<1>2. (left \in Nat /\ Len(line) <= left)'
  BY DEF AwaitingBody
<1>s. AwaitingBody'
  BY <1>1, <1>2 DEF AwaitingBody
<1> QED
  BY <1>s

\* Every step of the pipe while the body is read.
LEMMA BodyPipeStep ==
  ASSUME AwaitingBody, PipeStep, thrown' = "none"
  PROVE  AwaitingBody' /\ UNCHANGED (got \o line)
<1>1. /\ at \in {"recv", "out"} /\ line \in Seq(Nat) /\ got \in Seq(Nat) /\ left \in Nat
      /\ Len(line) <= left /\ Len(line) \in Nat
  BY DEF AwaitingBody, AllBytes
<1>2. CASE Fill \/ SendDone \/ SendFails \/ SendAgain
  BY <1>1, <1>2 DEF Fill, SendDone, SendFails, SendAgain
<1>3. CASE RecvDone
  <2>1. left = 0 /\ at' = "out" /\ UNCHANGED <<rest, buffer, wire, line, got, left>>
    BY <1>3 DEF RecvDone, netVars
  <2>2. Len(line) = 0
    BY <1>1, <2>1
  <2>3. line = <<>>
    BY <1>1, <2>2, EmptySeq
  <2> QED
    BY <2>1, <2>3, BodyStays
<1>4. CASE RecvEnd
  <2>1. line' = <<>> /\ at' = "out" /\ UNCHANGED <<rest, buffer, wire, line, got, left>>
    BY <1>4 DEF RecvEnd, netVars
  <2> QED
    BY <2>1, BodyStays
<1>5. CASE RecvFails
  BY <1>5 DEF RecvFails
<1>6. CASE RecvAgain
  <2>1. at' = "recv" /\ UNCHANGED <<rest, buffer, wire, line, got, left>>
    BY <1>6 DEF RecvAgain, netVars
  <2> QED
    BY <2>1, BodyStays
<1>7. ASSUME NEW k \in 1 .. Len(buffer), Send(k) \/ SendLate(k)
      PROVE  FALSE
  BY <1>1, <1>7 DEF Send, SendLate
<1>8. ASSUME NEW k \in 1 .. Len(line), Recv(k)
      PROVE  AwaitingBody' /\ UNCHANGED (got \o line)
  <2>1. at = "recv" /\ UNCHANGED <<at, rest, buffer, wire>>
    BY <1>8 DEF Recv
  <2>2. /\ got' \in Seq(Nat) /\ line' \in Seq(Nat) /\ got' \o line' = got \o line
        /\ left' \in Nat /\ left' = left - k
        /\ Len(line') = Len(line) - k
        /\ k \in Nat
    BY <1>1, <1>8, ReadOn
  <2>3. Len(line') <= left'
    BY <1>1, <2>2
  <2>4. AllBytes({line, got})'
    BY <2>2 DEF AllBytes
  <2>5. at' = "recv" /\ buffer' = <<>> /\ rest' = <<>> /\ wire' = <<>>
    BY <2>1 DEF AwaitingBody
  <2>6. AwaitingBody'
    BY <2>2, <2>3, <2>4, <2>5 DEF AwaitingBody
  <2> QED
    BY <2>2, <2>6
<1>9. ASSUME NEW k \in 1 .. Len(line), RecvLate(k)
      PROVE  FALSE
  BY <1>9 DEF RecvLate
<1> QED
  BY <1>2, <1>3, <1>4, <1>5, <1>6, <1>7, <1>8, <1>9 DEF PipeStep

----------------------------------------------------------------------------
(* The steps, by what the application is doing *)

\* What the pieces of a body are together.
LEMMA CommandOfPieces ==
  \A body \in Seq(Nat) : pieces = Pieces(body) =>
    /\ pieces \in Seq(Seq(Nat)) /\ Len(pieces) <= 6
    /\ Unwritten \in Seq(Nat) /\ IsCommand(Unwritten) /\ Unwritten = Command(body)
BY PiecesAreCommand

\* The same of the next state's pieces.
LEMMA CommandOfNextPieces ==
  (\A body \in Seq(Nat) : pieces = Pieces(body) =>
    /\ pieces \in Seq(Seq(Nat)) /\ Len(pieces) <= 6
    /\ Unwritten \in Seq(Nat) /\ IsCommand(Unwritten) /\ Unwritten = Command(body))'
BY CommandOfPieces, PTL

\* A body is a sequence of bytes.
LEMMA BodyType ==
  \A body : IsBody(body) => body \in Seq(Nat)
<1> TAKE body
<1>1. IsBody(body) => body \in Seq(0 .. 255)
  BY DEF IsBody
<1>2. 0 .. 255 \subseteq Nat
  OBVIOUS
<1> QED
  BY <1>1, <1>2, SeqMonotonic

\* The first step of an exchange, from an application at rest.
LEMMA SendCommandStep ==
  ASSUME Quiet, SendCommand
  PROVE  /\ Sending' /\ stage' = "sending" /\ heap' = heap
         /\ \E junk \in Junk : /\ IsBody(Encoding(heap, Ptr(1), junk))
                              /\ Outgoing' = Command(Encoding(heap, Ptr(1), junk))
<1>0. PICK junk \in Junk : /\ IsBody(Encoding(heap, Ptr(1), junk))
                           /\ pieces' = Pieces(Encoding(heap, Ptr(1), junk))
  BY DEF SendCommand
<1>1. PICK body \in Seq(Nat) : body = Encoding(heap, Ptr(1), junk) /\ pieces' = Pieces(body)
  BY <1>0, BodyType
<1>3. /\ pieces' \in Seq(Seq(Nat)) /\ Len(pieces') <= 6
      /\ Unwritten' \in Seq(Nat) /\ IsCommand(Unwritten') /\ Unwritten' = Command(body)
  BY <1>1, CommandOfNextPieces
<1>4. /\ at' = "out" /\ buffer' = <<>> /\ rest' = <<>> /\ wire' = <<>> /\ line' = <<>>
      /\ stage' = "sending"
  BY DEF Quiet, SendCommand, streamVars, callVars, netVars
<1>5. Outgoing' = Unwritten'
  <2>1. Outgoing' = (<<>> \o <<>>) \o (<<>> \o Unwritten')
    BY <1>4 DEF Outgoing, Unsent
  <2>2. <<>> \o <<>> = <<>> /\ <<>> \o Unwritten' = Unwritten'
    BY <1>3, WithNothing, EmptySeq
  <2> QED
    BY <2>1, <2>2
<1>6. AllBytes({wire, line, buffer, rest})' /\ Len(buffer') <= Capacity
  <2>1. <<>> \in Seq(Nat) /\ Len(<<>>) = 0
    BY EmptySeq
  <2> QED
    BY <1>4, <2>1, StreamAssumption DEF AllBytes
<1>s. Sending'
  BY <1>3, <1>4, <1>5, <1>6 DEF Sending
<1>7. Outgoing' = Command(Encoding(heap, Ptr(1), junk))
  BY <1>1, <1>3, <1>5
<1>8. heap' = heap
  BY DEF SendCommand
<1> QED
  BY <1>s, <1>0, <1>4, <1>7, <1>8

\* Nothing is no command: a command has a header.
LEMMA NoCommand == ~IsCommand(<<>>)
BY DEF IsCommand

\* The inductive invariant holds when the application starts.
LEMMA InitExchange == Init => ExchangeIInv
BY DEF Init, StreamInit, ExchangeIInv, Quiet

\* The application changes its objects, or makes a command of them.
LEMMA QuietStep ==
  ASSUME Quiet, stage \in {"edit", "received"}, Next
  PROVE  ExchangeIInv'
<1>1. /\ at = "out" /\ buffer = <<>> /\ rest = <<>> /\ wire = <<>> /\ line = <<>>
  BY DEF Quiet
<1>2. ASSUME UNCHANGED <<at, buffer, rest, wire, line>>,
             stage' \notin {"sending", "flushing", "header", "body"}
      PROVE  ExchangeIInv'
  BY <1>1, <1>2 DEF ExchangeIInv, Quiet
<1>3. CASE SetSlot \/ RemoveASlot \/ AddItem \/ ChangeClass
  <2>1. UNCHANGED <<at, buffer, rest, wire, line>> /\ stage' = "edit"
    BY <1>3 DEF SetSlot, RemoveASlot, AddItem, ChangeClass, Edit, streamVars, callVars, netVars
  <2> QED
    BY <1>2, <2>1
<1>4. CASE SendCommand
  BY <1>4, SendCommandStep DEF ExchangeIInv
<1>5. CASE ReadObject
  <2>1. UNCHANGED <<at, buffer, rest, wire, line>> /\ stage' \in {"edit", "undecodable"}
    BY <1>5 DEF ReadObject, streamVars, callVars, netVars
  <2> QED
    BY <1>2, <2>1
<1>6. CASE PipeStep
  <2>1. \A k : ~Send(k) /\ ~SendLate(k) /\ ~Recv(k) /\ ~RecvLate(k)
    BY <1>1 DEF Send, SendLate, Recv, RecvLate
  <2>2. ~Fill /\ ~SendDone /\ ~SendFails /\ ~SendAgain
    BY <1>1 DEF Fill, SendDone, SendFails, SendAgain
  <2>3. ~RecvDone /\ ~RecvEnd /\ ~RecvFails /\ ~RecvAgain
    BY <1>1 DEF RecvDone, RecvEnd, RecvFails, RecvAgain
  <2> QED
    BY <1>6, <2>1, <2>2, <2>3 DEF PipeStep
<1>7. CASE SendPiece \/ SendEnds \/ SendThrew \/ SendCrashed \/ ReceiveCommand
           \/ HeaderRead \/ BodyRead
  BY <1>7 DEF SendPiece, SendEnds, SendThrew, SendCrashed, ReceiveCommand, HeaderRead, BodyRead
<1>8. CASE NewtonAnswers \/ NewtonBreaks
  BY <1>1, <1>8, NoCommand DEF NewtonAnswers, NewtonBreaks, WholeCommand
<1>9. CASE NewtonLeaves
  <2>1. UNCHANGED <<at, buffer, rest, wire, line, stage>>
    BY <1>9 DEF NewtonLeaves, NewtonCloses, callVars, exchangeVars
  <2> QED
    BY <1>2, <2>1
<1> QED
  BY <1>3, <1>4, <1>5, <1>6, <1>7, <1>8, <1>9 DEF Next, Step

\* How much of the answer the Newton gives, and that it has taken the command.
LEMMA NewtonSteps ==
  ASSUME NewtonAnswers \/ NewtonBreaks, wire \in Seq(Nat)
  PROVE  /\ IsCommand(wire) /\ open /\ UNCHANGED <<exchangeVars, callVars>>
         /\ wire' = After(wire, Len(wire))
         /\ \E n \in 0 .. Len(wire) : line' = line \o First(wire, n)
<1>1. /\ IsCommand(wire) /\ open /\ UNCHANGED <<exchangeVars, callVars>>
      /\ wire' = After(wire, Len(wire))
  BY DEF NewtonAnswers, NewtonBreaks, NewtonTakes, WholeCommand
<1>2. CASE NewtonAnswers
  <2>1. First(wire, Len(wire)) = wire
    BY SubSeqFull DEF First
  <2>2. Len(wire) \in 0 .. Len(wire)
    OBVIOUS
  <2> QED
    BY <1>1, <1>2, <2>1, <2>2 DEF NewtonAnswers
<1>3. CASE NewtonBreaks
  <2>1. PICK k \in CutSizes : k < Len(wire) /\ line' = line \o First(wire, k)
    BY <1>3 DEF NewtonBreaks
  <2>2. k \in 0 .. Len(wire)
    BY <2>1, StreamAssumption
  <2> QED
    BY <1>1, <2>1, <2>2
<1> QED
  BY <1>2, <1>3

\* A command is sent, and its answer awaited.
LEMMA SendingStep ==
  ASSUME ExchangeIInv, thrown = "none", at # "crashed", stage \in {"sending", "flushing"}, Next
  PROVE  ExchangeIInv'
<1>1. Sending /\ wire \in Seq(Nat) /\ line \in Seq(Nat) /\ at \in {"out", "fill", "send"}
  BY DEF ExchangeIInv, Sending, AllBytes
<1>2. ASSUME Sending', stage' \in {"sending", "flushing"}
      PROVE  ExchangeIInv'
  BY <1>2 DEF ExchangeIInv
<1>3. ASSUME thrown' # "none" \/ at' = "crashed", UNCHANGED exchangeVars
      PROVE  ExchangeIInv'
  BY <1>3 DEF ExchangeIInv, exchangeVars
<1>4. CASE SendPiece
  BY <1>1, <1>2, <1>4, SendingPiece DEF SendPiece
<1>5. CASE SendEnds
  BY <1>1, <1>2, <1>5, SendingEnds DEF SendEnds
<1>6. CASE SendThrew \/ SendCrashed
  BY <1>6 DEF SendThrew, SendCrashed, ExchangeIInv
<1>7. CASE ReceiveCommand
  <2>1. /\ stage = "flushing" /\ at = "out" /\ stage' = "header"
        /\ at' = "recv" /\ left' = 16 /\ got' = <<>>
        /\ UNCHANGED <<rest, buffer, wire, line>>
    BY <1>7 DEF ReceiveCommand, Read, netVars
  <2>2. pieces = <<>> /\ rest = <<>> /\ buffer = <<>>
    BY <1>1, <2>1 DEF Sending
  <2>3. Outgoing = wire
    <3>1. Unsent = <<>> /\ Unwritten = <<>>
      BY <2>1, <2>2, NothingUnwritten DEF Unsent
    <3>2. (wire \o <<>>) \o (<<>> \o <<>>) = wire
      BY <1>1, WithNothing, EmptySeq
    <3> QED
      BY <2>2, <3>1, <3>2 DEF Outgoing
  <2>4. AllBytes({wire, line, got})' /\ Len(got') + left' = 16
    <3>1. <<>> \in Seq(Nat) /\ Len(<<>>) = 0
      BY EmptySeq
    <3> QED
      BY <1>1, <2>1, <3>1 DEF AllBytes
  <2>5. (IsCommand(wire) /\ line = <<>> /\ got = <<>>)' \/ (wire = <<>> /\ IsAnswer(got \o line))'
    <3>1. CASE IsCommand(Outgoing) /\ line = <<>>
      BY <2>1, <2>3, <3>1
    <3>2. CASE Outgoing = <<>> /\ IsAnswer(line)
      <4>1. <<>> \o line = line
        BY <1>1, WithNothing
      <4> QED
        BY <2>1, <2>3, <3>2, <4>1
    <3> QED
      BY <1>1, <3>1, <3>2 DEF Sending
  <2>6. AwaitingHeader'
    BY <2>1, <2>2, <2>4, <2>5 DEF AwaitingHeader
  <2> QED
    BY <2>1, <2>6 DEF ExchangeIInv
<1>8. CASE PipeStep /\ UNCHANGED exchangeVars
  <2>1. stage' = stage
    BY <1>8 DEF exchangeVars
  <2>2. CASE Fill
    <3>1. stage = "sending"
      <4>1. at = "fill"
        BY <2>2 DEF Fill
      <4> QED
        BY <1>1, <4>1 DEF Sending
    <3> QED
      BY <1>1, <1>2, <1>8, <2>1, <2>2, <3>1, SendingFill
  <2>3. CASE SendDone
    BY <1>1, <1>2, <1>8, <2>1, <2>3, SendingDone
  <2>4. CASE SendFails
    BY <1>3, <1>8, <2>4 DEF SendFails, SendThrows
  <2>5. CASE SendAgain
    <3>1. UNCHANGED <<at, wire, rest, buffer, flushing, left, line, stage, pieces>>
      BY <1>8, <2>5 DEF SendAgain, netVars, exchangeVars
    <3> QED
      BY <1>1, <1>2, <2>1, <3>1, SendingStays
  <2>6. CASE RecvDone \/ RecvEnd \/ RecvFails \/ RecvAgain
    BY <1>1, <2>6 DEF RecvDone, RecvEnd, RecvFails, RecvAgain
  <2>7. ASSUME NEW k \in 1 .. Len(buffer), Send(k)
        PROVE  ExchangeIInv'
    BY <1>1, <1>2, <1>8, <2>1, <2>7, SendingSend
  <2>8. ASSUME NEW k \in 1 .. Len(buffer), SendLate(k)
        PROVE  ExchangeIInv'
    BY <1>3, <1>8, <2>8 DEF SendLate, SendThrows
  <2>9. ASSUME NEW k \in 1 .. Len(line), Recv(k) \/ RecvLate(k)
        PROVE  FALSE
    BY <1>1, <2>9 DEF Recv, RecvLate
  <2> QED
    BY <1>8, <2>2, <2>3, <2>4, <2>5, <2>6, <2>7, <2>8, <2>9 DEF PipeStep
<1>9. ASSUME NewtonAnswers \/ NewtonBreaks
      PROVE  ExchangeIInv'
  <2>1. /\ IsCommand(wire) /\ UNCHANGED <<exchangeVars, callVars>>
        /\ wire' = After(wire, Len(wire))
    BY <1>1, <1>9, NewtonSteps
  <2>2. PICK n \in 0 .. Len(wire) : line' = line \o First(wire, n)
    BY <1>1, <1>9, NewtonSteps
  <2>3. Sending'
    BY <1>1, <2>1, <2>2, SendingAnswered
  <2> QED
    BY <1>2, <2>1, <2>3 DEF exchangeVars
<1>10. CASE NewtonLeaves
  <2>1. UNCHANGED <<at, wire, rest, buffer, flushing, left, line, stage, pieces>>
    BY <1>10 DEF NewtonLeaves, NewtonCloses, callVars, exchangeVars
  <2> QED
    BY <1>1, <1>2, <2>1, SendingStays
<1>11. CASE SetSlot \/ RemoveASlot \/ AddItem \/ ChangeClass \/ SendCommand \/ ReadObject
            \/ HeaderRead \/ BodyRead
  BY <1>11 DEF SetSlot, RemoveASlot, AddItem, ChangeClass, Edit, SendCommand, ReadObject,
               HeaderRead, BodyRead
<1> QED
  BY <1>4, <1>5, <1>6, <1>7, <1>8, <1>9, <1>10, <1>11 DEF Next, Step

\* The header of the answer is read.
LEMMA HeaderStep ==
  ASSUME ExchangeIInv, thrown = "none", at # "crashed", stage = "header", Next
  PROVE  ExchangeIInv'
<1>1. AwaitingHeader /\ wire \in Seq(Nat)
  BY DEF ExchangeIInv, AwaitingHeader, AllBytes
<1>2. ASSUME AwaitingHeader', stage' = "header"
      PROVE  ExchangeIInv'
  BY <1>2 DEF ExchangeIInv
<1>3. CASE HeaderRead
  <2>1. stage' \in {"thrown", "eof", "badCommand", "noData", "body"}
    BY <1>3 DEF HeaderRead
  <2>2. CASE stage' = "body"
    BY <1>1, <1>3, <2>2, HeaderIsRead DEF ExchangeIInv
  <2>3. CASE stage' # "body"
    BY <2>1, <2>3 DEF ExchangeIInv
  <2> QED
    BY <2>2, <2>3
<1>4. CASE PipeStep /\ UNCHANGED exchangeVars
  <2>1. stage' = "header"
    BY <1>4 DEF exchangeVars
  <2>2. CASE thrown' = "none"
    BY <1>1, <1>2, <1>4, <2>1, <2>2, HeaderPipeStep
  <2>3. CASE thrown' # "none"
    BY <2>1, <2>3 DEF ExchangeIInv
  <2> QED
    BY <2>2, <2>3
<1>5. CASE NewtonAnswers \/ NewtonBreaks
  <2>1. /\ IsCommand(wire) /\ open /\ UNCHANGED <<exchangeVars, callVars>>
        /\ wire' = After(wire, Len(wire))
    BY <1>1, <1>5, NewtonSteps
  <2>2. PICK n \in 0 .. Len(wire) : line' = line \o First(wire, n)
    BY <1>1, <1>5, NewtonSteps
  <2>3. AwaitingHeader'
    BY <1>1, <2>1, <2>2, HeaderAnswered
  <2> QED
    BY <1>2, <2>1, <2>3 DEF exchangeVars
<1>6. CASE NewtonLeaves
  <2>1. ~open' /\ UNCHANGED <<at, rest, buffer, wire, line, got, left, stage>>
    BY <1>6 DEF NewtonLeaves, NewtonCloses, callVars, exchangeVars
  <2>2. at' \in {"recv", "out"} /\ (at' = "out" /\ left' > 0 => line' = <<>> /\ ~open')
    BY <1>1, <2>1 DEF AwaitingHeader
  <2> QED
    BY <1>1, <1>2, <2>1, <2>2, HeaderStays
<1>7. CASE \/ SetSlot \/ RemoveASlot \/ AddItem \/ ChangeClass \/ SendCommand \/ ReadObject
           \/ SendPiece \/ SendEnds \/ SendThrew \/ SendCrashed \/ ReceiveCommand \/ BodyRead
  BY <1>7 DEF SetSlot, RemoveASlot, AddItem, ChangeClass, Edit, SendCommand, ReadObject,
              SendPiece, SendEnds, SendThrew, SendCrashed, ReceiveCommand, BodyRead
<1> QED
  BY <1>3, <1>4, <1>5, <1>6, <1>7 DEF Next, Step

\* The body of the answer is read.
LEMMA BodyStep ==
  ASSUME ExchangeIInv, thrown = "none", at # "crashed", stage = "body", Next
  PROVE  ExchangeIInv'
<1>1. AwaitingBody /\ wire = <<>>
  BY DEF ExchangeIInv, AwaitingBody
<1>2. ASSUME AwaitingBody', stage' = "body"
      PROVE  ExchangeIInv'
  BY <1>2 DEF ExchangeIInv
<1>3. CASE BodyRead
  <2>1. /\ stage' \in {"thrown", "garbage", "received"} /\ at = "out"
        /\ UNCHANGED <<at, buffer, rest, wire, line>>
    BY <1>3 DEF BodyRead, streamVars, callVars, netVars
  <2>2. Quiet'
    BY <1>1, <2>1 DEF AwaitingBody, Quiet
  <2> QED
    BY <2>1, <2>2 DEF ExchangeIInv
<1>4. CASE PipeStep /\ UNCHANGED exchangeVars
  <2>1. stage' = "body"
    BY <1>4 DEF exchangeVars
  <2>2. CASE thrown' = "none"
    BY <1>1, <1>2, <1>4, <2>1, <2>2, BodyPipeStep
  <2>3. CASE thrown' # "none"
    BY <2>1, <2>3 DEF ExchangeIInv
  <2> QED
    BY <2>2, <2>3
<1>5. CASE NewtonAnswers \/ NewtonBreaks
  BY <1>1, <1>5, NoCommand DEF NewtonAnswers, NewtonBreaks, WholeCommand
<1>6. CASE NewtonLeaves
  <2>1. UNCHANGED <<at, rest, buffer, wire, line, got, left, stage>>
    BY <1>6 DEF NewtonLeaves, NewtonCloses, callVars, exchangeVars
  <2>2. at' \in {"recv", "out"} /\ (at' = "out" => line' = <<>>)
    BY <1>1, <2>1 DEF AwaitingBody
  <2> QED
    BY <1>1, <1>2, <2>1, <2>2, BodyStays
<1>7. CASE \/ SetSlot \/ RemoveASlot \/ AddItem \/ ChangeClass \/ SendCommand \/ ReadObject
           \/ SendPiece \/ SendEnds \/ SendThrew \/ SendCrashed \/ ReceiveCommand \/ HeaderRead
  BY <1>7 DEF SetSlot, RemoveASlot, AddItem, ChangeClass, Edit, SendCommand, ReadObject,
              SendPiece, SendEnds, SendThrew, SendCrashed, ReceiveCommand, HeaderRead
<1> QED
  BY <1>3, <1>4, <1>5, <1>6, <1>7 DEF Next, Step

\* After an exception or a crash a session only ends.
LEMMA BrokenStep ==
  ASSUME thrown # "none" \/ at = "crashed",
         stage \in {"sending", "flushing", "header", "body"}, Next
  PROVE  ExchangeIInv'
<1>1. ASSUME thrown' # "none" \/ at' = "crashed", stage' \notin {"edit", "received"}
      PROVE  ExchangeIInv'
  BY <1>1 DEF ExchangeIInv
<1>2. CASE SendThrew \/ SendCrashed \/ HeaderRead \/ BodyRead
  <2>1. stage' \in {"thrown", "crashed"}
    BY <1>2 DEF SendThrew, SendCrashed, HeaderRead, BodyRead
  <2> QED
    BY <2>1 DEF ExchangeIInv
<1>3. CASE PipeStep /\ UNCHANGED exchangeVars
  <2>1. stage' = stage
    BY <1>3 DEF exchangeVars
  <2>2. thrown # "none" /\ (thrown' # "none" \/ at' = "crashed")
    <3>1. CASE Fill \/ SendDone \/ SendFails \/ SendAgain
      BY <3>1 DEF Fill, SendDone, SendFails, SendAgain, SendThrows
    <3>2. CASE RecvDone \/ RecvEnd \/ RecvFails \/ RecvAgain
      BY <3>2 DEF RecvDone, RecvEnd, RecvFails, RecvAgain
    <3>3. ASSUME NEW k, Send(k) \/ SendLate(k) \/ Recv(k) \/ RecvLate(k)
          PROVE  thrown # "none" /\ (thrown' # "none" \/ at' = "crashed")
      BY <3>3 DEF Send, SendLate, SendThrows, Recv, RecvLate
    <3> QED
      BY <1>3, <3>1, <3>2, <3>3 DEF PipeStep
  <2> QED
    BY <1>1, <2>1, <2>2
<1>4. CASE NewtonAnswers \/ NewtonBreaks \/ NewtonLeaves
  <2>1. UNCHANGED <<thrown, at, stage>>
    BY <1>4 DEF NewtonAnswers, NewtonBreaks, NewtonLeaves, NewtonCloses, callVars, exchangeVars
  <2> QED
    BY <1>1, <2>1
<1>5. CASE \/ SetSlot \/ RemoveASlot \/ AddItem \/ ChangeClass \/ SendCommand \/ ReadObject
           \/ SendPiece \/ SendEnds \/ ReceiveCommand
  BY <1>5 DEF SetSlot, RemoveASlot, AddItem, ChangeClass, Edit, SendCommand, ReadObject,
              SendPiece, SendEnds, ReceiveCommand, Write, FlushOutput, Read
<1> QED
  BY <1>2, <1>3, <1>4, <1>5 DEF Next, Step

\* A session that has ended stays so.
LEMMA EndedStep ==
  ASSUME stage \notin {"edit", "received", "sending", "flushing", "header", "body"}, Next
  PROVE  ExchangeIInv'
<1>1. CASE PipeStep /\ UNCHANGED exchangeVars
  BY <1>1 DEF exchangeVars, ExchangeIInv
<1>2. CASE NewtonAnswers \/ NewtonBreaks \/ NewtonLeaves
  <2>1. stage' = stage
    BY <1>2 DEF NewtonAnswers, NewtonBreaks, NewtonLeaves, exchangeVars
  <2> QED
    BY <2>1 DEF ExchangeIInv
<1>3. CASE \/ SetSlot \/ RemoveASlot \/ AddItem \/ ChangeClass \/ SendCommand \/ ReadObject
           \/ SendPiece \/ SendEnds \/ SendThrew \/ SendCrashed \/ ReceiveCommand
           \/ HeaderRead \/ BodyRead
  BY <1>3 DEF SetSlot, RemoveASlot, AddItem, ChangeClass, Edit, SendCommand, ReadObject,
              SendPiece, SendEnds, SendThrew, SendCrashed, ReceiveCommand, HeaderRead, BodyRead
<1> QED
  BY <1>1, <1>2, <1>3 DEF Next, Step

\* Every step keeps the inductive invariant.
LEMMA NextExchange == ExchangeIInv /\ [Next]_vars => ExchangeIInv'
<1> SUFFICES ASSUME ExchangeIInv, [Next]_vars PROVE ExchangeIInv'
  OBVIOUS
<1>1. CASE Next
  <2>1. CASE stage \in {"edit", "received"}
    BY <1>1, <2>1, QuietStep DEF ExchangeIInv
  <2>2. CASE stage \in {"sending", "flushing", "header", "body"}
    <3>1. CASE thrown = "none" /\ at # "crashed"
      BY <1>1, <2>2, <3>1, SendingStep, HeaderStep, BodyStep
    <3>2. CASE ~(thrown = "none" /\ at # "crashed")
      BY <1>1, <2>2, <3>2, BrokenStep
    <3> QED
      BY <3>1, <3>2
  <2>3. CASE stage \notin {"edit", "received", "sending", "flushing", "header", "body"}
    BY <1>1, <2>3, EndedStep
  <2> QED
    BY <2>1, <2>2, <2>3
<1>2. CASE UNCHANGED vars
  <2>1. /\ UNCHANGED <<at, rest, buffer, flushing, left, thrown, got, wire, line, open>>
        /\ UNCHANGED <<stage, pieces>>
    BY <1>2 DEF vars, exchangeVars, streamVars, callVars, netVars
  <2>2. Unsent' = Unsent /\ Unwritten' = Unwritten
    BY <2>1 DEF Unsent, Unwritten, Piece
  <2>3. Outgoing' = Outgoing
    BY <2>1, <2>2 DEF Outgoing
  <2>4. Quiet' = Quiet
    BY <2>1 DEF Quiet
  <2>5. Sending => Sending'
    BY <2>1, SendingStays
  <2>6. AwaitingHeader => AwaitingHeader'
    <3>1. AwaitingHeader => /\ at' \in {"recv", "out"}
                            /\ at' = "out" /\ left' > 0 => line' = <<>> /\ ~open'
      BY <2>1 DEF AwaitingHeader
    <3> QED
      BY <2>1, <3>1, HeaderStays
  <2>7. AwaitingBody => AwaitingBody'
    <3>1. AwaitingBody => at' \in {"recv", "out"} /\ (at' = "out" => line' = <<>>)
      BY <2>1 DEF AwaitingBody
    <3> QED
      BY <2>1, <3>1, BodyStays
  <2> QED
    BY <2>1, <2>4, <2>5, <2>6, <2>7 DEF ExchangeIInv
<1> QED
  BY <1>1, <1>2

\* TDCLDockCommand::SendCommand and ReceiveCommand stay in step with the Newton:
\* a command is in one piece until the Newton has all of it, and its answer is
\* read to its last byte, for every encoding of every object, however the bytes
\* are cut on their way and wherever the connection breaks.
THEOREM ExchangeInvariant == Spec => []ExchangeIInv
<1>1. Init => ExchangeIInv
  BY InitExchange
<1>2. ExchangeIInv /\ [Next]_vars => ExchangeIInv'
  BY NextExchange
<1> QED
  BY <1>1, <1>2, PTL DEF Spec

\* Nothing is left of an exchange when the application has its answer: not one
\* of the zeroes that complete a command, in no buffer and on no line.
THEOREM ExchangeInStep == Spec => []InStep
<1>1. ExchangeIInv => InStep
  BY DEF ExchangeIInv, InStep, Quiet
<1> QED
  BY <1>1, ExchangeInvariant, PTL

----------------------------------------------------------------------------
(* The bytes of a body *)

\* A prefix is what something may follow.
LEMMA PrefixIs ==
  ASSUME NEW s \in Seq(Nat), NEW t \in Seq(Nat)
  PROVE  IsPrefix(s, t) <=> \E u \in Seq(Nat) : s \o u = t
<1>1. ASSUME IsPrefix(s, t)
      PROVE  \E u \in Seq(Nat) : s \o u = t
  <2>1. Len(s) <= Len(t) /\ SubSeq(s, 1, Len(s)) = SubSeq(t, 1, Len(s))
    BY <1>1 DEF IsPrefix
  <2>2. SubSeq(s, 1, Len(s)) = s
    BY SubSeqFull
  <2>3. Len(s) \in 0 .. Len(t)
    BY <2>1
  <2>4. After(t, Len(s)) \in Seq(Nat) /\ First(t, Len(s)) \o After(t, Len(s)) = t
    BY <2>3, Cut
  <2> QED
    BY <2>1, <2>2, <2>4 DEF First
<1>2. ASSUME NEW u \in Seq(Nat), s \o u = t
      PROVE  IsPrefix(s, t)
  <2>1. Len(t) = Len(s) + Len(u) /\ Len(s) \in Nat /\ Len(u) \in Nat
    BY <1>2, Joined
  <2>2. SubSeq(s \o u, 1, Len(s)) = SubSeq(s, 1, Len(s))
    <3>1. 1 \in Nat /\ Len(s) \in Nat /\ 1 <= 1 /\ 1 <= Len(s) + 1 /\ Len(s) <= Len(s)
      BY <2>1
    <3> QED
      BY <3>1, PartOfFirst
  <2>3. Len(s) <= Len(t)
    BY <2>1
  <2> QED
    BY <1>2, <2>2, <2>3 DEF IsPrefix
<1> QED
  BY <1>1, <1>2

\* Two sequences that are one and begin with as many bytes begin alike, and go
\* on alike.
LEMMA BeginAlike ==
  ASSUME NEW s \in Bytes, NEW t \in Bytes, NEW a \in Bytes, NEW b \in Bytes,
         Size(s) = Size(t), Cat(s, a) = Cat(t, b)
  PROVE  s = t /\ a = b
<1>1. ASSUME NEW x \in Bytes, NEW y \in Bytes
      PROVE  /\ Part(Cat(x, y), 1, Size(x)) = x
             /\ Part(Cat(x, y), Size(x) + 1, Size(x) + Size(y)) = y
  <2>1. Size(x) \in Nat /\ Size(y) \in Nat
    BY CatLength
  <2>2. Part(Cat(x, y), 1, Size(x)) = x
    <3>1. x \in Seq(Nat) /\ y \in Seq(Nat) /\ Len(x) \in Nat
      BY DEF Bytes
    <3>2. SubSeq(x \o y, 1, Len(x)) = SubSeq(x, 1, Len(x))
      <4>1. 1 \in Nat /\ 1 <= 1 /\ 1 <= Len(x) + 1 /\ Len(x) <= Len(x)
        BY <3>1
      <4> QED
        BY <3>1, <4>1, PartOfFirst
    <3>3. SubSeq(x, 1, Len(x)) = x
      BY <3>1, SubSeqFull
    <3> QED
      BY <3>2, <3>3 DEF Part, Cat, Size
  <2>3. Part(Cat(x, y), Size(x) + 1, Size(x) + Size(y)) = Part(y, 1, Size(y))
    <3>1. PICK m \in Nat, n \in Nat : m = Size(x) + 1 /\ n = Size(x) + Size(y)
      BY <2>1
    <3>2. 1 \in Nat /\ 1 <= Size(y) + 1
      BY <2>1
    <3>3. \A k, l, p, q \in Nat :
            1 <= k /\ k <= l + 1 /\ l <= Size(y) /\ p = Size(x) + k /\ q = Size(x) + l
              => Part(Cat(x, y), p, q) = Part(y, k, l)
      BY BehindBytes
    <3>4. Part(Cat(x, y), m, n) = Part(y, 1, Size(y))
      BY <2>1, <3>1, <3>2, <3>3
    <3> QED
      BY <3>1, <3>4
  <2>4. Part(y, 1, Size(y)) = y
    BY SubSeqFull DEF Part, Size, Bytes
  <2> QED
    BY <2>2, <2>3, <2>4
<1>2. s = t
  BY <1>1
<1>3. Size(a) = Size(b)
  <2>1. /\ Size(Cat(s, a)) = Size(s) + Size(a) /\ Size(Cat(t, b)) = Size(t) + Size(b)
        /\ Size(a) \in Nat /\ Size(b) \in Nat /\ Size(s) \in Nat
    BY CatLength, Zenon
  <2> QED
    BY <2>1
<1>4. /\ Part(Cat(s, a), Size(s) + 1, Size(s) + Size(a)) = a
      /\ Part(Cat(t, b), Size(t) + 1, Size(t) + Size(b)) = b
  BY <1>1
<1>5. a = b
  BY <1>3, <1>4
<1> QED
  BY <1>2, <1>5

\* The header of a command tells the length of its body, which follows it.
LEMMA CommandFacts ==
  ASSUME NEW body \in Seq(Nat)
  PROVE  /\ Header(Len(body)) \in Bytes /\ Size(Header(Len(body))) = 16
         /\ Long(Part(Header(Len(body)), 13, 16)) = Len(body)
         /\ Completed(body) \in Bytes /\ IsPrefix(body, Completed(body))
         /\ Command(body) = Cat(Header(Len(body)), Completed(body))
         /\ Command(body) \in Bytes /\ Command(body) # <<>>
<1> DEFINE n == Len(body)
<1>1. n \in Nat
  OBVIOUS
<1>2. /\ Header(n) \in Bytes /\ Size(Header(n)) = 16
      /\ Part(Header(n), 13, 16) = PutLong(n)
  <2> HIDE DEF n
  <2>1. Header(n) = Cat(Newt, Cat(Dock, Cat(RefTest, PutLong(n))))
    BY DEF Header, Cat
  <2> QED
    BY <1>1, <2>1, HeaderFacts
<1>3. Long(Part(Header(n), 13, 16)) = n
  BY <1>1, <1>2, LongOfPut
<1>4. Completed(body) \in Seq(Nat) /\ IsPrefix(body, Completed(body))
  <2>1. Padding(n) \in Nat
    <3> HIDE DEF n
    <3>1. Padding(n) \in 0 .. 3
      BY <1>1, PaddingType
    <3> QED
      BY <3>1
  <2>2. PICK z \in Seq(Nat) : z = Zeroes(Padding(n))
    BY <2>1, ZeroesType
  <2>3. Completed(body) = body \o z
    BY <2>2 DEF Completed
  <2>4. body \o z \in Seq(Nat)
    BY JoinedType
  <2> QED
    BY <2>3, <2>4, PrefixIs
<1>5. Completed(body) \in Bytes
  BY <1>4 DEF Bytes
<1>6. Command(body) = Cat(Header(n), Completed(body))
  BY DEF Command, Cat
<1>7. Command(body) \in Bytes /\ Size(Command(body)) >= 16
  <2>1. /\ Cat(Header(n), Completed(body)) \in Bytes /\ Size(Completed(body)) \in Nat
        /\ Size(Cat(Header(n), Completed(body))) = Size(Header(n)) + Size(Completed(body))
    BY <1>2, <1>5, CatLength
  <2> QED
    BY <1>2, <1>6, <2>1
<1>8. Command(body) # <<>>
  <2>1. Len(<<>>) = 0
    OBVIOUS
  <2> QED
    BY <1>7, <2>1 DEF Size
<1> QED
  BY <1>2, <1>3, <1>4, <1>5, <1>6, <1>7, <1>8

\* A command that is cut begins like the command.
LEMMA CutCommand ==
  ASSUME NEW s \in Seq(Nat), NEW n \in 0 .. Len(s)
  PROVE  IsPrefix(First(s, n), s)
<1>1. First(s, n) \in Seq(Nat) /\ After(s, n) \in Seq(Nat) /\ First(s, n) \o After(s, n) = s
  BY Cut
<1> QED
  BY <1>1, PrefixIs

----------------------------------------------------------------------------
(* The body on its way *)

\* The application changes no object while it waits for an answer.
LEMMA HeapStays ==
  ASSUME Next, stage \in {"sending", "flushing", "header", "body"}
  PROVE  heap' = heap
<1>1. CASE SetSlot \/ RemoveASlot \/ AddItem \/ ChangeClass \/ SendCommand \/ ReadObject
  BY <1>1 DEF SetSlot, RemoveASlot, AddItem, ChangeClass, Edit, SendCommand, ReadObject
<1>2. CASE Step
  BY <1>2 DEF Step, SendPiece, SendEnds, SendThrew, SendCrashed, ReceiveCommand, HeaderRead,
              BodyRead, exchangeVars
<1>3. CASE NewtonAnswers \/ NewtonBreaks \/ NewtonLeaves
  BY <1>3 DEF NewtonAnswers, NewtonBreaks, NewtonLeaves, exchangeVars
<1> QED
  BY <1>1, <1>2, <1>3 DEF Next

\* When FlushOutput is done the Newton has, or had, the whole command.
LEMMA AllIsSent ==
  ASSUME Sending, stage = "flushing", at = "out"
  PROVE  Outgoing = wire
<1>1. pieces = <<>> /\ rest = <<>> /\ buffer = <<>> /\ wire \in Seq(Nat)
  BY DEF Sending, AllBytes
<1>2. Unsent = <<>> /\ Unwritten = <<>>
  BY <1>1, NothingUnwritten DEF Unsent
<1>3. (wire \o <<>>) \o (<<>> \o <<>>) = wire
  BY <1>1, WithNothing, EmptySeq
<1> QED
  BY <1>1, <1>2, <1>3 DEF Outgoing

\* Two beginnings of one sequence agree as far as both go.
LEMMA PrefixesAgree ==
  ASSUME NEW s \in Seq(Nat), NEW t \in Seq(Nat), NEW c \in Seq(Nat),
         IsPrefix(s, c), IsPrefix(t, c), Len(s) <= Len(t)
  PROVE  SubSeq(s, 1, Len(s)) = SubSeq(t, 1, Len(s))
<1>0. PICK u \in Seq(Nat) : s \o u = c
  BY PrefixIs
<1>1. PICK v \in Seq(Nat) : t \o v = c
  BY PrefixIs
<1>2. 1 \in Nat /\ Len(s) \in Nat /\ 1 <= 1 /\ 1 <= Len(s) + 1 /\ Len(s) <= Len(s)
  OBVIOUS
<1>3. SubSeq(s \o u, 1, Len(s)) = SubSeq(s, 1, Len(s))
  BY <1>2, PartOfFirst
<1>4. SubSeq(t \o v, 1, Len(s)) = SubSeq(t, 1, Len(s))
  BY <1>2, PartOfFirst
<1> QED
  BY <1>0, <1>1, <1>3, <1>4

\* While a command is sent.
LEMMA SendingCarries ==
  ASSUME Sending, thrown = "none", at # "crashed", stage \in {"sending", "flushing"}, Next,
         NEW body \in Seq(Nat), Carried(body)
  PROVE  Carried(body)'
<1>0. /\ Outgoing = Command(body) \/ (Outgoing = <<>> /\ IsPrefix(line, Command(body)))
      /\ at \in {"out", "fill", "send"} /\ wire \in Seq(Nat) /\ line \in Seq(Nat)
  BY DEF Carried, Sending, AllBytes
<1>1. ASSUME stage' \in {"sending", "flushing"}, Outgoing' = Outgoing, line' = line
      PROVE  Carried(body)'
  BY <1>0, <1>1 DEF Carried
<1>2. ASSUME thrown' # "none" \/ at' = "crashed", UNCHANGED exchangeVars
      PROVE  Carried(body)'
  BY <1>2 DEF Carried, exchangeVars
<1>3. CASE SendPiece
  BY <1>1, <1>3, SendingPiece DEF SendPiece
<1>4. CASE SendEnds
  BY <1>1, <1>4, SendingEnds DEF SendEnds
<1>5. CASE SendThrew \/ SendCrashed
  BY <1>5 DEF SendThrew, SendCrashed, Carried
<1>6. CASE ReceiveCommand
  <2>1. /\ stage = "flushing" /\ at = "out" /\ stage' = "header" /\ got' = <<>>
        /\ UNCHANGED <<wire, line>>
    BY <1>6 DEF ReceiveCommand, Read, netVars
  <2>2. wire = Outgoing
    BY <2>1, AllIsSent
  <2>3. <<>> \o line = line
    BY <1>0, WithNothing
  <2>4. wire' = Command(body) \/ (wire' = <<>> /\ IsPrefix(got' \o line', Command(body)))
    BY <1>0, <2>1, <2>2, <2>3
  <2> QED
    BY <2>1, <2>4 DEF Carried
<1>7. CASE PipeStep /\ UNCHANGED exchangeVars
  <2>1. stage' = stage
    BY <1>7 DEF exchangeVars
  <2>2. CASE Fill
    <3>1. stage = "sending"
      <4>1. at = "fill"
        BY <2>2 DEF Fill
      <4> QED
        BY <4>1 DEF Sending
    <3> QED
      BY <1>1, <1>7, <2>1, <2>2, <3>1, SendingFill
  <2>3. CASE SendDone
    BY <1>1, <1>7, <2>1, <2>3, SendingDone
  <2>4. CASE SendFails
    BY <1>2, <1>7, <2>4 DEF SendFails, SendThrows
  <2>5. CASE SendAgain
    <3>1. UNCHANGED <<at, wire, rest, buffer, flushing, left, line, stage, pieces>>
      BY <1>7, <2>5 DEF SendAgain, netVars, exchangeVars
    <3> QED
      BY <1>1, <2>1, <3>1, SendingStays
  <2>6. CASE RecvDone \/ RecvEnd \/ RecvFails \/ RecvAgain
    BY <1>0, <2>6 DEF RecvDone, RecvEnd, RecvFails, RecvAgain
  <2>7. ASSUME NEW k \in 1 .. Len(buffer), Send(k)
        PROVE  Carried(body)'
    BY <1>1, <1>7, <2>1, <2>7, SendingSend
  <2>8. ASSUME NEW k \in 1 .. Len(buffer), SendLate(k)
        PROVE  Carried(body)'
    BY <1>2, <1>7, <2>8 DEF SendLate, SendThrows
  <2>9. ASSUME NEW k \in 1 .. Len(line), Recv(k) \/ RecvLate(k)
        PROVE  FALSE
    BY <1>0, <2>9 DEF Recv, RecvLate
  <2> QED
    BY <1>7, <2>2, <2>3, <2>4, <2>5, <2>6, <2>7, <2>8, <2>9 DEF PipeStep
<1>8. ASSUME NewtonAnswers \/ NewtonBreaks
      PROVE  Carried(body)'
  <2>1. /\ IsCommand(wire) /\ UNCHANGED <<exchangeVars, callVars>>
        /\ wire' = After(wire, Len(wire))
    BY <1>0, <1>8, NewtonSteps
  <2>2. PICK n \in 0 .. Len(wire) : line' = line \o First(wire, n)
    BY <1>0, <1>8, NewtonSteps
  <2>3. Outgoing = wire /\ Outgoing' = <<>> /\ line' = First(wire, n)
    BY <2>1, <2>2, SendingAnswered
  <2>4. wire = Command(body)
    BY <1>0, <2>1, <2>3, NoCommand
  <2>5. IsPrefix(line', Command(body))
    BY <1>0, <2>3, <2>4, CutCommand
  <2>6. stage' = stage
    BY <2>1 DEF exchangeVars
  <2> QED
    BY <2>3, <2>5, <2>6 DEF Carried
<1>9. CASE NewtonLeaves
  <2>1. UNCHANGED <<at, wire, rest, buffer, flushing, left, line, stage, pieces>>
    BY <1>9 DEF NewtonLeaves, NewtonCloses, callVars, exchangeVars
  <2> QED
    BY <1>1, <2>1, SendingStays
<1>10. CASE SetSlot \/ RemoveASlot \/ AddItem \/ ChangeClass \/ SendCommand \/ ReadObject
            \/ HeaderRead \/ BodyRead
  BY <1>10 DEF SetSlot, RemoveASlot, AddItem, ChangeClass, Edit, SendCommand, ReadObject,
               HeaderRead, BodyRead
<1> QED
  BY <1>3, <1>4, <1>5, <1>6, <1>7, <1>8, <1>9, <1>10 DEF Next, Step

\* While the header is read.
LEMMA HeaderCarries ==
  ASSUME AwaitingHeader, thrown = "none", at # "crashed", stage = "header", Next,
         NEW body \in Seq(Nat), Carried(body)
  PROVE  Carried(body)'
<1>0. /\ wire = Command(body) \/ (wire = <<>> /\ IsPrefix(got \o line, Command(body)))
      /\ wire \in Seq(Nat) /\ line \in Seq(Nat) /\ got \in Seq(Nat)
  BY DEF Carried, AwaitingHeader, AllBytes
<1>1. ASSUME stage' = "header", UNCHANGED <<wire, got \o line>>
      PROVE  Carried(body)'
  BY <1>0, <1>1 DEF Carried
<1>2. CASE HeaderRead
  <2>1. stage' \in {"thrown", "eof", "badCommand", "noData", "body"}
    BY <1>2 DEF HeaderRead
  <2>2. CASE stage' = "body"
    <3>1. /\ wire = <<>> /\ line' = line /\ got' = <<>> /\ size' \in Nat \ {0}
          /\ \/ line = <<>>
             \/ Len(got) = 16 /\ size' = Long(SubSeq(got, 13, 16))
      BY <1>2, <2>2, HeaderIsRead
    <3>2. IsPrefix(got \o line, Command(body))
      BY <1>0, <3>1, CommandFacts
    <3>3. CASE line = <<>>
      <4>1. size' > 0 /\ got' = <<>> /\ line' = <<>>
        BY <3>1, <3>3
      <4> QED
        BY <2>2, <4>1 DEF Carried
    <3>4. CASE Len(got) = 16 /\ size' = Long(SubSeq(got, 13, 16))
      <4>1. PICK u \in Seq(Nat) : (got \o line) \o u = Command(body)
        <5>1. got \o line \in Seq(Nat) /\ Command(body) \in Seq(Nat)
          BY <1>0, JoinedType, CommandFacts DEF Bytes
        <5> QED
          BY <3>2, <5>1, PrefixIs
      <4>2. Cat(got, Cat(line, u)) = Cat(Header(Len(body)), Completed(body))
        <5>1. Cat(Cat(got, line), u) = Cat(got, Cat(line, u))
          BY <1>0, CatFacts DEF Bytes
        <5> QED
          BY <4>1, <5>1, CommandFacts DEF Cat
      <4>3. got = Header(Len(body)) /\ Cat(line, u) = Completed(body)
        <5>1. got \in Bytes /\ Cat(line, u) \in Bytes /\ Size(got) = 16
          BY <1>0, <3>4, CatFacts DEF Bytes, Size
        <5> QED
          BY <4>2, <5>1, CommandFacts, BeginAlike
      <4>4. size' = Len(body)
        BY <3>4, <4>3, CommandFacts DEF Part
      <4>5. IsPrefix(got' \o line', Completed(body))
        <5>1. got' \o line' = line
          BY <1>0, <3>1, WithNothing
        <5>2. Completed(body) \in Seq(Nat)
          BY CommandFacts DEF Bytes
        <5> QED
          BY <1>0, <4>3, <5>1, <5>2, PrefixIs DEF Cat
      <4> QED
        BY <2>2, <4>4, <4>5 DEF Carried
    <3> QED
      BY <3>1, <3>3, <3>4
  <2>3. CASE stage' # "body"
    BY <2>1, <2>3 DEF Carried
  <2> QED
    BY <2>2, <2>3
<1>3. CASE PipeStep /\ UNCHANGED exchangeVars
  <2>1. stage' = "header"
    BY <1>3 DEF exchangeVars
  <2>2. CASE thrown' = "none"
    BY <1>1, <1>3, <2>1, <2>2, HeaderPipeStep
  <2>3. CASE thrown' # "none"
    BY <2>1, <2>3 DEF Carried
  <2> QED
    BY <2>2, <2>3
<1>4. CASE NewtonAnswers \/ NewtonBreaks
  <2>1. /\ IsCommand(wire) /\ open /\ UNCHANGED <<exchangeVars, callVars>>
        /\ wire' = After(wire, Len(wire))
    BY <1>0, <1>4, NewtonSteps
  <2>2. PICK n \in 0 .. Len(wire) : line' = line \o First(wire, n)
    BY <1>0, <1>4, NewtonSteps
  <2>3. wire' = <<>> /\ got' \o line' = First(wire, n)
    BY <2>1, <2>2, HeaderAnswered
  <2>4. wire = Command(body)
    BY <1>0, <2>1, NoCommand
  <2>5. IsPrefix(got' \o line', Command(body))
    BY <1>0, <2>3, <2>4, CutCommand
  <2>6. stage' = "header"
    BY <2>1 DEF exchangeVars
  <2> QED
    BY <2>3, <2>5, <2>6 DEF Carried
<1>5. CASE NewtonLeaves
  <2>1. stage' = "header" /\ UNCHANGED <<wire, got, line>>
    BY <1>5 DEF NewtonLeaves, NewtonCloses, callVars, exchangeVars
  <2> QED
    BY <1>1, <2>1
<1>6. CASE \/ SetSlot \/ RemoveASlot \/ AddItem \/ ChangeClass \/ SendCommand \/ ReadObject
           \/ SendPiece \/ SendEnds \/ SendThrew \/ SendCrashed \/ ReceiveCommand \/ BodyRead
  BY <1>6 DEF SetSlot, RemoveASlot, AddItem, ChangeClass, Edit, SendCommand, ReadObject,
              SendPiece, SendEnds, SendThrew, SendCrashed, ReceiveCommand, BodyRead
<1> QED
  BY <1>2, <1>3, <1>4, <1>5, <1>6 DEF Next, Step

\* While the body is read: when it is whole it is the body that was sent.
LEMMA BodyCarries ==
  ASSUME AwaitingBody, thrown = "none", at # "crashed", stage = "body", Next,
         NEW body \in Seq(Nat), Carried(body)
  PROVE  Carried(body)'
<1>0. /\ \/ size = Len(body) /\ IsPrefix(got \o line, Completed(body))
         \/ size > 0 /\ got = <<>> /\ line = <<>>
      /\ wire = <<>> /\ line \in Seq(Nat) /\ got \in Seq(Nat)
  BY DEF Carried, AwaitingBody, AllBytes
<1>1. ASSUME stage' = "body", size' = size, UNCHANGED (got \o line),
             got = <<>> /\ line = <<>> => got' = <<>> /\ line' = <<>>
      PROVE  Carried(body)'
  BY <1>0, <1>1 DEF Carried
<1>2. CASE BodyRead
  <2>1. /\ at = "out" /\ UNCHANGED <<got, size>>
        /\ stage' \in {"thrown", "garbage", "received"}
        /\ stage' = "received" => ~(Len(got) < size)
    BY <1>2 DEF BodyRead, streamVars, callVars
  <2>2. ASSUME stage' = "received"
        PROVE  size = Len(body) /\ IsPrefix(body, got)
    <3>1. line = <<>> /\ got \o line = got
      BY <1>0, <2>1, WithNothing DEF AwaitingBody
    <3>2. ~(got = <<>> /\ size > 0)
      <4>1. Len(<<>>) = 0
        OBVIOUS
      <4> QED
        BY <2>1, <2>2, <4>1
    <3>3. size = Len(body) /\ IsPrefix(got, Completed(body))
      BY <1>0, <3>1, <3>2
    <3>4. Len(body) <= Len(got)
      BY <1>0, <2>1, <2>2, <3>3
    <3>5. SubSeq(body, 1, Len(body)) = SubSeq(got, 1, Len(body))
      BY <1>0, <3>3, <3>4, PrefixesAgree, CommandFacts DEF Bytes
    <3> QED
      BY <3>3, <3>4, <3>5 DEF IsPrefix
  <2> QED
    BY <2>1, <2>2 DEF Carried
<1>3. CASE PipeStep /\ UNCHANGED exchangeVars
  <2>1. stage' = "body" /\ size' = size
    BY <1>3 DEF exchangeVars
  <2>2. CASE thrown' = "none"
    <3>1. UNCHANGED (got \o line)
      BY <1>3, <2>2, BodyPipeStep
    <3>2. got = <<>> /\ line = <<>> => got' = <<>> /\ line' = <<>>
      <4>1. got' \in Seq(Nat) /\ line' \in Seq(Nat)
        BY <1>3, <2>2, BodyPipeStep DEF AwaitingBody, AllBytes
      <4>2. got = <<>> /\ line = <<>> => got \o line = <<>>
        BY WithNothing, EmptySeq
      <4> QED
        BY <3>1, <4>1, <4>2, NothingAtAll
    <3> QED
      BY <1>1, <2>1, <3>1, <3>2
  <2>3. CASE thrown' # "none"
    BY <2>1, <2>3 DEF Carried
  <2> QED
    BY <2>2, <2>3
<1>4. CASE NewtonAnswers \/ NewtonBreaks
  BY <1>0, <1>4, NoCommand DEF NewtonAnswers, NewtonBreaks, WholeCommand
<1>5. CASE NewtonLeaves
  <2>1. UNCHANGED <<got, line, size>> /\ stage' = "body"
    BY <1>5 DEF NewtonLeaves, NewtonCloses, callVars, exchangeVars
  <2> QED
    BY <1>1, <2>1
<1>6. CASE \/ SetSlot \/ RemoveASlot \/ AddItem \/ ChangeClass \/ SendCommand \/ ReadObject
           \/ SendPiece \/ SendEnds \/ SendThrew \/ SendCrashed \/ ReceiveCommand \/ HeaderRead
  BY <1>6 DEF SetSlot, RemoveASlot, AddItem, ChangeClass, Edit, SendCommand, ReadObject,
              SendPiece, SendEnds, SendThrew, SendCrashed, ReceiveCommand, HeaderRead
<1> QED
  BY <1>2, <1>3, <1>4, <1>5, <1>6 DEF Next, Step

\* The body has come, and nothing is under way.
LEMMA ReceivedCarries ==
  ASSUME Quiet, stage = "received", Next, NEW body \in Seq(Nat), Carried(body),
         stage' \in {"sending", "flushing", "header", "body", "received"}
  PROVE  Carried(body)' /\ heap' = heap /\ stage' = "received"
<1>1. at = "out" /\ wire = <<>> /\ size = Len(body) /\ IsPrefix(body, got)
  BY DEF Quiet, Carried
<1>2. CASE NewtonLeaves
  BY <1>1, <1>2 DEF NewtonLeaves, NewtonCloses, callVars, exchangeVars, Carried
<1>3. ~PipeStep
  <2>1. \A k : ~Send(k) /\ ~SendLate(k) /\ ~Recv(k) /\ ~RecvLate(k)
    BY <1>1 DEF Send, SendLate, Recv, RecvLate
  <2>2. ~Fill /\ ~SendDone /\ ~SendFails /\ ~SendAgain
    BY <1>1 DEF Fill, SendDone, SendFails, SendAgain
  <2>3. ~RecvDone /\ ~RecvEnd /\ ~RecvFails /\ ~RecvAgain
    BY <1>1 DEF RecvDone, RecvEnd, RecvFails, RecvAgain
  <2> QED
    BY <2>1, <2>2, <2>3 DEF PipeStep
<1>4. ~NewtonAnswers /\ ~NewtonBreaks
  BY <1>1, NoCommand DEF NewtonAnswers, NewtonBreaks, WholeCommand
<1>5. ~ReadObject
  BY DEF ReadObject
<1>6. /\ ~SetSlot /\ ~RemoveASlot /\ ~AddItem /\ ~ChangeClass /\ ~SendCommand
      /\ ~SendPiece /\ ~SendEnds /\ ~SendThrew /\ ~SendCrashed /\ ~ReceiveCommand
      /\ ~HeaderRead /\ ~BodyRead
  BY DEF SetSlot, RemoveASlot, AddItem, ChangeClass, Edit, SendCommand,
         SendPiece, SendEnds, SendThrew, SendCrashed, ReceiveCommand, HeaderRead, BodyRead
<1> QED
  BY <1>2, <1>3, <1>4, <1>5, <1>6 DEF Next, Step

\* The pipe does nothing more for a call that ended with an exception.
LEMMA BrokenPipe ==
  ASSUME thrown # "none" \/ at = "crashed", PipeStep
  PROVE  thrown' # "none" \/ at' = "crashed"
<1>1. CASE Fill \/ SendDone \/ SendFails \/ SendAgain
  BY <1>1 DEF Fill, SendDone, SendFails, SendAgain, SendThrows
<1>2. CASE RecvDone \/ RecvEnd \/ RecvFails \/ RecvAgain
  BY <1>2 DEF RecvDone, RecvEnd, RecvFails, RecvAgain
<1>3. ASSUME NEW k, Send(k) \/ SendLate(k) \/ Recv(k) \/ RecvLate(k)
      PROVE  thrown' # "none" \/ at' = "crashed"
  BY <1>3 DEF Send, SendLate, SendThrows, Recv, RecvLate
<1> QED
  BY <1>1, <1>2, <1>3 DEF PipeStep

\* After an exception or a crash no body comes any more.
LEMMA BrokenCarries ==
  ASSUME thrown # "none" \/ at = "crashed",
         stage \in {"sending", "flushing", "header", "body"}, Next,
         NEW body \in Seq(Nat)
  PROVE  Carried(body)'
<1>1. ASSUME thrown' # "none" \/ at' = "crashed", stage' # "received"
      PROVE  Carried(body)'
  BY <1>1 DEF Carried
<1>2. CASE SendThrew \/ SendCrashed \/ HeaderRead \/ BodyRead
  <2>1. stage' \in {"thrown", "crashed"}
    BY <1>2 DEF SendThrew, SendCrashed, HeaderRead, BodyRead
  <2> QED
    BY <2>1 DEF Carried
<1>3. CASE PipeStep /\ UNCHANGED exchangeVars
  <2>1. stage' = stage
    BY <1>3 DEF exchangeVars
  <2>2. thrown' # "none" \/ at' = "crashed"
    BY <1>3, BrokenPipe
  <2> QED
    BY <1>1, <2>1, <2>2
<1>4. CASE NewtonAnswers \/ NewtonBreaks \/ NewtonLeaves
  <2>1. UNCHANGED <<thrown, at, stage>>
    BY <1>4 DEF NewtonAnswers, NewtonBreaks, NewtonLeaves, NewtonCloses, callVars, exchangeVars
  <2> QED
    BY <1>1, <2>1
<1>5. CASE \/ SetSlot \/ RemoveASlot \/ AddItem \/ ChangeClass \/ SendCommand \/ ReadObject
           \/ SendPiece \/ SendEnds \/ ReceiveCommand
  BY <1>5 DEF SetSlot, RemoveASlot, AddItem, ChangeClass, Edit, SendCommand, ReadObject,
              SendPiece, SendEnds, FlushOutput, Write, ReceiveCommand, Read
<1> QED
  BY <1>2, <1>3, <1>4, <1>5 DEF Next, Step

\* A new command carries its body.
LEMMA NewCarries ==
  ASSUME Quiet, SendCommand
  PROVE  CarriedIInv'
<1>1. /\ stage' = "sending" /\ heap' = heap
      /\ \E junk \in Junk : /\ IsBody(Encoding(heap, Ptr(1), junk))
                           /\ Outgoing' = Command(Encoding(heap, Ptr(1), junk))
  BY SendCommandStep
<1>2. PICK junk \in Junk : /\ IsBody(Encoding(heap', Ptr(1), junk))
                           /\ Outgoing' = Command(Encoding(heap', Ptr(1), junk))
  BY <1>1
<1>3. Carried(Encoding(heap, Ptr(1), junk))'
  BY <1>1, <1>2 DEF Carried
<1> QED
  BY <1>2, <1>3 DEF CarriedIInv

\* The bytes that are carried are those of the objects, as long as the
\* application has the same objects.
LEMMA SameBody ==
  ASSUME heap' = heap, NEW junk \in Junk, NEW body, body = Encoding(heap, Ptr(1), junk),
         IsBody(body), Carried(body)'
  PROVE  CarriedIInv'
<1>1. Carried(Encoding(heap, Ptr(1), junk))'
  BY DEF Carried
<1>2. IsBody(Encoding(heap, Ptr(1), junk))'
  BY DEF IsBody
<1> QED
  BY <1>1, <1>2 DEF CarriedIInv

\* Every step keeps what the bytes on their way are.
LEMMA NextCarried == ExchangeIInv /\ CarriedIInv /\ [Next]_vars => CarriedIInv'
<1> SUFFICES ASSUME ExchangeIInv, CarriedIInv, [Next]_vars PROVE CarriedIInv'
  OBVIOUS
<1>1. CASE Next /\ stage \in {"sending", "flushing", "header", "body", "received"}
  <2>1. PICK junk \in Junk, body \in Seq(Nat) :
          body = Encoding(heap, Ptr(1), junk) /\ IsBody(body) /\ Carried(body)
    BY <1>1, BodyType DEF CarriedIInv
  <2>2. CASE stage = "received"
    <3>1. CASE stage' \in {"sending", "flushing", "header", "body", "received"}
      <4>1. Quiet
        BY <2>2 DEF ExchangeIInv
      <4>2. Carried(body)' /\ heap' = heap
        BY <1>1, <2>1, <2>2, <3>1, <4>1, ReceivedCarries
      <4> QED
        BY <2>1, <4>2, SameBody
    <3>2. CASE stage' \notin {"sending", "flushing", "header", "body", "received"}
      BY <3>2 DEF CarriedIInv
    <3> QED
      BY <3>1, <3>2
  <2>3. CASE stage \in {"sending", "flushing", "header", "body"}
    <3>1. heap' = heap
      BY <1>1, <2>3, HeapStays
    <3>2. CASE thrown = "none" /\ at # "crashed"
      <4>1. CASE stage \in {"sending", "flushing"}
        <5>1. Sending
          BY <3>2, <4>1 DEF ExchangeIInv
        <5> QED
          BY <1>1, <2>1, <3>1, <3>2, <4>1, <5>1, SendingCarries, SameBody
      <4>2. CASE stage = "header"
        <5>1. AwaitingHeader
          BY <3>2, <4>2 DEF ExchangeIInv
        <5> QED
          BY <1>1, <2>1, <3>1, <3>2, <4>2, <5>1, HeaderCarries, SameBody
      <4>3. CASE stage = "body"
        <5>1. AwaitingBody
          BY <3>2, <4>3 DEF ExchangeIInv
        <5> QED
          BY <1>1, <2>1, <3>1, <3>2, <4>3, <5>1, BodyCarries, SameBody
      <4> QED
        BY <2>3, <4>1, <4>2, <4>3
    <3>3. CASE ~(thrown = "none" /\ at # "crashed")
      BY <1>1, <2>1, <2>3, <3>1, <3>3, BrokenCarries, SameBody
    <3> QED
      BY <3>2, <3>3
  <2> QED
    BY <1>1, <2>2, <2>3
<1>2. CASE Next /\ stage \notin {"sending", "flushing", "header", "body", "received"}
  <2>1. CASE SendCommand
    <3>1. Quiet
      BY <2>1 DEF SendCommand, ExchangeIInv
    <3> QED
      BY <2>1, <3>1, NewCarries
  <2>2. CASE ~SendCommand
    <3>1. stage' \notin {"sending", "flushing", "header", "body", "received"}
      <4>1. CASE PipeStep /\ UNCHANGED exchangeVars
        BY <1>2, <4>1 DEF exchangeVars
      <4>2. CASE NewtonAnswers \/ NewtonBreaks \/ NewtonLeaves
        BY <1>2, <4>2 DEF NewtonAnswers, NewtonBreaks, NewtonLeaves, exchangeVars
      <4>3. CASE \/ SetSlot \/ RemoveASlot \/ AddItem \/ ChangeClass \/ ReadObject
                 \/ SendPiece \/ SendEnds \/ SendThrew \/ SendCrashed \/ ReceiveCommand
                 \/ HeaderRead \/ BodyRead
        BY <1>2, <4>3 DEF SetSlot, RemoveASlot, AddItem, ChangeClass, Edit, ReadObject,
                SendPiece, SendEnds, SendThrew, SendCrashed, ReceiveCommand, HeaderRead, BodyRead
      <4> QED
        BY <1>2, <2>2, <4>1, <4>2, <4>3 DEF Next, Step
    <3> QED
      BY <3>1 DEF CarriedIInv
  <2> QED
    BY <2>1, <2>2
<1>3. CASE UNCHANGED vars
  <2>1. /\ UNCHANGED <<at, rest, buffer, flushing, left, thrown, got, wire, line>>
        /\ UNCHANGED <<stage, pieces, heap, size>>
    BY <1>3 DEF vars, exchangeVars, streamVars, callVars, netVars
  <2>2. CASE stage \in {"sending", "flushing", "header", "body", "received"}
    <3>1. PICK junk \in Junk, body \in Seq(Nat) :
            body = Encoding(heap, Ptr(1), junk) /\ IsBody(body) /\ Carried(body)
      BY <2>2, BodyType DEF CarriedIInv
    <3>2. Unsent' = Unsent /\ Unwritten' = Unwritten
      BY <2>1 DEF Unsent, Unwritten, Piece
    <3>3. Outgoing' = Outgoing
      BY <2>1, <3>2 DEF Outgoing
    <3>4. Carried(body)'
      BY <2>1, <3>1, <3>3 DEF Carried
    <3> QED
      BY <2>1, <3>1, <3>4, SameBody
  <2>3. CASE stage \notin {"sending", "flushing", "header", "body", "received"}
    BY <2>1, <2>3 DEF CarriedIInv
  <2> QED
    BY <2>2, <2>3
<1> QED
  BY <1>1, <1>2, <1>3

\* From SendCommand to the decoder the bytes of the objects stay what they are
\* and where the command says, for every encoder.
THEOREM BodyInvariant == Spec => []CarriedIInv
<1>1. Init => CarriedIInv
  BY DEF Init, CarriedIInv
<1>2. ExchangeIInv /\ CarriedIInv /\ [Next]_vars => CarriedIInv'
  BY NextCarried
<1> QED
  BY <1>1, <1>2, ExchangeInvariant, PTL DEF Spec

\* The decoder gets, byte for byte, what the encoder made.
THEOREM BodyIsReturned == Spec => []BodyReturns
<1>1. CarriedIInv => BodyReturns
  <2> SUFFICES ASSUME CarriedIInv, stage = "received" PROVE BodyReturns
    BY DEF BodyReturns
  <2>1. PICK junk \in Junk, body \in Seq(Nat) :
          body = Encoding(heap, Ptr(1), junk) /\ Carried(body)
    BY BodyType DEF CarriedIInv
  <2>2. size = Len(body) /\ SubSeq(body, 1, Len(body)) = SubSeq(got, 1, Len(body))
    BY <2>1 DEF Carried, IsPrefix
  <2>3. SubSeq(body, 1, Len(body)) = body
    BY SubSeqFull
  <2> QED
    BY <2>1, <2>2, <2>3 DEF BodyReturns
<1> QED
  BY <1>1, BodyInvariant, PTL

\* An object that comes back is the object that was sent, as soon as the codec
\* alone returns it: neither the buffer, nor the calls that are cut, nor the
\* Newton, nor what is read of the answer adds anything.
THEOREM EchoByCodec == Spec /\ []CodecReturns => EchoIsEqual
<1>1. ASSUME BodyReturns, CodecReturns, [Next]_vars
      PROVE  [stage = "received" => stage' = "edit" /\ Same(heap', heap)]_stage
  <2> SUFFICES ASSUME stage = "received", stage' # stage
               PROVE  stage' = "edit" /\ Same(heap', heap)
    OBVIOUS
  <2>1. ReadObject
    <3>1. ~(UNCHANGED vars)
      BY DEF vars, exchangeVars
    <3>2. ~(PipeStep /\ UNCHANGED exchangeVars)
      BY DEF exchangeVars
    <3>3. ~NewtonAnswers /\ ~NewtonBreaks /\ ~NewtonLeaves
      BY DEF NewtonAnswers, NewtonBreaks, NewtonLeaves, exchangeVars
    <3>4. /\ ~SetSlot /\ ~RemoveASlot /\ ~AddItem /\ ~ChangeClass /\ ~SendCommand
          /\ ~SendPiece /\ ~SendEnds /\ ~SendThrew /\ ~SendCrashed /\ ~ReceiveCommand
          /\ ~HeaderRead /\ ~BodyRead
      BY DEF SetSlot, RemoveASlot, AddItem, ChangeClass, Edit, SendCommand,
             SendPiece, SendEnds, SendThrew, SendCrashed, ReceiveCommand, HeaderRead, BodyRead
    <3> QED
      BY <1>1, <3>1, <3>2, <3>3, <3>4 DEF Next, Step
  <2>2. PICK junk \in Junk : SubSeq(got, 1, size) = Encoding(heap, Ptr(1), junk)
    BY <1>1 DEF BodyReturns
  <2>3. PICK d : d = Decoding(Encoding(heap, Ptr(1), junk))
    OBVIOUS
  <2>4. d.ok /\ Same(d.heap, heap)
    BY <1>1, <2>3 DEF CodecReturns
  <2>5. stage' = "edit" /\ heap' = d.heap
    BY <2>1, <2>2, <2>3, <2>4 DEF ReadObject
  <2> QED
    BY <2>4, <2>5
<1> QED
  BY <1>1, BodyIsReturned, PTL DEF Spec, EchoIsEqual

----------------------------------------------------------------------------
(* The slots of the application's objects *)

\* A change of the objects leaves each slot where it is searched for.
LEMMA EditIsFound ==
  ASSUME HeapIInv, SetSlot \/ RemoveASlot \/ AddItem \/ ChangeClass
  PROVE  HeapIInv'
<1>1. \A r \in Immediates : Ref(r) \in References
  BY ObjectsAssumption DEF Ref, References
<1>2. \A o \in DOMAIN heap : Ptr(o) \in References
  BY DEF Ptr, References, HeapIInv, IsHeap
<1>3. Values \subseteq References
  BY <1>1, <1>2 DEF Values
<1>4. \A n \in Names : n \in Nat /\ Sym(n) \in References
  BY ObjectsAssumption DEF Sym, References
<1>5. IsHeap(heap) /\ Findable(heap)
  BY DEF HeapIInv
<1>6. CASE SetSlot
  <2>1. PICK o \in OfType("frame"), n \in Names, value \in Values :
          heap' = [heap EXCEPT ![o] = Set(heap, heap[o], Sym(n), value)]
    BY <1>6 DEF SetSlot, Edit
  <2>2. o \in DOMAIN heap /\ heap[o].type = "frame" /\ n \in Nat /\ value \in References
    BY <1>3, <1>4 DEF OfType
  <2> QED
    BY <1>5, <2>1, <2>2, SetIsFound DEF HeapIInv
<1>7. CASE RemoveASlot
  <2>1. PICK o \in OfType("frame"), n \in Names :
          heap' = [heap EXCEPT ![o] = RemoveSlot(heap, heap[o], n)]
    BY <1>7 DEF RemoveASlot, Edit
  <2>2. o \in DOMAIN heap /\ heap[o].type = "frame"
    BY DEF OfType
  <2> QED
    BY <1>5, <2>1, <2>2, RemovedIsFound DEF HeapIInv
<1>8. CASE AddItem
  <2>1. PICK o \in OfType("array"), value \in Values :
          heap' = [heap EXCEPT ![o] = Add(heap[o], value)]
    BY <1>8 DEF AddItem, Edit
  <2>2. o \in DOMAIN heap /\ heap[o].type = "array" /\ value \in References
    BY <1>3 DEF OfType
  <2> QED
    BY <1>5, <2>1, <2>2, OthersAreFound DEF HeapIInv
<1>9. CASE ChangeClass
  <2>1. PICK o \in OfType("array") \cup OfType("binary"), n \in Names :
          heap' = [heap EXCEPT ![o] = SetClass(heap, heap[o], Sym(n))]
    BY <1>9 DEF ChangeClass, Edit
  <2>2. o \in DOMAIN heap /\ heap[o].type \in {"array", "binary"} /\ Sym(n) \in References
    BY <1>4 DEF OfType
  <2> QED
    BY <1>5, <2>1, <2>2, OthersAreFound DEF HeapIInv
<1> QED
  BY <1>6, <1>7, <1>8, <1>9

\* What the decoder makes of the bytes has the slots that were sent, and is
\* searched from end to end.
LEMMA ReadIsFound ==
  ASSUME HeapIInv, BodyReturns, CodecReturns, CodecMarks, ReadObject
  PROVE  HeapIInv'
<1>1. PICK junk \in Junk : SubSeq(got, 1, size) = Encoding(heap, Ptr(1), junk)
  BY DEF BodyReturns, ReadObject
<1>2. PICK d : d = Decoding(Encoding(heap, Ptr(1), junk))
  OBVIOUS
<1>3. d.ok /\ Same(d.heap, heap)
  BY <1>2 DEF CodecReturns, ReadObject
<1>4. IsHeap(d.heap) /\ \A o \in DOMAIN d.heap : d.heap[o].type = "frame" => ~d.heap[o].sorted
  BY <1>2 DEF CodecMarks, ReadObject
<1>5. heap' = d.heap
  BY <1>1, <1>2, <1>3 DEF ReadObject
<1>6. Findable(d.heap)
  BY <1>3, <1>4, SameIsFound DEF HeapIInv
<1> QED
  BY <1>4, <1>5, <1>6 DEF HeapIInv

\* The other steps leave the objects alone.
LEMMA NextIsFound ==
  HeapIInv /\ BodyReturns /\ CodecReturns /\ CodecMarks /\ [Next]_vars => HeapIInv'
<1> SUFFICES ASSUME HeapIInv, BodyReturns, CodecReturns, CodecMarks, [Next]_vars
             PROVE  HeapIInv'
  OBVIOUS
<1>1. CASE SetSlot \/ RemoveASlot \/ AddItem \/ ChangeClass
  BY <1>1, EditIsFound
<1>2. CASE ReadObject
  BY <1>2, ReadIsFound
<1>3. ASSUME UNCHANGED heap
      PROVE  HeapIInv'
  BY <1>3 DEF HeapIInv
<1>4. CASE Step \/ SendCommand \/ NewtonAnswers \/ NewtonBreaks \/ NewtonLeaves \/ UNCHANGED vars
  <2>1. UNCHANGED heap
    BY <1>4 DEF Step, SendCommand, NewtonAnswers, NewtonBreaks, NewtonLeaves, SendPiece, SendEnds,
           SendThrew, SendCrashed, ReceiveCommand, HeaderRead, BodyRead, exchangeVars, vars
  <2> QED
    BY <1>3, <2>1
<1> QED
  BY <1>1, <1>2, <1>4 DEF Next

\* Each slot of each of the application's frames is where GetKeyIndex looks for
\* its key, after any changes and any number of exchanges, as soon as the codec
\* alone returns what is sent and marks no frame as sorted.
THEOREM SlotsByCodec == Spec /\ []CodecReturns /\ []CodecMarks => []SlotsFound
<1>1. Init => HeapIInv
  BY ObjectsAssumption DEF Init, HeapIInv
<1>2. HeapIInv => SlotsFound
  BY DEF HeapIInv, SlotsFound
<1> QED
  BY <1>1, <1>2, NextIsFound, BodyIsReturned, PTL DEF Spec
=============================================================================
