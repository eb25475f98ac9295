------------------------------- MODULE MNPProofs -------------------------------
(***************************************************************************)
(* Proofs about the MNP pipe: the two streams are whole, and what is       *)
(* acknowledged was received, for any number of bytes, any size of frames  *)
(* and of the buffer, any span of the numbers of frames and any number of  *)
(* faults.                                                                 *)
(***************************************************************************)
EXTENDS MNPPipe, SequenceTheorems, WellFoundedInduction, TLAPS

-----------------------------------------------------------------------------
(* FlattenSeq of the community modules: what its recursive function makes  *)
(* of a sequence of sequences.  Its properties are proved on the shortest  *)
(* counterexample, the least element of a set of lengths.                  *)

Below == {p \in Nat \X Nat : p[1] < p[2]}

\* A set of numbers has a least element.
LEMMA LeastElement ==
  ASSUME NEW S, S \subseteq Nat, S # {}
  PROVE  \E m \in S : \A n \in S : m <= n
<1>1. IsWellFoundedOn(OpToRel(<, Nat), Nat)
  BY NatLessThanWellFounded, Zenon
<1>2. OpToRel(<, Nat) = Below
  BY DEF OpToRel, Below
<1>3. IsWellFoundedOn(Below, Nat)
  BY <1>1, <1>2, Zenon
<1>4. PICK m \in S : \A n \in S : ~ (<<n, m>> \in Below)
  BY <1>3, WFMin
<1>5. \A n \in S : ~ (n < m)
  <2> TAKE n \in S
  <2>1. n \in Nat /\ m \in Nat
    OBVIOUS
  <2>2. <<n, m>> \notin Below
    BY <1>4
  <2>3. n < m => <<n, m>> \in Below
    BY <2>1 DEF Below
  <2> QED
    BY <2>2, <2>3
<1> QED
  BY <1>5

\* What FlattenSeq is defined from: f[i] joins the first i members of s.
Joins(f, s, n) == f = [i \in 1..n |-> IF i = 1 THEN s[i] ELSE f[i - 1] \o s[i]]

LEMMA FlatIs ==
  ASSUME NEW s, Len(s) # 0
  PROVE  FlattenSeq(s) = (CHOOSE f : Joins(f, s, Len(s)))[Len(s)]
BY DEF FlattenSeq, Joins

\* Such an f goes on from one member to the next ...
LEMMA JoinSteps ==
  ASSUME NEW n \in Nat, NEW s, NEW f, Joins(f, s, n)
  PROVE  \A i \in 1..n : f[i] = IF i = 1 THEN s[i] ELSE f[i - 1] \o s[i]
<1> DEFINE g == [i \in 1..n |-> IF i = 1 THEN s[i] ELSE f[i - 1] \o s[i]]
<1>1. \A i \in 1..n : g[i] = IF i = 1 THEN s[i] ELSE f[i - 1] \o s[i]
  OBVIOUS
<1>2. f = g
  BY DEF Joins
<1> HIDE DEF g
<1> QED
  BY <1>1, <1>2

\* ... depends only on the members it joins ...
LEMMA JoinsAgree ==
  ASSUME NEW n \in Nat, NEW m \in Nat, NEW s, NEW t, NEW f, NEW g,
         Joins(f, s, n), Joins(g, t, m),
         NEW k \in 1..n, k <= m, \A i \in 1..k : s[i] = t[i]
  PROVE  f[k] = g[k]
<1> DEFINE D == {i \in Nat : 1 <= i /\ i <= k /\ f[i] # g[i]}
<1>1. /\ \A i \in 1..n : f[i] = IF i = 1 THEN s[i] ELSE f[i - 1] \o s[i]
      /\ \A i \in 1..m : g[i] = IF i = 1 THEN t[i] ELSE g[i - 1] \o t[i]
  BY JoinSteps
<1>2. ASSUME D # {} PROVE FALSE
  <2>1. PICK i \in D : \A j \in D : i <= j
    BY <1>2, LeastElement
  <2>2. i \in 1..n /\ i \in 1..m /\ s[i] = t[i]
    BY <2>1
  <2>3. CASE i = 1
    BY <1>1, <2>1, <2>2, <2>3
  <2>4. CASE i # 1
    <3>1. i - 1 \in Nat /\ i - 1 \notin D /\ 1 <= i - 1 /\ i - 1 <= k
      BY <2>1, <2>4
    <3>2. f[i - 1] = g[i - 1]
      BY <3>1
    <3> QED
      BY <1>1, <2>1, <2>2, <2>4, <3>2
  <2> QED
    BY <2>3, <2>4
<1> QED
  BY <1>2

\* ... and exists.
LEMMA JoinExists ==
  ASSUME NEW s, NEW n \in Nat
  PROVE  \E f : Joins(f, s, n)
<1> DEFINE D == {i \in Nat : ~ \E f : Joins(f, s, i)}
<1>1. ASSUME D # {} PROVE FALSE
  <2>1. PICK i \in D : \A j \in D : i <= j
    BY <1>1, LeastElement
  <2>2. CASE i = 0
    <3> DEFINE f == [k \in 1..0 |-> 0]
    <3>1. f = [k \in 1..0 |-> IF k = 1 THEN s[k] ELSE f[k - 1] \o s[k]]
      OBVIOUS
    <3>2. Joins(f, s, i)
      BY <2>2, <3>1 DEF Joins
    <3> QED
      BY <2>1, <3>2
  <2>3. CASE i # 0
    <3>1. i - 1 \in Nat /\ i - 1 \notin D
      BY <2>1, <2>3
    <3>2. PICK f : Joins(f, s, i - 1)
      BY <3>1
    <3>3. \A k \in 1..i - 1 : f[k] = IF k = 1 THEN s[k] ELSE f[k - 1] \o s[k]
      BY <3>1, <3>2, JoinSteps
    <3> DEFINE last == IF i = 1 THEN s[i] ELSE f[i - 1] \o s[i]
               g == [k \in 1..i |-> IF k < i THEN f[k] ELSE last]
    <3>5. ASSUME NEW k \in 1..i
          PROVE  g[k] = IF k = 1 THEN s[k] ELSE g[k - 1] \o s[k]
      <4> HIDE DEF last
      <4>0. k # 1 => k - 1 \in 1..i /\ k - 1 < i /\ g[k - 1] = f[k - 1]
        BY <2>1, <3>5
      <4>2. CASE k < i
        <5>1. k \in 1..i - 1 /\ g[k] = f[k]
          BY <2>1, <3>5, <4>2
        <5> QED
          BY <3>3, <4>0, <5>1
      <4>3. CASE k = i
        <5>1. g[k] = last
          BY <4>3
        <5> HIDE DEF g
        <5> QED
          BY <4>0, <4>3, <5>1 DEF last
      <4> QED
        BY <2>1, <3>5, <4>2, <4>3
    <3>6. g = [k \in 1..i |-> IF k = 1 THEN s[k] ELSE g[k - 1] \o s[k]]
      <4> HIDE DEF last
      <4> QED
        BY <3>5
    <3>7. Joins(g, s, i)
      <4> HIDE DEF g
      <4> QED
        BY <3>6 DEF Joins
    <3> QED
      BY <2>1, <3>7
  <2> QED
    BY <2>2, <2>3
<1> QED
  BY <1>1

LEMMA FlatEmpty == FlattenSeq(<<>>) = <<>>
BY DEF FlattenSeq

\* One more member joins the others at the end.
LEMMA FlatAppend ==
  ASSUME NEW T, NEW s \in Seq(Seq(T)), NEW x \in Seq(T)
  PROVE  FlattenSeq(Append(s, x)) = FlattenSeq(s) \o x
<1> DEFINE n == Len(s)
           t == Append(s, x)
           F == CHOOSE f : Joins(f, s, n)
           G == CHOOSE f : Joins(f, t, n + 1)
<1>1. /\ n \in Nat /\ n + 1 \in Nat /\ Len(t) = n + 1
      /\ \A i \in 1..n : t[i] = s[i]
      /\ t[n + 1] = x
  BY AppendProperties
<1> HIDE DEF t
<1>2. Joins(F, s, n) /\ Joins(G, t, n + 1)
  BY <1>1, JoinExists
<1>3. FlattenSeq(t) = G[n + 1]
  BY <1>1, FlatIs
<1>4. G[n + 1] = IF n + 1 = 1 THEN t[n + 1] ELSE G[n] \o t[n + 1]
  <2>1. n + 1 \in 1..n + 1 /\ (n + 1) - 1 = n
    BY <1>1
  <2> HIDE DEF G, n
  <2> QED
    BY <1>1, <1>2, <2>1, JoinSteps
<1>5. CASE n = 0
  <2>1. s = <<>>
    BY <1>5
  <2>2. FlattenSeq(s) \o x = x
    BY <2>1, FlatEmpty, ConcatEmptySeq
  <2> QED
    BY <1>1, <1>3, <1>4, <1>5, <2>2 DEF t
<1>6. CASE n # 0
  <2>1. FlattenSeq(s) = F[n]
    BY <1>6, FlatIs
  <2>2. F[n] = G[n]
    <3>1. n \in 1..n /\ n <= n + 1
      BY <1>1, <1>6
    <3> HIDE DEF F, G, n
    <3> QED
      BY <1>1, <1>2, <3>1, JoinsAgree
  <2> HIDE DEF F, G
  <2> QED
    BY <1>1, <1>3, <1>4, <1>6, <2>1, <2>2 DEF t
<1> QED
  BY <1>5, <1>6

\* What is joined are members of the members.
LEMMA FlatTyped ==
  ASSUME NEW T
  PROVE  \A s \in Seq(Seq(T)) : FlattenSeq(s) \in Seq(T)
<1> DEFINE D == {n \in Nat : \E s \in Seq(Seq(T)) : Len(s) = n /\ FlattenSeq(s) \notin Seq(T)}
<1>1. ASSUME D # {} PROVE FALSE
  <2>1. PICK n \in D : \A m \in D : n <= m
    BY <1>1, LeastElement
  <2>2. PICK s \in Seq(Seq(T)) : Len(s) = n /\ FlattenSeq(s) \notin Seq(T)
    BY <2>1
  <2>3. s # <<>>
    BY <2>2, FlatEmpty
  <2>4. PICK u \in Seq(Seq(T)), x \in Seq(T) : s = Append(u, x)
    BY <2>3, SequenceEmptyOrAppend
  <2>5. Len(u) \in Nat /\ Len(s) = Len(u) + 1
    BY <2>4
  <2>6. FlattenSeq(u) \in Seq(T)
    <3>1. Len(u) \notin D
      <4> HIDE DEF D
      <4> QED
        BY <2>1, <2>2, <2>5
    <3> QED
      BY <2>5, <3>1
  <2>7. FlattenSeq(s) = FlattenSeq(u) \o x
    BY <2>4, FlatAppend
  <2> QED
    BY <2>2, <2>6, <2>7, ConcatProperties
<1>2. ASSUME NEW s \in Seq(Seq(T)) PROVE FlattenSeq(s) \in Seq(T)
  <2>1. Len(s) \in Nat
    OBVIOUS
  <2> QED
    BY <1>1, <2>1
<1> QED
  BY <1>2

LEMMA ConcatAppend ==
  ASSUME NEW T, NEW s \in Seq(T), NEW t \in Seq(T), NEW x \in T
  PROVE  s \o Append(t, x) = Append(s \o t, x)
<1>1. Append(t, x) = t \o <<x>> /\ <<x>> \in Seq(T)
  BY AppendIsConcat
<1>2. s \o t \in Seq(T)
  BY ConcatProperties
<1>3. Append(s \o t, x) = (s \o t) \o <<x>>
  BY <1>2, AppendIsConcat
<1> QED
  BY <1>1, <1>3, ConcatAssociative

\* The join of two sequences of sequences is that of their joins.
LEMMA FlatConcat ==
  ASSUME NEW T
  PROVE  \A s, t \in Seq(Seq(T)) : FlattenSeq(s \o t) = FlattenSeq(s) \o FlattenSeq(t)
<1> DEFINE D == {n \in Nat : \E s, t \in Seq(Seq(T)) :
                     Len(t) = n /\ FlattenSeq(s \o t) # FlattenSeq(s) \o FlattenSeq(t)}
<1>0. \A u, v, w \in Seq(T) : (u \o v) \o w = u \o (v \o w)
  BY ConcatAssociative
<1>a. \A s, u \in Seq(Seq(T)), x \in Seq(T) :
        s \o Append(u, x) = Append(s \o u, x) /\ s \o u \in Seq(Seq(T))
  <2> DEFINE U == Seq(T)
  <2> HIDE DEF U
  <2>1. \A s, u \in Seq(U), x \in U :
          s \o Append(u, x) = Append(s \o u, x) /\ s \o u \in Seq(U)
    BY ConcatAppend, ConcatProperties
  <2> QED
    BY <2>1 DEF U
<1>1. ASSUME D # {} PROVE FALSE
  <2>1. PICK n \in D : \A m \in D : n <= m
    BY <1>1, LeastElement
  <2>2. PICK s \in Seq(Seq(T)), t \in Seq(Seq(T)) :
          Len(t) = n /\ FlattenSeq(s \o t) # FlattenSeq(s) \o FlattenSeq(t)
    BY <2>1
  <2>3. FlattenSeq(s) \in Seq(T)
    BY FlatTyped
  <2>4. t # <<>>
    <3>1. s \o <<>> = s /\ FlattenSeq(s) \o <<>> = FlattenSeq(s)
      BY <2>3, ConcatEmptySeq
    <3> QED
      BY <2>2, <3>1, FlatEmpty
  <2>5. PICK u \in Seq(Seq(T)), x \in Seq(T) : t = Append(u, x)
    BY <2>4, SequenceEmptyOrAppend
  <2>6. Len(u) \in Nat /\ Len(t) = Len(u) + 1
    BY <2>5
  <2>7. FlattenSeq(s \o u) = FlattenSeq(s) \o FlattenSeq(u)
    <3>1. Len(u) \notin D
      <4> HIDE DEF D
      <4> QED
        BY <2>1, <2>2, <2>6
    <3> QED
      BY <2>6, <3>1
  <2>8. s \o t = Append(s \o u, x) /\ s \o u \in Seq(Seq(T))
    <3>1. s \o Append(u, x) = Append(s \o u, x) /\ s \o u \in Seq(Seq(T))
      BY <1>a, <2>2, <2>5, Zenon
    <3> QED
      BY <2>5, <3>1
  <2>9. FlattenSeq(s \o t) = (FlattenSeq(s) \o FlattenSeq(u)) \o x
    BY <2>7, <2>8, FlatAppend, Zenon
  <2>10. FlattenSeq(t) = FlattenSeq(u) \o x /\ FlattenSeq(u) \in Seq(T)
    BY <2>5, FlatAppend, FlatTyped
  <2>11. (FlattenSeq(s) \o FlattenSeq(u)) \o x = FlattenSeq(s) \o (FlattenSeq(u) \o x)
    BY <1>0, <2>3, <2>5, <2>10
  <2> QED
    BY <2>2, <2>9, <2>10, <2>11
<1>2. ASSUME NEW s \in Seq(Seq(T)), NEW t \in Seq(Seq(T))
      PROVE  FlattenSeq(s \o t) = FlattenSeq(s) \o FlattenSeq(t)
  <2>1. Len(t) \in Nat
    OBVIOUS
  <2> QED
    BY <1>1, <2>1
<1> QED
  BY <1>2

\* The first member comes first.
LEMMA FlatTail ==
  ASSUME NEW T, NEW s \in Seq(Seq(T)), s # <<>>
  PROVE  FlattenSeq(s) = Head(s) \o FlattenSeq(Tail(s))
<1>1. Head(s) \in Seq(T) /\ Tail(s) \in Seq(Seq(T)) /\ <<Head(s)>> \in Seq(Seq(T))
  BY HeadTailProperties
<1>2. s = <<Head(s)>> \o Tail(s)
  OBVIOUS
<1>3. FlattenSeq(<<Head(s)>>) = Head(s)
  <2>1. <<Head(s)>> = Append(<<>>, Head(s)) /\ <<>> \in Seq(Seq(T)) /\ <<>> \in Seq(T)
    BY <1>1
  <2>2. FlattenSeq(<<Head(s)>>) = <<>> \o Head(s)
    BY <1>1, <2>1, FlatEmpty, FlatAppend
  <2> QED
    BY <1>1, <2>2, ConcatEmptySeq
<1> QED
  BY <1>1, <1>2, <1>3, FlatConcat

-----------------------------------------------------------------------------
(* The data of a sequence of frames.                                       *)

Byte == 0..MaxBytes
Chunk(kinds, frame) == IF frame.kind \in kinds THEN frame.data ELSE <<>>
Chunks(kinds, frames) == [i \in DOMAIN frames |-> Chunk(kinds, frames[i])]

LEMMA DataIs ==
  ASSUME NEW kinds, NEW frames
  PROVE  DataOf(kinds, frames) = FlattenSeq(Chunks(kinds, frames))
BY DEF DataOf, Chunks, Chunk

LEMMA ChunkTyped ==
  ASSUME NEW kinds, NEW f \in Frame
  PROVE  Chunk(kinds, f) \in Seq(Byte)
<1>1. f.data \in Seq(Byte)
  BY DEF Frame, Byte
<1>2. <<>> \in Seq(Byte)
  OBVIOUS
<1> QED
  BY <1>1, <1>2 DEF Chunk

LEMMA ChunksTyped ==
  ASSUME NEW kinds, NEW q \in Seq(Frame)
  PROVE  /\ Chunks(kinds, q) \in Seq(Seq(Byte))
         /\ Len(Chunks(kinds, q)) = Len(q)
         /\ \A i \in 1..Len(q) : Chunks(kinds, q)[i] = Chunk(kinds, q[i])
<1> DEFINE c == Chunks(kinds, q)
<1>1. DOMAIN q = 1..Len(q) /\ Len(q) \in Nat
  BY LenProperties
<1>2. \A i \in 1..Len(q) : Chunk(kinds, q[i]) \in Seq(Byte)
  BY ChunkTyped, ElementOfSeq
<1>3. c \in [1..Len(q) -> Seq(Byte)]
  BY <1>1, <1>2 DEF Chunks
<1>4. \A i \in 1..Len(q) : c[i] = Chunk(kinds, q[i])
  BY <1>1 DEF Chunks
<1> HIDE DEF c
<1>5. c \in Seq(Seq(Byte)) /\ Len(c) = Len(q)
  BY <1>1, <1>3
<1> QED
  BY <1>4, <1>5 DEF c

LEMMA DataTyped ==
  ASSUME NEW kinds, NEW q \in Seq(Frame)
  PROVE  DataOf(kinds, q) \in Seq(Byte)
BY DataIs, ChunksTyped, FlatTyped

LEMMA DataEmpty ==
  ASSUME NEW kinds
  PROVE  DataOf(kinds, <<>>) = <<>>
<1>1. Chunks(kinds, <<>>) = <<>>
  BY DEF Chunks
<1> QED
  BY <1>1, DataIs, FlatEmpty

\* A frame that joins the line brings its data at the end.
LEMMA DataAppend ==
  ASSUME NEW kinds, NEW q \in Seq(Frame), NEW f \in Frame
  PROVE  DataOf(kinds, Append(q, f)) = DataOf(kinds, q) \o Chunk(kinds, f)
<1> DEFINE U == Seq(Byte)
           c == Chunks(kinds, q)
           d == Chunks(kinds, Append(q, f))
           e == Chunk(kinds, f)
<1>1. /\ Append(q, f) \in Seq(Frame) /\ Len(Append(q, f)) = Len(q) + 1
      /\ \A i \in 1..Len(q) : Append(q, f)[i] = q[i]
      /\ Append(q, f)[Len(q) + 1] = f /\ Len(q) \in Nat
  BY AppendProperties
<1>2. /\ c \in Seq(U) /\ Len(c) = Len(q)
      /\ \A i \in 1..Len(q) : c[i] = Chunk(kinds, q[i])
  BY ChunksTyped
<1>3. /\ d \in Seq(U) /\ Len(d) = Len(q) + 1
      /\ \A i \in 1..Len(q) + 1 : d[i] = Chunk(kinds, Append(q, f)[i])
  BY <1>1, ChunksTyped
<1>4. e \in U
  BY ChunkTyped
<1>5. \A i \in 1..Len(q) : d[i] = c[i]
  <2> HIDE DEF U, c, d
  <2> QED
    BY <1>1, <1>2, <1>3
<1>6. d[Len(q) + 1] = e
  <2>1. Len(q) + 1 \in 1..Len(q) + 1
    BY <1>1
  <2>2. d[Len(q) + 1] = Chunk(kinds, Append(q, f)[Len(q) + 1])
    BY <1>3, <2>1
  <2> HIDE DEF d
  <2> QED
    BY <1>1, <2>2
<1> HIDE DEF U, c, d, e
<1>7. d = Append(c, e)
  BY <1>1, <1>2, <1>3, <1>4, <1>5, <1>6, AppendProperties, SeqEqual
<1>8. FlattenSeq(Append(c, e)) = FlattenSeq(c) \o e
  BY <1>2, <1>4, FlatAppend DEF U
<1> QED
  BY <1>7, <1>8, DataIs DEF c, d, e

\* The data of the first frame comes first.
LEMMA DataTail ==
  ASSUME NEW kinds, NEW q \in Seq(Frame), q # <<>>
  PROVE  DataOf(kinds, q) = Chunk(kinds, Head(q)) \o DataOf(kinds, Tail(q))
<1> DEFINE U == Seq(Byte)
           c == Chunks(kinds, q)
           d == Chunks(kinds, Tail(q))
<1>1. /\ Tail(q) \in Seq(Frame) /\ Len(Tail(q)) = Len(q) - 1
      /\ \A i \in 1..Len(Tail(q)) : Tail(q)[i] = q[i + 1]
      /\ Len(q) \in Nat /\ Len(q) > 0 /\ Head(q) = q[1]
  BY HeadTailProperties
<1>2. /\ c \in Seq(U) /\ Len(c) = Len(q)
      /\ \A i \in 1..Len(q) : c[i] = Chunk(kinds, q[i])
  BY ChunksTyped
<1>3. /\ d \in Seq(U) /\ Len(d) = Len(q) - 1
      /\ \A i \in 1..Len(q) - 1 : d[i] = Chunk(kinds, Tail(q)[i])
  BY <1>1, ChunksTyped, Zenon
<1>4. \A i \in 1..Len(q) - 1 : d[i] = c[i + 1]
  <2> HIDE DEF U, c, d
  <2>1. ASSUME NEW i \in 1..Len(q) - 1 PROVE d[i] = c[i + 1]
    <3>1. i + 1 \in 1..Len(q) /\ Tail(q)[i] = q[i + 1]
      BY <1>1
    <3> QED
      BY <1>2, <1>3, <3>1
  <2> QED
    BY <2>1
<1>5. c[1] = Chunk(kinds, Head(q))
  <2> HIDE DEF U, c, d
  <2> QED
    BY <1>1, <1>2
<1> HIDE DEF U, c, d
<1>6. c # <<>> /\ Head(c) = c[1]
  BY <1>1, <1>2
<1>7. Tail(c) = d
  <2>1. /\ Tail(c) \in Seq(U) /\ Len(Tail(c)) = Len(c) - 1
        /\ \A i \in 1..Len(Tail(c)) : Tail(c)[i] = c[i + 1]
    BY <1>2, <1>6, HeadTailProperties
  <2> QED
    BY <1>2, <1>3, <1>4, <2>1, SeqEqual
<1>8. FlattenSeq(c) = Head(c) \o FlattenSeq(Tail(c))
  BY <1>2, <1>6, FlatTail DEF U
<1> QED
  BY <1>5, <1>6, <1>7, <1>8, DataIs DEF c, d

\* The data depends on nothing else of the frames.
LEMMA DataSame ==
  ASSUME NEW K, NEW L, NEW q \in Seq(Frame), NEW r \in Seq(Frame), Len(q) = Len(r),
         \A i \in 1..Len(q) : Chunk(K, q[i]) = Chunk(L, r[i])
  PROVE  DataOf(K, q) = DataOf(L, r)
<1> DEFINE U == Seq(Byte)
           c == Chunks(K, q)
           d == Chunks(L, r)
<1>1. /\ c \in Seq(U) /\ Len(c) = Len(q)
      /\ \A i \in 1..Len(q) : c[i] = Chunk(K, q[i])
  BY ChunksTyped
<1>2. /\ d \in Seq(U) /\ Len(d) = Len(q)
      /\ \A i \in 1..Len(q) : d[i] = Chunk(L, r[i])
  BY ChunksTyped
<1> HIDE DEF U, c, d
<1>3. c = d
  BY <1>1, <1>2, SeqEqual
<1> QED
  BY <1>3, DataIs DEF c, d

LEMMA Joined ==
  /\ \A u, v, w \in Seq(Byte) : (u \o v) \o w = u \o (v \o w)
  /\ \A u, v \in Seq(Byte) : u \o v \in Seq(Byte)
  /\ \A u \in Seq(Byte) : u \o <<>> = u /\ <<>> \o u = u
  /\ <<>> \in Seq(Byte)
BY ConcatAssociative, ConcatProperties, ConcatEmptySeq

LEMMA Regroup ==
  ASSUME NEW u \in Seq(Byte), NEW v \in Seq(Byte), NEW w \in Seq(Byte)
  PROVE  (u \o v) \o w = u \o (v \o w)
BY Joined

\* What is sent after n bytes are the next.
LEMMA BytesFollow ==
  ASSUME NEW n \in Nat, NEW k \in Nat, n + k <= MaxBytes
  PROVE  /\ Bytes(0, n) \in Seq(Byte) /\ Bytes(n, k) \in Seq(Byte)
         /\ Bytes(n, k) \in Seq(1..MaxBytes)
         /\ Bytes(0, n) \o Bytes(n, k) = Bytes(0, n + k)
<1>m. MaxBytes \in Nat
  BY MNPAssumption
<1> DEFINE a == Bytes(0, n)
           b == Bytes(n, k)
           c == Bytes(0, n + k)
<1>1. a \in Seq(Byte) /\ Len(a) = n /\ \A i \in 1..n : a[i] = i
  BY <1>m DEF Bytes, Byte
<1>2. b \in Seq(Byte) /\ b \in Seq(1..MaxBytes) /\ Len(b) = k /\ \A i \in 1..k : b[i] = n + i
  BY <1>m DEF Bytes, Byte
<1>3. c \in Seq(Byte) /\ Len(c) = n + k /\ \A i \in 1..n + k : c[i] = i
  BY <1>m DEF Bytes, Byte
<1> HIDE DEF a, b, c
<1>4. a \o b \in Seq(Byte) /\ Len(a \o b) = n + k
      /\ \A i \in 1..n + k : (a \o b)[i] = IF i <= n THEN a[i] ELSE b[i - n]
  <2>1. a \in Seq(Byte) /\ b \in Seq(Byte)
    BY <1>1, <1>2
  <2>2. /\ a \o b \in Seq(Byte)
        /\ Len(a \o b) = Len(a) + Len(b)
        /\ \A i \in 1..Len(a) + Len(b) :
             (a \o b)[i] = IF i <= Len(a) THEN a[i] ELSE b[i - Len(a)]
    BY <2>1, ConcatProperties
  <2> QED
    BY <1>1, <1>2, <2>2
<1>5. \A i \in 1..n + k : (a \o b)[i] = i
  <2>1. ASSUME NEW i \in 1..n + k PROVE (a \o b)[i] = i
    <3>1. CASE i <= n
      BY <1>1, <1>4, <3>1
    <3>2. CASE ~ (i <= n)
      <4>1. i - n \in 1..k
        BY <3>2
      <4> QED
        BY <1>2, <1>4, <3>2, <4>1
    <3> QED
      BY <3>1, <3>2
  <2> QED
    BY <2>1
<1>6. a \o b = c
  BY <1>3, <1>4, <1>5, SeqEqual
<1> QED
  BY <1>1, <1>2, <1>6 DEF a, b, c

\* A sequence cut in two.
LEMMA CutInTwo ==
  ASSUME NEW T, NEW s \in Seq(T), NEW k \in 0..Len(s)
  PROVE  /\ SubSeq(s, 1, k) \in Seq(T) /\ SubSeq(s, k + 1, Len(s)) \in Seq(T)
         /\ SubSeq(s, 1, k) \o SubSeq(s, k + 1, Len(s)) = s
<1>1. Len(s) \in Nat /\ 1 \in 1..Len(s) + 1 /\ k \in 1 - 1..Len(s) /\ Len(s) \in k..Len(s)
  OBVIOUS
<1>2. SubSeq(s, 1, k) \o SubSeq(s, k + 1, Len(s)) = SubSeq(s, 1, Len(s))
  BY <1>1, ConcatAdjacentSubSeq
<1>3. SubSeq(s, 1, k) \in Seq(T) /\ SubSeq(s, k + 1, Len(s)) \in Seq(T)
  BY <1>1
<1> QED
  BY <1>2, <1>3, SubSeqFull

-----------------------------------------------------------------------------
(* Numbers of frames, and the frames of a Write.                           *)

\* Arithmetic of the numbers of frames.
LEMMA DivMod ==
  ASSUME NEW a \in Nat, NEW n \in Nat \ {0}
  PROVE  a % n \in 0..n - 1 /\ a \div n \in Nat /\ a = n * (a \div n) + (a % n)
OBVIOUS

LEMMA ModOf ==
  ASSUME NEW q \in Nat, NEW n \in Nat \ {0}, NEW r \in 0..n - 1
  PROVE  (n * q + r) % n = r
OBVIOUS

LEMMA ModPlus ==
  ASSUME NEW a \in Nat, NEW k \in Nat, NEW n \in Nat \ {0}
  PROVE  ((a % n) + k) % n = (a + k) % n
<1> DEFINE r == a % n
           q == a \div n
           u == r + k
           s == u % n
           t == u \div n
<1>1. r \in 0..n - 1 /\ q \in Nat /\ a = n * q + r
  BY DivMod
<1> HIDE DEF r, q
<1>u. u \in Nat
  BY <1>1
<1> HIDE DEF u
<1>2. s \in 0..n - 1 /\ t \in Nat /\ u = n * t + s
  BY <1>u, DivMod
<1> HIDE DEF s, t
<1>3. a + k = n * (q + t) + s
  BY <1>1, <1>2 DEF u
<1>4. (n * (q + t) + s) % n = s
  <2>1. q + t \in Nat
    BY <1>1, <1>2
  <2> DEFINE v == q + t
  <2>2. v \in Nat
    BY <2>1
  <2> HIDE DEF v
  <2>3. (n * v + s) % n = s
    BY <1>2, <2>2, ModOf
  <2> QED
    BY <2>3 DEF v
<1> QED
  BY <1>3, <1>4 DEF s, r, u

LEMMA Constants ==
  /\ MaxBytes \in Nat /\ Capacity \in Nat \ {0} /\ CommandSize \in Nat \ {0}
  /\ FrameSize \in Nat \ {0} /\ Credits \in Nat \ {0} /\ MaxFaults \in Nat
  /\ IndexSpan \in Nat \ {0} /\ 1 < IndexSpan /\ 1 \in 0..IndexSpan - 1
  /\ 0 \in 0..IndexSpan - 1
BY MNPAssumption

LEMMA NextTyped ==
  ASSUME NEW i \in Nat
  PROVE  Next1(i) \in 0..IndexSpan - 1 /\ i % IndexSpan \in 0..IndexSpan - 1
BY Constants, DivMod DEF Next1

LEMMA FramesTyped ==
  /\ LR \in Frame /\ LD \in Frame
  /\ \A i \in 0..IndexSpan - 1 : LA(i) \in Frame
  /\ \A i \in 0..IndexSpan - 1, d \in Seq(Byte) : LT(i, d) \in Frame
<1>1. <<>> \in Seq(0..MaxBytes) /\ <<0>> \in Seq(0..MaxBytes)
  BY Constants
<1> QED
  BY <1>1, Constants DEF LR, LD, LA, LT, Frame, Kinds, Byte

LEMMA BufferIsBytes ==
  ASSUME NEW d \in Seq(1..MaxBytes)
  PROVE  d \in Seq(Byte)
<1>1. 1..MaxBytes \subseteq Byte
  BY Constants DEF Byte
<1> QED
  BY <1>1, SeqMonotonic

\* The first frames of a Write, as they are made one by one.
FirstFrames(data, m) ==
  [i \in 1..m |-> LT((outIndex + i - 1) % IndexSpan,
                     SubSeq(data, (i - 1) * Capacity + 1, i * Capacity))]

\* They are frames.
LEMMA FirstFramesTyped ==
  ASSUME NEW data \in Seq(Byte), outIndex \in 0..IndexSpan - 1,
         NEW m \in Nat, m * Capacity <= Len(data)
  PROVE  /\ FirstFrames(data, m) \in Seq(Frame) /\ Len(FirstFrames(data, m)) = m
         /\ \A i \in 1..m : FirstFrames(data, m)[i] =
              LT((outIndex + i - 1) % IndexSpan,
                 SubSeq(data, (i - 1) * Capacity + 1, i * Capacity))
<1> DEFINE F(i) == LT((outIndex + i - 1) % IndexSpan,
                      SubSeq(data, (i - 1) * Capacity + 1, i * Capacity))
           q == FirstFrames(data, m)
<1>1. ASSUME NEW i \in 1..m PROVE F(i) \in Frame
  <2>1. outIndex + i - 1 \in Nat
    BY Constants
  <2>2. (outIndex + i - 1) % IndexSpan \in 0..IndexSpan - 1
    BY <2>1, NextTyped
  <2> DEFINE lo == (i - 1) * Capacity + 1
             hi == i * Capacity
  <2>3. lo \in Int /\ hi \in Int /\ lo >= 1 /\ hi <= Len(data) /\ Len(data) \in Nat
    <3> DEFINE x == (i - 1) * Capacity
               y == i * Capacity
               z == m * Capacity
    <3>1. x >= 0 /\ x \in Int
      BY Constants
    <3>2. y <= z /\ y \in Int /\ z \in Int
      <4>1. i \in Nat /\ i <= m /\ Capacity \in Nat
        BY Constants
      <4>2. m * Capacity = i * Capacity + (m - i) * Capacity /\ (m - i) * Capacity >= 0
        BY <4>1
      <4> QED
        BY <4>1, <4>2
    <3>3. z <= Len(data) /\ Len(data) \in Nat
      OBVIOUS
    <3> HIDE DEF x, y, z
    <3>4. x + 1 \in Int /\ y \in Int /\ x + 1 >= 1 /\ y <= Len(data) /\ Len(data) \in Nat
      BY <3>1, <3>2, <3>3
    <3> QED
      BY <3>4 DEF x, y
  <2> HIDE DEF lo, hi
  <2>4. \A j \in lo..hi : data[j] \in Byte
    BY <2>3
  <2>5. SubSeq(data, lo, hi) \in Seq(Byte)
    BY <2>3, <2>4, SubSeqProperties
  <2>6. LT((outIndex + i - 1) % IndexSpan, SubSeq(data, lo, hi)) \in Frame
    BY <2>2, <2>5, FramesTyped
  <2> QED
    BY <2>6 DEF lo, hi
<1>2. q = [i \in 1..m |-> F(i)]
  BY DEF FirstFrames
<1> HIDE DEF F, q
<1>3. q \in [1..m -> Frame] /\ \A i \in 1..m : q[i] = F(i)
  BY <1>1, <1>2
<1>4. q \in Seq(Frame) /\ Len(q) = m
  BY <1>3
<1> QED
  BY <1>3, <1>4 DEF F, q

\* They hold the first bytes of the buffer and the Write, in order.
LEMMA FirstFramesHold ==
  ASSUME NEW data \in Seq(Byte), outIndex \in 0..IndexSpan - 1
  PROVE  \A m \in Nat : m * Capacity <= Len(data) =>
           DataOf({"LT"}, FirstFrames(data, m)) = SubSeq(data, 1, m * Capacity)
<1> DEFINE Holds(m) == m * Capacity <= Len(data) =>
              DataOf({"LT"}, FirstFrames(data, m)) = SubSeq(data, 1, m * Capacity)
           D == {m \in Nat : ~ Holds(m)}
<1>1. ASSUME D # {} PROVE FALSE
  <2>1. PICK m \in D : \A k \in D : m <= k
    BY <1>1, LeastElement
  <2>2. m \in Nat /\ m * Capacity <= Len(data)
        /\ DataOf({"LT"}, FirstFrames(data, m)) # SubSeq(data, 1, m * Capacity)
    BY <2>1
  <2>3. m # 0
    <3>1. FirstFrames(data, 0) = <<>> /\ SubSeq(data, 1, 0) = <<>>
      BY DEF FirstFrames
    <3>2. 0 * Capacity = 0
      BY Constants
    <3> QED
      BY <2>2, <3>1, <3>2, DataEmpty
  <2> DEFINE k == m - 1
             C == Capacity
             f == LT((outIndex + m - 1) % IndexSpan, SubSeq(data, k * C + 1, m * C))
  <2>4. /\ k \in Nat /\ m = k + 1 /\ k \notin D /\ m * C = k * C + C
        /\ k * C \in Nat /\ m * C \in Nat /\ k * C <= m * C
    <3>1. k \in Nat /\ m = k + 1 /\ k < m
      BY <2>2, <2>3
    <3>2. k \notin D
      BY <2>1, <3>1
    <3>3. (k + 1) * C = k * C + C /\ k * C \in Nat /\ C \in Nat
      BY <3>1, Constants
    <3> HIDE DEF k
    <3> QED
      BY <3>1, <3>2, <3>3
  <2>5. k * C <= Len(data) /\ Len(data) \in Nat
    <3> HIDE DEF k, C
    <3> QED
      BY <2>2, <2>4 DEF C
  <2>6. DataOf({"LT"}, FirstFrames(data, k)) = SubSeq(data, 1, k * C)
    BY <2>4, <2>5
  <2>7. /\ FirstFrames(data, m) \in Seq(Frame) /\ Len(FirstFrames(data, m)) = m
        /\ \A i \in 1..m : FirstFrames(data, m)[i] =
              LT((outIndex + i - 1) % IndexSpan, SubSeq(data, (i - 1) * Capacity + 1, i * Capacity))
    BY <2>2, FirstFramesTyped
  <2>8. /\ FirstFrames(data, k) \in Seq(Frame) /\ Len(FirstFrames(data, k)) = k
        /\ \A i \in 1..k : FirstFrames(data, k)[i] =
              LT((outIndex + i - 1) % IndexSpan, SubSeq(data, (i - 1) * Capacity + 1, i * Capacity))
    BY <2>4, <2>5, FirstFramesTyped
  <2>9. FirstFrames(data, m)[m] = f
    <3>1. m \in 1..m
      BY <2>2, <2>3
    <3> QED
      BY <2>7, <3>1
  <2>10. f \in Frame
    <3>1. m \in 1..Len(FirstFrames(data, m))
      BY <2>2, <2>3, <2>7
    <3> HIDE DEF f
    <3> QED
      BY <2>7, <2>9, <3>1, ElementOfSeq
  <2>11. f.kind = "LT" /\ f.data = SubSeq(data, k * C + 1, m * C)
    BY DEF LT
  <2>12. \A i \in 1..k : FirstFrames(data, m)[i] = FirstFrames(data, k)[i]
    <3>1. \A i \in 1..k : i \in 1..m
      BY <2>4
    <3> QED
      BY <2>7, <2>8, <3>1
  <2> HIDE DEF f
  <2>13. FirstFrames(data, m) = Append(FirstFrames(data, k), f)
    <3> DEFINE q == FirstFrames(data, m)
               r == FirstFrames(data, k)
               s == Append(r, f)
    <3>1. /\ q \in Seq(Frame) /\ Len(q) = k + 1 /\ r \in Seq(Frame) /\ Len(r) = k
          /\ q[k + 1] = f /\ \A i \in 1..k : q[i] = r[i]
      BY <2>4, <2>7, <2>8, <2>9, <2>12
    <3> HIDE DEF q, r, s, k
    <3>2. s \in Seq(Frame) /\ Len(s) = k + 1 /\ s[k + 1] = f /\ \A i \in 1..k : s[i] = r[i]
      BY <2>10, <3>1, AppendProperties DEF s
    <3>3. \A i \in 1..k + 1 : q[i] = s[i]
      BY <2>4, <3>1, <3>2
    <3>4. q = s
      BY <3>1, <3>2, <3>3, SeqEqual
    <3> QED
      BY <3>4 DEF q, r, s
  <2>14. DataOf({"LT"}, FirstFrames(data, m))
           = DataOf({"LT"}, FirstFrames(data, k)) \o Chunk({"LT"}, f)
    BY <2>8, <2>10, <2>13, DataAppend
  <2>15. Chunk({"LT"}, f) = SubSeq(data, k * C + 1, m * C)
    BY <2>11 DEF Chunk
  <2> DEFINE a == k * C
             b == m * C
  <2>16. SubSeq(data, 1, a) \o SubSeq(data, a + 1, b) = SubSeq(data, 1, b)
    <3>1. a \in Nat /\ b \in Nat /\ a <= b /\ b <= Len(data) /\ Len(data) \in Nat
      BY <2>2, <2>4, <2>5
    <3> HIDE DEF a, b, k, C
    <3>2. 1 \in 1..Len(data) + 1 /\ a \in 1 - 1..Len(data) /\ b \in a..Len(data)
      BY <3>1
    <3> QED
      BY <3>2, ConcatAdjacentSubSeq
  <2> QED
    BY <2>2, <2>6, <2>14, <2>15, <2>16
<1>2. \A m \in Nat : Holds(m)
  BY <1>1
<1> QED
  BY <1>2

-----------------------------------------------------------------------------
(* Types, and what only a damaged line brings.                             *)

\* A frame is taken, one is added, the last one is damaged.
LEMMA HeadAndRest ==
  ASSUME NEW q \in Seq(Frame), q # <<>>
  PROVE  /\ Head(q) \in Frame /\ Head(q) = q[1] /\ 1 \in DOMAIN q
         /\ Tail(q) \in Seq(Frame) /\ Len(Tail(q)) = Len(q) - 1
         /\ \A i \in DOMAIN Tail(q) : i + 1 \in DOMAIN q /\ Tail(q)[i] = q[i + 1]
         /\ DOMAIN q = 1..Len(q) /\ Len(q) \in Nat /\ Len(q) >= 1
         /\ DOMAIN Tail(q) = 1..Len(q) - 1
BY HeadTailProperties

LEMMA OneMore ==
  ASSUME NEW q \in Seq(Frame), NEW f \in Frame
  PROVE  /\ Append(q, f) \in Seq(Frame) /\ Append(q, f) # <<>>
         /\ Len(Append(q, f)) = Len(q) + 1 /\ Len(q) \in Nat
         /\ DOMAIN Append(q, f) = 1..Len(q) + 1 /\ DOMAIN q = 1..Len(q)
         /\ \A i \in DOMAIN Append(q, f) :
              Append(q, f)[i] = IF i = Len(q) + 1 THEN f ELSE q[i]
         /\ \A i \in DOMAIN Append(q, f) : i # Len(q) + 1 => i \in DOMAIN q
BY AppendProperties

LEMMA Damaged ==
  ASSUME NEW q \in Seq(Frame), q # <<>>,
         NEW r, r = [q EXCEPT ![Len(q)].kind = "bad"]
  PROVE  /\ r \in Seq(Frame) /\ r # <<>> /\ Len(r) = Len(q) /\ DOMAIN r = DOMAIN q
         /\ \A i \in DOMAIN q : /\ r[i].data = q[i].data /\ r[i].index = q[i].index
                                /\ r[i].kind = q[i].kind \/ r[i].kind = "bad"
<1> DEFINE n == Len(q)
           f == [q[n] EXCEPT !.kind = "bad"]
<1>1. n \in 1..n /\ n \in Nat /\ DOMAIN q = 1..n /\ \A i \in 1..n : q[i] \in Frame
  OBVIOUS
<1>2. q[n] \in Frame /\ "bad" \in Kinds
  BY <1>1 DEF Kinds
<1>3. f \in Frame /\ f.data = q[n].data /\ f.index = q[n].index /\ f.kind = "bad"
  BY <1>2 DEF Frame
<1>4. r = [q EXCEPT ![n] = f]
  OBVIOUS
<1> HIDE DEF f, n
<1>5. r \in [1..n -> Frame] /\ \A i \in 1..n : r[i] = IF i = n THEN f ELSE q[i]
  BY <1>1, <1>3, <1>4
<1>6. r \in Seq(Frame) /\ Len(r) = n /\ DOMAIN r = 1..n
  BY <1>1, <1>5
<1>7. r # <<>>
  BY <1>1, <1>6
<1> QED
  BY <1>1, <1>3, <1>5, <1>6, <1>7 DEF n

\* What the Newton keeps for a repetition.
Kept(q) == q \in Seq(Frame) /\ \A i \in DOMAIN q : q[i].kind = "LT"

\* What an acknowledgement leaves of it.
LEMMA AcknowledgedTyped ==
  ASSUME NEW q, Kept(q), NEW index
  PROVE  Kept(Acknowledged(q, index))
<1>q. q \in Seq(Frame) /\ \A i \in DOMAIN q : q[i].kind = "LT"
  BY DEF Kept
<1> DEFINE named == {i \in DOMAIN q : q[i].index = index}
           k == CHOOSE i \in named : TRUE
<1>1. CASE named # {}
  <2>1. k \in named
    BY <1>1
  <2>2. k \in 1..Len(q) /\ Len(q) \in Nat
    BY <1>q, <2>1
  <2> DEFINE r == SubSeq(q, 1 + k, Len(q))
  <2>s. Acknowledged(q, index) = r
    BY <1>1 DEF Acknowledged
  <2> HIDE DEF k, named
  <2>3. 1 + k \in Int /\ Len(q) \in Int /\ \A i \in 1 + k..Len(q) : i \in 1..Len(q) /\ q[i] \in Frame
    BY <1>q, <2>2
  <2>4. /\ r \in Seq(Frame) /\ Len(r) = IF 1 + k <= Len(q) THEN Len(q) - (1 + k) + 1 ELSE 0
        /\ \A i \in 1..Len(q) - (1 + k) + 1 : r[i] = q[1 + k + i - 1]
    BY <2>3, SubSeqProperties
  <2> HIDE DEF r
  <2>5. ASSUME NEW i \in DOMAIN r PROVE r[i].kind = "LT"
    <3>1. i \in 1..Len(q) - (1 + k) + 1 /\ 1 + k + i - 1 \in 1..Len(q)
      BY <2>2, <2>4
    <3> QED
      BY <1>q, <2>4, <3>1
  <2> QED
    BY <2>4, <2>5, <2>s DEF Kept
<1>2. CASE named = {}
  BY <1>2 DEF Acknowledged
<1> QED
  BY <1>1, <1>2

\* The copy of Read moves bytes from the frame to the reader and the buffer, and
\* loses none.
LEMMA CopyTyped ==
  ASSUME NEW d \in Seq(Byte), NEW wanted \in 1..CommandSize, delivered \in Seq(Byte),
         CopyData(d, wanted)
  PROVE  /\ delivered' \in Seq(Byte) /\ inBuffer' \in Seq(Byte)
         /\ left' \in 0..CommandSize
         /\ left' > 0 => inBuffer' = <<>>
         /\ delivered' \o inBuffer' = delivered \o d
<1> DEFINE n == IF wanted < Len(d) THEN wanted ELSE Len(d)
           a == SubSeq(d, 1, n)
           b == SubSeq(d, n + 1, Len(d))
<1>1. n \in 0..Len(d) /\ n <= wanted /\ Len(d) \in Nat /\ wanted - n \in 0..CommandSize
  BY Constants
<1>2. delivered' = delivered \o a /\ left' = wanted - n /\ inBuffer' = b
  BY DEF CopyData
<1>3. wanted - n > 0 => n = Len(d)
  BY Constants
<1> HIDE DEF n
<1>4. a \in Seq(Byte) /\ b \in Seq(Byte) /\ a \o b = d
  BY <1>1, CutInTwo
<1>5. n = Len(d) => b = <<>>
  BY <1>1, SubSeqEmpty
<1> HIDE DEF a, b
<1>6. (delivered \o a) \o b = delivered \o (a \o b) /\ delivered \o a \in Seq(Byte)
  <2>1. delivered \in Seq(Byte) /\ a \in Seq(Byte) /\ b \in Seq(Byte)
    BY <1>4
  <2>2. (delivered \o a) \o b = delivered \o (a \o b)
    BY <1>4, <2>1, Regroup
  <2>3. delivered \o a \in Seq(Byte)
    BY <2>1, ConcatProperties
  <2> QED
    BY <2>2, <2>3
<1> QED
  BY <1>1, <1>2, <1>3, <1>4, <1>5, <1>6

\* The types, one by one.
LEMMA Typed ==
  ASSUME LineIInv
  PROVE  /\ phase \in {"connecting", "answered", "open", "closed", "failed"}
         /\ inBuffer \in Seq(Byte) /\ outBuffer \in Seq(1..MaxBytes) /\ outBuffer \in Seq(Byte)
         /\ inIndex \in 0..IndexSpan - 1 /\ outIndex \in 0..IndexSpan - 1
         /\ keepAlive \in BOOLEAN /\ skipped \in BOOLEAN
         /\ left \in 0..CommandSize /\ written \in 0..MaxBytes
         /\ delivered \in Seq(Byte)
         /\ toLink \in Seq(Frame) /\ toNewton \in Seq(Frame)
         /\ left > 0 => inBuffer = <<>> /\ phase = "open"
         /\ Len(outBuffer) < Capacity /\ Len(outBuffer) \in Nat
         /\ newton \in NewtonState
         /\ newton.phase \in {"down", "asking", "up", "gone"}
         /\ newton.index \in 0..IndexSpan - 1 /\ newton.sent \in 0..MaxBytes
         /\ newton.pending \in Seq(Frame) /\ newton.expected \in 0..IndexSpan - 1
         /\ newton.got \in Seq(Byte)
         /\ repeats \in Nat /\ damages \in Nat
<1>1. MNPIInv /\ newton \in NewtonState /\ repeats \in Nat /\ damages \in Nat
  BY DEF LineIInv
<1>2. outBuffer \in Seq(1..MaxBytes) /\ outBuffer \in Seq(Byte)
  BY <1>1, BufferIsBytes DEF MNPIInv
<1> QED
  BY <1>1, <1>2 DEF MNPIInv, NewtonState, Byte

\* The bytes of a Write, and what stays in the buffer.
LEMMA WriteBytes ==
  ASSUME LineIInv, NEW count \in 1..MaxBytes - written
  PROVE  LET data == outBuffer \o Bytes(written, count)
             sent == Len(data) \div Capacity
             rest == SubSeq(data, sent * Capacity + 1, Len(data))
         IN  /\ data \in Seq(Byte) /\ Len(data) \in Nat /\ sent \in Nat
             /\ sent * Capacity <= Len(data) /\ sent * Capacity \in Nat
             /\ FullFrames(data) = FirstFrames(data, sent)
             /\ rest \in Seq(1..MaxBytes) /\ rest \in Seq(Byte) /\ Len(rest) < Capacity
             /\ SubSeq(data, 1, sent * Capacity) \in Seq(Byte)
             /\ SubSeq(data, 1, sent * Capacity) \o rest = data
             /\ written + count \in 0..MaxBytes
<1> DEFINE b == Bytes(written, count)
           data == outBuffer \o b
           sent == Len(data) \div Capacity
           x == sent * Capacity
           rest == SubSeq(data, x + 1, Len(data))
<1>1. /\ outBuffer \in Seq(1..MaxBytes) /\ written \in Nat /\ count \in Nat
      /\ written + count <= MaxBytes /\ written + count \in 0..MaxBytes
  <2>1. outBuffer \in Seq(1..MaxBytes) /\ written \in 0..MaxBytes /\ MaxBytes \in Nat
    BY Typed, Constants
  <2> QED
    BY <2>1
<1>2. b \in Seq(1..MaxBytes)
  BY <1>1, BytesFollow
<1>3. data \in Seq(1..MaxBytes)
  <2> HIDE DEF b
  <2> QED
    BY <1>1, <1>2, ConcatProperties
<1>4. data \in Seq(Byte) /\ Len(data) \in Nat
  <2> HIDE DEF data
  <2> QED
    BY <1>3, BufferIsBytes
<1>5. FullFrames(data) = FirstFrames(data, sent)
  BY DEF FullFrames, FirstFrames
<1> HIDE DEF data
<1>6. sent \in Nat /\ Len(data) = Capacity * sent + (Len(data) % Capacity)
      /\ Len(data) % Capacity \in 0..Capacity - 1
  BY <1>4, Constants, DivMod
<1> HIDE DEF sent
<1>7. x \in Nat /\ x <= Len(data) /\ Len(data) - x < Capacity
  <2>1. Capacity * sent = x /\ x \in Nat
    BY <1>6, Constants
  <2> HIDE DEF x
  <2> QED
    BY <1>4, <1>6, <2>1, Constants
<1> HIDE DEF x
<1>8. /\ rest \in Seq(1..MaxBytes) /\ SubSeq(data, 1, x) \in Seq(1..MaxBytes)
      /\ SubSeq(data, 1, x) \o rest = data
  <2>1. x \in 0..Len(data)
    BY <1>4, <1>7
  <2> QED
    BY <1>3, <2>1, CutInTwo
<1>9. Len(rest) < Capacity
  <2>0. \A i \in x + 1..Len(data) : i \in 1..Len(data)
    BY <1>4, <1>7
  <2>1. x + 1 \in Int /\ Len(data) \in Int /\ \A i \in x + 1..Len(data) : data[i] \in 1..MaxBytes
    <3>1. x + 1 \in Int /\ Len(data) \in Int
      BY <1>4, <1>7
    <3> QED
      BY <1>3, <2>0, <3>1, ElementOfSeq
  <2>2. Len(rest) = IF x + 1 <= Len(data) THEN Len(data) - (x + 1) + 1 ELSE 0
    BY <2>1, SubSeqProperties
  <2> QED
    BY <1>4, <1>7, <2>2, Constants
<1> HIDE DEF rest
<1>10. rest \in Seq(Byte)
  BY <1>8, BufferIsBytes
<1> DEFINE first == SubSeq(data, 1, x)
<1>11. first \in Seq(Byte)
  <2>1. first \in Seq(1..MaxBytes)
    BY <1>8
  <2> HIDE DEF first
  <2> QED
    BY <2>1, BufferIsBytes
<1> QED
  BY <1>1, <1>4, <1>5, <1>6, <1>7, <1>8, <1>9, <1>10, <1>11 DEF rest, x, sent, data

\* What a sequence of frames on its way to the link, and one on its way to the
\* Newton, must be.
LinkFrames(q, d) ==
  /\ q \in Seq(Frame)
  /\ \A i \in DOMAIN q : q[i].kind \in {"LR", "LA"} => q[i].data = <<>>
  /\ d = 0 => \A i \in DOMAIN q : q[i].kind # "bad"
NewtonFrames(q, d) ==
  /\ q \in Seq(Frame)
  /\ d = 0 => \A i \in DOMAIN q : q[i].kind # "bad"

LEMMA LineParts ==
  LineIInv <=>
    /\ phase \in {"connecting", "answered", "open", "closed", "failed"}
    /\ inBuffer \in Seq(Byte) /\ outBuffer \in Seq(1..MaxBytes)
    /\ inIndex \in 0..IndexSpan - 1 /\ outIndex \in 0..IndexSpan - 1
    /\ keepAlive \in BOOLEAN /\ skipped \in BOOLEAN
    /\ left \in 0..CommandSize /\ written \in 0..MaxBytes
    /\ delivered \in Seq(Byte)
    /\ left > 0 => inBuffer = <<>> /\ phase = "open"
    /\ Len(outBuffer) < Capacity
    /\ newton \in NewtonState /\ repeats \in Nat /\ damages \in Nat
    /\ damages = 0 => phase # "failed" /\ ~skipped
    /\ LinkFrames(toLink, damages) /\ NewtonFrames(toNewton, damages)
    /\ Kept(newton.pending)
BY DEF LineIInv, MNPIInv, LinkFrames, NewtonFrames, NewtonState, Kept, Byte

LEMMA LinkTakes ==
  ASSUME LinkFrames(toLink, damages), toLink # <<>>
  PROVE  /\ LinkFrames(Tail(toLink), damages) /\ Head(toLink) \in Frame
         /\ Head(toLink).kind \in {"LR", "LA"} => Head(toLink).data = <<>>
         /\ damages = 0 => Head(toLink).kind # "bad"
         /\ Head(toLink).index \in 0..IndexSpan - 1 /\ Head(toLink).data \in Seq(Byte)
         /\ Head(toLink).kind \in Kinds
<1>1. toLink \in Seq(Frame)
  BY DEF LinkFrames
<1>2. Head(toLink).index \in 0..IndexSpan - 1 /\ Head(toLink).data \in Seq(Byte)
      /\ Head(toLink).kind \in Kinds
  <2>1. Head(toLink) \in Frame
    BY <1>1, HeadAndRest
  <2> QED
    BY <2>1 DEF Frame, Byte
<1> QED
  BY <1>1, <1>2, HeadAndRest DEF LinkFrames

LEMMA NewtonTakes ==
  ASSUME NewtonFrames(toNewton, damages), toNewton # <<>>
  PROVE  /\ NewtonFrames(Tail(toNewton), damages) /\ Head(toNewton) \in Frame
         /\ damages = 0 => Head(toNewton).kind # "bad"
         /\ Head(toNewton).index \in 0..IndexSpan - 1 /\ Head(toNewton).data \in Seq(Byte)
         /\ Head(toNewton).kind \in Kinds
<1>1. toNewton \in Seq(Frame)
  BY DEF NewtonFrames
<1>2. Head(toNewton).index \in 0..IndexSpan - 1 /\ Head(toNewton).data \in Seq(Byte)
      /\ Head(toNewton).kind \in Kinds
  <2>1. Head(toNewton) \in Frame
    BY <1>1, HeadAndRest
  <2> QED
    BY <2>1 DEF Frame, Byte
<1> QED
  BY <1>1, <1>2, HeadAndRest DEF NewtonFrames

LEMMA LinkAppend ==
  ASSUME LinkFrames(toLink, damages), NEW f \in Frame, f.kind # "bad",
         f.kind \in {"LR", "LA"} => f.data = <<>>
  PROVE  LinkFrames(Append(toLink, f), damages)
<1>1. toLink \in Seq(Frame)
  BY DEF LinkFrames
<1> DEFINE q == Append(toLink, f)
<1>2. /\ q \in Seq(Frame)
      /\ \A i \in DOMAIN q : q[i] = IF i = Len(toLink) + 1 THEN f ELSE toLink[i]
      /\ \A i \in DOMAIN q : i # Len(toLink) + 1 => i \in DOMAIN toLink
  BY <1>1, OneMore
<1> HIDE DEF q
<1>3. LinkFrames(q, damages)
  BY <1>2 DEF LinkFrames
<1> QED
  BY <1>3 DEF q

LEMMA NewtonAppend ==
  ASSUME NewtonFrames(toNewton, damages), NEW f \in Frame, f.kind # "bad"
  PROVE  NewtonFrames(Append(toNewton, f), damages)
<1>1. toNewton \in Seq(Frame)
  BY DEF NewtonFrames
<1> DEFINE q == Append(toNewton, f)
<1>2. /\ q \in Seq(Frame)
      /\ \A i \in DOMAIN q : q[i] = IF i = Len(toNewton) + 1 THEN f ELSE toNewton[i]
      /\ \A i \in DOMAIN q : i # Len(toNewton) + 1 => i \in DOMAIN toNewton
  BY <1>1, OneMore
<1> HIDE DEF q
<1>3. NewtonFrames(q, damages)
  BY <1>2 DEF NewtonFrames
<1> QED
  BY <1>3 DEF q

LEMMA FrameFields ==
  /\ \A i, d : LT(i, d).kind = "LT" /\ LT(i, d).index = i /\ LT(i, d).data = d
  /\ \A i : LA(i).kind = "LA" /\ LA(i).data = <<>>
  /\ LR.kind = "LR" /\ LR.data = <<>> /\ LD.kind = "LD" /\ LD.data = <<0>>
BY DEF LT, LA, LR, LD

\* LineIInv is inductive.
LEMMA StepLine ==
  ASSUME LineIInv, [MNPNext]_vars
  PROVE  LineIInv'
<1> USE DEF pipeVars, linkVars, faultVars
<1> DEFINE Good ==
      /\ phase' \in {"connecting", "answered", "open", "closed", "failed"}
      /\ inBuffer' \in Seq(Byte) /\ outBuffer' \in Seq(1..MaxBytes)
      /\ inIndex' \in 0..IndexSpan - 1 /\ outIndex' \in 0..IndexSpan - 1
      /\ keepAlive' \in BOOLEAN /\ skipped' \in BOOLEAN
      /\ left' \in 0..CommandSize /\ written' \in 0..MaxBytes
      /\ delivered' \in Seq(Byte)
      /\ left' > 0 => inBuffer' = <<>> /\ phase' = "open"
      /\ Len(outBuffer') < Capacity
      /\ newton' \in NewtonState /\ repeats' \in Nat /\ damages' \in Nat
      /\ damages' = 0 => phase' # "failed" /\ ~skipped'
      /\ LinkFrames(toLink', damages') /\ NewtonFrames(toNewton', damages')
      /\ Kept(newton'.pending)
<1>g. Good => LineIInv'
  BY DEF LineIInv, MNPIInv, LinkFrames, NewtonFrames, NewtonState, Kept, Byte
<1>t. /\ phase \in {"connecting", "answered", "open", "closed", "failed"}
      /\ inBuffer \in Seq(Byte) /\ outBuffer \in Seq(1..MaxBytes)
      /\ inIndex \in 0..IndexSpan - 1 /\ outIndex \in 0..IndexSpan - 1
      /\ keepAlive \in BOOLEAN /\ skipped \in BOOLEAN
      /\ left \in 0..CommandSize /\ written \in 0..MaxBytes
      /\ delivered \in Seq(Byte)
      /\ left > 0 => inBuffer = <<>> /\ phase = "open"
      /\ Len(outBuffer) < Capacity
      /\ newton \in NewtonState /\ repeats \in Nat /\ damages \in Nat
      /\ damages = 0 => phase # "failed" /\ ~skipped
      /\ LinkFrames(toLink, damages) /\ NewtonFrames(toNewton, damages)
      /\ Kept(newton.pending)
  BY LineParts
<1>f. /\ FrameSize \in Nat /\ Credits \in Nat
      /\ \A i, d : LT(i, d).kind = "LT" /\ LT(i, d).index = i /\ LT(i, d).data = d
      /\ \A i : LA(i).kind = "LA" /\ LA(i).data = <<>>
      /\ LR.kind = "LR" /\ LR.data = <<>> /\ LD.kind = "LD" /\ LD.data = <<0>>
      /\ 0 \in 0..IndexSpan - 1 /\ 1 \in 0..IndexSpan - 1
  BY FrameFields, Constants
<1>a. ASSUME NEW f \in Frame, f.kind # "bad"
      PROVE  NewtonFrames(Append(toNewton, f), damages)
  BY <1>t, <1>a, NewtonAppend
<1>b. ASSUME NEW f \in Frame, f.kind # "bad", f.kind \in {"LR", "LA"} => f.data = <<>>
      PROVE  LinkFrames(Append(toLink, f), damages)
  BY <1>t, <1>b, LinkAppend
<1>h. ASSUME toLink # <<>>
      PROVE  /\ LinkFrames(Tail(toLink), damages) /\ Head(toLink) \in Frame
             /\ Head(toLink).kind \in {"LR", "LA"} => Head(toLink).data = <<>>
             /\ damages = 0 => Head(toLink).kind # "bad"
             /\ Head(toLink).index \in 0..IndexSpan - 1 /\ Head(toLink).data \in Seq(Byte)
  BY <1>h, <1>t, LinkTakes
<1> SUFFICES Good
  BY <1>g
<1> HIDE <1>g
<1>1. CASE ReadRequest
  <2>1. toLink # <<>> /\ toLink' = Tail(toLink) /\ left = 0
    BY <1>1, <1>t DEF ReadRequest, ReadFrame
  <2>2. \/ Head(toLink).kind = "bad" /\ phase' = "failed" /\ UNCHANGED <<toNewton, inIndex>>
        \/ toNewton' = Append(toNewton, LR) /\ inIndex' = 1 /\ phase' = "answered"
    BY <1>1 DEF ReadRequest, ReadFrame, WriteFrame
  <2>3. NewtonFrames(Append(toNewton, LR), damages)
    BY <1>a, <1>f, FramesTyped
  <2>4. UNCHANGED <<inBuffer, outBuffer, outIndex, keepAlive, left, delivered, written,
                    newton, repeats, damages, skipped>>
    BY <1>1 DEF ReadRequest
  <2>5. CASE Head(toLink).kind = "bad" /\ phase' = "failed" /\ UNCHANGED <<toNewton, inIndex>>
    BY <1>t, <1>h, <2>1, <2>4, <2>5
  <2>6. CASE toNewton' = Append(toNewton, LR) /\ inIndex' = 1 /\ phase' = "answered"
    BY <1>t, <1>f, <1>h, <2>1, <2>3, <2>4, <2>6
  <2> QED
    BY <2>2, <2>5, <2>6
<1>2. CASE ReadConfirmation
  <2>1. toLink # <<>> /\ toLink' = Tail(toLink) /\ left = 0
    BY <1>2, <1>t DEF ReadConfirmation, ReadFrame
  <2>2. \/ Head(toLink).kind = "bad" /\ phase' = "failed" /\ outIndex' = outIndex
        \/ phase' = "open" /\ outIndex' = 1
    BY <1>2 DEF ReadConfirmation, ReadFrame
  <2>4. UNCHANGED <<inBuffer, inIndex, outBuffer, keepAlive, left, delivered, written,
                    toNewton, newton, repeats, damages, skipped>>
    BY <1>2 DEF ReadConfirmation
  <2> QED
    BY <1>t, <1>f, <1>h, <2>1, <2>2, <2>4
<1>3. CASE Read
  <2>1. CopyData(inBuffer, CommandSize) /\ phase = "open"
    BY <1>3 DEF Read
  <2>2. CommandSize \in 1..CommandSize
    BY Constants
  <2>3. /\ delivered' \in Seq(Byte) /\ inBuffer' \in Seq(Byte)
        /\ left' \in 0..CommandSize /\ (left' > 0 => inBuffer' = <<>>)
    BY <1>t, <2>1, <2>2, CopyTyped
  <2>4. UNCHANGED <<phase, inIndex, outBuffer, outIndex, keepAlive, written, toLink,
                    toNewton, newton, repeats, damages, skipped>>
    BY <1>3 DEF Read
  <2> QED
    BY <1>t, <2>1, <2>3, <2>4
<1>4. CASE ReceiveAcknowledgement
  <2>1. toLink # <<>> /\ toLink' = Tail(toLink)
    BY <1>4 DEF ReceiveAcknowledgement, ReadFrame
  <2>2. toNewton' = Append(toNewton, LA(inIndex)) \/ toNewton' = toNewton
    BY <1>4 DEF ReceiveAcknowledgement, SendACK, WriteFrame
  <2>3. NewtonFrames(Append(toNewton, LA(inIndex)), damages)
    BY <1>t, <1>a, <1>f, FramesTyped
  <2>4. UNCHANGED <<inBuffer, inIndex, outBuffer, outIndex, keepAlive, phase, left,
                    delivered, written, newton, repeats, damages, skipped>>
    BY <1>4 DEF ReceiveAcknowledgement
  <2> QED
    BY <1>t, <1>h, <2>1, <2>2, <2>3, <2>4
<1>5. CASE ReceiveData
  <2>1. toLink # <<>> /\ toLink' = Tail(toLink) /\ phase = "open" /\ left > 0
    BY <1>5 DEF ReceiveData, ReadFrame
  <2>2. /\ inIndex' = Head(toLink).index /\ toNewton' = Append(toNewton, LA(inIndex'))
        /\ CopyData(Head(toLink).data, left)
    BY <1>5 DEF ReceiveData, SendACK, WriteFrame
  <2>3. left \in 1..CommandSize /\ Head(toLink).data \in Seq(Byte)
        /\ inIndex' \in 0..IndexSpan - 1
    BY <1>t, <1>h, <2>1, <2>2
  <2>4. /\ delivered' \in Seq(Byte) /\ inBuffer' \in Seq(Byte)
        /\ left' \in 0..CommandSize /\ (left' > 0 => inBuffer' = <<>>)
    BY <1>t, <2>2, <2>3, CopyTyped
  <2>5. NewtonFrames(Append(toNewton, LA(inIndex')), damages)
    BY <1>a, <1>f, <2>3, FramesTyped
  <2>6. UNCHANGED <<phase, outBuffer, outIndex, keepAlive, written, newton, repeats,
                    damages, skipped>>
    BY <1>5 DEF ReceiveData
  <2> QED
    BY <1>t, <1>h, <2>1, <2>2, <2>3, <2>4, <2>5, <2>6
<1>6. CASE SetKeepAlive
  BY <1>6, <1>t DEF SetKeepAlive
<1>7. CASE ReadThrows
  <2>1. /\ toLink # <<>> /\ toLink' = Tail(toLink) /\ Head(toLink).kind = "bad"
        /\ left' = 0 /\ phase = "open"
        /\ (phase' = "failed" /\ skipped' = skipped) \/ (skipped' = TRUE /\ phase' = phase)
        /\ UNCHANGED <<inBuffer, inIndex, outBuffer, outIndex, keepAlive, delivered, written,
                       toNewton, newton, repeats, damages>>
    BY <1>7 DEF ReadThrows, ReadFrame
  <2>2. 0 \in 0..CommandSize
    BY Constants
  <2>3. damages # 0 /\ LinkFrames(toLink', damages')
    BY <1>h, <2>1
  <2>4. NewtonFrames(toNewton', damages') /\ Kept(newton'.pending) /\ newton' \in NewtonState
    BY <1>t, <2>1
  <2>5. phase' \in {"failed", "open"} /\ skipped' \in BOOLEAN
    BY <1>t, <2>1
  <2>6. damages' = 0 => phase' # "failed" /\ ~skipped'
    BY <2>1, <2>3
  <2>7. left' \in 0..CommandSize /\ ~ (left' > 0)
    BY <2>1, <2>2
  <2> QED
    BY <1>t, <2>1, <2>3, <2>4, <2>5, <2>6, <2>7
<1>8. CASE Write
  <2>1. PICK count \in 1..MaxBytes - written :
          LET data == outBuffer \o Bytes(written, count)
              sent == Len(data) \div Capacity
          IN  /\ written' = written + count
              /\ toNewton' = toNewton \o FullFrames(data)
              /\ outIndex' = (outIndex + sent) % IndexSpan
              /\ outBuffer' = SubSeq(data, sent * Capacity + 1, Len(data))
    BY <1>8 DEF Write
  <2> DEFINE data == outBuffer \o Bytes(written, count)
             sent == Len(data) \div Capacity
             rest == SubSeq(data, sent * Capacity + 1, Len(data))
             q == FullFrames(data)
  <2>2. /\ data \in Seq(Byte) /\ sent \in Nat /\ sent * Capacity <= Len(data)
        /\ q = FirstFrames(data, sent)
        /\ rest \in Seq(1..MaxBytes) /\ Len(rest) < Capacity
        /\ written + count \in 0..MaxBytes
    BY WriteBytes
  <2>3. /\ written' = written + count /\ toNewton' = toNewton \o q
        /\ outIndex' = (outIndex + sent) % IndexSpan /\ outBuffer' = rest
    BY <2>1
  <2> HIDE DEF rest, q, sent, data
  <2>4. q \in Seq(Frame) /\ Len(q) = sent /\ \A i \in 1..sent : q[i].kind = "LT"
    <3>1. /\ q \in Seq(Frame) /\ Len(q) = sent
          /\ \A i \in 1..sent : q[i] = LT((outIndex + i - 1) % IndexSpan,
                                  SubSeq(data, (i - 1) * Capacity + 1, i * Capacity))
      BY <1>t, <2>2, FirstFramesTyped
    <3> QED
      BY <3>1 DEF LT
  <2>5. NewtonFrames(toNewton \o q, damages)
    <3>1. toNewton \in Seq(Frame)
      BY <1>t DEF NewtonFrames
    <3> DEFINE r == toNewton \o q
    <3>2. /\ r \in Seq(Frame) /\ Len(r) = Len(toNewton) + Len(q)
          /\ \A i \in 1..Len(toNewton) + Len(q) :
               r[i] = IF i <= Len(toNewton) THEN toNewton[i] ELSE q[i - Len(toNewton)]
      BY <2>4, <3>1, ConcatProperties
    <3> HIDE DEF r
    <3>3. damages = 0 => \A i \in 1..Len(toNewton) : toNewton[i].kind # "bad"
      BY <1>t DEF NewtonFrames
    <3>4. ASSUME damages = 0, NEW i \in DOMAIN r PROVE r[i].kind # "bad"
      <4>1. i \in 1..Len(toNewton) + Len(q) /\ Len(toNewton) \in Nat /\ Len(q) \in Nat
        BY <2>4, <3>1, <3>2
      <4>2. CASE i <= Len(toNewton)
        BY <3>2, <3>3, <3>4, <4>1, <4>2
      <4>3. CASE ~ (i <= Len(toNewton))
        <5>1. i - Len(toNewton) \in 1..sent
          BY <2>4, <4>1, <4>3
        <5> QED
          BY <2>4, <3>2, <4>1, <4>3, <5>1
      <4> QED
        BY <4>2, <4>3
    <3>5. NewtonFrames(r, damages)
      BY <3>2, <3>4 DEF NewtonFrames
    <3> QED
      BY <3>5 DEF r
  <2>6. outIndex' \in 0..IndexSpan - 1
    <3>1. outIndex + sent \in Nat
      BY <1>t, <2>2
    <3> QED
      BY <2>3, <3>1, NextTyped
  <2>7. UNCHANGED <<phase, left, delivered, inBuffer, inIndex, keepAlive, toLink, newton,
                    repeats, damages, skipped>>
    BY <1>8 DEF Write
  <2> QED
    BY <1>t, <2>2, <2>3, <2>5, <2>6, <2>7
<1>9. CASE FlushOutput
  <2>1. /\ phase = "open" /\ toNewton' = Append(toNewton, LT(outIndex, outBuffer))
        /\ outIndex' = Next1(outIndex) /\ outBuffer' = <<>>
        /\ UNCHANGED <<inBuffer, inIndex, keepAlive, phase, left, delivered, written, toLink,
                       newton, repeats, damages, skipped>>
    BY <1>9 DEF FlushOutput, WriteFrame
  <2>2. LT(outIndex, outBuffer) \in Frame
    BY <1>t, BufferIsBytes, FramesTyped
  <2>3. NewtonFrames(Append(toNewton, LT(outIndex, outBuffer)), damages)
    BY <1>a, <1>f, <2>2
  <2>4. outIndex' \in 0..IndexSpan - 1
    BY <1>t, <2>1, NextTyped
  <2>5. <<>> \in Seq(1..MaxBytes) /\ Len(<<>>) < Capacity
    BY Constants
  <2> QED
    BY <1>t, <2>1, <2>3, <2>4, <2>5
<1>10. CASE Disconnect
  <2>1. /\ phase' = "closed" /\ toNewton' = Append(toNewton, LD) /\ left = 0
        /\ UNCHANGED <<inBuffer, inIndex, outBuffer, outIndex, keepAlive, left, delivered,
                       written, toLink, newton, repeats, damages, skipped>>
    BY <1>10 DEF Disconnect, WriteFrame
  <2>2. NewtonFrames(Append(toNewton, LD), damages)
    BY <1>a, <1>f, FramesTyped
  <2> QED
    BY <1>t, <2>1, <2>2
<1>n. newton \in [phase : {"down", "asking", "up", "gone"}, index : 0..IndexSpan - 1,
                  sent : 0..MaxBytes, pending : Seq(Frame), expected : 0..IndexSpan - 1,
                  got : Seq(Byte)]
  BY <1>t DEF NewtonState, Byte
<1>m. ASSUME NEW n, n \in [phase : {"down", "asking", "up", "gone"}, index : 0..IndexSpan - 1,
                  sent : 0..MaxBytes, pending : Seq(Frame), expected : 0..IndexSpan - 1,
                  got : Seq(Byte)]
      PROVE  n \in NewtonState
  BY <1>m DEF NewtonState, Byte
<1>11. CASE NewtonRequests
  <2>1. /\ toLink' = Append(toLink, LR) /\ newton' = [newton EXCEPT !.phase = "asking"]
        /\ UNCHANGED <<inBuffer, inIndex, outBuffer, outIndex, keepAlive, phase, left,
                       delivered, written, toNewton, repeats, damages, skipped>>
    BY <1>11 DEF NewtonRequests
  <2>2. LinkFrames(Append(toLink, LR), damages)
    BY <1>b, <1>f, FramesTyped
  <2>3. newton' \in NewtonState
    BY <1>m, <1>n, <2>1
  <2>4. newton'.pending = newton.pending
    BY <1>n, <2>1
  <2> QED
    BY <1>t, <2>1, <2>2, <2>3, <2>4
<1>12. CASE NewtonSends
  <2>1. PICK count \in 1..FrameSize :
          /\ newton.sent + count <= MaxBytes
          /\ toLink' = Append(toLink, LT(newton.index, Bytes(newton.sent, count)))
          /\ newton' = [newton EXCEPT !.sent = @ + count, !.index = Next1(@),
                           !.pending = Append(@, LT(newton.index, Bytes(newton.sent, count)))]
    BY <1>12 DEF NewtonSends
  <2>2. UNCHANGED <<inBuffer, inIndex, outBuffer, outIndex, keepAlive, phase, left,
                    delivered, written, toNewton, repeats, damages, skipped>>
    BY <1>12 DEF NewtonSends
  <2> DEFINE f == LT(newton.index, Bytes(newton.sent, count))
  <2>3. newton.sent \in Nat /\ count \in Nat /\ newton.sent + count \in 0..MaxBytes
        /\ newton.index \in Nat
    BY <1>n, <1>f, <2>1
  <2>4. f \in Frame
    BY <1>n, <2>1, <2>3, BytesFollow, FramesTyped
  <2>5. f.kind = "LT"
    BY <1>f
  <2>6. toLink' = Append(toLink, f) /\ newton' = [newton EXCEPT !.sent = @ + count,
                           !.index = Next1(@), !.pending = Append(@, f)]
    BY <2>1
  <2> HIDE DEF f
  <2>7. LinkFrames(Append(toLink, f), damages)
    BY <1>b, <2>4, <2>5
  <2>8. newton' \in NewtonState
    <3>1. Next1(newton.index) \in 0..IndexSpan - 1
      BY <2>3, NextTyped
    <3>2. Append(newton.pending, f) \in Seq(Frame)
      BY <1>n, <2>4
    <3> QED
      BY <1>m, <1>n, <2>3, <2>6, <3>1, <3>2
  <2>9. Kept(newton'.pending)
    <3>1. newton'.pending = Append(newton.pending, f)
      BY <1>n, <2>6
    <3>2. newton.pending \in Seq(Frame) /\ \A i \in DOMAIN newton.pending : newton.pending[i].kind = "LT"
      BY <1>t DEF Kept
    <3> DEFINE q == newton.pending
               r == Append(q, f)
    <3>3. /\ r \in Seq(Frame)
          /\ \A i \in DOMAIN r : r[i] = IF i = Len(q) + 1 THEN f ELSE q[i]
          /\ \A i \in DOMAIN r : i # Len(q) + 1 => i \in DOMAIN q
      BY <2>4, <3>2, OneMore
    <3> HIDE DEF r
    <3>4. Kept(r)
      BY <2>5, <3>2, <3>3 DEF Kept
    <3> QED
      BY <3>1, <3>4 DEF r
  <2> QED
    BY <1>t, <2>2, <2>6, <2>7, <2>8, <2>9
<1>13. CASE NewtonReceives
  <2> DEFINE frame == Head(toNewton)
  <2>1. toNewton # <<>> /\ toNewton' = Tail(toNewton)
        /\ UNCHANGED <<inBuffer, inIndex, outBuffer, outIndex, keepAlive, phase, left,
                       delivered, written, repeats, damages, skipped>>
    BY <1>13 DEF NewtonReceives
  <2>2. NewtonFrames(Tail(toNewton), damages) /\ frame.data \in Seq(Byte)
        /\ frame.index \in 0..IndexSpan - 1
    BY <1>t, <2>1, NewtonTakes
  <2>3. \/ newton' = [newton EXCEPT !.phase = "up"] /\ toLink' = Append(toLink, LA(0))
        \/ /\ newton' = [newton EXCEPT !.pending = Acknowledged(@, frame.index)]
           /\ UNCHANGED toLink
        \/ /\ newton' = [newton EXCEPT !.got = @ \o frame.data, !.expected = Next1(@)]
           /\ toLink' = Append(toLink, LA(frame.index))
        \/ newton' = [newton EXCEPT !.phase = "gone"] /\ UNCHANGED toLink
        \/ UNCHANGED <<newton, toLink>>
    BY <1>13 DEF NewtonReceives
  <2> HIDE DEF frame
  <2>4. LinkFrames(Append(toLink, LA(0)), damages)
        /\ LinkFrames(Append(toLink, LA(frame.index)), damages)
    BY <1>b, <1>f, <2>2, FramesTyped
  <2>5. LinkFrames(toLink', damages)
    BY <1>t, <2>3, <2>4
  <2>6. newton' \in NewtonState
    <3>1. Next1(newton.expected) \in 0..IndexSpan - 1
      <4>1. newton.expected \in Nat
        BY <1>n
      <4> QED
        BY <4>1, NextTyped
    <3>2. Acknowledged(newton.pending, frame.index) \in Seq(Frame)
      BY <1>t, AcknowledgedTyped DEF Kept
    <3>3. newton.got \o frame.data \in Seq(Byte)
      BY <1>n, <2>2, Joined
    <3> QED
      BY <1>m, <1>n, <2>3, <3>1, <3>2, <3>3
  <2>7. Kept(newton'.pending)
    <3>1. newton'.pending \in {newton.pending, Acknowledged(newton.pending, frame.index)}
      BY <1>n, <2>3
    <3> QED
      BY <1>t, <3>1, AcknowledgedTyped
  <2> QED
    BY <1>t, <2>1, <2>2, <2>5, <2>6, <2>7
<1>14. CASE NewtonRepeats
  <2>1. /\ toLink' = toLink \o newton.pending /\ repeats' = repeats + 1
        /\ UNCHANGED <<inBuffer, inIndex, outBuffer, outIndex, keepAlive, phase, left,
                       delivered, written, toNewton, newton, damages, skipped>>
    BY <1>14 DEF NewtonRepeats
  <2>2. LinkFrames(toLink \o newton.pending, damages)
    <3> DEFINE q == toLink
               p == newton.pending
               r == q \o p
    <3>1. /\ q \in Seq(Frame) /\ p \in Seq(Frame) /\ \A i \in 1..Len(p) : p[i].kind = "LT"
          /\ \A i \in 1..Len(q) : /\ q[i].kind \in {"LR", "LA"} => q[i].data = <<>>
                                  /\ damages = 0 => q[i].kind # "bad"
      BY <1>t DEF LinkFrames, Kept
    <3> HIDE DEF q, p, r
    <3>2. /\ r \in Seq(Frame) /\ Len(r) = Len(q) + Len(p) /\ Len(q) \in Nat /\ Len(p) \in Nat
          /\ \A i \in 1..Len(q) + Len(p) : r[i] = IF i <= Len(q) THEN q[i] ELSE p[i - Len(q)]
      BY <3>1, ConcatProperties DEF r
    <3>3. ASSUME NEW i \in DOMAIN r
          PROVE  /\ r[i].kind \in {"LR", "LA"} => r[i].data = <<>>
                 /\ damages = 0 => r[i].kind # "bad"
      <4>1. i \in 1..Len(q) + Len(p)
        BY <3>2
      <4>2. CASE i <= Len(q)
        <5>1. i \in 1..Len(q) /\ r[i] = q[i]
          BY <3>2, <4>1, <4>2
        <5> QED
          BY <3>1, <5>1
      <4>3. CASE ~ (i <= Len(q))
        <5>1. i - Len(q) \in 1..Len(p)
          BY <3>2, <4>1, <4>3
        <5>2. r[i] = p[i - Len(q)]
          BY <3>2, <4>1, <4>3
        <5>3. r[i].kind = "LT"
          BY <3>1, <5>1, <5>2
        <5> QED
          BY <5>3
      <4> QED
        BY <4>2, <4>3
    <3>4. LinkFrames(r, damages)
      BY <3>2, <3>3 DEF LinkFrames
    <3> QED
      BY <3>4 DEF r, q, p
  <2> QED
    BY <1>t, <2>1, <2>2
<1>15. CASE NewtonHangsUp
  <2>1. /\ toLink' = Append(toLink, LD) /\ newton' = [newton EXCEPT !.phase = "gone"]
        /\ UNCHANGED <<inBuffer, inIndex, outBuffer, outIndex, keepAlive, phase, left,
                       delivered, written, toNewton, repeats, damages, skipped>>
    BY <1>15 DEF NewtonHangsUp
  <2>2. LinkFrames(Append(toLink, LD), damages)
    BY <1>b, <1>f, FramesTyped
  <2>3. newton' \in NewtonState /\ newton'.pending = newton.pending
    BY <1>m, <1>n, <2>1
  <2> QED
    BY <1>t, <2>1, <2>2, <2>3
<1>16. CASE LineDamages
  <2>1. /\ damages' = damages + 1
        /\ UNCHANGED <<inBuffer, inIndex, outBuffer, outIndex, keepAlive, phase, left,
                       delivered, written, newton, repeats, skipped>>
    BY <1>16 DEF LineDamages
  <2>2. \/ /\ toLink # <<>> /\ toLink' = [toLink EXCEPT ![Len(toLink)].kind = "bad"]
           /\ toNewton' = toNewton
        \/ /\ toNewton # <<>> /\ toNewton' = [toNewton EXCEPT ![Len(toNewton)].kind = "bad"]
           /\ toLink' = toLink
    BY <1>16 DEF LineDamages
  <2>3. damages' \in Nat /\ damages' # 0
    BY <1>t, <2>1
  <2>4. LinkFrames(toLink', damages')
    <3>1. CASE toLink' = toLink
      BY <1>t, <2>3, <3>1 DEF LinkFrames
    <3>2. CASE toLink # <<>> /\ toLink' = [toLink EXCEPT ![Len(toLink)].kind = "bad"]
      <4> DEFINE r == [toLink EXCEPT ![Len(toLink)].kind = "bad"]
      <4>1. toLink \in Seq(Frame) /\ toLink # <<>> /\ toLink' = r
        BY <1>t, <3>2 DEF LinkFrames
      <4>2. /\ r \in Seq(Frame) /\ DOMAIN r = DOMAIN toLink
            /\ \A i \in DOMAIN toLink : /\ r[i].data = toLink[i].data
                                        /\ r[i].kind = toLink[i].kind \/ r[i].kind = "bad"
        BY <4>1, Damaged
      <4> HIDE DEF r
      <4>3. LinkFrames(r, damages')
        BY <1>t, <2>3, <4>2 DEF LinkFrames
      <4> QED
        BY <4>1, <4>3
    <3> QED
      BY <2>2, <3>1, <3>2
  <2>5. NewtonFrames(toNewton', damages')
    <3>1. toNewton \in Seq(Frame)
      BY <1>t DEF NewtonFrames
    <3>2. toNewton' \in Seq(Frame)
      BY <2>2, <3>1, Damaged
    <3> QED
      BY <2>3, <3>2 DEF NewtonFrames
  <2> QED
    BY <1>t, <2>1, <2>3, <2>4, <2>5
<1>17. CASE UNCHANGED vars
  BY <1>17, <1>t DEF vars
<1> QED
  BY <1>1, <1>2, <1>3, <1>4, <1>5, <1>6, <1>7, <1>8, <1>9, <1>10, <1>11, <1>12, <1>13, <1>14,
     <1>15, <1>16, <1>17
  DEF MNPNext, Connecting, Reading, Writing, NewtonSide

-----------------------------------------------------------------------------
(* The handshake.                                                          *)

\* A frame that joins the others is not read before them.
LEMMA FirstKept ==
  ASSUME NEW q \in Seq(Frame), NEW f \in Frame
  PROVE  /\ Append(q, f) # <<>> /\ Len(Append(q, f)) = Len(q) + 1 /\ Len(q) \in Nat
         /\ q = <<>> => Append(q, f)[1] = f
         /\ q # <<>> => Append(q, f)[1] = q[1]
BY AppendProperties

\* The frames of the handshake are the first ones read, in both directions, so
\* that it loses no data.
LEMMA StepHandshake ==
  ASSUME LineIInv, HandshakeIsFirst, [MNPNext]_vars
  PROVE  HandshakeIsFirst'
<1> USE DEF pipeVars, linkVars, faultVars
<1>t. /\ toLink \in Seq(Frame) /\ toNewton \in Seq(Frame)
      /\ newton.phase \in {"down", "asking", "up", "gone"}
      /\ newton.pending \in Seq(Frame) /\ newton \in NewtonState
      /\ LR \in Frame /\ LD \in Frame /\ LR.data = <<>> /\ LR.kind = "LR"
  BY Typed, FramesTyped, FrameFields
<1>d. newton.phase = "down" => phase = "connecting" /\ toLink = <<>>
  BY DEF HandshakeIsFirst
<1>c. phase = "connecting" =>
         /\ newton.phase \in {"down", "asking"} /\ newton.sent = 0
         /\ toNewton = <<>>
         /\ newton.phase = "asking" => Len(toLink) = 1 /\ toLink[1].data = <<>>
  BY DEF HandshakeIsFirst
<1>b. phase \in {"connecting", "answered"} =>
         /\ delivered = <<>> /\ inBuffer = <<>> /\ left = 0
         /\ outBuffer = <<>> /\ written = 0
         /\ newton.expected = 1 /\ newton.got = <<>>
         /\ \A i \in DOMAIN toNewton : toNewton[i].kind \in {"LR", "bad"}
  BY DEF HandshakeIsFirst
<1>a. phase = "answered" =>
         IF newton.phase = "asking" THEN toLink = <<>> /\ newton.sent = 0
         ELSE toLink # <<>> /\ toLink[1].data = <<>>
  BY DEF HandshakeIsFirst
<1>o. ASSUME phase' \notin {"connecting", "answered"}, newton'.phase # "down"
      PROVE  HandshakeIsFirst'
  BY <1>o DEF HandshakeIsFirst
<1>1. CASE ReadRequest
  <2>1. /\ toLink # <<>> /\ toLink' = Tail(toLink) /\ newton' = newton /\ phase = "connecting"
        /\ UNCHANGED <<inBuffer, outBuffer, left, delivered, written>>
    BY <1>1 DEF ReadRequest, ReadFrame
  <2>2. \/ phase' = "failed"
        \/ toNewton' = Append(toNewton, LR) /\ phase' = "answered"
    BY <1>1 DEF ReadRequest, ReadFrame, WriteFrame
  <2>3. newton.phase = "asking" /\ Len(toLink) = 1 /\ newton.sent = 0 /\ toNewton = <<>>
    BY <1>d, <1>c, <2>1
  <2>4. Tail(toLink) = <<>>
    <3>1. Tail(toLink) \in Seq(Frame) /\ Len(Tail(toLink)) = 0
      BY <1>t, <2>1, <2>3, HeadAndRest
    <3> DEFINE r == Tail(toLink)
    <3>2. r \in Seq(Frame) /\ Len(r) = 0
      BY <3>1
    <3> HIDE DEF r
    <3>3. r = <<>>
      BY <3>2
    <3> QED
      BY <3>3 DEF r
  <2>5. CASE toNewton' = Append(toNewton, LR) /\ phase' = "answered"
    <3>1. DOMAIN toNewton' = {1} /\ toNewton'[1] = LR
      BY <1>t, <2>3, <2>5, OneMore, FirstKept
    <3> QED
      BY <1>t, <1>b, <2>1, <2>3, <2>4, <2>5, <3>1 DEF HandshakeIsFirst
  <2>6. CASE phase' = "failed"
    BY <1>o, <2>1, <2>3, <2>6
  <2> QED
    BY <2>2, <2>5, <2>6
<1>2. CASE ReadConfirmation
  <2>1. newton' = newton /\ phase = "answered" /\ phase' \in {"failed", "open"}
    BY <1>2 DEF ReadConfirmation
  <2> QED
    BY <1>o, <1>d, <2>1
<1>3. CASE Reading \/ SetKeepAlive \/ Writing
  <2>1. newton' = newton /\ phase = "open" /\ phase' \in {"open", "failed", "closed"}
    BY <1>3 DEF Reading, Writing, Read, ReceiveAcknowledgement, ReceiveData, ReadThrows,
                SetKeepAlive, Write, FlushOutput, Disconnect
  <2> QED
    BY <1>o, <1>d, <2>1
<1>4. CASE NewtonRequests
  <2>1. /\ newton.phase = "down" /\ toLink' = Append(toLink, LR)
        /\ newton' = [newton EXCEPT !.phase = "asking"]
        /\ UNCHANGED <<phase, inBuffer, outBuffer, left, delivered, written, toNewton>>
    BY <1>4 DEF NewtonRequests
  <2>2. newton'.phase = "asking" /\ newton'.sent = newton.sent /\ newton'.got = newton.got
        /\ newton'.expected = newton.expected
    BY <1>t, <2>1 DEF NewtonState
  <2>3. toLink = <<>> /\ phase = "connecting"
    BY <1>d, <2>1
  <2>4. Len(toLink') = 1 /\ toLink'[1] = LR
    BY <1>t, <2>1, <2>3, FirstKept
  <2> QED
    BY <1>t, <1>b, <1>c, <2>1, <2>2, <2>3, <2>4 DEF HandshakeIsFirst
<1>w. ASSUME phase = "answered" => toLink # <<>> /\ toLink[1].data = <<>>, phase # "connecting",
             newton'.phase \in {"up", "gone"},
             UNCHANGED <<phase, inBuffer, outBuffer, left, delivered, written>>,
             newton'.expected = newton.expected, newton'.got = newton.got,
             toNewton' = toNewton,
             toLink # <<>> => toLink' # <<>> /\ toLink'[1] = toLink[1]
      PROVE  HandshakeIsFirst'
  BY <1>b, <1>w DEF HandshakeIsFirst
<1>5. CASE NewtonSends
  <2>1. PICK f \in Frame, count \in Nat :
          /\ newton.phase = "up" /\ toLink' = Append(toLink, f)
          /\ newton' = [newton EXCEPT !.sent = @ + count, !.index = Next1(@),
                                      !.pending = Append(@, f)]
    <3>1. PICK count \in 1..FrameSize :
          /\ newton.sent + count <= MaxBytes
          /\ toLink' = Append(toLink, LT(newton.index, Bytes(newton.sent, count)))
          /\ newton' = [newton EXCEPT !.sent = @ + count, !.index = Next1(@),
                           !.pending = Append(@, LT(newton.index, Bytes(newton.sent, count)))]
      BY <1>5 DEF NewtonSends
    <3>2. count \in Nat /\ newton.sent \in Nat
      <4>1. newton.sent \in 0..MaxBytes /\ FrameSize \in Nat /\ MaxBytes \in Nat
        BY Typed, Constants
      <4> QED
        BY <3>1, <4>1
    <3>3. LT(newton.index, Bytes(newton.sent, count)) \in Frame
      BY <3>1, <3>2, BytesFollow, FramesTyped, Typed
    <3>4. newton.phase = "up"
      BY <1>5 DEF NewtonSends
    <3> QED
      BY <3>1, <3>2, <3>3, <3>4
  <2>2. newton'.phase = "up" /\ newton'.got = newton.got /\ newton'.expected = newton.expected
    BY <1>t, <2>1 DEF NewtonState
  <2>3. UNCHANGED <<phase, inBuffer, outBuffer, left, delivered, written, toNewton>>
    BY <1>5 DEF NewtonSends
  <2>4. toLink' # <<>> /\ (toLink # <<>> => toLink'[1] = toLink[1])
    BY <1>t, <2>1, FirstKept
  <2> QED
    BY <1>a, <1>c, <1>w, <2>1, <2>2, <2>3, <2>4
<1>6. CASE NewtonReceives
  <2>1. toNewton # <<>> /\ toNewton' = Tail(toNewton)
        /\ UNCHANGED <<phase, inBuffer, outBuffer, left, delivered, written>>
    BY <1>6 DEF NewtonReceives
  <2>2. phase # "connecting" /\ newton.phase # "down"
    BY <1>c, <1>d, <2>1
  <2>3. \/ newton' = [newton EXCEPT !.phase = "up"] /\ toLink' = Append(toLink, LA(0))
        \/ UNCHANGED <<newton, toLink>>
        \/ Head(toNewton).kind \notin {"LR", "bad"} /\ newton'.phase # "down"
    <3>1. \/ newton' = [newton EXCEPT !.phase = "up"] /\ toLink' = Append(toLink, LA(0))
          \/ /\ Head(toNewton).kind = "LA"
             /\ newton' = [newton EXCEPT !.pending = Acknowledged(@, Head(toNewton).index)]
          \/ /\ Head(toNewton).kind = "LT"
             /\ newton' = [newton EXCEPT !.got = @ \o Head(toNewton).data, !.expected = Next1(@)]
          \/ Head(toNewton).kind = "LD" /\ newton' = [newton EXCEPT !.phase = "gone"]
          \/ UNCHANGED <<newton, toLink>>
      BY <1>6 DEF NewtonReceives
    <3> DEFINE x == Acknowledged(newton.pending, Head(toNewton).index)
               y == newton.got \o Head(toNewton).data
               z == Next1(newton.expected)
    <3>2. [newton EXCEPT !.pending = x].phase = newton.phase
          /\ [newton EXCEPT !.got = y, !.expected = z].phase = newton.phase
          /\ [newton EXCEPT !.phase = "gone"].phase = "gone"
      <4> HIDE DEF x, y, z
      <4> QED
        BY <1>t DEF NewtonState
    <3> QED
      BY <2>2, <3>1, <3>2
  <2>4. CASE phase = "answered"
    <3>1. /\ \A i \in DOMAIN Tail(toNewton) : Tail(toNewton)[i].kind \in {"LR", "bad"}
          /\ Head(toNewton).kind \in {"LR", "bad"}
      BY <1>t, <1>b, <2>1, <2>4, HeadAndRest
    <3>2. CASE UNCHANGED <<newton, toLink>>
      BY <1>a, <1>b, <2>1, <2>2, <2>4, <3>1, <3>2 DEF HandshakeIsFirst
    <3>3. CASE newton' = [newton EXCEPT !.phase = "up"] /\ toLink' = Append(toLink, LA(0))
      <4>1. newton'.phase = "up" /\ newton'.got = newton.got /\ newton'.expected = newton.expected
        BY <1>t, <3>3 DEF NewtonState
      <4>2. LA(0) \in Frame /\ LA(0).data = <<>>
        BY Constants, FramesTyped, FrameFields
      <4>3. toLink' # <<>> /\ toLink'[1].data = <<>>
        <5>1. toLink = <<>> \/ (toLink # <<>> /\ toLink[1].data = <<>>)
          BY <1>a, <2>4
        <5> QED
          BY <1>t, <3>3, <4>2, <5>1, FirstKept
      <4> QED
        BY <1>b, <2>1, <2>4, <3>1, <4>1, <4>3 DEF HandshakeIsFirst
    <3> QED
      BY <2>3, <3>1, <3>2, <3>3
  <2>5. CASE phase # "answered"
    <3>1. newton'.phase # "down"
      <4>1. [newton EXCEPT !.phase = "up"].phase = "up"
        BY <1>t DEF NewtonState
      <4> QED
        BY <2>2, <2>3, <4>1
    <3> QED
      BY <1>o, <2>1, <2>2, <2>5, <3>1
  <2> QED
    BY <2>4, <2>5
<1>7. CASE NewtonRepeats
  <2>1. /\ newton.phase = "up" /\ toLink' = toLink \o newton.pending /\ newton' = newton
        /\ UNCHANGED <<phase, inBuffer, outBuffer, left, delivered, written, toNewton>>
    BY <1>7 DEF NewtonRepeats
  <2>2. toLink # <<>> => toLink' # <<>> /\ toLink'[1] = toLink[1]
    <3> DEFINE q == toLink
               p == newton.pending
    <3>1. q \in Seq(Frame) /\ p \in Seq(Frame)
      BY <1>t
    <3> HIDE DEF q, p
    <3>2. q # <<>> => q \o p # <<>> /\ (q \o p)[1] = q[1]
      BY <3>1
    <3> QED
      BY <2>1, <3>2 DEF q, p
  <2> QED
    BY <1>a, <1>c, <1>w, <2>1, <2>2
<1>8. CASE NewtonHangsUp
  <2>1. /\ newton.phase = "up" /\ toLink' = Append(toLink, LD)
        /\ newton' = [newton EXCEPT !.phase = "gone"]
        /\ UNCHANGED <<phase, inBuffer, outBuffer, left, delivered, written, toNewton>>
    BY <1>8 DEF NewtonHangsUp
  <2>2. newton'.phase = "gone" /\ newton'.got = newton.got /\ newton'.expected = newton.expected
    BY <1>t, <2>1 DEF NewtonState
  <2>3. toLink' # <<>> /\ (toLink # <<>> => toLink'[1] = toLink[1])
    BY <1>t, <2>1, FirstKept
  <2> QED
    BY <1>a, <1>c, <1>w, <2>1, <2>2, <2>3
<1>9. CASE LineDamages
  <2>1. UNCHANGED <<phase, inBuffer, outBuffer, left, delivered, written, newton>>
    BY <1>9 DEF LineDamages
  <2>2. \/ /\ toLink # <<>> /\ toLink' = [toLink EXCEPT ![Len(toLink)].kind = "bad"]
           /\ toNewton' = toNewton
        \/ /\ toNewton # <<>> /\ toNewton' = [toNewton EXCEPT ![Len(toNewton)].kind = "bad"]
           /\ toLink' = toLink
    BY <1>9 DEF LineDamages
  <2>3. CASE /\ toLink # <<>> /\ toLink' = [toLink EXCEPT ![Len(toLink)].kind = "bad"]
             /\ toNewton' = toNewton
    <3>1. /\ toLink' # <<>> /\ Len(toLink') = Len(toLink)
          /\ \A i \in DOMAIN toLink : toLink'[i].data = toLink[i].data
      BY <1>t, <2>3, Damaged
    <3>2. 1 \in DOMAIN toLink
      BY <1>t, <2>3
    <3>3. toLink'[1].data = toLink[1].data
      BY <3>1, <3>2
    <3> QED
      BY <1>a, <1>b, <1>c, <1>d, <2>1, <2>3, <3>1, <3>3 DEF HandshakeIsFirst
  <2>4. CASE /\ toNewton # <<>> /\ toNewton' = [toNewton EXCEPT ![Len(toNewton)].kind = "bad"]
             /\ toLink' = toLink
    <3>1. /\ DOMAIN toNewton' = DOMAIN toNewton
          /\ \A i \in DOMAIN toNewton : toNewton'[i].kind = toNewton[i].kind
                                          \/ toNewton'[i].kind = "bad"
      BY <1>t, <2>4, Damaged
    <3> QED
      BY <1>a, <1>b, <1>c, <1>d, <2>1, <2>4, <3>1 DEF HandshakeIsFirst
  <2> QED
    BY <2>2, <2>3, <2>4
<1>10. CASE UNCHANGED vars
  BY <1>10, <1>a, <1>b, <1>c, <1>d DEF vars, HandshakeIsFirst
<1> QED
  BY <1>1, <1>2, <1>3, <1>4, <1>5, <1>6, <1>7, <1>8, <1>9, <1>10
  DEF MNPNext, Connecting, NewtonSide

-----------------------------------------------------------------------------
(* Towards the link.                                                       *)

\* All the data on its way to the link's reader, and past it.
Flow == delivered \o inBuffer \o DataOf(Kinds, toLink)

\* InStream, in terms of the flow.
LEMMA InStreamIs ==
  InStream <=> (repeats = 0 /\ ~skipped /\ phase # "failed" =>
                  \/ Flow = Bytes(0, newton.sent)
                  \/ newton.phase = "gone" /\ Flow = Append(Bytes(0, newton.sent), 0))
BY DEF InStream, Flow

LEMMA AnyChunk ==
  ASSUME NEW f \in Frame
  PROVE  Chunk(Kinds, f) = f.data /\ f.data \in Seq(Byte)
BY DEF Chunk, Frame, Byte

\* A frame joins the others on the line.
LEMMA FlowAppend ==
  ASSUME LineIInv, NEW f \in Frame, delivered' = delivered, inBuffer' = inBuffer,
         toLink' = Append(toLink, f)
  PROVE  Flow' = Flow \o f.data
<1> DEFINE a == delivered \o inBuffer
           b == DataOf(Kinds, toLink)
           e == f.data
<1>1. a \in Seq(Byte) /\ b \in Seq(Byte) /\ e \in Seq(Byte)
  BY Typed, Joined, DataTyped, AnyChunk
<1>2. DataOf(Kinds, toLink') = b \o e
  BY Typed, DataAppend, AnyChunk
<1>3. Flow = a \o b
  BY DEF Flow
<1>4. Flow' = a \o DataOf(Kinds, toLink')
  BY DEF Flow
<1> HIDE DEF a, b, e
<1>5. (a \o b) \o e = a \o (b \o e)
  BY <1>1, Regroup
<1> QED
  BY <1>2, <1>3, <1>4, <1>5 DEF e

\* The first frame is read: its data joins what was read.
LEMMA FlowTail ==
  ASSUME LineIInv, toLink # <<>>, toLink' = Tail(toLink),
         delivered' \in Seq(Byte), inBuffer' \in Seq(Byte),
         delivered' \o inBuffer' = delivered \o inBuffer \o Head(toLink).data
  PROVE  Flow' = Flow
<1> DEFINE a == delivered \o inBuffer
           d == Head(toLink).data
           c == DataOf(Kinds, Tail(toLink))
<1>1. a \in Seq(Byte) /\ d \in Seq(Byte) /\ c \in Seq(Byte)
  BY Typed, Joined, DataTyped, AnyChunk, HeadAndRest
<1>2. DataOf(Kinds, toLink) = d \o c
  <2>1. toLink \in Seq(Frame) /\ toLink # <<>> /\ Head(toLink) \in Frame
    BY Typed, HeadAndRest
  <2>2. DataOf(Kinds, toLink) = Chunk(Kinds, Head(toLink)) \o DataOf(Kinds, Tail(toLink))
    BY <2>1, DataTail
  <2>3. Chunk(Kinds, Head(toLink)) = d
    BY <2>1, AnyChunk
  <2> QED
    BY <2>2, <2>3
<1>3. Flow = a \o (d \o c)
  BY <1>2 DEF Flow
<1>4. Flow' = (a \o d) \o c
  BY DEF Flow
<1> HIDE DEF a, c, d
<1>5. (a \o d) \o c = a \o (d \o c)
  BY <1>1, Regroup, Zenon
<1> QED
  BY <1>3, <1>4, <1>5

\* InStream is inductive: what is in the flow moves in it, and only what the
\* Newton sends comes in, at its end.
LEMMA StepIn ==
  ASSUME LineIInv, HandshakeIsFirst, InStream, [MNPNext]_vars
  PROVE  InStream'
<1> USE DEF pipeVars, linkVars, faultVars
<1>t. /\ toLink \in Seq(Frame) /\ newton \in NewtonState
      /\ delivered \in Seq(Byte) /\ inBuffer \in Seq(Byte)
      /\ left \in 0..CommandSize /\ newton.sent \in 0..MaxBytes
      /\ left > 0 => inBuffer = <<>> /\ phase = "open"
      /\ repeats \in Nat /\ skipped \in BOOLEAN
      /\ delivered \o inBuffer \in Seq(Byte)
      /\ Flow \in Seq(Byte)
  <2>1. Flow \in Seq(Byte)
    BY Typed, Joined, DataTyped DEF Flow
  <2> QED
    BY <2>1, Typed, Joined
<1>f. /\ LR \in Frame /\ LD \in Frame /\ LR.data = <<>> /\ LD.data = <<0>>
      /\ \A i \in 0..IndexSpan - 1 : LA(i) \in Frame /\ LA(i).data = <<>>
  BY FramesTyped, FrameFields
<1> SUFFICES ASSUME repeats' = 0, ~skipped', phase' # "failed"
             PROVE  \/ Flow' = Bytes(0, newton'.sent)
                    \/ newton'.phase = "gone" /\ Flow' = Append(Bytes(0, newton'.sent), 0)
  BY DEF InStream, Flow
<1> DEFINE Goal == \/ Flow' = Bytes(0, newton'.sent)
                   \/ newton'.phase = "gone" /\ Flow' = Append(Bytes(0, newton'.sent), 0)
<1> SUFFICES Goal
  OBVIOUS
<1>k. ASSUME Flow' = Flow, newton'.sent = newton.sent, repeats = 0, ~skipped, phase # "failed",
             newton.phase = "gone" => newton'.phase = "gone"
      PROVE  Goal
  BY <1>k, InStreamIs
<1>e. ASSUME toLink # <<>>, toLink' = Tail(toLink), Head(toLink).data = <<>>,
             delivered' = delivered, inBuffer' = inBuffer
      PROVE  Flow' = Flow
  <2> DEFINE a == delivered \o inBuffer
  <2>1. a \in Seq(Byte)
    BY <1>t
  <2>2. a \o <<>> = a
    <3> HIDE DEF a
    <3> QED
      BY <2>1, Joined
  <2> QED
    BY <1>e, <1>t, <2>2, FlowTail
<1>g. ASSUME NEW x \in Frame, x.data = <<>>, toLink' = Append(toLink, x),
             delivered' = delivered, inBuffer' = inBuffer
      PROVE  Flow' = Flow
  <2>1. Flow \o <<>> = Flow
    BY <1>t, Joined
  <2> QED
    BY <1>g, <2>1, FlowAppend
<1>u. ASSUME toLink' = toLink, delivered' = delivered, inBuffer' = inBuffer
      PROVE  Flow' = Flow
  BY <1>u DEF Flow
<1> HIDE DEF Goal
<1>1. CASE ReadRequest \/ ReadConfirmation
  <2>1. /\ toLink # <<>> /\ toLink' = Tail(toLink) /\ newton' = newton
        /\ phase \in {"connecting", "answered"}
        /\ UNCHANGED <<delivered, inBuffer, repeats, skipped>>
    BY <1>1 DEF ReadRequest, ReadConfirmation, ReadFrame
  <2>2. Head(toLink).data = <<>>
    <3>1. toLink[1].data = <<>>
      BY <2>1 DEF HandshakeIsFirst
    <3> QED
      BY <1>t, <2>1, <3>1, HeadAndRest
  <2> QED
    BY <1>e, <1>k, <2>1, <2>2
<1>2. CASE Read
  <2>1. CopyData(inBuffer, CommandSize) /\ phase = "open"
        /\ UNCHANGED <<newton, toLink, repeats, skipped>>
    BY <1>2 DEF Read
  <2>2. CommandSize \in 1..CommandSize
    BY Constants
  <2>3. delivered' \o inBuffer' = delivered \o inBuffer
    BY <1>t, <2>1, <2>2, CopyTyped
  <2>4. Flow' = Flow
    BY <2>1, <2>3 DEF Flow
  <2> QED
    BY <1>k, <2>1, <2>4
<1>3. CASE ReceiveAcknowledgement
  <2>1. /\ toLink # <<>> /\ toLink' = Tail(toLink) /\ newton' = newton
        /\ Head(toLink).kind = "LA" /\ phase = "open"
        /\ UNCHANGED <<delivered, inBuffer, repeats, skipped>>
    BY <1>3 DEF ReceiveAcknowledgement, ReadFrame
  <2>2. Head(toLink).data = <<>>
    BY <2>1, LineParts, LinkTakes
  <2> QED
    BY <1>e, <1>k, <2>1, <2>2
<1>4. CASE ReceiveData
  <2>1. /\ toLink # <<>> /\ toLink' = Tail(toLink) /\ newton' = newton /\ left > 0
        /\ CopyData(Head(toLink).data, left)
        /\ UNCHANGED <<phase, repeats, skipped>>
    BY <1>4 DEF ReceiveData, ReadFrame
  <2>2. left \in 1..CommandSize /\ inBuffer = <<>> /\ phase = "open"
    BY <1>t, <2>1
  <2>3. Head(toLink).data \in Seq(Byte)
    BY <1>t, <2>1, HeadAndRest, AnyChunk
  <2>4. delivered' \in Seq(Byte) /\ inBuffer' \in Seq(Byte)
        /\ delivered' \o inBuffer' = delivered \o Head(toLink).data
    BY <1>t, <2>1, <2>2, <2>3, CopyTyped
  <2>5. delivered \o inBuffer = delivered
    BY <1>t, <2>2, Joined
  <2>6. Flow' = Flow
    BY <2>1, <2>4, <2>5, FlowTail
  <2> QED
    BY <1>k, <2>1, <2>2, <2>6
<1>5. CASE ReadThrows
  <2>1. phase' = "failed" \/ skipped' = TRUE
    BY <1>5 DEF ReadThrows
  <2> QED
    BY <2>1
<1>6. CASE SetKeepAlive \/ Writing
  <2>1. UNCHANGED <<delivered, inBuffer, toLink, newton, repeats, skipped>> /\ phase = "open"
    BY <1>6 DEF SetKeepAlive, Writing, Write, FlushOutput, Disconnect
  <2> QED
    BY <1>k, <1>u, <2>1
<1>7. CASE NewtonRequests
  <2>1. /\ newton.phase = "down" /\ toLink' = Append(toLink, LR)
        /\ newton' = [newton EXCEPT !.phase = "asking"]
        /\ UNCHANGED <<phase, inBuffer, delivered, repeats, skipped>>
    BY <1>7 DEF NewtonRequests
  <2>2. newton'.sent = newton.sent
    BY <1>t, <2>1 DEF NewtonState
  <2> QED
    BY <1>f, <1>g, <1>k, <2>1, <2>2
<1>8. CASE NewtonSends
  <2>1. PICK count \in 1..FrameSize :
          /\ newton.sent + count <= MaxBytes
          /\ toLink' = Append(toLink, LT(newton.index, Bytes(newton.sent, count)))
          /\ newton' = [newton EXCEPT !.sent = @ + count, !.index = Next1(@),
                           !.pending = Append(@, LT(newton.index, Bytes(newton.sent, count)))]
    BY <1>8 DEF NewtonSends
  <2>2. newton.phase = "up" /\ UNCHANGED <<phase, inBuffer, delivered, repeats, skipped>>
    BY <1>8 DEF NewtonSends
  <2>3. newton'.sent = newton.sent + count
    BY <1>t, <2>1 DEF NewtonState
  <2>4. newton.sent \in Nat /\ count \in Nat
    <3>1. FrameSize \in Nat /\ MaxBytes \in Nat
      BY Constants
    <3> QED
      BY <1>t, <2>1, <3>1
  <2> DEFINE d == Bytes(newton.sent, count)
             f == LT(newton.index, d)
  <2>5. f \in Frame /\ f.data = d
    <3>1. d \in Seq(Byte) /\ newton.index \in 0..IndexSpan - 1
      BY <2>1, <2>4, BytesFollow, Typed
    <3> QED
      BY <3>1, FramesTyped, FrameFields
  <2>6. Bytes(0, newton.sent) \o d = Bytes(0, newton.sent + count)
    BY <2>1, <2>4, BytesFollow
  <2>7. Flow' = Flow \o d
    <3>1. toLink' = Append(toLink, f) /\ delivered' = delivered /\ inBuffer' = inBuffer
      BY <2>1, <2>2
    <3> HIDE DEF f, d
    <3>2. Flow' = Flow \o f.data
      BY <2>5, <3>1, FlowAppend
    <3> QED
      BY <2>5, <3>2
  <2>8. Flow = Bytes(0, newton.sent)
    BY <2>2, InStreamIs
  <2> QED
    BY <2>3, <2>6, <2>7, <2>8 DEF Goal
<1>9. CASE NewtonReceives
  <2> DEFINE frame == Head(toNewton)
  <2>1. toNewton # <<>> /\ newton.phase # "gone"
        /\ UNCHANGED <<delivered, inBuffer, phase, repeats, skipped>>
    BY <1>9 DEF NewtonReceives
  <2>2. frame.index \in 0..IndexSpan - 1 /\ 0 \in 0..IndexSpan - 1
    BY <2>1, LineParts, NewtonTakes, Constants
  <2>3. \/ newton' = [newton EXCEPT !.phase = "up"] /\ toLink' = Append(toLink, LA(0))
        \/ /\ newton' = [newton EXCEPT !.pending = Acknowledged(@, frame.index)]
           /\ UNCHANGED toLink
        \/ /\ newton' = [newton EXCEPT !.got = @ \o frame.data, !.expected = Next1(@)]
           /\ toLink' = Append(toLink, LA(frame.index))
        \/ newton' = [newton EXCEPT !.phase = "gone"] /\ UNCHANGED toLink
        \/ UNCHANGED <<newton, toLink>>
    BY <1>9 DEF NewtonReceives
  <2> HIDE DEF frame
  <2>4. newton'.sent = newton.sent
    BY <1>t, <2>3 DEF NewtonState
  <2>5. toLink' \in {toLink, Append(toLink, LA(0)), Append(toLink, LA(frame.index))}
    BY <2>3
  <2>6. Flow' = Flow
    BY <1>f, <1>g, <1>u, <2>1, <2>2, <2>5
  <2> QED
    BY <1>k, <2>1, <2>4, <2>6
<1>10. CASE NewtonRepeats
  <2>1. repeats' = repeats + 1
    BY <1>10 DEF NewtonRepeats
  <2> QED
    BY <1>t, <2>1
<1>11. CASE NewtonHangsUp
  <2>1. /\ newton.phase = "up" /\ toLink' = Append(toLink, LD)
        /\ newton' = [newton EXCEPT !.phase = "gone"]
        /\ UNCHANGED <<phase, inBuffer, delivered, repeats, skipped>>
    BY <1>11 DEF NewtonHangsUp
  <2>2. newton'.sent = newton.sent /\ newton'.phase = "gone"
    BY <1>t, <2>1 DEF NewtonState
  <2>3. Flow' = Flow \o <<0>>
    BY <1>f, <2>1, FlowAppend
  <2>4. Flow = Bytes(0, newton.sent)
    BY <2>1, InStreamIs
  <2>5. Flow \o <<0>> = Append(Flow, 0)
    <3>1. 0 \in Byte
      BY Constants DEF Byte
    <3> QED
      BY <1>t, <3>1, AppendIsConcat
  <2> QED
    BY <2>2, <2>3, <2>4, <2>5 DEF Goal
<1>12. CASE LineDamages
  <2>1. UNCHANGED <<phase, inBuffer, delivered, newton, repeats, skipped>>
    BY <1>12 DEF LineDamages
  <2>2. \/ toLink # <<>> /\ toLink' = [toLink EXCEPT ![Len(toLink)].kind = "bad"]
        \/ toLink' = toLink
    BY <1>12 DEF LineDamages
  <2>3. CASE toLink # <<>> /\ toLink' = [toLink EXCEPT ![Len(toLink)].kind = "bad"]
    <3> DEFINE r == [toLink EXCEPT ![Len(toLink)].kind = "bad"]
    <3>0. r = [toLink EXCEPT ![Len(toLink)].kind = "bad"] /\ toLink' = r
      BY <2>3
    <3> HIDE DEF r
    <3>d. DOMAIN toLink = 1..Len(toLink)
      BY <1>t, <2>3, HeadAndRest
    <3>1. /\ r \in Seq(Frame) /\ Len(r) = Len(toLink)
          /\ \A i \in DOMAIN toLink : r[i].data = toLink[i].data
      <4>1. toLink \in Seq(Frame) /\ toLink # <<>>
        BY <1>t, <2>3
      <4>2. \A i \in DOMAIN toLink : /\ r[i].data = toLink[i].data /\ r[i].index = toLink[i].index
                                     /\ r[i].kind = toLink[i].kind \/ r[i].kind = "bad"
        BY <3>0, <4>1, Damaged
      <4>3. r \in Seq(Frame) /\ Len(r) = Len(toLink)
        BY <3>0, <4>1, Damaged
      <4> QED
        BY <4>2, <4>3
    <3>2. \A i \in 1..Len(toLink) : Chunk(Kinds, toLink[i]) = Chunk(Kinds, r[i])
      <4>1. ASSUME NEW i \in 1..Len(toLink)
            PROVE  Chunk(Kinds, toLink[i]) = Chunk(Kinds, r[i])
        <5>1. toLink[i] \in Frame /\ r[i] \in Frame
          BY <1>t, <3>1, <4>1, ElementOfSeq
        <5> QED
          BY <3>1, <3>d, <4>1, <5>1, AnyChunk
      <4> QED
        BY <4>1
    <3>3. DataOf(Kinds, toLink) = DataOf(Kinds, r)
      BY <1>t, <3>1, <3>2, DataSame
    <3>5. Flow' = Flow
      BY <2>1, <3>0, <3>3 DEF Flow
    <3> QED
      BY <1>k, <2>1, <3>5
  <2>4. CASE toLink' = toLink
    BY <1>k, <1>u, <2>1, <2>4
  <2> QED
    BY <2>2, <2>3, <2>4
<1>13. CASE UNCHANGED vars
  BY <1>13, <1>k, <1>u DEF vars
<1> QED
  BY <1>1, <1>2, <1>3, <1>4, <1>5, <1>6, <1>7, <1>8, <1>9, <1>10, <1>11, <1>12, <1>13
  DEF MNPNext, Connecting, Reading, NewtonSide

\* What was read is the beginning of the flow.
LEMMA StepDelivered ==
  ASSUME LineIInv, LineIInv', DeliveredInOrder, InStream', [MNPNext]_vars
  PROVE  DeliveredInOrder'
<1> USE DEF pipeVars, linkVars, faultVars
<1> SUFFICES ASSUME repeats' = 0, ~skipped', NEW i \in DOMAIN delivered'
             PROVE  delivered'[i] \in {0, i}
  BY DEF DeliveredInOrder
<1>1. CASE phase' = "failed"
  <2>1. delivered' = delivered /\ (skipped => skipped') /\ (repeats' = 0 => repeats = 0)
    <3>1. repeats \in Nat /\ skipped \in BOOLEAN
      BY Typed
    <3>2. CASE phase' = phase
      <4>1. phase = "failed"
        BY <1>1, <3>2
      <4>2. CASE Connecting \/ Reading \/ SetKeepAlive \/ Writing
        BY <4>1, <4>2 DEF Connecting, Reading, Writing, ReadRequest, ReadConfirmation, Read,
             ReceiveAcknowledgement, ReceiveData, ReadThrows, SetKeepAlive, Write, FlushOutput,
             Disconnect
      <4>3. CASE NewtonSide \/ LineDamages \/ UNCHANGED vars
        <5>1. /\ delivered' = delivered /\ skipped' = skipped
              /\ repeats' = repeats \/ repeats' = repeats + 1
          BY <4>3, Zenon DEF NewtonSide, NewtonRequests, NewtonSends, NewtonReceives,
               NewtonRepeats, NewtonHangsUp, LineDamages, vars
        <5> QED
          BY <3>1, <5>1
      <4> QED
        BY <4>2, <4>3 DEF MNPNext
    <3>3. CASE phase' # phase
      <4>1. CASE ReadRequest \/ ReadConfirmation \/ ReadThrows
        <5>1. delivered' = delivered /\ repeats' = repeats /\ skipped' \in {skipped, TRUE}
          BY <4>1 DEF ReadRequest, ReadConfirmation, ReadThrows
        <5> QED
          BY <3>1, <5>1
      <4>2. CASE Disconnect
        BY <1>1, <4>2 DEF Disconnect
      <4>3. CASE \/ Read \/ ReceiveAcknowledgement \/ ReceiveData \/ SetKeepAlive
                 \/ Write \/ FlushOutput \/ NewtonSide \/ LineDamages \/ UNCHANGED vars
        BY <3>3, <4>3, Zenon DEF Read, ReceiveAcknowledgement, ReceiveData, SetKeepAlive, Write,
             FlushOutput, NewtonSide, NewtonRequests, NewtonSends, NewtonReceives,
             NewtonRepeats, NewtonHangsUp, LineDamages, vars
      <4> QED
        BY <4>1, <4>2, <4>3 DEF MNPNext, Connecting, Reading, Writing
    <3> QED
      BY <3>2, <3>3
  <2> QED
    BY <2>1 DEF DeliveredInOrder
<1>2. CASE phase' # "failed"
  <2> DEFINE a == delivered'
             b == inBuffer'
             c == DataOf(Kinds, toLink')
             n == newton'.sent
  <2>1. a \in Seq(Byte) /\ b \in Seq(Byte) /\ c \in Seq(Byte) /\ n \in 0..MaxBytes
    <3>1. /\ delivered' \in Seq(0..MaxBytes) /\ inBuffer' \in Seq(0..MaxBytes)
          /\ toLink' \in Seq(Frame) /\ newton' \in NewtonState
      BY DEF LineIInv, MNPIInv
    <3>2. newton'.sent \in 0..MaxBytes
      BY <3>1 DEF NewtonState
    <3> QED
      BY <3>1, <3>2, DataTyped DEF Byte
  <2>2. \/ (a \o b) \o c = Bytes(0, n)
        \/ (a \o b) \o c = Append(Bytes(0, n), 0)
    BY <1>2 DEF InStream
  <2> HIDE DEF a, b, c, n
  <2> DEFINE s == (a \o b) \o c
  <2>3. i \in 1..Len(a) /\ s[i] = a[i] /\ i \in 1..Len(s)
    <3>1. i \in 1..Len(a)
      BY <2>1 DEF a
    <3>2. a \o b \in Seq(Byte) /\ Len(a \o b) = Len(a) + Len(b) /\ (a \o b)[i] = a[i]
          /\ Len(a) \in Nat /\ Len(b) \in Nat /\ Len(c) \in Nat
      BY <2>1, <3>1, ConcatProperties
    <3> DEFINE u == a \o b
    <3>3. u \in Seq(Byte) /\ i \in 1..Len(u)
      BY <3>1, <3>2
    <3> HIDE DEF u
    <3>4. (u \o c)[i] = u[i] /\ Len(u \o c) = Len(u) + Len(c)
      BY <2>1, <3>2, <3>3, ConcatProperties
    <3> QED
      BY <3>1, <3>2, <3>3, <3>4 DEF u
  <2>4. Len(Bytes(0, n)) = n /\ Bytes(0, n) \in Seq(Byte) /\ n \in Nat
        /\ \A j \in 1..n : Bytes(0, n)[j] = j
    <3>1. n \in Nat /\ 0 \in Nat /\ n + 0 <= MaxBytes
      BY <2>1, Constants
    <3>2. Bytes(0, n) \in Seq(Byte)
      BY <3>1, BytesFollow
    <3>3. Bytes(0, n) = [j \in 1..n |-> 0 + j]
      BY DEF Bytes
    <3>4. \A j \in 1..n : Bytes(0, n)[j] = j /\ Len(Bytes(0, n)) = n
      BY <3>1, <3>3
    <3>5. Len(Bytes(0, n)) = n
      BY <3>1, <3>3
    <3> QED
      BY <3>1, <3>2, <3>4, <3>5
  <2> HIDE DEF s
  <2>5. s[i] \in {0, i}
    <3> DEFINE t == Bytes(0, n)
    <3>1. s = t \/ s = Append(t, 0)
      BY <2>2 DEF s
    <3>2. t \in Seq(Byte) /\ 0 \in Byte /\ Len(t) = n /\ n \in Nat /\ \A j \in 1..n : t[j] = j
      BY <2>4, Constants DEF Byte
    <3> HIDE DEF t
    <3>3. Len(Append(t, 0)) = n + 1 /\ Append(t, 0)[n + 1] = 0
          /\ \A j \in 1..n : Append(t, 0)[j] = t[j]
      BY <3>2, AppendProperties
    <3>4. CASE s = t
      BY <2>3, <3>2, <3>4
    <3>5. CASE s = Append(t, 0)
      BY <2>3, <3>2, <3>3, <3>5
    <3> QED
      BY <3>1, <3>4, <3>5
  <2> QED
    BY <2>3, <2>5 DEF a
<1> QED
  BY <1>1, <1>2

-----------------------------------------------------------------------------
(* Towards the Newton.                                                     *)

\* The numbers that Numbered attaches to frames.
Numbers(q) == [1..Len(q) + 1 -> 0..IndexSpan - 1]

LEMMA NumberedIs ==
  ASSUME NEW q \in Seq(Frame), NEW first, NEW number
  PROVE  Numbered(q, first, number) <=>
           /\ number \in Numbers(q) /\ number[1] = first
           /\ \A i \in 1..Len(q) :
                IF q[i].kind = "LT" THEN q[i].index = number[i] /\ number[i + 1] = Next1(number[i])
                ELSE number[i + 1] = number[i]
<1>1. DOMAIN q = 1..Len(q)
  OBVIOUS
<1> QED
  BY <1>1 DEF Numbered, Numbers

\* A frame joins the others, with the number that comes next.
LEMMA NumberedAppend ==
  ASSUME NEW q \in Seq(Frame), NEW f \in Frame, NEW first, NEW number,
         Numbered(q, first, number), f.kind = "LT" => f.index = number[Len(q) + 1]
  PROVE  \E m \in Numbers(Append(q, f)) :
           /\ Numbered(Append(q, f), first, m)
           /\ m[Len(Append(q, f)) + 1] = IF f.kind = "LT" THEN Next1(number[Len(q) + 1])
                                         ELSE number[Len(q) + 1]
<1> DEFINE n == Len(q)
           r == Append(q, f)
           last == IF f.kind = "LT" THEN Next1(number[n + 1]) ELSE number[n + 1]
           m == [i \in 1..n + 2 |-> IF i = n + 2 THEN last ELSE number[i]]
<1>1. /\ number \in [1..n + 1 -> 0..IndexSpan - 1] /\ number[1] = first
      /\ \A i \in 1..n : IF q[i].kind = "LT"
                         THEN q[i].index = number[i] /\ number[i + 1] = Next1(number[i])
                         ELSE number[i + 1] = number[i]
  BY NumberedIs DEF Numbers
<1>2. n \in Nat /\ r \in Seq(Frame) /\ Len(r) = n + 1 /\ r[n + 1] = f
      /\ \A i \in 1..n : r[i] = q[i]
  BY AppendProperties
<1>3. last \in 0..IndexSpan - 1
  <2>1. number[n + 1] \in 0..IndexSpan - 1
    BY <1>1, <1>2
  <2> DEFINE x == number[n + 1]
  <2>2. x \in 0..IndexSpan - 1 /\ x \in Nat
    BY <2>1
  <2> HIDE DEF x
  <2>3. Next1(x) \in 0..IndexSpan - 1
    BY <2>2, NextTyped
  <2> QED
    BY <2>2, <2>3 DEF x
<1> HIDE DEF last
<1>4. m \in [1..n + 2 -> 0..IndexSpan - 1]
  <2>1. ASSUME NEW i \in 1..n + 2, i # n + 2 PROVE number[i] \in 0..IndexSpan - 1
    <3>1. i \in 1..n + 1
      BY <1>2, <2>1
    <3> QED
      BY <1>1, <3>1
  <2> HIDE DEF n
  <2> QED
    BY <1>3, <2>1
<1>5. m[n + 2] = last /\ \A i \in 1..n + 1 : m[i] = number[i]
  BY <1>2
<1> HIDE DEF m, r
<1>6. m[1] = first
  BY <1>1, <1>2, <1>5
<1>7. ASSUME NEW i \in 1..n + 1
      PROVE  IF r[i].kind = "LT" THEN r[i].index = m[i] /\ m[i + 1] = Next1(m[i])
             ELSE m[i + 1] = m[i]
  <2>1. CASE i = n + 1
    <3>1. r[i] = f /\ m[i] = number[n + 1] /\ m[i + 1] = last
      <4>1. i + 1 = n + 2
        BY <1>2, <2>1
      <4> QED
        BY <1>2, <1>5, <2>1, <4>1
    <3> QED
      BY <3>1 DEF last
  <2>2. CASE i # n + 1
    <3>1. i \in 1..n /\ i + 1 \in 1..n + 1
      BY <1>2, <2>2
    <3>2. r[i] = q[i] /\ m[i] = number[i] /\ m[i + 1] = number[i + 1]
      BY <1>2, <1>5, <3>1
    <3> QED
      BY <1>1, <3>1, <3>2
  <2> QED
    BY <2>1, <2>2
<1>8. m \in Numbers(r)
  <2>1. Len(r) + 1 = n + 2
    BY <1>2
  <2> QED
    BY <1>4, <2>1 DEF Numbers
<1>9. Numbered(r, first, m)
  BY <1>2, <1>6, <1>7, <1>8, NumberedIs
<1>10. m[Len(r) + 1] = last
  <2>1. Len(r) + 1 = n + 2
    BY <1>2
  <2> QED
    BY <1>5, <2>1
<1> QED
  BY <1>8, <1>9, <1>10 DEF r, last

\* The first frame is taken, with the number that was expected.
LEMMA NumberedTail ==
  ASSUME NEW q \in Seq(Frame), q # <<>>, NEW first, NEW number, Numbered(q, first, number)
  PROVE  /\ Head(q).kind = "LT" => Head(q).index = first
         /\ \E m \in Numbers(Tail(q)) :
              /\ Numbered(Tail(q), IF Head(q).kind = "LT" THEN Next1(first) ELSE first, m)
              /\ m[Len(Tail(q)) + 1] = number[Len(q) + 1]
<1> DEFINE n == Len(q)
           r == Tail(q)
           next == IF Head(q).kind = "LT" THEN Next1(first) ELSE first
           m == [i \in 1..n |-> number[i + 1]]
<1>1. /\ number \in [1..n + 1 -> 0..IndexSpan - 1] /\ number[1] = first
      /\ \A i \in 1..n : IF q[i].kind = "LT"
                         THEN q[i].index = number[i] /\ number[i + 1] = Next1(number[i])
                         ELSE number[i + 1] = number[i]
  BY NumberedIs DEF Numbers
<1>2. n \in Nat /\ n >= 1 /\ r \in Seq(Frame) /\ Len(r) = n - 1 /\ Head(q) = q[1]
      /\ \A i \in 1..n - 1 : r[i] = q[i + 1]
  BY HeadTailProperties
<1>3. m \in [1..n -> 0..IndexSpan - 1] /\ \A i \in 1..n : m[i] = number[i + 1]
  <2>1. ASSUME NEW i \in 1..n PROVE number[i + 1] \in 0..IndexSpan - 1
    <3>1. i + 1 \in 1..n + 1
      BY <1>2
    <3> QED
      BY <1>1, <3>1
  <2> HIDE DEF n
  <2> QED
    BY <2>1
<1> HIDE DEF m, r
<1>4. m[1] = next /\ (Head(q).kind = "LT" => Head(q).index = first)
  <2>1. 1 \in 1..n
    BY <1>2
  <2>2. IF q[1].kind = "LT" THEN q[1].index = number[1] /\ number[1 + 1] = Next1(number[1])
        ELSE number[1 + 1] = number[1]
    BY <1>1, <2>1
  <2>3. m[1] = number[1 + 1]
    BY <1>3, <2>1
  <2> QED
    BY <1>1, <1>2, <2>2, <2>3
<1>5. ASSUME NEW i \in 1..n - 1
      PROVE  IF r[i].kind = "LT" THEN r[i].index = m[i] /\ m[i + 1] = Next1(m[i])
             ELSE m[i + 1] = m[i]
  <2>1. i \in 1..n /\ i + 1 \in 1..n
    BY <1>2
  <2>2. r[i] = q[i + 1] /\ m[i] = number[i + 1] /\ m[i + 1] = number[(i + 1) + 1]
    BY <1>2, <1>3, <2>1
  <2>3. IF q[i + 1].kind = "LT"
        THEN q[i + 1].index = number[i + 1] /\ number[(i + 1) + 1] = Next1(number[i + 1])
        ELSE number[(i + 1) + 1] = number[i + 1]
    BY <1>1, <2>1
  <2> QED
    BY <2>2, <2>3
<1>6. Len(r) + 1 = n /\ m \in Numbers(r)
  <2>1. Len(r) + 1 = n
    BY <1>2
  <2> QED
    BY <1>3, <2>1 DEF Numbers
<1> HIDE DEF next
<1>7. Numbered(r, next, m)
  BY <1>2, <1>4, <1>5, <1>6, NumberedIs
<1>8. m[Len(r) + 1] = number[n + 1]
  <2>1. n \in 1..n
    BY <1>2
  <2> QED
    BY <1>3, <1>6, <2>1
<1> QED
  BY <1>4, <1>6, <1>7, <1>8 DEF r, next

\* The frames of a Write follow those on the line.
LEMMA NumberedWrite ==
  ASSUME NEW q \in Seq(Frame), NEW first, NEW number, Numbered(q, first, number),
         outIndex \in 0..IndexSpan - 1, number[Len(q) + 1] = outIndex,
         NEW data \in Seq(Byte), NEW k \in Nat, k * Capacity <= Len(data)
  PROVE  \E m \in Numbers(q \o FirstFrames(data, k)) :
           /\ Numbered(q \o FirstFrames(data, k), first, m)
           /\ m[Len(q \o FirstFrames(data, k)) + 1] = (outIndex + k) % IndexSpan
<1> DEFINE n == Len(q)
           p == FirstFrames(data, k)
           r == q \o p
           After(i) == (outIndex + i) % IndexSpan
           m == [i \in 1..n + k + 1 |-> IF i <= n THEN number[i] ELSE After(i - n - 1)]
<1>1. /\ number \in [1..n + 1 -> 0..IndexSpan - 1] /\ number[1] = first
      /\ \A i \in 1..n : IF q[i].kind = "LT"
                         THEN q[i].index = number[i] /\ number[i + 1] = Next1(number[i])
                         ELSE number[i + 1] = number[i]
  BY NumberedIs DEF Numbers
<1>2. /\ p \in Seq(Frame) /\ Len(p) = k
      /\ \A i \in 1..k : p[i].kind = "LT" /\ p[i].index = After(i - 1)
  <2>1. /\ p \in Seq(Frame) /\ Len(p) = k
        /\ \A i \in 1..k : p[i] = LT((outIndex + i - 1) % IndexSpan,
                                    SubSeq(data, (i - 1) * Capacity + 1, i * Capacity))
    BY FirstFramesTyped
  <2> HIDE DEF p
  <2>2. ASSUME NEW i \in 1..k PROVE p[i].kind = "LT" /\ p[i].index = After(i - 1)
    <3>1. outIndex + i - 1 = outIndex + (i - 1)
      OBVIOUS
    <3> QED
      BY <2>1, <3>1, FrameFields
  <2> QED
    BY <2>1, <2>2
<1> HIDE DEF p
<1>3. /\ n \in Nat /\ r \in Seq(Frame) /\ Len(r) = n + k
      /\ \A i \in 1..n + k : r[i] = IF i <= n THEN q[i] ELSE p[i - n]
  BY <1>2, ConcatProperties
<1> HIDE DEF r
<1>4. \A i \in Nat : After(i) \in 0..IndexSpan - 1 /\ After(i + 1) = Next1(After(i))
  <2>1. ASSUME NEW i \in Nat
        PROVE  After(i) \in 0..IndexSpan - 1 /\ After(i + 1) = Next1(After(i))
    <3>1. outIndex + i \in Nat /\ 1 \in Nat /\ outIndex + (i + 1) = (outIndex + i) + 1
      BY Constants
    <3> DEFINE a == outIndex + i
    <3>2. ((a % IndexSpan) + 1) % IndexSpan = (a + 1) % IndexSpan
      <4>1. a \in Nat /\ 1 \in Nat /\ IndexSpan \in Nat \ {0}
        BY <3>1, Constants
      <4> HIDE DEF a
      <4> QED
        BY <4>1, ModPlus
    <3>3. After(i) \in 0..IndexSpan - 1
      BY <3>1, NextTyped
    <3> QED
      BY <3>1, <3>2, <3>3 DEF Next1
  <2> QED
    BY <2>1
<1>5. After(0) = outIndex
  <2>1. IndexSpan * 0 + outIndex = outIndex /\ outIndex + 0 = outIndex
    BY Constants
  <2>2. (IndexSpan * 0 + outIndex) % IndexSpan = outIndex
    BY Constants, ModOf
  <2> QED
    BY <2>1, <2>2
<1> HIDE DEF After
<1>6. /\ m \in [1..n + k + 1 -> 0..IndexSpan - 1]
      /\ \A i \in 1..n + 1 : m[i] = number[i]
      /\ \A i \in 0..k : m[n + i + 1] = After(i)
  <2>1. ASSUME NEW i \in 1..n + k + 1
        PROVE  (IF i <= n THEN number[i] ELSE After(i - n - 1)) \in 0..IndexSpan - 1
    <3>1. CASE i <= n
      <4>1. i \in 1..n + 1
        BY <1>3, <3>1
      <4> QED
        BY <1>1, <3>1, <4>1
    <3>2. CASE ~ (i <= n)
      <4>1. i - n - 1 \in Nat
        BY <1>3, <3>2
      <4> QED
        BY <1>4, <3>2, <4>1
    <3> QED
      BY <3>1, <3>2
  <2>2. m \in [1..n + k + 1 -> 0..IndexSpan - 1]
    <3> HIDE DEF n
    <3> QED
      BY <2>1
  <2>3. ASSUME NEW i \in 1..n + 1 PROVE m[i] = number[i]
    <3>1. i \in 1..n + k + 1
      BY <1>3
    <3>2. CASE i <= n
      BY <3>1, <3>2
    <3>3. CASE ~ (i <= n)
      <4>1. i = n + 1 /\ i - n - 1 = 0
        BY <1>3, <3>3
      <4> QED
        BY <1>5, <3>1, <3>3, <4>1
    <3> QED
      BY <3>2, <3>3
  <2>4. ASSUME NEW i \in 0..k PROVE m[n + i + 1] = After(i)
    <3>1. n + i + 1 \in 1..n + k + 1 /\ ~ (n + i + 1 <= n) /\ (n + i + 1) - n - 1 = i
      BY <1>3
    <3> QED
      BY <3>1
  <2> QED
    BY <2>2, <2>3, <2>4
<1> HIDE DEF m
<1>7. m[1] = first
  <2>1. 1 \in 1..n + 1
    BY <1>3
  <2> QED
    BY <1>1, <1>6, <2>1
<1>8. ASSUME NEW i \in 1..n + k
      PROVE  IF r[i].kind = "LT" THEN r[i].index = m[i] /\ m[i + 1] = Next1(m[i])
             ELSE m[i + 1] = m[i]
  <2>1. CASE i <= n
    <3>1. i \in 1..n /\ i \in 1..n + 1 /\ i + 1 \in 1..n + 1
      BY <1>3, <2>1
    <3>2. r[i] = q[i] /\ m[i] = number[i] /\ m[i + 1] = number[i + 1]
      BY <1>3, <1>6, <2>1, <3>1
    <3> QED
      BY <1>1, <3>1, <3>2
  <2>2. CASE ~ (i <= n)
    <3>1. i - n \in 1..k /\ i - n - 1 \in 0..k /\ i - n \in 0..k /\ i - n - 1 \in Nat
          /\ n + (i - n - 1) + 1 = i /\ n + (i - n) + 1 = i + 1 /\ (i - n - 1) + 1 = i - n
          /\ (i - n) - 1 = i - n - 1
      BY <1>3, <2>2
    <3>2. r[i] = p[i - n]
      BY <1>3, <2>2
    <3>3. m[i] = After(i - n - 1) /\ m[i + 1] = After(i - n)
      BY <1>6, <3>1
    <3>4. After(i - n) = Next1(After(i - n - 1))
      BY <1>4, <3>1
    <3>5. r[i].kind = "LT" /\ r[i].index = After(i - n - 1)
      BY <1>2, <3>1, <3>2
    <3> QED
      BY <3>3, <3>4, <3>5
  <2> QED
    BY <2>1, <2>2
<1>9. Len(r) + 1 = n + k + 1 /\ m \in Numbers(r)
  <2>1. Len(r) + 1 = n + k + 1
    BY <1>3
  <2> QED
    BY <1>6, <2>1 DEF Numbers
<1>10. Numbered(r, first, m)
  BY <1>3, <1>7, <1>8, <1>9, NumberedIs
<1>11. m[Len(r) + 1] = After(k)
  <2>1. k \in 0..k
    OBVIOUS
  <2> QED
    BY <1>6, <1>9, <2>1
<1> QED
  BY <1>9, <1>10, <1>11 DEF r, p, After

\* The data of two sequences of frames.
LEMMA DataConcat ==
  ASSUME NEW kinds, NEW q \in Seq(Frame), NEW r \in Seq(Frame)
  PROVE  DataOf(kinds, q \o r) = DataOf(kinds, q) \o DataOf(kinds, r)
<1> DEFINE U == Seq(Byte)
           t == q \o r
           c == Chunks(kinds, q)
           d == Chunks(kinds, r)
           e == Chunks(kinds, t)
<1>1. /\ t \in Seq(Frame) /\ Len(t) = Len(q) + Len(r) /\ Len(q) \in Nat /\ Len(r) \in Nat
      /\ \A i \in 1..Len(q) + Len(r) : t[i] = IF i <= Len(q) THEN q[i] ELSE r[i - Len(q)]
  BY ConcatProperties
<1> HIDE DEF t
<1>2. /\ c \in Seq(U) /\ Len(c) = Len(q)
      /\ \A i \in 1..Len(q) : c[i] = Chunk(kinds, q[i])
  BY ChunksTyped
<1>3. /\ d \in Seq(U) /\ Len(d) = Len(r)
      /\ \A i \in 1..Len(r) : d[i] = Chunk(kinds, r[i])
  BY ChunksTyped
<1>4. /\ e \in Seq(U) /\ Len(e) = Len(t)
      /\ \A i \in 1..Len(t) : e[i] = Chunk(kinds, t[i])
  BY <1>1, ChunksTyped
<1> HIDE DEF U, c, d, e
<1> DEFINE g == c \o d
<1>5. /\ g \in Seq(U) /\ Len(g) = Len(t)
      /\ \A i \in 1..Len(t) : g[i] = IF i <= Len(q) THEN c[i] ELSE d[i - Len(q)]
  BY <1>1, <1>2, <1>3, ConcatProperties
<1> HIDE DEF g
<1>6. ASSUME NEW i \in 1..Len(t) PROVE g[i] = e[i]
  <2>1. CASE i <= Len(q)
    <3>1. i \in 1..Len(q) /\ t[i] = q[i]
      BY <1>1, <2>1
    <3> QED
      BY <1>2, <1>4, <1>5, <2>1, <3>1
  <2>2. CASE ~ (i <= Len(q))
    <3>1. i - Len(q) \in 1..Len(r) /\ t[i] = r[i - Len(q)]
      BY <1>1, <2>2
    <3> QED
      BY <1>3, <1>4, <1>5, <2>2, <3>1
  <2> QED
    BY <2>1, <2>2
<1>7. g = e
  BY <1>4, <1>5, <1>6, SeqEqual
<1>8. FlattenSeq(c \o d) = FlattenSeq(c) \o FlattenSeq(d)
  BY <1>2, <1>3, FlatConcat DEF U
<1> QED
  BY <1>7, <1>8, DataIs DEF c, d, e, g, t

\* What a FlushOutput moves from the buffer to the line.
LEMMA Exchange ==
  ASSUME NEW g \in Seq(Byte), NEW l \in Seq(Byte), NEW o \in Seq(Byte)
  PROVE  (g \o (l \o o)) \o <<>> = (g \o l) \o o
<1>1. g \o (l \o o) = (g \o l) \o o
  BY Regroup
<1>2. (g \o l) \o o \in Seq(Byte)
  BY Joined
<1> QED
  BY <1>1, <1>2, Joined

LEMMA OutStreamIs ==
  OutStream <=> (damages = 0 =>
      /\ newton.got \o DataOf({"LT"}, toNewton) \o outBuffer = Bytes(0, written)
      /\ \E number \in Numbers(toNewton) :
           /\ Numbered(toNewton, newton.expected, number)
           /\ phase \in {"open", "closed"} => number[Len(toNewton) + 1] = outIndex)
BY DEF OutStream, Numbers

\* A frame without data for the Newton.
LEMMA OutAppend ==
  ASSUME LineIInv, NEW f \in Frame, f.kind # "LT"
  PROVE  /\ DataOf({"LT"}, Append(toNewton, f)) = DataOf({"LT"}, toNewton)
         /\ \A number : Numbered(toNewton, newton.expected, number) =>
              \E m \in Numbers(Append(toNewton, f)) :
                 /\ Numbered(Append(toNewton, f), newton.expected, m)
                 /\ m[Len(Append(toNewton, f)) + 1] = number[Len(toNewton) + 1]
<1>1. toNewton \in Seq(Frame)
  BY Typed
<1>2. DataOf({"LT"}, Append(toNewton, f)) = DataOf({"LT"}, toNewton) \o <<>>
  BY <1>1, DataAppend DEF Chunk
<1>3. DataOf({"LT"}, toNewton) \in Seq(Byte)
  BY <1>1, DataTyped
<1>4. ASSUME NEW number, Numbered(toNewton, newton.expected, number)
      PROVE  \E m \in Numbers(Append(toNewton, f)) :
                 /\ Numbered(Append(toNewton, f), newton.expected, m)
                 /\ m[Len(Append(toNewton, f)) + 1] = number[Len(toNewton) + 1]
  BY <1>1, <1>4, NumberedAppend
<1> QED
  BY <1>2, <1>3, <1>4, Joined

\* OutStream is inductive: the Newton finds the number it expects in the first
\* frame, since each frame was sent with the number that follows.
LEMMA StepOut ==
  ASSUME LineIInv, HandshakeIsFirst, OutStream, [MNPNext]_vars
  PROVE  OutStream'
<1> USE DEF pipeVars, linkVars, faultVars
<1>t. /\ toNewton \in Seq(Frame) /\ newton \in NewtonState /\ newton.got \in Seq(Byte)
      /\ outBuffer \in Seq(Byte) /\ outIndex \in 0..IndexSpan - 1
      /\ written \in 0..MaxBytes /\ damages \in Nat
      /\ inIndex \in 0..IndexSpan - 1
      /\ DataOf({"LT"}, toNewton) \in Seq(Byte)
  BY Typed, DataTyped
<1> SUFFICES ASSUME damages' = 0
             PROVE  /\ newton'.got \o DataOf({"LT"}, toNewton') \o outBuffer' = Bytes(0, written')
                    /\ \E m \in Numbers(toNewton') :
                         /\ Numbered(toNewton', newton'.expected, m)
                         /\ phase' \in {"open", "closed"} => m[Len(toNewton') + 1] = outIndex'
  BY DEF OutStream, Numbers
<1> DEFINE Whole == newton'.got \o DataOf({"LT"}, toNewton') \o outBuffer' = Bytes(0, written')
           InOrder == \E m \in Numbers(toNewton') :
                         /\ Numbered(toNewton', newton'.expected, m)
                         /\ phase' \in {"open", "closed"} => m[Len(toNewton') + 1] = outIndex'
<1> SUFFICES Whole /\ InOrder
  OBVIOUS
<1>d. damages = 0
  <2>1. damages' \in {damages, damages + 1}
    BY Zenon DEF MNPNext, Connecting, Reading, Writing, NewtonSide, ReadRequest, ReadConfirmation,
           Read, ReceiveAcknowledgement, ReceiveData, ReadThrows, SetKeepAlive, Write,
           FlushOutput, Disconnect, NewtonRequests, NewtonSends, NewtonReceives, NewtonRepeats,
           NewtonHangsUp, LineDamages, vars
  <2> QED
    BY <1>t, <2>1
<1>w. newton.got \o DataOf({"LT"}, toNewton) \o outBuffer = Bytes(0, written)
  BY <1>d, OutStreamIs
<1>n. PICK number \in Numbers(toNewton) :
           /\ Numbered(toNewton, newton.expected, number)
           /\ phase \in {"open", "closed"} => number[Len(toNewton) + 1] = outIndex
  BY <1>d, OutStreamIs
<1>e. \A n : n \in [phase : {"down", "asking", "up", "gone"}, index : 0..IndexSpan - 1,
                  sent : 0..MaxBytes, pending : Seq(Frame), expected : 0..IndexSpan - 1,
                  got : Seq(0..MaxBytes)] <=> n \in NewtonState
  BY DEF NewtonState
<1>f. /\ LR \in Frame /\ LD \in Frame /\ LR.kind = "LR" /\ LD.kind = "LD"
      /\ \A i \in 0..IndexSpan - 1 : LA(i) \in Frame /\ LA(i).kind = "LA"
  BY FramesTyped, FrameFields
<1>u. ASSUME UNCHANGED <<toNewton, outBuffer, written>>, newton'.got = newton.got,
             newton'.expected = newton.expected,
             phase' \in {"open", "closed"} => phase = phase' /\ outIndex' = outIndex
      PROVE  Whole /\ InOrder
  BY <1>n, <1>u, <1>w
<1>a. ASSUME NEW f \in Frame, f.kind # "LT", toNewton' = Append(toNewton, f),
             UNCHANGED <<outBuffer, written, newton>>,
             phase' \in {"open", "closed"} => phase \in {"open", "closed"} /\ outIndex' = outIndex
      PROVE  Whole /\ InOrder
  <2>1. DataOf({"LT"}, toNewton') = DataOf({"LT"}, toNewton)
    BY <1>a, OutAppend
  <2>2. PICK m \in Numbers(toNewton') :
                 /\ Numbered(toNewton', newton.expected, m)
                 /\ m[Len(toNewton') + 1] = number[Len(toNewton) + 1]
    BY <1>a, <1>n, OutAppend
  <2> QED
    BY <1>a, <1>n, <1>w, <2>1, <2>2
<1> HIDE DEF Whole, InOrder
<1>1. CASE ReadRequest
  <2>1. \/ phase' = "failed" /\ UNCHANGED toNewton
        \/ phase' = "answered" /\ toNewton' = Append(toNewton, LR)
    BY <1>1 DEF ReadRequest, WriteFrame
  <2>2. UNCHANGED <<outBuffer, written, newton>>
    BY <1>1 DEF ReadRequest
  <2> QED
    BY <1>a, <1>f, <1>u, <2>1, <2>2
<1>2. CASE ReadConfirmation
  <2>1. /\ UNCHANGED <<outBuffer, written, newton, toNewton>> /\ phase = "answered"
        /\ phase' = "failed" \/ (phase' = "open" /\ outIndex' = 1)
    BY <1>2 DEF ReadConfirmation
  <2>2. CASE phase' = "failed"
    BY <1>u, <2>1, <2>2
  <2>3. CASE phase' = "open" /\ outIndex' = 1
    <3>1. newton.expected = 1 /\ \A i \in DOMAIN toNewton : toNewton[i].kind \in {"LR", "bad"}
      BY <2>1 DEF HandshakeIsFirst
    <3> DEFINE m == [i \in 1..Len(toNewton) + 1 |-> 1]
    <3>2. m \in Numbers(toNewton) /\ \A i \in 1..Len(toNewton) + 1 : m[i] = 1
      BY Constants DEF Numbers
    <3> HIDE DEF m
    <3>3. Len(toNewton) \in Nat /\ DOMAIN toNewton = 1..Len(toNewton)
      BY <1>t
    <3>4. m[1] = 1 /\ m[Len(toNewton) + 1] = 1
      BY <3>2, <3>3
    <3>5. ASSUME NEW i \in 1..Len(toNewton)
          PROVE  toNewton[i].kind # "LT" /\ m[i + 1] = m[i]
      <4>1. i \in 1..Len(toNewton) + 1 /\ i + 1 \in 1..Len(toNewton) + 1
        BY <3>3
      <4> QED
        BY <3>1, <3>2, <3>3, <4>1
    <3>6. Numbered(toNewton, newton.expected, m)
      BY <1>t, <3>1, <3>2, <3>4, <3>5, NumberedIs
    <3> QED
      BY <1>w, <2>1, <2>3, <3>2, <3>4, <3>6 DEF Whole, InOrder
  <2> QED
    BY <2>1, <2>2, <2>3
<1>3. CASE Read \/ ReadThrows \/ SetKeepAlive
  <2>1. UNCHANGED <<outBuffer, written, newton, toNewton, outIndex>>
        /\ phase' \in {phase, "failed"}
    BY <1>3 DEF Read, ReadThrows, SetKeepAlive
  <2> QED
    BY <1>u, <2>1
<1>4. CASE ReceiveAcknowledgement
  <2>1. UNCHANGED <<outBuffer, written, newton, outIndex, phase>>
        /\ (toNewton' = toNewton \/ toNewton' = Append(toNewton, LA(inIndex)))
    BY <1>4 DEF ReceiveAcknowledgement, SendACK, WriteFrame
  <2>2. LA(inIndex) \in Frame /\ LA(inIndex).kind # "LT"
    BY <1>f, <1>t
  <2> QED
    BY <1>a, <1>u, <2>1, <2>2
<1>5. CASE ReceiveData
  <2>1. UNCHANGED <<outBuffer, written, newton, outIndex, phase>>
        /\ toNewton' = Append(toNewton, LA(inIndex')) /\ inIndex' = Head(toLink).index
        /\ toLink # <<>>
    BY <1>5 DEF ReceiveData, SendACK, WriteFrame, ReadFrame
  <2>2. LA(inIndex') \in Frame /\ LA(inIndex').kind # "LT"
    <3>1. inIndex' \in 0..IndexSpan - 1
      BY <2>1, LineParts, LinkTakes
    <3> QED
      BY <1>f, <3>1
  <2> QED
    BY <1>a, <2>1, <2>2
<1>6. CASE Write
  <2>1. PICK count \in 1..MaxBytes - written :
          LET data == outBuffer \o Bytes(written, count)
              sent == Len(data) \div Capacity
          IN  /\ written' = written + count
              /\ toNewton' = toNewton \o FullFrames(data)
              /\ outIndex' = (outIndex + sent) % IndexSpan
              /\ outBuffer' = SubSeq(data, sent * Capacity + 1, Len(data))
    BY <1>6 DEF Write
  <2> DEFINE b == Bytes(written, count)
             data == outBuffer \o b
             sent == Len(data) \div Capacity
             x == sent * Capacity
             first == SubSeq(data, 1, x)
             rest == SubSeq(data, x + 1, Len(data))
             q == FirstFrames(data, sent)
  <2>2. /\ data \in Seq(Byte) /\ sent \in Nat /\ x <= Len(data)
        /\ FullFrames(data) = q
        /\ rest \in Seq(Byte) /\ first \in Seq(Byte) /\ first \o rest = data
    BY WriteBytes
  <2>3. /\ written' = written + count /\ toNewton' = toNewton \o q
        /\ outIndex' = (outIndex + sent) % IndexSpan /\ outBuffer' = rest
    BY <2>1, <2>2
  <2>4. phase = "open" /\ phase' = phase /\ newton' = newton
    BY <1>6 DEF Write
  <2>5. b \in Seq(Byte) /\ Bytes(0, written) \o b = Bytes(0, written')
    <3>1. written \in Nat /\ count \in Nat /\ written + count <= MaxBytes
      <4>1. MaxBytes \in Nat
        BY Constants
      <4> QED
        BY <1>t, <4>1
    <3> QED
      BY <2>3, <3>1, BytesFollow
  <2>6. DataOf({"LT"}, q) = first /\ q \in Seq(Frame)
    <3> HIDE DEF data, sent
    <3> QED
      BY <1>t, <2>2, FirstFramesHold, FirstFramesTyped
  <2>7. DataOf({"LT"}, toNewton') = DataOf({"LT"}, toNewton) \o first
    <3> HIDE DEF q, first
    <3> QED
      BY <1>t, <2>3, <2>6, DataConcat
  <2>d. data = outBuffer \o b
    OBVIOUS
  <2>8. InOrder
    <3>1. number[Len(toNewton) + 1] = outIndex
      BY <1>n, <2>4
    <3> HIDE DEF data, sent, q
    <3>0. /\ toNewton \in Seq(Frame) /\ Numbered(toNewton, newton.expected, number)
          /\ outIndex \in 0..IndexSpan - 1 /\ data \in Seq(Byte) /\ sent \in Nat
          /\ sent * Capacity <= Len(data)
      BY <1>t, <1>n, <2>2
    <3>2. PICK m \in Numbers(toNewton \o q) :
           /\ Numbered(toNewton \o q, newton.expected, m)
           /\ m[Len(toNewton \o q) + 1] = (outIndex + sent) % IndexSpan
      BY <3>0, <3>1, NumberedWrite DEF q
    <3> QED
      BY <2>3, <2>4, <3>2 DEF InOrder
  <2>9. Whole
    <3> DEFINE got == newton.got
               line == DataOf({"LT"}, toNewton)
               buf == outBuffer
    <3>1. got \in Seq(Byte) /\ line \in Seq(Byte) /\ buf \in Seq(Byte) /\ first \in Seq(Byte)
          /\ rest \in Seq(Byte) /\ b \in Seq(Byte)
      BY <1>t, <2>2, <2>5
    <3>2. newton'.got = got /\ DataOf({"LT"}, toNewton') = line \o first /\ outBuffer' = rest
      BY <2>3, <2>4, <2>7
    <3>3. (got \o line) \o buf = Bytes(0, written)
      BY <1>w
    <3>4. first \o rest = buf \o b
      BY <2>2, <2>d
    <3> HIDE DEF got, line, buf, first, rest, b
    <3>5. (got \o (line \o first)) \o rest = (got \o line) \o (first \o rest)
      <4>1. (got \o line) \o first = got \o (line \o first)
        <5>1. got \in Seq(Byte) /\ line \in Seq(Byte) /\ first \in Seq(Byte)
          BY <3>1
        <5> QED
          BY <5>1, Regroup
      <4>2. got \o line \in Seq(Byte)
        BY <3>1, Joined
      <4>3. ((got \o line) \o first) \o rest = (got \o line) \o (first \o rest)
        <5>1. got \o line \in Seq(Byte) /\ first \in Seq(Byte) /\ rest \in Seq(Byte)
          BY <3>1, <4>2
        <5> QED
          BY <5>1, Regroup
      <4> QED
        BY <4>1, <4>3
    <3>6. ((got \o line) \o buf) \o b = (got \o line) \o (buf \o b)
      <4>1. got \o line \in Seq(Byte)
        BY <3>1, Joined
      <4>2. got \o line \in Seq(Byte) /\ buf \in Seq(Byte) /\ b \in Seq(Byte)
        BY <3>1, <4>1
      <4> QED
        BY <4>2, Regroup
    <3> QED
      BY <2>5, <3>2, <3>3, <3>4, <3>5, <3>6 DEF Whole
  <2> QED
    BY <2>8, <2>9
<1>7. CASE FlushOutput
  <2> DEFINE f == LT(outIndex, outBuffer)
  <2>1. /\ phase = "open" /\ toNewton' = Append(toNewton, f)
        /\ outIndex' = Next1(outIndex) /\ outBuffer' = <<>>
        /\ UNCHANGED <<phase, written, newton>>
    BY <1>7 DEF FlushOutput, WriteFrame
  <2>2. f \in Frame /\ f.kind = "LT" /\ f.index = outIndex /\ f.data = outBuffer
    BY <1>t, FramesTyped, FrameFields
  <2> HIDE DEF f
  <2>3. DataOf({"LT"}, toNewton') = DataOf({"LT"}, toNewton) \o outBuffer
    BY <1>t, <2>1, <2>2, DataAppend DEF Chunk
  <2>4. number[Len(toNewton) + 1] = outIndex
    BY <1>n, <2>1
  <2>5. PICK m \in Numbers(toNewton') :
           /\ Numbered(toNewton', newton.expected, m)
           /\ m[Len(toNewton') + 1] = Next1(outIndex)
    BY <1>n, <1>t, <2>1, <2>2, <2>4, NumberedAppend
  <2>6. Whole
    <3> DEFINE g == newton.got
               l == DataOf({"LT"}, toNewton)
               o == outBuffer
    <3>1. g \in Seq(Byte) /\ l \in Seq(Byte) /\ o \in Seq(Byte)
      BY <1>t
    <3>2. newton'.got = g /\ DataOf({"LT"}, toNewton') = l \o o /\ outBuffer' = <<>>
          /\ written' = written
      BY <2>1, <2>3
    <3>3. (g \o l) \o o = Bytes(0, written)
      BY <1>w
    <3> HIDE DEF g, l, o
    <3>4. (g \o (l \o o)) \o <<>> = (g \o l) \o o
      BY <3>1, Exchange
    <3> QED
      BY <3>2, <3>3, <3>4 DEF Whole
  <2>7. InOrder
    BY <2>1, <2>5 DEF InOrder
  <2> QED
    BY <2>6, <2>7
<1>8. CASE Disconnect
  <2>1. /\ phase = "open" /\ toNewton' = Append(toNewton, LD)
        /\ UNCHANGED <<outBuffer, outIndex, written, newton>>
    BY <1>8 DEF Disconnect, WriteFrame
  <2> QED
    BY <1>a, <1>f, <2>1
<1>9. CASE NewtonRequests \/ NewtonSends \/ NewtonRepeats \/ NewtonHangsUp
  <2>1. UNCHANGED <<outBuffer, outIndex, written, toNewton, phase>>
    BY <1>9, Zenon DEF NewtonRequests, NewtonSends, NewtonRepeats, NewtonHangsUp
  <2>2. newton'.got = newton.got /\ newton'.expected = newton.expected
    <3>1. CASE NewtonRequests \/ NewtonRepeats \/ NewtonHangsUp
      BY <1>t, <3>1 DEF NewtonRequests, NewtonRepeats, NewtonHangsUp, NewtonState
    <3>2. CASE NewtonSends
      <4>1. PICK count : newton' = [newton EXCEPT !.sent = @ + count, !.index = Next1(@),
                           !.pending = Append(@, LT(newton.index, Bytes(newton.sent, count)))]
        BY <3>2 DEF NewtonSends
      <4> QED
        BY <1>t, <4>1 DEF NewtonState
    <3> QED
      BY <1>9, <3>1, <3>2
  <2> QED
    BY <1>u, <2>1, <2>2
<1>10. CASE NewtonReceives
  <2> DEFINE frame == Head(toNewton)
             inOrder == frame.kind = "LT" /\ frame.index = newton.expected
  <2>1. /\ toNewton # <<>> /\ toNewton' = Tail(toNewton)
        /\ UNCHANGED <<outBuffer, outIndex, written, phase>>
    BY <1>10 DEF NewtonReceives
  <2>2. frame \in Frame /\ frame.kind # "bad" /\ frame.data \in Seq(Byte)
    BY <1>d, <2>1, LineParts, NewtonTakes
  <2>3. DataOf({"LT"}, toNewton)
          = (IF frame.kind = "LT" THEN frame.data ELSE <<>>) \o DataOf({"LT"}, toNewton')
    BY <1>t, <2>1, DataTail DEF Chunk
  <2>4. /\ frame.kind = "LT" => frame.index = newton.expected
        /\ \E m \in Numbers(toNewton') :
             /\ Numbered(toNewton', IF frame.kind = "LT" THEN Next1(newton.expected)
                                    ELSE newton.expected, m)
             /\ m[Len(toNewton') + 1] = number[Len(toNewton) + 1]
    BY <1>t, <1>n, <2>1, NumberedTail
  <2>5. \/ /\ frame.kind # "LT"
           /\ \/ newton' = [newton EXCEPT !.phase = "up"]
              \/ newton' = [newton EXCEPT !.pending = Acknowledged(@, frame.index)]
              \/ newton' = [newton EXCEPT !.phase = "gone"]
        \/ /\ frame.kind = "LT"
           /\ newton' = [newton EXCEPT !.got = @ \o frame.data, !.expected = Next1(@)]
    <3>1. \/ frame.kind = "LR" /\ newton' = [newton EXCEPT !.phase = "up"]
          \/ /\ frame.kind = "LA"
             /\ newton' = [newton EXCEPT !.pending = Acknowledged(@, frame.index)]
          \/ inOrder /\ newton' = [newton EXCEPT !.got = @ \o frame.data, !.expected = Next1(@)]
          \/ frame.kind = "LD" /\ newton' = [newton EXCEPT !.phase = "gone"]
          \/ frame.kind = "bad" \/ (frame.kind = "LT" /\ ~inOrder)
      BY <1>10 DEF NewtonReceives
    <3>2. frame.kind = "LT" => inOrder
      BY <2>4
    <3> HIDE DEF frame
    <3> QED
      BY <2>2, <3>1, <3>2
  <2> HIDE DEF frame
  <2>6. DataOf({"LT"}, toNewton') \in Seq(Byte)
    <3>1. toNewton' \in Seq(Frame)
      BY <1>t, <2>1, HeadAndRest
    <3> QED
      BY <3>1, DataTyped
  <2> DEFINE g == newton.got
             l == DataOf({"LT"}, toNewton')
             d == frame.data
             o == outBuffer
  <2>7. g \in Seq(Byte) /\ l \in Seq(Byte) /\ d \in Seq(Byte) /\ o \in Seq(Byte)
    BY <1>t, <2>2, <2>6
  <2>8. CASE frame.kind # "LT"
    <3>1. newton'.got = newton.got /\ newton'.expected = newton.expected
      BY <1>t, <2>5, <2>8 DEF NewtonState
    <3>2. DataOf({"LT"}, toNewton) = l
      <4>1. DataOf({"LT"}, toNewton) = <<>> \o l
        BY <2>3, <2>8
      <4> HIDE DEF l
      <4> QED
        BY <2>7, <4>1, Joined
    <3>3. Whole
      BY <1>w, <2>1, <3>1, <3>2 DEF Whole
    <3>4. InOrder
      BY <1>n, <2>1, <2>4, <2>8, <3>1 DEF InOrder
    <3> QED
      BY <3>3, <3>4
  <2>9. CASE frame.kind = "LT"
    <3>1. newton'.got = g \o d /\ newton'.expected = Next1(newton.expected)
      BY <1>t, <2>5, <2>9 DEF NewtonState
    <3>2. DataOf({"LT"}, toNewton) = d \o l
      BY <2>3, <2>9
    <3>3. (g \o (d \o l)) \o o = Bytes(0, written)
      BY <1>w, <3>2
    <3>4. Whole
      <4> HIDE DEF g, l, d, o
      <4>1. (g \o d) \o l = g \o (d \o l)
        BY <2>7, Regroup
      <4>2. newton'.got \o DataOf({"LT"}, toNewton') \o outBuffer' = ((g \o d) \o l) \o o
        BY <2>1, <3>1 DEF l, o
      <4>3. written' = written
        BY <2>1
      <4> QED
        BY <3>3, <4>1, <4>2, <4>3 DEF Whole
    <3>5. InOrder
      BY <1>n, <2>1, <2>4, <2>9, <3>1 DEF InOrder
    <3> QED
      BY <3>4, <3>5
  <2> QED
    BY <2>8, <2>9
<1>11. CASE LineDamages
  <2>1. damages' = damages + 1
    BY <1>11 DEF LineDamages
  <2> QED
    BY <1>d, <2>1
<1>12. CASE UNCHANGED vars
  BY <1>12, <1>u DEF vars
<1> QED
  BY <1>1, <1>2, <1>3, <1>4, <1>5, <1>6, <1>7, <1>8, <1>9, <1>10, <1>11, <1>12
  DEF MNPNext, Connecting, Reading, Writing, NewtonSide

-----------------------------------------------------------------------------
(* The two streams.                                                        *)

\* The streams begin empty.
LEMMA StreamStarts ==
  ASSUME MNPInit
  PROVE  StreamIInv
<1>1. LineIInv
  <2>1. newton \in NewtonState
    <3>1. 1 \in 0..IndexSpan - 1 /\ 0 \in 0..MaxBytes /\ <<>> \in Seq(Frame)
          /\ <<>> \in Seq(0..MaxBytes)
      BY Constants
    <3> QED
      BY <3>1 DEF MNPInit, NewtonState
  <2>2. MNPIInv
    <3>1. /\ <<>> \in Seq(0..MaxBytes) /\ <<>> \in Seq(1..MaxBytes) /\ <<>> \in Seq(Frame)
          /\ Len(<<>>) < Capacity /\ 0 \in 0..IndexSpan - 1 /\ 0 \in 0..CommandSize
          /\ 0 \in 0..MaxBytes /\ ~ (0 > 0)
      BY Constants
    <3>2. /\ phase = "connecting" /\ inBuffer = <<>> /\ inIndex = 0 /\ outBuffer = <<>>
          /\ outIndex = 0 /\ keepAlive = FALSE /\ left = 0 /\ delivered = <<>> /\ written = 0
          /\ toLink = <<>> /\ toNewton = <<>> /\ skipped = FALSE
      BY DEF MNPInit
    <3> QED
      BY <3>1, <3>2 DEF MNPIInv
  <2>3. newton.pending = <<>> /\ toLink = <<>> /\ toNewton = <<>> /\ repeats = 0 /\ damages = 0
        /\ phase = "connecting" /\ skipped = FALSE
    BY DEF MNPInit
  <2> QED
    BY <2>1, <2>2, <2>3 DEF LineIInv
<1>2. HandshakeIsFirst
  BY DEF MNPInit, HandshakeIsFirst
<1>3. Bytes(0, 0) = <<>>
  BY DEF Bytes
<1>4. <<>> \o <<>> = <<>>
  OBVIOUS
<1>5. InStream
  <2>1. delivered = <<>> /\ inBuffer = <<>> /\ toLink = <<>> /\ newton.sent = 0
    BY DEF MNPInit
  <2>2. Flow = <<>>
    BY <1>4, <2>1, DataEmpty DEF Flow
  <2> QED
    BY <1>3, <2>1, <2>2, InStreamIs
<1>6. DeliveredInOrder
  BY DEF MNPInit, DeliveredInOrder
<1>7. OutStream
  <2>1. /\ toNewton = <<>> /\ outBuffer = <<>> /\ written = 0 /\ newton.got = <<>>
        /\ newton.expected = 1 /\ phase = "connecting"
    BY DEF MNPInit
  <2>2. newton.got \o DataOf({"LT"}, toNewton) \o outBuffer = Bytes(0, written)
    BY <1>3, <1>4, <2>1, DataEmpty
  <2> DEFINE m == [i \in 1..Len(toNewton) + 1 |-> 1]
  <2>3. m \in Numbers(toNewton) /\ m[1] = 1
    BY <2>1, Constants DEF Numbers
  <2>4. Numbered(toNewton, newton.expected, m)
    BY <2>1, <2>3 DEF Numbered, Numbers
  <2> HIDE DEF m
  <2> QED
    BY <2>1, <2>2, <2>3, <2>4, OutStreamIs
<1> QED
  BY <1>1, <1>2, <1>5, <1>6, <1>7 DEF StreamIInv

\* StreamIInv is inductive.
LEMMA StepStream ==
  ASSUME StreamIInv, [MNPNext]_vars
  PROVE  StreamIInv'
<1>1. LineIInv'
  BY StepLine DEF StreamIInv
<1>2. HandshakeIsFirst'
  BY StepHandshake DEF StreamIInv
<1>3. InStream'
  BY StepIn DEF StreamIInv
<1>4. DeliveredInOrder'
  BY <1>1, <1>3, StepDelivered DEF StreamIInv
<1>5. OutStream'
  BY StepOut DEF StreamIInv
<1> QED
  BY <1>1, <1>2, <1>3, <1>4, <1>5 DEF StreamIInv

\* It implies what the runs check.
LEMMA WholeStreams ==
  ASSUME StreamIInv
  PROVE  BothStreams
<1>i. LineIInv /\ InStream /\ DeliveredInOrder /\ OutStream
  BY DEF StreamIInv
<1>1. MNPIInv
  BY <1>i DEF LineIInv
<1>2. ASSUME repeats = 0, damages = 0
      PROVE  IsPrefix(Bytes(0, newton.sent), delivered \o inBuffer \o DataOf({"LT", "LD"}, toLink))
  <2>1. /\ ~skipped /\ phase # "failed" /\ toLink \in Seq(Frame)
        /\ \A i \in DOMAIN toLink : toLink[i].kind # "bad"
        /\ \A i \in DOMAIN toLink : toLink[i].kind \in {"LR", "LA"} => toLink[i].data = <<>>
    BY <1>2, <1>i, Typed DEF LineIInv
  <2>2. ASSUME NEW i \in 1..Len(toLink)
        PROVE  Chunk(Kinds, toLink[i]) = Chunk({"LT", "LD"}, toLink[i])
    <3>1. i \in DOMAIN toLink /\ toLink[i] \in Frame
      BY <2>1, <2>2
    <3>2. toLink[i].kind \in Kinds /\ toLink[i].kind # "bad"
          /\ (toLink[i].kind \in {"LR", "LA"} => toLink[i].data = <<>>)
      BY <2>1, <3>1 DEF Frame
    <3> QED
      BY <3>2 DEF Chunk, Kinds
  <2>3. DataOf(Kinds, toLink) = DataOf({"LT", "LD"}, toLink)
    BY <2>1, <2>2, DataSame
  <2>4. \/ Flow = Bytes(0, newton.sent)
        \/ Flow = Append(Bytes(0, newton.sent), 0)
    BY <1>2, <1>i, <2>1, InStreamIs
  <2>5. newton.sent \in Nat /\ 0 \in Nat /\ newton.sent + 0 <= MaxBytes
    <3>1. newton.sent \in 0..MaxBytes /\ MaxBytes \in Nat
      BY <1>i, Typed, Constants
    <3> QED
      BY <3>1
  <2> DEFINE b == Bytes(0, newton.sent)
  <2>6. b \in Seq(Byte) /\ 0 \in Byte
    <3>1. b \in Seq(Byte)
      BY <2>5, BytesFollow
    <3>2. 0 \in Byte
      BY Constants DEF Byte
    <3> QED
      BY <3>1, <3>2
  <2> HIDE DEF b
  <2>7. IsPrefix(b, b) /\ IsPrefix(b, Append(b, 0))
    <3>1. Append(b, 0) \in Seq(Byte) /\ Len(Append(b, 0)) = Len(b) + 1 /\ Len(b) \in Nat
          /\ \A i \in 1..Len(b) : Append(b, 0)[i] = b[i]
      BY <2>6, AppendProperties
    <3> DEFINE c == Append(b, 0)
               d == SubSeq(c, 1, Len(b))
    <3>2. \A i \in 1..Len(b) : c[i] \in Byte
      BY <2>6, <3>1
    <3> HIDE DEF c
    <3>3. d \in Seq(Byte) /\ Len(d) = Len(b) /\ \A i \in 1..Len(b) : d[i] = c[i]
      <4>1. /\ d \in Seq(Byte)
            /\ Len(d) = IF 1 <= Len(b) THEN Len(b) - 1 + 1 ELSE 0
            /\ \A i \in 1..Len(b) - 1 + 1 : d[i] = c[1 + i - 1]
        BY <3>1, <3>2, SubSeqProperties
      <4>2. Len(d) = Len(b) /\ Len(b) - 1 + 1 = Len(b)
        BY <3>1, <4>1
      <4>3. \A i \in 1..Len(b) : 1 + i - 1 = i
        BY <3>1
      <4> QED
        BY <4>1, <4>2, <4>3
    <3> HIDE DEF d
    <3>4. d = b
      BY <2>6, <3>1, <3>3, SeqEqual DEF c
    <3>5. SubSeq(b, 1, Len(b)) = b
      BY <2>6
    <3> QED
      BY <3>1, <3>4, <3>5 DEF IsPrefix, c, d
  <2> QED
    BY <2>3, <2>4, <2>7 DEF Flow, b
<1>3. damages = 0 => newton.got \o DataOf({"LT"}, toNewton) \o outBuffer = Bytes(0, written)
  BY <1>i, OutStreamIs
<1> QED
  BY <1>1, <1>2, <1>3, <1>i DEF BothStreams

(* BothStreams: what the link reads is what the Newton sent, in order and  *)
(* once, and what the Newton gets is what the link wrote, as long as the   *)
(* line damaged nothing and, towards the link, the Newton repeated         *)
(* nothing.                                                                *)
THEOREM Streams == MNPSpec => []BothStreams
<1>1. MNPInit => StreamIInv
  BY StreamStarts
<1>2. StreamIInv /\ [MNPNext]_vars => StreamIInv'
  BY StepStream
<1>3. StreamIInv => BothStreams
  BY WholeStreams
<1> QED
  BY <1>1, <1>2, <1>3, PTL DEF MNPSpec

-----------------------------------------------------------------------------
(* Acknowledgements.  A number names the frame that was given it last, so  *)
(* its age, counted from the number the next frame will have, tells which. *)

LEMMA SmallMod ==
  ASSUME NEW n \in Nat \ {0}, NEW a \in -n..n - 1
  PROVE  a % n = IF a < 0 THEN a + n ELSE a
OBVIOUS

LEMMA AgeIs ==
  ASSUME NEW n \in 0..IndexSpan - 1, NEW k \in 0..IndexSpan - 1
  PROVE  Age(n, k) = IF k < n THEN n - k ELSE n - k + IndexSpan
<1>1. IndexSpan \in Nat \ {0} /\ n - 1 - k \in -IndexSpan..IndexSpan - 1
  BY Constants
<1>2. (n - 1 - k) % IndexSpan = IF n - 1 - k < 0 THEN n - 1 - k + IndexSpan ELSE n - 1 - k
  BY <1>1, SmallMod
<1> QED
  BY <1>1, <1>2 DEF Age

LEMMA AgeTyped ==
  ASSUME NEW n \in 0..IndexSpan - 1, NEW k \in 0..IndexSpan - 1
  PROVE  Age(n, k) \in 1..IndexSpan
BY AgeIs, Constants

\* With the next number all become one older, and none comes back.
LEMMA AgeNext ==
  ASSUME NEW n \in 0..IndexSpan - 1
  PROVE  /\ Age(Next1(n), n) = 1 /\ Next1(n) \in 0..IndexSpan - 1
         /\ \A k \in 0..IndexSpan - 1 :
              Age(n, k) < IndexSpan => Age(Next1(n), k) = Age(n, k) + 1
<1>1. IndexSpan \in Nat \ {0} /\ 1 < IndexSpan
  BY Constants
<1>2. Next1(n) = IF n + 1 = IndexSpan THEN 0 ELSE n + 1
  <2>1. CASE n + 1 = IndexSpan
    BY <1>1, <2>1 DEF Next1
  <2>2. CASE n + 1 # IndexSpan
    <3>1. n + 1 \in -IndexSpan..IndexSpan - 1
      BY <1>1, <2>2
    <3> QED
      BY <1>1, <2>2, <3>1, SmallMod DEF Next1
  <2> QED
    BY <2>1, <2>2
<1>3. Next1(n) \in 0..IndexSpan - 1
  BY <1>1, <1>2
<1>4. Age(Next1(n), n) = 1
  BY <1>1, <1>2, <1>3, AgeIs
<1>5. ASSUME NEW k \in 0..IndexSpan - 1, Age(n, k) < IndexSpan
      PROVE  Age(Next1(n), k) = Age(n, k) + 1
  BY <1>1, <1>2, <1>3, <1>5, AgeIs
<1> QED
  BY <1>3, <1>4, <1>5

LEMMA RangeConcat ==
  ASSUME NEW S, NEW s \in Seq(S), NEW t \in Seq(S)
  PROVE  Range(s \o t) = Range(s) \cup Range(t)
<1> DEFINE r == s \o t
<1>1. /\ r \in Seq(S) /\ Len(r) = Len(s) + Len(t)
      /\ \A i \in 1..Len(s) + Len(t) : r[i] = IF i <= Len(s) THEN s[i] ELSE t[i - Len(s)]
  BY ConcatProperties
<1>2. /\ DOMAIN s = 1..Len(s) /\ DOMAIN t = 1..Len(t) /\ DOMAIN r = 1..Len(s) + Len(t)
      /\ Len(s) \in Nat /\ Len(t) \in Nat
  BY <1>1, LenProperties
<1> HIDE DEF r
<1>3. ASSUME NEW i \in DOMAIN r PROVE r[i] \in Range(s) \cup Range(t)
  <2>1. CASE i <= Len(s)
    BY <1>1, <1>2, <1>3, <2>1 DEF Range
  <2>2. CASE ~ (i <= Len(s))
    <3>1. i - Len(s) \in DOMAIN t /\ r[i] = t[i - Len(s)]
      BY <1>1, <1>2, <1>3, <2>2
    <3> QED
      BY <3>1 DEF Range
  <2> QED
    BY <2>1, <2>2
<1>4. ASSUME NEW i \in DOMAIN s PROVE s[i] \in Range(r)
  <2>1. i \in DOMAIN r /\ r[i] = s[i]
    BY <1>1, <1>2, <1>4
  <2> QED
    BY <2>1 DEF Range
<1>5. ASSUME NEW i \in DOMAIN t PROVE t[i] \in Range(r)
  <2>1. i + Len(s) \in DOMAIN r /\ r[i + Len(s)] = t[i]
    BY <1>1, <1>2, <1>5
  <2> QED
    BY <2>1 DEF Range
<1>6. Range(r) \subseteq Range(s) \cup Range(t)
  BY <1>3 DEF Range
<1>7. Range(s) \subseteq Range(r) /\ Range(t) \subseteq Range(r)
  BY <1>4, <1>5 DEF Range
<1> QED
  BY <1>6, <1>7 DEF r

\* What the three parts say, while the Newton is there.
LEMMA PartsUp ==
  ASSUME LineIInv, newton.phase = "up", Window, InSequence, Confirmed
  PROVE  /\ Len(newton.pending) <= Credits /\ Len(newton.pending) \in Nat
         /\ newton.index \in 0..IndexSpan - 1 /\ inIndex \in 0..IndexSpan - 1
         /\ DOMAIN newton.pending = 1..Len(newton.pending)
         /\ \A i \in DOMAIN newton.pending :
              /\ newton.pending[i] \in Frame /\ newton.pending[i].data # <<>>
              /\ Age(newton.index, newton.pending[i].index) = Len(newton.pending) - i + 1
         /\ \A i \in Carrying : /\ i \in 1..Len(toLink) /\ toLink[i].index \in 0..IndexSpan - 1
                                /\ InWindow(toLink[i].index)
         /\ Heard => InWindow(inIndex)
         /\ \A i \in Acks : /\ i \in 1..Len(toNewton) /\ toNewton[i].index \in 0..IndexSpan - 1
                            /\ InWindow(toNewton[i].index)
         /\ \A i, j \in Acks : i < j => Follows(toNewton[i].index, toNewton[j].index)
         /\ Heard => /\ \A i \in Acks : Follows(toNewton[i].index, inIndex)
                     /\ \A j \in Carrying : Follows(inIndex, toLink[j].index)
         /\ \A i \in Acks, j \in Carrying : Follows(toNewton[i].index, toLink[j].index)
         /\ \A i, j \in Carrying : i < j => Follows(toLink[i].index, toLink[j].index)
         /\ ~skipped =>
              /\ \A i \in Acks : Confirms(toNewton[i].index, Received)
              /\ Heard => Confirms(inIndex, Received)
              /\ phase # "failed" =>
                   /\ \A i \in Carrying : Confirms(toLink[i].index, Received \cup Carried(i))
                   /\ \A i \in DOMAIN newton.pending :
                        Range(newton.pending[i].data) \subseteq Received \cup Carried(Len(toLink))
<1>1. /\ toLink \in Seq(Frame) /\ toNewton \in Seq(Frame) /\ newton.pending \in Seq(Frame)
      /\ newton.index \in 0..IndexSpan - 1 /\ inIndex \in 0..IndexSpan - 1
  BY Typed
<1>f. \A f \in Frame : f.index \in 0..IndexSpan - 1
  BY DEF Frame
<1>2. \A i \in Carrying : i \in 1..Len(toLink) /\ toLink[i].index \in 0..IndexSpan - 1
  <2>1. ASSUME NEW i \in Carrying PROVE i \in 1..Len(toLink) /\ toLink[i] \in Frame
    BY <1>1 DEF Carrying
  <2> QED
    BY <1>f, <2>1
<1>3. \A i \in Acks : i \in 1..Len(toNewton) /\ toNewton[i].index \in 0..IndexSpan - 1
  <2>1. ASSUME NEW i \in Acks PROVE i \in 1..Len(toNewton) /\ toNewton[i] \in Frame
    BY <1>1 DEF Acks
  <2> QED
    BY <1>f, <2>1
<1>4. /\ DOMAIN newton.pending = 1..Len(newton.pending) /\ Len(newton.pending) \in Nat
      /\ \A i \in DOMAIN newton.pending : newton.pending[i] \in Frame
  BY <1>1
<1>5. /\ Len(newton.pending) <= Credits
      /\ \A i \in DOMAIN newton.pending :
           /\ newton.pending[i].data # <<>>
           /\ Age(newton.index, newton.pending[i].index) = Len(newton.pending) - i + 1
      /\ \A i \in Carrying : InWindow(toLink[i].index)
      /\ Heard => InWindow(inIndex)
      /\ \A i \in Acks : InWindow(toNewton[i].index)
  BY DEF Window
<1> QED
  BY <1>1, <1>2, <1>3, <1>4, <1>5 DEF InSequence, Confirmed

\* A step that does not change what the Newton keeps: frames are read (s of them), and
\* acknowledgements taken (u of them); what joins the line towards the link has no
\* bytes, and what joins the other is no acknowledgement but of the number that the
\* pipe has.
LEMMA Moves ==
  ASSUME LineIInv, Window, InSequence, Confirmed, NEW s \in {0, 1}, NEW u \in {0, 1},
         toLink' \in Seq(Frame), toNewton' \in Seq(Frame),
         newton.phase = "up", newton'.index = newton.index, newton'.pending = newton.pending,
         Len(toLink) <= Len(toLink') + s, s = 1 => toLink # <<>>,
         \A i \in DOMAIN toLink' :
           IF i + s \in DOMAIN toLink
           THEN toLink'[i].data = toLink[i + s].data /\ toLink'[i].index = toLink[i + s].index
           ELSE toLink'[i].data = <<>>,
         \A i \in Acks' : \/ i + u \in Acks /\ toNewton'[i].index = toNewton[i + u].index
                          \/ Heard' /\ toNewton'[i].index = inIndex' /\ \A j \in Acks' : j <= i,
         Heard' => \/ Heard /\ inIndex' = inIndex
                   \/ /\ s = 1 /\ 1 \in Carrying /\ inIndex' = toLink[1].index
                      /\ ~skipped' => phase # "failed" /\ Range(toLink[1].data) \subseteq Received',
         keepAlive' => Heard',
         Received \subseteq Received',
         ~skipped' => ~skipped,
         ~skipped' /\ phase' # "failed" =>
           phase # "failed" /\ (s = 1 => Range(toLink[1].data) \subseteq Received')
  PROVE  Window' /\ InSequence' /\ Confirmed'
<1> DEFINE p == newton.pending
           n == newton.index
           K(q) == UNION {Range(toLink'[i].data) : i \in 1..q}
<1>c. Credits \in Nat \ {0}
  BY Constants
<1>t. toLink \in Seq(Frame) /\ Len(toLink) \in Nat /\ DOMAIN toLink = 1..Len(toLink)
      /\ Len(toLink') \in Nat /\ DOMAIN toLink' = 1..Len(toLink')
      /\ DOMAIN toNewton' = 1..Len(toNewton') /\ Len(toNewton') \in Nat
  <2>1. toLink \in Seq(Frame)
    BY Typed
  <2> QED
    BY <2>1
<1>p. /\ Len(p) <= Credits
      /\ \A i \in DOMAIN p : p[i].data # <<>> /\ Age(n, p[i].index) = Len(p) - i + 1
      /\ \A i \in Carrying : InWindow(toLink[i].index)
      /\ Heard => InWindow(inIndex)
      /\ \A i \in Acks : InWindow(toNewton[i].index)
  BY PartsUp
<1>q. /\ \A i, j \in Acks : i < j => Follows(toNewton[i].index, toNewton[j].index)
      /\ Heard => /\ \A i \in Acks : Follows(toNewton[i].index, inIndex)
                  /\ \A j \in Carrying : Follows(inIndex, toLink[j].index)
      /\ \A i \in Acks, j \in Carrying : Follows(toNewton[i].index, toLink[j].index)
      /\ \A i, j \in Carrying : i < j => Follows(toLink[i].index, toLink[j].index)
  BY PartsUp
<1>r. ~skipped =>
        /\ \A i \in Acks : Confirms(toNewton[i].index, Received)
        /\ Heard => Confirms(inIndex, Received)
        /\ phase # "failed" =>
             /\ \A i \in Carrying : Confirms(toLink[i].index, Received \cup Carried(i))
             /\ \A i \in DOMAIN p : Range(p[i].data) \subseteq Received \cup Carried(Len(toLink))
  BY PartsUp
<1>1. ASSUME NEW i \in Carrying'
      PROVE  /\ i \in DOMAIN toLink' /\ i + s \in Carrying
             /\ toLink'[i].index = toLink[i + s].index
  <2>1. i \in DOMAIN toLink' /\ toLink'[i].data # <<>>
    BY <1>1 DEF Carrying
  <2> QED
    BY <2>1 DEF Carrying
<1>2. /\ \A x : InWindow(x)' <=> InWindow(x)
      /\ \A x, y : Follows(x, y)' <=> Follows(x, y)
      /\ \A x, B : Confirms(x, B)' <=> Confirms(x, B)
  BY DEF InWindow, Follows, Confirms
<1>3. Heard' => InWindow(inIndex')
  BY <1>p
<1>4. Window'
  <2>1. \A i \in Carrying' : InWindow(toLink'[i].index)
    BY <1>p, <1>1
  <2>2. \A i \in Acks' : InWindow(toNewton'[i].index)
    BY <1>p, <1>3
  <2> QED
    BY <1>p, <1>2, <1>3, <2>1, <2>2 DEF Window
<1>5. ASSUME Heard'
      PROVE  /\ \A i \in Acks : Follows(toNewton[i].index, inIndex')
             /\ \A j \in Carrying' : Follows(inIndex', toLink'[j].index)
  <2>1. CASE Heard /\ inIndex' = inIndex
    BY <1>q, <1>1, <2>1
  <2>2. CASE s = 1 /\ 1 \in Carrying /\ inIndex' = toLink[1].index
    <3>1. ASSUME NEW j \in Carrying' PROVE Follows(inIndex', toLink'[j].index)
      <4>1. j + 1 \in Carrying /\ 1 < j + 1 /\ toLink'[j].index = toLink[j + 1].index
        BY <1>t, <1>1, <2>2
      <4> QED
        BY <1>q, <2>2, <4>1
    <3> QED
      BY <1>q, <2>2, <3>1
  <2> QED
    BY <1>5, <2>1, <2>2
<1>6. InSequence'
  <2>1. ASSUME NEW i \in Acks', NEW j \in Acks', i < j
        PROVE  Follows(toNewton'[i].index, toNewton'[j].index)
    <3>0. i \in Int /\ j \in Int
      BY <1>t, <2>1 DEF Acks
    <3>1. i + u \in Acks /\ toNewton'[i].index = toNewton[i + u].index
      BY <2>1, <3>0
    <3>2. CASE j + u \in Acks /\ toNewton'[j].index = toNewton[j + u].index
      <4>1. i + u < j + u
        BY <2>1, <3>0
      <4> QED
        BY <1>q, <3>1, <3>2, <4>1
    <3>3. CASE Heard' /\ toNewton'[j].index = inIndex'
      BY <1>5, <3>1, <3>3
    <3> QED
      BY <3>2, <3>3
  <2>2. ASSUME Heard', NEW i \in Acks' PROVE Follows(toNewton'[i].index, inIndex')
    <3>1. CASE i + u \in Acks /\ toNewton'[i].index = toNewton[i + u].index
      BY <1>5, <2>2, <3>1
    <3>2. CASE toNewton'[i].index = inIndex'
      <4>1. inIndex' \in 0..IndexSpan - 1 /\ n \in 0..IndexSpan - 1
        BY <2>2, PartsUp
      <4>2. Age(n, inIndex') < Age(n, inIndex') + Credits
        BY <1>c, <4>1, AgeTyped
      <4> QED
        BY <3>2, <4>2 DEF Follows
    <3> QED
      BY <3>1, <3>2
  <2>3. ASSUME NEW i \in Acks', NEW j \in Carrying'
        PROVE  Follows(toNewton'[i].index, toLink'[j].index)
    <3>1. CASE i + u \in Acks /\ toNewton'[i].index = toNewton[i + u].index
      BY <1>q, <1>1, <3>1
    <3>2. CASE Heard' /\ toNewton'[i].index = inIndex'
      BY <1>5, <3>2
    <3> QED
      BY <3>1, <3>2
  <2>4. ASSUME NEW i \in Carrying', NEW j \in Carrying', i < j
        PROVE  Follows(toLink'[i].index, toLink'[j].index)
    <3>1. /\ i + s \in Carrying /\ j + s \in Carrying
          /\ toLink'[i].index = toLink[i + s].index /\ toLink'[j].index = toLink[j + s].index
          /\ i \in 1..Len(toLink') /\ j \in 1..Len(toLink')
      BY <1>1, <1>t
    <3>2. i + s < j + s
      BY <1>t, <2>4, <3>1
    <3> QED
      BY <1>q, <3>1, <3>2
  <2>5. /\ \A i, j \in Acks' : i < j => Follows(toNewton'[i].index, toNewton'[j].index)
        /\ Heard' => /\ \A i \in Acks' : Follows(toNewton'[i].index, inIndex')
                     /\ \A j \in Carrying' : Follows(inIndex', toLink'[j].index)
        /\ \A i \in Acks', j \in Carrying' : Follows(toNewton'[i].index, toLink'[j].index)
        /\ \A i, j \in Carrying' : i < j => Follows(toLink'[i].index, toLink'[j].index)
    BY <1>5, <2>1, <2>2, <2>3, <2>4
  <2> QED
    BY <1>2, <2>5 DEF InSequence
<1>7. ASSUME ~skipped', phase' # "failed",
             NEW q \in 0..Len(toLink'), NEW c \in 0..Len(toLink), c <= q + s
      PROVE  Carried(c) \subseteq Received' \cup K(q)
  <2>1. ASSUME NEW i \in 1..c PROVE Range(toLink[i].data) \subseteq Received' \cup K(q)
    <3>1. CASE s = 1 /\ i = 1
      BY <1>7, <3>1
    <3>2. CASE ~ (s = 1 /\ i = 1)
      <4>1. i - s \in 1..q /\ i - s \in DOMAIN toLink' /\ i \in DOMAIN toLink /\ (i - s) + s = i
        BY <1>t, <1>7, <2>1, <3>2
      <4>2. toLink'[i - s].data = toLink[i].data
        BY <4>1
      <4> QED
        BY <4>1, <4>2 DEF Carried
    <3> QED
      BY <3>1, <3>2
  <2> QED
    BY <2>1 DEF Carried
<1>8. ASSUME NEW x, NEW B, NEW C, Confirms(x, B), B \subseteq C
      PROVE  Confirms(x, C)
  BY <1>8 DEF Confirms
<1>9. ASSUME ~skipped', Heard' PROVE Confirms(inIndex', Received')
  <2>1. CASE Heard /\ inIndex' = inIndex
    BY <1>9, <1>r, <1>8, <2>1
  <2>2. CASE s = 1 /\ 1 \in Carrying /\ inIndex' = toLink[1].index
               /\ phase # "failed" /\ Range(toLink[1].data) \subseteq Received'
    <3>1. Confirms(inIndex', Received \cup Carried(1))
      BY <1>9, <1>r, <2>2
    <3>2. Carried(1) = Range(toLink[1].data)
      BY DEF Carried
    <3>3. Received \cup Carried(1) \subseteq Received'
      BY <2>2, <3>2
    <3> QED
      BY <1>8, <3>1, <3>3
  <2> QED
    BY <1>9, <2>1, <2>2
<1>10. Confirmed'
  <2> SUFFICES ASSUME ~skipped'
               PROVE  /\ \A i \in Acks' : Confirms(toNewton'[i].index, Received')
                      /\ Heard' => Confirms(inIndex', Received')
                      /\ phase' # "failed" =>
                           /\ \A i \in Carrying' :
                                Confirms(toLink'[i].index, Received' \cup K(i))
                           /\ \A i \in DOMAIN p :
                                Range(p[i].data) \subseteq Received' \cup K(Len(toLink'))
    BY <1>2 DEF Confirmed, Carried
  <2>1. ASSUME NEW i \in Acks' PROVE Confirms(toNewton'[i].index, Received')
    <3>1. CASE i + u \in Acks /\ toNewton'[i].index = toNewton[i + u].index
      BY <1>r, <1>8, <3>1
    <3>2. CASE Heard' /\ toNewton'[i].index = inIndex'
      BY <1>9, <3>2
    <3> QED
      BY <3>1, <3>2
  <2>2. ASSUME phase' # "failed", NEW i \in Carrying'
        PROVE  Confirms(toLink'[i].index, Received' \cup K(i))
    <3>1. /\ i \in 1..Len(toLink') /\ i + s \in Carrying /\ i + s \in 1..Len(toLink)
          /\ toLink'[i].index = toLink[i + s].index
      BY <1>1, <1>t DEF Carrying
    <3>2. Confirms(toLink'[i].index, Received \cup Carried(i + s))
      BY <1>r, <2>2, <3>1
    <3>3. Carried(i + s) \subseteq Received' \cup K(i)
      BY <1>7, <1>t, <2>2, <3>1
    <3>4. Received \cup Carried(i + s) \subseteq Received' \cup K(i)
      BY <3>3
    <3> QED
      BY <1>8, <3>2, <3>4
  <2>3. ASSUME phase' # "failed", NEW i \in DOMAIN p
        PROVE  Range(p[i].data) \subseteq Received' \cup K(Len(toLink'))
    <3>1. Carried(Len(toLink)) \subseteq Received' \cup K(Len(toLink'))
      BY <1>7, <1>t, <2>3
    <3> QED
      BY <1>r, <2>3, <3>1
  <2> QED
    BY <1>9, <2>1, <2>2, <2>3
<1> QED
  BY <1>4, <1>6, <1>10

\* The Newton sends a frame: all numbers become one older.
LEMMA Sends ==
  ASSUME LineIInv, Window, InSequence, Confirmed, newton.phase = "up",
         NEW f \in Frame, f.index = newton.index, f.data # <<>>, Len(newton.pending) < Credits,
         toLink' = Append(toLink, f), newton'.pending = Append(newton.pending, f),
         newton'.index = Next1(newton.index),
         UNCHANGED <<toNewton, inIndex, inBuffer, delivered, keepAlive, phase, skipped>>
  PROVE  Window' /\ InSequence' /\ Confirmed'
<1> DEFINE p == newton.pending
           r == Append(p, f)
           n == newton.index
           m == Len(p)
           o == Next1(n)
           IW(x) == Age(o, x) <= m + 1 + Credits
           FO(x, y) == Age(o, y) < Age(o, x) + Credits
           CO(x, B) == \A i \in DOMAIN r :
                         Age(o, x) <= Age(o, r[i].index) => Range(r[i].data) \subseteq B
           K(q) == UNION {Range(toLink'[i].data) : i \in 1..q}
<1>c. Credits \in Nat \ {0} /\ IndexSpan \in Nat /\ 2 * Credits <= IndexSpan
  BY Constants, MNPAssumption
<1>t. toLink \in Seq(Frame) /\ Len(toLink) \in Nat /\ DOMAIN toLink = 1..Len(toLink)
      /\ p \in Seq(Frame)
  <2>1. toLink \in Seq(Frame) /\ p \in Seq(Frame)
    BY Typed
  <2> QED
    BY <2>1
<1>p. /\ m < Credits /\ m \in Nat /\ n \in 0..IndexSpan - 1
      /\ \A i \in DOMAIN p :
           p[i] \in Frame /\ p[i].data # <<>> /\ Age(n, p[i].index) = m - i + 1
      /\ \A i \in Carrying : /\ toLink[i].index \in 0..IndexSpan - 1
                             /\ InWindow(toLink[i].index)
      /\ inIndex \in 0..IndexSpan - 1 /\ (Heard => InWindow(inIndex))
      /\ \A i \in Acks : /\ toNewton[i].index \in 0..IndexSpan - 1
                         /\ InWindow(toNewton[i].index)
  BY PartsUp
<1>q. /\ \A i, j \in Acks : i < j => Follows(toNewton[i].index, toNewton[j].index)
      /\ Heard => /\ \A i \in Acks : Follows(toNewton[i].index, inIndex)
                  /\ \A j \in Carrying : Follows(inIndex, toLink[j].index)
      /\ \A i \in Acks, j \in Carrying : Follows(toNewton[i].index, toLink[j].index)
      /\ \A i, j \in Carrying : i < j => Follows(toLink[i].index, toLink[j].index)
  BY PartsUp
<1>r. ~skipped =>
        /\ \A i \in Acks : Confirms(toNewton[i].index, Received)
        /\ Heard => Confirms(inIndex, Received)
        /\ phase # "failed" =>
             /\ \A i \in Carrying : Confirms(toLink[i].index, Received \cup Carried(i))
             /\ \A i \in DOMAIN p : Range(p[i].data) \subseteq Received \cup Carried(Len(toLink))
  BY PartsUp
<1>1. /\ toLink' \in Seq(Frame) /\ Len(toLink') = Len(toLink) + 1
      /\ DOMAIN toLink' = 1..Len(toLink) + 1
      /\ \A i \in DOMAIN toLink' : toLink'[i] = IF i = Len(toLink) + 1 THEN f ELSE toLink[i]
  BY <1>t, OneMore
<1>2. /\ r \in Seq(Frame) /\ Len(r) = m + 1 /\ DOMAIN r = 1..m + 1 /\ DOMAIN p = 1..m
      /\ \A i \in DOMAIN r : r[i] = IF i = m + 1 THEN f ELSE p[i]
  BY <1>t, OneMore
<1>3. newton'.pending = r /\ newton'.index = o
  OBVIOUS
<1> HIDE DEF r, o, m
<1>4. Carrying' = Carrying \cup {Len(toLink) + 1}
  <2>1. \A i : i \in Carrying' <=> i \in Carrying \/ i = Len(toLink) + 1
    BY <1>1, <1>t DEF Carrying
  <2> QED
    BY <2>1
<1>5. /\ Age(o, n) = 1 /\ o \in 0..IndexSpan - 1
      /\ \A k \in 0..IndexSpan - 1 :
           Age(n, k) < IndexSpan => Age(o, k) = Age(n, k) + 1
  BY <1>p, AgeNext DEF o
<1>6. ASSUME NEW x \in 0..IndexSpan - 1, InWindow(x)
      PROVE  /\ Age(o, x) = Age(n, x) + 1 /\ Age(n, x) \in 1..IndexSpan
             /\ Age(o, x) <= m + 1 + Credits
  <2>1. Age(n, x) \in 1..IndexSpan
    BY <1>p, AgeTyped
  <2>2. Age(n, x) <= m + Credits /\ m < Credits
    BY <1>6, <1>p DEF InWindow, m
  <2>3. Age(n, x) < IndexSpan
    BY <1>c, <1>p, <2>1, <2>2
  <2> QED
    BY <1>5, <1>c, <1>p, <2>1, <2>2, <2>3
<1>7. \A i \in DOMAIN p : /\ p[i].index \in 0..IndexSpan - 1
                          /\ Age(o, p[i].index) = m - i + 2
  <2>1. ASSUME NEW i \in DOMAIN p
        PROVE  p[i].index \in 0..IndexSpan - 1 /\ Age(o, p[i].index) = m - i + 2
    <3>1. p[i].index \in 0..IndexSpan - 1
      BY <1>p, <2>1 DEF Frame
    <3>2. Age(n, p[i].index) = m - i + 1 /\ i \in 1..m
      BY <1>p, <1>2, <2>1
    <3>3. m - i + 1 < IndexSpan /\ m - i + 1 + 1 = m - i + 2
      BY <1>c, <1>p, <3>2
    <3> QED
      BY <1>5, <3>1, <3>2, <3>3
  <2> QED
    BY <2>1
<1>9. \A x \in 0..IndexSpan - 1 : InWindow(x) => IW(x)
  BY <1>6
<1>10. IW(n)
  BY <1>5, <1>c, <1>p
<1>11. Window'
  <2>1. keepAlive' => Heard'
    BY DEF Window, Heard
  <2>2. \A i \in Carrying' : IW(toLink'[i].index)
    <3>1. ASSUME NEW i \in Carrying PROVE IW(toLink'[i].index)
      <4>1. toLink'[i] = toLink[i]
        BY <1>1, <1>t, <3>1 DEF Carrying
      <4> QED
        BY <1>9, <1>p, <4>1
    <3>2. IW(toLink'[Len(toLink) + 1].index)
      <4>1. toLink'[Len(toLink) + 1] = f
        BY <1>1, <1>t
      <4> QED
        BY <1>10, <4>1
    <3> QED
      BY <1>4, <3>1, <3>2
  <2>3. Heard' => IW(inIndex')
    BY <1>9, <1>p DEF Heard
  <2>4. \A i \in Acks' : IW(toNewton'[i].index)
    BY <1>9, <1>p DEF Acks
  <2>5. \A i \in DOMAIN r : r[i].data # <<>> /\ Age(o, r[i].index) = m + 1 - i + 1
    <3>1. ASSUME NEW i \in DOMAIN p
          PROVE  r[i].data # <<>> /\ Age(o, r[i].index) = m + 1 - i + 1
      <4>1. r[i] = p[i] /\ i \in 1..m
        BY <1>2, <1>p, <3>1
      <4>2. p[i].data # <<>> /\ Age(o, p[i].index) = m - i + 2
        BY <1>p, <1>7, <3>1
      <4>3. m - i + 2 = m + 1 - i + 1
        BY <1>p, <4>1
      <4> QED
        BY <4>1, <4>2, <4>3
    <3>2. r[m + 1].data # <<>> /\ Age(o, r[m + 1].index) = m + 1 - (m + 1) + 1
      <4>1. r[m + 1] = f
        BY <1>2, <1>p
      <4>2. 1 = m + 1 - (m + 1) + 1
        BY <1>p
      <4> QED
        BY <1>5, <4>1, <4>2
    <3>3. \A i \in DOMAIN r : i \in DOMAIN p \/ i = m + 1
      BY <1>2, <1>p
    <3> QED
      BY <3>1, <3>2, <3>3
  <2>6. Len(r) <= Credits
    BY <1>2, <1>c, <1>p
  <2>7. \A x : InWindow(x)' <=> IW(x)
    <3>1. Len(newton'.pending) = m + 1 /\ newton'.index = o
      BY <1>2, <1>3
    <3> QED
      BY <3>1 DEF InWindow
  <2>8. \A i \in DOMAIN r : r[i].data # <<>> /\ Age(o, r[i].index) = Len(r) - i + 1
    <3>1. Len(r) = m + 1 /\ \A i \in DOMAIN r : Len(r) - i + 1 = m + 1 - i + 1
      BY <1>2, <1>p
    <3> QED
      BY <2>5, <3>1
  <2> QED
    BY <1>3, <2>1, <2>2, <2>3, <2>4, <2>6, <2>7, <2>8 DEF Window
<1>13. \A x, y \in 0..IndexSpan - 1 :
         InWindow(x) /\ InWindow(y) /\ Follows(x, y) => FO(x, y)
  <2>1. ASSUME NEW x \in 0..IndexSpan - 1, NEW y \in 0..IndexSpan - 1,
               InWindow(x), InWindow(y), Follows(x, y)
        PROVE  FO(x, y)
    <3>1. Age(n, y) < Age(n, x) + Credits
      BY <2>1 DEF Follows
    <3> QED
      BY <1>6, <1>c, <2>1, <3>1
  <2> QED
    BY <2>1
<1>14. \A x \in 0..IndexSpan - 1 : InWindow(x) => FO(x, n)
  <2>1. ASSUME NEW x \in 0..IndexSpan - 1, InWindow(x) PROVE FO(x, n)
    BY <1>5, <1>6, <1>c, <2>1
  <2> QED
    BY <2>1
<1>15. \A i \in Carrying : toLink'[i] = toLink[i] /\ i \in 1..Len(toLink)
  BY <1>1, <1>t DEF Carrying
<1>16. toLink'[Len(toLink) + 1] = f
  BY <1>1, <1>t
<1>17. Acks' = Acks /\ toNewton' = toNewton /\ (Heard' <=> Heard) /\ inIndex' = inIndex
       /\ Received' = Received
  BY DEF Acks, Heard, Received
<1>18. InSequence'
  <2>1. \A i, j \in Acks' : i < j => FO(toNewton'[i].index, toNewton'[j].index)
    BY <1>13, <1>17, <1>p, <1>q
  <2>2. Heard' => \A i \in Acks' : FO(toNewton'[i].index, inIndex')
    BY <1>13, <1>17, <1>p, <1>q
  <2>3. Heard' => \A j \in Carrying' : FO(inIndex', toLink'[j].index)
    BY <1>4, <1>13, <1>14, <1>15, <1>16, <1>17, <1>p, <1>q
  <2>4. \A i \in Acks', j \in Carrying' : FO(toNewton'[i].index, toLink'[j].index)
    BY <1>4, <1>13, <1>14, <1>15, <1>16, <1>17, <1>p, <1>q
  <2>5. ASSUME NEW i \in Carrying', NEW j \in Carrying', i < j
        PROVE  FO(toLink'[i].index, toLink'[j].index)
    <3>1. i \in Carrying
      BY <1>4, <1>15, <1>t, <2>5
    <3>2. CASE j \in Carrying
      BY <1>13, <1>15, <1>p, <1>q, <2>5, <3>1, <3>2
    <3>3. CASE j = Len(toLink) + 1
      BY <1>14, <1>15, <1>16, <1>p, <3>1, <3>3
    <3> QED
      BY <1>4, <3>2, <3>3
  <2> QED
    BY <2>1, <2>2, <2>3, <2>4, <2>5, <1>3 DEF InSequence, Follows
<1>19. \A x \in 0..IndexSpan - 1 : \A B : InWindow(x) /\ Confirms(x, B) => CO(x, B)
  <2>1. ASSUME NEW x \in 0..IndexSpan - 1, NEW B, InWindow(x), Confirms(x, B),
               NEW i \in DOMAIN r, Age(o, x) <= Age(o, r[i].index)
        PROVE  Range(r[i].data) \subseteq B
    <3>1. CASE i \in DOMAIN p
      <4>1. r[i] = p[i] /\ i \in 1..m
        BY <1>2, <1>p, <3>1
      <4>2. Age(n, p[i].index) = m - i + 1 /\ Age(o, p[i].index) = m - i + 2
        BY <1>p, <1>7, <3>1
      <4>3. Age(n, x) + 1 <= m - i + 2 /\ Age(n, x) \in 1..IndexSpan
        BY <1>6, <2>1, <4>1, <4>2
      <4>4. Age(n, x) <= Age(n, p[i].index)
        BY <1>p, <4>1, <4>2, <4>3
      <4> QED
        BY <2>1, <3>1, <4>1, <4>4 DEF Confirms
    <3>2. CASE i = m + 1
      <4>1. Age(o, r[i].index) = 1
        BY <1>2, <1>5, <3>2
      <4>2. Age(o, x) = Age(n, x) + 1 /\ Age(n, x) \in 1..IndexSpan
        BY <1>6, <2>1
      <4> QED
        BY <1>c, <2>1, <4>1, <4>2
    <3> QED
      BY <1>2, <1>p, <3>1, <3>2
  <2> QED
    BY <2>1
<1>20. /\ \A q \in 0..Len(toLink) : K(q) = Carried(q)
       /\ K(Len(toLink) + 1) = Carried(Len(toLink)) \cup Range(f.data)
  <2>1. \A i \in 1..Len(toLink) : toLink'[i] = toLink[i]
    BY <1>1, <1>t
  <2>2. ASSUME NEW q \in 0..Len(toLink) PROVE K(q) = Carried(q)
    <3>1. \A i \in 1..q : toLink'[i] = toLink[i]
      BY <1>t, <2>1
    <3> QED
      BY <3>1 DEF Carried
  <2>3. K(Len(toLink) + 1) = K(Len(toLink)) \cup Range(f.data)
    <3>1. \A i : i \in 1..Len(toLink) + 1 <=> i \in 1..Len(toLink) \/ i = Len(toLink) + 1
      BY <1>t
    <3> QED
      BY <1>16, <3>1
  <2> QED
    BY <1>t, <2>2, <2>3
<1>21. Confirmed'
  <2> SUFFICES ASSUME ~skipped
               PROVE  /\ \A i \in Acks : CO(toNewton[i].index, Received)
                      /\ Heard => CO(inIndex, Received)
                      /\ phase # "failed" =>
                           /\ \A i \in Carrying' : CO(toLink'[i].index, Received \cup K(i))
                           /\ \A i \in DOMAIN r :
                                Range(r[i].data) \subseteq Received \cup K(Len(toLink) + 1)
    BY <1>1, <1>3, <1>17 DEF Confirmed, Confirms, Carried
  <2>1. \A i \in Acks : CO(toNewton[i].index, Received)
    BY <1>19, <1>p, <1>r
  <2>2. Heard => CO(inIndex, Received)
    BY <1>19, <1>p, <1>r
  <2>3. ASSUME phase # "failed", NEW i \in DOMAIN r
        PROVE  Range(r[i].data) \subseteq Received \cup K(Len(toLink) + 1)
    <3>1. CASE i \in DOMAIN p
      <4>1. r[i] = p[i]
        BY <1>2, <1>p, <3>1
      <4> QED
        BY <1>r, <1>20, <2>3, <3>1, <4>1
    <3>2. CASE i = m + 1
      BY <1>2, <1>20, <3>2
    <3> QED
      BY <1>2, <1>p, <3>1, <3>2
  <2>4. ASSUME phase # "failed", NEW i \in Carrying'
        PROVE  CO(toLink'[i].index, Received \cup K(i))
    <3>1. CASE i \in Carrying
      <4>1. toLink'[i] = toLink[i] /\ i \in 0..Len(toLink)
        BY <1>15, <1>t, <3>1
      <4>2. K(i) = Carried(i)
        BY <1>20, <4>1
      <4>3. CO(toLink[i].index, Received \cup Carried(i))
        BY <1>19, <1>p, <1>r, <2>4, <3>1
      <4> QED
        BY <4>1, <4>2, <4>3
    <3>2. CASE i = Len(toLink) + 1
      BY <2>3, <2>4, <3>2
    <3> QED
      BY <1>4, <3>1, <3>2
  <2> QED
    BY <2>1, <2>2, <2>3, <2>4
<1> QED
  BY <1>11, <1>18, <1>21

\* A sequence is one over any set that holds its elements.
LEMMA Retyped ==
  ASSUME NEW S, NEW T, NEW s \in Seq(S), \A i \in 1..Len(s) : s[i] \in T
  PROVE  s \in Seq(T)
<1>1. Len(s) \in Nat /\ s = [i \in 1..Len(s) |-> s[i]]
  OBVIOUS
<1>2. s \in [1..Len(s) -> T]
  BY <1>1, Zenon
<1> QED
  BY <1>1, <1>2

\* What holds of the data of each frame holds of what they join to.
LEMMA DataWithin ==
  ASSUME NEW kinds, NEW q \in Seq(Frame), NEW B, \A i \in DOMAIN q : Range(q[i].data) \subseteq B
  PROVE  Range(DataOf(kinds, q)) \subseteq B
<1> DEFINE c == Chunks(kinds, q)
<1>1. /\ c \in Seq(Seq(Byte)) /\ Len(c) = Len(q)
      /\ \A i \in 1..Len(q) : c[i] = Chunk(kinds, q[i])
  BY ChunksTyped
<1>2. DOMAIN q = 1..Len(q)
  OBVIOUS
<1> HIDE DEF c
<1>3. ASSUME NEW i \in 1..Len(c) PROVE c[i] \in Seq(B)
  <2>1. c[i] = Chunk(kinds, q[i]) /\ c[i] \in Seq(Byte)
    BY <1>1, <1>3
  <2>2. Range(c[i]) \subseteq B
    <3>1. CASE q[i].kind \in kinds
      BY <1>1, <1>2, <1>3, <2>1, <3>1 DEF Chunk
    <3>2. CASE q[i].kind \notin kinds
      <4>1. c[i] = <<>>
        BY <2>1, <3>2 DEF Chunk
      <4> QED
        BY <4>1 DEF Range
    <3> QED
      BY <3>1, <3>2
  <2>3. \A j \in 1..Len(c[i]) : c[i][j] \in B
    BY <2>1, <2>2 DEF Range
  <2> QED
    BY <2>1, <2>3
<1>4. c \in Seq(Seq(B))
  BY <1>1, <1>3, Retyped
<1>5. FlattenSeq(c) \in Seq(B)
  BY <1>4, FlatTyped
<1>6. \A s \in Seq(B) : Range(s) \subseteq B
  BY DEF Range
<1> QED
  BY <1>5, <1>6, DataIs DEF c

\* An acknowledgement that names a pending frame ends those up to it.
Cuts(p, index, c, first, rest) ==
  /\ p[c].index = index /\ Acknowledged(p, index) = rest /\ first \o rest = p
  /\ Len(first) = c /\ Len(rest) = Len(p) - c
  /\ \A i \in 1..c : first[i] = p[i]
  /\ \A i \in 1..Len(p) - c : rest[i] = p[i + c]

LEMMA Cut ==
  ASSUME NEW p \in Seq(Frame), NEW index,
         \E i \in DOMAIN p : p[i].index = index
  PROVE  \E c \in 1..Len(p) : \E first, rest \in Seq(Frame) : Cuts(p, index, c, first, rest)
<1> DEFINE named == {i \in DOMAIN p : p[i].index = index}
           c == CHOOSE i \in named : TRUE
<1>1. named # {} /\ c \in named
  OBVIOUS
<1>2. Acknowledged(p, index) = SubSeq(p, 1 + c, Len(p))
  BY <1>1 DEF Acknowledged
<1>3. c \in DOMAIN p /\ p[c].index = index
  BY <1>1
<1> HIDE DEF c, named
<1>4. c \in 1..Len(p) /\ Len(p) \in Nat
  BY <1>3
<1> DEFINE first == SubSeq(p, 1, c)
           rest == SubSeq(p, c + 1, Len(p))
<1>5. /\ first \in Seq(Frame) /\ rest \in Seq(Frame) /\ first \o rest = p
  BY <1>4, CutInTwo
<1>6. 1 + c = c + 1
  BY <1>4
<1>7. \A i \in 1..Len(p) : p[i] \in Frame
  OBVIOUS
<1>8. Len(first) = c /\ \A i \in 1..c : first[i] = p[i]
  <2>1. /\ Len(first) = IF 1 <= c THEN c - 1 + 1 ELSE 0
        /\ \A i \in 1..c - 1 + 1 : first[i] = p[1 + i - 1]
    <3>1. \A i \in 1..c : p[i] \in Frame
      BY <1>4, <1>7
    <3> QED
      BY <1>4, <3>1, SubSeqProperties
  <2> HIDE DEF first
  <2>2. c - 1 + 1 = c /\ 1 <= c /\ \A i \in 1..c : 1 + i - 1 = i
    BY <1>4
  <2> QED
    BY <2>1, <2>2
<1>9. Len(rest) = Len(p) - c /\ \A i \in 1..Len(p) - c : rest[i] = p[i + c]
  <2>1. /\ Len(rest) = IF c + 1 <= Len(p) THEN Len(p) - (c + 1) + 1 ELSE 0
        /\ \A i \in 1..Len(p) - (c + 1) + 1 : rest[i] = p[(c + 1) + i - 1]
    <3>1. \A i \in c + 1..Len(p) : p[i] \in Frame
      BY <1>4, <1>7
    <3> QED
      BY <1>4, <3>1, SubSeqProperties
  <2> HIDE DEF rest
  <2>2. Len(p) - (c + 1) + 1 = Len(p) - c /\ \A i \in 1..Len(p) - c : (c + 1) + i - 1 = i + c
    BY <1>4
  <2>3. ~ (c + 1 <= Len(p)) => Len(p) - c = 0
    BY <1>4
  <2> QED
    BY <2>1, <2>2, <2>3
<1> HIDE DEF first, rest
<1>10. Acknowledged(p, index) = rest
  BY <1>2, <1>6 DEF rest
<1>11. Cuts(p, index, c, first, rest)
  BY <1>3, <1>5, <1>8, <1>9, <1>10 DEF Cuts
<1> QED
  BY <1>4, <1>5, <1>11

LEMMA Acknowledges ==
  ASSUME LineIInv, Window, InSequence, Confirmed, AckMeansReceived, newton.phase = "up",
         1 \in Acks, NEW k, k = toNewton[1].index,
         \E i \in DOMAIN newton.pending : newton.pending[i].index = k,
         toNewton' = Tail(toNewton), newton'.pending = Acknowledged(newton.pending, k),
         newton'.index = newton.index, newton'.sent = newton.sent,
         UNCHANGED <<toLink, inIndex, inBuffer, delivered, keepAlive, phase, skipped>>
  PROVE  Window' /\ InSequence' /\ Confirmed' /\ AckMeansReceived'
<1> DEFINE p == newton.pending
           n == newton.index
           m == Len(p)
<1>c. Credits \in Nat \ {0}
  BY Constants
<1>t. p \in Seq(Frame) /\ toNewton \in Seq(Frame) /\ delivered \in Seq(Byte) /\ inBuffer \in Seq(Byte)
  BY Typed
<1>p. /\ m <= Credits /\ m \in Nat /\ n \in 0..IndexSpan - 1
      /\ DOMAIN p = 1..m
      /\ \A i \in DOMAIN p :
           p[i] \in Frame /\ p[i].data # <<>> /\ Age(n, p[i].index) = m - i + 1
      /\ \A i \in Carrying : toLink[i].index \in 0..IndexSpan - 1
      /\ inIndex \in 0..IndexSpan - 1
      /\ \A i \in Acks : i \in 1..Len(toNewton) /\ toNewton[i].index \in 0..IndexSpan - 1
  BY PartsUp
<1>q. /\ \A i, j \in Acks : i < j => Follows(toNewton[i].index, toNewton[j].index)
      /\ Heard => /\ \A i \in Acks : Follows(toNewton[i].index, inIndex)
                  /\ \A j \in Carrying : Follows(inIndex, toLink[j].index)
      /\ \A i \in Acks, j \in Carrying : Follows(toNewton[i].index, toLink[j].index)
      /\ \A i, j \in Carrying : i < j => Follows(toLink[i].index, toLink[j].index)
  BY PartsUp
<1>r. ~skipped =>
        /\ \A i \in Acks : Confirms(toNewton[i].index, Received)
        /\ Heard => Confirms(inIndex, Received)
        /\ phase # "failed" =>
             /\ \A i \in Carrying : Confirms(toLink[i].index, Received \cup Carried(i))
             /\ \A i \in DOMAIN p : Range(p[i].data) \subseteq Received \cup Carried(Len(toLink))
  BY PartsUp
<1>1. PICK c \in 1..m, first \in Seq(Frame), r \in Seq(Frame) : Cuts(p, k, c, first, r)
  <2>1. \E i \in DOMAIN p : p[i].index = k
    OBVIOUS
  <2> HIDE DEF p
  <2> QED
    BY <1>t, <2>1, Cut
<1> DEFINE IW(x) == Age(n, x) <= m - c + Credits
           FO(x, y) == Age(n, y) < Age(n, x) + Credits
           CO(x, B) == \A i \in DOMAIN r :
                         Age(n, x) <= Age(n, r[i].index) => Range(r[i].data) \subseteq B
<1>2. /\ newton'.pending = r /\ Len(r) = m - c /\ DOMAIN r = 1..m - c
      /\ \A i \in DOMAIN r : r[i] = p[i + c] /\ i + c \in DOMAIN p
  <2>1. newton'.pending = r /\ Len(r) = m - c /\ \A i \in 1..m - c : r[i] = p[i + c]
    BY <1>1 DEF Cuts
  <2>2. \A i \in 1..m - c : i + c \in 1..m
    <3> HIDE DEF m
    <3>1. c \in 1..m /\ m \in Nat
      BY <1>1, <1>p
    <3>2. ASSUME NEW i \in 1..m - c PROVE i + c \in 1..m
      BY <3>1
    <3> QED
      BY <3>2
  <2>3. DOMAIN r = 1..m - c
    BY <2>1
  <2> QED
    BY <1>p, <2>1, <2>2, <2>3
<1>3. DOMAIN first = 1..c /\ (\A i \in 1..c : first[i] = p[i]) /\ first \o r = p /\ p[c].index = k
  BY <1>1 DEF Cuts
<1> HIDE DEF m
<1>4. c \in 1..m /\ Age(n, k) = m - c + 1 /\ m \in Nat
  BY <1>3, <1>p DEF m
<1>5. ASSUME NEW y \in 0..IndexSpan - 1, Follows(k, y) PROVE IW(y)
  <2>1. Age(n, y) \in 1..IndexSpan /\ Age(n, y) < Age(n, k) + Credits
    BY <1>5, <1>p, AgeTyped DEF Follows
  <2> QED
    BY <1>c, <1>4, <2>1
<1>6. \A i \in Acks' : i + 1 \in Acks /\ toNewton'[i].index = toNewton[i + 1].index /\ 1 < i + 1
                      /\ i \in Nat
  <2>1. toNewton # <<>>
    BY <1>t DEF Acks
  <2>2. \A i \in DOMAIN toNewton' :
          i + 1 \in DOMAIN toNewton /\ toNewton'[i] = toNewton[i + 1] /\ i \in Nat \ {0}
    BY <1>t, <2>1, HeadAndRest
  <2> QED
    BY <2>2 DEF Acks
<1>7. Carrying' = Carrying /\ toLink' = toLink /\ (Heard' <=> Heard) /\ inIndex' = inIndex
      /\ Received' = Received /\ skipped' = skipped
      /\ phase' = phase
  BY DEF Carrying, Heard, Received
<1>8. \A i \in DOMAIN r : /\ r[i].data # <<>> /\ Age(n, r[i].index) = Len(r) - i + 1
  <2>1. ASSUME NEW i \in DOMAIN r
        PROVE  r[i].data # <<>> /\ Age(n, r[i].index) = Len(r) - i + 1
    <3>1. r[i] = p[i + c] /\ i + c \in DOMAIN p /\ i \in 1..m - c
      BY <1>2, <2>1
    <3>2. p[i + c].data # <<>> /\ Age(n, p[i + c].index) = m - (i + c) + 1
      BY <1>p, <3>1 DEF m
    <3>3. m - (i + c) + 1 = (m - c) - i + 1
      BY <1>4, <3>1
    <3> QED
      BY <1>2, <3>1, <3>2, <3>3
  <2> QED
    BY <2>1
<1>9. Window'
  <2>1. keepAlive' => Heard'
    BY <1>7 DEF Window
  <2>2. \A i \in Carrying' : IW(toLink'[i].index)
    BY <1>5, <1>7, <1>p, <1>q
  <2>3. Heard' => IW(inIndex')
    BY <1>5, <1>7, <1>p, <1>q
  <2>4. \A i \in Acks' : IW(toNewton'[i].index)
    BY <1>5, <1>6, <1>p, <1>q
  <2>5. Len(r) <= Credits
    BY <1>2, <1>4, <1>c, <1>p DEF m
  <2>6. \A x : InWindow(x)' <=> IW(x)
    BY <1>2 DEF InWindow
  <2> QED
    BY <1>2, <1>8, <2>1, <2>2, <2>3, <2>4, <2>5, <2>6 DEF Window
<1>10. \A x, y : (Follows(x, y)' <=> FO(x, y)) /\ (Follows(x, y) <=> FO(x, y))
  BY DEF Follows
<1>11. InSequence'
  <2>1. ASSUME NEW i \in Acks', NEW j \in Acks', i < j
        PROVE  FO(toNewton'[i].index, toNewton'[j].index)
    <3>1. i + 1 < j + 1 /\ i + 1 \in Acks /\ j + 1 \in Acks
      BY <1>6, <2>1
    <3> QED
      BY <1>6, <1>10, <1>q, <2>1, <3>1
  <2>2. Heard' => \A i \in Acks' : FO(toNewton'[i].index, inIndex')
    BY <1>6, <1>7, <1>10, <1>q
  <2>3. Heard' => \A j \in Carrying' : FO(inIndex', toLink'[j].index)
    BY <1>7, <1>10, <1>q
  <2>4. \A i \in Acks', j \in Carrying' : FO(toNewton'[i].index, toLink'[j].index)
    BY <1>6, <1>7, <1>10, <1>q
  <2>5. \A i, j \in Carrying' : i < j => FO(toLink'[i].index, toLink'[j].index)
    BY <1>7, <1>10, <1>q
  <2> QED
    BY <1>10, <2>1, <2>2, <2>3, <2>4, <2>5 DEF InSequence
<1>12. \A x, B : Confirms(x, B) => CO(x, B)
  BY <1>2 DEF Confirms
<1>14. Confirmed'
  <2> DEFINE K(q) == UNION {Range(toLink'[i].data) : i \in 1..q}
  <2> SUFFICES ASSUME ~skipped'
               PROVE  /\ \A i \in Acks' : CO(toNewton'[i].index, Received')
                      /\ Heard' => CO(inIndex', Received')
                      /\ phase' # "failed" =>
                           /\ \A i \in Carrying' : CO(toLink'[i].index, Received' \cup K(i))
                           /\ \A i \in DOMAIN r :
                                Range(r[i].data) \subseteq Received' \cup K(Len(toLink'))
    BY <1>2 DEF Confirmed, Confirms, Carried
  <2>1. \A q : K(q) = Carried(q)
    BY <1>7 DEF Carried
  <2> HIDE DEF CO, K
  <2>a. ~skipped
    OBVIOUS
  <2>b. \A x, B : Confirms(x, B) => CO(x, B)
    BY <1>12
  <2>2. \A i \in Acks' : CO(toNewton'[i].index, Received)
    <3>1. \A i \in Acks : CO(toNewton[i].index, Received)
      BY <1>r, <2>a, <2>b
    <3> QED
      BY <1>6, <3>1
  <2>3. \A i \in DOMAIN r : phase # "failed" =>
          Range(r[i].data) \subseteq Received \cup Carried(Len(toLink))
    BY <1>2, <1>r, <2>a
  <2>4. Heard' => CO(inIndex, Received)
    BY <1>7, <1>r, <2>a, <2>b
  <2>5. phase # "failed" => \A i \in Carrying' : CO(toLink[i].index, Received \cup Carried(i))
    <3>1. phase # "failed" => \A i \in Carrying : CO(toLink[i].index, Received \cup Carried(i))
      BY <1>r, <2>a, <2>b
    <3> QED
      BY <1>7, <3>1
  <2> QED
    BY <1>7, <2>1, <2>2, <2>3, <2>4, <2>5
<1>15. AckMeansReceived'
  <2> SUFFICES ASSUME ~skipped
               PROVE  1..newton.sent \subseteq Range(DataOf({"LT"}, r)) \cup Received
    BY <1>2, <1>7 DEF AckMeansReceived, Received
  <2>1. \A i \in DOMAIN first : Range(first[i].data) \subseteq Received
    <3>1. ASSUME NEW i \in 1..c PROVE Range(p[i].data) \subseteq Received
      <4>1. Age(n, p[i].index) = m - i + 1 /\ i \in DOMAIN p
        <5>1. i \in 1..m
          BY <1>4, <3>1
        <5> QED
          BY <1>p, <5>1
      <4>2. Age(n, k) <= Age(n, p[i].index)
        BY <1>4, <3>1, <4>1
      <4>3. Confirms(k, Received)
        BY <1>r
      <4> QED
        BY <4>1, <4>2, <4>3 DEF Confirms
    <3> QED
      BY <1>3, <3>1
  <2>2. Range(DataOf({"LT"}, first)) \subseteq Received
    BY <1>3, <2>1, DataWithin
  <2>3. DataOf({"LT"}, p) = DataOf({"LT"}, first) \o DataOf({"LT"}, r)
    BY <1>2, <1>3, DataConcat, Zenon
  <2>4. DataOf({"LT"}, first) \in Seq(Byte) /\ DataOf({"LT"}, r) \in Seq(Byte)
    BY <1>2, <1>3, DataTyped
  <2>5. Range(DataOf({"LT"}, p)) = Range(DataOf({"LT"}, first)) \cup Range(DataOf({"LT"}, r))
    <3> DEFINE s == DataOf({"LT"}, first)
               t == DataOf({"LT"}, r)
    <3> HIDE DEF s, t
    <3>1. Range(s \o t) = Range(s) \cup Range(t)
      <4>1. s \in Seq(Byte) /\ t \in Seq(Byte)
        BY <2>4 DEF s, t
      <4> QED
        BY <4>1, RangeConcat
    <3> QED
      BY <2>3, <3>1 DEF s, t
  <2>6. 1..newton.sent \subseteq Range(DataOf({"LT"}, p)) \cup Received
    BY DEF AckMeansReceived, Received
  <2> QED
    BY <2>2, <2>5, <2>6
<1> QED
  BY <1>9, <1>11, <1>14, <1>15

\* The Newton sends again what is pending: at most Credits frames, the last it numbered.
LEMMA Repeated ==
  ASSUME LineIInv, Window, InSequence, Confirmed, newton.phase = "up",
         toLink' = toLink \o newton.pending,
         UNCHANGED <<newton, toNewton, inIndex, inBuffer, delivered, keepAlive, phase, skipped>>
  PROVE  Window' /\ InSequence' /\ Confirmed'
<1> DEFINE p == newton.pending
           n == newton.index
           m == Len(p)
           l == Len(toLink)
           K(q) == UNION {Range(toLink'[i].data) : i \in 1..q}
<1>c. Credits \in Nat \ {0}
  BY Constants
<1>t. p \in Seq(Frame) /\ toLink \in Seq(Frame) /\ DOMAIN toLink = 1..l /\ l \in Nat
  <2>1. p \in Seq(Frame) /\ toLink \in Seq(Frame)
    BY Typed
  <2> QED
    BY <2>1
<1>p. /\ m <= Credits /\ m \in Nat /\ n \in 0..IndexSpan - 1
      /\ DOMAIN p = 1..m
      /\ \A i \in DOMAIN p :
           p[i] \in Frame /\ p[i].data # <<>> /\ Age(n, p[i].index) = m - i + 1
      /\ \A i \in Carrying : /\ i \in 1..l /\ toLink[i].index \in 0..IndexSpan - 1
                             /\ InWindow(toLink[i].index)
      /\ inIndex \in 0..IndexSpan - 1 /\ (Heard => InWindow(inIndex))
      /\ \A i \in Acks : /\ toNewton[i].index \in 0..IndexSpan - 1
                         /\ InWindow(toNewton[i].index)
  BY PartsUp
<1>q. /\ \A i, j \in Acks : i < j => Follows(toNewton[i].index, toNewton[j].index)
      /\ Heard => /\ \A i \in Acks : Follows(toNewton[i].index, inIndex)
                  /\ \A j \in Carrying : Follows(inIndex, toLink[j].index)
      /\ \A i \in Acks, j \in Carrying : Follows(toNewton[i].index, toLink[j].index)
      /\ \A i, j \in Carrying : i < j => Follows(toLink[i].index, toLink[j].index)
  BY PartsUp
<1>r. ~skipped =>
        /\ \A i \in Acks : Confirms(toNewton[i].index, Received)
        /\ Heard => Confirms(inIndex, Received)
        /\ phase # "failed" =>
             /\ \A i \in Carrying : Confirms(toLink[i].index, Received \cup Carried(i))
             /\ \A i \in DOMAIN p : Range(p[i].data) \subseteq Received \cup Carried(l)
  BY PartsUp
<1>1. /\ Len(toLink') = l + m
      /\ \A i \in 1..l + m : toLink'[i] = IF i <= l THEN toLink[i] ELSE p[i - l]
  BY <1>t, ConcatProperties
<1>2. DOMAIN toLink' = 1..l + m
  <2>1. toLink' \in Seq(Frame)
    BY <1>t, ConcatProperties
  <2> QED
    BY <1>1, <2>1
<1>3. /\ (\A x : InWindow(x)' <=> InWindow(x)) /\ (\A x, y : Follows(x, y)' <=> Follows(x, y))
      /\ (\A x, B : Confirms(x, B)' <=> Confirms(x, B))
      /\ Acks' = Acks /\ (Heard' <=> Heard) /\ Received' = Received
  BY DEF InWindow, Follows, Confirms, Acks, Heard, Received
<1>s. /\ newton' = newton /\ toNewton' = toNewton /\ inIndex' = inIndex
      /\ (keepAlive' <=> keepAlive) /\ phase' = phase /\ (skipped' <=> skipped)
  OBVIOUS
<1>4. \A i \in Carrying : i \in Carrying' /\ toLink'[i] = toLink[i]
  <2>1. ASSUME NEW i \in Carrying PROVE i \in Carrying' /\ toLink'[i] = toLink[i]
    <3>1. i \in 1..l /\ toLink[i].data # <<>> /\ i \in 1..l + m /\ i <= l
      BY <1>p, <1>t, <2>1 DEF Carrying
    <3>2. toLink'[i] = toLink[i] /\ i \in DOMAIN toLink'
      BY <1>1, <1>2, <3>1
    <3> QED
      BY <3>1, <3>2 DEF Carrying
  <2> QED
    BY <2>1
<1>5. \A i \in Carrying' : \/ i \in Carrying /\ i \in 1..l /\ toLink'[i] = toLink[i]
                           \/ i - l \in 1..m /\ i \in Nat /\ i > l /\ toLink'[i] = p[i - l]
  <2>1. ASSUME NEW i \in Carrying', i <= l PROVE i \in Carrying /\ i \in 1..l /\ toLink'[i] = toLink[i]
    <3>1. i \in 1..l + m /\ toLink'[i].data # <<>>
      BY <1>2, <2>1 DEF Carrying
    <3>2. i \in 1..l /\ toLink'[i] = toLink[i]
      BY <1>1, <1>t, <1>p, <2>1, <3>1
    <3> QED
      BY <1>t, <3>1, <3>2 DEF Carrying
  <2>2. ASSUME NEW i \in Carrying', ~ (i <= l)
        PROVE  i - l \in 1..m /\ i \in Nat /\ i > l /\ toLink'[i] = p[i - l]
    <3>1. i \in 1..l + m
      BY <1>2, <2>2 DEF Carrying
    <3> HIDE DEF l, m, p
    <3>2. i - l \in 1..m /\ i \in Nat /\ i > l
      BY <1>p, <1>t, <2>2, <3>1
    <3> QED
      BY <1>1, <2>2, <3>1, <3>2
  <2> QED
    BY <2>1, <2>2
<1>6. \A j \in 1..m : l + j \in 1..l + m /\ toLink'[l + j] = p[j]
  <2>1. ASSUME NEW j \in 1..m PROVE l + j \in 1..l + m /\ toLink'[l + j] = p[j]
    <3> HIDE DEF l, m, p
    <3>1. l + j \in 1..l + m /\ ~ (l + j <= l) /\ (l + j) - l = j
      BY <1>p, <1>t
    <3> QED
      BY <1>1, <3>1
  <2> QED
    BY <2>1
<1> HIDE DEF l, m
<1>7. \A i \in 1..m : /\ p[i].index \in 0..IndexSpan - 1 /\ InWindow(p[i].index)
                      /\ \A x \in 0..IndexSpan - 1 : Follows(x, p[i].index)
  <2>1. ASSUME NEW i \in 1..m, NEW x \in 0..IndexSpan - 1
        PROVE  Follows(x, p[i].index)
    <3>1. Age(n, p[i].index) = m - i + 1 /\ Age(n, x) \in 1..IndexSpan
      BY <1>p, <2>1, AgeTyped
    <3>2. m - i + 1 < Age(n, x) + Credits
      <4>1. m - i + 1 <= m /\ m <= Credits /\ m \in Nat
        BY <1>p, <2>1
      <4>2. Age(n, x) \in Nat /\ Age(n, x) >= 1
        BY <3>1, Constants
      <4> QED
        BY <1>c, <2>1, <4>1, <4>2
    <3> QED
      BY <3>1, <3>2 DEF Follows
  <2>2. ASSUME NEW i \in 1..m
        PROVE  p[i].index \in 0..IndexSpan - 1 /\ InWindow(p[i].index)
    <3>1. Age(n, p[i].index) = m - i + 1 /\ p[i] \in Frame
      BY <1>p, <2>2
    <3>2. p[i].index \in 0..IndexSpan - 1
      BY <3>1 DEF Frame
    <3>3. m - i + 1 <= m + Credits
      BY <1>c, <1>p, <2>2
    <3> QED
      BY <3>1, <3>2, <3>3 DEF InWindow, m
  <2> QED
    BY <2>1, <2>2
<1>8. Window'
  <2>1. \A i \in Carrying' : InWindow(toLink'[i].index)
    BY <1>5, <1>7, <1>p
  <2>2. /\ Len(p) <= Credits
        /\ \A i \in DOMAIN p : p[i].data # <<>> /\ Age(n, p[i].index) = Len(p) - i + 1
    BY <1>p DEF m
  <2>3. keepAlive => Heard
    BY DEF Window
  <2> QED
    <3>1. (Heard => InWindow(inIndex)) /\ \A i \in Acks : InWindow(toNewton[i].index)
      BY <1>p
    <3> HIDE DEF p, n
    <3>2. newton'.pending = p /\ newton'.index = n
      BY <1>s DEF p, n
    <3> QED
      BY <1>3, <1>s, <2>1, <2>2, <2>3, <3>1, <3>2 DEF Window
<1>9. InSequence'
  <2>1. Heard => \A j \in Carrying' : Follows(inIndex, toLink'[j].index)
    BY <1>5, <1>7, <1>p, <1>q
  <2>2. \A i \in Acks, j \in Carrying' : Follows(toNewton[i].index, toLink'[j].index)
    BY <1>5, <1>7, <1>p, <1>q
  <2>3. ASSUME NEW i \in Carrying', NEW j \in Carrying', i < j
        PROVE  Follows(toLink'[i].index, toLink'[j].index)
    <3>1. CASE j \in Carrying /\ j \in 1..l /\ toLink'[j] = toLink[j]
      <4>1. i \in Carrying /\ toLink'[i] = toLink[i]
        <5>1. ~ (i \in Nat /\ i > l)
          BY <1>t, <2>3, <3>1
        <5> QED
          BY <1>5, <5>1
      <4> QED
        BY <1>q, <2>3, <3>1, <4>1
    <3>2. CASE j - l \in 1..m /\ toLink'[j] = p[j - l]
      <4>1. toLink'[i].index \in 0..IndexSpan - 1
        BY <1>5, <1>7, <1>p
      <4> QED
        BY <1>7, <3>2, <4>1
    <3> QED
      BY <1>5, <3>1, <3>2
  <2> QED
    BY <1>3, <1>q, <1>s, <2>1, <2>2, <2>3 DEF InSequence
<1>10. \A i \in 0..l : K(i) = Carried(i)
  <2>1. ASSUME NEW i \in 0..l PROVE K(i) = Carried(i)
    <3>1. \A j \in 1..i : toLink'[j] = toLink[j]
      BY <1>1, <1>t, <1>p
    <3> QED
      BY <3>1 DEF Carried
  <2> QED
    BY <2>1
<1>11. \A i \in 1..m, j \in 1..m : j <= i => Range(p[j].data) \subseteq K(l + i)
  <2>1. ASSUME NEW i \in 1..m, NEW j \in 1..m, j <= i
        PROVE  Range(p[j].data) \subseteq K(l + i)
    <3>1. toLink'[l + j] = p[j] /\ l + j \in 1..l + i
      <4>1. l + j \in 1..l + i
        BY <1>t, <2>1
      <4> QED
        BY <1>6, <2>1, <4>1
    <3> QED
      BY <3>1
  <2> QED
    BY <2>1
<1>12. Confirmed'
  <2> HIDE DEF K
  <2>0. \A i : Carried(i)' = K(i)
    BY DEF Carried, K
  <2> SUFFICES ASSUME ~skipped, phase # "failed"
               PROVE  /\ \A i \in Carrying' : Confirms(toLink'[i].index, Received \cup K(i))
                      /\ \A i \in DOMAIN p : Range(p[i].data) \subseteq Received \cup K(l + m)
    <3>1. ~skipped => /\ \A i \in Acks : Confirms(toNewton[i].index, Received)
                      /\ Heard => Confirms(inIndex, Received)
      BY <1>r
    <3>2. Len(toLink') = l + m
      BY <1>1
    <3>3. newton'.pending = p
      BY <1>s
    <3> HIDE DEF p
    <3> QED
      BY <1>3, <1>s, <2>0, <3>1, <3>2, <3>3 DEF Confirmed
  <2>1. ASSUME NEW i \in 1..m PROVE Confirms(p[i].index, Received \cup K(l + i))
    <3>1. ASSUME NEW j \in DOMAIN p, Age(n, p[i].index) <= Age(n, p[j].index)
          PROVE  Range(p[j].data) \subseteq Received \cup K(l + i)
      <4>1. j \in 1..m /\ m - i + 1 <= m - j + 1
        BY <1>p, <2>1, <3>1
      <4>2. j <= i
        BY <1>p, <2>1, <4>1
      <4> QED
        BY <1>11, <2>1, <4>1, <4>2
    <3> QED
      BY <3>1 DEF Confirms
  <2>2. ASSUME NEW i \in Carrying' PROVE Confirms(toLink'[i].index, Received \cup K(i))
    <3>1. CASE i \in Carrying /\ i \in 1..l /\ toLink'[i] = toLink[i]
      <4>1. i \in 0..l
        BY <1>t, <3>1
      <4>2. Confirms(toLink[i].index, Received \cup Carried(i))
        BY <1>r, <3>1
      <4> QED
        BY <1>10, <3>1, <4>1, <4>2
    <3>2. CASE i - l \in 1..m /\ i \in Nat /\ toLink'[i] = p[i - l]
      <4>1. l + (i - l) = i
        BY <1>t, <3>2
      <4> QED
        BY <2>1, <3>2, <4>1
    <3> QED
      BY <1>5, <3>1, <3>2
  <2>3. \A i \in DOMAIN p : Range(p[i].data) \subseteq Received \cup K(l + m)
    <3>1. ASSUME NEW i \in 1..m PROVE Range(p[i].data) \subseteq K(l + m)
      <4>1. m \in 1..m /\ i <= m
        BY <1>p, <3>1
      <4> QED
        BY <1>11, <3>1, <4>1
    <3> QED
      BY <1>p, <3>1
  <2> QED
    BY <2>2, <2>3
<1> QED
  BY <1>8, <1>9, <1>12

\* Nothing was sent before the answer, and no request comes after it.
LEMMA StepBefore ==
  ASSUME LineIInv, HandshakeIsFirst, BeforeTheAnswer, Window, [MNPNext]_vars
  PROVE  BeforeTheAnswer'
<1> DEFINE Down == newton.phase \in {"down", "asking"}
           Up(q) == \A i \in DOMAIN q : /\ q[i].kind \in {"LT", "LA", "bad"}
                                        /\ q[i].kind = "LT" => q[i].data # <<>>
           Asks(q) == \A i \in DOMAIN q : q[i].kind \in {"LR", "bad"}
<1>t. /\ toLink \in Seq(Frame) /\ toNewton \in Seq(Frame) /\ newton \in NewtonState
      /\ newton.phase \in {"down", "asking", "up", "gone"} /\ newton.pending \in Seq(Frame)
      /\ newton.index \in 0..IndexSpan - 1 /\ newton.sent \in 0..MaxBytes
      /\ phase \in {"connecting", "answered", "open", "closed", "failed"}
  BY Typed
<1>f. /\ FrameSize \in Nat /\ Credits \in Nat
      /\ \A i, d : LT(i, d).kind = "LT" /\ LT(i, d).index = i /\ LT(i, d).data = d
      /\ \A i : LA(i).kind = "LA" /\ LA(i).data = <<>>
      /\ LR.kind = "LR" /\ LR.data = <<>> /\ LD.kind = "LD" /\ LD.data = <<0>>
      /\ 0 \in 0..IndexSpan - 1 /\ 1 \in 0..IndexSpan - 1
  BY FrameFields, Constants
<1>d. Down => /\ phase \in {"connecting", "answered", "failed"}
              /\ phase # "answered" => toNewton = <<>>
              /\ phase # "connecting" => toLink = <<>>
              /\ newton.index = 1 /\ newton.sent = 0 /\ newton.pending = <<>>
              /\ delivered = <<>> /\ inBuffer = <<>> /\ ~keepAlive /\ Asks(toNewton)
  BY DEF BeforeTheAnswer
<1>u. ~Down => phase # "connecting" /\ (newton.phase = "up" => Up(toLink))
  BY DEF BeforeTheAnswer
<1>h. /\ newton.phase = "down" => phase = "connecting" /\ toLink = <<>>
      /\ phase = "connecting" =>
           Down /\ toNewton = <<>> /\ (newton.phase = "asking" => Len(toLink) = 1)
  BY DEF HandshakeIsFirst
<1>D. ASSUME newton'.phase \in {"down", "asking"},
             phase' \in {"connecting", "answered", "failed"},
             phase' # "answered" => toNewton' = <<>>,
             phase' # "connecting" => toLink' = <<>>,
             newton'.index = 1, newton'.sent = 0, newton'.pending = <<>>,
             delivered' = <<>>, inBuffer' = <<>>, ~keepAlive', Asks(toNewton')
      PROVE  BeforeTheAnswer'
  BY <1>D DEF BeforeTheAnswer
<1>U. ASSUME newton'.phase \notin {"down", "asking"}, phase' # "connecting",
             newton'.phase = "up" => Up(toLink')
      PROVE  BeforeTheAnswer'
  BY <1>U DEF BeforeTheAnswer
<1>T. ASSUME Up(toLink), toLink # <<>> PROVE Up(Tail(toLink))
  BY <1>T, <1>t, HeadAndRest
<1>A. ASSUME Up(toLink), NEW f \in Frame, f.kind \in {"LT", "LA", "bad"},
             f.kind = "LT" => f.data # <<>>
      PROVE  Up(Append(toLink, f))
  BY <1>A, <1>t, OneMore
<1> HIDE DEF Down, Up, Asks
<1>1. CASE ReadRequest
  <2>1. /\ phase = "connecting" /\ toLink # <<>> /\ toLink' = Tail(toLink)
        /\ UNCHANGED <<inBuffer, keepAlive, delivered, newton>>
        /\ \/ phase' = "failed" /\ toNewton' = toNewton
           \/ phase' = "answered" /\ toNewton' = Append(toNewton, LR)
    BY <1>1 DEF ReadRequest, ReadFrame, WriteFrame
  <2>2. Down /\ newton.phase = "asking" /\ Len(toLink) = 1 /\ toNewton = <<>>
    BY <1>h, <2>1 DEF Down
  <2>3. Tail(toLink) = <<>>
    <3> DEFINE r == Tail(toLink)
    <3>1. r \in Seq(Frame) /\ Len(r) = 0
      BY <1>t, <2>1, <2>2, HeadAndRest
    <3> HIDE DEF r
    <3>2. r = <<>>
      BY <3>1
    <3> QED
      BY <3>2 DEF r
  <2>4. Asks(<<>>) /\ Asks(Append(<<>>, LR))
    <3>1. DOMAIN Append(<<>>, LR) = {1} /\ Append(<<>>, LR)[1] = LR
      OBVIOUS
    <3> QED
      BY <1>f, <3>1 DEF Asks
  <2>5. newton' = newton
    BY <2>1
  <2>6. CASE phase' = "failed" /\ toNewton' = toNewton
    BY <1>d, <1>D, <2>1, <2>2, <2>3, <2>4, <2>5, <2>6
  <2>7. CASE phase' = "answered" /\ toNewton' = Append(toNewton, LR)
    BY <1>d, <1>D, <2>1, <2>2, <2>3, <2>4, <2>5, <2>7
  <2> QED
    BY <2>1, <2>6, <2>7
<1>2. CASE ReadConfirmation \/ Read \/ ReceiveAcknowledgement \/ ReceiveData \/ ReadThrows
  <2>1. /\ newton' = newton /\ phase' # "connecting"
        /\ phase = "open" \/ (phase = "answered" /\ toLink # <<>>)
        /\ \/ toLink' = toLink
           \/ toLink # <<>> /\ toLink' = Tail(toLink)
    <3>1. CASE ReadConfirmation
      BY <3>1 DEF ReadConfirmation, ReadFrame
    <3>2. CASE Read
      BY <3>2 DEF Read
    <3>3. CASE ReceiveAcknowledgement
      BY <3>3 DEF ReceiveAcknowledgement, ReadFrame, linkVars
    <3>4. CASE ReceiveData
      BY <3>4 DEF ReceiveData, ReadFrame
    <3>5. CASE ReadThrows
      BY <3>5 DEF ReadThrows, ReadFrame
    <3> QED
      BY <1>2, <3>1, <3>2, <3>3, <3>4, <3>5
  <2>2. ~Down
    BY <1>d, <2>1
  <2>3. newton'.phase \notin {"down", "asking"}
    BY <2>1, <2>2 DEF Down
  <2>4. newton'.phase = "up" => Up(toLink')
    BY <1>u, <1>T, <2>1, <2>2
  <2> QED
    BY <1>U, <2>1, <2>3, <2>4
<1>3. CASE SetKeepAlive \/ Write \/ FlushOutput \/ Disconnect
  <2>1. phase = "open" /\ newton' = newton /\ toLink' = toLink /\ phase' # "connecting"
    BY <1>3 DEF SetKeepAlive, Write, FlushOutput, Disconnect, linkVars
  <2>2. ~Down
    BY <1>d, <2>1
  <2>3. newton'.phase \notin {"down", "asking"}
    BY <2>1, <2>2 DEF Down
  <2> QED
    BY <1>u, <1>U, <2>1, <2>2, <2>3
<1>4. CASE NewtonRequests
  <2>1. /\ newton.phase = "down" /\ newton' = [newton EXCEPT !.phase = "asking"]
        /\ UNCHANGED <<inBuffer, keepAlive, phase, delivered, toNewton>>
    BY <1>4 DEF NewtonRequests, pipeVars, linkVars
  <2>2. /\ newton'.phase = "asking" /\ newton'.index = newton.index
        /\ newton'.sent = newton.sent /\ newton'.pending = newton.pending
    BY <1>t, <2>1 DEF NewtonState
  <2>3. Down
    BY <2>1 DEF Down
  <2> QED
    BY <1>d, <1>h, <1>D, <2>1, <2>2, <2>3
<1>5. CASE NewtonSends
  <2>1. PICK count \in 1..FrameSize :
          /\ newton.phase = "up" /\ phase' = phase
          /\ newton.sent + count <= MaxBytes
          /\ toLink' = Append(toLink, LT(newton.index, Bytes(newton.sent, count)))
          /\ newton' = [newton EXCEPT !.sent = @ + count, !.index = Next1(@),
                           !.pending = Append(@, LT(newton.index, Bytes(newton.sent, count)))]
    BY <1>5 DEF NewtonSends, linkVars
  <2> DEFINE b == Bytes(newton.sent, count)
  <2>2. b \in Seq(Byte) /\ b # <<>>
    <3>1. newton.sent \in Nat /\ count \in Nat /\ newton.sent + count <= MaxBytes
      BY <1>t, <1>f, <2>1, Constants
    <3>2. b \in Seq(Byte)
      BY <3>1, BytesFollow
    <3>3. 1 \in DOMAIN b
      BY <2>1 DEF Bytes
    <3> QED
      BY <3>2, <3>3
  <2> HIDE DEF b
  <2>3. LT(newton.index, b) \in Frame
    BY <1>t, <2>2, FramesTyped
  <2>4. newton'.phase = "up" /\ ~Down
    BY <1>t, <2>1 DEF NewtonState, Down
  <2>5. Up(toLink')
    BY <1>A, <1>f, <1>u, <2>1, <2>2, <2>3, <2>4 DEF b
  <2> QED
    BY <1>u, <1>U, <2>1, <2>4, <2>5
<1>6. CASE NewtonReceives
  <2> DEFINE frame == Head(toNewton)
             inOrder == frame.kind = "LT" /\ frame.index = newton.expected
  <2>1. /\ toNewton # <<>> /\ toNewton' = Tail(toNewton) /\ newton.phase # "gone"
        /\ UNCHANGED <<inBuffer, keepAlive, phase, delivered>>
        /\ \/ /\ frame.kind = "LR" /\ newton' = [newton EXCEPT !.phase = "up"]
              /\ toLink' = Append(toLink, LA(0))
           \/ /\ frame.kind = "LA" /\ toLink' = toLink
              /\ newton' = [newton EXCEPT !.pending = Acknowledged(@, frame.index)]
           \/ /\ inOrder /\ toLink' = Append(toLink, LA(frame.index))
              /\ newton' = [newton EXCEPT !.got = @ \o frame.data, !.expected = Next1(@)]
           \/ frame.kind = "LD" /\ newton' = [newton EXCEPT !.phase = "gone"]
           \/ frame.kind = "bad" /\ newton' = newton /\ toLink' = toLink
           \/ frame.kind = "LT" /\ newton' = newton /\ toLink' = toLink
    BY <1>6 DEF NewtonReceives, pipeVars, linkVars
  <2>2. frame.index \in 0..IndexSpan - 1 /\ frame = toNewton[1] /\ 1 \in DOMAIN toNewton
    <3>1. frame \in Frame /\ frame = toNewton[1] /\ 1 \in DOMAIN toNewton
      BY <1>t, <2>1, HeadAndRest
    <3> HIDE DEF frame
    <3> QED
      BY <3>1 DEF Frame
  <2> HIDE DEF frame
  <2>3. LA(0) \in Frame /\ LA(frame.index) \in Frame
    BY <1>f, <2>2, FramesTyped
  <2>4. CASE Down
    <3>1. phase = "answered" /\ toLink = <<>> /\ Asks(toNewton)
      BY <1>d, <2>1, <2>4
    <3>2. frame.kind \in {"LR", "bad"}
      BY <2>2, <3>1 DEF Asks
    <3>3. CASE frame.kind = "LR"
      <4>1. newton'.phase = "up" /\ toLink' = Append(<<>>, LA(0))
        BY <1>t, <2>1, <3>1, <3>3 DEF NewtonState
      <4>2. Up(<<>>)
        BY DEF Up
      <4>3. Up(toLink')
        BY <1>A, <1>f, <2>3, <3>1, <4>1, <4>2
      <4> QED
        BY <1>U, <2>1, <3>1, <4>1, <4>3
    <3>4. CASE frame.kind = "bad"
      <4>1. newton' = newton /\ toLink' = toLink
        BY <2>1, <3>4
      <4>2. Asks(Tail(toNewton))
        BY <1>t, <2>1, <3>1, HeadAndRest DEF Asks
      <4>3. newton'.phase \in {"down", "asking"}
        BY <2>4, <4>1 DEF Down
      <4> QED
        BY <1>d, <1>D, <2>1, <2>4, <3>1, <4>1, <4>2, <4>3
    <3> QED
      BY <3>2, <3>3, <3>4
  <2>5. CASE ~Down
    <3>1. phase' # "connecting" /\ newton.phase = "up" /\ Up(toLink)
      BY <1>t, <1>u, <2>1, <2>5 DEF Down
    <3>2. CASE frame.kind = "LR" /\ newton' = [newton EXCEPT !.phase = "up"]
               /\ toLink' = Append(toLink, LA(0))
      <4>1. newton'.phase = "up"
        BY <1>t, <3>2 DEF NewtonState
      <4> QED
        BY <1>A, <1>f, <1>U, <2>3, <3>1, <3>2, <4>1
    <3>3. CASE toLink' = toLink
               /\ newton' = [newton EXCEPT !.pending = Acknowledged(@, frame.index)]
      <4>1. newton'.phase = "up"
        BY <1>t, <3>1, <3>3 DEF NewtonState
      <4> QED
        BY <1>U, <3>1, <3>3, <4>1
    <3>4. CASE toLink' = Append(toLink, LA(frame.index))
               /\ newton' = [newton EXCEPT !.got = @ \o frame.data, !.expected = Next1(@)]
      <4>1. newton'.phase = "up"
        BY <1>t, <3>1, <3>4 DEF NewtonState
      <4> QED
        BY <1>A, <1>f, <1>U, <2>3, <3>1, <3>4, <4>1
    <3>5. CASE newton' = [newton EXCEPT !.phase = "gone"]
      <4>1. newton'.phase = "gone"
        BY <1>t, <3>5 DEF NewtonState
      <4> QED
        BY <1>U, <3>1, <4>1
    <3>6. CASE newton' = newton /\ toLink' = toLink
      BY <1>U, <3>1, <3>6
    <3> QED
      BY <2>1, <3>2, <3>3, <3>4, <3>5, <3>6
  <2> QED
    BY <2>4, <2>5
<1>7. CASE NewtonRepeats
  <2>1. newton.phase = "up" /\ newton' = newton /\ phase' = phase
        /\ toLink' = toLink \o newton.pending
    BY <1>7 DEF NewtonRepeats, linkVars
  <2> DEFINE p == newton.pending
  <2>2. p \in Seq(Frame) /\ \A i \in DOMAIN p : p[i].kind = "LT" /\ p[i].data # <<>>
    BY <1>t, <2>1 DEF LineIInv, Window
  <2>3. ~Down /\ Up(toLink)
    BY <1>u, <2>1 DEF Down
  <2>4. Up(toLink \o p)
    <3> DEFINE r == toLink \o p
    <3>1. /\ r \in Seq(Frame) /\ Len(r) = Len(toLink) + Len(p)
          /\ \A i \in 1..Len(toLink) + Len(p) :
               r[i] = IF i <= Len(toLink) THEN toLink[i] ELSE p[i - Len(toLink)]
      BY <1>t, <2>2, ConcatProperties
    <3> HIDE DEF r, p
    <3>2. /\ DOMAIN r = 1..Len(toLink) + Len(p) /\ DOMAIN toLink = 1..Len(toLink)
          /\ DOMAIN p = 1..Len(p) /\ Len(p) \in Nat /\ Len(toLink) \in Nat
      BY <1>t, <2>2, <3>1
    <3>3. ASSUME NEW i \in DOMAIN r
          PROVE  /\ r[i].kind \in {"LT", "LA", "bad"}
                 /\ r[i].kind = "LT" => r[i].data # <<>>
      <4>1. CASE i <= Len(toLink)
        <5>1. i \in DOMAIN toLink /\ r[i] = toLink[i]
          BY <3>1, <3>2, <3>3, <4>1
        <5> QED
          BY <2>3, <5>1 DEF Up
      <4>2. CASE ~ (i <= Len(toLink))
        <5>1. i - Len(toLink) \in DOMAIN p /\ r[i] = p[i - Len(toLink)]
          BY <3>1, <3>2, <3>3, <4>2
        <5> QED
          BY <2>2, <5>1
      <4> QED
        BY <4>1, <4>2
    <3>4. Up(r)
      BY <3>3 DEF Up
    <3> QED
      BY <3>4 DEF r
  <2> QED
    BY <1>u, <1>U, <2>1, <2>3, <2>4
<1>8. CASE NewtonHangsUp
  <2>1. newton.phase = "up" /\ phase' = phase /\ newton' = [newton EXCEPT !.phase = "gone"]
    BY <1>8 DEF NewtonHangsUp, linkVars
  <2>2. newton'.phase = "gone" /\ ~Down
    BY <1>t, <2>1 DEF NewtonState, Down
  <2> QED
    BY <1>u, <1>U, <2>1, <2>2
<1>9. CASE LineDamages
  <2>1. /\ newton' = newton /\ UNCHANGED <<inBuffer, keepAlive, phase, delivered>>
        /\ \/ /\ toLink # <<>> /\ toLink' = [toLink EXCEPT ![Len(toLink)].kind = "bad"]
              /\ toNewton' = toNewton
           \/ /\ toNewton # <<>>
              /\ toNewton' = [toNewton EXCEPT ![Len(toNewton)].kind = "bad"]
              /\ toLink' = toLink
    BY <1>9 DEF LineDamages, pipeVars, linkVars
  <2>2. CASE toLink # <<>> /\ toLink' = [toLink EXCEPT ![Len(toLink)].kind = "bad"]
             /\ toNewton' = toNewton
    <3>1. DOMAIN toLink' = DOMAIN toLink
          /\ \A i \in DOMAIN toLink : /\ toLink'[i].data = toLink[i].data
                                      /\ toLink'[i].kind = toLink[i].kind \/ toLink'[i].kind = "bad"
      BY <1>t, <2>2, Damaged
    <3>2. Up(toLink) => Up(toLink')
      BY <3>1 DEF Up
    <3>3. CASE Down
      BY <1>d, <1>D, <2>1, <2>2, <3>3 DEF Down
    <3>4. CASE ~Down
      BY <1>u, <1>U, <2>1, <3>2, <3>4 DEF Down
    <3> QED
      BY <3>3, <3>4
  <2>3. CASE toNewton # <<>> /\ toLink' = toLink
             /\ toNewton' = [toNewton EXCEPT ![Len(toNewton)].kind = "bad"]
    <3>1. DOMAIN toNewton' = DOMAIN toNewton
          /\ \A i \in DOMAIN toNewton : toNewton'[i].kind = toNewton[i].kind \/ toNewton'[i].kind = "bad"
      BY <1>t, <2>3, Damaged
    <3>2. Asks(toNewton) => Asks(toNewton')
      BY <3>1 DEF Asks
    <3>3. CASE Down
      BY <1>d, <1>D, <2>1, <2>3, <3>2, <3>3 DEF Down
    <3>4. CASE ~Down
      BY <1>u, <1>U, <2>1, <2>3, <3>4 DEF Down
    <3> QED
      BY <3>3, <3>4
  <2> QED
    BY <2>1, <2>2, <2>3
<1>10. CASE UNCHANGED vars
  <2>1. UNCHANGED <<newton, inBuffer, keepAlive, phase, delivered, toLink, toNewton>>
    BY <1>10 DEF vars, pipeVars, linkVars
  <2> QED
    BY <2>1 DEF BeforeTheAnswer
<1> QED
  BY <1>1, <1>2, <1>3, <1>4, <1>5, <1>6, <1>7, <1>8, <1>9, <1>10
  DEF MNPNext, Connecting, Reading, Writing, NewtonSide

-----------------------------------------------------------------------------
(* What a step may do to the line, for Moves.                              *)

AcksHold == Window /\ InSequence /\ Confirmed /\ AckMeansReceived

\* The first s frames towards the link are read; no data joins them.
Shifted(s) ==
  /\ Len(toLink) <= Len(toLink') + s
  /\ s = 1 => toLink # <<>>
  /\ \A i \in DOMAIN toLink' :
       IF i + s \in DOMAIN toLink
       THEN toLink'[i].data = toLink[i + s].data /\ toLink'[i].index = toLink[i + s].index
       ELSE toLink'[i].data = <<>>

\* The first u frames towards the Newton are taken; an acknowledgement that joins them
\* names the number that the pipe has.
AcksFrom(u) ==
  \A i \in Acks' : \/ i + u \in Acks /\ toNewton'[i].index = toNewton[i + u].index
                   \/ Heard' /\ toNewton'[i].index = inIndex' /\ \A j \in Acks' : j <= i

\* The number that the pipe has is that of the frame it read.
HeardFrom(s) ==
  Heard' => \/ Heard /\ inIndex' = inIndex
            \/ /\ s = 1 /\ 1 \in Carrying /\ inIndex' = toLink[1].index
               /\ ~skipped' => phase # "failed" /\ Range(toLink[1].data) \subseteq Received'

Passed(s) ==
  ~skipped' /\ phase' # "failed" =>
    phase # "failed" /\ (s = 1 => Range(toLink[1].data) \subseteq Received')

LEMMA StillMeans ==
  ASSUME AckMeansReceived, newton'.sent = newton.sent, newton'.pending = newton.pending,
         Received \subseteq Received', ~skipped' => ~skipped
  PROVE  AckMeansReceived'
<1>1. ~skipped => 1..newton.sent \subseteq Range(DataOf({"LT"}, newton.pending)) \cup Received
  BY DEF AckMeansReceived, Received
<1>2. ~skipped' => 1..newton'.sent \subseteq Range(DataOf({"LT"}, newton'.pending)) \cup Received'
  BY <1>1
<1> QED
  BY <1>2 DEF AckMeansReceived, Received

\* The Newton is not there.
LEMMA Elsewhere ==
  ASSUME newton'.phase # "up", keepAlive' => Heard', AckMeansReceived'
  PROVE  AcksHold'
BY DEF AcksHold, Window, InSequence, Confirmed

LEMMA AcksMove ==
  ASSUME LineIInv, LineIInv', AcksHold, NEW s \in {0, 1}, NEW u \in {0, 1},
         newton'.phase = newton.phase, newton'.index = newton.index,
         newton'.pending = newton.pending, newton'.sent = newton.sent,
         newton.phase = "up" => Shifted(s) /\ AcksFrom(u) /\ HeardFrom(s) /\ Passed(s),
         keepAlive' => Heard', Received \subseteq Received', ~skipped' => ~skipped
  PROVE  AcksHold'
<1>1. AckMeansReceived'
  BY StillMeans DEF AcksHold
<1>2. CASE newton.phase # "up"
  BY <1>1, <1>2, Elsewhere
<1>3. CASE newton.phase = "up"
  <2>1. toLink' \in Seq(Frame) /\ toNewton' \in Seq(Frame)
    BY DEF LineIInv, MNPIInv
  <2>2. Window' /\ InSequence' /\ Confirmed'
    BY <1>3, <2>1, Moves DEF AcksHold, Shifted, AcksFrom, HeardFrom, Passed
  <2> QED
    BY <1>1, <2>2 DEF AcksHold
<1> QED
  BY <1>2, <1>3

LEMMA Shifts ==
  ASSUME LineIInv
  PROVE  /\ toLink' = toLink => Shifted(0)
         /\ toLink # <<>> /\ toLink' = Tail(toLink) => Shifted(1)
         /\ \A f \in Frame : f.data = <<>> /\ toLink' = Append(toLink, f) => Shifted(0)
         /\ toLink # <<>> /\ toLink' = [toLink EXCEPT ![Len(toLink)].kind = "bad"] => Shifted(0)
<1>t. toLink \in Seq(Frame)
  BY Typed
<1>0. /\ DOMAIN toLink = 1..Len(toLink) /\ Len(toLink) \in Nat
      /\ \A i \in DOMAIN toLink : i + 0 = i
  BY <1>t
<1>1. ASSUME toLink' = toLink PROVE Shifted(0)
  <2>1. Len(toLink) <= Len(toLink') + 0
    BY <1>0, <1>1
  <2> QED
    BY <1>0, <1>1, <2>1 DEF Shifted
<1>2. ASSUME toLink # <<>>, toLink' = Tail(toLink) PROVE Shifted(1)
  <2>1. /\ Len(toLink') = Len(toLink) - 1
        /\ \A i \in DOMAIN toLink' : i + 1 \in DOMAIN toLink /\ toLink'[i] = toLink[i + 1]
    BY <1>t, <1>2, HeadAndRest
  <2>2. Len(toLink) <= Len(toLink') + 1
    BY <1>0, <2>1
  <2> QED
    BY <1>2, <2>1, <2>2 DEF Shifted
<1>3. ASSUME NEW f \in Frame, f.data = <<>>, toLink' = Append(toLink, f) PROVE Shifted(0)
  <2>1. /\ Len(toLink') = Len(toLink) + 1 /\ DOMAIN toLink' = 1..Len(toLink) + 1
        /\ \A i \in DOMAIN toLink' : toLink'[i] = IF i = Len(toLink) + 1 THEN f ELSE toLink[i]
    BY <1>t, <1>3, OneMore
  <2>2. Len(toLink) <= Len(toLink') + 0
    BY <1>0, <2>1
  <2>3. ASSUME NEW i \in DOMAIN toLink'
        PROVE  IF i + 0 \in DOMAIN toLink
               THEN toLink'[i].data = toLink[i + 0].data /\ toLink'[i].index = toLink[i + 0].index
               ELSE toLink'[i].data = <<>>
    <3>1. i + 0 = i /\ (i \in DOMAIN toLink <=> i # Len(toLink) + 1)
      BY <1>0, <2>1
    <3> QED
      BY <1>3, <2>1, <3>1
  <2> QED
    BY <2>2, <2>3 DEF Shifted
<1>4. ASSUME toLink # <<>>, toLink' = [toLink EXCEPT ![Len(toLink)].kind = "bad"]
      PROVE  Shifted(0)
  <2>1. /\ Len(toLink') = Len(toLink) /\ DOMAIN toLink' = DOMAIN toLink
        /\ \A i \in DOMAIN toLink : toLink'[i].data = toLink[i].data
                                    /\ toLink'[i].index = toLink[i].index
    BY <1>t, <1>4, Damaged
  <2>2. Len(toLink) <= Len(toLink') + 0
    BY <1>0, <2>1
  <2> QED
    BY <1>0, <2>1, <2>2 DEF Shifted
<1> QED
  BY <1>1, <1>2, <1>3, <1>4

LEMMA AcksShift ==
  ASSUME LineIInv
  PROVE  /\ toNewton' = toNewton => AcksFrom(0)
         /\ toNewton # <<>> /\ toNewton' = Tail(toNewton) => AcksFrom(1)
         /\ \A f \in Frame : toNewton' = Append(toNewton, f) =>
              (f.kind # "LA" \/ (Heard' /\ f.index = inIndex') => AcksFrom(0))
         /\ toNewton # <<>> /\ toNewton' = [toNewton EXCEPT ![Len(toNewton)].kind = "bad"]
              => AcksFrom(0)
<1>t. toNewton \in Seq(Frame)
  BY Typed
<1>0. /\ DOMAIN toNewton = 1..Len(toNewton) /\ Len(toNewton) \in Nat
      /\ \A i \in DOMAIN toNewton : i + 0 = i
  BY <1>t
<1>1. ASSUME toNewton' = toNewton PROVE AcksFrom(0)
  BY <1>0, <1>1 DEF AcksFrom, Acks
<1>2. ASSUME toNewton # <<>>, toNewton' = Tail(toNewton) PROVE AcksFrom(1)
  <2>1. \A i \in DOMAIN toNewton' : i + 1 \in DOMAIN toNewton /\ toNewton'[i] = toNewton[i + 1]
    BY <1>t, <1>2, HeadAndRest
  <2> QED
    BY <2>1 DEF AcksFrom, Acks
<1>3. ASSUME NEW f \in Frame, f.kind # "LA" \/ (Heard' /\ f.index = inIndex'),
             toNewton' = Append(toNewton, f)
      PROVE  AcksFrom(0)
  <2>1. /\ DOMAIN toNewton' = 1..Len(toNewton) + 1
        /\ \A i \in DOMAIN toNewton' : toNewton'[i] = IF i = Len(toNewton) + 1 THEN f ELSE toNewton[i]
    BY <1>t, <1>3, OneMore
  <2>2. ASSUME NEW i \in Acks'
        PROVE  \/ i + 0 \in Acks /\ toNewton'[i].index = toNewton[i + 0].index
               \/ Heard' /\ toNewton'[i].index = inIndex' /\ \A j \in Acks' : j <= i
    <3>1. i \in DOMAIN toNewton' /\ toNewton'[i].kind = "LA"
      BY <2>2 DEF Acks
    <3>2. CASE i = Len(toNewton) + 1
      <4>1. toNewton'[i] = f
        BY <2>1, <3>1, <3>2
      <4>2. \A j \in Acks' : j <= i
        BY <1>0, <2>1, <3>2 DEF Acks
      <4> QED
        BY <1>3, <3>1, <4>1, <4>2
    <3>3. CASE i # Len(toNewton) + 1
      <4>1. i \in DOMAIN toNewton /\ toNewton'[i] = toNewton[i] /\ i + 0 = i
        BY <1>0, <2>1, <3>1, <3>3
      <4> QED
        BY <3>1, <4>1 DEF Acks
    <3> QED
      BY <3>2, <3>3
  <2> QED
    BY <2>2 DEF AcksFrom
<1>4. ASSUME toNewton # <<>>, toNewton' = [toNewton EXCEPT ![Len(toNewton)].kind = "bad"]
      PROVE  AcksFrom(0)
  <2>1. /\ DOMAIN toNewton' = DOMAIN toNewton
        /\ \A i \in DOMAIN toNewton :
             /\ toNewton'[i].index = toNewton[i].index
             /\ toNewton'[i].kind = toNewton[i].kind \/ toNewton'[i].kind = "bad"
    BY <1>t, <1>4, Damaged
  <2> QED
    BY <1>0, <2>1 DEF AcksFrom, Acks
<1> QED
  BY <1>1, <1>2, <1>3, <1>4

\* A Write adds no acknowledgement.
LEMMA AcksWrite ==
  ASSUME LineIInv, NEW q \in Seq(Frame), \A i \in DOMAIN q : q[i].kind # "LA",
         toNewton' = toNewton \o q
  PROVE  AcksFrom(0)
<1>t. /\ toNewton \in Seq(Frame) /\ DOMAIN toNewton = 1..Len(toNewton) /\ Len(toNewton) \in Nat
      /\ DOMAIN q = 1..Len(q) /\ Len(q) \in Nat
  <2>1. toNewton \in Seq(Frame)
    BY Typed
  <2> QED
    BY <2>1
<1>1. /\ toNewton' \in Seq(Frame) /\ Len(toNewton') = Len(toNewton) + Len(q)
      /\ \A i \in 1..Len(toNewton) + Len(q) :
           toNewton'[i] = IF i <= Len(toNewton) THEN toNewton[i] ELSE q[i - Len(toNewton)]
  BY <1>t, ConcatProperties
<1>2. DOMAIN toNewton' = 1..Len(toNewton) + Len(q)
  BY <1>1
<1>3. ASSUME NEW i \in Acks' PROVE i + 0 \in Acks /\ toNewton'[i].index = toNewton[i + 0].index
  <2>1. i \in DOMAIN toNewton' /\ toNewton'[i].kind = "LA"
    BY <1>3 DEF Acks
  <2>2. CASE i <= Len(toNewton)
    <3>1. i \in DOMAIN toNewton /\ toNewton'[i] = toNewton[i] /\ i + 0 = i
      BY <1>t, <1>1, <1>2, <2>1, <2>2
    <3> QED
      BY <2>1, <3>1 DEF Acks
  <2>3. CASE ~ (i <= Len(toNewton))
    <3>1. i - Len(toNewton) \in DOMAIN q /\ toNewton'[i] = q[i - Len(toNewton)]
      BY <1>t, <1>1, <1>2, <2>1, <2>3
    <3> QED
      BY <2>1, <3>1
  <2> QED
    BY <2>2, <2>3
<1> QED
  BY <1>3 DEF AcksFrom

\* What Read copies stays received.
LEMMA CopyKeeps ==
  ASSUME LineIInv, NEW d \in Seq(Byte), NEW wanted \in 1..CommandSize, CopyData(d, wanted),
         d = inBuffer \/ inBuffer = <<>>
  PROVE  /\ Received' = Range(delivered) \cup Range(d)
         /\ Received \subseteq Received'
         /\ Heard' <=> delivered # <<>> \/ d # <<>>
         /\ Heard => Heard'
<1>t. delivered \in Seq(Byte) /\ inBuffer \in Seq(Byte)
  BY Typed
<1>1. delivered' \in Seq(Byte) /\ inBuffer' \in Seq(Byte) /\ delivered' \o inBuffer' = delivered \o d
  BY <1>t, CopyTyped
<1>2. \A u, v \in Seq(Byte) : /\ Range(u \o v) = Range(u) \cup Range(v)
                              /\ (u \o v = <<>> <=> u = <<>> /\ v = <<>>)
  <2>1. ASSUME NEW u \in Seq(Byte), NEW v \in Seq(Byte)
        PROVE  Range(u \o v) = Range(u) \cup Range(v)
    BY <2>1, RangeConcat
  <2>2. ASSUME NEW u \in Seq(Byte), NEW v \in Seq(Byte)
        PROVE  u \o v = <<>> <=> u = <<>> /\ v = <<>>
    BY <2>2
  <2> QED
    BY <2>1, <2>2
<1>3. Received' = Range(delivered) \cup Range(d) /\ Received = Range(delivered) \cup Range(inBuffer)
  BY <1>t, <1>1, <1>2 DEF Received
<1>4. Range(<<>>) = {}
  BY DEF Range
<1>5. Received \subseteq Received'
  BY <1>3, <1>4
<1>6. Heard' <=> ~ (delivered = <<>> /\ d = <<>>)
  BY <1>t, <1>1, <1>2 DEF Heard
<1> QED
  BY <1>3, <1>5, <1>6 DEF Heard

\* The Newton is answered: nothing was numbered yet.
LEMMA ComesUp ==
  ASSUME LineIInv, newton.pending = <<>>, newton.sent = 0, ~keepAlive, ~Heard,
         toLink = <<>>, \A i \in DOMAIN toNewton : toNewton[i].kind \in {"LR", "bad"},
         toNewton # <<>>, toNewton' = Tail(toNewton), toLink' = Append(toLink, LA(0)),
         newton'.pending = newton.pending, newton'.sent = newton.sent,
         UNCHANGED <<inBuffer, delivered, keepAlive>>
  PROVE  AcksHold'
<1>t. toLink \in Seq(Frame) /\ toNewton \in Seq(Frame)
  BY Typed
<1>1. Acks' = {}
  <2>1. \A i \in DOMAIN toNewton' : i + 1 \in DOMAIN toNewton /\ toNewton'[i] = toNewton[i + 1]
    BY <1>t, HeadAndRest
  <2>2. \A i \in DOMAIN toNewton' : toNewton'[i].kind # "LA"
    BY <2>1
  <2> QED
    BY <2>2 DEF Acks
<1>2. Carrying' = {}
  <2>1. DOMAIN toLink' = {1} /\ toLink'[1] = LA(0)
    OBVIOUS
  <2>2. LA(0).data = <<>>
    BY FrameFields
  <2> QED
    BY <2>1, <2>2 DEF Carrying
<1>3. ~Heard' /\ ~keepAlive'
  BY DEF Heard
<1>4. newton'.pending = <<>> /\ newton'.sent = 0 /\ Len(<<>>) <= Credits /\ DOMAIN <<>> = {}
  BY Constants
<1>5. Window'
  BY <1>1, <1>2, <1>3, <1>4 DEF Window
<1>6. InSequence'
  BY <1>1, <1>2, <1>3 DEF InSequence
<1>7. Confirmed'
  BY <1>1, <1>2, <1>3, <1>4 DEF Confirmed
<1>8. AckMeansReceived'
  <2>1. 1..newton'.sent = {}
    BY <1>4
  <2> QED
    BY <2>1 DEF AckMeansReceived
<1> QED
  BY <1>5, <1>6, <1>7, <1>8 DEF AcksHold

\* What the Newton sends it keeps.
LEMMA SendsMeans ==
  ASSUME LineIInv, AckMeansReceived, NEW count \in Nat, newton.sent + count <= MaxBytes,
         NEW f \in Frame, f.kind = "LT", f.data = Bytes(newton.sent, count),
         newton'.sent = newton.sent + count, newton'.pending = Append(newton.pending, f),
         Received' = Received, skipped' = skipped
  PROVE  AckMeansReceived'
<1> DEFINE p == newton.pending
           b == Bytes(newton.sent, count)
           s == DataOf({"LT"}, p)
<1>t. p \in Seq(Frame) /\ newton.sent \in Nat
  <2>1. p \in Seq(Frame) /\ newton.sent \in 0..MaxBytes
    BY Typed
  <2> QED
    BY <2>1
<1>1. DataOf({"LT"}, newton'.pending) = s \o b
  BY <1>t, DataAppend DEF Chunk
<1>2. s \in Seq(Byte) /\ b \in Seq(Byte)
  BY <1>t, DataTyped, BytesFollow
<1>3. Range(b) = newton.sent + 1..newton.sent + count
  <2>1. \A i \in 1..count : b[i] = newton.sent + i
    BY DEF Bytes
  <2>2. DOMAIN b = 1..count
    BY DEF Bytes
  <2>3. ASSUME NEW x \in newton.sent + 1..newton.sent + count PROVE \E i \in DOMAIN b : b[i] = x
    <3>1. x - newton.sent \in 1..count /\ newton.sent + (x - newton.sent) = x
      BY <1>t
    <3> QED
      BY <2>1, <2>2, <3>1
  <2>4. ASSUME NEW i \in DOMAIN b PROVE b[i] \in newton.sent + 1..newton.sent + count
    <3>1. i \in 1..count /\ b[i] = newton.sent + i
      BY <2>1, <2>2, <2>4
    <3> HIDE DEF b
    <3> QED
      BY <1>t, <3>1
  <2> HIDE DEF b
  <2> QED
    BY <2>3, <2>4 DEF Range
<1> HIDE DEF s, b
<1>4. Range(s \o b) = Range(s) \cup Range(b)
  BY <1>2, RangeConcat
<1>5. ~skipped => 1..newton.sent \subseteq Range(s) \cup Received
  BY DEF AckMeansReceived, Received, s
<1>6. 1..newton.sent + count = 1..newton.sent \cup newton.sent + 1..newton.sent + count
  BY <1>t
<1>7. ~skipped' => 1..newton'.sent \subseteq Range(DataOf({"LT"}, newton'.pending)) \cup Received'
  BY <1>1, <1>3, <1>4, <1>5, <1>6
<1> QED
  BY <1>7 DEF AckMeansReceived, Received

\* The pipe's steps and those of the line.
LEMMA StepAcks ==
  ASSUME LineIInv, LineIInv', HandshakeIsFirst, BeforeTheAnswer, AcksHold, [MNPNext]_vars
  PROVE  AcksHold'
<1> USE DEF pipeVars, linkVars, faultVars
<1>t. /\ toLink \in Seq(Frame) /\ toNewton \in Seq(Frame) /\ newton \in NewtonState
      /\ newton.phase \in {"down", "asking", "up", "gone"} /\ newton.pending \in Seq(Frame)
      /\ newton.index \in 0..IndexSpan - 1 /\ newton.sent \in 0..MaxBytes
      /\ phase \in {"connecting", "answered", "open", "closed", "failed"}
      /\ inBuffer \in Seq(Byte) /\ delivered \in Seq(Byte) /\ inIndex \in 0..IndexSpan - 1
      /\ outBuffer \in Seq(Byte) /\ outIndex \in 0..IndexSpan - 1
      /\ left \in 0..CommandSize /\ (left > 0 => inBuffer = <<>>)
  BY Typed
<1>f. /\ FrameSize \in Nat /\ CommandSize \in 1..CommandSize
      /\ \A i, d : LT(i, d).kind = "LT" /\ LT(i, d).index = i /\ LT(i, d).data = d
      /\ \A i : LA(i).kind = "LA" /\ LA(i).index = i /\ LA(i).data = <<>>
      /\ LR.kind = "LR" /\ LR.data = <<>> /\ LD.kind = "LD" /\ LD.data = <<0>>
      /\ 0 \in 0..IndexSpan - 1 /\ 1 \in 0..IndexSpan - 1
      /\ LR \in Frame /\ LD \in Frame /\ \A i \in 0..IndexSpan - 1 : LA(i) \in Frame
  <2>1. \A i : LA(i).index = i
    BY DEF LA
  <2>2. CommandSize \in 1..CommandSize
    BY Constants
  <2> QED
    BY <2>1, <2>2, FrameFields, FramesTyped, Constants
<1>w. Window /\ InSequence /\ Confirmed /\ AckMeansReceived
  BY DEF AcksHold
<1>k. keepAlive => Heard
  BY <1>w DEF Window
<1>d. newton.phase \in {"down", "asking"} =>
        /\ phase \in {"connecting", "answered", "failed"}
        /\ phase # "answered" => toNewton = <<>>
        /\ phase # "connecting" => toLink = <<>>
        /\ newton.sent = 0 /\ newton.pending = <<>>
        /\ ~Heard /\ ~keepAlive
        /\ \A i \in DOMAIN toNewton : toNewton[i].kind \in {"LR", "bad"}
  BY DEF BeforeTheAnswer, Heard
<1>u. newton.phase = "up" =>
        \A i \in DOMAIN toLink : /\ toLink[i].kind \in {"LT", "LA", "bad"}
                                 /\ toLink[i].kind = "LT" => toLink[i].data # <<>>
  BY DEF BeforeTheAnswer
<1>x. /\ phase = "connecting" => newton.phase \in {"down", "asking"}
      /\ phase = "answered" /\ newton.phase = "up" => toLink # <<>> /\ toLink[1].data = <<>>
  BY DEF HandshakeIsFirst
<1>h. toLink # <<>> => /\ Head(toLink) \in Frame /\ Head(toLink) = toLink[1] /\ 1 \in DOMAIN toLink
                       /\ Head(toLink).kind \in {"LR", "LA"} => Head(toLink).data = <<>>
                       /\ Head(toLink).index \in 0..IndexSpan - 1
                       /\ Head(toLink).data \in Seq(Byte)
  BY <1>t, LineParts, LinkTakes, HeadAndRest
<1>e. Range(<<>>) = {}
  BY DEF Range
<1>s. ASSUME UNCHANGED <<inBuffer, delivered>>
      PROVE  (Heard' <=> Heard) /\ Received' = Received
  BY <1>s DEF Heard, Received
<1>n. ASSUME newton' = newton
      PROVE  /\ newton'.phase = newton.phase /\ newton'.index = newton.index
             /\ newton'.pending = newton.pending /\ newton'.sent = newton.sent
  BY <1>n
\* The Newton is not there, or what it keeps does not change.
<1>E. ASSUME newton'.phase # "up", keepAlive' => Heard', newton'.sent = newton.sent,
             newton'.pending = newton.pending, Received \subseteq Received', ~skipped' => ~skipped
      PROVE  AcksHold'
  BY <1>w, <1>E, StillMeans, Elsewhere
<1>M. ASSUME NEW s \in {0, 1}, NEW u \in {0, 1},
             newton'.phase = newton.phase, newton'.index = newton.index,
             newton'.pending = newton.pending, newton'.sent = newton.sent,
             newton.phase = "up" => Shifted(s) /\ AcksFrom(u) /\ HeardFrom(s) /\ Passed(s),
             keepAlive' => Heard', Received \subseteq Received', ~skipped' => ~skipped
      PROVE  AcksHold'
  BY <1>M, AcksMove
<1>1. CASE ReadRequest
  <2>1. phase = "connecting" /\ newton' = newton
        /\ UNCHANGED <<inBuffer, keepAlive, delivered, skipped>>
    BY <1>1 DEF ReadRequest
  <2>2. newton'.phase # "up"
    BY <1>x, <2>1
  <2> QED
    BY <1>E, <1>k, <1>n, <1>s, <2>1, <2>2
<1>2. CASE ReadConfirmation
  <2>1. /\ phase = "answered" /\ newton' = newton /\ toLink # <<>> /\ toLink' = Tail(toLink)
        /\ UNCHANGED <<inBuffer, inIndex, keepAlive, delivered, toNewton, skipped>>
    BY <1>2 DEF ReadConfirmation, ReadFrame
  <2>2. (Heard' <=> Heard) /\ Received' = Received
    BY <1>s, <2>1
  <2>3. Shifted(1) /\ AcksFrom(0)
    BY <2>1, Shifts, AcksShift
  <2>4. HeardFrom(1)
    BY <2>1, <2>2 DEF HeardFrom
  <2>5. newton.phase = "up" => Passed(1)
    <3>1. newton.phase = "up" => Range(toLink[1].data) \subseteq Received'
      BY <1>e, <1>x, <2>1
    <3> QED
      BY <2>1, <3>1 DEF Passed
  <2> QED
    BY <1>M, <1>k, <1>n, <2>1, <2>2, <2>3, <2>4, <2>5
<1>3. CASE Read
  <2>1. /\ phase = "open" /\ CopyData(inBuffer, CommandSize)
        /\ UNCHANGED <<phase, inIndex, keepAlive, toLink, toNewton, newton, skipped>>
    BY <1>3 DEF Read
  <2>2. /\ Received' = Range(delivered) \cup Range(inBuffer) /\ Received \subseteq Received'
        /\ Heard' <=> delivered # <<>> \/ inBuffer # <<>>
    BY <1>f, <1>t, <2>1, CopyKeeps
  <2>3. Heard' <=> Heard
    BY <2>2 DEF Heard
  <2>4. Shifted(0) /\ AcksFrom(0)
    BY <2>1, Shifts, AcksShift
  <2>5. HeardFrom(0) /\ Passed(0)
    BY <2>1, <2>3 DEF HeardFrom, Passed
  <2> QED
    BY <1>M, <1>k, <1>n, <2>1, <2>2, <2>3, <2>4, <2>5
<1>4. CASE ReceiveAcknowledgement
  <2>1. /\ toLink # <<>> /\ toLink' = Tail(toLink) /\ Head(toLink).kind = "LA"
        /\ toNewton' = toNewton \/ (keepAlive /\ toNewton' = Append(toNewton, LA(inIndex)))
        /\ UNCHANGED <<phase, inIndex, keepAlive, inBuffer, delivered, newton, skipped>>
        /\ phase = "open"
    BY <1>4 DEF ReceiveAcknowledgement, ReadFrame, SendACK, WriteFrame
  <2>2. (Heard' <=> Heard) /\ Received' = Received
    BY <1>s, <2>1
  <2>3. Shifted(1)
    BY <2>1, Shifts
  <2>4. AcksFrom(0)
    <3>1. CASE toNewton' = toNewton
      BY <3>1, AcksShift
    <3>2. CASE keepAlive /\ toNewton' = Append(toNewton, LA(inIndex))
      <4>1. Heard' /\ LA(inIndex) \in Frame /\ LA(inIndex).index = inIndex'
        BY <1>f, <1>k, <1>t, <2>1, <2>2, <3>2
      <4> QED
        BY <3>2, <4>1, AcksShift
    <3> QED
      BY <2>1, <3>1, <3>2
  <2>5. HeardFrom(1)
    BY <2>1, <2>2 DEF HeardFrom
  <2>6. Passed(1)
    <3>1. Range(toLink[1].data) \subseteq Received'
      BY <1>e, <1>h, <2>1
    <3> QED
      BY <2>1, <3>1 DEF Passed
  <2> QED
    BY <1>M, <1>k, <1>n, <2>1, <2>2, <2>3, <2>4, <2>5, <2>6
<1>5. CASE ReceiveData
  <2> DEFINE g == Head(toLink)
  <2>1. /\ phase = "open" /\ left > 0 /\ toLink # <<>> /\ toLink' = Tail(toLink)
        /\ g.kind \in Kinds \ {"LA", "bad"} /\ inIndex' = g.index
        /\ toNewton' = Append(toNewton, LA(g.index)) /\ CopyData(g.data, left)
        /\ UNCHANGED <<phase, keepAlive, newton, skipped>>
    BY <1>5 DEF ReceiveData, ReadFrame, SendACK, WriteFrame
  <2>2. /\ g = toLink[1] /\ 1 \in DOMAIN toLink /\ g.index \in 0..IndexSpan - 1
        /\ g.data \in Seq(Byte)
    BY <1>h, <2>1
  <2>3. left \in 1..CommandSize /\ inBuffer = <<>>
    BY <1>t, <2>1, Constants
  <2> HIDE DEF g
  <2>4. /\ Received' = Range(delivered) \cup Range(g.data) /\ Received \subseteq Received'
        /\ Heard' <=> delivered # <<>> \/ g.data # <<>>
        /\ Heard => Heard'
    BY <2>1, <2>2, <2>3, CopyKeeps
  <2>5. Shifted(1)
    BY <2>1, Shifts
  <2>6. newton.phase = "up" => g.data # <<>>
    BY <1>u, <2>1, <2>2 DEF Kinds
  <2>7. newton.phase = "up" => AcksFrom(0)
    <3>1. LA(g.index) \in Frame /\ LA(g.index).index = inIndex'
      BY <1>f, <2>1, <2>2
    <3> QED
      BY <2>1, <2>4, <2>6, <3>1, AcksShift
  <2>8. newton.phase = "up" => HeardFrom(1) /\ Passed(1)
    <3>1. newton.phase = "up" => 1 \in Carrying
      BY <2>2, <2>6 DEF Carrying
    <3>2. Range(toLink[1].data) \subseteq Received'
      BY <2>2, <2>4
    <3> QED
      BY <2>1, <2>2, <3>1, <3>2 DEF HeardFrom, Passed
  <2> QED
    BY <1>M, <1>k, <1>n, <2>1, <2>4, <2>5, <2>7, <2>8
<1>6. CASE ReadThrows
  <2>1. /\ toLink # <<>> /\ toLink' = Tail(toLink)
        /\ UNCHANGED <<inIndex, keepAlive, inBuffer, delivered, toNewton, newton>>
        /\ (phase' = "failed" /\ (skipped' <=> skipped)) \/ skipped'
    BY <1>6 DEF ReadThrows, ReadFrame
  <2>2. (Heard' <=> Heard) /\ Received' = Received
    BY <1>s, <2>1
  <2>3. Shifted(1) /\ AcksFrom(0)
    BY <2>1, Shifts, AcksShift
  <2>4. HeardFrom(1)
    BY <2>1, <2>2 DEF HeardFrom
  <2>5. Passed(1)
    BY <2>1 DEF Passed
  <2> QED
    BY <1>M, <1>k, <1>n, <2>1, <2>2, <2>3, <2>4, <2>5
<1>7. CASE SetKeepAlive
  <2>1. /\ delivered # <<>>
        /\ UNCHANGED <<phase, inIndex, inBuffer, delivered, toLink, toNewton, newton, skipped>>
    BY <1>7 DEF SetKeepAlive
  <2>2. Heard' /\ Heard /\ Received' = Received
    BY <1>s, <2>1 DEF Heard
  <2>3. Shifted(0) /\ AcksFrom(0)
    BY <2>1, Shifts, AcksShift
  <2>4. HeardFrom(0) /\ Passed(0)
    BY <2>1, <2>2 DEF HeardFrom, Passed
  <2> QED
    BY <1>M, <1>n, <2>1, <2>2, <2>3, <2>4
<1>8. CASE Write \/ FlushOutput \/ Disconnect
  <2>1. /\ UNCHANGED <<inIndex, inBuffer, delivered, keepAlive, toLink, newton, skipped>>
        /\ phase = "open"
    BY <1>8 DEF Write, FlushOutput, Disconnect
  <2>2. (Heard' <=> Heard) /\ Received' = Received
    BY <1>s, <2>1
  <2>3. Shifted(0)
    BY <2>1, Shifts
  <2>4. HeardFrom(0) /\ Passed(0)
    BY <2>1, <2>2 DEF HeardFrom, Passed
  <2>5. AcksFrom(0)
    <3>1. CASE Write
      <4>1. PICK count \in 1..MaxBytes - written :
              toNewton' = toNewton \o FullFrames(outBuffer \o Bytes(written, count))
        BY <3>1 DEF Write
      <4> DEFINE data == outBuffer \o Bytes(written, count)
                 sent == Len(data) \div Capacity
      <4>2. /\ data \in Seq(Byte) /\ sent \in Nat /\ sent * Capacity <= Len(data)
            /\ FullFrames(data) = FirstFrames(data, sent)
        BY WriteBytes
      <4> HIDE DEF data, sent
      <4> DEFINE q == FirstFrames(data, sent)
      <4>3. /\ q \in Seq(Frame) /\ Len(q) = sent
            /\ \A i \in 1..sent : q[i] = LT((outIndex + i - 1) % IndexSpan,
                                            SubSeq(data, (i - 1) * Capacity + 1, i * Capacity))
        BY <1>t, <4>2, FirstFramesTyped
      <4> HIDE DEF q
      <4>4. DOMAIN q = 1..sent
        BY <4>3
      <4>5. \A i \in DOMAIN q : q[i].kind # "LA"
        BY <1>f, <4>3, <4>4
      <4>6. toNewton' = toNewton \o q
        BY <4>1, <4>2 DEF data, q
      <4> QED
        BY <4>3, <4>5, <4>6, AcksWrite
    <3>2. CASE FlushOutput
      <4>1. LT(outIndex, outBuffer) \in Frame /\ toNewton' = Append(toNewton, LT(outIndex, outBuffer))
        BY <1>t, <3>2, FramesTyped DEF FlushOutput, WriteFrame
      <4>2. LT(outIndex, outBuffer).kind # "LA"
        BY <1>f
      <4> QED
        BY <4>1, <4>2, AcksShift
    <3>3. CASE Disconnect
      <4>1. LD \in Frame /\ LD.kind # "LA" /\ toNewton' = Append(toNewton, LD)
        BY <1>f, <3>3 DEF Disconnect, WriteFrame
      <4> QED
        BY <4>1, AcksShift
    <3> QED
      BY <1>8, <3>1, <3>2, <3>3
  <2>6. phase' = phase \/ phase' = "closed"
    BY <1>8 DEF Write, FlushOutput, Disconnect
  <2> QED
    BY <1>M, <1>k, <1>n, <2>1, <2>2, <2>3, <2>4, <2>5
<1>9. CASE NewtonRequests \/ NewtonHangsUp
  <2>1. /\ UNCHANGED <<inBuffer, delivered, keepAlive, skipped>>
        /\ \/ newton' = [newton EXCEPT !.phase = "asking"]
           \/ newton' = [newton EXCEPT !.phase = "gone"]
    BY <1>9 DEF NewtonRequests, NewtonHangsUp
  <2>2. /\ newton'.phase # "up" /\ newton'.sent = newton.sent
        /\ newton'.pending = newton.pending
    BY <1>t, <2>1 DEF NewtonState
  <2> QED
    BY <1>E, <1>k, <1>s, <2>1, <2>2
<1>10. CASE NewtonSends
  <2>1. PICK count \in 1..FrameSize :
          /\ newton.phase = "up" /\ Len(newton.pending) < Credits
          /\ newton.sent + count <= MaxBytes
          /\ toLink' = Append(toLink, LT(newton.index, Bytes(newton.sent, count)))
          /\ newton' = [newton EXCEPT !.sent = @ + count, !.index = Next1(@),
                           !.pending = Append(@, LT(newton.index, Bytes(newton.sent, count)))]
          /\ UNCHANGED <<inBuffer, inIndex, keepAlive, phase, delivered, toNewton, skipped>>
    BY <1>10 DEF NewtonSends
  <2> DEFINE b == Bytes(newton.sent, count)
             f == LT(newton.index, b)
  <2>2. b \in Seq(Byte) /\ b # <<>> /\ count \in Nat
    <3>1. newton.sent \in Nat /\ count \in Nat /\ newton.sent + count <= MaxBytes
      <4>1. newton.sent \in 0..MaxBytes /\ count \in 1..FrameSize
        BY <1>t, <2>1
      <4> QED
        BY <2>1, <4>1
    <3>2. b \in Seq(Byte)
      BY <3>1, BytesFollow
    <3>3. 1 \in DOMAIN b
      BY <2>1 DEF Bytes
    <3> QED
      BY <3>1, <3>2, <3>3
  <2>3. f \in Frame /\ f.kind = "LT" /\ f.index = newton.index /\ f.data = b
    <3> HIDE DEF b
    <3> QED
      BY <1>f, <1>t, <2>2, FramesTyped
  <2>4. /\ newton'.sent = newton.sent + count /\ newton'.index = Next1(newton.index)
        /\ newton'.pending = Append(newton.pending, f) /\ toLink' = Append(toLink, f)
    <3> HIDE DEF f
    <3>1. /\ newton' = [newton EXCEPT !.sent = @ + count, !.index = Next1(@),
                                      !.pending = Append(@, f)]
          /\ toLink' = Append(toLink, f)
      BY <2>1 DEF f
    <3> QED
      BY <1>t, <3>1 DEF NewtonState
  <2>5. Received' = Received
    BY <1>s, <2>1
  <2> HIDE DEF f
  <2>6. Window' /\ InSequence' /\ Confirmed'
    <3>1. f.data # <<>>
      BY <2>2, <2>3
    <3> QED
      BY <1>w, <2>1, <2>3, <2>4, <3>1, Sends
  <2>7. AckMeansReceived'
    BY <1>w, <2>1, <2>2, <2>3, <2>4, <2>5, SendsMeans
  <2> QED
    BY <2>6, <2>7 DEF AcksHold
<1>11. CASE NewtonReceives
  <2> DEFINE frame == Head(toNewton)
             inOrder == frame.kind = "LT" /\ frame.index = newton.expected
  <2>1. /\ toNewton # <<>> /\ toNewton' = Tail(toNewton) /\ newton.phase # "gone"
        /\ UNCHANGED <<inBuffer, inIndex, keepAlive, phase, delivered, skipped>>
        /\ \/ /\ frame.kind = "LR" /\ newton' = [newton EXCEPT !.phase = "up"]
              /\ toLink' = Append(toLink, LA(0))
           \/ /\ frame.kind = "LA" /\ toLink' = toLink
              /\ newton' = [newton EXCEPT !.pending = Acknowledged(@, frame.index)]
           \/ /\ inOrder /\ toLink' = Append(toLink, LA(frame.index))
              /\ newton' = [newton EXCEPT !.got = @ \o frame.data, !.expected = Next1(@)]
           \/ /\ frame.kind = "LD" /\ newton' = [newton EXCEPT !.phase = "gone"]
           \/ /\ frame.kind \in {"bad", "LT"} /\ newton' = newton /\ toLink' = toLink
    BY <1>11 DEF NewtonReceives
  <2>2. /\ frame.index \in 0..IndexSpan - 1 /\ frame = toNewton[1] /\ 1 \in DOMAIN toNewton
        /\ frame.kind \in Kinds
    <3>1. frame \in Frame /\ frame = toNewton[1] /\ 1 \in DOMAIN toNewton
      BY <1>t, <2>1, HeadAndRest
    <3> HIDE DEF frame
    <3> QED
      BY <3>1 DEF Frame
  <2> HIDE DEF frame
  <2>3. (Heard' <=> Heard) /\ Received' = Received /\ (keepAlive' => Heard')
    BY <1>k, <1>s, <2>1
  <2>4. AcksFrom(1)
    BY <2>1, AcksShift
  <2>5. HeardFrom(0) /\ Passed(0)
    BY <2>1, <2>3 DEF HeardFrom, Passed
  <2>6. ASSUME Shifted(0), newton'.phase = newton.phase, newton'.index = newton.index,
               newton'.pending = newton.pending, newton'.sent = newton.sent
        PROVE  AcksHold'
    BY <1>M, <2>1, <2>3, <2>4, <2>5, <2>6
  <2>7. CASE newton.phase \in {"down", "asking"}
    <3>1. /\ newton.sent = 0 /\ newton.pending = <<>> /\ ~Heard /\ ~keepAlive
          /\ toLink = <<>>
          /\ \A i \in DOMAIN toNewton : toNewton[i].kind \in {"LR", "bad"}
      BY <1>d, <2>1, <2>7
    <3>2. CASE frame.kind = "LR"
      <4>1. newton'.pending = newton.pending /\ newton'.sent = newton.sent
            /\ toLink' = Append(toLink, LA(0))
        BY <1>t, <2>1, <3>2 DEF NewtonState
      <4> QED
        BY <2>1, <3>1, <4>1, ComesUp
    <3>3. CASE frame.kind = "bad"
      <4>1. newton' = newton /\ toLink' = toLink
        BY <2>1, <3>3
      <4>2. Shifted(0)
        BY <4>1, Shifts
      <4> QED
        BY <1>n, <2>6, <4>1, <4>2
    <3> QED
      BY <2>2, <3>1, <3>2, <3>3
  <2>8. CASE newton.phase = "up"
    <3>1. LA(0) \in Frame /\ LA(0).data = <<>> /\ LA(frame.index) \in Frame
          /\ LA(frame.index).data = <<>>
      BY <1>f, <2>2
    <3>2. CASE newton' = [newton EXCEPT !.phase = "up"] /\ toLink' = Append(toLink, LA(0))
      <4>1. /\ newton'.phase = newton.phase /\ newton'.index = newton.index
            /\ newton'.pending = newton.pending /\ newton'.sent = newton.sent
        BY <1>t, <2>8, <3>2 DEF NewtonState
      <4>2. Shifted(0)
        BY <3>1, <3>2, Shifts
      <4> QED
        BY <2>6, <4>1, <4>2
    <3>3. CASE frame.kind = "LA" /\ toLink' = toLink
               /\ newton' = [newton EXCEPT !.pending = Acknowledged(@, frame.index)]
      <4>1. /\ newton'.phase = newton.phase /\ newton'.index = newton.index
            /\ newton'.pending = Acknowledged(newton.pending, frame.index)
            /\ newton'.sent = newton.sent
        BY <1>t, <3>3 DEF NewtonState
      <4>2. CASE \E i \in DOMAIN newton.pending : newton.pending[i].index = frame.index
        <5>1. 1 \in Acks /\ frame.index = toNewton[1].index
          BY <2>2, <3>3 DEF Acks
        <5> QED
          BY <1>w, <2>1, <2>8, <3>3, <4>1, <4>2, <5>1, Acknowledges DEF AcksHold
      <4>3. CASE ~ \E i \in DOMAIN newton.pending : newton.pending[i].index = frame.index
        <5>1. newton'.pending = newton.pending
          BY <4>1, <4>3 DEF Acknowledged
        <5>2. Shifted(0)
          BY <3>3, Shifts
        <5> QED
          BY <2>6, <4>1, <5>1, <5>2
      <4> QED
        BY <4>2, <4>3
    <3>4. CASE toLink' = Append(toLink, LA(frame.index))
               /\ newton' = [newton EXCEPT !.got = @ \o frame.data, !.expected = Next1(@)]
      <4>1. /\ newton'.phase = newton.phase /\ newton'.index = newton.index
            /\ newton'.pending = newton.pending /\ newton'.sent = newton.sent
        BY <1>t, <3>4 DEF NewtonState
      <4>2. Shifted(0)
        BY <3>1, <3>4, Shifts
      <4> QED
        BY <2>6, <4>1, <4>2
    <3>5. CASE newton' = [newton EXCEPT !.phase = "gone"]
      <4>1. /\ newton'.phase # "up" /\ newton'.pending = newton.pending
            /\ newton'.sent = newton.sent
        BY <1>t, <3>5 DEF NewtonState
      <4> QED
        BY <1>E, <2>1, <2>3, <4>1
    <3>6. CASE newton' = newton /\ toLink' = toLink
      <4>1. Shifted(0)
        BY <3>6, Shifts
      <4> QED
        BY <1>n, <2>6, <3>6, <4>1
    <3> QED
      BY <2>1, <3>2, <3>3, <3>4, <3>5, <3>6
  <2> QED
    BY <1>t, <2>1, <2>7, <2>8
<1>12. CASE NewtonRepeats
  <2>1. /\ newton.phase = "up" /\ toLink' = toLink \o newton.pending
        /\ UNCHANGED <<newton, toNewton, inIndex, inBuffer, delivered, keepAlive, phase, skipped>>
    BY <1>12 DEF NewtonRepeats
  <2>2. Window' /\ InSequence' /\ Confirmed'
    BY <1>w, <2>1, Repeated
  <2>3. AckMeansReceived'
    BY <1>n, <1>s, <1>w, <2>1, StillMeans
  <2> QED
    BY <2>2, <2>3 DEF AcksHold
<1>13. CASE LineDamages
  <2>1. /\ UNCHANGED <<newton, inIndex, inBuffer, delivered, keepAlive, phase, skipped>>
        /\ \/ /\ toLink # <<>> /\ toLink' = [toLink EXCEPT ![Len(toLink)].kind = "bad"]
              /\ toNewton' = toNewton
           \/ /\ toNewton # <<>>
              /\ toNewton' = [toNewton EXCEPT ![Len(toNewton)].kind = "bad"]
              /\ toLink' = toLink
    BY <1>13 DEF LineDamages
  <2>2. (Heard' <=> Heard) /\ Received' = Received
    BY <1>s, <2>1
  <2>3. Shifted(0) /\ AcksFrom(0)
    <3>1. CASE toLink # <<>> /\ toLink' = [toLink EXCEPT ![Len(toLink)].kind = "bad"]
               /\ toNewton' = toNewton
      BY <3>1, Shifts, AcksShift
    <3>2. CASE toNewton # <<>> /\ toNewton' = [toNewton EXCEPT ![Len(toNewton)].kind = "bad"]
               /\ toLink' = toLink
      BY <3>2, Shifts, AcksShift
    <3> QED
      BY <2>1, <3>1, <3>2
  <2>4. HeardFrom(0) /\ Passed(0)
    BY <2>1, <2>2 DEF HeardFrom, Passed
  <2> QED
    BY <1>M, <1>k, <1>n, <2>1, <2>2, <2>3, <2>4
<1>14. CASE UNCHANGED vars
  <2>1. UNCHANGED <<newton, inIndex, inBuffer, delivered, keepAlive, phase, skipped,
                    toLink, toNewton>>
    BY <1>14 DEF vars
  <2>2. (Heard' <=> Heard) /\ Received' = Received
    BY <1>s, <2>1
  <2>3. Shifted(0) /\ AcksFrom(0)
    BY <2>1, Shifts, AcksShift
  <2>4. HeardFrom(0) /\ Passed(0)
    BY <2>1, <2>2 DEF HeardFrom, Passed
  <2> QED
    BY <1>M, <1>k, <1>n, <2>1, <2>2, <2>3, <2>4
<1> QED
  BY <1>1, <1>2, <1>3, <1>4, <1>5, <1>6, <1>7, <1>8, <1>9, <1>10, <1>11, <1>12, <1>13, <1>14
  DEF MNPNext, Connecting, Reading, Writing, NewtonSide

LEMMA StartAcks ==
  ASSUME MNPInit
  PROVE  AckIInv
<1>1. LineIInv /\ HandshakeIsFirst
  BY StreamStarts DEF StreamIInv
<1>2. /\ phase = "connecting" /\ toLink = <<>> /\ toNewton = <<>> /\ delivered = <<>>
      /\ inBuffer = <<>> /\ keepAlive = FALSE /\ newton.phase = "down" /\ newton.index = 1
      /\ newton.sent = 0 /\ newton.pending = <<>>
  BY DEF MNPInit
<1>3. BeforeTheAnswer
  BY <1>2 DEF BeforeTheAnswer
<1>4. Window /\ InSequence /\ Confirmed
  BY <1>2 DEF Window, InSequence, Confirmed
<1>5. AckMeansReceived
  <2>1. 1..newton.sent = {}
    BY <1>2
  <2> QED
    BY <2>1 DEF AckMeansReceived
<1> QED
  BY <1>1, <1>3, <1>4, <1>5 DEF AckIInv

\* AckIInv is inductive.
LEMMA StepAck ==
  ASSUME AckIInv, [MNPNext]_vars
  PROVE  AckIInv'
<1>1. LineIInv' /\ HandshakeIsFirst'
  BY StepLine, StepHandshake DEF AckIInv
<1>2. BeforeTheAnswer'
  BY StepBefore DEF AckIInv
<1>3. AcksHold'
  BY <1>1, StepAcks DEF AckIInv, AcksHold
<1> QED
  BY <1>1, <1>2, <1>3 DEF AckIInv, AcksHold

(* AckMeansReceived: a byte the Newton no longer keeps for a repetition    *)
(* has reached the buffer of Read, whatever was repeated or damaged, as    *)
(* long as no reader passed over a damaged frame.                          *)
THEOREM Acknowledging == MNPSpec => []AckMeansReceived
<1>1. MNPInit => AckIInv
  BY StartAcks
<1>2. AckIInv /\ [MNPNext]_vars => AckIInv'
  BY StepAck
<1>3. AckIInv => AckMeansReceived
  BY DEF AckIInv
<1> QED
  BY <1>1, <1>2, <1>3, PTL DEF MNPSpec
================================================================================
