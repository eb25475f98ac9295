--------------------------- MODULE PackageProofs ---------------------------
(***************************************************************************)
(* Proofs about packages: what a file says of its parts agrees with where  *)
(* they lie, and the relocation sets stay within the room left for them,   *)
(* for any number and size of parts, any relocations and any encoder.      *)
(***************************************************************************)
EXTENDS Package, FiniteSetTheorems, SequenceTheorems, WellFoundedInduction, TLAPS

----------------------------------------------------------------------------
(* Numbers *)

\* The pairs of numbers in order, which is a well-founded relation.
Lesser == {p \in Nat \X Nat : p[1] < p[2]}

\* A set of numbers that is not empty has a least one.
LEMMA LeastNumber ==
  ASSUME NEW S, S \subseteq Nat, S # {}
  PROVE  \E i \in S : \A j \in S : i <= j
<1>1. OpToRel(<, Nat) = Lesser
  BY DEF OpToRel, Lesser
<1>2. IsWellFoundedOn(Lesser, Nat)
  BY <1>1, NatLessThanWellFounded, Zenon
<1>3. PICK i \in S : \A j \in S : <<j, i>> \notin Lesser
  BY <1>2, WFMin
<1>4. ASSUME NEW j \in S
      PROVE  i <= j
  <2>1. i \in Nat /\ j \in Nat /\ <<j, i>> \notin Lesser
    BY <1>3
  <2>2. j < i => <<j, i>> \in Lesser
    BY <2>1 DEF Lesser
  <2> QED
    BY <2>1, <2>2
<1> QED
  BY <1>4

LEMMA Times ==
  ASSUME NEW a \in Nat, NEW b \in Nat, NEW c \in Nat
  PROVE  /\ a * (b * c) = b * (a * c)
         /\ a * b \in Nat /\ a * b = b * a
BY Z3T(30)

LEMMA TimesCommute ==
  ASSUME NEW a \in Nat, NEW b \in Nat
  PROVE  a * b = b * a
BY Z3T(30)

LEMMA TimesInTurn ==
  ASSUME NEW a \in Nat, NEW b \in Nat, NEW c \in Nat
  PROVE  (a * b) * c = a * (b * c)
BY Z3T(30)

LEMMA Division ==
  ASSUME NEW P \in Nat \ {0}, NEW a \in Nat
  PROVE  a = (a \div P) * P + (a % P)
BY SMTT(60)

\* Where a number lies in its page.
LEMMA PageOf ==
  ASSUME NEW P \in Nat \ {0}, NEW a \in Nat
  PROVE  /\ a \div P \in Nat /\ a % P \in Nat /\ a % P < P
         /\ a = P * (a \div P) + (a % P)
<1>1. a \div P \in Nat /\ a % P \in Nat /\ a % P < P
  OBVIOUS
<1>2. P \in Nat /\ a = (a \div P) * P + (a % P)
  BY Division
<1>3. (a \div P) * P = P * (a \div P)
  BY <1>1, <1>2, TimesCommute, Zenon
<1> QED
  BY <1>1, <1>2, <1>3

LEMMA TimesMonotone ==
  ASSUME NEW a \in Nat, NEW b \in Nat, NEW c \in Nat, a <= b
  PROVE  a * c <= b * c /\ c * a <= c * b
OBVIOUS

LEMMA PageAfter ==
  ASSUME NEW P \in Nat \ {0}, NEW p \in Nat, NEW q \in Nat, NEW x \in Nat, NEW y \in Nat,
         x < P, y < P, P * p + x <= P * q + y
  PROVE  p <= q
<1>1. ASSUME q < p PROVE FALSE
  <2>1. q + 1 \in Nat /\ q + 1 <= p
    BY <1>1
  <2>2. P * (q + 1) <= P * p
    BY <2>1, TimesMonotone
  <2>3. P * (q + 1) = P * q + P
    OBVIOUS
  <2>4. P * q \in Nat /\ P * p \in Nat
    OBVIOUS
  <2> DEFINE A == P * q  B == P * p  C == P * (q + 1)
  <2>5. A \in Nat /\ B \in Nat /\ C = A + P /\ C <= B /\ B + x <= A + y
    BY <2>2, <2>3, <2>4
  <2> HIDE DEF A, B, C
  <2> QED
    BY <2>5
<1> QED
  BY <1>1

LEMMA PagesInOrder ==
  ASSUME NEW P \in Nat \ {0}, NEW a \in Nat, NEW b \in Nat, a <= b
  PROVE  a \div P <= b \div P
<1>1. P * (a \div P) + (a % P) <= P * (b \div P) + (b % P)
  BY PageOf
<1> QED
  BY <1>1, PageOf, PageAfter

\* From a to b there are no more pages than that from 0 to their distance.
LEMMA PagesApart ==
  ASSUME NEW P \in Nat \ {0}, NEW a \in Nat, NEW b \in Nat, a <= b
  PROVE  b \div P <= (a \div P) + (b - a) \div P + 1
<1> DEFINE p == a \div P  q == b \div P  r == (b - a) \div P
           x == a % P  y == b % P  z == (b - a) % P
<1>0. b - a \in Nat
  OBVIOUS
<1>1. /\ p \in Nat /\ q \in Nat /\ r \in Nat /\ x \in Nat /\ y \in Nat /\ z \in Nat
      /\ x < P /\ y < P /\ z < P
      /\ a = P * p + x /\ b = P * q + y /\ b - a = P * r + z
  BY <1>0, PageOf
<1> HIDE DEF p, q, r, x, y, z
<1>2. ASSUME p + r + 1 < q PROVE FALSE
  <2>1. P * (p + r + 2) <= P * q
    BY <1>1, <1>2, TimesMonotone
  <2>2. P * (p + r + 2) = P * p + P * r + P + P
    BY <1>1
  <2>3. P * p \in Nat /\ P * q \in Nat /\ P * r \in Nat
    BY <1>1
  <2> DEFINE A == P * p  B == P * q  C == P * r  D == P * (p + r + 2)
  <2>4. /\ A \in Nat /\ B \in Nat /\ C \in Nat /\ D = A + C + P + P /\ D <= B
        /\ a = A + x /\ b = B + y /\ b - a = C + z
    BY <1>1, <2>1, <2>2, <2>3
  <2> HIDE DEF A, B, C, D
  <2> QED
    BY <1>1, <2>4
<1>3. q <= p + r + 1
  BY <1>1, <1>2
<1> QED
  BY <1>3 DEF p, q, r

LEMMA FourTimes ==
  ASSUME NEW a \in Nat, NEW b \in Nat, b % 4 = 0
  PROVE  a * b \in Nat /\ (a * b) % 4 = 0
<1>0. b = 4 * (b \div 4) /\ b \div 4 \in Nat
  OBVIOUS
<1>1. PICK c \in Nat : b = 4 * c
  BY <1>0
<1>2. a * b = 4 * (a * c) /\ a * c \in Nat
  BY <1>1, Times
<1> DEFINE A == a * c
<1>3. A \in Nat /\ a * b = 4 * A
  BY <1>2
<1> HIDE DEF A
<1> QED
  BY <1>3

\* A word of a page and its place there.
LEMMA WordOfPage ==
  ASSUME NEW M \in Nat \ {0}, NEW a \in Nat, a % 4 = 0
  PROVE  /\ a % (4 * M) = 4 * ((a % (4 * M)) \div 4)
         /\ (a % (4 * M)) \div 4 \in 0 .. M - 1
         /\ a = 4 * M * (a \div (4 * M)) + 4 * ((a % (4 * M)) \div 4)
<1>1. PICK P \in Nat \ {0} : P = 4 * M
  OBVIOUS
<1>2. PICK q \in Nat, x \in Nat : q = a \div P /\ x = a % P /\ x < P /\ a = P * q + x
  BY PageOf
<1>3. PICK A \in Nat : A = M * q
  BY Times
<1>4. P * q = 4 * A
  <2>1. (4 * M) * q = 4 * (M * q)
    <3>1. 4 \in Nat
      OBVIOUS
    <3> QED
      BY <3>1, TimesInTurn, Zenon
  <2> QED
    BY <1>1, <1>3, <2>1
<1>5. x % 4 = 0
  BY <1>2, <1>4
<1>6. x = 4 * (x \div 4) /\ x \div 4 \in 0 .. M - 1
  <2>1. x < 4 * M
    BY <1>1, <1>2
  <2> QED
    BY <1>5, <2>1
<1> QED
  BY <1>1, <1>2, <1>6, Zenon

LEMMA PaddedIs ==
  ASSUME NEW n \in Nat
  PROVE  Padded(n, 4) \in Nat /\ n <= Padded(n, 4) /\ Padded(n, 4) < n + 4
         /\ Padded(n, 4) % 4 = 0
BY DEF Padded

LEMMA PaddedMonotone ==
  ASSUME NEW m \in Nat, NEW n \in Nat, m <= n
  PROVE  Padded(m, 4) <= Padded(n, 4) /\ (n % 4 = 0 => Padded(m, 4) <= n)
BY DEF Padded

----------------------------------------------------------------------------
(* Loops over sequences *)

\* What Totals is defined from.
Goes(f, step, start, s, n) ==
  f = [k \in 0 .. n |-> IF k = 0 THEN start ELSE step[<<f[k - 1], s[k]>>]]

Begins(f, start) == f[0] = start
TakesTurns(f, step, s, n) == \A k \in 1 .. n : f[k] = step[<<f[k - 1], s[k]>>]

LEMMA GoesOn ==
  ASSUME NEW step, NEW start, NEW s, NEW n \in Nat, NEW f, Goes(f, step, start, s, n)
  PROVE  Begins(f, start) /\ TakesTurns(f, step, s, n)
<1> DEFINE g == [k \in 0 .. n |-> IF k = 0 THEN start ELSE step[<<f[k - 1], s[k]>>]]
<1>1. /\ g[0] = start
      /\ \A k \in 1 .. n : g[k] = step[<<f[k - 1], s[k]>>]
  OBVIOUS
<1>2. f = g
  BY DEF Goes
<1> HIDE DEF g
<1> QED
  BY <1>1, <1>2 DEF Begins, TakesTurns

LEMMA GoesExists ==
  ASSUME NEW step, NEW start, NEW s, NEW n \in Nat
  PROVE  \E f : Goes(f, step, start, s, n)
<1> DEFINE D == {i \in Nat : ~ \E f : Goes(f, step, start, s, i)}
<1>1. ASSUME D # {} PROVE FALSE
  <2>1. PICK i \in D : \A j \in D : i <= j
    BY <1>1, LeastNumber
  <2>2. CASE i = 0
    <3> DEFINE f == [k \in 0 .. 0 |-> start]
    <3>1. f = [k \in 0 .. 0 |-> IF k = 0 THEN start ELSE step[<<f[k - 1], s[k]>>]]
      OBVIOUS
    <3>2. Goes(f, step, start, s, i)
      BY <2>2, <3>1 DEF Goes
    <3> QED
      BY <2>1, <3>2
  <2>3. CASE i # 0
    <3>1. i \in Nat /\ i - 1 \in Nat /\ i - 1 \notin D
      BY <2>1, <2>3
    <3>2. PICK f : Goes(f, step, start, s, i - 1)
      BY <3>1
    <3>3. PICK m \in Nat : m = i - 1
      BY <3>1
    <3>4. Goes(f, step, start, s, m)
      BY <3>2, <3>3
    <3>5. Begins(f, start) /\ TakesTurns(f, step, s, m)
      BY <3>4, GoesOn, Zenon
    <3> DEFINE last == step[<<f[i - 1], s[i]>>]
               g == [k \in 0 .. i |-> IF k < i THEN f[k] ELSE last]
    <3>8. ASSUME NEW k \in 0 .. i
          PROVE  g[k] = IF k = 0 THEN start ELSE step[<<g[k - 1], s[k]>>]
      <4> HIDE DEF last
      <4>0. k # 0 => k - 1 \in 0 .. i /\ k - 1 < i /\ g[k - 1] = f[k - 1]
        BY <3>1
      <4>2. CASE k < i
        <5>1. k \in 0 .. m /\ g[k] = f[k]
          BY <3>1, <3>3, <4>2
        <5> QED
          BY <3>3, <3>5, <4>0, <5>1 DEF Begins, TakesTurns
      <4>3. CASE k = i
        <5>1. g[k] = last
          BY <3>1, <4>3
        <5> HIDE DEF g
        <5> QED
          BY <2>3, <4>0, <4>3, <5>1 DEF last
      <4> QED
        BY <3>1, <4>2, <4>3
    <3>6. g = [k \in 0 .. i |-> IF k = 0 THEN start ELSE step[<<g[k - 1], s[k]>>]]
      <4> HIDE DEF last
      <4> QED
        BY <3>8
    <3>7. Goes(g, step, start, s, i)
      <4> HIDE DEF g
      <4> QED
        BY <3>6 DEF Goes
    <3> QED
      BY <2>1, <3>7
  <2> QED
    BY <2>2, <2>3
<1> QED
  BY <1>1

\* Totals goes on from one turn to the next.
LEMMA TotalsAre ==
  ASSUME NEW step, NEW start, NEW s, Len(s) \in Nat
  PROVE  /\ Totals(step, start, s)[0] = start
         /\ \A k \in 1 .. Len(s) :
              Totals(step, start, s)[k] = step[<<Totals(step, start, s)[k - 1], s[k]>>]
<1>1. Totals(step, start, s) = (CHOOSE f : Goes(f, step, start, s, Len(s)))
  BY DEF Totals, Goes
<1>2. Goes(Totals(step, start, s), step, start, s, Len(s))
  BY <1>1, GoesExists
<1> DEFINE f == Totals(step, start, s)
<1>3. PICK n \in Nat : n = Len(s) /\ Goes(f, step, start, s, n)
  BY <1>2
<1> HIDE DEF f
<1>4. Begins(f, start) /\ TakesTurns(f, step, s, n)
  BY <1>3, GoesOn, Zenon
<1> QED
  BY <1>3, <1>4 DEF f, Begins, TakesTurns

\* Two loops that begin alike agree so far.
LEMMA TotalsAgree ==
  ASSUME NEW step, NEW start, NEW s, NEW t, Len(s) \in Nat, Len(t) \in Nat,
         NEW n \in 0 .. Len(s), n <= Len(t), \A k \in 1 .. n : s[k] = t[k]
  PROVE  Totals(step, start, s)[n] = Totals(step, start, t)[n]
<1> DEFINE F == Totals(step, start, s)
           G == Totals(step, start, t)
           D == {k \in Nat : k <= n /\ F[k] # G[k]}
<1>1. /\ F[0] = start /\ \A k \in 1 .. Len(s) : F[k] = step[<<F[k - 1], s[k]>>]
      /\ G[0] = start /\ \A k \in 1 .. Len(t) : G[k] = step[<<G[k - 1], t[k]>>]
  BY TotalsAre
<1> HIDE DEF F, G
<1>2. ASSUME D # {} PROVE FALSE
  <2>1. PICK k \in D : \A j \in D : k <= j
    BY <1>2, LeastNumber
  <2>2. k # 0
    BY <1>1, <2>1
  <2>3. k - 1 \in Nat /\ k - 1 \notin D /\ k \in 1 .. Len(s) /\ k \in 1 .. Len(t) /\ s[k] = t[k]
    BY <2>1, <2>2
  <2>4. F[k - 1] = G[k - 1]
    BY <2>1, <2>3
  <2> QED
    BY <1>1, <2>1, <2>3, <2>4
<1> QED
  BY <1>2 DEF F, G

LEMMA TotalEmpty ==
  ASSUME NEW step, NEW start
  PROVE  Total(step, start, <<>>) = start
BY TotalsAre DEF Total

LEMMA TotalAppend ==
  ASSUME NEW step, NEW start, NEW S, NEW s \in Seq(S), NEW x \in S
  PROVE  Total(step, start, Append(s, x)) = step[<<Total(step, start, s), x>>]
<1>1. PICK t : t = Append(s, x)
  OBVIOUS
<1>2. /\ Len(s) \in Nat /\ Len(t) = Len(s) + 1 /\ t[Len(s) + 1] = x
      /\ \A k \in 1 .. Len(s) : s[k] = t[k]
  BY <1>1, AppendProperties
<1>3. Totals(step, start, t)[Len(t)] = step[<<Totals(step, start, t)[Len(s)], x>>]
  BY <1>2, TotalsAre
<1>4. Totals(step, start, s)[Len(s)] = Totals(step, start, t)[Len(s)]
  BY <1>2, TotalsAgree
<1> QED
  BY <1>1, <1>3, <1>4 DEF Total

\* What holds at the beginning, and after a turn when it held before it.
LEMMA TurnByTurn ==
  ASSUME NEW D, NEW n \in Nat, 0 \in D, \A k \in 1 .. n : k - 1 \in D => k \in D
  PROVE  \A k \in 0 .. n : k \in D
<1> DEFINE E == {k \in Nat : k <= n /\ k \notin D}
<1>1. ASSUME E # {} PROVE FALSE
  <2>1. PICK k \in E : \A j \in E : k <= j
    BY <1>1, LeastNumber
  <2>2. k \in 0 .. n /\ k \notin D /\ k # 0
    BY <2>1
  <2>3. k - 1 \in 0 .. n /\ k - 1 \notin E
    BY <2>1, <2>2
  <2> QED
    BY <2>2, <2>3
<1> QED
  BY <1>1

\* Sums of numbers.
LEMMA SumsAre ==
  ASSUME NEW s, Len(s) \in Nat, \A k \in 1 .. Len(s) : s[k] \in Nat
  PROVE  /\ Totals(Plus, 0, s)[0] = 0
         /\ \A k \in 0 .. Len(s) : Totals(Plus, 0, s)[k] \in Nat
         /\ \A k \in 1 .. Len(s) : Totals(Plus, 0, s)[k] = Totals(Plus, 0, s)[k - 1] + s[k]
<1> DEFINE T == Totals(Plus, 0, s)
           D == {k \in 0 .. Len(s) : T[k] \in Nat}
<1>1. T[0] = 0 /\ \A k \in 1 .. Len(s) : T[k] = Plus[<<T[k - 1], s[k]>>]
  BY TotalsAre
<1> HIDE DEF T
<1>2. ASSUME NEW k \in 1 .. Len(s), T[k - 1] \in Nat
      PROVE  T[k] = T[k - 1] + s[k]
  <2>1. <<T[k - 1], s[k]>> \in Int \X Int
    BY <1>2
  <2>2. Plus[<<T[k - 1], s[k]>>] = T[k - 1] + s[k]
    BY <2>1 DEF Plus
  <2> QED
    BY <1>1, <2>2
<1>3. 0 \in D
  BY <1>1
<1>4. ASSUME NEW k \in 1 .. Len(s), k - 1 \in D
      PROVE  k \in D
  BY <1>2, <1>4
<1>5. \A k \in 0 .. Len(s) : k \in D
  <2> HIDE DEF D
  <2> QED
    BY <1>3, <1>4, TurnByTurn
<1>6. \A k \in 1 .. Len(s) : T[k - 1] \in Nat
  BY <1>5
<1> QED
  BY <1>1, <1>2, <1>5, <1>6 DEF T

\* Sequences of numbers, one after the other.
LEMMA JoinsAre ==
  ASSUME NEW s, Len(s) \in Nat, \A k \in 1 .. Len(s) : s[k] \in Seq(Nat)
  PROVE  /\ Totals(Join, <<>>, s)[0] = <<>>
         /\ \A k \in 0 .. Len(s) : Totals(Join, <<>>, s)[k] \in Seq(Nat)
         /\ \A k \in 1 .. Len(s) :
              Totals(Join, <<>>, s)[k] = Totals(Join, <<>>, s)[k - 1] \o s[k]
<1> DEFINE T == Totals(Join, <<>>, s)
           D == {k \in 0 .. Len(s) : T[k] \in Seq(Nat)}
<1>1. T[0] = <<>> /\ \A k \in 1 .. Len(s) : T[k] = Join[<<T[k - 1], s[k]>>]
  BY TotalsAre
<1> HIDE DEF T
<1>2. ASSUME NEW k \in 1 .. Len(s), T[k - 1] \in Seq(Nat)
      PROVE  T[k] = T[k - 1] \o s[k]
  <2>1. <<T[k - 1], s[k]>> \in Seq(Nat) \X Seq(Nat)
    BY <1>2
  <2>2. Join[<<T[k - 1], s[k]>>] = T[k - 1] \o s[k]
    BY <2>1 DEF Join
  <2> QED
    BY <1>1, <2>2
<1>3. 0 \in D
  <2>1. <<>> \in Seq(Nat) /\ 0 \in 0 .. Len(s)
    OBVIOUS
  <2> QED
    BY <1>1, <2>1
<1>4. ASSUME NEW k \in 1 .. Len(s), k - 1 \in D
      PROVE  k \in D
  <2>1. T[k - 1] \in Seq(Nat) /\ s[k] \in Seq(Nat) /\ k \in 0 .. Len(s)
    BY <1>4
  <2>2. T[k - 1] \o s[k] \in Seq(Nat)
    BY <2>1, ConcatProperties
  <2> QED
    BY <1>2, <2>1, <2>2
<1>5. \A k \in 0 .. Len(s) : k \in D
  <2> HIDE DEF D
  <2> QED
    BY <1>3, <1>4, TurnByTurn
<1>6. \A k \in 1 .. Len(s) : T[k - 1] \in Seq(Nat)
  BY <1>5
<1> QED
  BY <1>1, <1>2, <1>5, <1>6 DEF T

----------------------------------------------------------------------------
(* The relocation sets *)

PageOfA(a) == a \div PageSize
WordOfA(a) == (a % PageSize) \div 4

LEMMA PageFacts == PageSize \in Nat \ {0} /\ MaxSetCount \in Nat \ {0} /\ PageSize = 4 * MaxSetCount
BY PageAssumption

LEMMA AddedToIs ==
  ASSUME NEW sets \in Seq(PageSets), NEW a \in Nat
  PROVE  /\ AddedTo(sets, a) \in Seq(PageSets) /\ AddedTo(sets, a) # <<>>
         /\ sets # <<>> /\ sets[Len(sets)].page = PageOfA(a) =>
              /\ Len(AddedTo(sets, a)) = Len(sets)
              /\ \A k \in 1 .. Len(sets) - 1 : AddedTo(sets, a)[k] = sets[k]
              /\ AddedTo(sets, a)[Len(sets)] =
                   [page |-> PageOfA(a),
                    offsets |-> Append(sets[Len(sets)].offsets, WordOfA(a))]
         /\ ~(sets # <<>> /\ sets[Len(sets)].page = PageOfA(a)) =>
              AddedTo(sets, a) = Append(sets, [page |-> PageOfA(a), offsets |-> <<WordOfA(a)>>])
<1>1. PageOfA(a) \in Nat /\ WordOfA(a) \in Nat
  <2>1. a \div PageSize \in Nat /\ a % PageSize \in Nat
    BY PageFacts, PageOf
  <2> QED
    BY <2>1 DEF PageOfA, WordOfA
<1>2. CASE sets # <<>> /\ sets[Len(sets)].page = PageOfA(a)
  <2>1. PICK n \in Nat \ {0} : n = Len(sets)
    BY <1>2
  <2>2. sets \in [1 .. n -> PageSets] /\ sets[n] \in PageSets
    BY <2>1
  <2>3. AddedTo(sets, a) =
          [sets EXCEPT ![n] = [sets[n] EXCEPT !.offsets = Append(sets[n].offsets, WordOfA(a))]]
    BY <1>2, <2>1 DEF AddedTo, PageOfA, WordOfA, Last
  <2>4. [sets[n] EXCEPT !.offsets = Append(sets[n].offsets, WordOfA(a))] =
          [page |-> PageOfA(a), offsets |-> Append(sets[n].offsets, WordOfA(a))]
    <3>1. PICK r \in PageSets : r = sets[n] /\ r.page = PageOfA(a)
      BY <1>2, <2>1, <2>2
    <3>2. \A e : [r EXCEPT !.offsets = e] = [page |-> r.page, offsets |-> e]
      BY DEF PageSets
    <3> QED
      BY <3>1, <3>2
  <2>5. [page |-> PageOfA(a), offsets |-> Append(sets[n].offsets, WordOfA(a))] \in PageSets
    BY <1>1, <2>2 DEF PageSets
  <2> DEFINE x == [page |-> PageOfA(a), offsets |-> Append(sets[n].offsets, WordOfA(a))]
  <2>6. AddedTo(sets, a) = [sets EXCEPT ![n] = x]
    BY <2>3, <2>4
  <2>7. x \in PageSets
    BY <2>5
  <2> HIDE DEF x
  <2>8. /\ [sets EXCEPT ![n] = x] \in Seq(PageSets) /\ Len([sets EXCEPT ![n] = x]) = n
        /\ \A k \in 1 .. n : [sets EXCEPT ![n] = x][k] = IF k = n THEN x ELSE sets[k]
    BY <2>1, <2>7, ExceptSeq
  <2>9. AddedTo(sets, a) # <<>> /\ x = [page |-> PageOfA(a),
                                       offsets |-> Append(sets[n].offsets, WordOfA(a))]
    BY <2>1, <2>6, <2>8 DEF x
  <2>10. \A k \in 1 .. n - 1 : AddedTo(sets, a)[k] = sets[k]
    BY <2>1, <2>6, <2>8
  <2>11. AddedTo(sets, a)[n] = x
    BY <2>1, <2>6, <2>8
  <2> QED
    BY <1>2, <2>1, <2>6, <2>8, <2>9, <2>10, <2>11
<1>3. CASE ~(sets # <<>> /\ sets[Len(sets)].page = PageOfA(a))
  <2>1. AddedTo(sets, a) = Append(sets, [page |-> PageOfA(a), offsets |-> <<WordOfA(a)>>])
    BY <1>3 DEF AddedTo, PageOfA, WordOfA, Last
  <2>2. [page |-> PageOfA(a), offsets |-> <<WordOfA(a)>>] \in PageSets
    BY <1>1 DEF PageSets
  <2> QED
    BY <1>3, <2>1, <2>2, AppendProperties
<1> QED
  BY <1>2, <1>3

LEMMA SetsAre ==
  ASSUME NEW A \in Seq(Nat)
  PROVE  /\ Totals(AddToSets, <<>>, A)[0] = <<>>
         /\ \A k \in 0 .. Len(A) : Totals(AddToSets, <<>>, A)[k] \in Seq(PageSets)
         /\ \A k \in 1 .. Len(A) :
              Totals(AddToSets, <<>>, A)[k] = AddedTo(Totals(AddToSets, <<>>, A)[k - 1], A[k])
<1> DEFINE T == Totals(AddToSets, <<>>, A)
           D == {k \in 0 .. Len(A) : T[k] \in Seq(PageSets)}
<1>0. Len(A) \in Nat
  OBVIOUS
<1>1. T[0] = <<>> /\ \A k \in 1 .. Len(A) : T[k] = AddToSets[<<T[k - 1], A[k]>>]
  BY <1>0, TotalsAre
<1> HIDE DEF T
<1>2. ASSUME NEW k \in 1 .. Len(A), T[k - 1] \in Seq(PageSets)
      PROVE  T[k] = AddedTo(T[k - 1], A[k])
  <2>1. <<T[k - 1], A[k]>> \in Seq(PageSets) \X Nat
    BY <1>2
  <2>2. AddToSets[<<T[k - 1], A[k]>>] = AddedTo(T[k - 1], A[k])
    BY <2>1 DEF AddToSets
  <2> QED
    BY <1>1, <2>2
<1>3. 0 \in D
  <2>1. <<>> \in Seq(PageSets) /\ 0 \in 0 .. Len(A)
    OBVIOUS
  <2> QED
    BY <1>1, <2>1
<1>4. ASSUME NEW k \in 1 .. Len(A), k - 1 \in D
      PROVE  k \in D
  <2>1. T[k - 1] \in Seq(PageSets) /\ A[k] \in Nat /\ k \in 0 .. Len(A)
    BY <1>4
  <2> QED
    BY <1>2, <2>1, AddedToIs
<1>5. \A k \in 0 .. Len(A) : k \in D
  <2> HIDE DEF D
  <2> QED
    BY <1>0, <1>3, <1>4, TurnByTurn
<1>6. \A k \in 1 .. Len(A) : T[k - 1] \in Seq(PageSets)
  BY <1>5
<1> QED
  BY <1>1, <1>2, <1>5, <1>6 DEF T

\* The addresses of words, in order.
Ascending(A) ==
  /\ A \in Seq(Nat) /\ \A k \in 1 .. Len(A) : A[k] % 4 = 0
  /\ \A k \in 1 .. Len(A) - 1 : A[k] < A[k + 1]

LEMMA WordsOfPage ==
  ASSUME NEW a \in Nat, a % 4 = 0
  PROVE  /\ PageOfA(a) \in Nat /\ WordOfA(a) \in Nat /\ WordOfA(a) \in 0 .. MaxSetCount - 1
         /\ a = PageSize * PageOfA(a) + 4 * WordOfA(a)
<1>1. WordOfA(a) \in 0 .. MaxSetCount - 1 /\ a = PageSize * PageOfA(a) + 4 * WordOfA(a)
  BY PageFacts, WordOfPage DEF PageOfA, WordOfA
<1>2. PageOfA(a) \in Nat
  BY PageFacts, PageOf DEF PageOfA
<1> QED
  BY <1>1, <1>2, PageFacts

LEMMA WordsInOrder ==
  ASSUME NEW a \in Nat, NEW b \in Nat, a % 4 = 0, b % 4 = 0, a < b, PageOfA(a) = PageOfA(b)
  PROVE  WordOfA(a) < WordOfA(b)
<1>1. PICK p \in Nat, v \in Nat, w \in Nat :
        /\ v = WordOfA(a) /\ w = WordOfA(b)
        /\ a = PageSize * p + 4 * v /\ b = PageSize * p + 4 * w
  <2>1. /\ PageOfA(a) \in Nat /\ WordOfA(a) \in Nat
        /\ a = PageSize * PageOfA(a) + 4 * WordOfA(a)
    BY WordsOfPage
  <2>2. /\ PageOfA(b) \in Nat /\ WordOfA(b) \in Nat
        /\ b = PageSize * PageOfA(b) + 4 * WordOfA(b)
    BY WordsOfPage
  <2> QED
    BY <2>1, <2>2
<1>2. PICK q \in Nat : q = PageSize * p
  BY PageFacts, Times
<1> QED
  BY <1>1, <1>2

\* The last set is that of the page of the last address, and a set has no more
\* words than lie in its page up to its last one.
Filled(sets, A, m) ==
  /\ sets \in Seq(PageSets) /\ (m = 0 => sets = <<>>)
  /\ m > 0 => /\ sets # <<>> /\ sets[Len(sets)].page = PageOfA(A[m])
              /\ Len(sets[Len(sets)].offsets) <= WordOfA(A[m]) + 1
  /\ \A j \in 1 .. Len(sets) :
       Len(sets[j].offsets) \in Nat /\ Len(sets[j].offsets) <= m
         /\ Len(sets[j].offsets) <= MaxSetCount

LEMMA FilledStep ==
  ASSUME NEW A, Ascending(A), NEW m \in 1 .. Len(A), NEW sets, Filled(sets, A, m - 1)
  PROVE  Filled(AddedTo(sets, A[m]), A, m)
<1>1. PICK a \in Nat : a = A[m] /\ a % 4 = 0
  BY DEF Ascending
<1>2. PICK new \in Seq(PageSets) : new = AddedTo(sets, a) /\ new # <<>>
  BY <1>1, AddedToIs DEF Filled
<1>3. PICK w \in 0 .. MaxSetCount - 1 : w = WordOfA(a)
  BY <1>1, WordsOfPage
<1>4. /\ m \in Nat \ {0} /\ m - 1 \in Nat /\ sets \in Seq(PageSets) /\ MaxSetCount \in Nat \ {0}
      /\ \A j \in 1 .. Len(sets) :
           Len(sets[j].offsets) \in Nat /\ Len(sets[j].offsets) <= m - 1
             /\ Len(sets[j].offsets) <= MaxSetCount
  <2>1. Len(A) \in Nat
    BY DEF Ascending
  <2> QED
    BY <2>1, PageFacts DEF Filled
<1>5. CASE sets # <<>> /\ sets[Len(sets)].page = PageOfA(a)
  <2>1. /\ Len(new) = Len(sets)
        /\ \A k \in 1 .. Len(sets) - 1 : new[k] = sets[k]
        /\ new[Len(sets)] = [page |-> PageOfA(a), offsets |-> Append(sets[Len(sets)].offsets, w)]
    BY <1>2, <1>3, <1>4, <1>5, AddedToIs
  <2>2. PICK n \in Nat \ {0} : n = Len(sets)
    BY <1>4, <1>5
  <2>3. PICK offsets \in Seq(Nat) : offsets = sets[n].offsets
    <3>1. sets[n] \in PageSets
      BY <1>4, <2>2
    <3> QED
      BY <3>1 DEF PageSets
  <2>4. /\ new[n].page = PageOfA(a) /\ new[n].offsets = Append(offsets, w)
        /\ Len(new[n].offsets) = Len(offsets) + 1
    BY <1>3, <2>1, <2>2, <2>3
  <2>5. m - 1 # 0
    BY <1>5 DEF Filled
  <2>6. PICK b \in Nat, v \in Nat :
          b = A[m - 1] /\ b % 4 = 0 /\ v = WordOfA(b) /\ b < a /\ PageOfA(b) = PageOfA(a)
            /\ Len(offsets) <= v + 1
    <3>1. m - 1 \in 1 .. Len(A) - 1 /\ m - 1 \in 1 .. Len(A) /\ (m - 1) + 1 = m /\ m - 1 > 0
      BY <2>5 DEF Ascending
    <3>2. A[m - 1] \in Nat /\ A[m - 1] % 4 = 0 /\ A[m - 1] < a
      BY <1>1, <3>1 DEF Ascending
    <3>3. WordOfA(A[m - 1]) \in Nat
      BY <3>2, WordsOfPage
    <3>4. PageOfA(A[m - 1]) = PageOfA(a) /\ Len(offsets) <= WordOfA(A[m - 1]) + 1
      BY <1>5, <2>2, <2>3, <3>1 DEF Filled
    <3> QED
      BY <3>2, <3>3, <3>4
  <2>7. v < w
    BY <1>1, <1>3, <2>6, WordsInOrder
  <2>8. Len(new[n].offsets) <= w + 1 /\ Len(new[n].offsets) <= MaxSetCount
          /\ Len(new[n].offsets) <= m /\ Len(new[n].offsets) \in Nat
    <3>1. Len(offsets) <= m - 1 /\ Len(offsets) \in Nat
      BY <1>4, <2>2, <2>3
    <3> QED
      <4>1. PICK l \in Nat : l = Len(offsets)
        BY <3>1
      <4>2. w \in Nat /\ w + 1 <= MaxSetCount
        BY <1>3, <1>4
      <4>3. l <= v + 1 /\ v < w /\ l <= m - 1 /\ v \in Nat /\ m \in Nat
        BY <1>4, <2>6, <2>7, <3>1, <4>1
      <4>4. Len(new[n].offsets) = l + 1
        BY <2>4, <4>1
      <4> QED
        BY <4>2, <4>3, <4>4, PageFacts
  <2>9. ASSUME NEW j \in 1 .. Len(new)
        PROVE  Len(new[j].offsets) \in Nat /\ Len(new[j].offsets) <= m
                 /\ Len(new[j].offsets) <= MaxSetCount
    <3>1. CASE j = n
      BY <2>8, <3>1
    <3>2. CASE j # n
      <4>1. j \in 1 .. Len(sets) - 1 /\ j \in 1 .. Len(sets)
        BY <2>1, <2>2, <3>2
      <4>2. new[j] = sets[j]
        BY <2>1, <4>1
      <4> QED
        BY <1>4, <4>1, <4>2
    <3> QED
      BY <3>1, <3>2
  <2> QED
    <3>1. Len(new) = n /\ new[Len(new)].page = PageOfA(A[m])
            /\ Len(new[Len(new)].offsets) <= WordOfA(A[m]) + 1
      BY <1>1, <1>3, <2>1, <2>2, <2>4, <2>8
    <3> QED
      BY <1>1, <1>2, <1>4, <2>9, <3>1 DEF Filled
<1>6. CASE ~(sets # <<>> /\ sets[Len(sets)].page = PageOfA(a))
  <2>1. new = Append(sets, [page |-> PageOfA(a), offsets |-> <<w>>])
    BY <1>2, <1>3, <1>4, <1>6, AddedToIs
  <2>2. PICK n \in Nat : n = Len(sets)
    BY <1>4
  <2>3. [page |-> PageOfA(a), offsets |-> <<w>>] \in PageSets
    <3>1. PageOfA(a) \in Nat /\ w \in Nat
      BY <1>1, <1>3, <1>4, WordsOfPage
    <3> QED
      BY <3>1 DEF PageSets
  <2>4. /\ Len(new) = n + 1 /\ \A j \in 1 .. n : new[j] = sets[j]
        /\ new[n + 1] = [page |-> PageOfA(a), offsets |-> <<w>>]
    BY <1>4, <2>1, <2>2, <2>3, AppendProperties
  <2>5. new[n + 1].page = PageOfA(a) /\ Len(new[n + 1].offsets) = 1
    BY <2>4
  <2>6. ASSUME NEW j \in 1 .. Len(new)
        PROVE  Len(new[j].offsets) \in Nat /\ Len(new[j].offsets) <= m
                 /\ Len(new[j].offsets) <= MaxSetCount
    <3>1. CASE j = n + 1
      <4>1. Len(new[j].offsets) = 1
        BY <2>5, <3>1
      <4>2. 1 <= m /\ 1 <= MaxSetCount
        BY <1>4
      <4> QED
        BY <4>1, <4>2
    <3>2. CASE j # n + 1
      <4>1. j \in 1 .. Len(sets) /\ new[j] = sets[j]
        BY <2>2, <2>4, <3>2
      <4> QED
        BY <1>4, <4>1
    <3> QED
      BY <3>1, <3>2
  <2> QED
    <3>1. /\ new[Len(new)].page = PageOfA(A[m])
          /\ Len(new[Len(new)].offsets) <= WordOfA(A[m]) + 1
      <4>1. new[Len(new)] = new[n + 1] /\ WordOfA(A[m]) = w /\ 1 <= w + 1
        BY <1>1, <1>3, <1>4, <2>4
      <4> QED
        BY <1>1, <2>5, <4>1
    <3> QED
      BY <1>1, <1>2, <1>4, <2>6, <3>1 DEF Filled
<1> QED
  BY <1>5, <1>6

LEMMA AllFilled ==
  ASSUME NEW A, Ascending(A)
  PROVE  \A m \in 0 .. Len(A) : Filled(Totals(AddToSets, <<>>, A)[m], A, m)
<1> DEFINE T == Totals(AddToSets, <<>>, A)
           D == {m \in Nat : Filled(T[m], A, m)}
<1>1. A \in Seq(Nat) /\ Len(A) \in Nat
  BY DEF Ascending
<1>2. T[0] = <<>> /\ \A k \in 1 .. Len(A) : T[k] = AddedTo(T[k - 1], A[k])
  BY <1>1, SetsAre
<1> HIDE DEF T
<1>3. 0 \in D
  <2>1. <<>> \in Seq(PageSets) /\ Len(<<>>) = 0
    OBVIOUS
  <2>2. Filled(<<>>, A, 0)
    BY <2>1 DEF Filled
  <2> QED
    BY <1>2, <2>2
<1>4. ASSUME NEW k \in 1 .. Len(A), k - 1 \in D
      PROVE  k \in D
  BY <1>1, <1>2, <1>4, FilledStep
<1>5. \A k \in 0 .. Len(A) : k \in D
  <2> HIDE DEF D
  <2> QED
    BY <1>1, <1>3, <1>4, TurnByTurn
<1> QED
  BY <1>5 DEF T

----------------------------------------------------------------------------
(* The addresses that are read from the sets *)

Flat(sets) == Joined([k \in DOMAIN sets |-> AddressesOf(sets[k])])

LEMMA AddressesTyped ==
  ASSUME NEW x \in PageSets
  PROVE  AddressesOf(x) \in Seq(Nat) /\ Len(AddressesOf(x)) = Len(x.offsets)
<1>1. PICK page \in Nat, offsets \in Seq(Nat) : page = x.page /\ offsets = x.offsets
  BY DEF PageSets
<1>2. AddressesOf(x) = [o \in 1 .. Len(offsets) |-> PageSize * page + 4 * offsets[o]]
  BY <1>1 DEF AddressesOf
<1>3. PageSize * page \in Nat
  BY PageFacts, Times
<1>4. \A o \in 1 .. Len(offsets) : PageSize * page + 4 * offsets[o] \in Nat
  BY <1>3
<1> QED
  BY <1>1, <1>2, <1>4

LEMMA FlatAppendSet ==
  ASSUME NEW sets \in Seq(PageSets), NEW x \in PageSets
  PROVE  /\ Flat(sets) \in Seq(Nat)
         /\ Flat(Append(sets, x)) = Flat(sets) \o AddressesOf(x)
<1> DEFINE s == [k \in DOMAIN sets |-> AddressesOf(sets[k])]
<1>1. PICK n \in Nat : n = Len(sets)
  OBVIOUS
<1>2. \A k \in 1 .. n : sets[k] \in PageSets
  BY <1>1
<1>3. AddressesOf(x) \in Seq(Nat) /\ \A k \in 1 .. n : AddressesOf(sets[k]) \in Seq(Nat)
  BY <1>2, AddressesTyped
<1>4. s = [k \in 1 .. n |-> AddressesOf(sets[k])]
  BY <1>1
<1>5. s \in Seq(Seq(Nat)) /\ Len(s) = n /\ \A k \in 1 .. n : s[k] = AddressesOf(sets[k])
  BY <1>3, <1>4
<1>6. [k \in DOMAIN Append(sets, x) |-> AddressesOf(Append(sets, x)[k])]
        = Append(s, AddressesOf(x))
  <2> DEFINE t == Append(sets, x)
             u == [k \in DOMAIN t |-> AddressesOf(t[k])]
  <2>1. /\ DOMAIN t = 1 .. n + 1 /\ t[n + 1] = x
        /\ \A k \in 1 .. n : t[k] = sets[k]
    BY <1>1, AppendProperties
  <2> HIDE DEF t
  <2>2. \A k \in 1 .. n + 1 : k \in 1 .. n \/ k = n + 1
    OBVIOUS
  <2>3. u = [k \in 1 .. n + 1 |-> AddressesOf(t[k])]
    BY <2>1
  <2>4. \A k \in 1 .. n + 1 : AddressesOf(t[k]) \in Seq(Nat)
    BY <1>2, <1>3, <2>1, <2>2
  <2>5. u \in Seq(Seq(Nat)) /\ Len(u) = n + 1
    BY <2>3, <2>4
  <2>6. u[n + 1] = AddressesOf(x) /\ \A k \in 1 .. n : u[k] = s[k]
    BY <1>5, <2>1, <2>3
  <2>7. /\ Append(s, AddressesOf(x)) \in Seq(Seq(Nat)) /\ Len(Append(s, AddressesOf(x))) = n + 1
        /\ Append(s, AddressesOf(x))[n + 1] = AddressesOf(x)
        /\ \A k \in 1 .. n : Append(s, AddressesOf(x))[k] = s[k]
    BY <1>3, <1>5, AppendProperties
  <2> HIDE DEF u, s
  <2>8. \A k \in 1 .. n + 1 : u[k] = Append(s, AddressesOf(x))[k]
    BY <2>2, <2>6, <2>7
  <2>9. u = Append(s, AddressesOf(x))
    BY <2>5, <2>7, <2>8, SeqEqual
  <2> QED
    BY <2>9 DEF t, u
<1>7. Flat(sets) \in Seq(Nat)
  <2> HIDE DEF s
  <2>1. /\ Len(s) \in Nat /\ Len(s) \in 0 .. Len(s)
        /\ \A k \in 1 .. Len(s) : s[k] \in Seq(Nat)
    BY <1>3, <1>5
  <2>2. Totals(Join, <<>>, s)[Len(s)] \in Seq(Nat)
    BY <2>1, JoinsAre
  <2>3. Flat(sets) = Totals(Join, <<>>, s)[Len(s)]
    BY DEF Flat, Joined, Total, s
  <2> QED
    BY <2>2, <2>3
<1>8. Flat(Append(sets, x)) = Join[<<Flat(sets), AddressesOf(x)>>]
  <2> HIDE DEF s
  <2>1. Flat(Append(sets, x)) = Total(Join, <<>>, Append(s, AddressesOf(x)))
    BY <1>6 DEF Flat, Joined
  <2>2. Total(Join, <<>>, Append(s, AddressesOf(x))) = Join[<<Total(Join, <<>>, s), AddressesOf(x)>>]
    BY <1>3, <1>5, TotalAppend
  <2>3. Flat(sets) = Total(Join, <<>>, s)
    BY DEF Flat, Joined, s
  <2> QED
    BY <2>1, <2>2, <2>3
<1>9. <<Flat(sets), AddressesOf(x)>> \in Seq(Nat) \X Seq(Nat)
  BY <1>3, <1>7
<1> QED
  BY <1>7, <1>8, <1>9 DEF Join

LEMMA FlatAdded ==
  ASSUME NEW sets \in Seq(PageSets), NEW a \in Nat, a % 4 = 0
  PROVE  Flat(AddedTo(sets, a)) = Append(Flat(sets), a)
<1>1. PICK p \in Nat, w \in Nat : p = PageOfA(a) /\ w = WordOfA(a) /\ a = PageSize * p + 4 * w
  BY WordsOfPage
<1>2. CASE sets # <<>> /\ sets[Len(sets)].page = p
  <2>1. PICK front \in Seq(PageSets), l \in PageSets : sets = Append(front, l)
    BY <1>2, SequenceEmptyOrAppend
  <2>2. PICK n \in Nat : n = Len(front)
    OBVIOUS
  <2>3. Len(sets) = n + 1 /\ sets[n + 1] = l /\ \A k \in 1 .. n : sets[k] = front[k]
    BY <2>1, <2>2, AppendProperties
  <2>4. PICK offsets \in Seq(Nat) : offsets = l.offsets /\ l.page = p
    BY <1>2, <2>3 DEF PageSets
  <2> DEFINE m == [page |-> p, offsets |-> Append(offsets, w)]
  <2>5. m \in PageSets /\ m.page = p /\ m.offsets = Append(offsets, w)
    BY DEF PageSets
  <2>6. /\ AddedTo(sets, a) \in Seq(PageSets) /\ Len(AddedTo(sets, a)) = n + 1
        /\ AddedTo(sets, a)[n + 1] = m
        /\ \A k \in 1 .. n : AddedTo(sets, a)[k] = sets[k]
    <3>1. /\ sets # <<>> /\ sets[Len(sets)].page = PageOfA(a) /\ sets[Len(sets)] = l
          /\ Len(sets) = n + 1 /\ Len(sets) - 1 = n
      <4>1. Len(sets) = n + 1 /\ sets[n + 1] = l
        BY <2>3
      <4>2. (n + 1) - 1 = n
        BY <2>2
      <4> QED
        BY <1>1, <1>2, <4>1, <4>2, Zenon
    <3>2. /\ AddedTo(sets, a) \in Seq(PageSets) /\ Len(AddedTo(sets, a)) = Len(sets)
          /\ \A k \in 1 .. Len(sets) - 1 : AddedTo(sets, a)[k] = sets[k]
          /\ AddedTo(sets, a)[Len(sets)] =
               [page |-> PageOfA(a), offsets |-> Append(sets[Len(sets)].offsets, WordOfA(a))]
      BY <3>1, AddedToIs
    <3>3. [page |-> PageOfA(a), offsets |-> Append(sets[Len(sets)].offsets, WordOfA(a))] = m
      BY <1>1, <2>4, <3>1, Zenon
    <3>4. AddedTo(sets, a)[Len(sets)] = m
      BY <3>2, <3>3
    <3> HIDE DEF m
    <3>5. /\ AddedTo(sets, a) \in Seq(PageSets) /\ Len(AddedTo(sets, a)) = n + 1
          /\ AddedTo(sets, a)[n + 1] = m
      BY <3>1, <3>2, <3>4
    <3>6. \A k \in 1 .. n : AddedTo(sets, a)[k] = sets[k]
      BY <3>1, <3>2
    <3> QED
      BY <3>5, <3>6
  <2> HIDE DEF m
  <2>7. AddedTo(sets, a) = Append(front, m)
    <3>1. /\ Append(front, m) \in Seq(PageSets) /\ Len(Append(front, m)) = n + 1
          /\ Append(front, m)[n + 1] = m /\ \A k \in 1 .. n : Append(front, m)[k] = front[k]
      BY <2>2, <2>5, AppendProperties
    <3>2. \A k \in 1 .. n + 1 : k \in 1 .. n \/ k = n + 1
      OBVIOUS
    <3>3. \A k \in 1 .. n + 1 : AddedTo(sets, a)[k] = Append(front, m)[k]
      BY <2>3, <2>6, <3>1, <3>2
    <3> QED
      BY <2>6, <3>1, <3>3, SeqEqual
  <2>8. AddressesOf(m) = AddressesOf(l) \o <<a>>
    <3>1. PICK c \in Nat : c = PageSize * p
      BY PageFacts, Times
    <3>2. PICK len \in Nat : len = Len(offsets)
      OBVIOUS
    <3>3. AddressesOf(l) = [o \in 1 .. len |-> c + 4 * offsets[o]]
      BY <2>4, <3>1, <3>2 DEF AddressesOf
    <3>4. AddressesOf(m) = [o \in 1 .. len + 1 |-> c + 4 * Append(offsets, w)[o]]
      BY <2>5, <3>1, <3>2 DEF AddressesOf
    <3>5. Append(offsets, w)[len + 1] = w /\ \A o \in 1 .. len : Append(offsets, w)[o] = offsets[o]
      BY <3>2, AppendProperties
    <3>6. a = c + 4 * w
      BY <1>1, <3>1
    <3>7. AddressesOf(l) \in Seq(Nat) /\ Len(AddressesOf(l)) = len
      BY <2>4, <3>2, AddressesTyped
    <3>8. AddressesOf(m) \in Seq(Nat) /\ Len(AddressesOf(m)) = len + 1
      BY <2>5, <3>2, AddressesTyped, AppendProperties
    <3>9. /\ AddressesOf(l) \o <<a>> \in Seq(Nat) /\ Len(AddressesOf(l) \o <<a>>) = len + 1
          /\ (AddressesOf(l) \o <<a>>)[len + 1] = a
          /\ \A o \in 1 .. len : (AddressesOf(l) \o <<a>>)[o] = AddressesOf(l)[o]
      BY <3>7, ConcatProperties
    <3>10. \A o \in 1 .. len + 1 : AddressesOf(m)[o] = (AddressesOf(l) \o <<a>>)[o]
      <4> TAKE o \in 1 .. len + 1
      <4>0. AddressesOf(m)[o] = c + 4 * Append(offsets, w)[o]
        BY <3>4
      <4>1. CASE o \in 1 .. len
        <5>1. AddressesOf(l)[o] = c + 4 * offsets[o]
          BY <3>3, <4>1
        <5>2. Append(offsets, w)[o] = offsets[o]
          BY <3>5, <4>1
        <5>3. (AddressesOf(l) \o <<a>>)[o] = AddressesOf(l)[o]
          BY <3>9, <4>1
        <5> QED
          BY <4>0, <5>1, <5>2, <5>3
      <4>2. CASE o = len + 1
        <5>1. Append(offsets, w)[o] = w
          BY <3>5, <4>2
        <5>2. (AddressesOf(l) \o <<a>>)[o] = a
          BY <3>9, <4>2
        <5>3. AddressesOf(m)[o] = c + 4 * w
          BY <4>0, <5>1, Zenon
        <5> QED
          BY <3>6, <5>2, <5>3
      <4>3. o \in 1 .. len \/ o = len + 1
        OBVIOUS
      <4> QED
        BY <4>1, <4>2, <4>3, Zenon
    <3>11. PICK s \in Seq(Nat), t \in Seq(Nat) :
             s = AddressesOf(m) /\ t = AddressesOf(l) \o <<a>>
      BY <3>8, <3>9
    <3>12. Len(s) = Len(t) /\ \A o \in 1 .. Len(s) : s[o] = t[o]
      <4>1. Len(s) = len + 1 /\ Len(t) = len + 1
        BY <3>8, <3>9, <3>11, Zenon
      <4>2. \A o \in 1 .. len + 1 : s[o] = t[o]
        BY <3>10, <3>11, Zenon
      <4> QED
        BY <4>1, <4>2, Zenon
    <3>13. s = t
      BY <3>12, SeqEqual
    <3> QED
      BY <3>11, <3>13
  <2>9. /\ Flat(sets) = Flat(front) \o AddressesOf(l) /\ Flat(front) \in Seq(Nat)
        /\ Flat(AddedTo(sets, a)) = Flat(front) \o AddressesOf(m)
    BY <2>1, <2>5, <2>7, FlatAppendSet
  <2>10. AddressesOf(l) \in Seq(Nat) /\ <<a>> \in Seq(Nat)
    BY AddressesTyped
  <2>11. Flat(front) \o (AddressesOf(l) \o <<a>>) = (Flat(front) \o AddressesOf(l)) \o <<a>>
    BY <2>9, <2>10, ConcatAssociative
  <2>12. Flat(sets) \in Seq(Nat)
    BY <2>9, <2>10, ConcatProperties
  <2>13. Flat(sets) \o <<a>> = Append(Flat(sets), a)
    BY <2>12, AppendIsConcat
  <2> QED
    BY <2>8, <2>9, <2>11, <2>13
<1>3. CASE ~(sets # <<>> /\ sets[Len(sets)].page = p)
  <2> DEFINE m == [page |-> p, offsets |-> <<w>>]
  <2>1. m \in PageSets /\ m.page = p /\ m.offsets = <<w>>
    BY DEF PageSets
  <2>2. AddedTo(sets, a) = Append(sets, m)
    BY <1>1, <1>3, AddedToIs
  <2> HIDE DEF m
  <2>3. AddressesOf(m) = <<a>>
    <3>1. AddressesOf(m) = [o \in 1 .. 1 |-> PageSize * p + 4 * <<w>>[o]]
      BY <2>1 DEF AddressesOf
    <3> QED
      BY <1>1, <3>1
  <2>4. Flat(sets) \in Seq(Nat) /\ Flat(Append(sets, m)) = Flat(sets) \o AddressesOf(m)
    BY <2>1, FlatAppendSet
  <2>5. Flat(sets) \o <<a>> = Append(Flat(sets), a)
    BY <2>4, AppendIsConcat
  <2> QED
    BY <2>2, <2>3, <2>4, <2>5
<1> QED
  BY <1>2, <1>3

\* The reader has the addresses back that the writer made the sets of.
LEMMA ReadBack ==
  ASSUME NEW A \in Seq(Nat), \A k \in 1 .. Len(A) : A[k] % 4 = 0
  PROVE  Flat(SetsOf(A)) = A
<1> DEFINE T == Totals(AddToSets, <<>>, A)
           AsFar(s, m) == s \in Seq(Nat) /\ Len(s) = m /\ \A k \in 1 .. m : s[k] = A[k]
           D == {m \in 0 .. Len(A) : AsFar(Flat(T[m]), m)}
<1>1. PICK N \in Nat : N = Len(A)
  OBVIOUS
<1>2. /\ T[0] = <<>>
      /\ \A m \in 0 .. N : T[m] \in Seq(PageSets)
      /\ \A m \in 1 .. N : T[m] = AddedTo(T[m - 1], A[m])
  BY <1>1, SetsAre
<1>3. SetsOf(A) = T[N]
  BY <1>1 DEF SetsOf, Total
<1> HIDE DEF T
<1>4. 0 \in D
  <2>1. [k \in DOMAIN <<>> |-> AddressesOf(<<>>[k])] = <<>>
    OBVIOUS
  <2>2. Flat(<<>>) = <<>>
    BY <2>1, TotalEmpty DEF Flat, Joined
  <2>3. <<>> \in Seq(Nat) /\ Len(<<>>) = 0
    OBVIOUS
  <2>4. AsFar(Flat(T[0]), 0)
    BY <1>2, <2>2, <2>3
  <2> QED
    BY <1>1, <2>4
<1>5. ASSUME NEW m \in 1 .. N, m - 1 \in D
      PROVE  m \in D
  <2>1. PICK f \in Seq(Nat) : f = Flat(T[m - 1]) /\ AsFar(f, m - 1)
    BY <1>5
  <2>2. T[m - 1] \in Seq(PageSets) /\ A[m] \in Nat /\ A[m] % 4 = 0
    BY <1>1, <1>2
  <2>3. Flat(T[m]) = Append(f, A[m])
    BY <1>2, <2>1, <2>2, FlatAdded
  <2>4. /\ Append(f, A[m]) \in Seq(Nat) /\ Len(Append(f, A[m])) = Len(f) + 1
        /\ Append(f, A[m])[Len(f) + 1] = A[m]
        /\ \A k \in 1 .. Len(f) : Append(f, A[m])[k] = f[k]
    BY <2>2, AppendProperties
  <2>5. PICK g \in Seq(Nat) :
          g = Append(f, A[m]) /\ Len(g) = m /\ g[m] = A[m] /\ \A k \in 1 .. m - 1 : g[k] = A[k]
    <3>1. Len(f) = m - 1 /\ Len(f) + 1 = m /\ \A k \in 1 .. m - 1 : f[k] = A[k]
      BY <1>1, <2>1
    <3> QED
      BY <2>4, <3>1, Zenon
  <2>6. \A k \in 1 .. m : k = m \/ k \in 1 .. m - 1
    BY <1>1
  <2>7. AsFar(g, m)
    BY <2>5, <2>6
  <2>8. AsFar(Flat(T[m]), m)
    BY <2>3, <2>5, <2>7, Zenon
  <2> QED
    BY <1>1, <2>8
<1>6. N \in D
  <2> HIDE DEF D
  <2>1. \A k \in 0 .. N : k \in D
    BY <1>1, <1>4, <1>5, TurnByTurn
  <2> QED
    BY <1>1, <2>1
<1>7. PICK f \in Seq(Nat) : f = Flat(SetsOf(A)) /\ Len(f) = N /\ \A k \in 1 .. N : f[k] = A[k]
  BY <1>3, <1>6
<1> QED
  BY <1>1, <1>7, SeqEqual

\* A sum is at most as many times a bound of its terms as it has terms.
LEMMA SumBound ==
  ASSUME NEW s, Len(s) \in Nat, NEW B \in Nat,
         \A k \in 1 .. Len(s) : s[k] \in Nat /\ s[k] <= B
  PROVE  SumOf(s) \in Nat /\ SumOf(s) <= Len(s) * B
<1> DEFINE T == Totals(Plus, 0, s)
           D == {k \in 0 .. Len(s) : T[k] <= k * B}
<1>1. PICK N \in Nat : N = Len(s)
  OBVIOUS
<1>2. /\ T[0] = 0 /\ \A k \in 0 .. N : T[k] \in Nat
      /\ \A k \in 1 .. N : T[k] = T[k - 1] + s[k]
  BY <1>1, SumsAre
<1>3. SumOf(s) = T[N]
  BY <1>1 DEF SumOf, Total
<1> HIDE DEF T
<1>4. 0 \in D
  BY <1>1, <1>2
<1>5. ASSUME NEW k \in 1 .. N, k - 1 \in D
      PROVE  k \in D
  <2>1. PICK b \in Nat : b = (k - 1) * B
    BY Times
  <2>2. k * B = b + B
    BY <2>1
  <2>3. T[k - 1] \in Nat /\ s[k] \in Nat /\ s[k] <= B /\ T[k - 1] <= b
    BY <1>1, <1>2, <1>5, <2>1
  <2> QED
    BY <1>1, <1>2, <2>2, <2>3
<1>6. N \in D
  <2> HIDE DEF D
  <2>1. \A k \in 0 .. N : k \in D
    BY <1>1, <1>4, <1>5, TurnByTurn
  <2> QED
    BY <1>1, <2>1
<1> QED
  BY <1>1, <1>2, <1>3, <1>6

\* A longer sequence of sets takes more room, a fuller one too.
LEMMA SetsBound ==
  ASSUME NEW sets \in Seq(PageSets), NEW count \in Nat, NEW pages \in Nat, Len(sets) <= pages,
         \A j \in 1 .. Len(sets) :
           Len(sets[j].offsets) <= count /\ Len(sets[j].offsets) <= MaxSetCount
  PROVE  /\ SizeOfSets(sets) \in Nat /\ SetMaxSize(count) \in Nat
         /\ SizeOfSets(sets) <= pages * SetMaxSize(count)
<1> DEFINE s == [k \in DOMAIN sets |-> 4 + Padded(Len(sets[k].offsets), 4)]
<1>1. PICK N \in Nat : N = Len(sets) /\ N <= pages
  OBVIOUS
<1>2. PICK B \in Nat :
        B = SetMaxSize(count) /\ B = 4 + (IF count < MaxSetCount THEN Padded(count, 4) ELSE MaxSetCount)
  <2>1. Padded(count, 4) \in Nat /\ MaxSetCount \in Nat
    BY PaddedIs, PageFacts
  <2>2. 4 + (IF count < MaxSetCount THEN Padded(count, 4) ELSE MaxSetCount) \in Nat
    BY <2>1
  <2> QED
    BY <2>2 DEF SetMaxSize
<1>3. ASSUME NEW k \in 1 .. N
      PROVE  s[k] \in Nat /\ s[k] <= B
  <2>1. PICK l \in Nat : l = Len(sets[k].offsets) /\ l <= count /\ l <= MaxSetCount
    BY <1>1 DEF PageSets
  <2>2. s[k] = 4 + Padded(l, 4)
    BY <1>1, <2>1
  <2>3. Padded(l, 4) \in Nat /\ Padded(l, 4) <= Padded(count, 4) /\ Padded(l, 4) <= MaxSetCount
    BY <2>1, PaddedIs, PaddedMonotone, PageAssumption
  <2>4. Padded(count, 4) \in Nat
    BY PaddedIs
  <2> QED
    BY <1>2, <2>2, <2>3, <2>4, PageFacts
<1>4. Len(s) = N
  BY <1>1
<1>5. SizeOfSets(sets) = SumOf(s)
  BY DEF SizeOfSets
<1> HIDE DEF s
<1>6. SumOf(s) \in Nat /\ SumOf(s) <= N * B
  BY <1>3, <1>4, SumBound
<1>7. N * B <= pages * B /\ N * B \in Nat /\ pages * B \in Nat
  BY <1>1, TimesMonotone, Times
<1> QED
  BY <1>2, <1>5, <1>6, <1>7

----------------------------------------------------------------------------
(* Addresses that come in places, one place after the other *)

InPlaces(R, n, from, to) ==
  /\ \A i \in 1 .. n :
       /\ R[i] \in Seq(Nat) /\ from[i] \in Nat /\ to[i] \in Nat /\ from[i] <= to[i]
       /\ \A r \in 1 .. Len(R[i]) : from[i] <= R[i][r] /\ R[i][r] < to[i]
  /\ \A i \in 1 .. n - 1 : to[i] <= from[i + 1]

\* So many of the places hold no address beyond the last of them.
LEMMA Below ==
  ASSUME NEW R, NEW n \in Nat, Len(R) = n, NEW from, NEW to, InPlaces(R, n, from, to)
  PROVE  \A k \in 0 .. n :
           /\ Totals(Join, <<>>, R)[k] \in Seq(Nat)
           /\ k = 0 => Totals(Join, <<>>, R)[k] = <<>>
           /\ k # 0 => \A x \in 1 .. Len(Totals(Join, <<>>, R)[k]) :
                         Totals(Join, <<>>, R)[k][x] < to[k]
<1> DEFINE C == Totals(Join, <<>>, R)
           D == {k \in 0 .. n : k # 0 => \A x \in 1 .. Len(C[k]) : C[k][x] < to[k]}
<1>1. \A k \in 1 .. n : R[k] \in Seq(Nat)
  BY DEF InPlaces
<1>2. /\ C[0] = <<>> /\ \A k \in 0 .. n : C[k] \in Seq(Nat)
      /\ \A k \in 1 .. n : C[k] = C[k - 1] \o R[k]
  BY <1>1, JoinsAre
<1> HIDE DEF C
<1>3. 0 \in D
  OBVIOUS
<1>4. ASSUME NEW k \in 1 .. n, k - 1 \in D
      PROVE  k \in D
  <2>0. k - 1 \in 0 .. n
    OBVIOUS
  <2>1. PICK c \in Seq(Nat), r \in Seq(Nat) : c = C[k - 1] /\ r = R[k] /\ C[k] = c \o r
    BY <1>1, <1>2, <2>0
  <2>2. PICK low \in Nat, high \in Nat : low = from[k] /\ high = to[k] /\ low <= high
    BY DEF InPlaces
  <2>3. \A x \in 1 .. Len(r) : r[x] < high
    BY <2>1, <2>2 DEF InPlaces
  <2>4. \A x \in 1 .. Len(c) : c[x] < low
    <3>1. CASE k = 1
      BY <1>2, <2>1, <3>1
    <3>2. CASE k # 1
      <4>1. k - 1 \in 1 .. n - 1 /\ (k - 1) + 1 = k /\ k - 1 \in 1 .. n
        BY <3>2
      <4>2. to[k - 1] \in Nat /\ to[k - 1] <= low
        BY <2>2, <4>1 DEF InPlaces
      <4>3. \A x \in 1 .. Len(c) : c[x] < to[k - 1]
        BY <1>4, <2>1, <4>1
      <4> QED
        BY <4>2, <4>3
    <3> QED
      BY <3>1, <3>2
  <2>5. ASSUME NEW x \in 1 .. Len(c \o r)
        PROVE  (c \o r)[x] < high
    <3>1. Len(c \o r) = Len(c) + Len(r)
            /\ (c \o r)[x] = IF x <= Len(c) THEN c[x] ELSE r[x - Len(c)]
      BY ConcatProperties
    <3>2. CASE x <= Len(c)
      <4>1. x \in 1 .. Len(c) /\ c[x] \in Nat
        BY <3>2
      <4> QED
        BY <2>2, <2>4, <3>1, <3>2, <4>1
    <3>3. CASE ~(x <= Len(c))
      <4>1. x - Len(c) \in 1 .. Len(r)
        BY <3>1, <3>3
      <4> QED
        BY <2>3, <3>1, <3>3, <4>1
    <3> QED
      BY <3>2, <3>3
  <2>6. \A x \in 1 .. Len(C[k]) : C[k][x] < to[k]
    BY <2>1, <2>2, <2>5
  <2> QED
    BY <2>6
<1>5. \A k \in 0 .. n : k \in D
  <2> HIDE DEF D
  <2> QED
    BY <1>3, <1>4, TurnByTurn
<1> QED
  BY <1>2, <1>5 DEF C

\* The addresses after a place are beyond it.
LEMMA Beyond ==
  ASSUME NEW R, NEW n \in Nat, Len(R) = n, NEW from, NEW to, InPlaces(R, n, from, to),
         NEW i \in 1 .. n
  PROVE  \A k \in i .. n :
           /\ Len(Totals(Join, <<>>, R)[i]) <= Len(Totals(Join, <<>>, R)[k])
           /\ \A x \in 1 .. Len(Totals(Join, <<>>, R)[i]) :
                Totals(Join, <<>>, R)[k][x] = Totals(Join, <<>>, R)[i][x]
           /\ \A x \in Len(Totals(Join, <<>>, R)[i]) + 1 .. Len(Totals(Join, <<>>, R)[k]) :
                Totals(Join, <<>>, R)[k][x] >= to[i]
<1> DEFINE C == Totals(Join, <<>>, R)
           Good(c, k) == /\ to[k] >= to[i] /\ Len(C[i]) <= Len(c)
                         /\ \A x \in 1 .. Len(C[i]) : c[x] = C[i][x]
                         /\ \A x \in Len(C[i]) + 1 .. Len(c) : c[x] >= to[i]
           D == {k \in 0 .. n : k >= i => Good(C[k], k)}
<1>1. \A k \in 1 .. n : R[k] \in Seq(Nat)
  BY DEF InPlaces
<1>2. /\ C[0] = <<>> /\ \A k \in 0 .. n : C[k] \in Seq(Nat)
      /\ \A k \in 1 .. n : C[k] = C[k - 1] \o R[k]
  BY <1>1, JoinsAre
<1> HIDE DEF C
<1>a. PICK limit \in Nat, l \in Nat : limit = to[i] /\ l = Len(C[i])
  <2>1. i \in 0 .. n
    OBVIOUS
  <2>2. Len(C[i]) \in Nat
    BY <1>2, <2>1
  <2>3. to[i] \in Nat
    BY DEF InPlaces
  <2> QED
    BY <2>2, <2>3
<1>3. 0 \in D
  OBVIOUS
<1>4. ASSUME NEW k \in 1 .. n, k - 1 \in D
      PROVE  k \in D
  <2>1. CASE k < i
    BY <2>1
  <2>2. CASE k = i
    <3>1. Good(C[i], i)
      BY <1>a
    <3> QED
      BY <2>2, <3>1
  <2>3. CASE k > i
    <3>0. k - 1 \in 0 .. n
      OBVIOUS
    <3>1. PICK c \in Seq(Nat), r \in Seq(Nat) : c = C[k - 1] /\ r = R[k] /\ C[k] = c \o r
      BY <1>1, <1>2, <3>0
    <3>2. k - 1 \in 1 .. n - 1 /\ k - 1 \in 1 .. n /\ (k - 1) + 1 = k /\ k - 1 >= i
      BY <2>3
    <3>3. PICK low \in Nat, high \in Nat :
            low = from[k] /\ high = to[k] /\ low <= high /\ limit <= low
      <4>1. Good(C[k - 1], k - 1)
        BY <1>4, <3>2
      <4>2. to[k - 1] \in Nat /\ to[k - 1] >= limit /\ to[k - 1] <= from[k]
        BY <1>a, <3>2, <4>1 DEF InPlaces
      <4>3. from[k] \in Nat /\ to[k] \in Nat /\ from[k] <= to[k]
        BY DEF InPlaces
      <4> QED
        BY <4>2, <4>3
    <3>4. \A x \in 1 .. Len(r) : r[x] >= low
      BY <3>1, <3>3 DEF InPlaces
    <3>5. /\ l <= Len(c) /\ \A x \in 1 .. l : c[x] = C[i][x]
          /\ \A x \in l + 1 .. Len(c) : c[x] >= limit
      BY <1>4, <1>a, <3>1, <3>2
    <3>6. Len(c \o r) = Len(c) + Len(r)
            /\ \A x \in 1 .. Len(c) + Len(r) :
                 (c \o r)[x] = IF x <= Len(c) THEN c[x] ELSE r[x - Len(c)]
      BY ConcatProperties
    <3>7. PICK m \in Nat, j \in Nat : m = Len(c) /\ j = Len(r)
      OBVIOUS
    <3>8. ASSUME NEW x \in 1 .. l
          PROVE  (c \o r)[x] = C[i][x]
      <4>1. x \in 1 .. m + j /\ x <= m
        BY <3>5, <3>7
      <4> QED
        BY <3>5, <3>6, <3>7, <4>1
    <3>9. ASSUME NEW x \in l + 1 .. m + j
          PROVE  (c \o r)[x] >= limit
      <4>1. x \in 1 .. m + j
        OBVIOUS
      <4>2. CASE x <= m
        <5>1. x \in l + 1 .. m
          BY <4>2
        <5> QED
          BY <3>5, <3>6, <3>7, <4>1, <4>2, <5>1
      <4>3. CASE ~(x <= m)
        <5>1. x - m \in 1 .. j
          BY <4>1, <4>3
        <5>2. r[x - m] \in Nat /\ r[x - m] >= low
          BY <3>4, <3>7, <5>1
        <5>3. (c \o r)[x] = r[x - m]
          BY <3>6, <3>7, <4>1, <4>3
        <5> QED
          BY <3>3, <5>2, <5>3
      <4> QED
        BY <4>2, <4>3
    <3>10. to[k] >= to[i] /\ Len(C[i]) <= Len(c \o r)
      <4>1. l <= m + j
        BY <3>5, <3>7
      <4> QED
        BY <1>a, <3>3, <3>6, <3>7, <4>1
    <3>11. Good(c \o r, k)
      <4>1. Len(c \o r) = m + j
        BY <3>6, <3>7
      <4> QED
        BY <1>a, <3>8, <3>9, <3>10, <4>1
    <3>12. Good(C[k], k)
      BY <3>1, <3>11, Zenon
    <3> QED
      BY <3>12
  <2> QED
    BY <2>1, <2>2, <2>3
<1>5. \A k \in 0 .. n : k \in D
  <2> HIDE DEF D
  <2> QED
    BY <1>3, <1>4, TurnByTurn
<1>6. ASSUME NEW k \in i .. n
      PROVE  Good(C[k], k)
  <2>1. k \in D /\ k >= i
    BY <1>5
  <2> QED
    BY <2>1
<1> QED
  BY <1>6 DEF C

\* Where the addresses of a place are, and the others.
LEMMA PlaceOf ==
  ASSUME NEW R, NEW n \in Nat, Len(R) = n, NEW from, NEW to, InPlaces(R, n, from, to),
         NEW i \in 1 .. n
  PROVE  /\ Joined(R) \in Seq(Nat)
         /\ \E L \in Nat :
              /\ L + Len(R[i]) <= Len(Joined(R))
              /\ \A x \in 1 .. L : Joined(R)[x] < from[i]
              /\ \A r \in 1 .. Len(R[i]) : Joined(R)[L + r] = R[i][r]
              /\ \A x \in L + Len(R[i]) + 1 .. Len(Joined(R)) : Joined(R)[x] >= to[i]
<1> DEFINE C == Totals(Join, <<>>, R)
<1>1. \A k \in 1 .. n : R[k] \in Seq(Nat)
  BY DEF InPlaces
<1>2. /\ C[0] = <<>> /\ \A k \in 0 .. n : C[k] \in Seq(Nat)
      /\ \A k \in 1 .. n : C[k] = C[k - 1] \o R[k]
  BY <1>1, JoinsAre
<1>3. Joined(R) = C[n]
  BY DEF Joined, Total
<1>4. PICK A \in Seq(Nat), b \in Seq(Nat), c \in Seq(Nat), r \in Seq(Nat) :
        A = C[n] /\ b = C[i - 1] /\ c = C[i] /\ r = R[i] /\ c = b \o r
  <2>1. i - 1 \in 0 .. n /\ i \in 0 .. n /\ n \in 0 .. n
    OBVIOUS
  <2> QED
    BY <1>1, <1>2, <2>1
<1>5. i # 1 => \A x \in 1 .. Len(b) : b[x] < to[i - 1]
  BY <1>4, Below
<1>6. /\ Len(c) <= Len(A) /\ \A x \in 1 .. Len(c) : A[x] = c[x]
      /\ \A x \in Len(c) + 1 .. Len(A) : A[x] >= to[i]
  <2>1. n \in i .. n
    OBVIOUS
  <2>2. /\ Len(C[i]) <= Len(C[n]) /\ \A x \in 1 .. Len(C[i]) : C[n][x] = C[i][x]
        /\ \A x \in Len(C[i]) + 1 .. Len(C[n]) : C[n][x] >= to[i]
    BY <2>1, Beyond, Zenon
  <2> QED
    BY <1>4, <2>2, Zenon
<1> HIDE DEF C
<1>7. PICK l \in Nat, m \in Nat : l = Len(b) /\ m = Len(r) /\ Len(c) = l + m
  BY <1>4, ConcatProperties
<1>8. \A x \in 1 .. l + m : c[x] = IF x <= l THEN b[x] ELSE r[x - l]
  BY <1>4, <1>7, ConcatProperties
<1>9. ASSUME NEW x \in 1 .. l
      PROVE  A[x] < from[i]
  <2>1. i # 1
    BY <1>2, <1>4, <1>7
  <2>2. i - 1 \in 1 .. n - 1 /\ i - 1 \in 1 .. n /\ (i - 1) + 1 = i
    BY <2>1
  <2>3. to[i - 1] \in Nat /\ from[i] \in Nat /\ to[i - 1] <= from[i]
    BY <2>2 DEF InPlaces
  <2>4. x \in 1 .. l + m /\ x <= l /\ b[x] \in Nat
    BY <1>7
  <2>5. A[x] = b[x] /\ b[x] < to[i - 1]
    BY <1>5, <1>6, <1>7, <1>8, <2>1, <2>4
  <2> QED
    BY <2>3, <2>4, <2>5
<1>10. ASSUME NEW x \in 1 .. m
       PROVE  A[l + x] = r[x]
  <2>1. l + x \in 1 .. l + m /\ ~(l + x <= l) /\ (l + x) - l = x
    OBVIOUS
  <2>2. c[l + x] = r[x]
    BY <1>8, <2>1
  <2> QED
    BY <1>6, <1>7, <2>1, <2>2
<1>11. /\ l + Len(R[i]) <= Len(Joined(R))
       /\ \A x \in 1 .. l : Joined(R)[x] < from[i]
       /\ \A x \in 1 .. Len(R[i]) : Joined(R)[l + x] = R[i][x]
       /\ \A x \in l + Len(R[i]) + 1 .. Len(Joined(R)) : Joined(R)[x] >= to[i]
  BY <1>3, <1>4, <1>6, <1>7, <1>9, <1>10
<1> QED
  BY <1>3, <1>4, <1>11

LEMMA AscendingIs ==
  ASSUME NEW A \in Seq(Nat), Ascending(A), NEW n \in Nat, n = Len(A)
  PROVE  /\ \A x \in 1 .. n : A[x] % 4 = 0 /\ A[x] \in Nat
         /\ \A x \in 1 .. n - 1 : A[x] < A[x + 1]
BY DEF Ascending

\* Addresses in order, place after place, are in order.
LEMMA InOrderThroughout ==
  ASSUME NEW R, NEW n \in Nat, Len(R) = n, NEW from, NEW to, InPlaces(R, n, from, to),
         \A i \in 1 .. n : Ascending(R[i])
  PROVE  Ascending(Joined(R))
<1> DEFINE C == Totals(Join, <<>>, R)
           D == {k \in 0 .. n : Ascending(C[k])}
<1>1. \A k \in 1 .. n : R[k] \in Seq(Nat)
  BY DEF InPlaces
<1>2. /\ C[0] = <<>> /\ \A k \in 0 .. n : C[k] \in Seq(Nat)
      /\ \A k \in 1 .. n : C[k] = C[k - 1] \o R[k]
  BY <1>1, JoinsAre
<1>3. \A k \in 1 .. n : \A x \in 1 .. Len(C[k]) : C[k][x] < to[k]
  <2> TAKE k \in 1 .. n
  <2>1. k \in 0 .. n /\ k # 0
    OBVIOUS
  <2> QED
    BY <2>1, Below, Zenon
<1>4. Joined(R) = C[n]
  BY DEF Joined, Total
<1> HIDE DEF C
<1>5. 0 \in D
  <2>1. <<>> \in Seq(Nat) /\ Len(<<>>) = 0
    OBVIOUS
  <2>2. Ascending(<<>>)
    BY <2>1 DEF Ascending
  <2> QED
    BY <1>2, <2>2
<1>6. ASSUME NEW k \in 1 .. n, k - 1 \in D
      PROVE  k \in D
  <2>0. k - 1 \in 0 .. n
    OBVIOUS
  <2>1. PICK c \in Seq(Nat), r \in Seq(Nat) : c = C[k - 1] /\ r = R[k] /\ C[k] = c \o r
    BY <1>1, <1>2, <2>0
  <2>2. PICK l \in Nat, m \in Nat : l = Len(c) /\ m = Len(r)
    OBVIOUS
  <2>3. /\ \A x \in 1 .. l : c[x] % 4 = 0 /\ c[x] \in Nat
        /\ \A x \in 1 .. l - 1 : c[x] < c[x + 1]
        /\ \A x \in 1 .. m : r[x] % 4 = 0 /\ r[x] \in Nat
        /\ \A x \in 1 .. m - 1 : r[x] < r[x + 1]
    <3>1. Ascending(c) /\ Ascending(r)
      BY <1>6, <2>1
    <3>2. /\ \A x \in 1 .. l : c[x] % 4 = 0 /\ c[x] \in Nat
          /\ \A x \in 1 .. l - 1 : c[x] < c[x + 1]
      BY <2>2, <3>1, AscendingIs, Zenon
    <3>3. /\ \A x \in 1 .. m : r[x] % 4 = 0 /\ r[x] \in Nat
          /\ \A x \in 1 .. m - 1 : r[x] < r[x + 1]
      BY <2>2, <3>1, AscendingIs, Zenon
    <3> QED
      BY <3>2, <3>3, Zenon
  <2>4. PICK d \in Seq(Nat) :
          /\ d = c \o r /\ Len(d) = l + m
          /\ \A x \in 1 .. l + m : d[x] = IF x <= l THEN c[x] ELSE r[x - l]
    <3>1. /\ c \o r \in Seq(Nat) /\ Len(c \o r) = l + m
          /\ \A x \in 1 .. l + m : (c \o r)[x] = IF x <= l THEN c[x] ELSE r[x - l]
      BY <2>2, ConcatProperties, Zenon
    <3> QED
      BY <3>1, Zenon
  <2>5. ASSUME NEW x \in 1 .. l + m
        PROVE  d[x] % 4 = 0
    <3>1. CASE x <= l
      BY <2>3, <2>4, <3>1
    <3>2. CASE ~(x <= l)
      <4>1. x - l \in 1 .. m
        BY <3>2
      <4> QED
        BY <2>3, <2>4, <3>2, <4>1
    <3> QED
      BY <3>1, <3>2
  <2>6. ASSUME NEW x \in 1 .. (l + m) - 1
        PROVE  d[x] < d[x + 1]
    <3>0. x \in 1 .. l + m /\ x + 1 \in 1 .. l + m
      OBVIOUS
    <3>1. CASE x <= l - 1
      <4>1. x \in 1 .. l - 1 /\ x <= l /\ x + 1 <= l
        BY <3>1
      <4> QED
        BY <2>3, <2>4, <3>0, <4>1
    <3>2. CASE x = l
      <4>1. d[x] = c[l] /\ d[x + 1] = r[1]
        <5>1. x <= l /\ ~(x + 1 <= l) /\ (x + 1) - l = 1
          BY <3>2
        <5> QED
          BY <2>4, <3>0, <3>2, <5>1
      <4>2. l # 0 /\ k # 1
        BY <1>2, <2>1, <2>2, <3>2
      <4>3. k - 1 \in 1 .. n /\ k - 1 \in 1 .. n - 1 /\ (k - 1) + 1 = k
              /\ l \in 1 .. l /\ 1 \in 1 .. m
        BY <3>0, <3>2, <4>2
      <4>4. c[l] < to[k - 1] /\ c[l] \in Nat
        BY <1>3, <2>1, <2>2, <2>3, <4>3
      <4>5. to[k - 1] \in Nat /\ from[k] \in Nat /\ to[k - 1] <= from[k]
              /\ from[k] <= r[1] /\ r[1] \in Nat
        BY <2>1, <2>2, <2>3, <4>3 DEF InPlaces
      <4> QED
        BY <4>1, <4>4, <4>5
    <3>3. CASE x > l
      <4>1. x - l \in 1 .. m - 1 /\ (x + 1) - l = (x - l) + 1 /\ ~(x <= l) /\ ~(x + 1 <= l)
        BY <3>3
      <4>2. d[x] = r[x - l] /\ d[x + 1] = r[(x - l) + 1]
        BY <2>4, <3>0, <4>1
      <4> QED
        BY <2>3, <4>1, <4>2
    <3> QED
      BY <3>1, <3>2, <3>3
  <2>7. Ascending(d)
    BY <2>4, <2>5, <2>6 DEF Ascending
  <2>8. Ascending(C[k])
    BY <2>1, <2>4, <2>7, Zenon
  <2> QED
    BY <2>8
<1>7. \A k \in 0 .. n : k \in D
  <2> HIDE DEF D
  <2> QED
    BY <1>5, <1>6, TurnByTurn
<1> QED
  BY <1>4, <1>7

\* From one address to another there are no more new sets than pages.
LEMMA SetsBetween ==
  ASSUME NEW A, Ascending(A), NEW m \in 1 .. Len(A)
  PROVE  /\ Len(Totals(AddToSets, <<>>, A)[m]) <= Len(Totals(AddToSets, <<>>, A)[m - 1]) + 1
         /\ \A k \in m .. Len(A) :
              Len(Totals(AddToSets, <<>>, A)[k])
                <= Len(Totals(AddToSets, <<>>, A)[m]) + PageOfA(A[k]) - PageOfA(A[m])
<1> DEFINE T == Totals(AddToSets, <<>>, A)
           D == {k \in 0 .. Len(A) :
                   k >= m => Len(T[k]) <= Len(T[m]) + PageOfA(A[k]) - PageOfA(A[m])}
<1>1. PICK N \in Nat : N = Len(A)
  BY DEF Ascending
<1>2. \A k \in 1 .. N : A[k] \in Nat /\ PageOfA(A[k]) \in Nat
  <2> TAKE k \in 1 .. N
  <2>1. A[k] \in Nat /\ A[k] % 4 = 0
    BY <1>1 DEF Ascending
  <2> QED
    BY <2>1, WordsOfPage
<1>3. /\ \A k \in 0 .. N : T[k] \in Seq(PageSets) /\ Len(T[k]) \in Nat
      /\ \A k \in 1 .. N : T[k] = AddedTo(T[k - 1], A[k])
  <2>1. A \in Seq(Nat)
    BY DEF Ascending
  <2>2. /\ \A k \in 0 .. N : T[k] \in Seq(PageSets)
        /\ \A k \in 1 .. N : T[k] = AddedTo(T[k - 1], A[k])
    BY <1>1, <2>1, SetsAre
  <2> HIDE DEF T
  <2> QED
    BY <2>2
<1>4. \A k \in 0 .. N : Filled(T[k], A, k)
  BY <1>1, AllFilled
<1> HIDE DEF T
<1>5. ASSUME NEW k \in 1 .. N
      PROVE  /\ Len(T[k]) <= Len(T[k - 1]) + 1
             /\ k # 1 /\ PageOfA(A[k - 1]) = PageOfA(A[k]) => Len(T[k]) = Len(T[k - 1])
  <2>1. k - 1 \in 0 .. N /\ k \in 0 .. N
    OBVIOUS
  <2>2. PICK sets \in Seq(PageSets), a \in Nat, l \in Nat :
          sets = T[k - 1] /\ a = A[k] /\ l = Len(sets) /\ T[k] = AddedTo(sets, a)
    BY <1>2, <1>3, <2>1
  <2>3. CASE sets # <<>> /\ sets[Len(sets)].page = PageOfA(a)
    <3>1. Len(AddedTo(sets, a)) = l
      BY <2>2, <2>3, AddedToIs
    <3> QED
      BY <2>2, <3>1
  <2>4. CASE ~(sets # <<>> /\ sets[Len(sets)].page = PageOfA(a))
    <3>1. AddedTo(sets, a) = Append(sets, [page |-> PageOfA(a), offsets |-> <<WordOfA(a)>>])
      BY <2>4, AddedToIs
    <3>2. Len(AddedTo(sets, a)) = l + 1
      BY <2>2, <3>1
    <3>3. ASSUME k # 1, PageOfA(A[k - 1]) = PageOfA(A[k]) PROVE FALSE
      <4>1. Filled(sets, A, k - 1) /\ k - 1 > 0
        BY <1>4, <2>1, <2>2, <3>3
      <4>2. sets # <<>> /\ sets[Len(sets)].page = PageOfA(A[k - 1])
        BY <4>1 DEF Filled
      <4> QED
        BY <2>2, <2>4, <3>3, <4>2
    <3> QED
      BY <2>2, <3>2, <3>3
  <2> QED
    BY <2>3, <2>4
<1>6. 0 \in D
  BY <1>1
<1>7. ASSUME NEW k \in 1 .. N, k - 1 \in D
      PROVE  k \in D
  <2>1. CASE k < m
    BY <1>1, <2>1
  <2>2. CASE k = m
    <3>1. Len(T[m]) \in Nat /\ PageOfA(A[m]) \in Nat
      BY <1>1, <1>2, <1>3
    <3> QED
      BY <1>1, <2>2, <3>1
  <2>3. CASE k > m
    <3>1. k - 1 \in 1 .. N /\ k - 1 \in 0 .. N /\ k - 1 >= m /\ k \in 0 .. N /\ m \in 1 .. N
            /\ m \in 0 .. N
      BY <1>1, <2>3
    <3>2. PICK l \in Nat, i \in Nat, j \in Nat, p \in Nat, q \in Nat, r \in Nat :
            /\ l = Len(T[m]) /\ i = Len(T[k - 1]) /\ j = Len(T[k])
            /\ p = PageOfA(A[m]) /\ q = PageOfA(A[k - 1]) /\ r = PageOfA(A[k])
      BY <1>2, <1>3, <3>1
    <3>3. i <= l + q - p
      BY <1>7, <3>1, <3>2
    <3>4. j <= i + 1 /\ (q = r => j = i)
      BY <1>5, <3>1, <3>2
    <3>5. q <= r
      <4>1. A[k - 1] \in Nat /\ A[k] \in Nat /\ A[k - 1] <= A[k]
        <5>1. k - 1 \in 1 .. Len(A) - 1 /\ (k - 1) + 1 = k
          BY <1>1, <3>1
        <5>2. A[k - 1] < A[k]
          BY <5>1 DEF Ascending
        <5> QED
          BY <1>2, <3>1, <5>2
      <4> QED
        BY <3>2, <4>1, PageFacts, PagesInOrder DEF PageOfA
    <3>6. j <= l + r - p
      BY <3>3, <3>4, <3>5
    <3> QED
      BY <1>1, <3>2, <3>6
  <2> QED
    BY <1>1, <2>1, <2>2, <2>3
<1>8. \A k \in 0 .. N : k \in D
  <2> HIDE DEF D
  <2> QED
    BY <1>1, <1>6, <1>7, TurnByTurn
<1>9. \A k \in m .. N : Len(T[k]) <= Len(T[m]) + PageOfA(A[k]) - PageOfA(A[m])
  <2> TAKE k \in m .. N
  <2>1. k \in D /\ k >= m
    BY <1>1, <1>8
  <2> QED
    BY <2>1
<1> QED
  BY <1>1, <1>5, <1>9 DEF T

\* There are no more sets than the pages from the first to the last address of
\* each place, together.
LEMMA SetsOfPlaces ==
  ASSUME NEW R, NEW n \in Nat, Len(R) = n, NEW from, NEW to, InPlaces(R, n, from, to),
         \A i \in 1 .. n : Ascending(R[i]),
         NEW est, Len(est) = n,
         \A i \in 1 .. n :
           /\ est[i] \in Nat
           /\ Len(R[i]) # 0 => PageOfA(R[i][Len(R[i])]) - PageOfA(R[i][1]) + 1 <= est[i]
  PROVE  /\ SumOf(est) \in Nat /\ Len(SetsOf(Joined(R))) <= SumOf(est)
         /\ SetsOf(Joined(R)) \in Seq(PageSets)
         /\ \A j \in 1 .. Len(SetsOf(Joined(R))) :
              /\ Len(SetsOf(Joined(R))[j].offsets) <= Len(Joined(R))
              /\ Len(SetsOf(Joined(R))[j].offsets) <= MaxSetCount
<1> DEFINE C == Totals(Join, <<>>, R)
           E == Totals(Plus, 0, est)
<1>1. PICK A : A = Joined(R) /\ A \in Seq(Nat) /\ Ascending(A)
  <2>1. Ascending(Joined(R))
    BY InOrderThroughout
  <2> QED
    BY <2>1 DEF Ascending
<1> DEFINE T == Totals(AddToSets, <<>>, A)
           D == {k \in 0 .. n : Len(T[Len(C[k])]) <= E[k]}
<1>2. \A k \in 1 .. n : R[k] \in Seq(Nat)
  BY DEF InPlaces
<1>3. /\ C[0] = <<>> /\ \A k \in 0 .. n : C[k] \in Seq(Nat)
      /\ \A k \in 1 .. n : C[k] = C[k - 1] \o R[k]
  BY <1>2, JoinsAre
<1>4. /\ E[0] = 0 /\ \A k \in 0 .. n : E[k] \in Nat
      /\ \A k \in 1 .. n : E[k] = E[k - 1] + est[k]
  BY SumsAre
<1>5. A = C[n] /\ SumOf(est) = E[n] /\ SetsOf(A) = T[Len(A)]
  BY <1>1 DEF Joined, SumOf, SetsOf, Total
<1>6. PICK N \in Nat : N = Len(A)
  BY <1>1
<1>7. T[0] = <<>> /\ \A m \in 0 .. N : T[m] \in Seq(PageSets)
  BY <1>1, <1>6, SetsAre
<1>8. \A m \in 0 .. N : Filled(T[m], A, m)
  BY <1>1, <1>6, AllFilled
<1>9. \A m \in 1 .. N :
        /\ Len(T[m]) <= Len(T[m - 1]) + 1
        /\ \A k \in m .. N : Len(T[k]) <= Len(T[m]) + PageOfA(A[k]) - PageOfA(A[m])
  BY <1>1, <1>6, SetsBetween
<1>10. \A k \in 1 .. n : Len(C[k]) <= N /\ \A x \in 1 .. Len(C[k]) : A[x] = C[k][x]
  <2> TAKE k \in 1 .. n
  <2>1. n \in k .. n
    OBVIOUS
  <2>2. Len(C[k]) <= Len(C[n]) /\ \A x \in 1 .. Len(C[k]) : C[n][x] = C[k][x]
    BY <2>1, Beyond, Zenon
  <2> QED
    BY <1>5, <1>6, <2>2, Zenon
<1> HIDE DEF C, E, T
<1>11. 0 \in D
  BY <1>3, <1>4, <1>7
<1>12. ASSUME NEW k \in 1 .. n, k - 1 \in D
       PROVE  k \in D
  <2>0. k - 1 \in 0 .. n /\ k \in 0 .. n
    OBVIOUS
  <2>1. PICK c \in Seq(Nat), r \in Seq(Nat) : c = C[k - 1] /\ r = R[k] /\ C[k] = c \o r
    BY <1>2, <1>3, <2>0
  <2>2. PICK l \in Nat, m \in Nat : l = Len(c) /\ m = Len(r)
    OBVIOUS
  <2>3. PICK d \in Seq(Nat) :
          /\ d = C[k] /\ Len(d) = l + m
          /\ \A x \in 1 .. l + m : d[x] = IF x <= l THEN c[x] ELSE r[x - l]
    <3>1. /\ c \o r \in Seq(Nat) /\ Len(c \o r) = l + m
          /\ \A x \in 1 .. l + m : (c \o r)[x] = IF x <= l THEN c[x] ELSE r[x - l]
      BY <2>2, ConcatProperties
    <3> QED
      BY <2>1, <3>1, Zenon
  <2>4. PICK e \in Nat, f \in Nat, g \in Nat :
          e = E[k - 1] /\ f = est[k] /\ g = E[k] /\ g = e + f
    <3>1. E[k - 1] \in Nat /\ E[k] \in Nat /\ E[k] = E[k - 1] + est[k] /\ est[k] \in Nat
      BY <1>4, <2>0
    <3> QED
      BY <3>1
  <2>5. l + m <= N /\ \A x \in 1 .. l + m : A[x] = d[x]
    BY <1>10, <2>3
  <2>6. PICK i \in Nat : i = Len(T[l]) /\ i <= e
    <3>1. l \in 0 .. N
      BY <1>6, <2>5
    <3>2. Len(T[l]) \in Nat
      BY <1>7, <3>1
    <3>3. Len(T[l]) <= e
      BY <1>12, <2>1, <2>2, <2>4
    <3> QED
      BY <3>2, <3>3
  <2>7. CASE m = 0
    <3>0. Len(C[k]) = l
      <4>1. Len(C[k]) = l + m
        BY <2>3, Zenon
      <4> QED
        BY <2>7, <4>1
    <3>1. Len(T[Len(C[k])]) = i
      BY <2>6, <3>0, Zenon
    <3>2. i <= e /\ g = e + f
      BY <2>4, <2>6
    <3>3. i <= g
      BY <3>2
    <3> QED
      BY <2>0, <2>4, <3>1, <3>3, Zenon
  <2>8. CASE m # 0
    <3>1. /\ l + 1 \in 1 .. N /\ l + m \in l + 1 .. N /\ (l + 1) - 1 = l
          /\ l + 1 \in 1 .. l + m /\ l + m \in 1 .. l + m
          /\ ~(l + 1 <= l) /\ ~(l + m <= l) /\ (l + 1) - l = 1 /\ (l + m) - l = m
      BY <2>5, <2>8
    <3>2. A[l + 1] = r[1] /\ A[l + m] = r[m]
      BY <2>3, <2>5, <3>1
    <3>3. PICK p \in Nat, q \in Nat : p = PageOfA(r[1]) /\ q = PageOfA(r[m])
      <4>1. 1 \in 1 .. m /\ m \in 1 .. m
        BY <2>8
      <4>2. r[1] \in Nat /\ r[m] \in Nat /\ r[1] % 4 = 0 /\ r[m] % 4 = 0
        BY <2>1, <2>2, <4>1, AscendingIs
      <4> QED
        BY <4>2, WordsOfPage
    <3>4. q - p + 1 <= f
      BY <2>1, <2>2, <2>4, <2>8, <3>3
    <3>5. PICK u \in Nat, v \in Nat : u = Len(T[l + 1]) /\ v = Len(T[l + m])
      <4>1. l + 1 \in 0 .. N /\ l + m \in 0 .. N
        BY <3>1
      <4>2. T[l + 1] \in Seq(PageSets) /\ T[l + m] \in Seq(PageSets)
        BY <1>7, <4>1
      <4> HIDE DEF T
      <4> QED
        BY <4>2
    <3>6. u <= i + 1
      BY <1>9, <2>6, <3>1, <3>5
    <3>7. v <= u + q - p
      BY <1>9, <3>1, <3>2, <3>3, <3>5
    <3>8. Len(T[Len(C[k])]) = v
      <4>1. Len(C[k]) = l + m
        BY <2>3, Zenon
      <4> QED
        BY <3>5, <4>1
    <3>9. i <= e /\ g = e + f
      BY <2>4, <2>6
    <3>10. v <= g
      BY <3>4, <3>6, <3>7, <3>9
    <3> QED
      BY <2>0, <2>4, <3>8, <3>10, Zenon
  <2> QED
    BY <2>7, <2>8
<1>13. n \in D
  <2> HIDE DEF D
  <2>1. \A k \in 0 .. n : k \in D
    BY <1>11, <1>12, TurnByTurn
  <2> QED
    BY <2>1
<1>14. SumOf(est) \in Nat /\ Len(SetsOf(A)) <= SumOf(est)
  BY <1>4, <1>5, <1>13
<1>15. N \in 0 .. N /\ T[N] = SetsOf(A)
  BY <1>5, <1>6
<1>16. SetsOf(A) \in Seq(PageSets) /\ Filled(SetsOf(A), A, N)
  BY <1>7, <1>8, <1>15
<1> QED
  BY <1>1, <1>6, <1>14, <1>16 DEF Filled

----------------------------------------------------------------------------
(* The words to relocate of the parts of a package *)

\* No term is more than the sum.
LEMMA TermOfSum ==
  ASSUME NEW s, Len(s) \in Nat, \A k \in 1 .. Len(s) : s[k] \in Nat, NEW i \in 1 .. Len(s)
  PROVE  SumOf(s) \in Nat /\ s[i] <= SumOf(s)
<1> DEFINE T == Totals(Plus, 0, s)
           D == {k \in 0 .. Len(s) : k >= i => s[i] <= T[k]}
<1>1. PICK N \in Nat : N = Len(s)
  OBVIOUS
<1>2. /\ T[0] = 0 /\ \A k \in 0 .. N : T[k] \in Nat
      /\ \A k \in 1 .. N : T[k] = T[k - 1] + s[k]
  BY <1>1, SumsAre
<1>3. SumOf(s) = T[N]
  BY <1>1 DEF SumOf, Total
<1> HIDE DEF T
<1>4. 0 \in D
  BY <1>1
<1>5. ASSUME NEW k \in 1 .. N, k - 1 \in D
      PROVE  k \in D
  <2>1. PICK a \in Nat, b \in Nat, c \in Nat, d \in Nat :
          a = T[k - 1] /\ b = T[k] /\ c = s[k] /\ d = s[i] /\ b = a + c
    <3>1. k - 1 \in 0 .. N /\ k \in 0 .. N
      OBVIOUS
    <3>2. T[k - 1] \in Nat /\ T[k] \in Nat /\ T[k] = T[k - 1] + s[k]
      BY <1>2, <3>1
    <3> QED
      BY <1>1, <3>2
  <2>2. k >= i => d <= b
    <3>1. CASE k = i
      BY <2>1, <3>1
    <3>2. CASE k > i
      <4>1. d <= a
        BY <1>5, <2>1, <3>2
      <4>2. b = a + c
        BY <2>1
      <4> QED
        BY <4>1, <4>2
    <3> QED
      BY <3>1, <3>2
  <2>3. k \in 0 .. Len(s)
    BY <1>1
  <2> QED
    BY <2>1, <2>2, <2>3
<1>6. N \in D
  <2> HIDE DEF D
  <2>1. \A k \in 0 .. N : k \in D
    BY <1>1, <1>4, <1>5, TurnByTurn
  <2> QED
    BY <1>1, <2>1
<1>7. N \in 0 .. N /\ N >= i
  BY <1>1
<1> QED
  BY <1>1, <1>2, <1>3, <1>6, <1>7

\* Sequences one after the other are as long as they are together.
LEMMA LengthTogether ==
  ASSUME NEW R, NEW n \in Nat, Len(R) = n, \A k \in 1 .. n : R[k] \in Seq(Nat),
         NEW s, Len(s) = n, \A k \in 1 .. n : s[k] = Len(R[k])
  PROVE  Joined(R) \in Seq(Nat) /\ Len(Joined(R)) = SumOf(s)
<1> DEFINE C == Totals(Join, <<>>, R)
           T == Totals(Plus, 0, s)
           D == {k \in 0 .. n : Len(C[k]) = T[k]}
<1>1. /\ C[0] = <<>> /\ \A k \in 0 .. n : C[k] \in Seq(Nat)
      /\ \A k \in 1 .. n : C[k] = C[k - 1] \o R[k]
  BY JoinsAre
<1>2. \A k \in 1 .. n : s[k] \in Nat
  OBVIOUS
<1>3. T[0] = 0 /\ \A k \in 1 .. n : T[k] = T[k - 1] + s[k]
  BY <1>2, SumsAre
<1>4. Joined(R) = C[n] /\ SumOf(s) = T[n]
  BY DEF Joined, SumOf, Total
<1> HIDE DEF C, T
<1>5. 0 \in D
  BY <1>1, <1>3
<1>6. ASSUME NEW k \in 1 .. n, k - 1 \in D
      PROVE  k \in D
  <2>1. k - 1 \in 0 .. n /\ k \in 0 .. n
    OBVIOUS
  <2>2. C[k - 1] \in Seq(Nat) /\ C[k] = C[k - 1] \o R[k] /\ R[k] \in Seq(Nat)
    BY <1>1, <2>1
  <2>3. Len(C[k]) = Len(C[k - 1]) + Len(R[k])
    BY <2>2, ConcatProperties
  <2>4. Len(C[k - 1]) = T[k - 1] /\ T[k] = T[k - 1] + s[k] /\ s[k] = Len(R[k])
    BY <1>3, <1>6
  <2> QED
    BY <2>1, <2>3, <2>4
<1>7. n \in D
  <2> HIDE DEF D
  <2>1. \A k \in 0 .. n : k \in D
    BY <1>5, <1>6, TurnByTurn
  <2> QED
    BY <2>1
<1>8. n \in 0 .. n
  OBVIOUS
<1> QED
  BY <1>1, <1>4, <1>7, <1>8

\* Parts at offsets that are multiples of four, one after the other.
LaidOut(some, offsets, n) ==
  /\ Len(some) = n /\ DOMAIN some = 1 .. n
  /\ \A i \in 1 .. n : IsPart(some[i]) /\ offsets[i] \in Nat /\ offsets[i] % 4 = 0
  /\ \A i \in 1 .. n - 1 : offsets[i] + some[i].size <= offsets[i + 1]

Shifted(some, offsets) ==
  [i \in DOMAIN some |-> [r \in DOMAIN some[i].relocs |-> some[i].relocs[r] + offsets[i]]]

Ends(some, offsets) == [i \in DOMAIN some |-> offsets[i] + some[i].size]

LEMMA ShiftedIs ==
  ASSUME NEW some, NEW offsets, NEW n \in Nat, LaidOut(some, offsets, n), NEW i \in 1 .. n
  PROVE  /\ Shifted(some, offsets)[i] \in Seq(Nat) /\ some[i].relocs \in Seq(Nat)
         /\ Len(Shifted(some, offsets)[i]) = Len(some[i].relocs)
         /\ \A r \in 1 .. Len(some[i].relocs) :
              /\ some[i].relocs[r] \in Nat
              /\ Shifted(some, offsets)[i][r] = some[i].relocs[r] + offsets[i]
              /\ Shifted(some, offsets)[i][r] % 4 = 0
              /\ offsets[i] <= Shifted(some, offsets)[i][r]
              /\ Shifted(some, offsets)[i][r] < offsets[i] + some[i].size
<1>1. PICK relocs \in Seq(Nat), o \in Nat, size \in Nat :
        /\ relocs = some[i].relocs /\ o = offsets[i] /\ size = some[i].size /\ o % 4 = 0
        /\ \A r \in 1 .. Len(relocs) : relocs[r] % 4 = 0 /\ relocs[r] < size
  <2>1. IsPart(some[i]) /\ offsets[i] \in Nat /\ offsets[i] % 4 = 0
    BY DEF LaidOut
  <2>2. some[i].relocs \in Seq(Nat) /\ some[i].size \in Nat
    BY <2>1 DEF IsPart
  <2>3. \A r \in 1 .. Len(some[i].relocs) :
          some[i].relocs[r] % 4 = 0 /\ some[i].relocs[r] < some[i].size
    BY <2>1, <2>2 DEF IsPart
  <2> QED
    BY <2>1, <2>2, <2>3
<1>2. PICK l \in Nat : l = Len(relocs)
  OBVIOUS
<1>3. Shifted(some, offsets)[i] = [r \in 1 .. l |-> relocs[r] + o]
  <2>1. i \in DOMAIN some
    BY DEF LaidOut
  <2> QED
    BY <1>1, <1>2, <2>1 DEF Shifted
<1>4. ASSUME NEW r \in 1 .. l
      PROVE  /\ relocs[r] \in Nat /\ relocs[r] + o \in Nat /\ (relocs[r] + o) % 4 = 0
             /\ o <= relocs[r] + o /\ relocs[r] + o < o + size
  <2>1. PICK w \in Nat : w = relocs[r] /\ w % 4 = 0 /\ w < size
    <3>1. relocs[r] \in Nat
      BY <1>2
    <3>2. relocs[r] % 4 = 0 /\ relocs[r] < size
      BY <1>1, <1>2, Zenon
    <3> QED
      BY <3>1, <3>2, Zenon
  <2>2. w + o \in Nat /\ (w + o) % 4 = 0 /\ o <= w + o /\ w + o < o + size
    <3>1. o \in Nat /\ o % 4 = 0 /\ w % 4 = 0 /\ w < size
      BY <1>1, <2>1
    <3> QED
      BY <3>1
  <2> QED
    BY <2>1, <2>2
<1>5. /\ [r \in 1 .. l |-> relocs[r] + o] \in Seq(Nat)
      /\ Len([r \in 1 .. l |-> relocs[r] + o]) = l
  BY <1>4
<1>6. PICK t \in Seq(Nat) :
        t = Shifted(some, offsets)[i] /\ Len(t) = l /\ \A r \in 1 .. l : t[r] = relocs[r] + o
  BY <1>3, <1>5
<1>7. \A r \in 1 .. l :
        relocs[r] \in Nat /\ t[r] % 4 = 0 /\ o <= t[r] /\ t[r] < o + size
  BY <1>4, <1>6
<1> QED
  BY <1>1, <1>2, <1>6, <1>7, Zenon

LEMMA PartsInPlaces ==
  ASSUME NEW some, NEW offsets, NEW n \in Nat, LaidOut(some, offsets, n)
  PROVE  /\ Len(Shifted(some, offsets)) = n
         /\ InPlaces(Shifted(some, offsets), n, offsets, Ends(some, offsets))
<1>1. DOMAIN some = 1 .. n
  BY DEF LaidOut
<1>2. \A i \in 1 .. n : /\ Ends(some, offsets)[i] = offsets[i] + some[i].size
                        /\ offsets[i] \in Nat /\ some[i].size \in Nat
  BY <1>1 DEF Ends, LaidOut, IsPart
<1>3. Len(Shifted(some, offsets)) = n
  BY <1>1 DEF Shifted
<1>4. ASSUME NEW i \in 1 .. n
      PROVE  /\ Shifted(some, offsets)[i] \in Seq(Nat)
             /\ offsets[i] \in Nat /\ Ends(some, offsets)[i] \in Nat
             /\ offsets[i] <= Ends(some, offsets)[i]
             /\ \A r \in 1 .. Len(Shifted(some, offsets)[i]) :
                  /\ offsets[i] <= Shifted(some, offsets)[i][r]
                  /\ Shifted(some, offsets)[i][r] < Ends(some, offsets)[i]
  <2>1. PICK o \in Nat, size \in Nat :
          o = offsets[i] /\ size = some[i].size /\ Ends(some, offsets)[i] = o + size
    BY <1>2
  <2>2. PICK t \in Seq(Nat) :
          /\ t = Shifted(some, offsets)[i] /\ Len(t) = Len(some[i].relocs)
          /\ \A r \in 1 .. Len(some[i].relocs) : offsets[i] <= t[r] /\ t[r] < offsets[i] + some[i].size
    BY ShiftedIs, Zenon
  <2>3. \A r \in 1 .. Len(t) : o <= t[r] /\ t[r] < o + size
    BY <2>1, <2>2, Zenon
  <2>4. o + size \in Nat /\ o <= o + size
    BY <2>1
  <2> QED
    BY <2>1, <2>2, <2>3, <2>4, Zenon
<1>5. ASSUME NEW i \in 1 .. n - 1
      PROVE  Ends(some, offsets)[i] <= offsets[i + 1]
  <2>1. i \in 1 .. n
    OBVIOUS
  <2> QED
    BY <1>2, <2>1 DEF LaidOut
<1> QED
  BY <1>3, <1>4, <1>5 DEF InPlaces

\* The estimate for a part is enough for its words, wherever it lies.
LEMMA EstimateIs ==
  ASSUME NEW part, IsPart(part), NEW o \in Nat
  PROVE  /\ PageCountEstimate(part) \in Nat
         /\ RelocationCount(part) \in Nat
         /\ Len(part.relocs) # 0 =>
              /\ PageCountEstimate(part) >= 1
              /\ PageOfA(part.relocs[Len(part.relocs)] + o) - PageOfA(part.relocs[1] + o) + 1
                   <= PageCountEstimate(part)
<1>1. PICK relocs \in Seq(Nat), l \in Nat : relocs = part.relocs /\ l = Len(relocs)
  BY DEF IsPart
<1>2. RelocationCount(part) = l
  BY <1>1 DEF RelocationCount
<1>3. CASE l = 0
  <2>1. relocs = <<>>
    <3>1. Len(relocs) = 0
      BY <1>1, <1>3
    <3> QED
      BY <3>1
  <2>2. PageCountEstimate(part) = 0
    BY <1>1, <2>1 DEF PageCountEstimate
  <2> QED
    BY <1>1, <1>2, <1>3, <2>2
<1>4. CASE l # 0
  <2>1. relocs # <<>> /\ 1 \in 1 .. l /\ l \in 1 .. l
    BY <1>1, <1>4
  <2>2. PICK a \in Nat, b \in Nat :
          a = relocs[1] /\ b = relocs[l] /\ Head(relocs) = a /\ Last(relocs) = b
    <3>1. relocs[1] \in Nat /\ relocs[l] \in Nat
      BY <1>1, <2>1
    <3>2. Head(relocs) = relocs[1] /\ Last(relocs) = relocs[l]
      BY <1>1, <2>1 DEF Last
    <3> QED
      BY <3>1, <3>2
  <2>3. a <= b
    BY <1>1, <2>1, <2>2 DEF IsPart
  <2>4. PageCountEstimate(part) = IF a = b THEN 1 ELSE 2 + ((b - a) \div PageSize)
    BY <1>1, <2>1, <2>2 DEF PageCountEstimate
  <2>5. PICK i \in Nat, j \in Nat, d \in Nat :
          /\ i = PageOfA(a + o) /\ j = PageOfA(b + o) /\ d = (b - a) \div PageSize
          /\ j <= i + d + 1
    <3>1. a + o \in Nat /\ b + o \in Nat /\ a + o <= b + o /\ b - a \in Nat
            /\ (b + o) - (a + o) = b - a
      BY <2>3
    <3>2. (a + o) \div PageSize \in Nat /\ (b + o) \div PageSize \in Nat
            /\ (b - a) \div PageSize \in Nat
      BY <3>1, PageFacts, PageOf
    <3>3. (b + o) \div PageSize <= ((a + o) \div PageSize) + (((b + o) - (a + o)) \div PageSize) + 1
      BY <3>1, PageFacts, PagesApart
    <3> QED
      BY <3>1, <3>2, <3>3 DEF PageOfA
  <2>6. a = b => i = j
    BY <2>5
  <2>7. PICK e \in Nat : e = PageCountEstimate(part) /\ e >= 1 /\ (j - i) + 1 <= e
    <3>1. CASE a = b
      BY <2>4, <2>6, <3>1
    <3>2. CASE a # b
      <4>1. PageCountEstimate(part) = 2 + d
        <5>1. PageCountEstimate(part) = 2 + ((b - a) \div PageSize)
          BY <2>4, <3>2, Zenon
        <5>2. (b - a) \div PageSize = d
          BY <2>5
        <5> QED
          BY <5>1, <5>2, Zenon
      <4>2. 2 + d \in Nat /\ 2 + d >= 1 /\ (j - i) + 1 <= 2 + d
        <5>1. j <= i + d + 1
          BY <2>5, Zenon
        <5> QED
          BY <5>1
      <4> QED
        BY <4>1, <4>2
    <3> QED
      BY <3>1, <3>2
  <2> QED
    BY <1>1, <1>2, <2>2, <2>5, <2>7
<1> QED
  BY <1>3, <1>4

Estimates(some) == [i \in DOMAIN some |-> PageCountEstimate(some[i])]
Counts(some) == [i \in DOMAIN some |-> RelocationCount(some[i])]

\* The parts are well formed: what TypeOK says of them.
PartsOK(some, n) == Len(some) = n /\ DOMAIN some = 1 .. n /\ \A i \in 1 .. n : IsPart(some[i])

LEMMA SumsOfParts ==
  ASSUME NEW some, NEW n \in Nat, PartsOK(some, n)
  PROVE  /\ Len(Estimates(some)) = n /\ Len(Counts(some)) = n
         /\ \A i \in 1 .. n : /\ Estimates(some)[i] = PageCountEstimate(some[i])
                              /\ Estimates(some)[i] \in Nat
                              /\ Counts(some)[i] = Len(some[i].relocs)
                              /\ Counts(some)[i] \in Nat
         /\ SumOf(Estimates(some)) \in Nat /\ SumOf(Counts(some)) \in Nat
<1>1. \A i \in 1 .. n : PageCountEstimate(some[i]) \in Nat /\ RelocationCount(some[i]) \in Nat
  <2>1. 0 \in Nat
    OBVIOUS
  <2> QED
    BY <2>1, EstimateIs DEF PartsOK
<1>2. /\ Len(Estimates(some)) = n /\ Len(Counts(some)) = n
      /\ \A i \in 1 .. n : /\ Estimates(some)[i] = PageCountEstimate(some[i])
                           /\ Counts(some)[i] = RelocationCount(some[i])
  BY DEF PartsOK, Estimates, Counts
<1>3. n = 0 => SumOf(Estimates(some)) = 0 /\ SumOf(Counts(some)) = 0
  <2>1. ASSUME n = 0
        PROVE  SumOf(Estimates(some)) = 0 /\ SumOf(Counts(some)) = 0
    BY <1>2, <2>1, SumsAre DEF SumOf, Total
  <2> QED
    BY <2>1
<1>4. SumOf(Estimates(some)) \in Nat /\ SumOf(Counts(some)) \in Nat
  <2>1. ASSUME NEW s, Len(s) = n, \A i \in 1 .. n : s[i] \in Nat
        PROVE  SumOf(s) \in Nat
    <3>1. Totals(Plus, 0, s)[Len(s)] \in Nat
      BY <2>1, SumsAre
    <3> QED
      BY <3>1 DEF SumOf, Total
  <2>2. /\ \A i \in 1 .. n : Estimates(some)[i] \in Nat
        /\ \A i \in 1 .. n : Counts(some)[i] \in Nat
    BY <1>1, <1>2
  <2> QED
    BY <1>2, <2>1, <2>2
<1> QED
  BY <1>1, <1>2, <1>4 DEF RelocationCount

\* The room that is left for the sets.
Room(some) ==
  LET pages == SumOf(Estimates(some))
      count == SumOf(Counts(some))
  IN IF pages = 0 THEN 0 ELSE SetsHeader + pages * SetMaxSize(count)

LEMMA RoomIs ==
  ASSUME NEW some, NEW n \in Nat, PartsOK(some, n)
  PROVE  /\ Room(some) \in Nat /\ Room(some) % 4 = 0
         /\ SumOf(Estimates(some)) # 0 =>
              /\ Room(some) > 0 /\ SetMaxSize(SumOf(Counts(some))) \in Nat
              /\ Room(some) - SetsHeader =
                   SumOf(Estimates(some)) * SetMaxSize(SumOf(Counts(some)))
         /\ SumOf(Estimates(some)) = 0 => Room(some) = 0
<1>1. PICK pages \in Nat, count \in Nat :
        pages = SumOf(Estimates(some)) /\ count = SumOf(Counts(some))
  BY SumsOfParts
<1>2. PICK B \in Nat : B = SetMaxSize(count) /\ B % 4 = 0
  <2>1. Padded(count, 4) \in Nat /\ Padded(count, 4) % 4 = 0
    BY PaddedIs
  <2>2. MaxSetCount \in Nat /\ MaxSetCount % 4 = 0
    BY PageAssumption
  <2>3. SetMaxSize(count) = 4 + Padded(count, 4) \/ SetMaxSize(count) = 4 + MaxSetCount
    BY DEF SetMaxSize
  <2>4. \A x \in Nat : x % 4 = 0 => 4 + x \in Nat /\ (4 + x) % 4 = 0
    OBVIOUS
  <2> QED
    BY <2>1, <2>2, <2>3, <2>4
<1>3. PICK p \in Nat : p = pages * B /\ p % 4 = 0
  BY <1>2, FourTimes
<1>4. Room(some) = IF pages = 0 THEN 0 ELSE 20 + p
  BY <1>1, <1>2, <1>3 DEF Room, SetsHeader
<1>5. 20 + p \in Nat /\ (20 + p) % 4 = 0 /\ (20 + p) - 20 = p /\ 20 + p > 0
  BY <1>3
<1> QED
  BY <1>1, <1>2, <1>3, <1>4, <1>5 DEF SetsHeader

LEMMA RoomOfParts == RelocationSize = Room(parts)
BY DEF RelocationSize, Room, Estimates, Counts

\* Where parts lie one after the other, and the words of each to relocate come
\* in increasing order, the sets take no more than the room left for them.
LEMMA SetsInRoom ==
  ASSUME NEW some, NEW offsets, NEW n \in Nat, LaidOut(some, offsets, n),
         \A i \in 1 .. n : InOrder(some[i].relocs)
  PROVE  SizeOfSets(SetsOf(Joined(Shifted(some, offsets))))
           <= IF Room(some) = 0 THEN 0 ELSE Room(some) - SetsHeader
<1> DEFINE R == Shifted(some, offsets)
           to == Ends(some, offsets)
           est == Estimates(some)
<1>0. PartsOK(some, n)
  BY DEF LaidOut, PartsOK
<1>1. Len(R) = n /\ InPlaces(R, n, offsets, to)
  BY PartsInPlaces
<1>2. ASSUME NEW i \in 1 .. n
      PROVE  Ascending(R[i])
  <2>a. PICK relocs \in Seq(Nat), t \in Seq(Nat) :
          /\ relocs = some[i].relocs /\ t = R[i] /\ Len(t) = Len(relocs)
          /\ \A r \in 1 .. Len(relocs) :
               relocs[r] \in Nat /\ t[r] = relocs[r] + offsets[i] /\ t[r] % 4 = 0
    <3>1. /\ R[i] \in Seq(Nat) /\ some[i].relocs \in Seq(Nat)
          /\ Len(R[i]) = Len(some[i].relocs)
          /\ \A r \in 1 .. Len(some[i].relocs) :
               /\ some[i].relocs[r] \in Nat
               /\ R[i][r] = some[i].relocs[r] + offsets[i]
               /\ R[i][r] % 4 = 0
               /\ offsets[i] <= R[i][r]
               /\ R[i][r] < offsets[i] + some[i].size
      BY ShiftedIs
    <3> HIDE DEF R
    <3> QED
      BY <3>1
  <2>b. PICK l \in Nat, o \in Nat : l = Len(relocs) /\ o = offsets[i]
    <3>1. offsets[i] \in Nat
      BY DEF LaidOut
    <3> QED
      BY <3>1
  <2>1. /\ relocs = some[i].relocs /\ t = R[i] /\ o = offsets[i] /\ l = Len(relocs) /\ Len(t) = l
        /\ \A r \in 1 .. l : relocs[r] \in Nat /\ t[r] = relocs[r] + o /\ t[r] % 4 = 0
    BY <2>a, <2>b
  <2>2. \A r \in 1 .. l - 1 : relocs[r] < relocs[r + 1]
    <3>1. InOrder(relocs)
      BY <2>1
    <3> QED
      BY <2>1, <3>1 DEF InOrder
  <2>3. ASSUME NEW r \in 1 .. l - 1
        PROVE  t[r] < t[r + 1]
    <3>1. r \in 1 .. l /\ r + 1 \in 1 .. l
      OBVIOUS
    <3>2. /\ relocs[r] \in Nat /\ relocs[r + 1] \in Nat
          /\ t[r] = relocs[r] + o /\ t[r + 1] = relocs[r + 1] + o
      BY <2>1, <3>1
    <3>3. relocs[r] < relocs[r + 1]
      BY <2>2
    <3> QED
      BY <3>2, <3>3
  <2>4. Ascending(t)
    BY <2>1, <2>3 DEF Ascending
  <2> QED
    BY <2>1, <2>4
<1>3. Len(est) = n
  BY <1>0, SumsOfParts
<1>4. ASSUME NEW i \in 1 .. n
      PROVE  /\ est[i] \in Nat
             /\ Len(R[i]) # 0 => PageOfA(R[i][Len(R[i])]) - PageOfA(R[i][1]) + 1 <= est[i]
  <2>1. est[i] = PageCountEstimate(some[i]) /\ est[i] \in Nat
    BY <1>0, SumsOfParts
  <2>2. ASSUME Len(R[i]) # 0
        PROVE  PageOfA(R[i][Len(R[i])]) - PageOfA(R[i][1]) + 1 <= est[i]
    <3>0. /\ R[i] \in Seq(Nat) /\ some[i].relocs \in Seq(Nat)
          /\ Len(R[i]) = Len(some[i].relocs)
          /\ \A r \in 1 .. Len(some[i].relocs) :
               /\ some[i].relocs[r] \in Nat
               /\ R[i][r] = some[i].relocs[r] + offsets[i]
               /\ R[i][r] % 4 = 0
               /\ offsets[i] <= R[i][r]
               /\ R[i][r] < offsets[i] + some[i].size
      BY ShiftedIs
    <3> HIDE DEF R
    <3>1. /\ some[i].relocs \in Seq(Nat) /\ Len(R[i]) = Len(some[i].relocs)
          /\ \A r \in 1 .. Len(some[i].relocs) : R[i][r] = some[i].relocs[r] + offsets[i]
      BY <3>0, Zenon
    <3>2. 1 \in 1 .. Len(some[i].relocs)
            /\ Len(some[i].relocs) \in 1 .. Len(some[i].relocs)
      BY <2>2, <3>1
    <3>3. /\ R[i][1] = some[i].relocs[1] + offsets[i]
          /\ R[i][Len(R[i])] = some[i].relocs[Len(some[i].relocs)] + offsets[i]
      BY <3>1, <3>2
    <3>4. IsPart(some[i]) /\ offsets[i] \in Nat
      BY DEF LaidOut
    <3>5. PageOfA(some[i].relocs[Len(some[i].relocs)] + offsets[i])
            - PageOfA(some[i].relocs[1] + offsets[i]) + 1 <= PageCountEstimate(some[i])
      BY <2>2, <3>1, <3>4, EstimateIs
    <3> QED
      BY <2>1, <3>3, <3>5
  <2> QED
    BY <2>1, <2>2
<1>5. Joined(R) \in Seq(Nat) /\ Len(Joined(R)) = SumOf(Counts(some))
  <2>1. \A k \in 1 .. n : R[k] \in Seq(Nat)
    BY <1>1 DEF InPlaces
  <2>2. Len(Counts(some)) = n /\ \A k \in 1 .. n : Counts(some)[k] = Len(some[k].relocs)
    BY <1>0, SumsOfParts
  <2>3. \A k \in 1 .. n : Counts(some)[k] = Len(R[k])
    BY <2>2, ShiftedIs
  <2> QED
    BY <1>1, <2>1, <2>2, <2>3, LengthTogether
<1> HIDE DEF R, to, est
<1>6. PICK sets \in Seq(PageSets), pages \in Nat, count \in Nat :
        /\ sets = SetsOf(Joined(R)) /\ pages = SumOf(est) /\ count = Len(Joined(R))
        /\ Len(sets) <= pages
        /\ \A j \in 1 .. Len(sets) :
             Len(sets[j].offsets) <= count /\ Len(sets[j].offsets) <= MaxSetCount
  <2>1. Len(Joined(R)) \in Nat
    BY <1>5
  <2> QED
    BY <1>1, <1>2, <1>3, <1>4, <2>1, SetsOfPlaces
<1>7. /\ SizeOfSets(sets) \in Nat /\ SetMaxSize(count) \in Nat
      /\ SizeOfSets(sets) <= pages * SetMaxSize(count)
  BY <1>6, SetsBound
<1>8. CASE pages = 0
  <2>1. Room(some) = 0
    BY <1>0, <1>6, <1>8, RoomIs DEF est
  <2>2. pages * SetMaxSize(count) = 0
    BY <1>7, <1>8
  <2> QED
    BY <1>6, <1>7, <2>1, <2>2 DEF R
<1>9. CASE pages # 0
  <2>1. Room(some) > 0 /\ Room(some) \in Nat
          /\ Room(some) - SetsHeader = pages * SetMaxSize(count)
    BY <1>0, <1>5, <1>6, <1>9, RoomIs DEF est
  <2> QED
    BY <1>6, <1>7, <2>1 DEF R
<1> QED
  BY <1>8, <1>9

----------------------------------------------------------------------------
(* The words to relocate that are read *)

\* What RelocationsOf makes of the addresses.
WordsIn(A, from, size) ==
  LET after == {r \in DOMAIN A : A[r] >= from}
      inside == {r \in after : A[r] < from + size}
      first == CHOOSE r \in after : \A s \in after : r <= s
  IN [r \in 1 .. Cardinality(inside) |-> A[first + r - 1] - from]

LEMMA RelocationsAre ==
  ASSUME NEW entry
  PROVE  RelocationsOf(entry) = WordsIn(Addresses, PartDataOffset + entry.offset, entry.size)
BY DEF RelocationsOf, WordsIn

LEMMA WordsOfPlace ==
  ASSUME NEW A \in Seq(Nat), NEW L \in Nat, NEW from \in Nat, NEW size \in Nat,
         NEW w \in Seq(Nat), L + Len(w) <= Len(A),
         \A x \in 1 .. L : A[x] < from,
         \A r \in 1 .. Len(w) : A[L + r] = w[r] + from /\ w[r] < size,
         \A x \in L + Len(w) + 1 .. Len(A) : A[x] >= from + size
  PROVE  WordsIn(A, from, size) = w
<1> DEFINE after == {r \in DOMAIN A : A[r] >= from}
           inside == {r \in after : A[r] < from + size}
           first == CHOOSE r \in after : \A s \in after : r <= s
<1>1. PICK n \in Nat, m \in Nat : n = Len(A) /\ m = Len(w) /\ L + m <= n
  OBVIOUS
<1>2. \A x \in 1 .. n : A[x] \in Nat
  BY <1>1
<1>3. \A r \in 1 .. m : w[r] \in Nat
  BY <1>1
<1>4. ASSUME NEW x \in L + 1 .. L + m
      PROVE  A[x] >= from /\ A[x] < from + size
  <2>1. x - L \in 1 .. m /\ L + (x - L) = x
    OBVIOUS
  <2>2. A[x] = w[x - L] + from /\ w[x - L] < size /\ w[x - L] \in Nat
    BY <1>1, <1>3, <2>1
  <2>3. PICK a \in Nat : a = w[x - L]
    BY <2>2
  <2>4. A[x] = a + from /\ a < size
    BY <2>2, <2>3
  <2> QED
    BY <2>4
<1>5. ASSUME NEW x \in 1 .. n
      PROVE  /\ x \in after <=> x \in L + 1 .. n
             /\ x \in inside <=> x \in L + 1 .. L + m
  <2>1. DOMAIN A = 1 .. n /\ A[x] \in Nat
    BY <1>1, <1>2
  <2>2. CASE x <= L
    <3>0. x \in 1 .. L
      BY <2>2
    <3>1. A[x] < from
      BY <3>0, Zenon
    <3> QED
      BY <2>1, <2>2, <3>1
  <2>3. CASE x > L /\ x <= L + m
    <3>1. A[x] >= from /\ A[x] < from + size
      BY <1>4, <2>3
    <3> QED
      BY <2>1, <2>3, <3>1
  <2>4. CASE x > L + m
    <3>0. x \in L + Len(w) + 1 .. Len(A)
      <4>1. x \in L + m + 1 .. n
        BY <2>4
      <4> QED
        BY <1>1, <4>1
    <3>1. A[x] >= from + size
      BY <3>0, Zenon
    <3>2. A[x] >= from /\ ~(A[x] < from + size)
      BY <2>1, <3>1
    <3> QED
      BY <2>1, <2>4, <3>2
  <2> QED
    BY <2>2, <2>3, <2>4
<1>6. after = L + 1 .. n /\ inside = L + 1 .. L + m
  <2>1. after \subseteq 1 .. n /\ inside \subseteq 1 .. n
    BY <1>1
  <2>2. L + 1 .. n \subseteq 1 .. n /\ L + 1 .. L + m \subseteq 1 .. n
    BY <1>1
  <2> HIDE DEF after, inside
  <2> QED
    BY <1>5, <2>1, <2>2
<1>7. Cardinality(inside) = m
  <2>1. Cardinality(L + 1 .. L + m) = m
    <3>1. L + 1 \in Int /\ L + m \in Int
      OBVIOUS
    <3>2. Cardinality(L + 1 .. L + m) = IF L + 1 > L + m THEN 0 ELSE (L + m) - (L + 1) + 1
      BY <3>1, FS_Interval
    <3> QED
      BY <3>2
  <2> QED
    BY <1>6, <2>1
<1>8. WordsIn(A, from, size) = [r \in 1 .. Cardinality(inside) |-> A[first + r - 1] - from]
  BY DEF WordsIn
<1>9. ASSUME NEW r \in 1 .. m
      PROVE  A[first + r - 1] - from = w[r]
  <2>1. L + 1 \in after /\ \A s \in after : L + 1 <= s
    <3>1. L + 1 \in L + 1 .. n /\ \A s \in L + 1 .. n : L + 1 <= s
      BY <1>1
    <3> HIDE DEF after
    <3> QED
      BY <1>6, <3>1
  <2>2. first \in after /\ \A s \in after : first <= s
    <3> HIDE DEF after
    <3>1. \E t \in after : \A s \in after : t <= s
      BY <2>1
    <3> QED
      BY <3>1, Zenon
  <2>3. first = L + 1
    <3>1. after \subseteq Nat
      BY <1>6
    <3> HIDE DEF after, first
    <3> QED
      BY <2>1, <2>2, <3>1
  <2> HIDE DEF first
  <2>4. first + r - 1 = L + r
    <3>1. (L + 1) + r - 1 = L + r
      OBVIOUS
    <3> QED
      BY <2>3, <3>1
  <2>5. A[L + r] = w[r] + from /\ w[r] \in Nat
    BY <1>1, <1>3
  <2>6. (w[r] + from) - from = w[r]
    BY <2>5
  <2> QED
    BY <2>4, <2>5, <2>6
<1> HIDE DEF inside, first
<1>10. WordsIn(A, from, size) = [r \in 1 .. m |-> w[r]]
  BY <1>7, <1>8, <1>9
<1> QED
  BY <1>1, <1>10

\* What all of the sequences are made of, they are made of together.
LEMMA AllOfJoined ==
  ASSUME NEW R, NEW n \in Nat, Len(R) = n, NEW S \in SUBSET Nat,
         \A i \in 1 .. n : R[i] \in Seq(Nat) /\ \A r \in 1 .. Len(R[i]) : R[i][r] \in S
  PROVE  Joined(R) \in Seq(Nat) /\ \A x \in 1 .. Len(Joined(R)) : Joined(R)[x] \in S
<1> DEFINE C == Totals(Join, <<>>, R)
           D == {k \in 0 .. n : \A x \in 1 .. Len(C[k]) : C[k][x] \in S}
<1>1. /\ C[0] = <<>> /\ \A k \in 0 .. n : C[k] \in Seq(Nat)
      /\ \A k \in 1 .. n : C[k] = C[k - 1] \o R[k]
  BY JoinsAre
<1>2. Joined(R) = C[n]
  BY DEF Joined, Total
<1> HIDE DEF C
<1>3. 0 \in D
  BY <1>1
<1>4. ASSUME NEW k \in 1 .. n, k - 1 \in D
      PROVE  k \in D
  <2>1. k - 1 \in 0 .. n /\ k \in 0 .. n
    OBVIOUS
  <2>2. PICK c \in Seq(Nat), r \in Seq(Nat) : c = C[k - 1] /\ r = R[k] /\ C[k] = c \o r
    BY <1>1, <2>1
  <2>3. PICK l \in Nat, m \in Nat : l = Len(c) /\ m = Len(r)
    OBVIOUS
  <2>4. /\ Len(c \o r) = l + m
        /\ \A x \in 1 .. l + m : (c \o r)[x] = IF x <= l THEN c[x] ELSE r[x - l]
    BY <2>3, ConcatProperties
  <2>5. (\A x \in 1 .. l : c[x] \in S) /\ (\A x \in 1 .. m : r[x] \in S)
    BY <1>4, <2>2, <2>3
  <2>6. ASSUME NEW x \in 1 .. l + m
        PROVE  (c \o r)[x] \in S
    <3>1. CASE x <= l
      <4>1. x \in 1 .. l
        BY <3>1
      <4> QED
        BY <2>4, <2>5, <3>1, <4>1
    <3>2. CASE ~(x <= l)
      <4>1. x - l \in 1 .. m
        BY <3>2
      <4> QED
        BY <2>4, <2>5, <3>2, <4>1
    <3> QED
      BY <3>1, <3>2
  <2>7. \A x \in 1 .. Len(C[k]) : C[k][x] \in S
    BY <2>2, <2>4, <2>6
  <2> QED
    BY <2>1, <2>7
<1>5. n \in D
  <2> HIDE DEF D
  <2>1. \A k \in 0 .. n : k \in D
    BY <1>3, <1>4, TurnByTurn
  <2> QED
    BY <2>1
<1>6. n \in 0 .. n
  OBVIOUS
<1> QED
  BY <1>1, <1>2, <1>5, <1>6

LEMMA PartsAre ==
  ASSUME TypeOK
  PROVE  /\ Len(parts) \in Nat /\ DOMAIN parts = 1 .. Len(parts)
         /\ PartsOK(parts, Len(parts))
BY DEF TypeOK, PartsOK

\* The bytes of the directory for the parts, their number and their informations.
Unpadded(some, length, more) ==
  DirectorySize + Len(Copyright) + length + EntrySize * Len(some) + more
    + SumOf([i \in DOMAIN some |-> Len(some[i].info) + Len(some[i].extraInfo)])

LEMMA UnpaddedIs ==
  ASSUME NEW some, NEW n \in Nat, PartsOK(some, n), NEW length \in Nat, NEW more \in Nat
  PROVE  Unpadded(some, length, more) \in Nat
<1> DEFINE s == [i \in DOMAIN some |-> Len(some[i].info) + Len(some[i].extraInfo)]
<1>1. Len(s) = n /\ \A i \in 1 .. n : s[i] = Len(some[i].info) + Len(some[i].extraInfo)
  BY DEF PartsOK
<1>2. \A i \in 1 .. n : s[i] \in Nat
  <2> TAKE i \in 1 .. n
  <2>1. Len(some[i].info) \in Nat /\ Len(some[i].extraInfo) \in Nat
    BY DEF PartsOK, IsPart
  <2>2. s[i] = Len(some[i].info) + Len(some[i].extraInfo)
    BY <1>1
  <2> HIDE DEF s
  <2>3. \A a, b \in Nat : a + b \in Nat
    OBVIOUS
  <2> QED
    BY <2>1, <2>2, <2>3, Zenon
<1>3. Len(some) = n
  BY DEF PartsOK
<1>4. Unpadded(some, length, more) = 52 + Len(Copyright) + length + 32 * n + more + SumOf(s)
  BY <1>3 DEF Unpadded, DirectorySize, EntrySize
<1> HIDE DEF s
<1>5. Totals(Plus, 0, s)[Len(s)] \in Nat
  BY <1>1, <1>2, SumsAre
<1>6. SumOf(s) \in Nat
  BY <1>5 DEF SumOf, Total
<1>7. Len(Copyright) \in Nat
  BY DEF Copyright
<1>8. \A a, b, c \in Nat : 52 + a + length + 32 * b + more + c \in Nat
  OBVIOUS
<1> QED
  BY <1>4, <1>6, <1>7, <1>8

LEMMA OffsetsOf ==
  ASSUME TypeOK
  PROVE  /\ TheDirectorySize \in Nat /\ TheDirectorySize % 4 = 0
         /\ RelocationSize \in Nat /\ RelocationSize % 4 = 0
         /\ DataOffset \in Nat /\ DataOffset % 4 = 0
<1>1. PICK n \in Nat : PartsOK(parts, n)
  BY PartsAre
<1>2. UnpaddedSize = Unpadded(parts, Len(name), Len(extra))
  BY DEF UnpaddedSize, Unpadded
<1>3. Len(name) \in Nat /\ Len(extra) \in Nat
  BY DEF TypeOK
<1>4. UnpaddedSize \in Nat
  BY <1>1, <1>2, <1>3, UnpaddedIs
<1>5. PICK d \in Nat : d = TheDirectorySize /\ d % 4 = 0
  BY <1>4, PaddedIs DEF TheDirectorySize
<1>6. PICK r \in Nat : r = RelocationSize /\ r % 4 = 0
  BY <1>1, RoomIs, RoomOfParts
<1>7. d + r \in Nat /\ (d + r) % 4 = 0
  BY <1>5, <1>6
<1> QED
  BY <1>5, <1>6, <1>7 DEF DataOffset

PlacesInFile == [i \in DOMAIN parts |-> DataOffset + Entry(i).offset]

LEMMA PartsInFile ==
  ASSUME TypeOK, FileOK
  PROVE  LaidOut(parts, PlacesInFile, Len(parts))
<1>1. PICK n \in Nat, D \in Nat :
        n = Len(parts) /\ DOMAIN parts = 1 .. n /\ D = DataOffset /\ D % 4 = 0
  BY OffsetsOf, PartsAre
<1>2. \A i \in 1 .. n : IsPart(parts[i])
  BY <1>1 DEF TypeOK
<1>3. \A i \in 1 .. n : Entry(i).offset \in Nat /\ Entry(i).offset % 4 = 0
  BY <1>1 DEF FileOK, EntriesOK
<1>4. ASSUME NEW i \in 1 .. n
      PROVE  /\ PlacesInFile[i] = D + Entry(i).offset
             /\ PlacesInFile[i] \in Nat /\ PlacesInFile[i] % 4 = 0
  <2>1. PICK o \in Nat : o = Entry(i).offset /\ o % 4 = 0
    BY <1>3
  <2>2. PlacesInFile[i] = D + o
    BY <1>1, <2>1 DEF PlacesInFile
  <2>3. D + o \in Nat /\ (D + o) % 4 = 0
    BY <1>1, <2>1
  <2> QED
    BY <2>1, <2>2, <2>3
<1>5. ASSUME NEW i \in 1 .. n - 1
      PROVE  PlacesInFile[i] + parts[i].size <= PlacesInFile[i + 1]
  <2>1. i \in 1 .. n /\ i + 1 \in 1 .. n
    OBVIOUS
  <2>2. Entry(i).offset + parts[i].size <= Entry(i + 1).offset
    BY <1>1 DEF FileOK, EntriesOK
  <2>3. PICK a \in Nat, b \in Nat, s \in Nat :
          a = Entry(i).offset /\ b = Entry(i + 1).offset /\ s = parts[i].size /\ a + s <= b
    BY <1>2, <1>3, <2>1, <2>2 DEF IsPart
  <2>4. PlacesInFile[i] = D + a /\ PlacesInFile[i + 1] = D + b
    BY <1>4, <2>1, <2>3
  <2>5. (D + a) + s <= D + b
    BY <2>3
  <2> QED
    BY <2>3, <2>4, <2>5
<1> QED
  BY <1>1, <1>2, <1>4, <1>5 DEF LaidOut

\* Where the words to relocate of a written file are read.
LEMMA AddressesInFile ==
  ASSUME TypeOK, FileOK
  PROVE  /\ PartDataOffset = DataOffset
         /\ Addresses = AllRelocations(PlacesInFile)
<1>1. PICK n \in Nat : n = Len(parts) /\ DOMAIN parts = 1 .. n /\ PartsOK(parts, n)
  BY PartsAre
<1>2. LaidOut(parts, PlacesInFile, n)
  BY <1>1, PartsInFile
<1> DEFINE R == Shifted(parts, PlacesInFile)
<1>3. AllRelocations(PlacesInFile) = Joined(R)
  BY DEF AllRelocations, Shifted
<1>4. /\ file.relocFlag = (relocFlag \/ RelocationSize > 0)
      /\ file.relocationSize = RelocationSize /\ file.directorySize = TheDirectorySize
      /\ file.sets = SetsOf(AllRelocations(PlacesInFile))
  BY DEF FileOK, PlacesInFile
<1>5. relocFlag \in BOOLEAN /\ RelocationSize \in Nat /\ TheDirectorySize \in Nat
  BY OffsetsOf DEF TypeOK
<1>6. \A i \in 1 .. n : R[i] \in Seq(Nat) /\ Len(R[i]) = Len(parts[i].relocs)
                          /\ \A r \in 1 .. Len(R[i]) : R[i][r] % 4 = 0
  <2> TAKE i \in 1 .. n
  <2>1. /\ R[i] \in Seq(Nat) /\ Len(R[i]) = Len(parts[i].relocs)
        /\ \A r \in 1 .. Len(parts[i].relocs) : R[i][r] % 4 = 0
    BY <1>2, ShiftedIs
  <2> HIDE DEF R
  <2> QED
    BY <2>1
<1>7. Len(R) = n
  BY <1>2, PartsInPlaces
<1> HIDE DEF R
<1>8. Joined(R) \in Seq(Nat) /\ \A x \in 1 .. Len(Joined(R)) : Joined(R)[x] % 4 = 0
  <2> DEFINE S == {a \in Nat : a % 4 = 0}
  <2>1. \A i \in 1 .. n : R[i] \in Seq(Nat) /\ \A r \in 1 .. Len(R[i]) : R[i][r] \in S
    BY <1>6
  <2>2. Joined(R) \in Seq(Nat) /\ \A x \in 1 .. Len(Joined(R)) : Joined(R)[x] \in S
    <3>1. S \in SUBSET Nat
      OBVIOUS
    <3> HIDE DEF S
    <3> QED
      BY <1>7, <2>1, <3>1, AllOfJoined
  <2> QED
    BY <2>2
<1>9. CASE file.relocFlag
  <2>1. Addresses = Flat(SetsOf(Joined(R)))
    BY <1>3, <1>4, <1>9 DEF Addresses, Flat
  <2>2. Addresses = Joined(R)
    BY <1>8, <2>1, ReadBack
  <2>3. PartDataOffset = DataOffset
    BY <1>4, <1>9 DEF PartDataOffset, DataOffset
  <2> QED
    BY <1>3, <2>2, <2>3
<1>10. CASE ~file.relocFlag
  <2>1. RelocationSize = 0
    <3>1. RelocationSize > 0 => file.relocFlag
      BY <1>4, Zenon
    <3>2. ~(RelocationSize > 0) /\ RelocationSize \in Nat
      BY <1>5, <1>10, <3>1, Zenon
    <3> QED
      BY <3>2
  <2>2. SumOf(Estimates(parts)) = 0
    BY <1>1, <2>1, RoomIs, RoomOfParts
  <2>3. ASSUME NEW i \in 1 .. n
        PROVE  Len(R[i]) = 0
    <3>1. /\ Len(Estimates(parts)) = n
          /\ \A k \in 1 .. n : Estimates(parts)[k] \in Nat
          /\ Estimates(parts)[i] = PageCountEstimate(parts[i])
      BY <1>1, SumsOfParts
    <3>2. Estimates(parts)[i] <= 0
      BY <2>2, <3>1, TermOfSum
    <3>3. IsPart(parts[i]) /\ parts[i].relocs \in Seq(Nat) /\ 0 \in Nat
      BY <1>1 DEF PartsOK, IsPart
    <3>4. Len(parts[i].relocs) # 0 => PageCountEstimate(parts[i]) >= 1
      BY <3>3, EstimateIs
    <3> QED
      BY <1>6, <3>1, <3>2, <3>4
  <2>4. Len(Joined(R)) = 0
    <3>1. \A i \in 1 .. n : \A r \in 1 .. Len(R[i]) : R[i][r] \in {}
      BY <2>3
    <3>2. {} \in SUBSET Nat
      OBVIOUS
    <3>3. Joined(R) \in Seq(Nat) /\ \A x \in 1 .. Len(Joined(R)) : Joined(R)[x] \in {}
      BY <1>6, <1>7, <3>1, <3>2, AllOfJoined
    <3> QED
      BY <3>3
  <2>5. Joined(R) = <<>>
    BY <1>8, <2>4
  <2>6. Addresses = <<>>
    BY <1>10 DEF Addresses
  <2>7. PartDataOffset = DataOffset
    BY <1>4, <1>5, <1>10, <2>1 DEF PartDataOffset, DataOffset
  <2> QED
    BY <1>3, <2>5, <2>6, <2>7
<1>11. file.relocFlag \in BOOLEAN
  BY <1>4, <1>5
<1> QED
  BY <1>9, <1>10, <1>11

LEMMA RelocationsRead ==
  ASSUME TypeOK, FileOK, NEW i \in 1 .. Len(parts)
  PROVE  RelocationsOf(Entry(i)) = parts[i].relocs
<1>1. PICK n \in Nat : n = Len(parts) /\ DOMAIN parts = 1 .. n /\ i \in 1 .. n
  BY PartsAre
<1>2. LaidOut(parts, PlacesInFile, n)
  BY <1>1, PartsInFile
<1> DEFINE R == Shifted(parts, PlacesInFile)
           w == parts[i].relocs
           from == PlacesInFile[i]
           size == parts[i].size
<1>3. Addresses = Joined(R) /\ PartDataOffset = DataOffset
  BY AddressesInFile DEF AllRelocations, Shifted
<1>4. from = PartDataOffset + Entry(i).offset /\ size = Entry(i).size
  BY <1>1, <1>3 DEF PlacesInFile, FileOK, EntriesOK
<1>5. RelocationsOf(Entry(i)) = WordsIn(Joined(R), from, size)
  BY <1>3, <1>4, RelocationsAre
<1>6. /\ w \in Seq(Nat) /\ Len(R[i]) = Len(w) /\ from \in Nat /\ size \in Nat
      /\ \A r \in 1 .. Len(w) : w[r] \in Nat /\ R[i][r] = w[r] + from /\ w[r] < size
  <2>1. /\ w \in Seq(Nat) /\ Len(R[i]) = Len(w)
        /\ \A r \in 1 .. Len(w) : w[r] \in Nat /\ R[i][r] = w[r] + from
    BY <1>1, <1>2, ShiftedIs
  <2>2. from \in Nat /\ IsPart(parts[i])
    BY <1>1, <1>2 DEF LaidOut
  <2>3. size \in Nat /\ \A r \in 1 .. Len(w) : w[r] < size
    BY <2>2 DEF IsPart
  <2> HIDE DEF R, w, from, size
  <2> QED
    BY <2>1, <2>2, <2>3
<1>7. /\ Len(R) = n /\ InPlaces(R, n, PlacesInFile, Ends(parts, PlacesInFile))
      /\ Ends(parts, PlacesInFile)[i] = from + size
  BY <1>1, <1>2, PartsInPlaces DEF Ends
<1> HIDE DEF R, w, from, size
<1>8. /\ Joined(R) \in Seq(Nat)
      /\ \E L \in Nat :
           /\ L + Len(R[i]) <= Len(Joined(R))
           /\ \A x \in 1 .. L : Joined(R)[x] < from
           /\ \A r \in 1 .. Len(R[i]) : Joined(R)[L + r] = R[i][r]
           /\ \A x \in L + Len(R[i]) + 1 .. Len(Joined(R)) : Joined(R)[x] >= from + size
  <2>1. /\ Joined(R) \in Seq(Nat)
        /\ \E L \in Nat :
             /\ L + Len(R[i]) <= Len(Joined(R))
             /\ \A x \in 1 .. L : Joined(R)[x] < PlacesInFile[i]
             /\ \A r \in 1 .. Len(R[i]) : Joined(R)[L + r] = R[i][r]
             /\ \A x \in L + Len(R[i]) + 1 .. Len(Joined(R)) :
                  Joined(R)[x] >= Ends(parts, PlacesInFile)[i]
    BY <1>1, <1>7, PlaceOf, Zenon
  <2> QED
    BY <1>7, <2>1, Zenon DEF from
<1>9. PICK L \in Nat :
           /\ L + Len(w) <= Len(Joined(R))
           /\ \A x \in 1 .. L : Joined(R)[x] < from
           /\ \A r \in 1 .. Len(w) : Joined(R)[L + r] = w[r] + from /\ w[r] < size
           /\ \A x \in L + Len(w) + 1 .. Len(Joined(R)) : Joined(R)[x] >= from + size
  BY <1>6, <1>8
<1>10. WordsIn(Joined(R), from, size) = w
  BY <1>6, <1>8, <1>9, WordsOfPlace
<1> QED
  BY <1>5, <1>10 DEF w

----------------------------------------------------------------------------
(* The loops over the parts *)

Start(from) == [parts |-> <<>>, offsets |-> <<>>, end |-> from, outcome |-> "written"]

\* What Turns is defined from.
Runs(f, some, from, base, n) ==
  f = [k \in 0 .. n |-> IF k = 0 THEN Start(from) ELSE NextPlacement(f[k - 1], some[k], base)]

StartsAt(f, from) == f[0] = Start(from)
GoesThrough(f, some, base, n) == \A k \in 1 .. n : f[k] = NextPlacement(f[k - 1], some[k], base)

LEMMA RunsOn ==
  ASSUME NEW some, NEW from, NEW base, NEW n \in Nat, NEW f, Runs(f, some, from, base, n)
  PROVE  StartsAt(f, from) /\ GoesThrough(f, some, base, n)
<1> DEFINE g == [k \in 0 .. n |->
                   IF k = 0 THEN Start(from) ELSE NextPlacement(f[k - 1], some[k], base)]
<1>1. /\ g[0] = Start(from)
      /\ \A k \in 1 .. n : g[k] = NextPlacement(f[k - 1], some[k], base)
  OBVIOUS
<1>2. f = g
  BY DEF Runs
<1> HIDE DEF g
<1> QED
  BY <1>1, <1>2 DEF StartsAt, GoesThrough

LEMMA RunsExist ==
  ASSUME NEW some, NEW from, NEW base, NEW n \in Nat
  PROVE  \E f : Runs(f, some, from, base, n)
<1> DEFINE D == {i \in Nat : ~ \E f : Runs(f, some, from, base, i)}
<1>1. ASSUME D # {} PROVE FALSE
  <2>1. PICK i \in D : \A j \in D : i <= j
    BY <1>1, LeastNumber
  <2>2. CASE i = 0
    <3> DEFINE f == [k \in 0 .. 0 |-> Start(from)]
    <3>1. f = [k \in 0 .. 0 |->
                 IF k = 0 THEN Start(from) ELSE NextPlacement(f[k - 1], some[k], base)]
      OBVIOUS
    <3>2. Runs(f, some, from, base, i)
      BY <2>2, <3>1 DEF Runs
    <3> QED
      BY <2>1, <3>2
  <2>3. CASE i # 0
    <3>1. i \in Nat /\ i - 1 \in Nat /\ i - 1 \notin D
      BY <2>1, <2>3
    <3>2. PICK f : Runs(f, some, from, base, i - 1)
      BY <3>1
    <3>3. PICK m \in Nat : m = i - 1
      BY <3>1
    <3>4. Runs(f, some, from, base, m)
      BY <3>2, <3>3
    <3>5. StartsAt(f, from) /\ GoesThrough(f, some, base, m)
      BY <3>4, RunsOn, Zenon
    <3> DEFINE last == NextPlacement(f[i - 1], some[i], base)
               g == [k \in 0 .. i |-> IF k < i THEN f[k] ELSE last]
    <3>6. ASSUME NEW k \in 0 .. i
          PROVE  g[k] = IF k = 0 THEN Start(from) ELSE NextPlacement(g[k - 1], some[k], base)
      <4> HIDE DEF last
      <4>1. k # 0 => k - 1 \in 0 .. i /\ k - 1 < i /\ g[k - 1] = f[k - 1]
        BY <3>1
      <4>2. CASE k < i
        <5>1. k \in 0 .. m /\ g[k] = f[k]
          BY <3>1, <3>3, <4>2
        <5>2. k = 0 => f[k] = Start(from)
          BY <3>5 DEF StartsAt
        <5>3. k # 0 => f[k] = NextPlacement(f[k - 1], some[k], base)
          <6>1. k # 0 => k \in 1 .. m
            BY <5>1
          <6> QED
            BY <3>5, <6>1 DEF GoesThrough
        <5> HIDE DEF g
        <5> QED
          BY <4>1, <5>1, <5>2, <5>3
      <4>3. CASE k = i
        <5>1. g[k] = last
          BY <3>1, <4>3
        <5> HIDE DEF g
        <5> QED
          BY <2>3, <4>1, <4>3, <5>1 DEF last
      <4> QED
        BY <3>1, <4>2, <4>3
    <3>7. g = [k \in 0 .. i |->
                 IF k = 0 THEN Start(from) ELSE NextPlacement(g[k - 1], some[k], base)]
      <4> HIDE DEF last
      <4> QED
        BY <3>6
    <3>8. Runs(g, some, from, base, i)
      <4> HIDE DEF g
      <4> QED
        BY <3>7 DEF Runs
    <3> QED
      BY <2>1, <3>8
  <2> QED
    BY <2>2, <2>3
<1> QED
  BY <1>1

LEMMA TurnsAre ==
  ASSUME NEW some, NEW from, NEW base, NEW n \in Nat, Len(some) = n
  PROVE  /\ Turns(some, from, base)[0] = Start(from)
         /\ \A k \in 1 .. n :
              Turns(some, from, base)[k] = NextPlacement(Turns(some, from, base)[k - 1], some[k], base)
<1>1. Turns(some, from, base) = (CHOOSE f : Runs(f, some, from, base, Len(some)))
  BY DEF Turns, Runs, Start
<1> DEFINE f == Turns(some, from, base)
<1>2. Runs(f, some, from, base, n)
  BY <1>1, RunsExist
<1> HIDE DEF f
<1>3. StartsAt(f, from) /\ GoesThrough(f, some, base, n)
  BY <1>2, RunsOn, Zenon
<1> QED
  BY <1>3 DEF f, StartsAt, GoesThrough

\* A sequence of whatever there is.
IsSeq(s) == \E S : s \in Seq(S)

LEMMA Appended ==
  ASSUME NEW s, IsSeq(s), NEW n \in Nat, Len(s) = n, NEW x
  PROVE  /\ IsSeq(Append(s, x)) /\ Len(Append(s, x)) = n + 1 /\ Append(s, x)[n + 1] = x
         /\ \A i \in 1 .. n : Append(s, x)[i] = s[i]
<1>1. PICK S : s \in Seq(S)
  BY DEF IsSeq
<1>2. s \in Seq(S \cup {x}) /\ x \in S \cup {x}
  BY <1>1
<1>3. Append(s, x) \in Seq(S \cup {x})
  BY <1>2, AppendProperties
<1>4. /\ Len(Append(s, x)) = n + 1 /\ Append(s, x)[n + 1] = x
      /\ \A i \in 1 .. n : Append(s, x)[i] = s[i]
  BY <1>2, AppendProperties
<1> QED
  BY <1>3, <1>4 DEF IsSeq

LEMMA SeqOfItsOwn ==
  ASSUME NEW s, IsSeq(s)
  PROVE  s \in Seq(ToSet(s)) /\ Len(s) \in Nat /\ DOMAIN s = 1 .. Len(s)
<1>1. PICK S : s \in Seq(S)
  BY DEF IsSeq
<1>2. Len(s) \in Nat /\ DOMAIN s = 1 .. Len(s)
  BY <1>1
<1>3. s = [i \in 1 .. Len(s) |-> s[i]] /\ \A i \in 1 .. Len(s) : s[i] \in ToSet(s)
  BY <1>1, <1>2 DEF ToSet
<1>4. s \in Seq(ToSet(s))
  BY <1>2, <1>3
<1> QED
  BY <1>2, <1>4

----------------------------------------------------------------------------
(* A part at its place *)

LEMMA FieldsAre ==
  PartFields = {"kind", "info", "extraInfo", "at", "words", "size", "base", "relocs", "heap",
                "dirty", "pad", "targets", "moves", "stale"}
BY DEF PartFields, RawPart

\* A part that can be asked for its size: IsPart, but for the size of an object.
Ready(part) ==
  /\ DOMAIN part = PartFields
  /\ part.dirty \in BOOLEAN /\ (part.dirty => part.kind = "nos")
  /\ part.kind # "reloc" => part.relocs = <<>>

\* What asking for the size leaves alone.
Kept(p, q) ==
  /\ Ready(q)
  /\ q.kind = p.kind /\ q.info = p.info /\ q.extraInfo = p.extraInfo /\ q.relocs = p.relocs
  /\ q.kind # "nos" => q.size = p.size

Settled(part, place) == Ready(part) /\ part.at = place /\ part.dirty = FALSE

LEMMA KeptInTurn ==
  ASSUME NEW p, NEW q, NEW r, Kept(p, q), Kept(q, r)
  PROVE  Kept(p, r)
BY DEF Kept

LEMMA KeptIsPart ==
  ASSUME NEW p, NEW q, IsPart(p), Kept(p, q), q.size \in Nat
  PROVE  IsPart(q)
<1>1. /\ DOMAIN q = PartFields
      /\ Len(q.info) \in Nat /\ Len(q.extraInfo) \in Nat
      /\ q.relocs \in Seq(Nat) /\ q.relocs = p.relocs
      /\ q.relocs # <<>> => Head(q.relocs) <= Last(q.relocs)
      /\ q.kind # "reloc" => q.relocs = <<>>
      /\ q.dirty \in BOOLEAN /\ (q.dirty => q.kind = "nos")
  BY DEF Kept, Ready, IsPart
<1>2. \A r \in DOMAIN q.relocs : q.relocs[r] % 4 = 0 /\ q.relocs[r] < q.size
  <2>1. CASE q.kind = "nos"
    <3>1. q.relocs = <<>>
      BY <1>1, <2>1
    <3> QED
      BY <3>1
  <2>2. CASE q.kind # "nos"
    <3>1. q.size = p.size
      BY <2>2 DEF Kept
    <3>2. \A r \in DOMAIN p.relocs : p.relocs[r] % 4 = 0 /\ p.relocs[r] < p.size
      BY DEF IsPart
    <3> QED
      BY <1>1, <3>1, <3>2, Zenon
  <2> QED
    BY <2>1, <2>2
<1> QED
  BY <1>1, <1>2 DEF IsPart

LEMMA PartIsKept ==
  ASSUME NEW p, IsPart(p)
  PROVE  Kept(p, p) /\ Ready(p)
BY DEF Kept, Ready, IsPart

LEMMA DecodedIs ==
  ASSUME NEW part, Ready(part), part.kind = "nos"
  PROVE  Kept(part, Decoded(part))
<1>1. CASE Decoded(part) = part
  BY <1>1 DEF Kept
<1>2. ASSUME NEW heap, NEW pad,
             Decoded(part) = [part EXCEPT !.heap = heap, !.dirty = FALSE, !.pad = pad]
      PROVE  Kept(part, Decoded(part))
  <2> DEFINE q == [part EXCEPT !.heap = heap, !.dirty = FALSE, !.pad = pad]
  <2>1. /\ DOMAIN q = PartFields /\ q.dirty = FALSE
        /\ q.kind = part.kind /\ q.info = part.info /\ q.extraInfo = part.extraInfo
        /\ q.relocs = part.relocs
    BY FieldsAre DEF Ready
  <2> HIDE DEF q
  <2>2. Kept(part, q)
    BY <2>1 DEF Kept, Ready
  <2> QED
    BY <1>2, <2>2 DEF q
<1> QED
  BY <1>1, <1>2 DEF Decoded

\* Asked at its place a part settles there, if that works out.
LEMMA PlacedIs ==
  ASSUME NEW part, Ready(part), NEW place
  PROVE  /\ Kept(part, Placed(part, place).part)
         /\ Placed(part, place).outcome = "written" => Settled(Placed(part, place).part, place)
<1>1. CASE MustEncode(part, place) /\ part.kind = "nos"
  <2>1. PICK p : p = Decoded(part) /\ Kept(part, p) /\ p.kind = "nos"
    BY <1>1, DecodedIs DEF Kept
  <2>2. Placed(part, place) = EncodedObject(p, place)
    BY <1>1, <2>1 DEF Placed
  <2>3. CASE p.heap = <<>>
    <3>1. Placed(part, place) = [part |-> p, outcome |-> "thrown"]
      BY <2>2, <2>3 DEF EncodedObject
    <3> QED
      BY <2>1, <3>1
  <2>4. CASE p.heap # <<>>
    <3>1. PICK e : Placed(part, place) = Reencoded(p, place, e)
      BY <2>2, <2>4 DEF EncodedObject
    <3>2. CASE e.endless
      <4>1. Placed(part, place) = [part |-> p, outcome |-> "endless"]
        BY <3>1, <3>2 DEF Reencoded
      <4> QED
        BY <2>1, <4>1
    <3>3. CASE ~e.endless
      <4> DEFINE q == [p EXCEPT !.at = place, !.words = e.words, !.size = e.offset - place,
                                !.dirty = FALSE, !.stale = FALSE]
      <4>1. Placed(part, place) = [part |-> q, outcome |-> "written"]
        BY <3>1, <3>3 DEF Reencoded
      <4>2. /\ DOMAIN q = PartFields /\ q.dirty = FALSE /\ q.at = place
            /\ q.kind = p.kind /\ q.info = p.info /\ q.extraInfo = p.extraInfo
            /\ q.relocs = p.relocs
        BY <2>1, FieldsAre DEF Kept, Ready
      <4> HIDE DEF q
      <4>3. Kept(p, q) /\ Settled(q, place)
        BY <2>1, <4>2 DEF Kept, Ready, Settled
      <4>4. Kept(part, q)
        BY <2>1, <4>3, KeptInTurn
      <4> QED
        BY <4>1, <4>3, <4>4
    <3> QED
      BY <3>2, <3>3
  <2> QED
    BY <2>3, <2>4
<1>2. CASE ~(MustEncode(part, place) /\ part.kind = "nos")
  <2>1. part.dirty = FALSE
    <3>1. part.dirty => MustEncode(part, place)
      BY DEF MustEncode
    <3> QED
      BY <1>2, <3>1 DEF Ready
  <2>2. PICK p : /\ p = IF MustEncode(part, place) THEN Relocated(part, place) ELSE part
                 /\ Placed(part, place) = [part |-> [p EXCEPT !.at = place], outcome |-> "written"]
    BY <1>2 DEF Placed
  <2>3. /\ DOMAIN p = PartFields /\ p.dirty = FALSE
        /\ p.kind = part.kind /\ p.info = part.info /\ p.extraInfo = part.extraInfo
        /\ p.relocs = part.relocs /\ p.size = part.size
    <3>1. CASE p = part
      BY <2>1, <3>1 DEF Ready
    <3>2. ASSUME NEW words, NEW moves, p = [part EXCEPT !.words = words, !.moves = moves]
          PROVE  /\ DOMAIN p = PartFields /\ p.dirty = part.dirty
                 /\ p.kind = part.kind /\ p.info = part.info /\ p.extraInfo = part.extraInfo
                 /\ p.relocs = part.relocs /\ p.size = part.size
      BY <3>2, FieldsAre DEF Ready
    <3>3. p = part \/ \E words, moves : p = [part EXCEPT !.words = words, !.moves = moves]
      BY <2>2 DEF Relocated
    <3> QED
      BY <2>1, <3>1, <3>2, <3>3
  <2> DEFINE q == [p EXCEPT !.at = place]
  <2>4. /\ DOMAIN q = PartFields /\ q.dirty = FALSE /\ q.at = place
        /\ q.kind = part.kind /\ q.info = part.info /\ q.extraInfo = part.extraInfo
        /\ q.relocs = part.relocs /\ q.size = part.size
    BY <2>3, FieldsAre
  <2> HIDE DEF q
  <2>5. Kept(part, q) /\ Settled(q, place)
    BY <2>4 DEF Kept, Ready, Settled
  <2> QED
    BY <2>2, <2>5 DEF q
<1> QED
  BY <1>1, <1>2

\* What has settled keeps its size there.
LEMMA PlacedAgain ==
  ASSUME NEW part, NEW place, Settled(part, place)
  PROVE  /\ Placed(part, place).outcome = "written"
         /\ Placed(part, place).part.size = part.size
         /\ Kept(part, Placed(part, place).part) /\ Settled(Placed(part, place).part, place)
<1>1. ~MustEncode(part, place)
  BY DEF Settled, MustEncode
<1>2. Placed(part, place) = [part |-> [part EXCEPT !.at = place], outcome |-> "written"]
  BY <1>1 DEF Placed
<1>3. Ready(part)
  BY DEF Settled
<1>4. [part EXCEPT !.at = place].size = part.size
  <2>1. DOMAIN part = PartFields
    BY <1>3 DEF Ready
  <2>2. "size" \in DOMAIN part /\ "size" # "at"
    BY <2>1, FieldsAre
  <2> QED
    BY <2>2
<1>5. Placed(part, place).outcome = "written" /\ Placed(part, place).part.size = part.size
  <2> DEFINE q == [part EXCEPT !.at = place]
  <2>1. Placed(part, place) = [part |-> q, outcome |-> "written"] /\ q.size = part.size
    BY <1>2, <1>4
  <2> HIDE DEF q
  <2> QED
    BY <2>1
<1>6. /\ Kept(part, Placed(part, place).part)
      /\ Placed(part, place).outcome = "written" => Settled(Placed(part, place).part, place)
  BY <1>3, PlacedIs, Zenon
<1> QED
  BY <1>5, <1>6, Zenon

----------------------------------------------------------------------------
(* Where the loops lay the parts *)

TurnFields == {"parts", "offsets", "end", "outcome"}

LEMMA StartIs ==
  ASSUME NEW from
  PROVE  /\ DOMAIN Start(from) = TurnFields
         /\ Start(from).parts = <<>> /\ Start(from).offsets = <<>>
         /\ Start(from).end = from /\ Start(from).outcome = "written"
BY DEF Start, TurnFields

\* A turn of a loop goes on with what a part is at its place.
GoesOnWith(next, t, part, r) ==
  /\ DOMAIN next = TurnFields
  /\ t.outcome # "written" => next.parts = Append(t.parts, part) /\ next.outcome = t.outcome
  /\ t.outcome = "written" =>
       /\ next.parts = Append(t.parts, r.part) /\ next.outcome = r.outcome
       /\ r.outcome = "written" =>
            /\ next.offsets = Append(t.offsets, t.end)
            /\ next.end = Padded(t.end + r.part.size, 4)

LEMMA NextPlacementIs ==
  ASSUME NEW t, DOMAIN t = TurnFields, NEW part, NEW base
  PROVE  GoesOnWith(NextPlacement(t, part, base), t, part, Placed(part, t.end + base))
<1> DEFINE next == NextPlacement(t, part, base)
<1>1. CASE t.outcome # "written"
  <2>1. next = [t EXCEPT !.parts = Append(t.parts, part)]
    BY <1>1 DEF NextPlacement
  <2>2. \A x : LET u == [t EXCEPT !.parts = x]
               IN DOMAIN u = TurnFields /\ u.parts = x /\ u.outcome = t.outcome
    BY DEF TurnFields
  <2> QED
    BY <1>1, <2>1, <2>2 DEF GoesOnWith
<1>2. CASE t.outcome = "written"
  <2>1. PICK r : r = Placed(part, t.end + base)
    OBVIOUS
  <2>2. next = Placement(t, r)
    BY <1>2, <2>1 DEF NextPlacement
  <2>3. CASE r.outcome # "written"
    <3>1. next = [t EXCEPT !.parts = Append(t.parts, r.part), !.outcome = r.outcome]
      BY <2>2, <2>3 DEF Placement
    <3>2. \A x, y : LET u == [t EXCEPT !.parts = x, !.outcome = y]
                    IN DOMAIN u = TurnFields /\ u.parts = x /\ u.outcome = y
      BY DEF TurnFields
    <3> QED
      BY <1>2, <2>1, <2>3, <3>1, <3>2 DEF GoesOnWith
  <2>4. CASE r.outcome = "written"
    <3>1. next = [t EXCEPT !.parts = Append(t.parts, r.part), !.offsets = Append(t.offsets, t.end),
                           !.end = Padded(t.end + r.part.size, 4)]
      BY <2>2, <2>4 DEF Placement
    <3>2. \A x, y, z : LET u == [t EXCEPT !.parts = x, !.offsets = y, !.end = z]
                       IN /\ DOMAIN u = TurnFields /\ u.parts = x /\ u.offsets = y /\ u.end = z
                          /\ u.outcome = t.outcome
      BY DEF TurnFields
    <3> QED
      BY <1>2, <2>1, <2>4, <3>1, <3>2 DEF GoesOnWith
  <2> QED
    BY <2>3, <2>4
<1> QED
  BY <1>1, <1>2

\* So many parts lie at these offsets, and the next one would lie at the end.
Lies(some, offsets, end, from, base, k) ==
  /\ offsets \in Seq(Nat) /\ Len(offsets) = k
  /\ end \in Nat /\ end % 4 = 0
  /\ k = 0 => end = from
  /\ k # 0 => offsets[1] = from /\ end = Padded(offsets[k] + some[k].size, 4)
  /\ \A i \in 1 .. k : /\ some[i].size \in Nat /\ offsets[i] % 4 = 0
                       /\ Settled(some[i], offsets[i] + base)
  /\ \A i \in 1 .. k - 1 : offsets[i + 1] = Padded(offsets[i] + some[i].size, 4)

LEMMA LiesOn ==
  ASSUME NEW some, NEW offsets, NEW end, NEW from, NEW base, NEW k \in Nat,
         Lies(some, offsets, end, from, base, k),
         NEW more, NEW x, more[k + 1] = x, \A i \in 1 .. k : more[i] = some[i],
         x.size \in Nat, Settled(x, end + base)
  PROVE  Lies(more, Append(offsets, end), Padded(end + x.size, 4), from, base, k + 1)
<1>1. PICK o \in Seq(Nat), e \in Nat, s \in Nat :
        o = offsets /\ e = end /\ s = x.size /\ Len(o) = k /\ e % 4 = 0
  BY DEF Lies
<1>2. PICK new \in Seq(Nat) :
        /\ new = Append(o, e) /\ Len(new) = k + 1 /\ new[k + 1] = e
        /\ \A i \in 1 .. k : new[i] = o[i]
  <2>1. /\ Append(o, e) \in Seq(Nat) /\ Len(Append(o, e)) = k + 1 /\ Append(o, e)[k + 1] = e
        /\ \A i \in 1 .. k : Append(o, e)[i] = o[i]
    BY <1>1, AppendProperties
  <2> QED
    BY <2>1
<1>3. PICK last \in Nat : last = Padded(e + s, 4) /\ last % 4 = 0
  BY PaddedIs
<1>4. \A i \in 1 .. k + 1 : i \in 1 .. k \/ i = k + 1
  OBVIOUS
<1>5. ASSUME NEW i \in 1 .. k + 1
      PROVE  more[i].size \in Nat /\ new[i] % 4 = 0 /\ Settled(more[i], new[i] + base)
  <2>1. CASE i \in 1 .. k
    <3>1. some[i].size \in Nat /\ o[i] % 4 = 0 /\ Settled(some[i], o[i] + base)
      BY <1>1, <2>1 DEF Lies
    <3>2. more[i] = some[i] /\ new[i] = o[i]
      BY <1>2, <2>1
    <3> QED
      BY <3>1, <3>2
  <2>2. CASE i = k + 1
    <3>1. more[i] = x /\ new[i] = e
      BY <1>2, <2>2
    <3> QED
      BY <1>1, <3>1
  <2> QED
    BY <1>4, <2>1, <2>2
<1>6. ASSUME NEW i \in 1 .. (k + 1) - 1
      PROVE  new[i + 1] = Padded(new[i] + more[i].size, 4)
  <2>1. i \in 1 .. k /\ (i = k \/ i \in 1 .. k - 1)
    OBVIOUS
  <2>2. more[i] = some[i] /\ new[i] = o[i]
    BY <1>2, <2>1
  <2>3. CASE i = k
    <3>1. k # 0 /\ e = Padded(o[k] + some[k].size, 4)
      BY <1>1, <2>1, <2>3 DEF Lies
    <3> QED
      BY <1>2, <2>2, <2>3, <3>1
  <2>4. CASE i \in 1 .. k - 1
    <3>1. o[i + 1] = Padded(o[i] + some[i].size, 4)
      BY <1>1, <2>4 DEF Lies
    <3>2. i + 1 \in 1 .. k
      BY <2>4
    <3>3. new[i + 1] = o[i + 1]
      BY <1>2, <3>2
    <3> QED
      BY <2>2, <3>1, <3>3
  <2> QED
    BY <2>1, <2>3, <2>4
<1>7. new[1] = from
  <2>1. CASE k = 0
    <3>1. e = from
      BY <1>1, <2>1 DEF Lies
    <3> QED
      BY <1>2, <2>1, <3>1
  <2>2. CASE k # 0
    <3>1. o[1] = from /\ 1 \in 1 .. k
      BY <1>1, <2>2 DEF Lies
    <3> QED
      BY <1>2, <3>1
  <2> QED
    BY <2>1, <2>2
<1>8. last = Padded(new[k + 1] + more[k + 1].size, 4) /\ k + 1 # 0
  BY <1>1, <1>2, <1>3
<1>9. Lies(more, new, last, from, base, k + 1)
  BY <1>2, <1>3, <1>5, <1>6, <1>7, <1>8 DEF Lies
<1> QED
  BY <1>1, <1>2, <1>3, <1>9

SizesOK(some, k) == \A i \in 1 .. k : some[i].size \in Nat

\* The first loop after so many turns.
Went(t, some, from, base, k) ==
  /\ DOMAIN t = TurnFields
  /\ IsSeq(t.parts) /\ Len(t.parts) = k /\ \A i \in 1 .. k : Kept(some[i], t.parts[i])
  /\ t.outcome = "written" /\ SizesOK(t.parts, k) =>
       Lies(t.parts, t.offsets, t.end, from, base, k)

LEMMA WentOn ==
  ASSUME NEW some, NEW from, NEW base, NEW k \in Nat, NEW t, Went(t, some, from, base, k),
         NEW part, part = some[k + 1], Ready(part)
  PROVE  Went(NextPlacement(t, part, base), some, from, base, k + 1)
<1>1. PICK next, r : next = NextPlacement(t, part, base) /\ r = Placed(part, t.end + base)
  OBVIOUS
<1>2. /\ DOMAIN next = TurnFields
      /\ t.outcome # "written" => next.parts = Append(t.parts, part) /\ next.outcome = t.outcome
      /\ t.outcome = "written" =>
           /\ next.parts = Append(t.parts, r.part) /\ next.outcome = r.outcome
           /\ r.outcome = "written" =>
                /\ next.offsets = Append(t.offsets, t.end)
                /\ next.end = Padded(t.end + r.part.size, 4)
  <2>1. DOMAIN t = TurnFields
    BY DEF Went
  <2>2. GoesOnWith(next, t, part, r)
    BY <1>1, <2>1, NextPlacementIs, Zenon
  <2> QED
    BY <2>2 DEF GoesOnWith
<1>3. Kept(part, r.part) /\ (r.outcome = "written" => Settled(r.part, t.end + base))
  BY <1>1, PlacedIs
<1>4. Kept(part, part)
  BY DEF Kept
<1>5. PICK x : /\ next.parts = Append(t.parts, x) /\ Kept(part, x)
               /\ next.outcome = "written" =>
                    /\ t.outcome = "written" /\ Settled(x, t.end + base)
                    /\ next.offsets = Append(t.offsets, t.end)
                    /\ next.end = Padded(t.end + x.size, 4)
  BY <1>2, <1>3, <1>4
<1>6. /\ IsSeq(next.parts) /\ Len(next.parts) = k + 1 /\ next.parts[k + 1] = x
      /\ \A i \in 1 .. k : next.parts[i] = t.parts[i]
  <2>1. IsSeq(t.parts) /\ Len(t.parts) = k
    BY DEF Went
  <2> QED
    BY <1>5, <2>1, Appended
<1>7. \A i \in 1 .. k + 1 : i \in 1 .. k \/ i = k + 1
  OBVIOUS
<1>8. \A i \in 1 .. k + 1 : Kept(some[i], next.parts[i])
  <2>1. \A i \in 1 .. k : Kept(some[i], t.parts[i])
    BY DEF Went
  <2> QED
    BY <1>5, <1>6, <1>7, <2>1
<1>9. ASSUME next.outcome = "written", SizesOK(next.parts, k + 1)
      PROVE  Lies(next.parts, next.offsets, next.end, from, base, k + 1)
  <2>1. \A i \in 1 .. k : i \in 1 .. k + 1
    OBVIOUS
  <2>2. SizesOK(t.parts, k) /\ x.size \in Nat
    <3>1. k + 1 \in 1 .. k + 1
      OBVIOUS
    <3> QED
      BY <1>6, <1>9, <2>1, <3>1 DEF SizesOK
  <2>3. Lies(t.parts, t.offsets, t.end, from, base, k)
    BY <1>5, <1>9, <2>2 DEF Went
  <2>4. Lies(next.parts, Append(t.offsets, t.end), Padded(t.end + x.size, 4), from, base, k + 1)
    BY <1>5, <1>6, <1>9, <2>2, <2>3, LiesOn
  <2> QED
    BY <1>5, <1>9, <2>4
<1>10. Went(next, some, from, base, k + 1)
  BY <1>2, <1>6, <1>8, <1>9 DEF Went
<1> QED
  BY <1>1, <1>10

\* The first loop over the parts.
LEMMA FirstPass ==
  ASSUME NEW some, NEW n \in Nat, Len(some) = n, \A i \in 1 .. n : Ready(some[i]),
         NEW from \in Nat, from % 4 = 0, NEW base
  PROVE  Went(Pass(some, from, base), some, from, base, n)
<1> DEFINE T == Turns(some, from, base)
           D == {k \in 0 .. n : Went(T[k], some, from, base, k)}
<1>1. T[0] = Start(from) /\ \A k \in 1 .. n : T[k] = NextPlacement(T[k - 1], some[k], base)
  BY TurnsAre
<1>2. Pass(some, from, base) = T[n]
  BY DEF Pass
<1> HIDE DEF T
<1>3. 0 \in D
  <2>1. /\ DOMAIN T[0] = TurnFields /\ T[0].parts = <<>> /\ T[0].offsets = <<>>
        /\ T[0].end = from
    BY <1>1, StartIs
  <2>2. IsSeq(<<>>) /\ Len(<<>>) = 0 /\ <<>> \in Seq(Nat)
    <3>1. <<>> \in Seq(Nat) /\ Len(<<>>) = 0
      OBVIOUS
    <3> QED
      BY <3>1 DEF IsSeq
  <2>3. Lies(<<>>, <<>>, from, from, base, 0)
    BY <2>2 DEF Lies
  <2>4. Went(T[0], some, from, base, 0)
    BY <2>1, <2>2, <2>3 DEF Went
  <2> QED
    BY <2>4
<1>4. ASSUME NEW k \in 1 .. n, k - 1 \in D
      PROVE  k \in D
  <2>1. PICK m \in Nat : m = k - 1 /\ m + 1 = k
    OBVIOUS
  <2>2. Went(T[m], some, from, base, m) /\ Ready(some[k])
    BY <1>4, <2>1
  <2>3. Went(NextPlacement(T[m], some[k], base), some, from, base, m + 1)
    BY <2>1, <2>2, WentOn
  <2>4. T[k] = NextPlacement(T[m], some[k], base)
    BY <1>1, <2>1
  <2>5. Went(T[k], some, from, base, k)
    BY <2>1, <2>3, <2>4
  <2> QED
    BY <2>5
<1>5. n \in D
  <2> HIDE DEF D
  <2>1. \A k \in 0 .. n : k \in D
    BY <1>3, <1>4, TurnByTurn
  <2> QED
    BY <2>1
<1> QED
  BY <1>2, <1>5

\* A loop over parts that have settled, after so many turns: they keep their
\* places, counted from somewhere else.
WentAgain(t, some, offsets, from, base, way, k) ==
  /\ DOMAIN t = TurnFields
  /\ IsSeq(t.parts) /\ Len(t.parts) = k /\ t.outcome = "written"
  /\ t.offsets \in Seq(Nat) /\ Len(t.offsets) = k /\ t.end \in Nat
  /\ t.end + way = IF k = 0 THEN from ELSE Padded(offsets[k] + some[k].size, 4)
  /\ \A i \in 1 .. k : /\ Kept(some[i], t.parts[i]) /\ t.parts[i].size = some[i].size
                       /\ Settled(t.parts[i], offsets[i] + base)
                       /\ t.offsets[i] + way = offsets[i]

LEMMA PaddedFurther ==
  ASSUME NEW n \in Nat, NEW d \in Nat, d % 4 = 0
  PROVE  Padded(n, 4) + d = Padded(n + d, 4)
BY DEF Padded

LEMMA WentAgainOn ==
  ASSUME NEW some, NEW offsets, NEW end, NEW from, NEW base \in Nat, NEW n \in Nat,
         Lies(some, offsets, end, from, base, n),
         NEW way \in Nat, way % 4 = 0, NEW k \in 0 .. n - 1, NEW t,
         WentAgain(t, some, offsets, from, base, way, k)
  PROVE  WentAgain(NextPlacement(t, some[k + 1], base + way), some, offsets, from, base, way, k + 1)
<1>0. k \in Nat /\ k + 1 \in 1 .. n /\ (k # 0 => k \in 1 .. n - 1)
  OBVIOUS
<1>. PICK part : part = some[k + 1]
  OBVIOUS
<1>1. PICK o \in Seq(Nat), e \in Nat, s \in Nat :
        /\ o = offsets /\ Len(o) = n /\ e = t.end /\ part = some[k + 1] /\ s = part.size
        /\ Settled(part, o[k + 1] + base)
  <2>1. offsets \in Seq(Nat) /\ Len(offsets) = n
    BY DEF Lies
  <2>2. some[k + 1].size \in Nat /\ Settled(some[k + 1], offsets[k + 1] + base)
    BY <1>0 DEF Lies
  <2>3. t.end \in Nat
    BY DEF WentAgain
  <2> QED
    BY <2>1, <2>2, <2>3
<1>2. e + way = o[k + 1]
  <2>1. CASE k = 0
    <3>1. n # 0
      BY <1>0
    <3>2. o[1] = from
      BY <1>1, <3>1 DEF Lies
    <3>3. e + way = from
      BY <1>1, <2>1 DEF WentAgain
    <3> QED
      BY <2>1, <3>2, <3>3
  <2>2. CASE k # 0
    <3>1. o[k + 1] = Padded(o[k] + some[k].size, 4)
      BY <1>0, <1>1, <2>2 DEF Lies
    <3>2. e + way = Padded(o[k] + some[k].size, 4)
      BY <1>1, <2>2 DEF WentAgain
    <3> QED
      BY <3>1, <3>2
  <2> QED
    BY <2>1, <2>2
<1>3. e + (base + way) = o[k + 1] + base
  <2>1. e + (base + way) = (e + way) + base
    OBVIOUS
  <2> QED
    BY <1>2, <2>1
<1>4. PICK next, r : next = NextPlacement(t, part, base + way) /\ r = Placed(part, e + (base + way))
  OBVIOUS
<1>5. /\ r.outcome = "written" /\ r.part.size = s
      /\ Kept(part, r.part) /\ Settled(r.part, o[k + 1] + base)
  BY <1>1, <1>3, <1>4, PlacedAgain
<1>6. /\ DOMAIN next = TurnFields /\ next.parts = Append(t.parts, r.part)
      /\ next.outcome = "written"
      /\ next.offsets = Append(t.offsets, e) /\ next.end = Padded(e + s, 4)
  <2>1. DOMAIN t = TurnFields /\ t.outcome = "written"
    BY DEF WentAgain
  <2>2. GoesOnWith(next, t, part, r)
    <3>1. PICK b : b = base + way
      OBVIOUS
    <3>2. next = NextPlacement(t, part, b) /\ r = Placed(part, t.end + b)
      BY <1>1, <1>4, <3>1
    <3> QED
      BY <2>1, <3>2, NextPlacementIs, Zenon
  <2> QED
    BY <1>1, <1>5, <2>1, <2>2 DEF GoesOnWith
<1>7. /\ IsSeq(next.parts) /\ Len(next.parts) = k + 1 /\ next.parts[k + 1] = r.part
      /\ \A i \in 1 .. k : next.parts[i] = t.parts[i]
  <2>1. IsSeq(t.parts) /\ Len(t.parts) = k
    BY DEF WentAgain
  <2> QED
    BY <1>0, <1>6, <2>1, Appended
<1>8. /\ next.offsets \in Seq(Nat) /\ Len(next.offsets) = k + 1 /\ next.offsets[k + 1] = e
      /\ \A i \in 1 .. k : next.offsets[i] = t.offsets[i]
  <2>1. t.offsets \in Seq(Nat) /\ Len(t.offsets) = k
    BY DEF WentAgain
  <2> QED
    BY <1>6, <2>1, AppendProperties
<1>9. next.end \in Nat /\ next.end + way = Padded(o[k + 1] + s, 4)
  <2>1. e + s \in Nat /\ (e + s) + way = (e + way) + s
    OBVIOUS
  <2>2. Padded(e + s, 4) \in Nat /\ Padded(e + s, 4) + way = Padded((e + s) + way, 4)
    BY <2>1, PaddedIs, PaddedFurther
  <2>3. (e + s) + way = o[k + 1] + s
    BY <1>2, <2>1
  <2>4. Padded(e + s, 4) + way = Padded(o[k + 1] + s, 4)
    BY <2>2, <2>3
  <2> QED
    BY <1>6, <2>2, <2>4
<1>10. ASSUME NEW i \in 1 .. k + 1
       PROVE  /\ Kept(some[i], next.parts[i]) /\ next.parts[i].size = some[i].size
              /\ Settled(next.parts[i], o[i] + base)
              /\ next.offsets[i] + way = o[i]
  <2>1. CASE i \in 1 .. k
    <3>1. /\ Kept(some[i], t.parts[i]) /\ t.parts[i].size = some[i].size
          /\ Settled(t.parts[i], o[i] + base)
          /\ t.offsets[i] + way = o[i]
      BY <1>1, <2>1 DEF WentAgain
    <3>2. next.parts[i] = t.parts[i] /\ next.offsets[i] = t.offsets[i]
      BY <1>7, <1>8, <2>1
    <3> QED
      BY <3>1, <3>2
  <2>2. CASE i = k + 1
    <3>1. next.parts[i] = r.part /\ next.offsets[i] = e /\ some[i] = part
      BY <1>1, <1>7, <1>8, <2>2
    <3> QED
      BY <1>1, <1>2, <1>5, <2>2, <3>1
  <2>3. i \in 1 .. k \/ i = k + 1
    BY <1>0
  <2> QED
    BY <2>1, <2>2, <2>3
<1>11. next.end + way = IF k + 1 = 0 THEN from ELSE Padded(o[k + 1] + some[k + 1].size, 4)
  BY <1>0, <1>1, <1>9
<1>12. WentAgain(next, some, o, from, base, way, k + 1)
  BY <1>6, <1>7, <1>8, <1>9, <1>10, <1>11 DEF WentAgain
<1> QED
  BY <1>1, <1>4, <1>12

\* A loop after the first one.
LEMMA NextPass ==
  ASSUME NEW some, NEW offsets, NEW end, NEW from, NEW base \in Nat, NEW n \in Nat,
         Len(some) = n, Lies(some, offsets, end, from, base, n),
         NEW way \in Nat, way % 4 = 0, NEW start \in Nat, start + way = from
  PROVE  WentAgain(Pass(some, start, base + way), some, offsets, from, base, way, n)
<1> DEFINE T == Turns(some, start, base + way)
           D == {k \in 0 .. n : WentAgain(T[k], some, offsets, from, base, way, k)}
<1>1. /\ T[0] = Start(start)
      /\ \A k \in 1 .. n : T[k] = NextPlacement(T[k - 1], some[k], base + way)
  BY TurnsAre
<1>2. Pass(some, start, base + way) = T[n]
  BY DEF Pass
<1> HIDE DEF T
<1>3. 0 \in D
  <2>1. /\ DOMAIN T[0] = TurnFields /\ T[0].parts = <<>> /\ T[0].offsets = <<>>
        /\ T[0].end = start /\ T[0].outcome = "written"
    BY <1>1, StartIs
  <2>2. IsSeq(<<>>) /\ Len(<<>>) = 0 /\ <<>> \in Seq(Nat)
    <3>1. <<>> \in Seq(Nat) /\ Len(<<>>) = 0
      OBVIOUS
    <3> QED
      BY <3>1 DEF IsSeq
  <2>3. WentAgain(T[0], some, offsets, from, base, way, 0)
    BY <2>1, <2>2 DEF WentAgain
  <2> QED
    BY <2>3
<1>4. ASSUME NEW k \in 1 .. n, k - 1 \in D
      PROVE  k \in D
  <2>1. PICK m \in 0 .. n - 1 : m = k - 1 /\ m + 1 = k
    OBVIOUS
  <2>2. WentAgain(T[m], some, offsets, from, base, way, m)
    BY <1>4, <2>1
  <2>3. WentAgain(NextPlacement(T[m], some[m + 1], base + way),
                  some, offsets, from, base, way, m + 1)
    BY <2>2, WentAgainOn
  <2>4. T[k] = NextPlacement(T[m], some[m + 1], base + way)
    BY <1>1, <2>1
  <2>5. WentAgain(T[k], some, offsets, from, base, way, k)
    BY <2>1, <2>3, <2>4
  <2> QED
    BY <2>5
<1>5. n \in D
  <2> HIDE DEF D
  <2>1. \A k \in 0 .. n : k \in D
    BY <1>3, <1>4, TurnByTurn
  <2> QED
    BY <2>1
<1> QED
  BY <1>2, <1>5

----------------------------------------------------------------------------
(* WriteToStream *)

LEMMA SumsAgree ==
  ASSUME NEW n \in Nat, NEW f, NEW g, f = g
  PROVE  SumOf(f) = SumOf(g)
OBVIOUS

\* What the directory, the room for the sets and the relocations are made of is
\* kept.
LEMMA SizesKept ==
  ASSUME NEW some, NEW other, NEW n \in Nat, PartsOK(some, n), PartsOK(other, n),
         \A i \in 1 .. n : Kept(some[i], other[i])
  PROVE  /\ \A length, more : Unpadded(other, length, more) = Unpadded(some, length, more)
         /\ Room(other) = Room(some)
<1>1. /\ DOMAIN some = 1 .. n /\ DOMAIN other = 1 .. n /\ Len(some) = n /\ Len(other) = n
      /\ \A i \in 1 .. n : /\ other[i].info = some[i].info
                           /\ other[i].extraInfo = some[i].extraInfo
                           /\ other[i].relocs = some[i].relocs
  BY DEF PartsOK, Kept
<1>2. [i \in DOMAIN other |-> Len(other[i].info) + Len(other[i].extraInfo)]
        = [i \in DOMAIN some |-> Len(some[i].info) + Len(some[i].extraInfo)]
  BY <1>1
<1>3. Estimates(other) = Estimates(some)
  <2>1. \A i \in 1 .. n : PageCountEstimate(other[i]) = PageCountEstimate(some[i])
    BY <1>1 DEF PageCountEstimate
  <2> QED
    BY <1>1, <2>1 DEF Estimates
<1>4. Counts(other) = Counts(some)
  BY <1>1 DEF Counts, RelocationCount
<1>5. Room(other) = Room(some)
  BY <1>3, <1>4 DEF Room
<1>6. \A length, more : Unpadded(other, length, more) = Unpadded(some, length, more)
  BY <1>1, <1>2 DEF Unpadded
<1> QED
  BY <1>5, <1>6

\* The loops of WriteToStream lay the same parts in the same places.
LoopsAgree(some, entries, written, D, n) ==
  /\ IsSeq(written.parts) /\ Len(written.parts) = n
  /\ \A i \in 1 .. n : /\ Kept(some[i], written.parts[i]) /\ written.parts[i].size \in Nat
                       /\ entries.parts[i].size = written.parts[i].size
                       /\ entries.offsets[i] \in Nat /\ entries.offsets[i] % 4 = 0
                       /\ entries.offsets[i] + D = written.offsets[i]
  /\ \A i \in 1 .. n - 1 :
       entries.offsets[i] + written.parts[i].size <= entries.offsets[i + 1]

\* Settled parts are kept by the next loop, and lie as they did.
LEMMA LiesAgain ==
  ASSUME NEW some, NEW offsets, NEW end, NEW from, NEW base, NEW n \in Nat,
         Lies(some, offsets, end, from, base, n), NEW other,
         \A i \in 1 .. n : other[i].size = some[i].size /\ Settled(other[i], offsets[i] + base)
  PROVE  Lies(other, offsets, end, from, base, n)
<1>1. /\ offsets \in Seq(Nat) /\ Len(offsets) = n /\ end \in Nat /\ end % 4 = 0
      /\ n = 0 => end = from
      /\ n # 0 => offsets[1] = from /\ end = Padded(offsets[n] + some[n].size, 4)
      /\ \A i \in 1 .. n : some[i].size \in Nat /\ offsets[i] % 4 = 0
      /\ \A i \in 1 .. n - 1 : offsets[i + 1] = Padded(offsets[i] + some[i].size, 4)
  BY DEF Lies
<1>2. n # 0 => offsets[1] = from /\ end = Padded(offsets[n] + other[n].size, 4)
  <2>1. n # 0 => n \in 1 .. n
    OBVIOUS
  <2> QED
    BY <1>1, <2>1
<1>3. \A i \in 1 .. n - 1 : offsets[i + 1] = Padded(offsets[i] + other[i].size, 4)
  <2>1. \A i \in 1 .. n - 1 : i \in 1 .. n
    OBVIOUS
  <2> QED
    BY <1>1, <2>1
<1>4. \A i \in 1 .. n : /\ other[i].size \in Nat /\ offsets[i] % 4 = 0
                        /\ Settled(other[i], offsets[i] + base)
  BY <1>1
<1> QED
  BY <1>1, <1>2, <1>3, <1>4 DEF Lies

LEMMA ThreeLoops ==
  ASSUME NEW some, NEW n \in Nat, PartsOK(some, n),
         NEW D \in Nat, D % 4 = 0, NEW load \in Nat,
         NEW sizes, sizes = Pass(some, D, load), SizesOK(sizes.parts, n),
         sizes.outcome = "written",
         NEW entries, entries = Pass(sizes.parts, 0, D + load),
         NEW written, written = Pass(entries.parts, D, load)
  PROVE  LoopsAgree(some, entries, written, D, n)
<1>1. Went(sizes, some, D, load, n)
  <2>1. \A i \in 1 .. n : Ready(some[i])
    BY PartIsKept DEF PartsOK
  <2>2. Len(some) = n
    BY DEF PartsOK
  <2> QED
    BY <2>1, <2>2, FirstPass
<1>2. PICK first, offsets, end : first = sizes.parts /\ offsets = sizes.offsets /\ end = sizes.end
  OBVIOUS
<1>3. /\ Lies(first, offsets, end, D, load, n) /\ Len(first) = n
      /\ \A i \in 1 .. n : Kept(some[i], first[i])
  BY <1>1, <1>2 DEF Went
<1>4. WentAgain(entries, first, offsets, D, load, D, n)
  <2>1. D + load = load + D
    OBVIOUS
  <2>2. entries = Pass(first, 0, load + D)
    BY <1>2, <2>1
  <2>3. 0 \in Nat /\ 0 + D = D
    OBVIOUS
  <2> QED
    BY <1>3, <2>2, <2>3, NextPass
<1>5. PICK second : second = entries.parts
  OBVIOUS
<1>6. /\ Len(second) = n
      /\ \A i \in 1 .. n : /\ Kept(first[i], second[i]) /\ second[i].size = first[i].size
                           /\ Settled(second[i], offsets[i] + load)
                           /\ entries.offsets[i] + D = offsets[i]
      /\ entries.offsets \in Seq(Nat) /\ Len(entries.offsets) = n
  BY <1>4, <1>5 DEF WentAgain
<1>7. Lies(second, offsets, end, D, load, n)
  BY <1>3, <1>6, LiesAgain
<1>8. WentAgain(written, second, offsets, D, load, 0, n)
  <2>1. load + 0 = load /\ D + 0 = D /\ 0 \in Nat /\ 0 % 4 = 0
    OBVIOUS
  <2>2. WentAgain(Pass(second, D, load + 0), second, offsets, D, load, 0, n)
    BY <1>6, <1>7, <2>1, NextPass
  <2> QED
    BY <1>5, <2>1, <2>2
<1>9. PICK third : third = written.parts
  OBVIOUS
<1>10. /\ IsSeq(third) /\ Len(third) = n
       /\ \A i \in 1 .. n : /\ Kept(second[i], third[i]) /\ third[i].size = second[i].size
                            /\ written.offsets[i] + 0 = offsets[i]
       /\ written.offsets \in Seq(Nat) /\ Len(written.offsets) = n
  BY <1>8, <1>9 DEF WentAgain
<1>11. ASSUME NEW i \in 1 .. n
       PROVE  /\ Kept(some[i], third[i]) /\ third[i].size \in Nat
              /\ second[i].size = third[i].size
              /\ entries.offsets[i] \in Nat /\ entries.offsets[i] % 4 = 0
              /\ entries.offsets[i] + D = written.offsets[i]
  <2>1. Kept(some[i], third[i])
    BY <1>3, <1>6, <1>10, KeptInTurn
  <2>2. third[i].size = second[i].size /\ second[i].size \in Nat /\ offsets[i] % 4 = 0
    BY <1>7, <1>10 DEF Lies
  <2>3. PICK o \in Nat, w \in Nat : o = entries.offsets[i] /\ w = written.offsets[i]
    <3>1. entries.offsets[i] \in Nat
      BY <1>6
    <3>2. written.offsets[i] \in Nat
      BY <1>10
    <3> QED
      BY <3>1, <3>2
  <2>4. o + D = offsets[i] /\ w + 0 = offsets[i]
    BY <1>6, <1>10, <2>3
  <2>5. o + D = w /\ o % 4 = 0
    <3>1. w % 4 = 0 /\ o + D = w
      BY <2>2, <2>4
    <3> QED
      BY <3>1
  <2> QED
    BY <2>1, <2>2, <2>3, <2>5
<1>12. ASSUME NEW i \in 1 .. n - 1
       PROVE  entries.offsets[i] + third[i].size <= entries.offsets[i + 1]
  <2>0. i \in 1 .. n /\ i + 1 \in 1 .. n
    OBVIOUS
  <2>1. PICK a \in Nat, b \in Nat, s \in Nat :
          a = entries.offsets[i] /\ b = entries.offsets[i + 1] /\ s = third[i].size
    BY <1>11, <2>0
  <2>2. a + D = offsets[i] /\ b + D = offsets[i + 1]
    BY <1>6, <2>0, <2>1
  <2>3. second[i].size = s
    BY <1>10, <2>0, <2>1
  <2>4. offsets[i + 1] = Padded(offsets[i] + second[i].size, 4)
    BY <1>7 DEF Lies
  <2>5. b + D = Padded((a + D) + s, 4) /\ (a + D) + s \in Nat
    BY <2>2, <2>3, <2>4
  <2>6. (a + D) + s <= b + D
    BY <2>5, PaddedIs
  <2>7. a + s <= b
    BY <2>6
  <2> QED
    BY <2>1, <2>7
<1> QED
  BY <1>5, <1>9, <1>10, <1>11, <1>12 DEF LoopsAgree

LEMMA KeptParts ==
  ASSUME NEW some, NEW n \in Nat, PartsOK(some, n), NEW other, IsSeq(other), Len(other) = n,
         \A i \in 1 .. n : Kept(some[i], other[i]), SizesOK(other, n)
  PROVE  PartsOK(other, n) /\ other \in Seq(ToSet(other))
<1>1. other \in Seq(ToSet(other)) /\ DOMAIN other = 1 .. n
  BY SeqOfItsOwn
<1>2. \A i \in 1 .. n : IsPart(other[i])
  BY KeptIsPart DEF PartsOK, SizesOK
<1> QED
  BY <1>1, <1>2 DEF PartsOK

LEMMA InfoOffsetIs ==
  ASSUME TypeOK, NEW i \in 1 .. Len(parts)
  PROVE  InfoOffset(i) \in Int /\ Len(parts[i].info) \in Int
<1>1. PICK n \in Nat : n = Len(parts) /\ i \in 1 .. n /\ PartsOK(parts, n)
  BY PartsAre
<1>2. \A j \in 1 .. n : Len(parts[j].info) \in Nat
  BY <1>1 DEF PartsOK, IsPart
<1>3. PICK m \in Nat : m = i - 1 /\ \A j \in 1 .. m : j \in 1 .. n
  BY <1>1
<1> DEFINE s == [j \in 1 .. m |-> Len(parts[j].info)]
<1>4. Len(s) = m /\ \A j \in 1 .. m : s[j] \in Nat
  BY <1>2, <1>3
<1>5. InfoOffset(i) = Len(Copyright) + Len(name) + SumOf(s)
  BY <1>3 DEF InfoOffset
<1> HIDE DEF s
<1>6. Totals(Plus, 0, s)[Len(s)] \in Nat
  BY <1>4, SumsAre
<1>7. SumOf(s) \in Nat
  BY <1>6 DEF SumOf, Total
<1>8. Len(Copyright) \in Nat /\ Len(name) \in Nat
  BY DEF Copyright, TypeOK
<1>9. \A a, b, c \in Nat : a + b + c \in Int
  OBVIOUS
<1> QED
  BY <1>1, <1>2, <1>5, <1>7, <1>8, <1>9

\* The sums over the parts are those of the parts that are kept.
LEMMA OffsetsKept ==
  ASSUME NEW n \in Nat, PartsOK(parts, n), PartsOK(parts', n),
         \A i \in 1 .. n : Kept(parts[i], parts'[i]), UNCHANGED <<name, extra>>
  PROVE  /\ TheDirectorySize' = TheDirectorySize /\ RelocationSize' = RelocationSize
         /\ DataOffset' = DataOffset
<1>1. PICK p : p = parts' /\ PartsOK(p, n) /\ \A i \in 1 .. n : Kept(parts[i], p[i])
  OBVIOUS
<1>2. /\ Room(p) = Room(parts)
      /\ Unpadded(p, Len(name), Len(extra)) = Unpadded(parts, Len(name), Len(extra))
  BY <1>1, SizesKept
<1>3. UnpaddedSize' = UnpaddedSize
  BY <1>1, <1>2 DEF UnpaddedSize, Unpadded
<1>4. TheDirectorySize' = TheDirectorySize
  BY <1>3 DEF TheDirectorySize
<1>5. RelocationSize' = RelocationSize
  BY <1>1, <1>2 DEF RelocationSize, Room, Estimates, Counts
<1> QED
  BY <1>4, <1>5 DEF DataOffset

LEMMA FileIsWritten ==
  ASSUME NEW n \in Nat, TypeOK, n = Len(parts), PartsOK(parts, n),
         NEW load, NEW entries, NEW written,
         LoopsAgree(parts, entries, written, DataOffset, n),
         parts' = written.parts, PartsOK(parts', n), UNCHANGED <<name, extra, relocFlag>>,
         file' = FileOf(load, entries, written)
  PROVE  FileOK'
<1>1. PICK p, f : p = parts' /\ f = file'
  OBVIOUS
<1>2. /\ DOMAIN parts = 1 .. n /\ DOMAIN p = 1 .. n /\ Len(p) = n
      /\ \A i \in 1 .. n : Kept(parts[i], p[i])
  BY <1>1 DEF PartsOK, LoopsAgree
<1>3. /\ TheDirectorySize' = TheDirectorySize /\ RelocationSize' = RelocationSize
      /\ DataOffset' = DataOffset
  BY <1>1, <1>2, OffsetsKept
<1>4. /\ f.relocFlag = (relocFlag \/ RelocationSize > 0)
      /\ f.relocationSize = RelocationSize /\ f.directorySize = TheDirectorySize
      /\ f.nameLength = Len(name)
      /\ f.sets = SetsOf(AllRelocations(written.offsets))
  BY <1>1 DEF FileOf
<1>5. f.entries = [i \in 1 .. n |->
                     [offset |-> entries.offsets[i],
                      size |-> entries.parts[i].size,
                      isNOS |-> parts[i].kind = "nos",
                      infoOffset |-> InfoOffset(i), infoSize |-> Len(parts[i].info)]]
  BY <1>1, <1>2 DEF FileOf
<1>6. /\ DOMAIN f.entries = 1 .. n /\ Len(f.entries) = n
      /\ f.entries \in Seq(ToSet(f.entries))
      /\ \A i \in 1 .. n : /\ f.entries[i].offset = entries.offsets[i]
                           /\ f.entries[i].size = entries.parts[i].size
                           /\ f.entries[i].isNOS = (parts[i].kind = "nos")
                           /\ f.entries[i].infoOffset = InfoOffset(i)
                           /\ f.entries[i].infoSize = Len(parts[i].info)
  <2>1. /\ DOMAIN f.entries = 1 .. n
        /\ \A i \in 1 .. n : /\ f.entries[i].offset = entries.offsets[i]
                             /\ f.entries[i].size = entries.parts[i].size
                             /\ f.entries[i].isNOS = (parts[i].kind = "nos")
                             /\ f.entries[i].infoOffset = InfoOffset(i)
                             /\ f.entries[i].infoSize = Len(parts[i].info)
    BY <1>5
  <2>2. f.entries = [i \in 1 .. n |-> f.entries[i]]
    BY <1>5
  <2>3. \A i \in 1 .. n : f.entries[i] \in ToSet(f.entries)
    BY <2>1 DEF ToSet
  <2>4. f.entries \in Seq(ToSet(f.entries)) /\ Len(f.entries) = n
    BY <2>2, <2>3
  <2> QED
    BY <2>1, <2>4
<1>7. EntriesOK'
  <2>1. ASSUME NEW i \in 1 .. n
        PROVE  /\ f.entries[i].offset \in Nat /\ f.entries[i].offset % 4 = 0
               /\ f.entries[i].size = p[i].size
               /\ f.entries[i].isNOS = (p[i].kind = "nos")
               /\ f.entries[i].infoOffset \in Int /\ f.entries[i].infoSize \in Int
    <3>1. InfoOffset(i) \in Int /\ Len(parts[i].info) \in Int
      BY InfoOffsetIs
    <3>2. /\ entries.offsets[i] \in Nat /\ entries.offsets[i] % 4 = 0
          /\ entries.parts[i].size = p[i].size
      BY <1>1 DEF LoopsAgree
    <3>3. p[i].kind = parts[i].kind
      BY <1>2 DEF Kept
    <3> QED
      BY <1>6, <3>1, <3>2, <3>3
  <2>2. ASSUME NEW i \in 1 .. n - 1
        PROVE  f.entries[i].offset + p[i].size <= f.entries[i + 1].offset
    <3>1. i \in 1 .. n /\ i + 1 \in 1 .. n
      OBVIOUS
    <3>2. entries.offsets[i] + p[i].size <= entries.offsets[i + 1]
      BY <1>1 DEF LoopsAgree
    <3> QED
      BY <1>6, <3>1, <3>2
  <2> QED
    BY <1>1, <1>2, <1>6, <2>1, <2>2 DEF EntriesOK, Entry
<1>8. f.sets = SetsOf(AllRelocations([i \in DOMAIN parts |-> DataOffset + Entry(i).offset]))'
  <2> DEFINE places == [i \in 1 .. n |-> DataOffset + f.entries[i].offset]
  <2>1. [i \in DOMAIN parts |-> DataOffset + Entry(i).offset]' = places
    BY <1>1, <1>2, <1>3 DEF Entry
  <2>2. ASSUME NEW i \in 1 .. n
        PROVE  /\ p[i].relocs = parts[i].relocs /\ places[i] = written.offsets[i]
    <3>1. entries.offsets[i] \in Nat /\ entries.offsets[i] + DataOffset = written.offsets[i]
      BY DEF LoopsAgree
    <3>2. DataOffset \in Nat
      BY OffsetsOf
    <3>3. DataOffset + entries.offsets[i] = entries.offsets[i] + DataOffset
      BY <3>1, <3>2
    <3> QED
      BY <1>2, <1>6, <3>1, <3>3 DEF Kept
  <2> HIDE DEF places
  <2>3. [i \in 1 .. n |-> [r \in DOMAIN p[i].relocs |-> p[i].relocs[r] + places[i]]]
          = [i \in 1 .. n |-> [r \in DOMAIN parts[i].relocs |->
                                 parts[i].relocs[r] + written.offsets[i]]]
    BY <2>2
  <2>4. AllRelocations([i \in DOMAIN parts |-> DataOffset + Entry(i).offset])'
          = Joined([i \in 1 .. n |-> [r \in DOMAIN p[i].relocs |-> p[i].relocs[r] + places[i]]])
    BY <1>1, <1>2, <2>1 DEF AllRelocations
  <2>5. AllRelocations(written.offsets)
          = Joined([i \in 1 .. n |-> [r \in DOMAIN parts[i].relocs |->
                                 parts[i].relocs[r] + written.offsets[i]]])
    BY <1>2 DEF AllRelocations
  <2>6. SetsOf(AllRelocations([i \in DOMAIN parts |-> DataOffset + Entry(i).offset]))'
          = SetsOf(AllRelocations([i \in DOMAIN parts |-> DataOffset + Entry(i).offset])')
    BY DEF SetsOf, Total, Totals, AddToSets
  <2> QED
    BY <1>4, <2>3, <2>4, <2>5, <2>6
<1>9. Len(name) \in Int
  BY DEF TypeOK
<1> QED
  BY <1>1, <1>3, <1>4, <1>7, <1>8, <1>9 DEF FileOK

LEMMA WriteKeeps ==
  ASSUME TypeOK, EncoderGrows, WriteToStream
  PROVE  PackageIInv'
<1>1. PICK load \in Loads : /\ Write(load, Pass(parts, DataOffset, load))
                            /\ UNCHANGED <<name, extra, relocFlag, edits>>
  BY DEF WriteToStream
<1>2. PICK n \in Nat, D \in Nat, sizes \in {Pass(parts, DataOffset, load)} :
        /\ n = Len(parts) /\ PartsOK(parts, n) /\ D = DataOffset /\ D % 4 = 0
        /\ sizes = Pass(parts, D, load)
  BY PartsAre, OffsetsOf
<1>3. load \in Nat
  BY PageAssumption
<1>4. /\ Len(parts) = n /\ \A i \in 1 .. n : Ready(parts[i])
  BY <1>2, PartIsKept DEF PartsOK
<1>5. Went(sizes, parts, D, load, n)
  BY <1>2, <1>4, FirstPass
<1>6. /\ IsSeq(sizes.parts) /\ Len(sizes.parts) = n /\ DOMAIN sizes.parts = 1 .. n
      /\ \A i \in 1 .. n : Kept(parts[i], sizes.parts[i])
  BY <1>5, SeqOfItsOwn DEF Went
<1>7. SizesOK(sizes.parts, n)
  BY <1>1, <1>2, <1>6 DEF EncoderGrows, SizesOK
<1>8. Write(load, sizes)
  BY <1>1, <1>2
<1>9. Len(name') \in Nat /\ Len(extra') \in Nat /\ relocFlag' \in BOOLEAN
  BY <1>1 DEF TypeOK
<1>10. CASE sizes.outcome # "written"
  <2>1. stage' # "written" /\ parts' = sizes.parts
    BY <1>8, <1>10 DEF Write
  <2>2. PartsOK(sizes.parts, n) /\ sizes.parts \in Seq(ToSet(sizes.parts))
    BY <1>2, <1>6, <1>7, KeptParts
  <2>3. PartsOK(parts', n) /\ parts' \in Seq(ToSet(parts'))
    BY <2>1, <2>2
  <2>4. TypeOK'
    BY <1>9, <2>3 DEF TypeOK, PartsOK
  <2> QED
    BY <2>1, <2>4 DEF PackageIInv
<1>11. CASE sizes.outcome = "written"
  <2>1. PICK entries, written :
          /\ entries = Pass(sizes.parts, 0, D + load) /\ written = Pass(entries.parts, D, load)
          /\ parts' = written.parts /\ file' = FileOf(load, entries, written)
    BY <1>2, <1>8, <1>11 DEF Write
  <2>2. LoopsAgree(parts, entries, written, D, n)
    BY <1>2, <1>3, <1>7, <1>11, <2>1, ThreeLoops
  <2>3. PartsOK(written.parts, n) /\ written.parts \in Seq(ToSet(written.parts))
    <3>1. /\ IsSeq(written.parts) /\ Len(written.parts) = n
          /\ \A i \in 1 .. n : Kept(parts[i], written.parts[i])
          /\ SizesOK(written.parts, n)
      BY <2>2 DEF LoopsAgree, SizesOK
    <3> QED
      BY <1>2, <3>1, KeptParts
  <2>4. PartsOK(parts', n) /\ parts' \in Seq(ToSet(parts'))
    BY <2>1, <2>3
  <2>5. TypeOK'
    BY <1>9, <2>4 DEF TypeOK, PartsOK
  <2>6. FileOK'
    BY <1>1, <1>2, <2>1, <2>2, <2>4, FileIsWritten
  <2> QED
    BY <2>5, <2>6 DEF PackageIInv
<1> QED
  BY <1>10, <1>11

----------------------------------------------------------------------------
(* The changes of the application *)

\* What an edit has to show.
LEMMA EditKeeps ==
  ASSUME TypeOK, Edit, parts' \in Seq(ToSet(parts')), \A i \in DOMAIN parts' : IsPart(parts'[i]),
         Len(name') \in Nat
  PROVE  PackageIInv'
<1>1. stage' # "written" /\ UNCHANGED <<extra, relocFlag>>
  BY DEF Edit
<1>2. TypeOK'
  BY <1>1 DEF TypeOK
<1> QED
  BY <1>1, <1>2 DEF PackageIInv

LEMMA PartsSeq ==
  ASSUME NEW s, NEW n \in Nat, DOMAIN s = 1 .. n, s = [i \in 1 .. n |-> s[i]]
  PROVE  s \in Seq(ToSet(s)) /\ Len(s) = n
<1>1. \A i \in 1 .. n : s[i] \in ToSet(s)
  BY DEF ToSet
<1>2. s \in Seq(ToSet(s))
  BY <1>1
<1> QED
  BY <1>2

LEMMA AddPartKeeps ==
  ASSUME TypeOK, AddPart
  PROVE  PackageIInv'
<1>1. PICK part \in NewParts : Edit /\ parts' = Append(parts, part) /\ UNCHANGED name
  BY DEF AddPart
<1>2. PICK n \in Nat : n = Len(parts) /\ PartsOK(parts, n)
  BY PartsAre
<1>3. IsSeq(parts)
  BY DEF TypeOK, IsSeq
<1>4. PICK p : p = Append(parts, part)
  OBVIOUS
<1>5. /\ IsSeq(p) /\ Len(p) = n + 1 /\ p[n + 1] = part
      /\ \A i \in 1 .. n : p[i] = parts[i]
  BY <1>2, <1>3, <1>4, Appended
<1>6. p \in Seq(ToSet(p)) /\ DOMAIN p = 1 .. n + 1
  BY <1>5, SeqOfItsOwn
<1>7. \A i \in DOMAIN p : IsPart(p[i])
  <2>1. IsPart(part)
    BY PartsAssumption
  <2>2. \A i \in 1 .. n + 1 : i \in 1 .. n \/ i = n + 1
    OBVIOUS
  <2> QED
    BY <1>2, <1>5, <1>6, <2>1, <2>2 DEF PartsOK
<1>8. Len(name') \in Nat
  BY <1>1 DEF TypeOK
<1>9. parts' = p
  BY <1>1, <1>4
<1>10. parts' \in Seq(ToSet(parts')) /\ \A i \in DOMAIN parts' : IsPart(parts'[i])
  BY <1>6, <1>7, <1>9
<1> QED
  BY <1>1, <1>8, <1>10, EditKeeps

\* A sequence without one of its elements.
Without(S, s, i, m) ==
  /\ RemoveAt(s, i) \in Seq(S) /\ Len(RemoveAt(s, i)) = m
  /\ \A j \in 1 .. m : RemoveAt(s, i)[j] = IF j < i THEN s[j] ELSE s[j + 1]

LEMMA RemovedAt ==
  ASSUME NEW S, NEW s \in Seq(S), NEW n \in Nat, Len(s) = n, NEW i \in 1 .. n,
         NEW m \in Nat, m = n - 1
  PROVE  Without(S, s, i, m)
<1>1. PICK k \in Nat, l \in Nat : k = i - 1 /\ l = n - i /\ k + l = m
  OBVIOUS
<1>2. PICK a \in Seq(S), b \in Seq(S) :
        /\ a = SubSeq(s, 1, i - 1) /\ Len(a) = k /\ \A j \in 1 .. k : a[j] = s[j]
        /\ b = SubSeq(s, i + 1, n) /\ Len(b) = l /\ \A j \in 1 .. l : b[j] = s[i + j]
  <2> DEFINE a == SubSeq(s, 1, i - 1)
             b == SubSeq(s, i + 1, n)
  <2>1. \A j \in 1 .. n : s[j] \in S
    OBVIOUS
  <2>2. /\ a \in Seq(S) /\ Len(a) = IF 1 <= i - 1 THEN i - 1 - 1 + 1 ELSE 0
        /\ \A j \in 1 .. i - 1 - 1 + 1 : a[j] = s[1 + j - 1]
    <3>1. 1 \in Int /\ i - 1 \in Int /\ \A j \in 1 .. i - 1 : s[j] \in S
      BY <2>1
    <3> QED
      BY <3>1, SubSeqProperties
  <2>3. /\ b \in Seq(S) /\ Len(b) = IF i + 1 <= n THEN n - (i + 1) + 1 ELSE 0
        /\ \A j \in 1 .. n - (i + 1) + 1 : b[j] = s[(i + 1) + j - 1]
    <3>1. i + 1 \in Int /\ n \in Int /\ \A j \in i + 1 .. n : s[j] \in S
      BY <2>1
    <3> QED
      BY <3>1, SubSeqProperties
  <2> HIDE DEF a, b
  <2>4. Len(a) = k /\ Len(b) = l
    BY <1>1, <2>2, <2>3
  <2>5. \A j \in 1 .. k : a[j] = s[j]
    <3>1. \A j \in 1 .. k : j \in 1 .. i - 1 - 1 + 1 /\ 1 + j - 1 = j
      BY <1>1
    <3> QED
      BY <2>2, <3>1
  <2>6. \A j \in 1 .. l : b[j] = s[i + j]
    <3>1. \A j \in 1 .. l : j \in 1 .. n - (i + 1) + 1 /\ (i + 1) + j - 1 = i + j
      BY <1>1
    <3> QED
      BY <2>3, <3>1
  <2> QED
    BY <2>2, <2>3, <2>4, <2>5, <2>6 DEF a, b
<1>3. RemoveAt(s, i) = a \o b
  BY <1>2 DEF RemoveAt
<1>4. PICK c : c = a \o b
  OBVIOUS
<1>5. /\ c \in Seq(S) /\ Len(c) = m
      /\ \A j \in 1 .. m : c[j] = IF j <= k THEN a[j] ELSE b[j - k]
  BY <1>1, <1>2, <1>4, ConcatProperties
<1>6. ASSUME NEW j \in 1 .. m
      PROVE  c[j] = IF j < i THEN s[j] ELSE s[j + 1]
  <2>1. CASE j < i
    <3>1. j <= k /\ j \in 1 .. k
      BY <1>1, <2>1
    <3> QED
      BY <1>2, <1>5, <2>1, <3>1
  <2>2. CASE ~(j < i)
    <3>1. ~(j <= k) /\ j - k \in 1 .. l /\ i + (j - k) = j + 1
      BY <1>1, <2>2
    <3>2. b[j - k] = s[i + (j - k)]
      BY <1>2, <3>1
    <3> QED
      BY <1>5, <2>2, <3>1, <3>2
  <2> QED
    BY <2>1, <2>2
<1> QED
  BY <1>3, <1>4, <1>5, <1>6 DEF Without

LEMMA RemovePartKeeps ==
  ASSUME TypeOK, RemovePart
  PROVE  PackageIInv'
<1>1. PICK i \in DOMAIN parts : Edit /\ parts' = RemoveAt(parts, i) /\ UNCHANGED name
  BY DEF RemovePart
<1>2. PICK n \in Nat, m \in Nat : n = Len(parts) /\ PartsOK(parts, n) /\ i \in 1 .. n /\ m = n - 1
  <2>1. PICK n \in Nat : n = Len(parts) /\ PartsOK(parts, n) /\ DOMAIN parts = 1 .. n
    BY PartsAre
  <2>2. n - 1 \in Nat /\ i \in 1 .. n
    BY <2>1
  <2> QED
    BY <2>1, <2>2
<1>3. PICK p : /\ p = RemoveAt(parts, i) /\ IsSeq(p) /\ Len(p) = m
               /\ \A j \in 1 .. m : p[j] = IF j < i THEN parts[j] ELSE parts[j + 1]
  <2>1. PICK S : parts \in Seq(S)
    BY DEF TypeOK
  <2>2. PICK s \in Seq(S) : s = parts /\ Len(s) = n
    BY <1>2, <2>1
  <2>3. i \in 1 .. n /\ m = n - 1
    BY <1>2
  <2>4. Without(S, s, i, m)
    BY <2>2, <2>3, RemovedAt, Zenon
  <2> QED
    BY <2>2, <2>4 DEF IsSeq, Without
<1>5. p \in Seq(ToSet(p)) /\ DOMAIN p = 1 .. m
  BY <1>3, SeqOfItsOwn
<1>6. \A j \in DOMAIN p : IsPart(p[j])
  <2> SUFFICES ASSUME NEW j \in 1 .. m
               PROVE  IsPart(p[j])
    BY <1>5
  <2>1. j \in 1 .. n /\ j + 1 \in 1 .. n
    BY <1>2
  <2>2. p[j] = parts[j] \/ p[j] = parts[j + 1]
    BY <1>3
  <2> QED
    BY <1>2, <2>1, <2>2 DEF PartsOK
<1>7. Len(name') \in Nat /\ parts' = p
  BY <1>1, <1>3 DEF TypeOK
<1>8. parts' \in Seq(ToSet(parts')) /\ \A j \in DOMAIN parts' : IsPart(parts'[j])
  BY <1>5, <1>6, <1>7
<1> QED
  BY <1>1, <1>7, <1>8, EditKeeps

\* A part that is put in the place of another one.
LEMMA ChangedPart ==
  ASSUME TypeOK, Edit, NEW i \in DOMAIN parts, NEW q, IsPart(q),
         parts' = [parts EXCEPT ![i] = q], UNCHANGED name
  PROVE  PackageIInv'
<1>1. PICK n \in Nat : n = Len(parts) /\ PartsOK(parts, n) /\ DOMAIN parts = 1 .. n
  BY PartsAre
<1>2. PICK p : p = [parts EXCEPT ![i] = q]
  OBVIOUS
<1>3. /\ DOMAIN p = 1 .. n /\ p = [j \in 1 .. n |-> p[j]]
      /\ \A j \in 1 .. n : p[j] = IF j = i THEN q ELSE parts[j]
  BY <1>1, <1>2
<1>4. p \in Seq(ToSet(p))
  BY <1>3, PartsSeq
<1>5. \A j \in DOMAIN p : IsPart(p[j])
  BY <1>1, <1>3 DEF PartsOK
<1>6. Len(name') \in Nat /\ parts' = p
  BY <1>2 DEF TypeOK
<1>7. parts' \in Seq(ToSet(parts')) /\ \A j \in DOMAIN parts' : IsPart(parts'[j])
  BY <1>4, <1>5, <1>6
<1> QED
  BY <1>6, <1>7, EditKeeps

LEMMA RemoveInfoKeeps ==
  ASSUME TypeOK, RemovePartHandlerInfo
  PROVE  PackageIInv'
<1>1. PICK i \in DOMAIN parts :
        /\ Edit /\ UNCHANGED name
        /\ parts' = [parts EXCEPT ![i].info = <<>>, ![i].extraInfo = <<>>]
  BY DEF RemovePartHandlerInfo
<1>2. PICK part, q : part = parts[i] /\ q = [part EXCEPT !.info = <<>>, !.extraInfo = <<>>]
  OBVIOUS
<1>3. IsPart(part)
  BY <1>2 DEF TypeOK
<1>4. /\ DOMAIN q = PartFields /\ q.info = <<>> /\ q.extraInfo = <<>>
      /\ q.size = part.size /\ q.relocs = part.relocs /\ q.kind = part.kind
      /\ q.dirty = part.dirty
  BY <1>2, <1>3, FieldsAre DEF IsPart
<1>5. IsPart(q)
  <2>1. Len(<<>>) \in Nat
    OBVIOUS
  <2> QED
    BY <1>3, <1>4, <2>1 DEF IsPart
<1>6. parts' = [parts EXCEPT ![i] = q]
  BY <1>1, <1>2
<1> QED
  BY <1>1, <1>5, <1>6, ChangedPart

LEMMA GetObjectKeeps ==
  ASSUME TypeOK, GetObject
  PROVE  PackageIInv'
<1>1. PICK i \in DOMAIN parts :
        /\ parts[i].kind = "nos" /\ Edit /\ UNCHANGED name
        /\ parts' = [parts EXCEPT ![i] = Decoded(parts[i])]
  BY DEF GetObject
<1>2. IsPart(parts[i])
  BY DEF TypeOK
<1>3. Kept(parts[i], Decoded(parts[i]))
  BY <1>1, <1>2, PartIsKept, DecodedIs
<1>4. Decoded(parts[i]).size = parts[i].size
  <2>1. CASE Decoded(parts[i]) = parts[i]
    BY <2>1
  <2>2. ASSUME NEW heap, NEW pad,
               Decoded(parts[i]) = [parts[i] EXCEPT !.heap = heap, !.dirty = FALSE, !.pad = pad]
        PROVE  Decoded(parts[i]).size = parts[i].size
    BY <1>2, <2>2, FieldsAre DEF IsPart
  <2> QED
    BY <2>1, <2>2 DEF Decoded
<1>5. parts[i].size \in Nat
  BY <1>2 DEF IsPart
<1>6. IsPart(Decoded(parts[i]))
  BY <1>2, <1>3, <1>4, <1>5, KeptIsPart
<1> QED
  BY <1>1, <1>6, ChangedPart

LEMMA ChangeObjectKeeps ==
  ASSUME TypeOK, ChangeObject
  PROVE  PackageIInv'
<1>1. PICK i \in DOMAIN parts : \E object :
        /\ Edit /\ UNCHANGED name
        /\ parts' = [parts EXCEPT ![i].heap[1] = object, ![i].stale = ~parts[i].dirty]
  BY DEF ChangeObject
<1>2. PICK part, object, q :
        /\ part = parts[i] /\ q = [part EXCEPT !.heap[1] = object, !.stale = ~part.dirty]
        /\ parts' = [parts EXCEPT ![i].heap[1] = object, ![i].stale = ~parts[i].dirty]
  BY <1>1
<1>3. IsPart(part)
  BY <1>2 DEF TypeOK
<1>4. /\ DOMAIN q = PartFields /\ q.info = part.info /\ q.extraInfo = part.extraInfo
      /\ q.size = part.size /\ q.relocs = part.relocs /\ q.kind = part.kind
      /\ q.dirty = part.dirty
  BY <1>2, <1>3, FieldsAre DEF IsPart
<1>5. IsPart(q)
  BY <1>3, <1>4 DEF IsPart
<1>6. parts' = [parts EXCEPT ![i] = q]
  BY <1>1, <1>2
<1> QED
  BY <1>1, <1>5, <1>6, ChangedPart

LEMMA SetNameKeeps ==
  ASSUME TypeOK, SetPackageName
  PROVE  PackageIInv'
<1>1. PICK n \in NewNames : Edit /\ name' = n /\ parts' = parts
  BY DEF SetPackageName
<1>2. Len(name') \in Nat
  BY <1>1, PartsAssumption
<1>3. parts' \in Seq(ToSet(parts')) /\ \A i \in DOMAIN parts' : IsPart(parts'[i])
  BY <1>1 DEF TypeOK
<1> QED
  BY <1>1, <1>2, <1>3, EditKeeps

\* The bytes that are read are a sequence, whatever their place.
LEMMA BytesAre ==
  ASSUME NEW from \in Int, NEW to \in Int
  PROVE  Len(Bytes(from, to)) \in Nat
<1> DEFINE b == [k \in 1 .. to - from |-> file.directoryData[from + k]]
<1>1. CASE to - from \in Nat
  BY <1>1 DEF Bytes
<1>2. CASE to - from \notin Nat
  <2>1. 1 .. to - from = 1 .. 0
    BY <1>2
  <2>2. PICK t : t = Bytes(from, to) /\ t = [k \in 1 .. 0 |-> file.directoryData[from + k]]
    BY <2>1 DEF Bytes
  <2>3. t = <<>>
    BY <2>2
  <2> QED
    BY <2>2, <2>3
<1> QED
  BY <1>1, <1>2

LEMMA PartIsRead ==
  ASSUME TypeOK, FileOK, NEW i \in 1 .. Len(parts)
  PROVE  IsPart(PartOf(i))
<1>1. PICK n \in Nat : /\ n = Len(parts) /\ PartsOK(parts, n) /\ DOMAIN parts = 1 .. n
                      /\ i \in 1 .. n /\ IsPart(parts[i])
  BY PartsAre DEF PartsOK
<1>2. PICK q : q = PartOf(i)
  OBVIOUS
<1>3. /\ Len(file.entries) = n /\ DOMAIN file.entries = 1 .. n
      /\ \A j \in 1 .. n : Entry(j).infoOffset \in Int /\ Entry(j).infoSize \in Int
      /\ Entry(i).size = parts[i].size /\ Entry(i).isNOS = (parts[i].kind = "nos")
  BY <1>1 DEF FileOK, EntriesOK
<1>4. RelocationsOf(file.entries[i]) = parts[i].relocs
  BY RelocationsRead DEF Entry
<1>5. /\ DOMAIN q = PartFields
      /\ q.size = Entry(i).size /\ q.relocs = parts[i].relocs /\ q.dirty = FALSE
      /\ q.kind = IF Entry(i).isNOS THEN "nos"
                  ELSE IF parts[i].relocs # <<>> THEN "reloc" ELSE "raw"
      /\ q.info = Bytes(Entry(i).infoOffset, Entry(i).infoOffset + Entry(i).infoSize)
      /\ q.extraInfo = ExtraInfo(i)
  BY <1>2, <1>4, FieldsAre DEF PartOf, Entry
<1>6. Len(q.info) \in Nat
  <2>1. PICK a \in Int, b \in Int : a = Entry(i).infoOffset /\ b = Entry(i).infoSize
    BY <1>1, <1>3
  <2>2. a + b \in Int /\ q.info = Bytes(a, a + b)
    BY <1>5, <2>1
  <2> QED
    BY <2>2, BytesAre
<1>7. Len(q.extraInfo) \in Nat
  <2>1. PICK a \in Int, b \in Int : a = Entry(i).infoOffset /\ b = Entry(i).infoSize
    BY <1>1, <1>3
  <2>2. PICK c : /\ c = IF i < n THEN Entry(i + 1).infoOffset ELSE DirectoryDataSize
                 /\ ExtraInfo(i) = Bytes(a + b, c)
    BY <1>3, <2>1 DEF ExtraInfo, Entry
  <2>3. c \in Int
    <3>1. CASE i < n
      <4>1. i + 1 \in 1 .. n
        BY <1>1, <3>1
      <4> QED
        BY <1>3, <2>2, <3>1, <4>1
    <3>2. CASE ~(i < n)
      <4>1. DirectoryDataSize \in Int
        BY <1>1, <1>3, OffsetsOf DEF DirectoryDataSize, FileOK, DirectorySize, EntrySize
      <4> QED
        BY <2>2, <3>2, <4>1
    <3> QED
      BY <3>1, <3>2
  <2>4. a + b \in Int
    OBVIOUS
  <2> QED
    BY <1>5, <2>2, <2>3, <2>4, BytesAre
<1>8. q.kind # "reloc" => q.relocs = <<>>
  <2>1. parts[i].kind = "nos" => parts[i].relocs = <<>>
    BY <1>1 DEF IsPart
  <2> QED
    BY <1>3, <1>5, <2>1
<1>9. /\ parts[i].size \in Nat /\ q.size = parts[i].size /\ q.relocs = parts[i].relocs
      /\ parts[i].relocs \in Seq(Nat)
      /\ \A r \in DOMAIN q.relocs : q.relocs[r] % 4 = 0 /\ q.relocs[r] < q.size
      /\ q.relocs # <<>> => Head(q.relocs) <= Last(q.relocs)
  <2>1. q.size = parts[i].size /\ q.relocs = parts[i].relocs
    BY <1>3, <1>5
  <2> QED
    BY <1>1, <2>1 DEF IsPart
<1>10. IsPart(q)
  BY <1>5, <1>6, <1>7, <1>8, <1>9 DEF IsPart
<1> QED
  BY <1>2, <1>10

LEMMA ReadKeeps ==
  ASSUME TypeOK, FileOK, ReadPackage
  PROVE  PackageIInv'
<1>1. PICK n \in Nat : /\ n = Len(parts) /\ DOMAIN parts = 1 .. n
                      /\ DOMAIN file.entries = 1 .. n /\ Len(file.entries) = n
  BY PartsAre DEF FileOK, EntriesOK
<1>2. PICK p : p = parts' /\ p = [i \in 1 .. n |-> PartOf(i)]
  BY <1>1 DEF ReadPackage
<1>3. DOMAIN p = 1 .. n /\ p = [i \in 1 .. n |-> p[i]] /\ \A i \in 1 .. n : p[i] = PartOf(i)
  BY <1>2
<1>4. p \in Seq(ToSet(p))
  BY <1>3, PartsSeq
<1>5. \A i \in DOMAIN p : IsPart(p[i])
  BY <1>1, <1>3, PartIsRead
<1>6. Len(name') \in Nat
  <2>1. name' = Bytes(Len(Copyright), Len(Copyright) + file.nameLength)
    BY DEF ReadPackage
  <2>2. Len(Copyright) \in Int /\ file.nameLength \in Int
    BY DEF Copyright, FileOK
  <2>3. Len(Copyright) + file.nameLength \in Int
    BY <2>2
  <2> QED
    BY <2>1, <2>2, <2>3, BytesAre
<1>7. Len(extra') \in Nat
  <2>1. PICK from, to :
          /\ from = Len(Copyright) + file.nameLength
          /\ to = IF file.entries = <<>> THEN DirectoryDataSize ELSE file.entries[1].infoOffset
          /\ extra' = Bytes(from, to)
    BY DEF ReadPackage
  <2>2. from \in Int
    <3>1. Len(Copyright) \in Int /\ file.nameLength \in Int
      BY DEF Copyright, FileOK
    <3> QED
      BY <2>1, <3>1
  <2>3. to \in Int
    <3>1. CASE file.entries = <<>>
      <4>1. DirectoryDataSize \in Int
        BY <1>1, OffsetsOf DEF DirectoryDataSize, FileOK, DirectorySize, EntrySize
      <4> QED
        BY <2>1, <3>1, <4>1
    <3>2. CASE file.entries # <<>>
      <4>1. n # 0
        <5>1. ASSUME n = 0
              PROVE  file.entries = <<>>
          <6>1. PICK S : file.entries \in Seq(S)
            BY DEF FileOK, EntriesOK
          <6> QED
            BY <1>1, <5>1, <6>1
        <5> QED
          BY <3>2, <5>1
      <4>2. 1 \in 1 .. n
        BY <4>1
      <4>3. Entry(1).infoOffset \in Int
        BY <1>1, <4>2 DEF FileOK, EntriesOK
      <4> QED
        BY <2>1, <3>2, <4>3 DEF Entry
    <3> QED
      BY <3>1, <3>2
  <2> QED
    BY <2>1, <2>2, <2>3, BytesAre
<1>8. stage' = "read" /\ relocFlag' \in BOOLEAN
  BY DEF ReadPackage, FileOK, TypeOK
<1>9. parts' \in Seq(ToSet(parts')) /\ \A i \in DOMAIN parts' : IsPart(parts'[i])
  BY <1>2, <1>4, <1>5
<1>10. TypeOK'
  BY <1>6, <1>7, <1>8, <1>9 DEF TypeOK
<1> QED
  BY <1>8, <1>10 DEF PackageIInv

----------------------------------------------------------------------------
(* The invariant, and the sets in their room *)

LEMMA PackageStarts == Init => PackageIInv
<1> SUFFICES ASSUME Init PROVE PackageIInv
  OBVIOUS
<1>1. Len(name) \in Nat /\ Len(extra) \in Nat
  BY DEF Init, NoName
<1>2. parts \in Seq(ToSet(parts)) /\ \A i \in DOMAIN parts : IsPart(parts[i])
  BY PartsAssumption DEF Init
<1>3. relocFlag \in BOOLEAN /\ stage # "written"
  BY DEF Init
<1> QED
  BY <1>1, <1>2, <1>3 DEF PackageIInv, TypeOK

LEMMA PackageStutters ==
  ASSUME PackageIInv, UNCHANGED vars
  PROVE  PackageIInv'
<1>1. /\ parts' = parts /\ name' = name /\ extra' = extra /\ relocFlag' = relocFlag
      /\ file' = file /\ stage' = stage
  BY DEF vars
<1>2. TypeOK'
  BY <1>1 DEF PackageIInv, TypeOK
<1>3. /\ TheDirectorySize' = TheDirectorySize /\ RelocationSize' = RelocationSize
      /\ DataOffset' = DataOffset
  BY <1>1 DEF TheDirectorySize, UnpaddedSize, RelocationSize, DataOffset
<1>4. ASSUME FileOK
      PROVE  FileOK'
  <2>1. EntriesOK'
    BY <1>1, <1>4 DEF FileOK, EntriesOK, Entry
  <2>2. SetsOf(AllRelocations([i \in DOMAIN parts |-> DataOffset + Entry(i).offset]))'
          = SetsOf(AllRelocations([i \in DOMAIN parts |-> DataOffset + Entry(i).offset]))
    BY <1>1, <1>3 DEF AllRelocations, Entry
  <2> QED
    BY <1>1, <1>3, <1>4, <2>1, <2>2 DEF FileOK
<1> QED
  BY <1>1, <1>2, <1>4 DEF PackageIInv

LEMMA PackageSteps ==
  ASSUME PackageIInv, EncoderGrows, [Next]_vars
  PROVE  PackageIInv'
<1>1. TypeOK
  BY DEF PackageIInv
<1>2. CASE AddPart
  BY <1>1, <1>2, AddPartKeeps
<1>3. CASE RemovePart
  BY <1>1, <1>3, RemovePartKeeps
<1>4. CASE RemovePartHandlerInfo
  BY <1>1, <1>4, RemoveInfoKeeps
<1>5. CASE SetPackageName
  BY <1>1, <1>5, SetNameKeeps
<1>6. CASE GetObject
  BY <1>1, <1>6, GetObjectKeeps
<1>7. CASE ChangeObject
  BY <1>1, <1>7, ChangeObjectKeeps
<1>8. CASE WriteToStream
  BY <1>1, <1>8, WriteKeeps
<1>9. CASE ReadPackage
  <2>1. FileOK
    BY <1>9 DEF PackageIInv, ReadPackage
  <2> QED
    BY <1>1, <1>9, <2>1, ReadKeeps
<1>10. CASE UNCHANGED vars
  BY <1>10, PackageStutters
<1> QED
  BY <1>2, <1>3, <1>4, <1>5, <1>6, <1>7, <1>8, <1>9, <1>10 DEF Next

\* As long as encoders go on from where a part begins, the parts are well formed
\* after every step of the application, WriteToStream and ReadPackage, and a
\* file that was written is the one for its parts: the entries lay them one
\* after the other at multiples of four, and the sets have their relocations.
THEOREM PackageInvariant == Spec /\ []EncoderGrows => []PackageIInv
<1>1. Init => PackageIInv
  BY PackageStarts
<1>2. PackageIInv /\ EncoderGrows /\ [Next]_vars => PackageIInv'
  BY PackageSteps
<1> QED
  BY <1>1, <1>2, PTL DEF Spec

LEMMA WrittenSetsFit ==
  ASSUME PackageIInv
  PROVE  SetsFit
<1> SUFFICES ASSUME stage = "written", \A i \in DOMAIN parts : InOrder(parts[i].relocs)
             PROVE  SetsFitInFile
  BY DEF SetsFit
<1>1. TypeOK /\ FileOK
  BY DEF PackageIInv
<1>2. PICK n \in Nat : n = Len(parts) /\ DOMAIN parts = 1 .. n /\ LaidOut(parts, PlacesInFile, n)
  BY <1>1, PartsAre, PartsInFile
<1>3. AllRelocations(PlacesInFile) = Joined(Shifted(parts, PlacesInFile))
  BY DEF AllRelocations, Shifted
<1>4. file.sets = SetsOf(Joined(Shifted(parts, PlacesInFile)))
  BY <1>1, <1>3 DEF FileOK, PlacesInFile
<1>5. SizeOfSets(SetsOf(Joined(Shifted(parts, PlacesInFile))))
        <= IF Room(parts) = 0 THEN 0 ELSE Room(parts) - SetsHeader
  BY <1>2, SetsInRoom
<1>6. file.relocationSize = Room(parts)
  BY <1>1, RoomOfParts DEF FileOK
<1> QED
  BY <1>4, <1>5, <1>6 DEF SetsFitInFile

\* The relocation sets of a package that is written stay in the room that
\* GetRelocationPageCountEstimate and relocationSetMaxSize left for them, for
\* every page size, number of parts and relocations in increasing order.
THEOREM SetsStayInRoom == Spec /\ []EncoderGrows => []SetsFit
<1>1. PackageIInv => SetsFit
  BY WrittenSetsFit
<1> QED
  BY <1>1, PackageInvariant, PTL

\* What ReadPackage finds of the words to relocate of a part that was written is
\* what the part had: the sets put the addresses in pages and offsets, and the
\* reader, who has only the addresses, gives each to the part it lies in.
THEOREM RelocationsReturn ==
  Spec /\ []EncoderGrows =>
    [](stage = "written" => \A i \in 1 .. Len(parts) : RelocationsOf(Entry(i)) = parts[i].relocs)
<1>1. PackageIInv =>
        (stage = "written" => \A i \in 1 .. Len(parts) : RelocationsOf(Entry(i)) = parts[i].relocs)
  BY RelocationsRead DEF PackageIInv
<1> QED
  BY <1>1, PackageInvariant, PTL
=============================================================================
