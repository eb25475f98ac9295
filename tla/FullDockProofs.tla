--------------------------- MODULE FullDockProofs ---------------------------
(***************************************************************************)
(* Proofs about a session of a docking link.                               *)
(***************************************************************************)
EXTENDS FullDockLink, TLAPS

-----------------------------------------------------------------------------
(* The synchronisation.                                                    *)

\* The states in which an answer leads on.
Answered == {"WFOptions", "WFStoreNames", "WFPreliminaryTime", "WFSetStoreResult"}
              \cup AtSoups \cup InSoup

\* What follows is a synchronisation with its loops in order.
Follow(t) == /\ t \in Sync /\ InLoops(t)
             /\ t.state \notin {"Uninitialized", "Interrupted"}

LEMMA StatesAre == States = Beginning \cup AtSoups \cup InSoup \cup {"End", "Interrupted"}
BY DEF States, Awaited, Beginning, AtSoups, InSoup

LEMMA PutInSync ==
  ASSUME NEW s \in Sync
  PROVE  /\ \A x \in States : [s EXCEPT !.state = x] \in Sync
         /\ \A x \in 0..Sources : [s EXCEPT !.source = x] \in Sync
         /\ \A x \in 0..Stores : [s EXCEPT !.store = x] \in Sync
         /\ \A x \in 0..Soups : [s EXCEPT !.soup = x] \in Sync
         /\ \A x \in BOOLEAN : [s EXCEPT !.adding = x] \in Sync
         /\ \A x \in BOOLEAN : [s EXCEPT !.complete = x] \in Sync
         /\ \A x \in 0..MaxEntries : [s EXCEPT !.entry = x] \in Sync
         /\ \A x \in SUBSET (1..MaxEntries) : [s EXCEPT !.fetch = x] \in Sync
         /\ \A x \in SUBSET (1..MaxEntries) : [s EXCEPT !.data = x] \in Sync
         /\ \A x \in SUBSET (1..MaxEntries) : [s EXCEPT !.offered = x] \in Sync
         /\ \A x \in SUBSET Places : [s EXCEPT !.visited = x] \in Sync
         /\ \A x \in BOOLEAN : [s EXCEPT !.missed = x] \in Sync
BY DEF Sync

LEMMA NextSource ==
  ASSUME NEW s \in Sync, s.visited = GoneThrough(s, Soups), ~s.missed, s.adding \/ s.source = 0,
         s.fetch = {}, s.data = {}, s.offered = {}
  PROVE  Follow(SyncNextSource(s))
<1> USE SyncAssumption
<1>t. s.source \in 0..Sources /\ s.visited \in SUBSET Places /\ s.missed \in BOOLEAN
  BY DEF Sync
<1>1. CASE s.source < Sources
  <2> DEFINE t == SyncNextSource(s)
  <2>1. /\ t.state = "WFSetStoreResult2" /\ t.source = s.source + 1 /\ t.store = 1 /\ t.soup = 0
        /\ ~t.adding /\ t.complete = s.complete /\ t.entry = s.entry /\ t.visited = s.visited
        /\ ~t.missed /\ t.fetch = {} /\ t.data = {} /\ t.offered = {}
    BY <1>1 DEF SyncNextSource, Sync
  <2>2. t \in Sync
    <3>1. /\ "WFSetStoreResult2" \in States /\ s.source + 1 \in 0..Sources
          /\ 1 \in 0..Stores /\ 0 \in 0..Soups
      BY <1>t, <1>1, StatesAre DEF AtSoups
    <3> QED
      BY <1>1, <3>1, PutInSync DEF SyncNextSource
  <2>3. GoneThrough(t, 0) = GoneThrough(s, Soups)
    <3>1. ASSUME NEW p \in Places PROVE p \in GoneThrough(t, 0) <=> p \in GoneThrough(s, Soups)
      <4>1. p[1] \in 1..Sources /\ p[2] \in 0..Stores /\ p[3] \in 1..Soups
        BY DEF Places
      <4> QED
        BY <1>t, <2>1, <4>1 DEF GoneThrough
    <3> QED
      BY <3>1 DEF GoneThrough
  <2> HIDE DEF t
  <2>4. InLoops(t)
    BY <1>t, <2>1, <2>3 DEF InLoops, Beginning, AtSoups, InSoup
  <2> QED
    BY <2>1, <2>2, <2>4 DEF t, Follow
<1>2. CASE ~(s.source < Sources)
  <2> DEFINE t == SyncNextSource(s)
  <2>1. t = [NoSync EXCEPT !.state = "End", !.visited = s.visited, !.missed = s.missed]
    BY <1>2 DEF SyncNextSource
  <2>2. NoSync \in Sync /\ "End" \in States
    BY StatesAre DEF NoSync, Beginning, Sync
  <2>3. t \in Sync
    <3>1. [NoSync EXCEPT !.state = "End", !.visited = s.visited, !.missed = s.missed] \in Sync
      BY <1>t, <2>2, PutInSync
    <3> QED
      BY <2>1, <3>1
  <2>4. t.state = "End" /\ t.visited = s.visited /\ ~t.missed
    BY <2>1 DEF NoSync
  <2>5. s.visited = Places
    <3>1. ASSUME NEW p \in Places PROVE p \in GoneThrough(s, Soups)
      <4>1. p[1] \in 1..Sources /\ p[2] \in 0..Stores /\ p[3] \in 1..Soups
        BY DEF Places
      <4>2. s.source = Sources
        BY <1>t, <1>2
      <4> QED
        BY <4>1, <4>2 DEF GoneThrough
    <3> QED
      BY <3>1 DEF GoneThrough
  <2> HIDE DEF t
  <2> QED
    BY <2>3, <2>4, <2>5 DEF t, Follow, InLoops, Beginning, AtSoups, InSoup
<1> QED
  BY <1>1, <1>2

\* A synchronisation between its soups, those up to the cursor behind it.
Between(s) == /\ s \in Sync /\ s.source > 0 /\ s.store > 0 /\ ~s.missed
              /\ s.visited = GoneThrough(s, s.soup)

LEMMA NextSoup ==
  ASSUME NEW s, Between(s), s.fetch = {}, s.data = {}, s.offered = {}
  PROVE  Follow(SyncNextSoup(s))
<1> DEFINE t == SyncNextSoup(s)
<1> USE SyncAssumption
<1>t. /\ s \in Sync /\ s.source \in 1..Sources /\ s.store \in 1..Stores /\ s.soup \in 0..Soups
      /\ s.adding \in BOOLEAN /\ s.visited \in SUBSET Places
  BY DEF Sync, Between
<1>p. \A p \in Places : p[1] \in 1..Sources /\ p[2] \in 0..Stores /\ p[3] \in 1..Soups
  BY DEF Places
<1>1. CASE s.soup < Soups
  <2> DEFINE place == <<s.source, IF s.adding THEN 0 ELSE s.store, s.soup + 1>>
  <2>1. t = [s EXCEPT !.state = "WFSoupInfo", !.soup = s.soup + 1, !.entry = 0,
                      !.visited = s.visited \cup {place}]
    BY <1>1 DEF SyncNextSoup, Sync
  <2>2. place \in Places /\ "WFSoupInfo" \in States /\ s.soup + 1 \in 0..Soups
        /\ 0 \in 0..MaxEntries
    BY <1>t, <1>1, StatesAre DEF Places, InSoup
  <2>3. t \in Sync
    <3> HIDE DEF place
    <3>1. s.visited \cup {place} \in SUBSET Places
      BY <1>t, <2>2
    <3>2. [s EXCEPT !.state = "WFSoupInfo", !.soup = s.soup + 1, !.entry = 0,
                    !.visited = s.visited \cup {place}] \in Sync
      BY <1>t, <2>2, <3>1, PutInSync
    <3> QED
      BY <2>1, <3>2
  <2>4. /\ t.state = "WFSoupInfo" /\ t.source = s.source /\ t.store = s.store
        /\ t.soup = s.soup + 1 /\ t.adding = s.adding /\ t.entry = 0
        /\ t.visited = s.visited \cup {place} /\ ~t.missed
        /\ t.fetch = {} /\ t.data = {} /\ t.offered = {}
    BY <1>t, <2>1 DEF Sync, Between
  <2> HIDE DEF t
  <2>5. t.visited = GoneThrough(t, t.soup)
    <3>1. ASSUME NEW p \in Places
          PROVE  p \in GoneThrough(t, t.soup) <=> p \in GoneThrough(s, s.soup) \/ p = place
      <4>1. p = place <=> /\ p[1] = s.source /\ p[3] = s.soup + 1
                          /\ p[2] = IF s.adding THEN 0 ELSE s.store
        BY <2>2 DEF Places
      <4> HIDE DEF place
      <4> QED
        BY <1>t, <1>p, <2>4, <4>1 DEF GoneThrough
    <3> HIDE DEF place
    <3>2. GoneThrough(t, t.soup) \subseteq Places /\ GoneThrough(s, s.soup) \subseteq Places
      BY DEF GoneThrough
    <3> QED
      BY <2>2, <2>4, <3>1, <3>2 DEF Between
  <2>6. InLoops(t)
    BY <1>t, <2>4, <2>5 DEF InLoops, Beginning, AtSoups, InSoup
  <2> QED
    BY <2>3, <2>4, <2>6 DEF t, Follow
<1>2. CASE s.soup = Soups /\ s.adding
  <2>1. Follow(SyncNextSource(s))
    BY <1>2, NextSource DEF Between
  <2> QED
    BY <1>2, <2>1 DEF SyncNextSoup
<1>3. CASE s.soup = Soups /\ ~s.adding /\ s.store < Stores
  <2>1. t = [s EXCEPT !.state = "WFSetStoreResult2", !.store = s.store + 1]
    BY <1>3 DEF SyncNextSoup, Sync
  <2>2. "WFSetStoreResult2" \in States /\ s.store + 1 \in 0..Stores
    BY <1>t, <1>3, StatesAre DEF AtSoups
  <2>3. t \in Sync
    <3>1. [s EXCEPT !.state = "WFSetStoreResult2", !.store = s.store + 1] \in Sync
      BY <1>t, <2>2, PutInSync
    <3> QED
      BY <2>1, <3>1
  <2>4. /\ t.state = "WFSetStoreResult2" /\ t.source = s.source /\ t.store = s.store + 1
        /\ ~t.adding /\ t.visited = s.visited /\ ~t.missed
        /\ t.fetch = {} /\ t.data = {} /\ t.offered = {}
    BY <1>t, <1>3, <2>1 DEF Sync, Between
  <2> HIDE DEF t
  <2>5. t.visited = GoneThrough(t, 0)
    <3>1. ASSUME NEW p \in Places
          PROVE  p \in GoneThrough(t, 0) <=> p \in GoneThrough(s, s.soup)
      BY <1>t, <1>p, <1>3, <2>4 DEF GoneThrough
    <3> QED
      BY <2>4, <3>1 DEF GoneThrough, Between
  <2>6. InLoops(t)
    BY <1>t, <2>4, <2>5 DEF InLoops, Beginning, AtSoups, InSoup
  <2> QED
    BY <2>3, <2>4, <2>6 DEF t, Follow
<1>4. CASE s.soup = Soups /\ ~s.adding /\ ~(s.store < Stores)
  <2>1. t = [s EXCEPT !.state = "WFSetStoreToDefaultResult", !.adding = TRUE]
    BY <1>4 DEF SyncNextSoup, Sync
  <2>2. "WFSetStoreToDefaultResult" \in States
    BY StatesAre DEF AtSoups
  <2>3. t \in Sync
    <3>1. [s EXCEPT !.state = "WFSetStoreToDefaultResult"] \in Sync
      BY <1>t, <2>2, PutInSync
    <3> QED
      BY <2>1, <3>1, PutInSync, Zenon
  <2>4. /\ t.state = "WFSetStoreToDefaultResult" /\ t.source = s.source /\ t.store = s.store
        /\ t.adding /\ t.visited = s.visited /\ ~t.missed
        /\ t.fetch = {} /\ t.data = {} /\ t.offered = {}
    BY <1>t, <1>4, <2>1 DEF Sync, Between
  <2> HIDE DEF t
  <2>5. t.visited = GoneThrough(t, 0)
    <3>1. ASSUME NEW p \in Places
          PROVE  p \in GoneThrough(t, 0) <=> p \in GoneThrough(s, s.soup)
      BY <1>t, <1>p, <1>4, <2>4 DEF GoneThrough
    <3> QED
      BY <2>4, <3>1 DEF GoneThrough, Between
  <2>6. InLoops(t)
    BY <1>t, <2>4, <2>5 DEF InLoops, Beginning, AtSoups, InSoup
  <2> QED
    BY <2>3, <2>4, <2>6 DEF t, Follow
<1> QED
  BY <1>t, <1>1, <1>2, <1>3, <1>4

LEMMA LeavingSoup ==
  ASSUME NEW s, Between(s), s.complete \/ s.fetch = s.offered
  PROVE  Follow(LeaveSoup(s))
<1> DEFINE u == [s EXCEPT !.missed = s.missed \/ (~s.complete /\ s.fetch # s.offered),
                          !.fetch = {}, !.data = {}, !.offered = {}, !.entry = 0]
<1>1. u = [s EXCEPT !.missed = FALSE, !.fetch = {}, !.data = {}, !.offered = {}, !.entry = 0]
  BY DEF Between, Sync
<1>2. u \in Sync
  <2>1. [s EXCEPT !.missed = FALSE] \in Sync
    BY PutInSync, Zenon DEF Between
  <2>2. {} \in SUBSET (1..MaxEntries) /\ 0 \in 0..MaxEntries
    BY SyncAssumption
  <2> QED
    BY <1>1, <2>1, <2>2, PutInSync
<1>3. /\ u.source = s.source /\ u.store = s.store /\ u.soup = s.soup /\ u.adding = s.adding
      /\ u.visited = s.visited /\ ~u.missed /\ u.fetch = {} /\ u.data = {} /\ u.offered = {}
  BY <1>1 DEF Between, Sync
<1>4. LeaveSoup(s) = SyncNextSoup(u)
  BY DEF LeaveSoup, Between, Sync
<1> HIDE DEF u
<1>5. Between(u)
  BY <1>2, <1>3 DEF Between, GoneThrough
<1> QED
  BY <1>3, <1>4, <1>5, NextSoup

\* Offering the entries that were downloaded, those up to the cursor being done.
LEMMA NextEntry ==
  ASSUME NEW s, Between(s), ~s.adding,
         \/ s.complete /\ s.data = {}
         \/ s.data = s.fetch /\ s.offered = {e \in s.data : e <= s.entry}
  PROVE  \A t \in SyncNextEntry(s) : Follow(t)
<1> DEFINE left == {e \in s.data : e > s.entry}
<1>t. /\ s \in Sync /\ s.data \subseteq 1..MaxEntries /\ s.entry \in 0..MaxEntries
      /\ s.offered \subseteq 1..MaxEntries
  BY DEF Between, Sync
<1>1. ASSUME NEW e \in left
      PROVE  Follow([s EXCEPT !.state = "WFModifiedResult", !.entry = e,
                              !.offered = s.offered \cup {d \in left : d <= e}])
  <2> DEFINE t == [s EXCEPT !.state = "WFModifiedResult", !.entry = e,
                            !.offered = s.offered \cup {d \in left : d <= e}]
  <2>1. t \in Sync
    <3>1. /\ "WFModifiedResult" \in States /\ e \in 0..MaxEntries
          /\ s.offered \cup {d \in left : d <= e} \in SUBSET (1..MaxEntries)
      BY <1>t, StatesAre DEF InSoup
    <3> QED
      BY <1>t, <3>1, PutInSync
  <2>2. /\ t.state = "WFModifiedResult" /\ t.source = s.source /\ t.store = s.store
        /\ t.soup = s.soup /\ t.adding = s.adding /\ t.visited = s.visited /\ ~t.missed
        /\ t.data = s.data /\ t.fetch = s.fetch /\ t.entry = e
        /\ t.offered = s.offered \cup {d \in left : d <= e}
    BY DEF Between, Sync
  <2>3. s.data = s.fetch /\ s.offered = {d \in s.data : d <= s.entry}
    OBVIOUS
  <2> HIDE DEF t
  <2>4. t.offered = {d \in t.data : d <= t.entry}
    <3>1. ASSUME NEW d \in s.data
          PROVE  (d <= s.entry \/ (d > s.entry /\ d <= e)) <=> d <= e
      BY <1>t
    <3> QED
      BY <1>t, <2>2, <2>3, <3>1
  <2>5. InLoops(t)
    BY <2>1, <2>2, <2>3, <2>4 DEF InLoops, Beginning, AtSoups, InSoup, Between, GoneThrough
  <2> QED
    BY <2>1, <2>2, <2>5 DEF t, Follow
<1>2. Follow(LeaveSoup([s EXCEPT !.offered = s.offered \cup left]))
  <2> DEFINE u == [s EXCEPT !.offered = s.offered \cup left]
  <2>1. u \in Sync
    <3>1. s.offered \cup left \in SUBSET (1..MaxEntries)
      BY <1>t
    <3> HIDE DEF left
    <3> QED
      BY <1>t, <3>1, PutInSync
  <2>2. /\ u.source = s.source /\ u.store = s.store /\ u.soup = s.soup /\ u.adding = s.adding
        /\ u.visited = s.visited /\ ~u.missed /\ u.fetch = s.fetch
        /\ u.complete = s.complete /\ u.offered = s.offered \cup left
    BY DEF Between, Sync
  <2> HIDE DEF u
  <2>3. u.complete \/ u.fetch = u.offered
    <3>1. \A e \in s.data : e > s.entry \/ e <= s.entry
      BY <1>t
    <3> QED
      BY <2>2, <3>1
  <2>4. Between(u)
    BY <2>1, <2>2 DEF Between, GoneThrough
  <2> QED
    BY <2>3, <2>4, LeavingSoup DEF u
<1> QED
  BY <1>1, <1>2 DEF SyncNextEntry

\* The entries due before the cursor are there.
LEMMA FetchNext ==
  ASSUME NEW s, Between(s), ~s.adding, s.offered = {},
         s.data = {e \in s.fetch : e <= s.entry}
  PROVE  \A t \in FetchNextEntry(s) : Follow(t)
<1> DEFINE left == {e \in s.fetch : e > s.entry}
<1>t. /\ s \in Sync /\ s.fetch \subseteq 1..MaxEntries /\ s.entry \in 0..MaxEntries
  BY DEF Between, Sync
<1>1. CASE left = {}
  <2> DEFINE u == [s EXCEPT !.entry = 0]
  <2>1. u \in Sync
    BY <1>t, PutInSync, SyncAssumption
  <2>2. /\ u.source = s.source /\ u.store = s.store /\ u.soup = s.soup /\ u.adding = s.adding
        /\ u.visited = s.visited /\ ~u.missed /\ u.fetch = s.fetch /\ u.data = s.data
        /\ u.offered = {} /\ u.entry = 0
    BY DEF Between, Sync
  <2>3. SyncEntries(s) = SyncNextEntry(u) /\ FetchNextEntry(s) = SyncEntries(s)
    BY <1>1 DEF SyncEntries, FetchNextEntry
  <2> HIDE DEF u
  <2>4. u.data = u.fetch /\ u.offered = {e \in u.data : e <= u.entry}
    BY <1>t, <1>1, <2>2
  <2>5. Between(u)
    BY <2>1, <2>2 DEF Between, GoneThrough
  <2> QED
    BY <2>2, <2>3, <2>4, <2>5, NextEntry
<1>2. CASE left # {}
  <2>1. ASSUME NEW e \in left, \A d \in left : e <= d
        PROVE  Follow([s EXCEPT !.state = "WFEntry", !.entry = e])
    <3> DEFINE t == [s EXCEPT !.state = "WFEntry", !.entry = e]
    <3>1. t \in Sync
      <4>1. "WFEntry" \in States /\ e \in 0..MaxEntries
        BY <1>t, StatesAre DEF InSoup
      <4> QED
        BY <1>t, <4>1, PutInSync
    <3>2. /\ t.state = "WFEntry" /\ t.source = s.source /\ t.store = s.store
          /\ t.soup = s.soup /\ t.adding = s.adding /\ t.visited = s.visited /\ ~t.missed
          /\ t.data = s.data /\ t.fetch = s.fetch /\ t.entry = e /\ t.offered = {}
      BY DEF Between, Sync
    <3> HIDE DEF t
    <3>3. t.entry \in t.fetch /\ t.data = {d \in t.fetch : d < t.entry}
      <4>1. ASSUME NEW d \in s.fetch PROVE d <= s.entry <=> d < e
        BY <1>t, <2>1
      <4> QED
        BY <3>2, <4>1
    <3>4. InLoops(t)
      BY <3>1, <3>2, <3>3 DEF InLoops, Beginning, AtSoups, InSoup, Between, GoneThrough
    <3> QED
      BY <3>1, <3>2, <3>4 DEF t, Follow
  <2> QED
    BY <1>2, <2>1 DEF FetchNextEntry
<1> QED
  BY <1>1, <1>2

LEMMA AddNext ==
  ASSUME NEW s, Between(s), s.adding, s.fetch = {}, s.data = {}, s.offered = {}
  PROVE  \A t \in AddNextEntry(s) : Follow(t)
<1>1. Follow(SyncNextSoup(s))
  BY NextSoup
<1>2. ASSUME s.entry < MaxEntries
      PROVE  Follow([s EXCEPT !.state = "WFAddedID", !.entry = s.entry + 1])
  <2> DEFINE t == [s EXCEPT !.state = "WFAddedID", !.entry = s.entry + 1]
  <2>1. t \in Sync
    <3>1. "WFAddedID" \in States /\ s.entry + 1 \in 0..MaxEntries
      BY <1>2, StatesAre, SyncAssumption DEF InSoup, Between, Sync
    <3> QED
      BY <3>1, PutInSync DEF Between
  <2>2. /\ t.state = "WFAddedID" /\ t.source = s.source /\ t.store = s.store
        /\ t.soup = s.soup /\ t.adding = s.adding /\ t.visited = s.visited /\ ~t.missed
        /\ t.data = {} /\ t.fetch = {} /\ t.offered = {}
    BY DEF Between, Sync
  <2> HIDE DEF t
  <2>3. InLoops(t)
    BY <2>1, <2>2 DEF InLoops, Beginning, AtSoups, InSoup, Between, GoneThrough
  <2> QED
    BY <2>1, <2>2, <2>3 DEF t, Follow
<1> QED
  BY <1>1, <1>2 DEF AddNextEntry, Between, Sync

\* What a beginning is like.
LEMMA AtTheBeginning ==
  ASSUME NEW s \in Sync, InLoops(s), s.state \in Beginning
  PROVE  /\ s.source = 0 /\ s.visited = {} /\ ~s.missed /\ s.fetch = {} /\ s.data = {} /\ s.offered = {}
         /\ \A x \in Beginning \ {"Uninitialized"} : Follow([s EXCEPT !.state = x])
<1>1. s = [NoSync EXCEPT !.state = s.state]
  BY DEF InLoops
<1>2. /\ s.source = 0 /\ s.visited = {} /\ ~s.missed /\ s.fetch = {} /\ s.data = {} /\ s.offered = {}
  BY <1>1 DEF NoSync
<1>3. ASSUME NEW x \in Beginning \ {"Uninitialized"} PROVE Follow([s EXCEPT !.state = x])
  <2> DEFINE t == [s EXCEPT !.state = x]
  <2>0. t.state = x
    BY DEF Sync
  <2>1. t \in Sync
    BY StatesAre, PutInSync
  <2>2. t = [NoSync EXCEPT !.state = x]
    BY <1>1 DEF NoSync
  <2> HIDE DEF t
  <2>3. InLoops(t)
    BY <2>0, <2>2 DEF InLoops, Beginning, AtSoups, InSoup
  <2> QED
    BY <2>0, <2>1, <2>3 DEF t, Follow, Beginning
<1> QED
  BY <1>2, <1>3

\* The head of the loop over the soups.
LEMMA FirstSoup ==
  ASSUME NEW s \in Sync, s.source > 0, s.store > 0, ~s.missed, s.visited = GoneThrough(s, 0),
         s.fetch = {}, s.data = {}, s.offered = {}
  PROVE  Follow(SyncNextSoup(SyncFirstSoup(s)))
<1> DEFINE u == [s EXCEPT !.soup = 0]
<1>1. u \in Sync
  BY PutInSync, SyncAssumption
<1>2. /\ u.source = s.source /\ u.store = s.store /\ u.soup = 0 /\ u.adding = s.adding
      /\ u.visited = s.visited /\ ~u.missed /\ u.fetch = {} /\ u.data = {} /\ u.offered = {}
  BY DEF Sync
<1>3. SyncFirstSoup(s) = u
  BY DEF SyncFirstSoup
<1> HIDE DEF u
<1>4. Between(u)
  BY <1>1, <1>2 DEF Between, GoneThrough
<1> QED
  BY <1>2, <1>3, <1>4, NextSoup

\* Every answer that a state awaits leads to a synchronisation with its loops in
\* order.
LEMMA TransitionFollows ==
  ASSUME NEW s \in Sync, InLoops(s), s.state \in Answered, NEW arg,
         NEW t \in SyncTransition(s, arg)
  PROVE  Follow(t)
<1>b. s.state \in InSoup => Between(s)
  BY DEF InLoops, Between
<1>1. CASE s.state \in Beginning
  <2>1. CASE s.state = "WFOptions"
    BY <2>1, AtTheBeginning DEF SyncTransition, FromWFOptions, Beginning
  <2>2. CASE s.state = "WFStoreNames"
    BY <2>2, AtTheBeginning DEF SyncTransition, FromWFStoreNames, Beginning
  <2>3. CASE s.state = "WFPreliminaryTime"
    <3>1. s.source = 0 /\ s.visited = {} /\ ~s.missed /\ s.fetch = {} /\ s.data = {} /\ s.offered = {}
      BY <1>1, AtTheBeginning
    <3>2. GoneThrough(s, Soups) = {}
      <4>1. s.adding = FALSE /\ s.store = 0
        BY <1>1 DEF InLoops, NoSync
      <4>2. \A p \in Places : p[1] \in 1..Sources /\ p[2] \in 0..Stores
        BY DEF Places
      <4> QED
        BY <3>1, <4>1, <4>2, SyncAssumption DEF GoneThrough
    <3>3. Follow(SyncNextSource(s))
      BY <3>1, <3>2, NextSource
    <3>4. Follow([s EXCEPT !.state = "WFSetStoreResult"])
      BY <1>1, AtTheBeginning DEF Beginning
    <3> QED
      BY <2>3, <3>3, <3>4 DEF SyncTransition, FromWFPreliminaryTime
  <2>4. CASE s.state = "WFSetStoreResult"
    BY <2>4, AtTheBeginning DEF SyncTransition, FromWFSetStoreResult, Beginning
  <2> QED
    BY <1>1, <2>1, <2>2, <2>3, <2>4 DEF Answered, Beginning, AtSoups, InSoup
<1>2. CASE s.state = "WFSetStoreResult2"
  <2>0. /\ s.source > 0 /\ s.store > 0 /\ ~s.missed /\ s.visited = GoneThrough(s, 0)
        /\ s.fetch = {} /\ s.data = {} /\ s.offered = {} /\ ~s.adding
    BY <1>2 DEF InLoops, AtSoups, InSoup
  <2>1. Follow(SyncNextSoup(SyncFirstSoup([s EXCEPT !.complete = TRUE])))
    <3> DEFINE u == [s EXCEPT !.complete = TRUE]
    <3>1. u \in Sync
      BY PutInSync, Zenon
    <3>2. /\ u.source = s.source /\ u.store = s.store /\ u.adding = s.adding
          /\ u.visited = s.visited /\ ~u.missed /\ u.fetch = {} /\ u.data = {} /\ u.offered = {}
      BY <2>0 DEF Sync
    <3> HIDE DEF u
    <3>3. u.visited = GoneThrough(u, 0)
      BY <2>0, <3>2 DEF GoneThrough
    <3>4. Follow(SyncNextSoup(SyncFirstSoup(u)))
      BY <2>0, <3>1, <3>2, <3>3, FirstSoup
    <3> QED
      BY <3>4 DEF u
  <2>2. Follow([s EXCEPT !.complete = FALSE, !.state = "WFStoreSyncTime"])
    <3> DEFINE u == [s EXCEPT !.complete = FALSE, !.state = "WFStoreSyncTime"]
    <3>1. u \in Sync
      <4>1. [s EXCEPT !.complete = FALSE] \in Sync
        BY PutInSync, Zenon
      <4> QED
        BY <4>1, StatesAre, PutInSync DEF AtSoups
    <3>2. /\ u.state = "WFStoreSyncTime" /\ u.source = s.source /\ u.store = s.store
          /\ ~u.adding /\ u.visited = s.visited /\ ~u.missed
          /\ u.fetch = {} /\ u.data = {} /\ u.offered = {}
      BY <2>0 DEF Sync
    <3> HIDE DEF u
    <3>3. InLoops(u)
      BY <2>0, <3>2 DEF InLoops, Beginning, AtSoups, InSoup, GoneThrough
    <3> QED
      BY <3>1, <3>2, <3>3 DEF u, Follow
  <2> QED
    BY <1>2, <2>1, <2>2 DEF SyncTransition, FromWFSetStoreResult2
<1>3. CASE s.state \in {"WFStoreSyncTime", "WFSetStoreToDefaultResult"}
  <2>1. Follow(SyncNextSoup(SyncFirstSoup(s)))
    BY <1>3, FirstSoup DEF InLoops, AtSoups, InSoup
  <2> QED
    BY <1>3, <2>1 DEF SyncTransition, FromWFStoreSyncTime, FromWFSetStoreToDefaultResult
<1>4. CASE s.state = "WFSoupInfo"
  <2>1. s.fetch = {} /\ s.data = {} /\ s.offered = {} /\ s.entry = 0 /\ Between(s)
    BY <1>b, <1>4 DEF InLoops, AtSoups, InSoup
  <2>2. CASE s.adding
    BY <1>4, <2>1, <2>2, AddNext DEF SyncTransition, FromWFSoupInfo
  <2>3. CASE ~s.adding
    <3> DEFINE u == [s EXCEPT !.state = "WFSoupIDs"]
    <3>1. u \in Sync
      BY StatesAre, PutInSync DEF InSoup
    <3>2. /\ u.state = "WFSoupIDs" /\ u.source = s.source /\ u.store = s.store
          /\ u.soup = s.soup /\ ~u.adding /\ u.visited = s.visited /\ ~u.missed
          /\ u.fetch = {} /\ u.data = {} /\ u.offered = {} /\ u.entry = 0
      BY <2>1, <2>3 DEF Sync, Between
    <3> HIDE DEF u
    <3>3. InLoops(u)
      BY <2>1, <2>3, <3>2 DEF InLoops, Beginning, AtSoups, InSoup, Between, GoneThrough
    <3>4. t = u
      BY <1>4, <2>3 DEF u, SyncTransition, FromWFSoupInfo
    <3> QED
      BY <3>1, <3>2, <3>3, <3>4 DEF Follow
  <2> QED
    BY <2>2, <2>3
<1>5. CASE s.state = "WFSoupIDs"
  <2>1. s.fetch = {} /\ s.data = {} /\ s.offered = {} /\ s.entry = 0 /\ Between(s) /\ ~s.adding
    BY <1>b, <1>5 DEF InLoops, AtSoups, InSoup
  <2>2. ASSUME s.complete, NEW n \in 0..MaxEntries,
               t \in SyncNextEntry([s EXCEPT !.fetch = 1..n])
        PROVE  Follow(t)
    <3> DEFINE u == [s EXCEPT !.fetch = 1..n]
    <3>1. u \in Sync
      <4>1. 1..n \in SUBSET (1..MaxEntries)
        BY SyncAssumption
      <4> QED
        BY <4>1, PutInSync
    <3>2. /\ u.source = s.source /\ u.store = s.store /\ u.soup = s.soup /\ ~u.adding
          /\ u.visited = s.visited /\ ~u.missed /\ u.data = {} /\ u.complete
      BY <2>1, <2>2 DEF Sync, Between
    <3> HIDE DEF u
    <3>3. Between(u)
      BY <2>1, <3>1, <3>2 DEF Between, GoneThrough
    <3>4. \A x \in SyncNextEntry(u) : Follow(x)
      BY <3>2, <3>3, NextEntry
    <3> QED
      BY <2>2, <3>4 DEF u
  <2>3. CASE s.complete
    BY <1>5, <2>2, <2>3 DEF SyncTransition, FromWFSoupIDs
  <2>4. CASE ~s.complete
    <3> DEFINE u == [s EXCEPT !.state = "WFChangedIDs"]
    <3>1. u \in Sync
      BY StatesAre, PutInSync DEF InSoup
    <3>2. /\ u.state = "WFChangedIDs" /\ u.source = s.source /\ u.store = s.store
          /\ u.soup = s.soup /\ ~u.adding /\ u.visited = s.visited /\ ~u.missed
          /\ u.fetch = {} /\ u.data = {} /\ u.offered = {} /\ u.entry = 0
      BY <2>1 DEF Sync, Between
    <3> HIDE DEF u
    <3>3. InLoops(u)
      BY <2>1, <3>2 DEF InLoops, Beginning, AtSoups, InSoup, Between, GoneThrough
    <3>4. t = u
      BY <1>5, <2>4 DEF u, SyncTransition, FromWFSoupIDs
    <3> QED
      BY <3>1, <3>2, <3>3, <3>4 DEF Follow
  <2> QED
    BY <2>3, <2>4
<1>6. CASE s.state = "WFChangedIDs"
  <2>1. s.fetch = {} /\ s.data = {} /\ s.offered = {} /\ s.entry = 0 /\ Between(s) /\ ~s.adding
    BY <1>b, <1>6 DEF InLoops, AtSoups, InSoup
  <2>2. PICK due \in SUBSET (1..MaxEntries) : t \in FetchNextEntry([s EXCEPT !.fetch = due])
    BY <1>6 DEF SyncTransition, FromWFChangedIDs
  <2> DEFINE u == [s EXCEPT !.fetch = due]
  <2>3. u \in Sync
    BY PutInSync
  <2>4. /\ u.source = s.source /\ u.store = s.store /\ u.soup = s.soup /\ ~u.adding
        /\ u.visited = s.visited /\ ~u.missed /\ u.data = {} /\ u.offered = {}
        /\ u.fetch = due /\ u.entry = 0
    BY <2>1 DEF Sync, Between
  <2>5. t \in FetchNextEntry(u)
    BY <2>2
  <2> HIDE DEF u
  <2>6. Between(u)
    BY <2>1, <2>3, <2>4 DEF Between, GoneThrough
  <2>7. u.data = {e \in u.fetch : e <= u.entry}
    <3>1. \A e \in due : ~(e <= 0)
      BY SyncAssumption
    <3> QED
      BY <2>4, <3>1
  <2> QED
    BY <2>4, <2>5, <2>6, <2>7, FetchNext
<1>7. CASE s.state = "WFEntry"
  <2>1. /\ Between(s) /\ ~s.adding /\ s.entry \in s.fetch /\ s.offered = {}
        /\ s.data = {e \in s.fetch : e < s.entry} /\ s.fetch \subseteq 1..MaxEntries
        /\ s.data \subseteq 1..MaxEntries
    BY <1>b, <1>7 DEF InLoops, AtSoups, InSoup, Sync
  <2>2. ASSUME NEW u \in {[s EXCEPT !.data = s.data \cup {s.entry}],
                          [s EXCEPT !.fetch = s.fetch \ {s.entry}]}
        PROVE  \A x \in FetchNextEntry(u) : Follow(x)
    <3>1. u \in Sync
      <4>1. s.data \cup {s.entry} \in SUBSET (1..MaxEntries)
            /\ s.fetch \ {s.entry} \in SUBSET (1..MaxEntries)
        BY <2>1
      <4> QED
        BY <4>1, PutInSync
    <3>2. /\ u.source = s.source /\ u.store = s.store /\ u.soup = s.soup /\ ~u.adding
          /\ u.visited = s.visited /\ ~u.missed /\ u.offered = {} /\ u.entry = s.entry
          /\ \/ u.data = s.data \cup {s.entry} /\ u.fetch = s.fetch
             \/ u.data = s.data /\ u.fetch = s.fetch \ {s.entry}
      BY <2>1 DEF Sync, Between
    <3>3. Between(u)
      BY <2>1, <3>1, <3>2 DEF Between, GoneThrough
    <3>4. u.data = {e \in u.fetch : e <= u.entry}
      <4>1. ASSUME NEW e \in s.fetch PROVE e <= s.entry <=> e \in s.data \/ e = s.entry
        BY <2>1
      <4>2. s.entry \notin s.data
        BY <2>1
      <4>3. CASE u.data = s.data \cup {s.entry} /\ u.fetch = s.fetch
        BY <2>1, <3>2, <4>1, <4>3
      <4>4. CASE u.data = s.data /\ u.fetch = s.fetch \ {s.entry}
        BY <2>1, <3>2, <4>1, <4>2, <4>4
      <4> QED
        BY <3>2, <4>3, <4>4
    <3> QED
      BY <3>2, <3>3, <3>4, FetchNext
  <2> QED
    BY <1>7, <2>2 DEF SyncTransition, FromWFEntry
<1>8. CASE s.state = "WFModifiedResult"
  <2>1. \A x \in SyncNextEntry(s) : Follow(x)
    BY <1>b, <1>8, NextEntry DEF InLoops, AtSoups, InSoup
  <2> QED
    BY <1>8, <2>1 DEF SyncTransition
<1>9. CASE s.state = "WFAddedID"
  <2>1. \A x \in AddNextEntry(s) : Follow(x)
    BY <1>b, <1>9, AddNext DEF InLoops, AtSoups, InSoup
  <2> QED
    BY <1>9, <2>1 DEF SyncTransition
<1> QED
  BY <1>1, <1>2, <1>3, <1>4, <1>5, <1>6, <1>7, <1>8, <1>9 DEF Answered, AtSoups, InSoup, Beginning

-----------------------------------------------------------------------------
(* What an engine does with a message.                                     *)

\* The names of the commands.
LEMMA Names ==
  /\ {"RequestToDock", "InitiateDocking", "NewtonName", "DesktopInfo", "NewtonInfo",
      "WhichIcons", "SetTimeout", "Password", "Result", "UnknownCommand", "Hello", "Disconnect",
      "RequestToBrowse", "BrowseQuery", "BrowseReply", "BrowseOther", "LoadPackageFile",
      "RequestToInstall", "LoadPackage", "StartKeyboard", "Keyboard", "Synchronize",
      "OperationDone", "OperationCanceled", "OpCanceledAck", "GetSyncOptions"} \subseteq DockCommands
  /\ \A s \in DOMAIN Asked : Asked[s] \in DockCommands
  /\ \A s \in DOMAIN Asked \ {"End"} : Awaited[s] \in DockCommands
  /\ "-" \notin DockCommands
<1>1. \A s \in DOMAIN Asked : Asked[s] # "-"
  BY DEF Asked
<1>2. \A s \in DOMAIN Asked \ {"End"} : Awaited[s] # "-"
  BY DEF Asked, Awaited
<1>3. "-" \notin DockCommands
  BY <1>1, <1>2 DEF DockCommands
<1>4. "WFOptions" \in DOMAIN Asked /\ Asked["WFOptions"] = "GetSyncOptions"
  BY DEF Asked
<1>5. "GetSyncOptions" \in DockCommands
  BY <1>4 DEF DockCommands
<1> QED
  BY <1>3, <1>5 DEF DockCommands

\* It leaves the message to the link.  An engine that waits for a result passes
\* on none.
PassesOn(m, d) ==
  /\ ~d.handled /\ ~d.thrown /\ ~d.reported /\ d.sync \in {sync, Interrupt(sync)}
  /\ d.engine = IF engine = "loadpkg" THEN "none" ELSE engine
  /\ d.sent \in {<<>>, Say("OperationDone")}
  /\ engine = "loadpkg" => m.cmd # "Result"
  /\ engine = "sync" /\ sync.state \in ResultStates \ {"Interrupted"} => m.cmd # "Result"
  /\ engine = "sync" /\ sync.state = "WFAddedID" => m.cmd # "AddedID"

\* It throws, an engine for browsing also after it has given way.
GivesUp(m, d) ==
  /\ engine = "loadpkg" => m.cmd = "Result"
  /\ d.thrown /\ ~d.handled /\ ~d.reported /\ d.sent = <<>> /\ d.sync = sync
  /\ d.engine = engine \/ (engine = "browse" /\ d.engine = "loadpkg")

\* It answers a query, sends the package of a file, takes the result of a package.
Replies(m, d) ==
  /\ m.cmd = "BrowseQuery"
  /\ d.handled /\ ~d.thrown /\ ~d.reported /\ d.sync = sync
  /\ engine = "browse" /\ d.engine = "browse" /\ d.sent = Say("BrowseReply")

LoadsFile(m, d) ==
  /\ m.cmd = "LoadPackageFile"
  /\ d.handled /\ ~d.thrown /\ ~d.reported /\ d.sync = sync
  /\ engine = "browse" /\ d.engine = "none" /\ d.sent = Say("LoadPackage")

TakesResult(m, d) ==
  /\ d.handled /\ ~d.thrown /\ d.reported /\ d.sync = sync
  /\ engine = "loadpkg" /\ d.engine = "none" /\ d.sent = <<>>
  /\ m.cmd = "Result" /\ m.arg = "ok"

\* It goes on with the synchronisation.
GoesOn(m, d) ==
  /\ d.handled /\ ~d.thrown /\ ~d.reported /\ engine = "sync"
  /\ sync.state \in Answered /\ m.cmd = Awaited[sync.state]
  /\ \E t : /\ Follow(t) /\ d.sync = Interrupt(t) /\ d.sent = Say(Asked[t.state])
            /\ d.engine = IF d.sync.state = "End" THEN "none" ELSE "sync"

Does(m, d) == \/ PassesOn(m, d) \/ GivesUp(m, d) \/ Replies(m, d) \/ LoadsFile(m, d)
              \/ TakesResult(m, d) \/ GoesOn(m, d)

LEMMA BrowseReplies ==
  ASSUME engine = "browse", NEW m \in Message, NEW d \in BrowseDoes(m)
  PROVE  Does(m, d)
<1>1. \/ d = Handles(Say("BrowseReply")) /\ m.cmd = "BrowseQuery"
      \/ d = Throws \/ d = Passes
      \/ d = [Handles(Say("LoadPackage")) EXCEPT !.engine = "none"] /\ m.cmd = "LoadPackageFile"
      \/ d = [Throws EXCEPT !.engine = "loadpkg"]
  BY DEF BrowseDoes
<1>2. CASE d = Handles(Say("BrowseReply")) /\ m.cmd = "BrowseQuery"
  BY <1>2 DEF Handles, Passes, Does, Replies
<1>3. CASE d = Throws \/ d = [Throws EXCEPT !.engine = "loadpkg"]
  BY <1>3 DEF Throws, Passes, Does, GivesUp
<1>4. CASE d = [Handles(Say("LoadPackage")) EXCEPT !.engine = "none"] /\ m.cmd = "LoadPackageFile"
  BY <1>4 DEF Handles, Passes, Does, LoadsFile
<1>5. CASE d = Passes
  BY <1>5 DEF Passes, Does, PassesOn
<1> QED
  BY <1>1, <1>2, <1>3, <1>4, <1>5

LEMMA LoadPkgReplies ==
  ASSUME engine = "loadpkg", NEW m \in Message, NEW d \in LoadPkgDoes(m)
  PROVE  Does(m, d)
<1>1. CASE m.cmd = "Result" /\ m.arg = "ok"
  <2>1. d = [Handles(<<>>) EXCEPT !.engine = "none", !.reported = TRUE]
    BY <1>1 DEF LoadPkgDoes
  <2> QED
    BY <1>1, <2>1 DEF Handles, Passes, Does, TakesResult
<1>2. CASE m.cmd = "Result" /\ m.arg # "ok"
  <2>1. d = Throws
    BY <1>2 DEF LoadPkgDoes
  <2> QED
    BY <1>2, <2>1 DEF Throws, Passes, Does, GivesUp
<1>3. CASE m.cmd # "Result"
  <2>1. d = [Passes EXCEPT !.engine = "none"]
    BY <1>3 DEF LoadPkgDoes
  <2> QED
    BY <1>3, <2>1 DEF Passes, Does, PassesOn
<1> QED
  BY <1>1, <1>2, <1>3

LEMMA SyncReplies ==
  ASSUME engine = "sync", sync \in Sync, InLoops(sync), sync.state \notin {"Uninitialized", "End"},
         NEW m \in Message, NEW d \in SyncDoes(m)
  PROVE  Does(m, d)
<1> DEFINE good == m.cmd = Awaited[sync.state] /\ (m.cmd = "Result" => m.arg = "ok")
           bad  == SyncThrows(sync, m.cmd, m.arg)
<1>t. sync.state \in Answered \cup {"WFPackageIDs", "Interrupted"} /\ sync.state \in States
  BY StatesAre DEF Sync, Answered, Beginning
<1>1. CASE sync.state = "Interrupted"
  <2>1. ~good /\ ~bad
    BY <1>1, Names DEF SyncThrows, Awaited, Message
  <2>2. d = [Passes EXCEPT !.sent = Say("OperationDone")]
    BY <1>1, <2>1 DEF SyncDoes
  <2> QED
    BY <1>1, <2>2 DEF Passes, Does, PassesOn
<1>2. CASE sync.state # "Interrupted" /\ (good \/ bad)
  <2>1. \/ /\ good /\ sync.state # "WFPackageIDs"
           /\ \E t \in SyncTransition(sync, m.arg) : d = SyncHandles(t)
        \/ d = Throws
    BY <1>2 DEF SyncDoes
  <2>2. ASSUME good, sync.state # "WFPackageIDs", NEW t \in SyncTransition(sync, m.arg),
               d = SyncHandles(t)
        PROVE  GoesOn(m, d)
    <3>1. Follow(t)
      BY <1>t, <1>2, <2>2, TransitionFollows
    <3>2. /\ d.handled /\ ~d.thrown /\ ~d.reported /\ d.sync = Interrupt(t)
          /\ d.sent = Say(Asked[t.state])
          /\ d.engine = IF Interrupt(t).state = "End" THEN "none" ELSE "sync"
      BY <2>2 DEF SyncHandles, Handles, Passes
    <3> QED
      BY <1>t, <1>2, <2>2, <3>1, <3>2 DEF GoesOn
  <2>3. CASE d = Throws
    BY <2>3 DEF Throws, Passes, Does, GivesUp
  <2> QED
    BY <2>1, <2>2, <2>3 DEF Does
<1>3. CASE sync.state # "Interrupted" /\ ~good /\ ~bad
  <2>1. d = [Passes EXCEPT !.sync = Interrupt(sync)]
    BY <1>3 DEF SyncDoes
  <2>2. sync.state \in ResultStates => m.cmd # "Result"
    BY <1>t, <1>3 DEF SyncThrows, ResultStates, Awaited
  <2>3. sync.state = "WFAddedID" => m.cmd # "AddedID"
    BY <1>3 DEF Awaited
  <2> QED
    BY <2>1, <2>2, <2>3 DEF Passes, Does, PassesOn
<1> QED
  BY <1>1, <1>2, <1>3

LEMMA EngineReplies ==
  ASSUME engine \in Engines, sync \in Sync, InLoops(sync),
         engine = "sync" => sync.state \notin {"Uninitialized", "End"},
         NEW m \in Message, NEW d \in EngineDoes(m)
  PROVE  Does(m, d)
<1>1. \/ engine = "browse" /\ d \in BrowseDoes(m)
      \/ engine = "loadpkg" /\ d \in LoadPkgDoes(m)
      \/ engine = "sync" /\ d \in SyncDoes(m)
      \/ engine \in {"none", "keyboard"} /\ d = Passes
      \/ d = Throws /\ engine # "loadpkg"
  <2>1. ASSUME NEW x \in LoadPkgDoes(m) PROVE x.sent = <<>>
    BY <2>1 DEF LoadPkgDoes, Handles, Throws, Passes
  <2> QED
    BY <2>1 DEF EngineDoes, Engines
<1>2. CASE engine \in {"none", "keyboard"} /\ d = Passes
  BY <1>2 DEF Passes, Does, PassesOn
<1>3. CASE d = Throws /\ engine # "loadpkg"
  BY <1>3 DEF Throws, Passes, Does, GivesUp
<1> QED
  BY <1>1, <1>2, <1>3, BrowseReplies, LoadPkgReplies, SyncReplies

-----------------------------------------------------------------------------
(* What the Newton answers.                                                *)

ResultCommands == {"WhichIcons", "RequestToInstall", "LoadPackage", "SetCurrentStore",
                   "SetStoreToDefault", "ChangedEntry", "AddEntry"}

LEMMA AnswerIs ==
  ASSUME NEW m \in Message, IsAsked(m)
  PROVE  LET cmd == AnswerTo(m) IN
         /\ cmd \in DockCommands \ {"OperationCanceled"}
         /\ cmd = "Password" <=> AsksPassword(m)
         /\ cmd \in {"Result", "AddedID"} => m.cmd \in ResultCommands \cup {"Disconnect"}
         /\ m.cmd = "LoadPackage" => cmd = "Result"
<1>1. CASE m.cmd = "Result"
  <2>1. m.cmd \notin DOMAIN Answers
    BY <1>1 DEF Answers
  <2>2. m.cmd \notin SyncQuestions
    BY <1>1 DEF SyncQuestions, Asked
  <2>3. m.arg = "retry" /\ AnswerTo(m) = "Password"
    BY <1>1, <2>1, <2>2 DEF IsAsked, AnswerTo
  <2> QED
    BY <1>1, <2>3, Names DEF AsksPassword
<1>2. CASE m.cmd \in SyncQuestions
  <2> DEFINE s == CHOOSE x \in DOMAIN Asked \ {"End"} : Asked[x] = m.cmd
  <2>1. \E x \in DOMAIN Asked \ {"End"} : Asked[x] = m.cmd
    BY <1>2 DEF SyncQuestions
  <2>2. s \in DOMAIN Asked \ {"End"} /\ Asked[s] = m.cmd
    BY <2>1
  <2>3. m.cmd # "Result"
    BY <2>1 DEF Asked
  <2>4. AnswerTo(m) = Awaited[s]
    BY <1>2, <2>3 DEF AnswerTo
  <2> HIDE DEF s
  <2> QED
    <3>1. Awaited[s] \in DockCommands
      BY <2>2, Names
    <3>2. /\ Awaited[s] # "OperationCanceled" /\ Awaited[s] # "Password" /\ m.cmd # "SetTimeout"
          /\ Awaited[s] \in {"Result", "AddedID"} => m.cmd \in ResultCommands
          /\ m.cmd # "LoadPackage"
      BY <2>2 DEF Asked, Awaited, ResultCommands
    <3> QED
      BY <2>3, <2>4, <3>1, <3>2 DEF AsksPassword
<1>3. CASE m.cmd \in DOMAIN Answers
  <2>1. m.cmd \notin SyncQuestions /\ m.cmd # "Result"
    BY <1>3 DEF Answers, SyncQuestions, Asked
  <2>2. AnswerTo(m) = Answers[m.cmd]
    BY <2>1 DEF AnswerTo
  <2> QED
    <3>1. Answers[m.cmd] \in {"NewtonName", "NewtonInfo", "Result", "Password", "StartKeyboard",
                               "OpCanceledAck"}
      BY <1>3 DEF Answers
    <3>2. /\ Answers[m.cmd] = "Password" <=> m.cmd = "SetTimeout"
          /\ Answers[m.cmd] = "Result" => m.cmd \in ResultCommands \cup {"Disconnect"}
          /\ m.cmd = "LoadPackage" => Answers[m.cmd] = "Result"
      BY <1>3 DEF Answers, ResultCommands
    <3> QED
      BY <2>1, <2>2, <3>1, <3>2, Names DEF AsksPassword
<1> QED
  BY <1>1, <1>2, <1>3 DEF IsAsked

LEMMA AnswersAre ==
  ASSUME NEW m \in Message, IsAsked(m), NEW a \in AnswersTo(m)
  PROVE  /\ a \in Message /\ a.cmd # "OperationCanceled"
         /\ a.cmd = "Password" <=> AsksPassword(m)
         /\ a.cmd = "Password" => a.arg \in {"right", "wrong"}
         /\ a.cmd \in {"Result", "AddedID"} => m.cmd \in ResultCommands \cup {"Disconnect"}
         /\ m.cmd = "LoadPackage" => a.cmd = "Result"
<1>1. CASE \E x \in Arguments(AnswerTo(m)) : a = Msg(AnswerTo(m), x)
  <2>1. PICK x \in Arguments(AnswerTo(m)) : a = Msg(AnswerTo(m), x)
    BY <1>1
  <2>2. x \in {"-", "ok", "error", "nil", "right", "wrong"} /\ (AnswerTo(m) = "Password" => x \in {"right", "wrong"})
    <3>1. CASE AnswerTo(m) = "Password"
      <4>1. Arguments(AnswerTo(m)) = {"right", "wrong"}
        BY <3>1 DEF Arguments
      <4> QED
        BY <4>1
    <3>2. CASE AnswerTo(m) # "Password"
      <4>1. Arguments(AnswerTo(m)) \in {{"ok", "error"}, {"ok", "nil"}, {"-"}}
        BY <3>2 DEF Arguments
      <4> QED
        BY <3>2, <4>1
    <3> QED
      BY <3>1, <3>2
  <2>3. a.cmd = AnswerTo(m) /\ a.arg = x /\ (AnswerTo(m) \in DockCommands => a \in Message)
    BY <2>1, <2>2 DEF Msg, Message
  <2>4. AnswerTo(m) \in DockCommands \ {"OperationCanceled"}
    BY AnswerIs
  <2> QED
    BY <2>2, <2>3, <2>4, AnswerIs
<1>2. CASE m.cmd = "AddEntry" /\ a = Msg("Result", "error")
  <2>1. a.cmd = "Result" /\ a.arg = "error" /\ a \in Message
    BY <1>2, Names DEF Msg, Message
  <2> QED
    BY <1>2, <2>1 DEF ResultCommands, AsksPassword
<1> QED
  BY <1>1, <1>2 DEF AnswersTo

-----------------------------------------------------------------------------
(* Queues.                                                                 *)

LEMMA Joined ==
  ASSUME NEW q \in Seq(Message), NEW w \in Seq(Message)
  PROVE  /\ q \o w \in Seq(Message) /\ DOMAIN (q \o w) = 1..Len(q) + Len(w)
         /\ DOMAIN q = 1..Len(q) /\ DOMAIN w = 1..Len(w) /\ Len(q) \in Nat /\ Len(w) \in Nat
         /\ \A i \in 1..Len(q) : (q \o w)[i] = q[i]
         /\ \A i \in 1..Len(w) : (q \o w)[Len(q) + i] = w[i]
OBVIOUS

LEMMA Taken ==
  ASSUME NEW q \in Seq(Message), q # <<>>
  PROVE  /\ Tail(q) \in Seq(Message) /\ Head(q) \in Message /\ Head(q) = q[1]
         /\ DOMAIN q = 1..Len(q) /\ DOMAIN Tail(q) = 1..Len(q) - 1 /\ Len(q) \in Nat \ {0}
         /\ \A i \in 1..Len(q) - 1 : Tail(q)[i] = q[i + 1]
OBVIOUS

LEMMA Added ==
  ASSUME NEW q \in Seq(Message), NEW m \in Message
  PROVE  /\ Append(q, m) \in Seq(Message) /\ DOMAIN Append(q, m) = 1..Len(q) + 1
         /\ DOMAIN q = 1..Len(q) /\ Len(q) \in Nat
         /\ \A i \in 1..Len(q) : Append(q, m)[i] = q[i]
         /\ Append(q, m)[Len(q) + 1] = m
OBVIOUS

LEMMA SayIs ==
  ASSUME NEW cmd \in DockCommands
  PROVE  /\ Say(cmd) \in Seq(Message) /\ Len(Say(cmd)) = 1
         /\ Say(cmd)[1].cmd = cmd /\ Say(cmd)[1].arg = "-"
<1>1. Msg(cmd, "-") \in Message /\ Msg(cmd, "-").cmd = cmd /\ Msg(cmd, "-").arg = "-"
  BY DEF Msg, Message
<1> HIDE DEF Msg
<1> QED
  BY <1>1 DEF Say

LEMMA ResultIs ==
  ASSUME NEW r \in {"ok", "error", "retry", "bad"}
  PROVE  /\ Result(r) \in Seq(Message) /\ Len(Result(r)) = 1
         /\ Result(r)[1].cmd = "Result" /\ Result(r)[1].arg = r
<1>1. Msg("Result", r) \in Message /\ Msg("Result", r).cmd = "Result" /\ Msg("Result", r).arg = r
  BY Names DEF Msg, Message
<1> HIDE DEF Msg
<1> QED
  BY <1>1 DEF Result

-----------------------------------------------------------------------------
(* What the link does with a message while it is running.                  *)

\* The engine throws.
ServedThrows(m, what) ==
  /\ engine = "loadpkg" => m.cmd = "Result"
  /\ what = <<>> /\ UNCHANGED <<pc, sync, interrupted, confirmed, stray>>
  /\ engine' = engine \/ (engine = "browse" /\ engine' = "loadpkg")
  /\ lost' = (lost \/ engine # "loadpkg")

\* The engine for browsing answers, or sends the package of a file.
ServedReply(m, what) ==
  /\ m.cmd = "BrowseQuery" /\ what = Say("BrowseReply") /\ engine = "browse"
  /\ UNCHANGED <<pc, engine, sync, interrupted, reports>>

ServedFile(m, what) ==
  /\ m.cmd = "LoadPackageFile" /\ what = Say("LoadPackage") /\ engine = "browse" /\ engine' = "none"
  /\ stray' \in BOOLEAN /\ stray' /\ UNCHANGED <<pc, sync, interrupted, confirmed, lost>>

\* The engine for packages takes the result it waited for.
ServedResult(m, what) ==
  /\ what = <<>> /\ engine = "loadpkg" /\ engine' = "none"
  /\ m.cmd = "Result" /\ m.arg = "ok" /\ confirmed' = confirmed + 1
  /\ UNCHANGED <<pc, sync, interrupted, stray, lost>>

\* The synchronisation goes on.
ServedSync(m, what) ==
  /\ engine = "sync" /\ sync.state \in Answered /\ m.cmd = Awaited[sync.state]
  /\ \E t : Follow(t) /\ sync' = Interrupt(t) /\ what = Say(Asked[t.state])
  /\ engine' = IF sync'.state = "End" THEN "none" ELSE "sync"
  /\ UNCHANGED <<pc, interrupted, reports>>

\* No engine keeps the message, ...
Unserved(m) ==
  /\ engine = "loadpkg" => m.cmd # "Result"
  /\ engine = "sync" /\ sync.state \in ResultStates \ {"Interrupted"} => m.cmd # "Result"
  /\ engine = "sync" /\ sync.state = "WFAddedID" => m.cmd # "AddedID"

\* ... the Newton hangs up or says hello, ...
ServedHello(m, what) ==
  /\ m.cmd \in {"Disconnect", "Hello"} /\ Unserved(m)
  /\ pc' = IF m.cmd = "Disconnect" THEN "over" ELSE pc
  /\ engine' = IF engine = "loadpkg" THEN "none" ELSE engine
  /\ sync' \in {sync, Interrupt(sync)} /\ what \in {<<>>, Say("OperationDone")}
  /\ stray' = (stray \/ engine = "loadpkg") /\ UNCHANGED <<interrupted, confirmed, lost>>

\* ... or the link serves it.
ServedByLink(m, what) ==
  /\ m.cmd \notin {"Disconnect", "Hello"} /\ Unserved(m)
  /\ engine' = LinkServes(m).engine
  /\ \E w \in {<<>>, Say("OperationDone")} : what = w \o LinkServes(m).sent
  /\ \/ engine' = "sync" /\ sync' = StartSynchronizing
     \/ engine' # "sync" /\ engine = "sync" /\ sync' = NoSync
     \/ engine' # "sync" /\ engine # "sync" /\ UNCHANGED sync
  /\ interrupted' \in BOOLEAN
  /\ pc' = pc \/ (gone /\ pc' = "over")
  /\ stray' = (stray \/ engine = "loadpkg" \/ SyncGivesUp(m))
  /\ UNCHANGED <<confirmed, lost>>

Served(m, what) ==
  \/ ServedThrows(m, what) \/ ServedReply(m, what) \/ ServedFile(m, what) \/ ServedResult(m, what)
  \/ ServedSync(m, what) \/ ServedHello(m, what) \/ ServedByLink(m, what)

\* What the link answers, and the engine it makes current.
LEMMA LinkServesIs ==
  ASSUME NEW m \in Message, kit \in Kits
  PROVE  /\ LinkServes(m).engine \in {"none", "browse", "keyboard", "sync"}
         /\ LinkServes(m).engine \in {"keyboard", "sync"} => LinkServes(m).engine \in kit.engines
         /\ LinkServes(m).sent \in Seq(Message) /\ Len(LinkServes(m).sent) <= 1
         /\ \A i \in 1..Len(LinkServes(m).sent) :
              /\ LinkServes(m).sent[i].cmd \in {"Result", "GetSyncOptions", "OpCanceledAck",
                                                "UnknownCommand"}
              /\ LinkServes(m).sent[i].arg # "retry"
              /\ LinkServes(m).sent[i].cmd = "OpCanceledAck" => m.cmd = "OperationCanceled"
         /\ m.cmd = "OperationCanceled" =>
              /\ LinkServes(m).engine = "none" /\ LinkServes(m).sent = Say("OpCanceledAck")
<1>1. DOMAIN Wanted = {"RequestToBrowse", "StartKeyboard", "Synchronize"}
  BY DEF Wanted
<1>2. \A c \in DOMAIN Wanted : Wanted[c] \in {"browse", "keyboard", "sync"}
  BY DEF Wanted
<1>3. ASSUME NEW e \in {"browse", "keyboard", "sync"}
      PROVE  Opening[e] \in {<<>>, Result("ok"), Say("GetSyncOptions")}
  BY DEF Opening
<1>4. CASE m.cmd \in DOMAIN Wanted /\ Wanted[m.cmd] \in kit.handles
  <2>1. \/ /\ Wanted[m.cmd] \in kit.engines \cup {"browse"}
           /\ LinkServes(m) = [engine |-> Wanted[m.cmd], sent |-> Opening[Wanted[m.cmd]]]
        \/ LinkServes(m) = [engine |-> "none", sent |-> Result("error")]
    BY <1>4 DEF LinkServes
  <2>2. /\ LinkServes(m).engine \in {"none", "browse", "keyboard", "sync"}
        /\ LinkServes(m).engine \in {"keyboard", "sync"} => LinkServes(m).engine \in kit.engines
        /\ LinkServes(m).sent \in {<<>>, Result("ok"), Result("error"), Say("GetSyncOptions")}
    BY <1>2, <1>3, <1>4, <2>1
  <2>3. \A w \in {<<>>, Result("ok"), Result("error"), Say("GetSyncOptions")} :
          /\ w \in Seq(Message) /\ Len(w) <= 1
          /\ \A i \in 1..Len(w) :
               w[i].cmd \in {"Result", "GetSyncOptions"} /\ w[i].arg \in {"-", "ok", "error"}
    <3>1. "GetSyncOptions" \in DockCommands
      BY Names
    <3>2. LET w == Say("GetSyncOptions") IN
            w \in Seq(Message) /\ Len(w) = 1 /\ w[1].cmd = "GetSyncOptions" /\ w[1].arg = "-"
      BY <3>1, SayIs
    <3>3. ASSUME NEW r \in {"ok", "error"}
          PROVE  LET w == Result(r) IN
                 w \in Seq(Message) /\ Len(w) = 1 /\ w[1].cmd = "Result" /\ w[1].arg = r
      BY ResultIs
    <3>4. <<>> \in Seq(Message) /\ Len(<<>>) = 0
      OBVIOUS
    <3>5. 1..0 = {} /\ 1..1 = {1}
      OBVIOUS
    <3> HIDE DEF Result, Say
    <3>6. CASE TRUE
      <4> TAKE w \in {<<>>, Result("ok"), Result("error"), Say("GetSyncOptions")}
      <4>1. CASE w = <<>>
        BY <3>4, <3>5, <4>1
      <4>2. CASE w # <<>>
        <5>1. /\ w \in Seq(Message) /\ Len(w) = 1 /\ w[1].cmd \in {"Result", "GetSyncOptions"}
              /\ w[1].arg \in {"-", "ok", "error"}
          BY <3>2, <3>3, <4>2
        <5> QED
          BY <3>5, <5>1
      <4> QED
        BY <4>1, <4>2
    <3> QED
      BY <3>6
  <2>5. m.cmd # "OperationCanceled"
    BY <1>1, <1>4
  <2> QED
    BY <2>2, <2>3, <2>5
<1>5. CASE ~(m.cmd \in DOMAIN Wanted /\ Wanted[m.cmd] \in kit.handles)
  <2>1. /\ LinkServes(m).engine = "none"
        /\ LinkServes(m).sent = CASE m.cmd = "OperationCanceled" -> Say("OpCanceledAck")
                                   [] m.cmd = "OpCanceledAck" -> <<>>
                                   [] OTHER -> <<Msg("UnknownCommand", m.cmd)>>
    BY <1>5 DEF LinkServes
  <2>2. CASE m.cmd = "OperationCanceled"
    <3>1. LinkServes(m).sent = Say("OpCanceledAck")
      BY <2>1, <2>2
    <3> DEFINE w == Say("OpCanceledAck")
    <3>2. w \in Seq(Message) /\ Len(w) = 1 /\ w[1].cmd = "OpCanceledAck" /\ w[1].arg = "-"
      BY SayIs, Names
    <3>3. 1..1 = {1}
      OBVIOUS
    <3>4. LinkServes(m).sent = w
      BY <3>1
    <3> HIDE DEF w
    <3> QED
      BY <2>1, <2>2, <3>1, <3>2, <3>3, <3>4
  <2>3. CASE m.cmd = "OpCanceledAck"
    BY <2>1, <2>3
  <2>4. CASE m.cmd \notin {"OperationCanceled", "OpCanceledAck"}
    <3> DEFINE u == Msg("UnknownCommand", m.cmd)
    <3>1. LinkServes(m).sent = <<u>>
      BY <2>1, <2>4
    <3>2. u \in Message /\ u.cmd = "UnknownCommand" /\ u.arg = m.cmd
      BY Names DEF Msg, Message
    <3>3. m.cmd # "retry"
      BY DEF Message, DockCommands, Asked, Awaited
    <3> HIDE DEF u
    <3> QED
      BY <2>1, <2>4, <3>1, <3>2, <3>3
  <2> QED
    BY <2>2, <2>3, <2>4
<1> QED
  BY <1>4, <1>5

LEMMA Serving ==
  ASSUME kit \in Kits, engine \in Engines, sync \in Sync, InLoops(sync),
         engine = "sync" => sync.state \notin {"Uninitialized", "End"},
         confirmed \in Nat, stray \in BOOLEAN, lost \in BOOLEAN,
         fromNewton \in Seq(Message), fromNewton # <<>>, ServeData
  PROVE  \E what \in Seq(Message) : Send(what) /\ Served(Head(fromNewton), what)
<1> DEFINE m == Head(fromNewton)
<1>m. m \in Message
  BY Taken
<1>1. PICK d \in EngineDoes(m) : EngineServes(d) \/ DockLinkServes(m, d) \/ FullLinkServes(m, d)
  BY DEF ServeData
<1>2. Does(m, d)
  BY <1>m, <1>1, EngineReplies
<1> HIDE DEF m
<1>s. /\ <<>> \in Seq(Message)
      /\ \A c \in {"BrowseReply", "LoadPackage", "OperationDone"} : Say(c) \in Seq(Message)
      /\ \A x \in DOMAIN Asked : Say(Asked[x]) \in Seq(Message)
  <2>1. \A c \in DockCommands : Say(c) \in Seq(Message)
    BY SayIs
  <2>2. \A c \in {"BrowseReply", "LoadPackage", "OperationDone"} : c \in DockCommands
    BY Names
  <2>3. \A x \in DOMAIN Asked : Asked[x] \in DockCommands
    BY Names
  <2> HIDE DEF Say
  <2> QED
    BY <2>1, <2>2, <2>3
<1> HIDE DEF Say
<1>3. CASE EngineServes(d)
  <2>0. /\ engine' = d.engine /\ sync' = d.sync /\ Send(d.sent) /\ UNCHANGED <<pc, interrupted>>
        /\ confirmed' = confirmed + (IF d.reported THEN 1 ELSE 0)
        /\ stray' = (stray \/ (d.handled /\ engine = "browse" /\ d.engine = "none"))
        /\ lost' = (lost \/ (d.thrown /\ engine # "loadpkg"))
        /\ d.handled \/ d.thrown
    BY <1>3 DEF EngineServes
  <2>1. CASE GivesUp(m, d)
    <3>1. /\ d.thrown /\ ~d.handled /\ ~d.reported /\ d.sent = <<>> /\ d.sync = sync
          /\ engine = "loadpkg" => m.cmd = "Result"
          /\ d.engine = engine \/ (engine = "browse" /\ d.engine = "loadpkg")
      BY <2>1 DEF GivesUp
    <3>2. ServedThrows(m, d.sent)
      BY <2>0, <3>1 DEF ServedThrows
    <3> QED
      BY <1>s, <2>0, <3>1, <3>2 DEF Served, m
  <2>2. CASE Replies(m, d)
    <3>1. /\ d.handled /\ ~d.thrown /\ ~d.reported /\ d.sync = sync /\ m.cmd = "BrowseQuery"
          /\ engine = "browse" /\ d.engine = "browse" /\ d.sent = Say("BrowseReply")
      BY <2>2 DEF Replies
    <3>2. ServedReply(m, d.sent)
      BY <2>0, <3>1 DEF ServedReply, reports
    <3> QED
      BY <1>s, <2>0, <3>1, <3>2 DEF Served, m
  <2>3. CASE LoadsFile(m, d)
    <3>1. /\ d.handled /\ ~d.thrown /\ ~d.reported /\ d.sync = sync /\ m.cmd = "LoadPackageFile"
          /\ engine = "browse" /\ d.engine = "none" /\ d.sent = Say("LoadPackage")
      BY <2>3 DEF LoadsFile
    <3>2. stray' \in BOOLEAN /\ stray'
      BY <2>0, <3>1
    <3>3. confirmed' = confirmed
      BY <2>0, <3>1
    <3>4. lost' = lost
      BY <2>0, <3>1
    <3>5. ServedFile(m, d.sent)
      BY <2>0, <3>1, <3>2, <3>3, <3>4 DEF ServedFile
    <3> QED
      BY <1>s, <2>0, <3>1, <3>5 DEF Served, m
  <2>4. CASE TakesResult(m, d)
    <3>1. /\ d.handled /\ ~d.thrown /\ d.reported /\ d.sync = sync
          /\ engine = "loadpkg" /\ d.engine = "none" /\ d.sent = <<>>
          /\ m.cmd = "Result" /\ m.arg = "ok"
      BY <2>4 DEF TakesResult
    <3>2. ServedResult(m, d.sent)
      BY <2>0, <3>1 DEF ServedResult
    <3> QED
      BY <1>s, <2>0, <3>1, <3>2 DEF Served, m
  <2>5. CASE GoesOn(m, d)
    <3>1. /\ d.handled /\ ~d.thrown /\ ~d.reported /\ engine = "sync"
          /\ sync.state \in Answered /\ m.cmd = Awaited[sync.state]
      BY <2>5 DEF GoesOn
    <3>2. PICK t : /\ Follow(t) /\ d.sync = Interrupt(t) /\ d.sent = Say(Asked[t.state])
                   /\ d.engine = IF d.sync.state = "End" THEN "none" ELSE "sync"
      BY <2>5 DEF GoesOn
    <3>3. t.state \in DOMAIN Asked
      BY <3>2, StatesAre DEF Follow, Sync, Asked, Beginning, AtSoups, InSoup
    <3>4. UNCHANGED reports
      BY <2>0, <3>1 DEF reports
    <3>5. ServedSync(m, d.sent)
      BY <2>0, <3>1, <3>2, <3>4 DEF ServedSync
    <3> QED
      BY <1>s, <2>0, <3>2, <3>3, <3>5 DEF Served, m
  <2>6. CASE PassesOn(m, d)
    BY <2>0, <2>6 DEF PassesOn
  <2> QED
    BY <1>2, <2>1, <2>2, <2>3, <2>4, <2>5, <2>6 DEF Does
<1>4. CASE ~d.handled /\ ~d.thrown /\ (DockLinkServes(m, d) \/ FullLinkServes(m, d))
  <2>1. /\ d.sync \in {sync, Interrupt(sync)} /\ Unserved(m)
        /\ d.engine = IF engine = "loadpkg" THEN "none" ELSE engine
        /\ d.sent \in {<<>>, Say("OperationDone")}
    BY <1>2, <1>4 DEF Does, PassesOn, GivesUp, Replies, LoadsFile, TakesResult, GoesOn, Unserved
  <2>2. CASE DockLinkServes(m, d)
    <3>1. /\ m.cmd \in {"Disconnect", "Hello"}
          /\ pc' = (IF m.cmd = "Disconnect" THEN "over" ELSE pc)
          /\ engine' = d.engine /\ sync' = d.sync /\ Send(d.sent)
          /\ stray' = (stray \/ (engine = "loadpkg" /\ d.engine = "none"))
          /\ UNCHANGED <<interrupted, confirmed, lost>>
      BY <2>2 DEF DockLinkServes
    <3>2. ServedHello(m, d.sent)
      BY <2>1, <3>1 DEF ServedHello
    <3> QED
      BY <1>s, <2>1, <3>1, <3>2 DEF Served, m
  <2>3. CASE FullLinkServes(m, d)
    <3> DEFINE r == LinkServes(m)
    <3>1. /\ m.cmd \notin {"Disconnect", "Hello"} /\ engine' = r.engine /\ Send(d.sent \o r.sent)
          /\ sync' = CASE r.engine = "sync" -> StartSynchronizing
                       [] engine = "sync" /\ r.engine # "sync" -> NoSync
                       [] OTHER -> sync
          /\ interrupted' = (interrupted /\ r.engine # "sync")
          /\ pc' = pc \/ (gone /\ pc' = "over")
          /\ stray' = (stray \/ engine = "loadpkg" \/ SyncGivesUp(m))
          /\ UNCHANGED <<confirmed, lost>>
      BY <2>3 DEF FullLinkServes
    <3>a. d.sent \in Seq(Message) /\ r.sent \in Seq(Message)
      BY <1>m, <1>s, <2>1, LinkServesIs
    <3>2. d.sent \o r.sent \in Seq(Message)
      BY <3>a
    <3>b. interrupted' \in BOOLEAN
      BY <3>1
    <3>3. \/ engine' = "sync" /\ sync' = StartSynchronizing
          \/ engine' # "sync" /\ engine = "sync" /\ sync' = NoSync
          \/ engine' # "sync" /\ engine # "sync" /\ UNCHANGED sync
      BY <3>1
    <3>4. ServedByLink(m, d.sent \o r.sent)
      BY <2>1, <3>1, <3>3, <3>b DEF ServedByLink
    <3> HIDE DEF r
    <3> QED
      BY <3>1, <3>2, <3>4 DEF Served, m
  <2> QED
    BY <1>4, <2>2, <2>3
<1> QED
  BY <1>1, <1>3, <1>4 DEF DockLinkServes, FullLinkServes

-----------------------------------------------------------------------------
(* Where messages are, before and after a step.                            *)

Of(q, M) == {i \in DOMAIN q : q[i] \in M}

LEMMA AtIs ==
  ASSUME NEW q \in Seq(Message), NEW S
  PROVE  At(q, S) = Of(q, {m \in Message : m.cmd \in S})
BY DEF At, Of

LEMMA TakenOf ==
  ASSUME NEW q \in Seq(Message), q # <<>>, NEW M
  PROVE  /\ Of(q, M) \subseteq Nat \ {0} /\ Of(Tail(q), M) \subseteq Nat \ {0}
         /\ \A i \in Of(Tail(q), M) : i + 1 \in Of(q, M)
         /\ \A i \in Of(q, M) : i = 1 \/ i - 1 \in Of(Tail(q), M)
         /\ 1 \in Of(q, M) <=> Head(q) \in M
BY Taken DEF Of

LEMMA JoinedOf ==
  ASSUME NEW q \in Seq(Message), NEW w \in Seq(Message), NEW M
  PROVE  /\ Of(q \o w, M) \subseteq Nat \ {0} /\ Of(q, M) \subseteq Nat \ {0}
         /\ \A i \in Of(q, M) : i \in Of(q \o w, M) /\ i <= Len(q)
         /\ \A i \in Of(q \o w, M) : i \in Of(q, M) \/ \E k \in Of(w, M) : i = Len(q) + k
         /\ \A k \in Of(w, M) : Len(q) + k \in Of(q \o w, M) /\ k > 0
BY Joined DEF Of

\* The link takes d messages of the Newton and sends what it has to say.
LinkActs(d, what) ==
  /\ d \in {0, 1} /\ what \in Seq(Message) /\ Send(what) /\ UNCHANGED newtonVars
  /\ \/ d = 0 /\ UNCHANGED fromNewton
     \/ d = 1 /\ fromNewton # <<>> /\ fromNewton' = Tail(fromNewton)

LEMMA LinkActsOf ==
  ASSUME toNewton \in Seq(Message), fromNewton \in Seq(Message),
         NEW d, NEW what, LinkActs(d, what), NEW M
  PROVE  /\ toNewton' \in Seq(Message) /\ fromNewton' \in Seq(Message) /\ Len(toNewton) \in Nat
         /\ Of(toNewton, M) \subseteq Nat \ {0} /\ Of(fromNewton, M) \subseteq Nat \ {0}
         /\ Of(toNewton', M) \subseteq Nat \ {0} /\ Of(fromNewton', M) \subseteq Nat \ {0}
         /\ Of(what, M) \subseteq Nat \ {0}
         /\ \A i \in Of(fromNewton', M) : i + d \in Of(fromNewton, M)
         /\ \A i \in Of(fromNewton, M) : i = d \/ i - d \in Of(fromNewton', M)
         /\ d = 1 => (1 \in Of(fromNewton, M) <=> Head(fromNewton) \in M)
         /\ \A i \in Of(toNewton, M) : i \in Of(toNewton', M) /\ i <= Len(toNewton)
         /\ \A i \in Of(toNewton', M) :
              i \in Of(toNewton, M) \/ (~gone /\ \E k \in Of(what, M) : i = Len(toNewton) + k)
         /\ gone => toNewton' = toNewton
         /\ ~gone => \A k \in Of(what, M) : Len(toNewton) + k \in Of(toNewton', M) /\ k > 0
<1>1. d \in {0, 1} /\ what \in Seq(Message) /\ Send(what)
  BY DEF LinkActs
<1>2. /\ fromNewton' \in Seq(Message)
      /\ Of(fromNewton, M) \subseteq Nat \ {0} /\ Of(fromNewton', M) \subseteq Nat \ {0}
      /\ \A i \in Of(fromNewton', M) : i + d \in Of(fromNewton, M)
      /\ \A i \in Of(fromNewton, M) : i = d \/ i - d \in Of(fromNewton', M)
      /\ d = 1 => (1 \in Of(fromNewton, M) <=> Head(fromNewton) \in M)
  <2>1. CASE d = 0 /\ UNCHANGED fromNewton
    <3>1. Of(fromNewton, M) \subseteq Nat \ {0}
      BY DEF Of
    <3> QED
      BY <2>1, <3>1
  <2>2. CASE d = 1 /\ fromNewton # <<>> /\ fromNewton' = Tail(fromNewton)
    <3>1. Tail(fromNewton) \in Seq(Message)
      BY <2>2
    <3> QED
      BY <2>2, <3>1, TakenOf
  <2> QED
    BY <2>1, <2>2 DEF LinkActs
<1>3. CASE gone
  <2>1. toNewton' = toNewton
    BY <1>1, <1>3 DEF Send
  <2>2. /\ Of(toNewton, M) \subseteq Nat \ {0} /\ Of(what, M) \subseteq Nat \ {0}
        /\ Len(toNewton) \in Nat /\ \A i \in Of(toNewton, M) : i <= Len(toNewton)
    BY <1>1 DEF Of
  <2> QED
    BY <1>2, <1>3, <2>1, <2>2
<1>4. CASE ~gone
  <2>1. toNewton' = toNewton \o what
    BY <1>1, <1>4 DEF Send
  <2>2. Of(what, M) \subseteq Nat \ {0} /\ Len(toNewton) \in Nat /\ toNewton \o what \in Seq(Message)
    BY <1>1 DEF Of
  <2> QED
    BY <1>1, <1>2, <1>4, <2>1, <2>2, JoinedOf
<1> QED
  BY <1>3, <1>4

LEMMA LinkActsAt ==
  ASSUME toNewton \in Seq(Message), fromNewton \in Seq(Message),
         NEW d, NEW what, LinkActs(d, what), NEW S
  PROVE  /\ toNewton' \in Seq(Message) /\ fromNewton' \in Seq(Message) /\ Len(toNewton) \in Nat
         /\ At(toNewton, S) \subseteq Nat \ {0} /\ At(fromNewton, S) \subseteq Nat \ {0}
         /\ At(toNewton', S) \subseteq Nat \ {0} /\ At(fromNewton', S) \subseteq Nat \ {0}
         /\ At(what, S) \subseteq Nat \ {0}
         /\ \A i \in At(fromNewton', S) : i + d \in At(fromNewton, S)
         /\ \A i \in At(fromNewton, S) : i = d \/ i - d \in At(fromNewton', S)
         /\ d = 1 => (1 \in At(fromNewton, S) <=> Head(fromNewton).cmd \in S)
         /\ \A i \in At(toNewton, S) : i \in At(toNewton', S) /\ i <= Len(toNewton)
         /\ \A i \in At(toNewton', S) :
              i \in At(toNewton, S) \/ (~gone /\ \E k \in At(what, S) : i = Len(toNewton) + k)
         /\ gone => toNewton' = toNewton
         /\ ~gone => \A k \in At(what, S) : Len(toNewton) + k \in At(toNewton', S) /\ k > 0
<1> DEFINE M == {m \in Message : m.cmd \in S}
<1>1. /\ toNewton' \in Seq(Message) /\ fromNewton' \in Seq(Message) /\ what \in Seq(Message)
      /\ d = 1 => Head(fromNewton) \in Message
  <2>1. /\ toNewton' \in Seq(Message) /\ fromNewton' \in Seq(Message)
        /\ Of(toNewton, M) \subseteq Nat \ {0}
    <3> HIDE DEF M
    <3> QED
      BY LinkActsOf
  <2>2. what \in Seq(Message) /\ (d = 1 => fromNewton # <<>>)
    BY DEF LinkActs
  <2> QED
    BY <2>1, <2>2, Taken
<1>2. /\ At(toNewton, S) = Of(toNewton, M) /\ At(fromNewton, S) = Of(fromNewton, M)
      /\ At(toNewton', S) = Of(toNewton', M) /\ At(fromNewton', S) = Of(fromNewton', M)
      /\ At(what, S) = Of(what, M)
  BY <1>1, AtIs
<1>3. d = 1 => (Head(fromNewton) \in M <=> Head(fromNewton).cmd \in S)
  BY <1>1
<1> HIDE DEF M
<1> QED
  BY <1>2, <1>3, LinkActsOf

LEMMA TakenAt ==
  ASSUME NEW q \in Seq(Message), q # <<>>, NEW S
  PROVE  /\ At(q, S) \subseteq Nat \ {0} /\ At(Tail(q), S) \subseteq Nat \ {0}
         /\ \A i \in At(Tail(q), S) : i + 1 \in At(q, S)
         /\ \A i \in At(q, S) : i = 1 \/ i - 1 \in At(Tail(q), S)
         /\ 1 \in At(q, S) <=> Head(q).cmd \in S
BY Taken DEF At

LEMMA AddedAt ==
  ASSUME NEW q \in Seq(Message), NEW m \in Message, NEW S
  PROVE  /\ At(Append(q, m), S) \subseteq Nat \ {0} /\ At(q, S) \subseteq Nat \ {0}
         /\ \A i \in At(q, S) : i \in At(Append(q, m), S) /\ i <= Len(q)
         /\ \A i \in At(Append(q, m), S) : i \in At(q, S) \/ (i = Len(q) + 1 /\ m.cmd \in S)
         /\ m.cmd \in S => Len(q) + 1 \in At(Append(q, m), S)
BY Added DEF At

\* Nothing is asked, and nothing answered: the link takes d messages, or the
\* Newton one.
LEMMA StillOne ==
  ASSUME NEW there, NEW back, AtMostOne(there, back), NEW there2, NEW back2 \in SUBSET Nat,
         NEW d \in {0, 1}, \A i \in there2 : i \in there, \A i \in back2 : i + d \in back
  PROVE  AtMostOne(there2, back2)
<1>1. ASSUME NEW i \in back2, NEW j \in back2 PROVE i = j
  <2>1. i + d = j + d
    BY DEF AtMostOne
  <2> QED
    BY <2>1
<1> QED
  BY <1>1 DEF AtMostOne

LEMMA StillOneRead ==
  ASSUME NEW there, NEW back, AtMostOne(there, back), NEW there2 \in SUBSET Nat, NEW back2,
         \A i \in there2 : i + 1 \in there, \A i \in back2 : i \in back
  PROVE  AtMostOne(there2, back2)
<1>1. ASSUME NEW i \in there2, NEW j \in there2 PROVE i = j
  <2>1. i + 1 = j + 1
    BY DEF AtMostOne
  <2> QED
    BY <2>1
<1> QED
  BY <1>1 DEF AtMostOne

-----------------------------------------------------------------------------
(* What a step of the link may do.                                         *)

Stops  == {"goodbye"} \cup Ended
Queries == {m \in Message : AsksPassword(m)}
First(cmds) == Head(fromNewton).cmd \in cmds

\* It acknowledges what is cancelled and nothing else.
Acknowledges(d, what) ==
  /\ lost => lost'
  /\ pc' \notin Stops =>
       /\ pc \notin Stops /\ At(what, {"Disconnect"}) = {}
       /\ \A k \in At(what, {"OpCanceledAck"}) : d = 1 /\ First({"OperationCanceled"})
       /\ \A k, l \in At(what, {"OpCanceledAck"}) : k = l
       /\ d = 1 /\ First({"OperationCanceled"}) => lost' \/ At(what, {"OpCanceledAck"}) # {}

LEMMA CancelsByLink ==
  ASSUME toNewton \in Seq(Message), fromNewton \in Seq(Message), OneCancel,
         NEW d, NEW what, LinkActs(d, what), Acknowledges(d, what)
  PROVE  OneCancel'
<1> DEFINE D(q) == At(q, {"Disconnect"})
           A(q) == At(q, {"OpCanceledAck"})
           C(q) == At(q, {"OperationCanceled"})
           R(q) == At(q, {"Result", "AddedID"})
<1>1. /\ d \in {0, 1} /\ waiting' = waiting /\ gone' = gone
      /\ gone => toNewton' = toNewton
  BY LinkActsAt DEF LinkActs, newtonVars
<1>2. gone' => toNewton' = <<>> /\ waiting' = "none"
  BY <1>1 DEF OneCancel
<1>3. ASSUME pc' \notin Stops
      PROVE  /\ D(toNewton') = {}
             /\ AtMostOne(A(toNewton'), C(fromNewton'))
             /\ A(toNewton') # {} => waiting' = "OperationCanceled"
             /\ C(fromNewton') # {} => waiting' = "OperationCanceled" \/ gone'
             /\ waiting' = "OperationCanceled" => A(toNewton') \cup C(fromNewton') # {} \/ lost'
             /\ \A i \in C(fromNewton'), j \in R(fromNewton') : j < i
  <2>1. /\ D(toNewton) = {} /\ AtMostOne(A(toNewton), C(fromNewton))
        /\ A(toNewton) # {} => waiting = "OperationCanceled"
        /\ C(fromNewton) # {} => waiting = "OperationCanceled" \/ gone
        /\ waiting = "OperationCanceled" => A(toNewton) \cup C(fromNewton) # {} \/ lost
        /\ \A i \in C(fromNewton), j \in R(fromNewton) : j < i
    BY <1>3 DEF OneCancel, Acknowledges, Stops, Acks, Cancels, Results
  <2>2. /\ At(what, {"Disconnect"}) = {} /\ (lost => lost')
        /\ \A k \in A(what) : d = 1 /\ First({"OperationCanceled"})
        /\ \A k, l \in A(what) : k = l
        /\ d = 1 /\ First({"OperationCanceled"}) => lost' \/ A(what) # {}
    BY <1>3 DEF Acknowledges
  <2>3. D(toNewton') = {}
    BY <2>1, <2>2, LinkActsAt
  <2>4. /\ A(toNewton) \subseteq Nat \ {0} /\ A(toNewton') \subseteq Nat \ {0} /\ A(what) \subseteq Nat \ {0}
        /\ \A i \in A(toNewton) : i \in A(toNewton')
        /\ \A i \in A(toNewton') :
             i \in A(toNewton) \/ (~gone /\ \E k \in A(what) : i = Len(toNewton) + k)
        /\ ~gone => \A k \in A(what) : Len(toNewton) + k \in A(toNewton')
        /\ Len(toNewton) \in Nat
    BY LinkActsAt
  <2>5. /\ C(fromNewton) \subseteq Nat \ {0} /\ C(fromNewton') \subseteq Nat \ {0}
        /\ \A i \in C(fromNewton') : i + d \in C(fromNewton)
        /\ \A i \in C(fromNewton) : i = d \/ i - d \in C(fromNewton')
        /\ d = 1 => (1 \in C(fromNewton) <=> First({"OperationCanceled"}))
    BY LinkActsAt DEF First
  <2>6. /\ R(fromNewton') \subseteq Nat \ {0} /\ R(fromNewton) \subseteq Nat
        /\ \A i \in R(fromNewton') : i + d \in R(fromNewton)
    BY LinkActsAt
  <2> HIDE DEF D, A, C, R
  <2>7. \A i \in C(fromNewton'), j \in R(fromNewton') : j < i
    <3> TAKE i \in C(fromNewton'), j \in R(fromNewton')
    <3>1. j + d < i + d
      BY <2>1, <2>5, <2>6
    <3> QED
      BY <1>1, <2>5, <2>6, <3>1
  <2>8. CASE d = 1 /\ First({"OperationCanceled"})
    <3>1. 1 \in C(fromNewton)
      BY <2>5, <2>8
    <3>2. \E n : \A i \in A(toNewton') : i \in A(toNewton) \/ i = n
      <4>1. CASE A(what) = {}
        <5>1. \A i \in A(toNewton') : i \in A(toNewton) \/ i = 0
          BY <2>4, <4>1
        <5> QED
          BY <5>1
      <4>2. CASE A(what) # {}
        <5>1. PICK k \in A(what) : TRUE
          BY <4>2
        <5>2. \A i \in A(toNewton') : i \in A(toNewton) \/ i = Len(toNewton) + k
          BY <2>2, <2>4, <5>1
        <5> QED
          BY <5>2
      <4> QED
        BY <4>1, <4>2
    <3>3. AtMostOne(A(toNewton'), C(fromNewton')) /\ C(fromNewton') = {}
      <4>1. PICK n : A(toNewton') \subseteq A(toNewton) \cup {n}
        BY <3>2
      <4>2. C(fromNewton') \in SUBSET (Nat \ {0}) /\ \A i \in C(fromNewton') : i + 1 \in C(fromNewton)
        BY <2>5, <2>8
      <4>3. AtMostOne(A(toNewton), C(fromNewton))
        BY <2>1
      <4>4. A(toNewton) = {} /\ \A i \in C(fromNewton) : i = 1
        BY <3>1, <4>3 DEF AtMostOne
      <4>5. C(fromNewton') = {}
        BY <4>2, <4>4
      <4> QED
        BY <4>1, <4>4, <4>5 DEF AtMostOne
    <3>4. waiting = "OperationCanceled" \/ gone
      BY <2>1, <3>1
    <3>5. gone => A(toNewton') = A(toNewton)
      BY <2>4
    <3>6. waiting' = "OperationCanceled" => A(toNewton') # {} \/ lost'
      <4>1. gone => waiting # "OperationCanceled"
        BY DEF OneCancel
      <4> QED
        BY <1>1, <2>2, <2>4, <2>8, <4>1
    <3>7. A(toNewton') # {} => waiting' = "OperationCanceled"
      BY <1>1, <2>1, <3>4, <3>5
    <3> QED
      BY <2>3, <2>7, <3>3, <3>6, <3>7
  <2>9. CASE ~(d = 1 /\ First({"OperationCanceled"}))
    <3>1. A(toNewton') = A(toNewton)
      BY <2>2, <2>4, <2>9
    <3>2. \A i \in C(fromNewton) : i - d \in C(fromNewton')
      BY <1>1, <2>5, <2>9
    <3>3. AtMostOne(A(toNewton'), C(fromNewton'))
      <4>1. C(fromNewton') \in SUBSET Nat
        BY <2>5
      <4> QED
        BY <1>1, <2>1, <2>5, <3>1, <4>1, StillOne
    <3> QED
      BY <1>1, <2>1, <2>2, <2>3, <2>5, <2>7, <3>1, <3>2, <3>3
  <2> QED
    BY <2>8, <2>9
<1> QED
  BY <1>2, <1>3 DEF OneCancel, Stops, Acks, Cancels, Results

-----------------------------------------------------------------------------
(* What a step of the Newton does.                                         *)

\* It adds one message, or none, to those for the link.
Adds(w) == \/ w = {} /\ UNCHANGED fromNewton
           \/ \E a \in Message : w = {a} /\ fromNewton' = Append(fromNewton, a)

LEMMA AddsAt ==
  ASSUME fromNewton \in Seq(Message), NEW w, Adds(w), NEW S
  PROVE  /\ fromNewton' \in Seq(Message) /\ Len(fromNewton) \in Nat
         /\ At(fromNewton, S) \subseteq Nat \ {0} /\ At(fromNewton', S) \subseteq Nat \ {0}
         /\ \A i \in At(fromNewton, S) : i \in At(fromNewton', S) /\ i <= Len(fromNewton)
         /\ \A i \in At(fromNewton', S) :
              \/ i \in At(fromNewton, S)
              \/ i = Len(fromNewton) + 1 /\ \E a \in w : a.cmd \in S
         /\ (\E a \in w : a.cmd \in S) => Len(fromNewton) + 1 \in At(fromNewton', S)
         /\ w # {} => fromNewton' # <<>>
         /\ fromNewton # <<>> => fromNewton' # <<>>
<1>1. CASE w = {} /\ UNCHANGED fromNewton
  BY <1>1 DEF At
<1>2. ASSUME NEW a \in Message, w = {a}, fromNewton' = Append(fromNewton, a)
      PROVE  /\ fromNewton' \in Seq(Message) /\ Len(fromNewton) \in Nat /\ fromNewton' # <<>>
             /\ At(fromNewton, S) \subseteq Nat \ {0} /\ At(fromNewton', S) \subseteq Nat \ {0}
             /\ \A i \in At(fromNewton, S) : i \in At(fromNewton', S) /\ i <= Len(fromNewton)
             /\ \A i \in At(fromNewton', S) :
                  \/ i \in At(fromNewton, S)
                  \/ i = Len(fromNewton) + 1 /\ a.cmd \in S
             /\ a.cmd \in S => Len(fromNewton) + 1 \in At(fromNewton', S)
  <2>1. fromNewton' \in Seq(Message) /\ Len(fromNewton) \in Nat /\ fromNewton' # <<>>
    BY <1>2
  <2> QED
    BY <1>2, <2>1, AddedAt
<1> QED
  BY <1>1, <1>2 DEF Adds

LEMMA AddsIs ==
  ASSUME fromNewton \in Seq(Message), NEW w, Adds(w)
  PROVE  /\ \A i \in DOMAIN fromNewton : fromNewton'[i] = fromNewton[i]
         /\ \A a \in w : fromNewton'[Len(fromNewton) + 1] = a
<1>1. ASSUME NEW a \in Message, fromNewton' = Append(fromNewton, a)
      PROVE  /\ \A i \in DOMAIN fromNewton : fromNewton'[i] = fromNewton[i]
             /\ fromNewton'[Len(fromNewton) + 1] = a
  BY <1>1, Added
<1> QED
  BY <1>1 DEF Adds

\* It reads the next message of the link.
LEMMA NewtonReadsIs ==
  ASSUME toNewton \in Seq(Message), fromNewton \in Seq(Message), NewtonReads
  PROVE  LET m == Head(toNewton) IN
         /\ ~gone /\ gone' = gone /\ pc \notin Ended /\ toNewton # <<>> /\ m \in Message
         /\ toNewton' = Tail(toNewton) /\ UNCHANGED linkVars /\ UNCHANGED reports
         /\ turns' = turns /\ calls' = calls
         /\ \E w : /\ Adds(w)
                   /\ \/ w = {} /\ UNCHANGED <<password, accepted>> /\ (Hears(m) => ~IsAsked(m))
                      \/ /\ w # {} /\ Hears(m) /\ IsAsked(m)
                         /\ \A a \in w :
                              /\ a \in AnswersTo(m)
                              /\ password' = IF a.cmd = "Password" THEN a.arg ELSE password
                              /\ accepted' = accepted +
                                   (IF m.cmd = "LoadPackage" /\ a.arg = "ok" THEN 1 ELSE 0)
         /\ \/ ~Hears(m) /\ waiting' = waiting /\ mode' = mode
            \/ /\ Hears(m) /\ mode' = ModeAfter(m)
               /\ waiting' = IF IsAnswer(m) \/ m.cmd = "Disconnect" THEN "none" ELSE waiting
<1> DEFINE m == Head(toNewton)
<1>1. toNewton # <<>> /\ m \in Message
  BY Taken DEF NewtonReads
<1>2. \/ ~Hears(m) /\ UNCHANGED <<fromNewton, mode, waiting, password, accepted>>
      \/ /\ Hears(m) /\ mode' = ModeAfter(m)
         /\ waiting' = (IF IsAnswer(m) \/ m.cmd = "Disconnect" THEN "none" ELSE waiting)
         /\ \/ ~IsAsked(m) /\ UNCHANGED <<fromNewton, password, accepted>>
            \/ /\ IsAsked(m)
               /\ \E a \in AnswersTo(m) :
                     /\ fromNewton' = Append(fromNewton, a)
                     /\ password' = (IF a.cmd = "Password" THEN a.arg ELSE password)
                     /\ accepted' = accepted +
                          (IF m.cmd = "LoadPackage" /\ a.arg = "ok" THEN 1 ELSE 0)
  BY DEF NewtonReads
<1>3. /\ ~gone /\ pc \notin Ended /\ toNewton' = Tail(toNewton)
      /\ UNCHANGED <<linkVars, gone, turns, calls, reports>>
  BY DEF NewtonReads
<1> HIDE DEF m
<1>4. \E w : /\ Adds(w)
             /\ \/ w = {} /\ UNCHANGED <<password, accepted>> /\ (Hears(m) => ~IsAsked(m))
                \/ /\ w # {} /\ Hears(m) /\ IsAsked(m)
                   /\ \A a \in w :
                        /\ a \in AnswersTo(m)
                        /\ password' = IF a.cmd = "Password" THEN a.arg ELSE password
                        /\ accepted' = accepted +
                             (IF m.cmd = "LoadPackage" /\ a.arg = "ok" THEN 1 ELSE 0)
  <2>1. CASE UNCHANGED <<fromNewton, password, accepted>> /\ (Hears(m) => ~IsAsked(m))
    <3>1. Adds({})
      BY <2>1 DEF Adds
    <3> QED
      BY <2>1, <3>1
  <2>2. ASSUME NEW a \in AnswersTo(m), IsAsked(m), fromNewton' = Append(fromNewton, a)
        PROVE  Adds({a})
    BY <1>1, <2>2, AnswersAre DEF Adds
  <2>3. ASSUME NEW a \in AnswersTo(m), IsAsked(m), Hears(m), fromNewton' = Append(fromNewton, a),
               password' = (IF a.cmd = "Password" THEN a.arg ELSE password),
               accepted' = accepted + (IF m.cmd = "LoadPackage" /\ a.arg = "ok" THEN 1 ELSE 0)
        PROVE  \E w : /\ Adds(w) /\ w # {}
                      /\ \A b \in w :
                           /\ b \in AnswersTo(m)
                           /\ password' = IF b.cmd = "Password" THEN b.arg ELSE password
                           /\ accepted' = accepted +
                                (IF m.cmd = "LoadPackage" /\ b.arg = "ok" THEN 1 ELSE 0)
    <3> WITNESS {a}
    <3>1. \A b \in {a} : b = a
      OBVIOUS
    <3> QED
      BY <2>2, <2>3, <3>1
  <2> QED
    <3>1. CASE Hears(m) /\ IsAsked(m)
      BY <1>2, <2>3, <3>1
    <3>2. CASE ~(Hears(m) /\ IsAsked(m))
      BY <1>2, <2>1, <3>2
    <3> QED
      BY <3>1, <3>2
<1> QED
  BY <1>1, <1>2, <1>3, <1>4 DEF m

\* It docks, asks for something or says hello.
LEMMA NewtonSaysIs ==
  ASSUME mode \in DOMAIN MayAsk, waiting \in Asks \cup {"none"}, turns \in Nat,
         NewtonDocks \/ NewtonAsks \/ NewtonSaysHello
  PROVE  /\ ~gone /\ gone' = gone /\ pc \notin Ended /\ toNewton' = toNewton
         /\ UNCHANGED linkVars /\ UNCHANGED reports /\ UNCHANGED <<password, accepted, calls>>
         /\ mode' \in DOMAIN MayAsk /\ waiting' \in Asks \cup {"none"} /\ turns' \in Nat
         /\ \E w : /\ Adds(w) /\ w # {}
                   /\ \A a \in w : /\ a.cmd \notin {"Result", "AddedID", "Password"}
                                   /\ IF a.cmd = "OperationCanceled"
                                      THEN waiting = "none" /\ waiting' = "OperationCanceled"
                                      ELSE \/ waiting' = waiting
                                           \/ waiting = "none" /\ waiting' # "OperationCanceled"
<1> DEFINE Sent(c) == Msg(c, "-")
           Done == /\ ~gone /\ gone' = gone /\ pc \notin Ended /\ toNewton' = toNewton
                   /\ UNCHANGED linkVars /\ UNCHANGED reports
                   /\ UNCHANGED <<password, accepted, calls>>
<1>1. ASSUME NEW c \in DockCommands, NewtonSends(Sent(c))
      PROVE  Done /\ Adds({Sent(c)}) /\ Sent(c).cmd = c
  <2>1. Sent(c) \in Message /\ Sent(c).cmd = c
    BY DEF Msg, Message
  <2> HIDE DEF Sent
  <2> QED
    BY <1>1, <2>1 DEF NewtonSends, Adds
<1>2. DOMAIN MayAsk = {"free", "browse", "keyboard", "sync", "docking", "away", "closed"}
  BY DEF MayAsk
<1>3. ASSUME NEW c, NEW w, w = {Sent(c)}, Sent(c).cmd = c
      PROVE  \A a \in w : a.cmd = c
  BY <1>3
<1> HIDE DEF Sent
<1>4. CASE NewtonDocks
  <2>1. /\ NewtonSends(Sent("RequestToDock")) /\ mode' = "docking"
        /\ UNCHANGED <<waiting, turns>> /\ "RequestToDock" \in DockCommands
    BY <1>4, Names DEF NewtonDocks, Sent
  <2>2. Done /\ Adds({Sent("RequestToDock")}) /\ Sent("RequestToDock").cmd = "RequestToDock"
    BY <1>1, <2>1
  <2> QED
    BY <1>2, <1>3, <2>1, <2>2
<1>5. CASE NewtonSaysHello
  <2>1. /\ NewtonSends(Sent("Hello")) /\ turns' = turns + 1
        /\ UNCHANGED <<waiting, mode>> /\ "Hello" \in DockCommands
    BY <1>5, Names DEF NewtonSaysHello, Sent
  <2>2. Done /\ Adds({Sent("Hello")}) /\ Sent("Hello").cmd = "Hello"
    BY <1>1, <2>1
  <2> QED
    BY <1>2, <1>3, <2>1, <2>2
<1>6. CASE NewtonAsks
  <2>1. PICK q \in MayAsk[mode] :
          /\ NewtonSends(Sent(q)) /\ waiting' = (IF q \in Asks THEN q ELSE waiting)
          /\ mode' = CASE q = "StartKeyboard" -> "keyboard"
                       [] q = "Disconnect" -> "closed"
                       [] OTHER -> mode
    BY <1>6 DEF NewtonAsks, Sent
  <2>2. q \in {"RequestToBrowse", "Synchronize", "StartKeyboard", "Disconnect", "BrowseQuery",
               "LoadPackageFile", "BrowseOther", "OperationCanceled"}
    BY <1>2, <2>1 DEF MayAsk
  <2>3. q \in DockCommands
    BY <2>2, Names
  <2>4. Done /\ Adds({Sent(q)}) /\ Sent(q).cmd = q
    BY <1>1, <2>1, <2>3
  <2>5. mode' \in DOMAIN MayAsk
    BY <1>2, <2>1
  <2>6. waiting = "none" /\ turns' \in Nat
    BY <1>6 DEF NewtonAsks
  <2>7. waiting' \in Asks \cup {"none"} /\ (q = "OperationCanceled" <=> waiting' = "OperationCanceled")
    BY <2>1, <2>2, <2>6 DEF Asks
  <2> QED
    BY <1>3, <2>2, <2>4, <2>5, <2>6, <2>7
<1> QED
  BY <1>4, <1>5, <1>6

LEMMA CancelsByNewton ==
  ASSUME toNewton \in Seq(Message), fromNewton \in Seq(Message), lost \in BOOLEAN,
         mode \in DOMAIN MayAsk, waiting \in Asks \cup {"none"}, turns \in Nat, OneCancel,
         NewtonReads \/ NewtonDocks \/ NewtonAsks \/ NewtonSaysHello \/ NewtonLeaves
  PROVE  OneCancel'
<1> DEFINE D(q) == At(q, {"Disconnect"})
           A(q) == At(q, {"OpCanceledAck"})
           C(q) == At(q, {"OperationCanceled"})
           R(q) == At(q, {"Result", "AddedID"})
<1>1. CASE NewtonLeaves
  <2>1. /\ toNewton' = <<>> /\ waiting' = "none" /\ gone' /\ fromNewton' = fromNewton
        /\ UNCHANGED linkVars
    BY <1>1 DEF NewtonLeaves
  <2>2. pc' = pc
    BY <2>1 DEF linkVars
  <2>3. D(toNewton') = {} /\ A(toNewton') = {} /\ <<>> = toNewton'
    BY <2>1 DEF At
  <2>4. pc \notin Stops => /\ AtMostOne(A(toNewton), C(fromNewton))
                           /\ \A i \in C(fromNewton), j \in R(fromNewton) : j < i
    BY DEF OneCancel, Stops, Acks, Cancels, Results
  <2> HIDE DEF D, A, C, R
  <2>5. pc \notin Stops => AtMostOne(A(toNewton'), C(fromNewton'))
    BY <2>1, <2>3, <2>4 DEF AtMostOne
  <2> QED
    BY <2>1, <2>2, <2>3, <2>4, <2>5 DEF OneCancel, Stops, Acks, Cancels, Results, D, A, C, R
<1>2. CASE NewtonReads
  <2> DEFINE m == Head(toNewton)
  <2>1. /\ ~gone /\ ~gone' /\ toNewton # <<>> /\ m \in Message /\ toNewton' = Tail(toNewton)
        /\ pc' = pc /\ lost' = lost
    BY <1>2, NewtonReadsIs DEF linkVars, reports
  <2>2. PICK w : /\ Adds(w)
                 /\ w # {} => Hears(m) /\ IsAsked(m) /\ \A a \in w : a \in AnswersTo(m)
    BY <1>2, NewtonReadsIs
  <2>3. \/ ~Hears(m) /\ waiting' = waiting
        \/ Hears(m) /\ waiting' = IF IsAnswer(m) \/ m.cmd = "Disconnect" THEN "none" ELSE waiting
    BY <1>2, NewtonReadsIs
  <2> HIDE DEF m
  <2>4. SUFFICES ASSUME pc' \notin Stops
                 PROVE  /\ D(toNewton') = {}
                        /\ AtMostOne(A(toNewton'), C(fromNewton'))
                        /\ A(toNewton') # {} => waiting' = "OperationCanceled"
                        /\ C(fromNewton') # {} => waiting' = "OperationCanceled" \/ gone'
                        /\ waiting' = "OperationCanceled" => A(toNewton') \cup C(fromNewton') # {} \/ lost'
                        /\ \A i \in C(fromNewton'), j \in R(fromNewton') : j < i
    BY <2>1 DEF OneCancel, Stops, Acks, Cancels, Results
  <2>5. /\ D(toNewton) = {} /\ AtMostOne(A(toNewton), C(fromNewton))
        /\ A(toNewton) # {} => waiting = "OperationCanceled"
        /\ C(fromNewton) # {} => waiting = "OperationCanceled" \/ gone
        /\ waiting = "OperationCanceled" => A(toNewton) \cup C(fromNewton) # {} \/ lost
        /\ \A i \in C(fromNewton), j \in R(fromNewton) : j < i
    BY <2>1, <2>4 DEF OneCancel, Stops, Acks, Cancels, Results
  <2>6. m.cmd # "Disconnect" /\ D(toNewton') = {}
    BY <2>1, <2>5, TakenAt DEF m
  <2>7. \A a \in w : a.cmd # "OperationCanceled"
    BY <2>1, <2>2, AnswersAre
  <2>8. C(fromNewton') = C(fromNewton) /\ C(fromNewton) \subseteq Nat
    <3>1. /\ \A i \in C(fromNewton) : i \in C(fromNewton')
          /\ C(fromNewton) \subseteq Nat \ {0} /\ C(fromNewton') \subseteq Nat \ {0}
          /\ \A i \in C(fromNewton') : i \in C(fromNewton) \/ \E a \in w : a.cmd \in {"OperationCanceled"}
      BY <2>2, AddsAt
    <3> HIDE DEF C
    <3> QED
      BY <2>7, <3>1
  <2>9. /\ A(toNewton) \subseteq Nat \ {0} /\ A(toNewton') \subseteq Nat \ {0}
        /\ \A i \in A(toNewton') : i + 1 \in A(toNewton)
        /\ \A i \in A(toNewton) : i = 1 \/ i - 1 \in A(toNewton')
        /\ 1 \in A(toNewton) <=> m.cmd = "OpCanceledAck"
    BY <2>1, TakenAt DEF m
  <2>10. /\ R(fromNewton) \subseteq Nat
         /\ \A i \in R(fromNewton') : i \in R(fromNewton) \/ w # {}
    <3>1. /\ R(fromNewton) \subseteq Nat \ {0}
          /\ \A i \in R(fromNewton') : i \in R(fromNewton) \/ \E a \in w : a.cmd \in {"Result", "AddedID"}
      BY <2>2, AddsAt
    <3> QED
      BY <3>1
  <2> HIDE DEF D, A, C, R
  <2>11. CASE m.cmd = "OpCanceledAck"
    <3>1. waiting = "OperationCanceled" /\ Hears(m) /\ IsAnswer(m)
      BY <2>5, <2>9, <2>11 DEF Hears, IsAnswer
    <3>2. waiting' = "none"
      BY <2>3, <3>1
    <3>3. C(fromNewton) = {} /\ \A i \in A(toNewton) : i = 1
      BY <2>5, <2>9, <2>11 DEF AtMostOne
    <3>4. A(toNewton') = {}
      BY <2>9, <3>3
    <3>5. AtMostOne(A(toNewton'), C(fromNewton'))
      BY <2>8, <3>3, <3>4 DEF AtMostOne
    <3> QED
      BY <2>6, <2>8, <3>2, <3>3, <3>4, <3>5
  <2>12. CASE m.cmd # "OpCanceledAck"
    <3>1. \A i \in A(toNewton) : i - 1 \in A(toNewton')
      BY <2>9, <2>12
    <3>2. AtMostOne(A(toNewton'), C(fromNewton'))
      <4>1. A(toNewton') \in SUBSET Nat /\ \A i \in C(fromNewton') : i \in C(fromNewton)
        BY <2>8, <2>9
      <4> QED
        BY <2>5, <2>9, <4>1, StillOneRead
    <3>3. CASE waiting = "OperationCanceled"
      <4>1. ~Hears(m) /\ w = {} /\ waiting' = waiting
        BY <2>2, <2>3, <2>6, <2>12, <3>3 DEF Hears
      <4> QED
        BY <2>1, <2>5, <2>6, <2>8, <2>10, <3>1, <3>2, <3>3, <4>1
    <3>4. CASE waiting # "OperationCanceled"
      <4>1. waiting' # "OperationCanceled" /\ A(toNewton) = {} /\ C(fromNewton) = {}
        BY <2>1, <2>3, <2>5, <3>4
      <4>2. A(toNewton') = {}
        BY <2>9, <4>1
      <4> QED
        BY <2>6, <2>8, <3>2, <4>1, <4>2
    <3> QED
      BY <3>3, <3>4
  <2> QED
    BY <2>11, <2>12
<1>3. CASE NewtonDocks \/ NewtonAsks \/ NewtonSaysHello
  <2>1. /\ ~gone /\ gone' = gone /\ toNewton' = toNewton /\ pc' = pc /\ lost' = lost
    BY <1>3, NewtonSaysIs DEF linkVars, reports
  <2>2. PICK w : /\ Adds(w) /\ w # {}
                 /\ \A a \in w : /\ a.cmd \notin {"Result", "AddedID", "Password"}
                                 /\ IF a.cmd = "OperationCanceled"
                                    THEN waiting = "none" /\ waiting' = "OperationCanceled"
                                    ELSE \/ waiting' = waiting
                                         \/ waiting = "none" /\ waiting' # "OperationCanceled"
    BY <1>3, NewtonSaysIs
  <2>4. SUFFICES ASSUME pc' \notin Stops
                 PROVE  /\ D(toNewton') = {}
                        /\ AtMostOne(A(toNewton'), C(fromNewton'))
                        /\ A(toNewton') # {} => waiting' = "OperationCanceled"
                        /\ C(fromNewton') # {} => waiting' = "OperationCanceled" \/ gone'
                        /\ waiting' = "OperationCanceled" => A(toNewton') \cup C(fromNewton') # {} \/ lost'
                        /\ \A i \in C(fromNewton'), j \in R(fromNewton') : j < i
    BY <2>1 DEF OneCancel, Stops, Acks, Cancels, Results
  <2>5. /\ D(toNewton) = {} /\ AtMostOne(A(toNewton), C(fromNewton))
        /\ A(toNewton) # {} => waiting = "OperationCanceled"
        /\ C(fromNewton) # {} => waiting = "OperationCanceled" \/ gone
        /\ waiting = "OperationCanceled" => A(toNewton) \cup C(fromNewton) # {} \/ lost
        /\ \A i \in C(fromNewton), j \in R(fromNewton) : j < i
    BY <2>1, <2>4 DEF OneCancel, Stops, Acks, Cancels, Results
  <2>6. /\ C(fromNewton) \subseteq Nat \ {0} /\ C(fromNewton') \subseteq Nat \ {0} /\ Len(fromNewton) \in Nat
        /\ \A i \in C(fromNewton) : i \in C(fromNewton')
        /\ \A i \in C(fromNewton') :
             \/ i \in C(fromNewton)
             \/ i = Len(fromNewton) + 1 /\ \E a \in w : a.cmd \in {"OperationCanceled"}
        /\ (\E a \in w : a.cmd \in {"OperationCanceled"}) => Len(fromNewton) + 1 \in C(fromNewton')
    BY <2>2, AddsAt
  <2>7. R(fromNewton') = R(fromNewton) /\ \A j \in R(fromNewton) : j \in Nat /\ j <= Len(fromNewton)
    <3>1. /\ R(fromNewton) \subseteq Nat \ {0}
          /\ \A i \in R(fromNewton) : i \in R(fromNewton') /\ i <= Len(fromNewton)
          /\ \A i \in R(fromNewton') : i \in R(fromNewton) \/ \E a \in w : a.cmd \in {"Result", "AddedID"}
      BY <2>2, AddsAt
    <3> HIDE DEF R
    <3> QED
      BY <2>2, <3>1
  <2>8. A(toNewton') = A(toNewton) /\ D(toNewton') = D(toNewton)
    BY <2>1
  <2> HIDE DEF D, A, C, R
  <2>9. CASE \E a \in w : a.cmd = "OperationCanceled"
    <3>1. waiting = "none" /\ waiting' = "OperationCanceled" /\ A(toNewton) = {} /\ C(fromNewton) = {}
      BY <2>1, <2>2, <2>5, <2>9
    <3>2. C(fromNewton') = {Len(fromNewton) + 1}
      BY <2>6, <2>9, <3>1
    <3> QED
      BY <2>5, <2>6, <2>7, <2>8, <3>1, <3>2 DEF AtMostOne
  <2>10. CASE \A a \in w : a.cmd # "OperationCanceled"
    <3>1. C(fromNewton') = C(fromNewton)
      BY <2>6, <2>10
    <3>2. waiting' = waiting \/ (waiting = "none" /\ waiting' # "OperationCanceled")
      BY <2>2, <2>10
    <3> QED
      BY <2>1, <2>5, <2>7, <2>8, <3>1, <3>2 DEF AtMostOne
  <2> QED
    BY <2>9, <2>10
<1> QED
  BY <1>1, <1>2, <1>3

-----------------------------------------------------------------------------
(* The password.                                                           *)

Wrongs == {m \in Message : m.cmd = "Password" /\ m.arg # password}

\* OnePassword in the terms of these lemmas.
LEMMA PasswordsAre ==
  ASSUME toNewton \in Seq(Message), fromNewton \in Seq(Message)
  PROVE  /\ PasswordAsked = Of(toNewton, Queries)
         /\ (\A i \in PasswordGiven : fromNewton[i].arg = password) <=> Of(fromNewton, Wrongs) = {}
<1>1. PasswordAsked = Of(toNewton, Queries)
  BY DEF PasswordAsked, Of, Queries
<1>2. (\A i \in PasswordGiven : fromNewton[i].arg = password) <=> Of(fromNewton, Wrongs) = {}
  BY DEF PasswordGiven, At, Of, Wrongs
<1> QED
  BY <1>1, <1>2

\* A step of the link asks for the password on the way to the state that waits for
\* it, and not again before it has one; it begins to serve with the right one.
Authenticates(d, what) ==
  /\ pc' \notin Ended =>
       /\ pc \notin Ended
       /\ \/ /\ Of(what, Queries) = {}
             /\ pc' # "password" => pc # "password" \/ (d = 1 /\ First({"Password"}))
          \/ /\ \A k, l \in Of(what, Queries) : k = l
             /\ pc' = "password"
             /\ pc # "password" \/ (d = 1 /\ First({"Password"}))
  /\ pc' \in Session =>
       \/ pc \in Session
       \/ pc = "password" /\ d = 1 /\ First({"Password"}) /\ Head(fromNewton).arg = "right"

LEMMA PasswordByLink ==
  ASSUME toNewton \in Seq(Message), fromNewton \in Seq(Message), OnePassword,
         NEW d, NEW what, LinkActs(d, what), Authenticates(d, what)
  PROVE  OnePassword' /\ (Authenticated => Authenticated')
<1> DEFINE Q(q) == Of(q, Queries)
           P(q) == At(q, {"Password"})
           W(q) == Of(q, Wrongs)
<1>1. /\ d \in {0, 1} /\ password' = password
      /\ toNewton' \in Seq(Message) /\ fromNewton' \in Seq(Message)
  <2>1. toNewton' \in Seq(Message) /\ fromNewton' \in Seq(Message) /\ Q(toNewton) \subseteq Nat \ {0}
    BY LinkActsOf
  <2> QED
    BY <2>1 DEF LinkActs, newtonVars
<1>2. /\ PasswordAsked = Q(toNewton) /\ PasswordAsked' = Q(toNewton')
      /\ (\A i \in PasswordGiven : fromNewton[i].arg = password) <=> W(fromNewton) = {}
      /\ (\A i \in PasswordGiven' : fromNewton'[i].arg = password') <=> W(fromNewton') = {}
  <2>1. Wrongs' = Wrongs
    BY <1>1 DEF Wrongs
  <2>2. PasswordAsked' = Q(toNewton')
    BY <1>1 DEF PasswordAsked, Of, Queries
  <2>3. (\A i \in PasswordGiven' : fromNewton'[i].arg = password') <=> W(fromNewton') = {}
    BY <1>1, <2>1 DEF PasswordGiven, At, Of, Wrongs
  <2> QED
    BY <2>2, <2>3, PasswordsAre
<1>3. ASSUME pc \notin Ended
      PROVE  /\ AtMostOne(Q(toNewton), P(fromNewton)) /\ W(fromNewton) = {}
             /\ pc # "password" => Q(toNewton) \cup P(fromNewton) = {}
  BY <1>2, <1>3 DEF OnePassword, PasswordGiven
<1>4. ASSUME pc' \notin Ended
      PROVE  /\ AtMostOne(Q(toNewton'), P(fromNewton')) /\ W(fromNewton') = {}
             /\ pc' # "password" => Q(toNewton') \cup P(fromNewton') = {}
  <2>1. /\ AtMostOne(Q(toNewton), P(fromNewton)) /\ W(fromNewton) = {}
        /\ pc # "password" => Q(toNewton) \cup P(fromNewton) = {}
    BY <1>3, <1>4 DEF Authenticates
  <2>2. W(fromNewton') = {}
    BY <2>1, LinkActsOf
  <2>3. /\ P(fromNewton) \subseteq Nat \ {0} /\ P(fromNewton') \subseteq Nat \ {0}
        /\ \A i \in P(fromNewton') : i + d \in P(fromNewton)
        /\ d = 1 => (1 \in P(fromNewton) <=> First({"Password"}))
    BY LinkActsAt DEF First
  <2>4. /\ Q(toNewton) \subseteq Nat \ {0} /\ Q(toNewton') \subseteq Nat \ {0}
        /\ \A i \in Q(toNewton') : i \in Q(toNewton) \/ \E k \in Q(what) : i = Len(toNewton) + k
    BY LinkActsOf
  <2> HIDE DEF P, Q, W
  <2>5. ASSUME pc # "password" \/ (d = 1 /\ First({"Password"}))
        PROVE  P(fromNewton') = {} /\ Q(toNewton) = {}
    <3>1. CASE pc # "password"
      BY <2>1, <2>3, <3>1
    <3>2. CASE d = 1 /\ First({"Password"})
      <4>1. 1 \in P(fromNewton) /\ \A i \in P(fromNewton') : i + 1 \in P(fromNewton)
        BY <2>3, <3>2
      <4>2. Q(toNewton) = {} /\ \A i \in P(fromNewton) : i = 1
        BY <2>1, <4>1 DEF AtMostOne
      <4> QED
        BY <2>3, <4>1, <4>2
    <3> QED
      BY <2>5, <3>1, <3>2
  <2>6. CASE /\ Q(what) = {}
             /\ pc' # "password" => pc # "password" \/ (d = 1 /\ First({"Password"}))
    <3>1. \A i \in Q(toNewton') : i \in Q(toNewton)
      BY <2>4, <2>6
    <3>2. AtMostOne(Q(toNewton'), P(fromNewton'))
      <4>1. P(fromNewton') \in SUBSET Nat
        BY <2>3
      <4> QED
        BY <1>1, <2>1, <2>3, <3>1, <4>1, StillOne
    <3> QED
      BY <2>2, <2>5, <2>6, <3>1, <3>2
  <2>7. CASE /\ \A k, l \in Q(what) : k = l
             /\ pc' = "password"
             /\ pc # "password" \/ (d = 1 /\ First({"Password"}))
    <3>1. P(fromNewton') = {} /\ Q(toNewton) = {}
      BY <2>5, <2>7
    <3>2. \A i, j \in Q(toNewton') : i = j
      BY <2>4, <2>7, <3>1
    <3> QED
      BY <2>2, <2>7, <3>1, <3>2 DEF AtMostOne
  <2> QED
    BY <1>4, <2>6, <2>7 DEF Authenticates, Q
<1>5. OnePassword'
  BY <1>2, <1>4 DEF OnePassword, PasswordGiven
<1>6. ASSUME Authenticated, pc' \in Session
      PROVE  password' = "right"
  <2>1. CASE pc \in Session
    BY <1>1, <1>6, <2>1 DEF Authenticated
  <2>2. CASE pc = "password" /\ d = 1 /\ First({"Password"}) /\ Head(fromNewton).arg = "right"
    <3>1. W(fromNewton) = {} /\ fromNewton # <<>>
      BY <1>3, <2>2 DEF Ended, LinkActs
    <3>2. Head(fromNewton) \in Message /\ (1 \in W(fromNewton) <=> Head(fromNewton) \in Wrongs)
      BY <3>1, Taken, TakenOf
    <3> QED
      BY <1>1, <2>2, <3>1, <3>2 DEF First, Wrongs
  <2> QED
    BY <1>6, <2>1, <2>2 DEF Authenticates
<1> QED
  BY <1>5, <1>6 DEF Authenticated

LEMMA PasswordByNewton ==
  ASSUME toNewton \in Seq(Message), fromNewton \in Seq(Message),
         mode \in DOMAIN MayAsk, waiting \in Asks \cup {"none"}, turns \in Nat, OnePassword,
         NewtonReads \/ NewtonDocks \/ NewtonAsks \/ NewtonSaysHello \/ NewtonLeaves
  PROVE  OnePassword' /\ (Authenticated => Authenticated')
<1> DEFINE Q(q) == Of(q, Queries)
           P(q) == At(q, {"Password"})
<1>1. CASE NewtonLeaves
  <2>1. toNewton' = <<>> /\ fromNewton' = fromNewton /\ password' = password /\ pc' = pc
    BY <1>1 DEF NewtonLeaves, linkVars
  <2>2. PasswordAsked' = {}
    BY <2>1 DEF PasswordAsked
  <2>3. PasswordGiven' = PasswordGiven
    BY <2>1 DEF PasswordGiven
  <2> QED
    BY <2>1, <2>2, <2>3 DEF OnePassword, AtMostOne, Authenticated
<1>2. CASE NewtonDocks \/ NewtonAsks \/ NewtonSaysHello
  <2>1. /\ toNewton' = toNewton /\ password' = password /\ pc' = pc
    BY <1>2, NewtonSaysIs DEF linkVars
  <2>2. PICK w : Adds(w) /\ \A a \in w : a.cmd # "Password"
    BY <1>2, NewtonSaysIs
  <2>3. PasswordGiven' = PasswordGiven /\ \A i \in PasswordGiven : fromNewton'[i] = fromNewton[i]
    <3>1. /\ P(fromNewton) \subseteq Nat \ {0} /\ P(fromNewton') \subseteq Nat \ {0}
          /\ \A i \in P(fromNewton) : i \in P(fromNewton')
          /\ \A i \in P(fromNewton') : i \in P(fromNewton) \/ \E a \in w : a.cmd \in {"Password"}
      BY <2>2, AddsAt
    <3>2. \A i \in P(fromNewton) : fromNewton'[i] = fromNewton[i]
      BY <2>2, AddsIs DEF At
    <3> HIDE DEF P
    <3>3. P(fromNewton') = P(fromNewton)
      BY <2>2, <3>1
    <3> QED
      BY <3>2, <3>3 DEF PasswordGiven, P
  <2>4. PasswordAsked' = PasswordAsked
    BY <2>1 DEF PasswordAsked
  <2> QED
    BY <2>1, <2>3, <2>4 DEF OnePassword, Authenticated
<1>3. CASE NewtonReads
  <2> DEFINE m == Head(toNewton)
  <2>1. /\ toNewton # <<>> /\ m \in Message /\ toNewton' = Tail(toNewton) /\ pc' = pc /\ pc \notin Ended
    BY <1>3, NewtonReadsIs DEF linkVars
  <2>2. PICK w : /\ Adds(w)
                 /\ \/ w = {} /\ password' = password
                    \/ /\ w # {} /\ IsAsked(m)
                       /\ \A a \in w : /\ a \in AnswersTo(m)
                                       /\ password' = IF a.cmd = "Password" THEN a.arg ELSE password
    BY <1>3, NewtonReadsIs
  <2> HIDE DEF m
  <2>3. /\ AtMostOne(Q(toNewton), P(fromNewton))
        /\ \A i \in P(fromNewton) : fromNewton[i].arg = password
        /\ pc # "password" => Q(toNewton) \cup P(fromNewton) = {}
    BY <2>1, PasswordsAre DEF OnePassword, PasswordGiven
  <2>4. /\ P(fromNewton) \subseteq Nat \ {0} /\ P(fromNewton') \subseteq Nat \ {0}
        /\ Len(fromNewton) \in Nat /\ fromNewton' \in Seq(Message)
        /\ \A i \in P(fromNewton) : i \in P(fromNewton')
        /\ \A i \in P(fromNewton') :
             i \in P(fromNewton) \/ (i = Len(fromNewton) + 1 /\ \E a \in w : a.cmd \in {"Password"})
    BY <2>2, AddsAt
  <2>5. /\ Q(toNewton) \subseteq Nat \ {0} /\ Q(toNewton') \subseteq Nat \ {0}
        /\ \A i \in Q(toNewton') : i + 1 \in Q(toNewton)
        /\ 1 \in Q(toNewton) <=> AsksPassword(m)
    <3>1. 1 \in Q(toNewton) <=> m \in Queries
      BY <2>1, TakenOf DEF m
    <3> QED
      BY <2>1, <3>1, TakenOf DEF Queries
  <2>6. \A a \in w : /\ a.cmd = "Password" <=> AsksPassword(m)
                     /\ fromNewton'[Len(fromNewton) + 1] = a
    BY <2>1, <2>2, AnswersAre, AddsIs
  <2>7. \A i \in P(fromNewton) : fromNewton'[i] = fromNewton[i]
    BY <2>2, AddsIs DEF At
  <2>8. toNewton' \in Seq(Message) /\ PasswordAsked' = Q(toNewton') /\ PasswordGiven' = P(fromNewton')
    <3>1. toNewton' \in Seq(Message)
      BY <2>1, Taken
    <3> QED
      BY <2>4, <3>1 DEF PasswordAsked, Of, Queries, PasswordGiven
  <2> HIDE DEF P, Q
  <2>9. CASE AsksPassword(m) /\ w # {}
    <3>1. 1 \in Q(toNewton) /\ pc = "password"
      BY <2>3, <2>5, <2>9
    <3>2. P(fromNewton) = {} /\ \A i \in Q(toNewton) : i = 1
      BY <2>3, <3>1 DEF AtMostOne
    <3>3. Q(toNewton') = {} /\ \A i \in P(fromNewton') : i = Len(fromNewton) + 1
      BY <2>4, <2>5, <3>2
    <3>4. \A i \in P(fromNewton') : fromNewton'[i].arg = password'
      BY <2>2, <2>6, <2>9, <3>3
    <3> QED
      BY <2>1, <2>8, <3>1, <3>3, <3>4 DEF OnePassword, AtMostOne, Authenticated, Session
  <2>10. CASE ~(AsksPassword(m) /\ w # {})
    <3>1. password' = password /\ P(fromNewton') = P(fromNewton)
      BY <2>2, <2>4, <2>6, <2>10
    <3>2. AtMostOne(Q(toNewton'), P(fromNewton'))
      <4>1. Q(toNewton') \in SUBSET Nat /\ \A i \in P(fromNewton') : i \in P(fromNewton)
        BY <2>5, <3>1
      <4> QED
        BY <2>3, <2>5, <4>1, StillOneRead
    <3>3. pc # "password" => Q(toNewton') = {}
      BY <2>3, <2>5
    <3> QED
      BY <2>1, <2>3, <2>7, <2>8, <3>1, <3>2, <3>3 DEF OnePassword, Authenticated
  <2> QED
    BY <2>9, <2>10
<1> QED
  BY <1>1, <1>2, <1>3

-----------------------------------------------------------------------------
(* The results.                                                            *)

\* What is added behind a message does not change whether it is heard.
LEMMA HeardByLink ==
  ASSUME toNewton \in Seq(Message), fromNewton \in Seq(Message),
         NEW d, NEW what, LinkActs(d, what),
         NEW i \in Nat, i <= Len(toNewton)
  PROVE  WillHear(i)' <=> WillHear(i)
<1>1. waiting' = waiting
  BY DEF LinkActs, newtonVars
<1>2. /\ Acks \subseteq Nat \ {0} /\ Acks' \subseteq Nat \ {0} /\ Len(toNewton) \in Nat
      /\ \A j \in Acks : j \in Acks'
      /\ \A j \in Acks' : j \in Acks \/ \E k \in Nat \ {0} : j = Len(toNewton) + k
  <2> DEFINE A(q) == At(q, {"OpCanceledAck"})
  <2>1. /\ A(toNewton) \subseteq Nat \ {0} /\ A(toNewton') \subseteq Nat \ {0} /\ Len(toNewton) \in Nat
        /\ \A j \in A(toNewton) : j \in A(toNewton')
        /\ \A j \in A(toNewton') :
             j \in A(toNewton) \/ (~gone /\ \E k \in A(what) : j = Len(toNewton) + k)
        /\ A(what) \subseteq Nat \ {0}
    BY LinkActsAt
  <2>2. Acks = A(toNewton) /\ Acks' = A(toNewton')
    BY DEF Acks
  <2> HIDE DEF A
  <2> QED
    BY <2>1, <2>2
<1>3. \A j \in Acks' : j < i => j \in Acks
  BY <1>2
<1> QED
  BY <1>1, <1>2, <1>3 DEF WillHear

LEMMA ResultsAskedByLink ==
  ASSUME toNewton \in Seq(Message), fromNewton \in Seq(Message),
         NEW d, NEW what, LinkActs(d, what)
  PROVE  /\ \A i \in ResultsAsked' :
              \/ i \in ResultsAsked
              \/ ~gone /\ \E k \in At(what, ResultCommands) : i = Len(toNewton) + k
         /\ ResultsAsked \subseteq Nat \ {0} /\ ResultsAsked' \subseteq Nat \ {0}
<1> DEFINE Q(q) == At(q, ResultCommands)
<1>1. /\ Q(toNewton) \subseteq Nat \ {0} /\ Q(toNewton') \subseteq Nat \ {0}
      /\ \A i \in Q(toNewton) : i <= Len(toNewton)
      /\ \A i \in Q(toNewton') :
           i \in Q(toNewton) \/ (~gone /\ \E k \in Q(what) : i = Len(toNewton) + k)
  BY LinkActsAt
<1>2. /\ ResultsAsked = {i \in Q(toNewton) : WillHear(i)}
      /\ ResultsAsked' = {i \in Q(toNewton') : WillHear(i)'}
  BY DEF ResultsAsked, ResultCommands
<1> HIDE DEF Q
<1>3. ASSUME NEW i \in Q(toNewton), WillHear(i)'
      PROVE  WillHear(i)
  BY <1>1, <1>3, HeardByLink
<1>4. ASSUME NEW i \in Q(toNewton'), WillHear(i)'
      PROVE  \/ i \in ResultsAsked
             \/ ~gone /\ \E k \in Q(what) : i = Len(toNewton) + k
  BY <1>1, <1>2, <1>3, <1>4
<1> QED
  BY <1>1, <1>2, <1>4 DEF Q

\* Whoever asked for a result waits for it.
Loading == pc = "running" /\ engine = "loadpkg"
Owner == \/ pc \in {"icons", "install"}
         \/ Loading
         \/ pc = "running" /\ engine = "sync" /\ sync.state \in ResultStates
TakesIt(d) == d = 1 /\ First({"Result", "AddedID", "OperationCanceled"})

\* A step of the link asks for no result, and who waits for one goes on waiting or
\* has it, or it asks for one.
KeepsResults(d, what) ==
  /\ stray => stray'
  /\ \/ confirmed' = confirmed
     \/ /\ confirmed' = confirmed + 1 /\ Loading /\ ~Loading' /\ d = 1
        /\ First({"Result"}) /\ Head(fromNewton).arg = "ok"
  /\ pc' \notin Stops /\ ~stray' =>
       /\ pc \notin Stops
       /\ \/ /\ At(what, ResultCommands) = {}
             /\ Owner => Owner' \/ TakesIt(d)
             /\ Loading' => Loading \/ ~Owner \/ TakesIt(d) \/ EndOfPipe
          \/ /\ \A k, l \in At(what, ResultCommands) : k = l
             /\ Owner' /\ (~Owner \/ TakesIt(d))
             /\ Loading' => At(what, ResultCommands) \subseteq At(what, {"LoadPackage"})

\* A result that is taken is the only one; a Newton that cancels gives no more.
LEMMA TakenAlone ==
  ASSUME toNewton \in Seq(Message), fromNewton \in Seq(Message), OneCancel, OneResult,
         pc \notin Stops, ~stray, NEW d, NEW what, LinkActs(d, what), ~Owner \/ TakesIt(d)
  PROVE  ResultsAsked = {} /\ Results' = {}
<1> DEFINE R(q) == At(q, {"Result", "AddedID"})
           C(q) == At(q, {"OperationCanceled"})
<1>1. /\ AtMostOne(ResultsAsked, R(fromNewton))
      /\ ResultsAsked \cup R(fromNewton) # {} => Owner
  BY DEF OneResult, Stops, Results, Owner, Loading
<1>2. /\ R(fromNewton) \subseteq Nat \ {0} /\ R(fromNewton') \subseteq Nat \ {0}
      /\ \A i \in R(fromNewton') : i + d \in R(fromNewton)
      /\ d = 1 => (1 \in R(fromNewton) <=> First({"Result", "AddedID"}))
  BY LinkActsAt DEF First
<1>3. d = 1 => (1 \in C(fromNewton) <=> First({"OperationCanceled"}))
  BY LinkActsAt DEF First
<1>4. Results = R(fromNewton) /\ Results' = R(fromNewton') /\ Cancels = C(fromNewton)
  BY DEF Results, Cancels
<1> HIDE DEF R, C
<1>5. CASE ~Owner
  BY <1>1, <1>2, <1>4, <1>5
<1>6. CASE d = 1 /\ First({"Result", "AddedID"})
  <2>1. 1 \in R(fromNewton) /\ \A i \in R(fromNewton') : i + 1 \in R(fromNewton)
    BY <1>2, <1>6
  <2>2. ResultsAsked = {} /\ \A i \in R(fromNewton) : i = 1
    BY <1>1, <2>1 DEF AtMostOne
  <2> QED
    BY <1>2, <1>4, <2>1, <2>2
<1>7. CASE d = 1 /\ First({"OperationCanceled"})
  <2>1. 1 \in Cancels
    BY <1>3, <1>4, <1>7
  <2>2. /\ AtMostOne(Acks, Cancels)
        /\ waiting = "OperationCanceled" \/ gone
        /\ \A j \in Results : j < 1 /\ (gone => toNewton = <<>>)
    BY <2>1 DEF OneCancel, Stops
  <2>3. Results = {}
    BY <1>2, <1>4, <2>2
  <2>4. Acks = {}
    BY <2>1, <2>2 DEF AtMostOne
  <2>5. ResultsAsked = {}
    <3>1. CASE waiting = "OperationCanceled"
      BY <2>4, <3>1 DEF ResultsAsked, WillHear
    <3>2. CASE gone
      <4>1. toNewton = <<>>
        BY <3>2 DEF OneCancel
      <4> QED
        BY <4>1 DEF ResultsAsked, At
    <3> QED
      BY <2>2, <3>1, <3>2
  <2> QED
    BY <1>2, <1>4, <2>3, <2>5
<1> QED
  BY <1>5, <1>6, <1>7 DEF TakesIt, First

LEMMA ResultsByLink ==
  ASSUME toNewton \in Seq(Message), fromNewton \in Seq(Message), OneCancel, OneResult,
         confirmed \in Nat, accepted \in Nat, NEW d, NEW what, LinkActs(d, what), KeepsResults(d, what)
  PROVE  OneResult'
<1> DEFINE R(q) == At(q, {"Result", "AddedID"})
           Good(q) == Of(q, {m \in Message : m.cmd = "Result" /\ m.arg = "ok"})
<1>1. accepted' = accepted /\ d \in {0, 1}
  BY DEF LinkActs, newtonVars
<1>2. /\ fromNewton' \in Seq(Message) /\ toNewton' \in Seq(Message) /\ Len(toNewton) \in Nat
      /\ R(fromNewton) \subseteq Nat \ {0} /\ R(fromNewton') \subseteq Nat \ {0}
      /\ \A i \in R(fromNewton') : i + d \in R(fromNewton)
      /\ d = 1 => (1 \in R(fromNewton) <=> First({"Result", "AddedID"}))
  BY LinkActsAt DEF First
<1>3. Results = R(fromNewton) /\ Results' = R(fromNewton')
  BY DEF Results
<1>4. /\ \A i \in Good(fromNewton') : i + d \in Good(fromNewton)
      /\ d = 1 => (1 \in Good(fromNewton) <=> Head(fromNewton) \in {m \in Message : m.cmd = "Result" /\ m.arg = "ok"})
  BY LinkActsOf
<1>5. /\ Good(fromNewton) = {i \in Results : fromNewton[i].cmd = "Result" /\ fromNewton[i].arg = "ok"}
      /\ Good(fromNewton') = {i \in Results' : fromNewton'[i].cmd = "Result" /\ fromNewton'[i].arg = "ok"}
  BY <1>2 DEF Results, At, Of
<1> HIDE DEF R, Good
<1>6. confirmed' <= accepted' \/ stray'
  <2>1. CASE confirmed' = confirmed
    BY <1>1, <2>1 DEF OneResult, KeepsResults
  <2>2. CASE /\ confirmed' = confirmed + 1 /\ Loading /\ d = 1
             /\ First({"Result"}) /\ Head(fromNewton).arg = "ok"
    <3>1. Head(fromNewton) \in Message
      BY <2>2, Taken DEF LinkActs
    <3>2. 1 \in Good(fromNewton)
      BY <1>4, <2>2, <3>1 DEF First
    <3>3. stray \/ confirmed < accepted
      BY <1>5, <2>2, <3>2 DEF OneResult, Loading, Ended
    <3> QED
      BY <1>1, <2>2, <3>3 DEF KeepsResults
  <2> QED
    BY <2>1, <2>2 DEF KeepsResults
<1>7. ASSUME pc' \notin Stops, ~stray'
      PROVE  /\ AtMostOne(ResultsAsked', Results')
             /\ ResultsAsked' \cup Results' # {} => Owner'
             /\ Loading' => /\ ResultsAsked' \subseteq At(toNewton', {"LoadPackage"})
                            /\ \A i \in Good(fromNewton') : confirmed' < accepted'
  <2>0. pc \notin Stops /\ ~stray
    BY <1>7 DEF KeepsResults
  <2>1. /\ AtMostOne(ResultsAsked, Results)
        /\ ResultsAsked \cup Results # {} => Owner
        /\ Loading => /\ ResultsAsked \subseteq At(toNewton, {"LoadPackage"})
                      /\ \A i \in Good(fromNewton) : confirmed < accepted
    BY <1>5, <2>0 DEF OneResult, Stops, Owner, Loading
  <2>2. /\ \A i \in ResultsAsked' :
             \/ i \in ResultsAsked
             \/ ~gone /\ \E k \in At(what, ResultCommands) : i = Len(toNewton) + k
        /\ ResultsAsked \subseteq Nat \ {0} /\ ResultsAsked' \subseteq Nat \ {0}
    BY ResultsAskedByLink
  <2>3. ~Owner \/ TakesIt(d) => ResultsAsked = {} /\ Results' = {}
    BY <2>0, TakenAlone
  <2>4. Good(fromNewton') \subseteq Results'
    BY <1>5
  <2>5. /\ \A i \in At(toNewton, {"LoadPackage"}) : i \in At(toNewton', {"LoadPackage"})
        /\ ~gone => \A k \in At(what, {"LoadPackage"}) : Len(toNewton) + k \in At(toNewton', {"LoadPackage"})
    BY LinkActsAt
  <2>6. CASE /\ At(what, ResultCommands) = {}
             /\ Owner => Owner' \/ TakesIt(d)
             /\ Loading' => Loading \/ ~Owner \/ TakesIt(d) \/ EndOfPipe
    <3>1. \A i \in ResultsAsked' : i \in ResultsAsked
      BY <2>2, <2>6
    <3>2. AtMostOne(ResultsAsked', Results')
      <4>1. ResultsAsked' \in SUBSET Nat /\ Results' \in SUBSET Nat /\ \A i \in Results' : i + d \in Results
        BY <1>2, <1>3, <2>2
      <4> QED
        BY <1>1, <2>1, <3>1, <4>1, StillOne
    <3>3. ResultsAsked' \cup Results' # {} => Owner'
      <4>1. ResultsAsked' \cup Results' # {} => ResultsAsked \cup Results # {}
        BY <1>2, <1>3, <3>1
      <4> QED
        BY <2>1, <2>3, <2>6, <3>1, <4>1
    <3>4. ASSUME Loading'
          PROVE  /\ ResultsAsked' \subseteq At(toNewton', {"LoadPackage"})
                 /\ \A i \in Good(fromNewton') : confirmed' < accepted'
      <4>1. confirmed' = confirmed
        BY <3>4 DEF KeepsResults
      <4>2. CASE Loading
        BY <1>1, <1>4, <2>1, <2>5, <3>1, <4>1, <4>2
      <4>3. CASE ~Owner \/ TakesIt(d)
        BY <2>3, <2>4, <3>1, <4>3
      <4>4. CASE EndOfPipe
        <5>1. toNewton = <<>> /\ fromNewton = <<>>
          BY <4>4 DEF EndOfPipe, OneCancel
        <5>2. ResultsAsked = {} /\ Good(fromNewton) = {}
          BY <5>1 DEF ResultsAsked, At, Good, Of
        <5> QED
          BY <1>4, <3>1, <5>2
      <4> QED
        BY <2>6, <3>4, <4>2, <4>3, <4>4
    <3> QED
      BY <3>2, <3>3, <3>4
  <2>7. CASE /\ \A k, l \in At(what, ResultCommands) : k = l
             /\ Owner' /\ (~Owner \/ TakesIt(d))
             /\ Loading' => At(what, ResultCommands) \subseteq At(what, {"LoadPackage"})
    <3>1. ResultsAsked = {} /\ Results' = {}
      BY <2>3, <2>7
    <3>2. \A i, j \in ResultsAsked' : i = j
      BY <2>2, <2>7, <3>1
    <3>3. AtMostOne(ResultsAsked', Results')
      BY <3>1, <3>2 DEF AtMostOne
    <3>4. Loading' => ResultsAsked' \subseteq At(toNewton', {"LoadPackage"})
      BY <2>2, <2>5, <2>7, <3>1
    <3> QED
      BY <2>4, <2>7, <3>1, <3>3, <3>4
  <2> QED
    BY <1>7, <2>6, <2>7 DEF KeepsResults
<1> QED
  BY <1>5, <1>6, <1>7 DEF OneResult, Stops, Owner, Loading

\* What the Newton is going to hear it still is, after it has read one message more.
LEMMA HeardByNewton ==
  ASSUME toNewton \in Seq(Message), fromNewton \in Seq(Message), OneCancel, pc \notin Stops,
         NewtonReads, NEW i \in Nat \ {0}
  PROVE  /\ WillHear(i)' => WillHear(i + 1)
         /\ i > 1 /\ WillHear(i) => WillHear(i - 1)'
         /\ WillHear(1) => Hears(Head(toNewton))
<1> DEFINE m == Head(toNewton)
           A(q) == At(q, {"OpCanceledAck"})
<1>1. /\ toNewton # <<>> /\ toNewton' = Tail(toNewton) /\ m \in Message
      /\ \/ ~Hears(m) /\ waiting' = waiting
         \/ Hears(m) /\ waiting' = IF IsAnswer(m) \/ m.cmd = "Disconnect" THEN "none" ELSE waiting
  BY NewtonReadsIs
<1>2. m.cmd # "Disconnect"
  BY <1>1, TakenAt DEF OneCancel, Stops
<1>3. /\ A(toNewton) \subseteq Nat \ {0} /\ A(toNewton') \subseteq Nat \ {0}
      /\ \A j \in A(toNewton') : j + 1 \in A(toNewton)
      /\ \A j \in A(toNewton) : j = 1 \/ j - 1 \in A(toNewton')
      /\ 1 \in A(toNewton) <=> m.cmd = "OpCanceledAck"
  BY <1>1, TakenAt
<1>4. Acks = A(toNewton) /\ Acks' = A(toNewton')
  BY DEF Acks
<1> HIDE DEF m, A
<1>5. CASE waiting = "OperationCanceled" /\ m.cmd = "OpCanceledAck"
  <2>1. Hears(m) /\ IsAnswer(m) /\ 1 \in Acks
    BY <1>3, <1>4, <1>5 DEF Hears, IsAnswer
  <2>2. waiting' # "OperationCanceled"
    BY <1>1, <2>1
  <2>3. 1 < i + 1
    OBVIOUS
  <2> QED
    BY <2>1, <2>2, <2>3 DEF WillHear, m
<1>6. CASE waiting = "OperationCanceled" /\ m.cmd # "OpCanceledAck"
  <2>1. ~Hears(m) /\ waiting' = waiting
    BY <1>1, <1>2, <1>6 DEF Hears
  <2>2. \A j \in Acks : j - 1 \in Acks' /\ j > 1
    BY <1>3, <1>4, <1>6
  <2>3. (\E j \in Acks' : j < i) => \E j \in Acks : j < i + 1
    <3>1. \A j \in Acks' : j < i => j + 1 \in Acks /\ j + 1 < i + 1
      BY <1>3, <1>4
    <3> QED
      BY <3>1
  <2>4. (\E j \in Acks : j < i) => \E j \in Acks' : j < i - 1
    <3>1. \A j \in Acks : j < i => j - 1 \in Acks' /\ j - 1 < i - 1
      BY <1>3, <1>4, <2>2
    <3> QED
      BY <3>1
  <2>5. ~\E j \in Acks : j < 1
    BY <1>3, <1>4
  <2> QED
    BY <1>6, <2>1, <2>3, <2>4, <2>5 DEF WillHear, m
<1>7. CASE waiting # "OperationCanceled"
  <2>1. Hears(m) /\ waiting' # "OperationCanceled"
    BY <1>1, <1>7 DEF Hears
  <2> QED
    BY <1>7, <2>1 DEF WillHear, m
<1> QED
  BY <1>5, <1>6, <1>7

LEMMA ResultsByNewton ==
  ASSUME toNewton \in Seq(Message), fromNewton \in Seq(Message), lost \in BOOLEAN,
         mode \in DOMAIN MayAsk, waiting \in Asks \cup {"none"}, turns \in Nat,
         confirmed \in Nat, accepted \in Nat, OneCancel, OneResult,
         NewtonReads \/ NewtonDocks \/ NewtonAsks \/ NewtonSaysHello \/ NewtonLeaves
  PROVE  OneResult'
<1> DEFINE Q(q) == At(q, ResultCommands)
           R(q) == At(q, {"Result", "AddedID"})
           L(q) == At(q, {"LoadPackage"})
           Good(i) == fromNewton[i].cmd = "Result" /\ fromNewton[i].arg = "ok"
<1>1. CASE NewtonLeaves
  <2>1. /\ toNewton' = <<>> /\ fromNewton' = fromNewton /\ UNCHANGED linkVars /\ UNCHANGED reports
        /\ accepted' = accepted
    BY <1>1 DEF NewtonLeaves
  <2>2. ResultsAsked' = {}
    BY <2>1 DEF ResultsAsked, At
  <2>3. Results' = Results /\ (Owner' <=> Owner) /\ (Loading' <=> Loading)
    BY <2>1 DEF Results, Owner, Loading, linkVars
  <2>4. AtMostOne(ResultsAsked, Results) => AtMostOne(ResultsAsked', Results')
    BY <2>2, <2>3 DEF AtMostOne
  <2> QED
    BY <2>1, <2>2, <2>3, <2>4 DEF OneResult, Owner, Loading, linkVars, reports
<1>2. CASE NewtonDocks \/ NewtonAsks \/ NewtonSaysHello
  <2>1. /\ toNewton' = toNewton /\ UNCHANGED linkVars /\ UNCHANGED reports /\ accepted' = accepted
        /\ ~gone
    BY <1>2, NewtonSaysIs
  <2>2. PICK w : /\ Adds(w)
                 /\ \A a \in w : /\ a.cmd \notin {"Result", "AddedID", "Password"}
                                 /\ IF a.cmd = "OperationCanceled"
                                    THEN waiting = "none" /\ waiting' = "OperationCanceled"
                                    ELSE \/ waiting' = waiting
                                         \/ waiting = "none" /\ waiting' # "OperationCanceled"
                 /\ w # {}
    BY <1>2, NewtonSaysIs
  <2>3. Results' = Results /\ \A i \in Results : fromNewton'[i] = fromNewton[i]
    <3>1. /\ R(fromNewton) \subseteq Nat \ {0} /\ R(fromNewton') \subseteq Nat \ {0}
          /\ \A i \in R(fromNewton) : i \in R(fromNewton')
          /\ \A i \in R(fromNewton') : i \in R(fromNewton) \/ \E a \in w : a.cmd \in {"Result", "AddedID"}
      BY <2>2, AddsAt
    <3>2. \A i \in R(fromNewton) : fromNewton'[i] = fromNewton[i]
      BY <2>2, AddsIs DEF At
    <3> HIDE DEF R
    <3>3. R(fromNewton') = R(fromNewton)
      BY <2>2, <3>1
    <3> QED
      BY <3>2, <3>3 DEF Results, R
  <2>4. waiting = "OperationCanceled" => waiting' = "OperationCanceled"
    BY <2>2
  <2>5. \A i : WillHear(i)' => WillHear(i)
    BY <2>1, <2>4 DEF WillHear, Acks
  <2>6. ResultsAsked' \subseteq ResultsAsked
    BY <2>1, <2>5 DEF ResultsAsked
  <2>7. Results \subseteq Nat
    BY DEF Results, At
  <2>8. AtMostOne(ResultsAsked, Results) => AtMostOne(ResultsAsked', Results')
    BY <2>3, <2>6 DEF AtMostOne
  <2>9. At(toNewton', {"LoadPackage"}) = At(toNewton, {"LoadPackage"})
    BY <2>1
  <2>10. (Owner' <=> Owner) /\ (Loading' <=> Loading) /\ pc' = pc
    BY <2>1 DEF Owner, Loading, linkVars
  <2>11. confirmed' = confirmed /\ stray' = stray
    BY <2>1 DEF reports
  <2> QED
    BY <2>1, <2>3, <2>6, <2>8, <2>9, <2>10, <2>11 DEF OneResult, Owner, Loading
<1>3. CASE NewtonReads
  <2> DEFINE m == Head(toNewton)
  <2>1. /\ toNewton # <<>> /\ m \in Message /\ toNewton' = Tail(toNewton)
        /\ pc' = pc /\ engine' = engine /\ sync' = sync /\ confirmed' = confirmed /\ stray' = stray
    BY <1>3, NewtonReadsIs DEF linkVars, reports
  <2>2. PICK w : /\ Adds(w)
                 /\ \/ w = {} /\ accepted' = accepted
                    \/ /\ w # {} /\ Hears(m) /\ IsAsked(m)
                       /\ \A a \in w :
                            /\ a \in AnswersTo(m)
                            /\ accepted' = accepted +
                                 (IF m.cmd = "LoadPackage" /\ a.arg = "ok" THEN 1 ELSE 0)
    BY <1>3, NewtonReadsIs
  <2> HIDE DEF m
  <2>3. accepted' >= accepted /\ accepted' \in Nat
    BY <2>2
  <2>4. confirmed' <= accepted' \/ stray'
    BY <2>1, <2>3 DEF OneResult
  <2>5. SUFFICES ASSUME pc \notin Stops, ~stray
                 PROVE  /\ AtMostOne(ResultsAsked', Results')
                        /\ ResultsAsked' \cup Results' # {} => Owner
                        /\ Loading => /\ ResultsAsked' \subseteq At(toNewton', {"LoadPackage"})
                                      /\ \A i \in Results' :
                                           /\ fromNewton'[i].cmd = "Result"
                                           /\ fromNewton'[i].arg = "ok"
                                           => confirmed' < accepted'
    BY <2>1, <2>4 DEF OneResult, Stops, Owner, Loading
  <2>6. /\ AtMostOne(ResultsAsked, Results)
        /\ ResultsAsked \cup Results # {} => Owner
        /\ Loading => /\ ResultsAsked \subseteq L(toNewton)
                      /\ \A i \in Results : Good(i) => confirmed < accepted
    BY <2>5 DEF OneResult, Stops, Owner, Loading
  <2>7. /\ Q(toNewton) \subseteq Nat \ {0} /\ Q(toNewton') \subseteq Nat \ {0}
        /\ \A i \in Q(toNewton') : i + 1 \in Q(toNewton)
        /\ 1 \in Q(toNewton) <=> m.cmd \in ResultCommands
    BY <2>1, TakenAt DEF m
  <2>8. /\ \A i \in L(toNewton) : i = 1 \/ i - 1 \in L(toNewton')
        /\ 1 \in L(toNewton) <=> m.cmd = "LoadPackage"
    BY <2>1, TakenAt DEF m
  <2>9. /\ ResultsAsked = {i \in Q(toNewton) : WillHear(i)}
        /\ ResultsAsked' = {i \in Q(toNewton') : WillHear(i)'}
    BY DEF ResultsAsked, ResultCommands
  <2>10. /\ ResultsAsked' \subseteq Nat \ {0} /\ ResultsAsked \subseteq Nat \ {0}
         /\ \A i \in ResultsAsked' : i + 1 \in ResultsAsked
    <3> HIDE DEF Q
    <3>1. ASSUME NEW i \in Q(toNewton'), WillHear(i)'
          PROVE  WillHear(i + 1)
      BY <1>3, <2>5, <2>7, <3>1, HeardByNewton
    <3> QED
      BY <2>7, <2>9, <3>1
  <2>11. /\ R(fromNewton) \subseteq Nat \ {0} /\ R(fromNewton') \subseteq Nat \ {0}
         /\ Len(fromNewton) \in Nat
         /\ \A i \in R(fromNewton') :
              \/ i \in R(fromNewton)
              \/ i = Len(fromNewton) + 1 /\ \E a \in w : a.cmd \in {"Result", "AddedID"}
    BY <2>2, AddsAt
  <2>12. /\ \A i \in R(fromNewton) : fromNewton'[i] = fromNewton[i]
         /\ \A a \in w : fromNewton'[Len(fromNewton) + 1] = a
    BY <2>2, AddsIs DEF At
  <2>13. Results = R(fromNewton) /\ Results' = R(fromNewton')
    BY DEF Results
  <2>14. Loading => ResultsAsked' \subseteq At(toNewton', {"LoadPackage"})
    <3> HIDE DEF Q
    <3>1. ASSUME Loading, NEW i \in ResultsAsked' PROVE i \in L(toNewton')
      <4>1. i + 1 \in L(toNewton) /\ i \in Nat \ {0}
        BY <2>6, <2>10, <3>1
      <4>2. i + 1 # 1 /\ (i + 1) - 1 = i
        BY <4>1
      <4> QED
        BY <2>8, <4>1, <4>2
    <3> QED
      BY <3>1
  <2> HIDE DEF Q, R, L
  <2>15. CASE \E a \in w : a.cmd \in {"Result", "AddedID"}
    <3>1. PICK a \in w : a.cmd \in {"Result", "AddedID"}
      BY <2>15
    <3>2. /\ Hears(m) /\ IsAsked(m) /\ a \in AnswersTo(m)
          /\ accepted' = accepted + (IF m.cmd = "LoadPackage" /\ a.arg = "ok" THEN 1 ELSE 0)
      BY <2>2, <3>1
    <3>3. m.cmd \in ResultCommands \cup {"Disconnect"}
      BY <2>1, <3>1, <3>2, AnswersAre
    <3>4. m.cmd # "Disconnect"
      BY <2>1, <2>5, TakenAt DEF OneCancel, Stops, m
    <3>5. 1 \in Q(toNewton) /\ waiting # "OperationCanceled"
      BY <2>7, <3>2, <3>3, <3>4 DEF Hears, ResultCommands
    <3>6. 1 \in ResultsAsked
      BY <2>9, <3>5 DEF WillHear
    <3>7. Results = {} /\ \A i \in ResultsAsked : i = 1
      BY <2>6, <3>6 DEF AtMostOne
    <3>8. ResultsAsked' = {}
      BY <2>10, <3>7
    <3>9. \A i \in Results' : i = Len(fromNewton) + 1
      BY <2>11, <2>13, <3>7
    <3>10. Loading => m.cmd = "LoadPackage"
      BY <2>6, <2>8, <3>6
    <3>11. ASSUME Loading, NEW i \in Results', fromNewton'[i].cmd = "Result", fromNewton'[i].arg = "ok"
           PROVE  confirmed' < accepted'
      <4>1. a.arg = "ok"
        BY <2>12, <3>1, <3>9, <3>11
      <4>2. accepted' = accepted + 1 /\ confirmed <= accepted
        BY <2>5, <3>2, <3>10, <3>11, <4>1 DEF OneResult
      <4> QED
        BY <2>1, <4>2
    <3> QED
      BY <2>6, <2>14, <3>6, <3>8, <3>9, <3>11 DEF AtMostOne
  <2>16. CASE ~\E a \in w : a.cmd \in {"Result", "AddedID"}
    <3>1. \A i \in Results' : i \in Results
      BY <2>11, <2>13, <2>16
    <3>2. AtMostOne(ResultsAsked', Results')
      <4>1. ResultsAsked' \in SUBSET Nat
        BY <2>10
      <4> QED
        BY <2>6, <2>10, <3>1, <4>1, StillOneRead
    <3>3. \A i \in Results' : fromNewton'[i] = fromNewton[i]
      BY <2>12, <2>13, <3>1
    <3>4. ASSUME Loading, NEW i \in Results', fromNewton'[i].cmd = "Result", fromNewton'[i].arg = "ok"
          PROVE  confirmed' < accepted'
      BY <2>1, <2>3, <2>6, <3>1, <3>3, <3>4
    <3>5. ResultsAsked' \cup Results' # {} => ResultsAsked \cup Results # {}
      BY <2>10, <3>1
    <3> QED
      BY <2>6, <2>14, <3>2, <3>4, <3>5
  <2> QED
    BY <2>15, <2>16
<1> QED
  BY <1>1, <1>2, <1>3

-----------------------------------------------------------------------------
(* The answers.                                                            *)

\* The questions of a wait, in a queue.
Questions(q, wait) == IF wait = "password" THEN Of(q, Queries) ELSE At(q, {Question[wait]})

\* A step of the link that ends in a wait has asked its question, or goes on with
\* the wait.
AsksFor(d, what) ==
  pc' \in Waits \ {"dock"} /\ ~lost' =>
    /\ ~lost
    /\ \/ pc' = pc /\ d = 0
       \/ fromNewton' # <<>>
       \/ gone
       \/ /\ d = 1 => ~First({"OperationCanceled"})
          /\ pc' # "goodbye" => pc \notin Stops
          /\ Questions(what, pc') # {}

LEMMA AnswersByLink ==
  ASSUME toNewton \in Seq(Message), fromNewton \in Seq(Message), OneCancel, AnswerToCome,
         NEW d, NEW what, LinkActs(d, what), AsksFor(d, what)
  PROVE  AnswerToCome'
<1> SUFFICES ASSUME pc' \in Waits \ {"dock"}, ~lost', fromNewton' = <<>>, ~gone'
             PROVE  \E i \in Questions(toNewton', pc') : pc' = "goodbye" \/ WillHear(i)'
  <2>1. toNewton' \in Seq(Message)
    BY LinkActsAt
  <2>2. PasswordAsked' = Of(toNewton', Queries)
    BY <2>1 DEF PasswordAsked, Of, Queries
  <2> QED
    BY <2>2 DEF AnswerToCome, Questions
<1> DEFINE Q(q) == Questions(q, pc')
<1>1. ~gone /\ ~lost /\ waiting' = waiting /\ d \in {0, 1}
  BY DEF AsksFor, LinkActs, newtonVars
<1>2. /\ Q(toNewton) \subseteq Nat \ {0} /\ Q(what) \subseteq Nat \ {0} /\ Len(toNewton) \in Nat
      /\ \A i \in Q(toNewton) : i \in Q(toNewton') /\ i <= Len(toNewton)
      /\ \A k \in Q(what) : Len(toNewton) + k \in Q(toNewton')
  <2>1. CASE pc' = "password"
    <3>1. \A q : Q(q) = Of(q, Queries)
      BY <2>1 DEF Questions
    <3> HIDE DEF Q
    <3> QED
      BY <1>1, <3>1, LinkActsOf
  <2>2. CASE pc' # "password"
    <3>1. \A q : Q(q) = At(q, {Question[pc']})
      BY <2>2 DEF Questions
    <3> DEFINE S == {Question[pc']}
    <3> HIDE DEF Q, S
    <3>2. \A q : Q(q) = At(q, S)
      BY <3>1 DEF S
    <3> QED
      BY <1>1, <3>2, LinkActsAt
  <2> QED
    BY <2>1, <2>2
<1>3. CASE pc' = pc /\ d = 0
  <2>1. fromNewton = <<>>
    BY <1>3 DEF LinkActs
  <2>2. PasswordAsked = Of(toNewton, Queries)
    BY PasswordsAre
  <2>3. PICK i \in Q(toNewton) : pc = "goodbye" \/ WillHear(i)
    BY <1>1, <1>3, <2>1, <2>2 DEF AnswerToCome, Questions
  <2> HIDE DEF Q
  <2>4. WillHear(i) => WillHear(i)'
    BY <1>2, HeardByLink
  <2> QED
    BY <1>2, <1>3, <2>3, <2>4 DEF Q
<1>4. CASE /\ d = 1 => ~First({"OperationCanceled"})
           /\ pc' # "goodbye" => pc \notin Stops
           /\ Questions(what, pc') # {}
  <2>1. PICK k \in Q(what) : TRUE
    BY <1>4
  <2>2. PICK i \in Nat : i \in Q(toNewton') /\ i > Len(toNewton)
    BY <1>2, <2>1
  <2>3. ASSUME pc \notin Stops, waiting = "OperationCanceled"
        PROVE  \E j \in Acks' : j < i
    <3>1. Acks \cup Cancels # {}
      BY <1>1, <2>3 DEF OneCancel, Stops
    <3>2. Cancels = {}
      <4>1. \A j \in Cancels : j = d \/ j - d \in At(fromNewton', {"OperationCanceled"})
        BY LinkActsAt DEF Cancels
      <4>2. d = 1 => 1 \notin Cancels
        BY <1>4, LinkActsAt DEF Cancels, First
      <4>3. At(fromNewton', {"OperationCanceled"}) = {} /\ 0 \notin Cancels
        BY DEF At, Cancels
      <4> QED
        BY <1>1, <4>1, <4>2, <4>3
    <3>3. \A j \in Acks : j \in Acks' /\ j <= Len(toNewton) /\ j \in Nat
      BY LinkActsAt DEF Acks
    <3> QED
      BY <1>2, <2>2, <3>1, <3>2, <3>3
  <2> HIDE DEF Q
  <2>4. pc' = "goodbye" \/ WillHear(i)'
    BY <1>1, <1>4, <2>3 DEF WillHear
  <2> QED
    BY <2>2, <2>4 DEF Q
<1> QED
  BY <1>1, <1>3, <1>4 DEF AsksFor

LEMMA AnswersByNewton ==
  ASSUME toNewton \in Seq(Message), fromNewton \in Seq(Message), lost \in BOOLEAN,
         mode \in DOMAIN MayAsk, waiting \in Asks \cup {"none"}, turns \in Nat,
         OneCancel, AnswerToCome,
         NewtonReads \/ NewtonDocks \/ NewtonAsks \/ NewtonSaysHello \/ NewtonLeaves
  PROVE  AnswerToCome'
<1>1. CASE NewtonLeaves
  BY <1>1 DEF NewtonLeaves, AnswerToCome
<1>2. CASE NewtonDocks \/ NewtonAsks \/ NewtonSaysHello
  <2>1. fromNewton' # <<>>
    BY <1>2, NewtonSaysIs, AddsAt
  <2> QED
    BY <2>1 DEF AnswerToCome
<1>3. CASE NewtonReads
  <2> DEFINE m == Head(toNewton)
             Q(q) == Questions(q, pc)
  <2>1. /\ toNewton # <<>> /\ m \in Message /\ toNewton' = Tail(toNewton) /\ ~gone
        /\ pc' = pc /\ lost' = lost
    BY <1>3, NewtonReadsIs DEF linkVars, reports
  <2>2. PICK w : Adds(w) /\ (w = {} /\ Hears(m) => ~IsAsked(m))
    BY <1>3, NewtonReadsIs
  <2>3. toNewton' \in Seq(Message) /\ PasswordAsked = Of(toNewton, Queries) /\ PasswordAsked' = Of(toNewton', Queries)
    <3>1. toNewton' \in Seq(Message)
      BY <2>1, Taken
    <3> QED
      BY <3>1, PasswordsAre DEF PasswordAsked, Of, Queries
  <2>4. SUFFICES ASSUME pc \in Waits \ {"dock"}, ~lost, fromNewton' = <<>>
                 PROVE  \E i \in Q(toNewton') : pc = "goodbye" \/ WillHear(i)'
    BY <2>1, <2>3 DEF AnswerToCome, Questions
  <2>5. w = {} /\ fromNewton = <<>>
    BY <2>2, <2>4, AddsAt
  <2>6. PICK i \in Q(toNewton) : pc = "goodbye" \/ WillHear(i)
    BY <2>1, <2>3, <2>4, <2>5 DEF AnswerToCome, Questions
  <2>7. /\ Q(toNewton) \subseteq Nat \ {0}
        /\ \A j \in Q(toNewton) : j = 1 \/ j - 1 \in Q(toNewton')
        /\ 1 \in Q(toNewton) => IF pc = "password" THEN AsksPassword(m) ELSE m.cmd = Question[pc]
    <3>1. CASE pc = "password"
      <4>1. 1 \in Of(toNewton, Queries) <=> m \in Queries
        BY <2>1, TakenOf
      <4> QED
        BY <2>1, <3>1, <4>1, TakenOf DEF Questions, Queries
    <3>2. CASE pc # "password"
      <4> DEFINE S == {Question[pc]}
      <4>1. \A q : Q(q) = At(q, S)
        BY <3>2 DEF Questions
      <4>2. 1 \in At(toNewton, S) <=> m.cmd \in S
        <5> HIDE DEF S
        <5> QED
          BY <2>1, TakenAt
      <4>3. /\ At(toNewton, S) \subseteq Nat \ {0}
            /\ \A j \in At(toNewton, S) : j = 1 \/ j - 1 \in At(Tail(toNewton), S)
        <5> HIDE DEF S, m, Q
        <5> QED
          BY <2>1, TakenAt
      <4> QED
        BY <2>1, <3>2, <4>1, <4>2, <4>3
    <3> QED
      BY <3>1, <3>2
  <2> HIDE DEF m
  <2>8. pc \in {"name", "info", "icons", "password", "install", "keyboard", "goodbye"}
    BY <2>4 DEF Waits, Dialogue
  <2>9. i # 1
    <3>1. SUFFICES ASSUME i = 1 PROVE FALSE
      OBVIOUS
    <3>2. IF pc = "password" THEN AsksPassword(m) ELSE m.cmd = Question[pc]
      BY <2>6, <2>7, <3>1
    <3>3. IsAsked(m)
      BY <2>8, <3>2 DEF IsAsked, AsksPassword, Question, Answers
    <3>4. Hears(m)
      <4>1. CASE pc = "goodbye"
        BY <3>2, <4>1 DEF Hears, Question
      <4>2. CASE pc # "goodbye"
        <5>1. pc \notin Stops /\ WillHear(1)
          BY <2>6, <2>8, <3>1, <4>2 DEF Stops, Ended
        <5> QED
          BY <1>3, <5>1, HeardByNewton DEF m
      <4> QED
        BY <4>1, <4>2
    <3> QED
      BY <2>2, <2>5, <3>3, <3>4
  <2>10. i - 1 \in Q(toNewton') /\ i \in Nat \ {0} /\ i > 1
    BY <2>6, <2>7, <2>9
  <2>11. pc = "goodbye" \/ WillHear(i - 1)'
    <3>1. CASE pc # "goodbye"
      <4>1. pc \notin Stops /\ WillHear(i)
        BY <2>6, <2>8, <3>1 DEF Stops, Ended
      <4> QED
        BY <1>3, <2>10, <4>1, HeardByNewton
    <3> QED
      BY <3>1
  <2> HIDE DEF Q
  <2> QED
    BY <2>10, <2>11
<1> QED
  BY <1>1, <1>2, <1>3

-----------------------------------------------------------------------------
(* The steps of the link.                                                  *)

LEMMA SayAt ==
  ASSUME NEW cmd \in DockCommands
  PROVE  /\ \A S : At(Say(cmd), S) = IF cmd \in S THEN {1} ELSE {}
         /\ Of(Say(cmd), Queries) = IF cmd = "SetTimeout" THEN {1} ELSE {}
         /\ Say(cmd) \in Seq(Message)
<1> DEFINE q == Say(cmd)
<1>1. q \in Seq(Message) /\ Len(q) = 1 /\ q[1].cmd = cmd /\ q[1].arg = "-"
  BY SayIs
<1> HIDE DEF q
<1>2. DOMAIN q = {1} /\ q[1] \in Message
  BY <1>1
<1>3. q[1] \in Queries <=> cmd = "SetTimeout"
  BY <1>1, <1>2 DEF Queries, AsksPassword
<1>4. \A S : At(q, S) = IF cmd \in S THEN {1} ELSE {}
  BY <1>1, <1>2 DEF At
<1>5. Of(q, Queries) = IF cmd = "SetTimeout" THEN {1} ELSE {}
  BY <1>2, <1>3 DEF Of
<1> QED
  BY <1>1, <1>4, <1>5 DEF q

LEMMA ResultAt ==
  ASSUME NEW r \in {"ok", "error", "retry", "bad"}
  PROVE  /\ \A S : At(Result(r), S) = IF "Result" \in S THEN {1} ELSE {}
         /\ Of(Result(r), Queries) = IF r = "retry" THEN {1} ELSE {}
         /\ Result(r) \in Seq(Message)
<1> DEFINE q == Result(r)
<1>1. q \in Seq(Message) /\ Len(q) = 1 /\ q[1].cmd = "Result" /\ q[1].arg = r
  BY ResultIs
<1> HIDE DEF q
<1>2. DOMAIN q = {1} /\ q[1] \in Message
  BY <1>1
<1>3. q[1] \in Queries <=> r = "retry"
  BY <1>1, <1>2 DEF Queries, AsksPassword
<1>4. \A S : At(q, S) = IF "Result" \in S THEN {1} ELSE {}
  BY <1>1, <1>2 DEF At
<1>5. Of(q, Queries) = IF r = "retry" THEN {1} ELSE {}
  BY <1>2, <1>3 DEF Of
<1> QED
  BY <1>1, <1>4, <1>5 DEF q

LEMMA NothingAt ==
  /\ \A S : At(<<>>, S) = {}
  /\ Of(<<>>, Queries) = {} /\ <<>> \in Seq(Message)
BY DEF At, Of

LEMMA SendNothing ==
  ASSUME toNewton \in Seq(Message), UNCHANGED toNewton
  PROVE  Send(<<>>)
BY DEF Send

LEMMA EventTaken ==
  ASSUME NEW E, events \in Seq(E), NEW i \in DOMAIN events, TakeEvent(i)
  PROVE  events' \in Seq(E) /\ pc = "running"
<1>1. events' = SubSeq(events, 1, i - 1) \o SubSeq(events, i + 1, Len(events)) /\ pc = "running"
  BY DEF TakeEvent
<1>2. i \in 1..Len(events) /\ Len(events) \in Nat
  OBVIOUS
<1>3. SubSeq(events, 1, i - 1) \in Seq(E) /\ SubSeq(events, i + 1, Len(events)) \in Seq(E)
  BY <1>2
<1> QED
  BY <1>1, <1>3

\* The link by itself: its types, its engine and its synchronisation.
Events == Commands \cup {"data", "disconnect"}

InOrder == /\ kit \in Kits /\ pc \in Dialogue \cup Session \cup Ended /\ tries \in 0..2
           /\ engine \in Engines /\ sync \in Sync /\ interrupted \in BOOLEAN
           /\ events \in Seq(Events) /\ calls \in Nat /\ confirmed \in Nat
           /\ stray \in BOOLEAN /\ lost \in BOOLEAN
           /\ EngineAtWork /\ InLoops(sync)

Lawful(d, what) == /\ LinkActs(d, what) /\ Acknowledges(d, what) /\ Authenticates(d, what)
                   /\ KeepsResults(d, what) /\ AsksFor(d, what)

\* Nothing is said or taken, and the link stays where it is or stops.
LEMMA Quiet ==
  ASSUME toNewton \in Seq(Message), UNCHANGED <<toNewton, fromNewton, newtonVars, reports>>,
         \/ pc' = pc /\ UNCHANGED <<engine, sync>>
         \/ pc' \in Ended
  PROVE  Lawful(0, <<>>)
<1>1. LinkActs(0, <<>>)
  BY NothingAt, SendNothing DEF LinkActs
<1>2. Acknowledges(0, <<>>)
  BY NothingAt DEF Acknowledges, Stops, reports
<1>3. Authenticates(0, <<>>)
  BY NothingAt DEF Authenticates, Session, Ended
<1>4. KeepsResults(0, <<>>)
  BY NothingAt DEF KeepsResults, Stops, reports, Owner, Loading
<1>5. AsksFor(0, <<>>)
  BY DEF AsksFor, reports, Waits, Dialogue, Ended
<1> QED
  BY <1>1, <1>2, <1>3, <1>4, <1>5 DEF Lawful

LEMMA DialogueStepIs ==
  ASSUME DockIInv, InOrder, DialogueStep
  PROVE  InOrder' /\ \E d, what : Lawful(d, what)
<1> DEFINE m == Head(fromNewton)
<1>1. /\ pc \in Dialogue /\ fromNewton # <<>> /\ fromNewton' = Tail(fromNewton)
      /\ UNCHANGED <<kit, engine, sync, interrupted, events, newtonVars, calls, reports>>
      /\ \/ /\ Fails(m) /\ pc' = "failed" /\ UNCHANGED <<tries, toNewton>>
         \/ /\ ~Fails(m) /\ pc # "password" /\ Send(Say(Answer[pc]))
            /\ pc' = Follows[pc] /\ UNCHANGED tries
         \/ ~Fails(m) /\ pc = "password" /\ CheckPassword(m)
  <2>1. \E x \in Incoming : x = m
    BY DEF DialogueStep, Incoming
  <2>2. \A x \in Incoming : x = m /\ fromNewton # <<>>
    BY DEF Incoming, TypeOK, DockIInv
  <2> QED
    BY <2>1, <2>2 DEF DialogueStep
<1>2. m \in Message /\ toNewton \in Seq(Message) /\ fromNewton \in Seq(Message)
  BY <1>1, Taken DEF DockIInv, TypeOK
<1> HIDE DEF m
<1>o. InOrder'
  <2>1. /\ pc' \in {"failed", "name", "info", "icons", "password", "running"}
        /\ tries' \in 0..2
    BY <1>1 DEF CheckPassword, Dialogue, Follows, InOrder
  <2>2. engine = "none"
    BY <1>1 DEF InOrder, EngineAtWork
  <2>3. EngineAtWork' /\ InLoops(sync)'
    BY <1>1, <2>1, <2>2 DEF EngineAtWork, InOrder, InLoops
  <2>4. /\ kit' \in Kits /\ pc' \in Dialogue \cup Session \cup Ended
        /\ engine' \in Engines /\ sync' \in Sync /\ interrupted' \in BOOLEAN
        /\ events' \in Seq(Events) /\ calls' \in Nat /\ confirmed' \in Nat
        /\ stray' \in BOOLEAN /\ lost' \in BOOLEAN
    BY <1>1, <2>1 DEF InOrder, Dialogue, Session, Ended, reports
  <2> QED
    BY <1>1, <2>1, <2>3, <2>4 DEF InOrder, CheckPassword
<1>w. ~Owner \/ pc = "icons"
  BY <1>1 DEF Owner, Loading, Dialogue
<1>s. pc \notin Stops /\ pc \notin Session /\ pc \notin Ended
  BY <1>1 DEF Dialogue, Stops, Ended, Session
<1>l. UNCHANGED <<confirmed, stray, lost>> /\ (Head(fromNewton) = m)
  BY <1>1 DEF reports, m
<1>3. CASE Fails(m) /\ pc' = "failed" /\ UNCHANGED <<tries, toNewton>>
  <2>1. LinkActs(1, <<>>)
    BY <1>1, <1>2, <1>3, NothingAt, SendNothing DEF LinkActs
  <2>2. Acknowledges(1, <<>>) /\ Authenticates(1, <<>>)
    BY <1>3, <1>l DEF Acknowledges, Authenticates, Stops, Ended, Session
  <2>3. KeepsResults(1, <<>>) /\ AsksFor(1, <<>>)
    BY <1>3, <1>l DEF KeepsResults, AsksFor, Stops, Ended, Waits, Dialogue
  <2> QED
    BY <1>o, <2>1, <2>2, <2>3 DEF Lawful
<1>4. CASE ~Fails(m) /\ pc # "password" /\ Send(Say(Answer[pc])) /\ pc' = Follows[pc]
  <2> DEFINE what == Say(Answer[pc])
  <2>1. /\ pc \in {"dock", "name", "info", "icons"} /\ m.cmd = Expected[pc]
        /\ Answer[pc] \in {"InitiateDocking", "DesktopInfo", "WhichIcons", "SetTimeout"}
    BY <1>1, <1>4 DEF Dialogue, Fails, Answer
  <2>2. /\ \A S : At(what, S) = IF Answer[pc] \in S THEN {1} ELSE {}
        /\ Of(what, Queries) = IF Answer[pc] = "SetTimeout" THEN {1} ELSE {}
        /\ what \in Seq(Message)
    <3>1. Answer[pc] \in DockCommands
      BY <2>1, Names
    <3> QED
      BY <3>1, SayAt
  <2> HIDE DEF what
  <2>3. LinkActs(1, what)
    BY <1>1, <1>4, <2>2 DEF LinkActs, what
  <2>4. /\ pc' \in {"name", "info", "icons", "password"}
        /\ pc' = "password" <=> Answer[pc] = "SetTimeout"
        /\ pc' # "password" => Answer[pc] = Question[pc']
        /\ pc' = "icons" <=> Answer[pc] = "WhichIcons"
        /\ pc' = "password" <=> pc = "icons"
        /\ pc = "icons" => m.cmd = "Result"
        /\ m.cmd # "OperationCanceled"
    BY <1>4, <2>1 DEF Follows, Answer, Question, Expected
  <2>5. Acknowledges(1, what)
    BY <1>l, <1>s, <2>1, <2>2, <2>4 DEF Acknowledges, First
  <2>6. Authenticates(1, what)
    <3>1. CASE Answer[pc] = "SetTimeout"
      BY <1>4, <1>s, <2>2, <2>4, <3>1 DEF Authenticates, Session
    <3>2. CASE Answer[pc] # "SetTimeout"
      BY <1>4, <1>s, <2>2, <2>4, <3>2 DEF Authenticates, Session
    <3> QED
      BY <3>1, <3>2
  <2>7. KeepsResults(1, what)
    <3>1. CASE pc' = "icons"
      BY <1>l, <1>s, <1>w, <2>1, <2>2, <2>4, <3>1 DEF KeepsResults, Owner, Loading
    <3>2. CASE pc' # "icons"
      <4>1. At(what, ResultCommands) = {}
        BY <2>1, <2>2, <2>4, <3>2 DEF ResultCommands
      <4>2. Owner => TakesIt(1)
        BY <1>l, <1>w, <2>4 DEF TakesIt, First
      <4>3. ~Loading'
        BY <2>4 DEF Loading
      <4> QED
        BY <1>l, <1>s, <4>1, <4>2, <4>3 DEF KeepsResults
    <3> QED
      BY <3>1, <3>2
  <2>8. AsksFor(1, what)
    <3>1. Questions(what, pc') # {}
      BY <2>2, <2>4 DEF Questions
    <3> QED
      BY <1>l, <1>s, <2>4, <3>1 DEF AsksFor, First
  <2> QED
    BY <1>o, <2>3, <2>5, <2>6, <2>7, <2>8 DEF Lawful
<1>5. CASE ~Fails(m) /\ pc = "password" /\ CheckPassword(m)
  <2>1. m.cmd = "Password" /\ ~Owner
    BY <1>5, <1>w DEF Fails, Expected
  <2>2. PICK what : /\ what \in Seq(Message) /\ Send(what)
                    /\ \A S : At(what, S) = {} \/ "Result" \in S \/ "Password" \in S
                    /\ \/ pc' = "running" /\ m.arg = "right" /\ Of(what, Queries) = {}
                       \/ pc' = pc /\ Of(what, Queries) = {1}
                       \/ pc' = "failed"
    <3>1. CASE m.arg = "right" /\ Send(Say("Password")) /\ pc' = "running"
      BY <3>1, SayAt, Names
    <3>2. CASE Send(Result("retry")) /\ pc' = pc
      BY <3>2, ResultAt
    <3>3. CASE Send(Result("bad")) /\ pc' = "failed"
      BY <3>3, ResultAt
    <3> QED
      BY <1>5, <3>1, <3>2, <3>3 DEF CheckPassword
  <2>3. LinkActs(1, what)
    BY <1>1, <2>2 DEF LinkActs
  <2>4. Acknowledges(1, what)
    BY <1>l, <1>s, <2>1, <2>2 DEF Acknowledges, First
  <2>5. Authenticates(1, what)
    <3>1. First({"Password"}) /\ Head(fromNewton).arg = m.arg
      BY <1>l, <2>1 DEF First
    <3>2. CASE pc' = "running" /\ m.arg = "right" /\ Of(what, Queries) = {}
      BY <1>5, <1>s, <3>1, <3>2 DEF Authenticates, Session, Ended
    <3>3. CASE pc' = pc /\ Of(what, Queries) = {1}
      BY <1>5, <1>s, <3>1, <3>3 DEF Authenticates, Session, Ended
    <3>4. CASE pc' = "failed"
      BY <3>4 DEF Authenticates, Session, Ended
    <3> QED
      BY <2>2, <3>2, <3>3, <3>4
  <2>6. KeepsResults(1, what)
    BY <1>l, <1>s, <2>1, <2>2 DEF KeepsResults, ResultCommands
  <2>7. AsksFor(1, what)
    <3>1. pc' = pc => Questions(what, pc') # {}
      BY <1>5, <2>2 DEF Questions
    <3> QED
      BY <1>5, <1>l, <1>s, <2>1, <2>2, <3>1 DEF AsksFor, First, Waits, Dialogue
  <2> QED
    BY <1>o, <2>3, <2>4, <2>5, <2>6, <2>7 DEF Lawful
<1> QED
  BY <1>1, <1>3, <1>4, <1>5

LEMMA EventAdded ==
  ASSUME events \in Seq(Events), NEW e \in Events, events' = Append(events, e)
  PROVE  events' \in Seq(Events)
OBVIOUS

LEMMA QuietSteps ==
  ASSUME DockIInv, InOrder,
         \/ DialogueBreaks \/ GoodbyeBreaks \/ DataPresent \/ PostCommand \/ PostDisconnect
         \/ StopSynchronizing
  PROVE  InOrder' /\ \E d, what : Lawful(d, what)
<1>0. toNewton \in Seq(Message)
  BY DEF DockIInv, TypeOK
<1>1. /\ UNCHANGED <<toNewton, fromNewton, newtonVars, reports, kit, tries, engine, sync>>
      /\ \/ pc' = pc
         \/ pc' = "over"
  BY DEF DialogueBreaks, GoodbyeBreaks, DataPresent, PostCommand, PostDisconnect,
         StopSynchronizing, Posts
<1>2. \E d, what : Lawful(d, what)
  BY <1>0, <1>1, Quiet DEF Ended
<1>3. /\ kit' \in Kits /\ pc' \in Dialogue \cup Session \cup Ended /\ tries' \in 0..2
      /\ engine' \in Engines /\ sync' \in Sync /\ confirmed' \in Nat
      /\ stray' \in BOOLEAN /\ lost' \in BOOLEAN
  BY <1>1 DEF InOrder, Ended, reports
<1>4. interrupted' \in BOOLEAN
  BY DEF InOrder, DialogueBreaks, GoodbyeBreaks, DataPresent, PostCommand, PostDisconnect,
         StopSynchronizing, Posts
<1>5. calls' \in Nat
  BY DEF InOrder, DialogueBreaks, GoodbyeBreaks, DataPresent, PostCommand, PostDisconnect,
         StopSynchronizing
<1>6. events' \in Seq(Events)
  <2>1. CASE DataPresent
    BY <2>1, EventAdded DEF DataPresent, InOrder, Events
  <2>2. CASE PostCommand \/ PostDisconnect
    BY <2>2, EventAdded DEF PostCommand, PostDisconnect, Posts, InOrder, Events
  <2>3. CASE DialogueBreaks \/ GoodbyeBreaks \/ StopSynchronizing
    BY <2>3 DEF DialogueBreaks, GoodbyeBreaks, StopSynchronizing, InOrder
  <2> QED
    BY <2>1, <2>2, <2>3
<1>7. EngineAtWork' /\ InLoops(sync)'
  BY <1>1 DEF EngineAtWork, InLoops, InOrder, Dialogue
<1> QED
  BY <1>2, <1>3, <1>4, <1>5, <1>6, <1>7 DEF InOrder

LEMMA CommandBreaksIs ==
  ASSUME DockIInv, InOrder, CommandBreaks
  PROVE  InOrder' /\ \E d, what : Lawful(d, what)
<1>1. /\ EndOfPipe /\ pc \in {"install", "keyboard"} /\ pc' = "running"
      /\ UNCHANGED <<kit, tries, engine, sync, interrupted, events, toNewton, fromNewton,
                     newtonVars, calls, reports>>
  BY DEF CommandBreaks
<1>2. toNewton \in Seq(Message)
  BY DEF DockIInv, TypeOK
<1>3. pc = "install" => engine = "loadpkg"
  BY DEF InOrder, EngineAtWork
<1>4. InOrder'
  BY <1>1 DEF InOrder, EngineAtWork, InLoops, Session, Dialogue, reports
<1>5. LinkActs(0, <<>>)
  BY <1>1, <1>2, NothingAt, SendNothing DEF LinkActs
<1>6. Acknowledges(0, <<>>) /\ Authenticates(0, <<>>) /\ AsksFor(0, <<>>)
  BY <1>1, NothingAt
     DEF Acknowledges, Authenticates, AsksFor, Stops, Ended, Session, Waits, Dialogue, reports
<1>7. KeepsResults(0, <<>>)
  BY <1>1, <1>3, NothingAt DEF KeepsResults, Owner, Loading, Stops, Ended, reports
<1> QED
  BY <1>4, <1>5, <1>6, <1>7 DEF Lawful

LEMMA GetEchoIs ==
  ASSUME DockIInv, InOrder, GetEcho
  PROVE  InOrder' /\ \E d, what : Lawful(d, what)
<1>1. /\ pc = "keyboard" /\ pc' = "running" /\ fromNewton # <<>>
      /\ fromNewton' = Tail(fromNewton)
      /\ lost' = (lost \/ Head(fromNewton).cmd # "StartKeyboard")
      /\ UNCHANGED <<kit, tries, engine, sync, interrupted, events, toNewton, newtonVars, calls,
                     confirmed, stray>>
  BY DEF GetEcho
<1>2. toNewton \in Seq(Message)
  BY DEF DockIInv, TypeOK
<1>3. InOrder'
  BY <1>1 DEF InOrder, EngineAtWork, InLoops, Session, Dialogue
<1>4. LinkActs(1, <<>>)
  BY <1>1, <1>2, NothingAt, SendNothing DEF LinkActs
<1>5. Acknowledges(1, <<>>)
  BY <1>1, NothingAt DEF Acknowledges, Stops, Ended, First
<1>6. Authenticates(1, <<>>) /\ AsksFor(1, <<>>)
  BY <1>1, NothingAt DEF Authenticates, AsksFor, Ended, Session, Waits, Dialogue
<1>7. KeepsResults(1, <<>>)
  BY <1>1, NothingAt DEF KeepsResults, Owner, Loading, Stops, Ended
<1> QED
  BY <1>3, <1>4, <1>5, <1>6, <1>7 DEF Lawful

LEMMA GoodbyeIs ==
  ASSUME DockIInv, InOrder, Goodbye
  PROVE  InOrder' /\ \E d, what : Lawful(d, what)
<1>1. /\ pc = "goodbye" /\ fromNewton # <<>> /\ fromNewton' = Tail(fromNewton)
      /\ pc' \in Stops /\ (pc' = "goodbye" => fromNewton' # <<>> \/ gone)
      /\ UNCHANGED <<kit, tries, engine, sync, interrupted, events, toNewton, newtonVars, calls,
                     reports>>
  BY DEF Goodbye, Stops, Ended
<1>2. toNewton \in Seq(Message)
  BY DEF DockIInv, TypeOK
<1>3. InOrder'
  BY <1>1 DEF InOrder, EngineAtWork, InLoops, Session, Dialogue, Stops, Ended, reports
<1>4. LinkActs(1, <<>>)
  BY <1>1, <1>2, NothingAt, SendNothing DEF LinkActs
<1>5. Acknowledges(1, <<>>) /\ Authenticates(1, <<>>) /\ AsksFor(1, <<>>)
  BY <1>1, NothingAt
     DEF Acknowledges, Authenticates, AsksFor, Stops, Ended, Session, Waits, Dialogue, reports
<1>6. KeepsResults(1, <<>>)
  BY <1>1, NothingAt DEF KeepsResults, reports
<1> QED
  BY <1>3, <1>4, <1>5, <1>6 DEF Lawful

LEMMA ServeDisconnectIs ==
  ASSUME DockIInv, InOrder, ServeDisconnect
  PROVE  InOrder' /\ \E d, what : Lawful(d, what)
<1> DEFINE what == Say("Disconnect")
<1>1. /\ Send(what) /\ pc' \in {"goodbye"} \cup {"failed"}
      /\ UNCHANGED <<kit, tries, engine, sync, interrupted, fromNewton, newtonVars, calls, reports>>
  BY DEF ServeDisconnect
<1>2. events' \in Seq(Events) /\ pc = "running"
  BY EventTaken DEF ServeDisconnect, InOrder
<1>3. /\ \A S : At(what, S) = IF "Disconnect" \in S THEN {1} ELSE {}
      /\ Of(what, Queries) = {} /\ what \in Seq(Message)
  BY SayAt, Names
<1> HIDE DEF what
<1>4. InOrder'
  BY <1>1, <1>2 DEF InOrder, EngineAtWork, InLoops, Session, Ended, Dialogue, reports
<1>5. LinkActs(0, what)
  BY <1>1, <1>3 DEF LinkActs
<1>6. Acknowledges(0, what) /\ Authenticates(0, what) /\ KeepsResults(0, what)
  BY <1>1, <1>2, <1>3 DEF Acknowledges, Authenticates, KeepsResults, Stops, Ended, Session, reports
<1>7. AsksFor(0, what)
  <2>1. Questions(what, "goodbye") # {}
    BY <1>3 DEF Questions, Question
  <2> QED
    BY <1>1, <2>1 DEF AsksFor, reports, Waits, Dialogue
<1> QED
  BY <1>4, <1>5, <1>6, <1>7 DEF Lawful

LEMMA GetResultIs ==
  ASSUME DockIInv, InOrder, GetResult
  PROVE  InOrder' /\ \E d, what : Lawful(d, what)
<1> DEFINE m == Head(fromNewton)
<1>1. /\ pc = "install" /\ fromNewton # <<>> /\ fromNewton' = Tail(fromNewton)
      /\ UNCHANGED <<kit, tries, engine, sync, interrupted, events, newtonVars, calls, confirmed>>
      /\ \/ /\ m.cmd = "Hello" /\ (Tail(fromNewton) # <<>> \/ gone)
            /\ UNCHANGED <<pc, toNewton, stray, lost>>
         \/ /\ m.cmd = "Hello" /\ InstallPackage /\ stray' = TRUE /\ UNCHANGED lost
         \/ /\ m.cmd = "Result" /\ m.arg = "ok" /\ InstallPackage /\ UNCHANGED <<stray, lost>>
         \/ /\ m.cmd = "Result" /\ m.arg # "ok" /\ pc' = "running"
            /\ UNCHANGED <<toNewton, stray, lost>>
         \/ /\ pc' = "running" /\ stray' = TRUE /\ lost' = TRUE /\ UNCHANGED toNewton
  BY DEF GetResult
<1>2. /\ toNewton \in Seq(Message) /\ engine = "loadpkg"
  BY <1>1 DEF DockIInv, TypeOK, InOrder, EngineAtWork
<1>m. m = Head(fromNewton)
  OBVIOUS
<1> HIDE DEF m
<1>3. InOrder'
  <2>1. pc' \in {"install", "running"} /\ stray' \in BOOLEAN /\ lost' \in BOOLEAN
    BY <1>1 DEF InstallPackage, InOrder
  <2>2. EngineAtWork' /\ InLoops(sync)'
    BY <1>1, <1>2, <2>1 DEF InOrder, EngineAtWork, InLoops, Dialogue
  <2> QED
    BY <1>1, <2>1, <2>2 DEF InOrder, Session
<1>4. CASE /\ m.cmd = "Hello" /\ (Tail(fromNewton) # <<>> \/ gone)
           /\ UNCHANGED <<pc, toNewton, stray, lost>>
  <2>1. LinkActs(1, <<>>)
    BY <1>1, <1>2, <1>4, NothingAt, SendNothing DEF LinkActs
  <2>2. Acknowledges(1, <<>>) /\ Authenticates(1, <<>>) /\ AsksFor(1, <<>>)
    BY <1>1, <1>m, <1>4, NothingAt
       DEF Acknowledges, Authenticates, AsksFor, Stops, Ended, Session, First
  <2>3. KeepsResults(1, <<>>)
    BY <1>1, <1>4, NothingAt DEF KeepsResults, Owner, Loading, Stops, Ended
  <2> QED
    BY <1>3, <2>1, <2>2, <2>3 DEF Lawful
<1>5. ASSUME pc' = "running", \/ m.cmd # "OperationCanceled" /\ UNCHANGED lost
                              \/ lost',
             stray' = TRUE \/ (m.cmd = "Result" /\ UNCHANGED stray),
             NEW what, Send(what), what \in {<<>>, Say("LoadPackage")}
      PROVE  Lawful(1, what)
  <2>1. /\ \A S : At(what, S) = {} \/ (At(what, S) = {1} /\ "LoadPackage" \in S)
        /\ At(what, ResultCommands) \subseteq At(what, {"LoadPackage"})
        /\ Of(what, Queries) = {} /\ what \in Seq(Message)
    <3>1. CASE what = <<>>
      BY <3>1, NothingAt
    <3>2. CASE what = Say("LoadPackage")
      <4>1. \A S : At(what, S) = IF "LoadPackage" \in S THEN {1} ELSE {}
        BY <3>2, SayAt, Names
      <4>2. Of(what, Queries) = {} /\ what \in Seq(Message)
        BY <3>2, SayAt, Names
      <4>3. At(what, {"LoadPackage"}) = {1}
        BY <4>1
      <4> QED
        BY <4>1, <4>2, <4>3
    <3> QED
      BY <1>5, <3>1, <3>2
  <2>2. LinkActs(1, what)
    BY <1>1, <1>5, <2>1 DEF LinkActs
  <2>3. Acknowledges(1, what) /\ Authenticates(1, what) /\ AsksFor(1, what)
    BY <1>1, <1>m, <1>5, <2>1
       DEF Acknowledges, Authenticates, AsksFor, Stops, Ended, Session, First, Waits, Dialogue
  <2>4. KeepsResults(1, what)
    <3>1. confirmed' = confirmed /\ (stray => stray')
      BY <1>1, <1>5
    <3>2. ~stray' => TakesIt(1)
      BY <1>5, <1>m DEF TakesIt, First
    <3>3. Owner' /\ pc \notin Stops
      BY <1>1, <1>2, <1>5 DEF Owner, Loading, Stops, Ended
    <3>4. \A k, l \in At(what, ResultCommands) : k = l
      BY <2>1
    <3> QED
      BY <2>1, <3>1, <3>2, <3>3, <3>4 DEF KeepsResults
  <2> QED
    BY <2>2, <2>3, <2>4 DEF Lawful
<1>6. CASE InstallPackage /\ m.cmd \in {"Hello", "Result"} /\ UNCHANGED lost
           /\ (stray' = TRUE \/ (m.cmd = "Result" /\ UNCHANGED stray))
  <2>1. PICK what \in {<<>>, Say("LoadPackage")} : Send(what)
    BY <1>2, <1>6, SendNothing DEF InstallPackage
  <2>2. Lawful(1, what)
    BY <1>5, <1>6, <2>1 DEF InstallPackage
  <2> QED
    BY <1>3, <2>2
<1>7. CASE /\ pc' = "running" /\ UNCHANGED toNewton
           /\ \/ m.cmd = "Result" /\ UNCHANGED <<stray, lost>>
              \/ stray' = TRUE /\ lost' = TRUE
  <2>1. Send(<<>>)
    BY <1>2, <1>7, SendNothing
  <2>2. Lawful(1, <<>>)
    BY <1>5, <1>7, <2>1
  <2> QED
    BY <1>3, <2>2
<1> QED
  BY <1>1, <1>4, <1>6, <1>7

LEMMA SyncBegins ==
  /\ StartSynchronizing \in Sync /\ StartSynchronizing.state = "WFOptions"
  /\ InLoops(StartSynchronizing)
  /\ NoSync \in Sync /\ InLoops(NoSync)
<1>1. NoSync \in Sync /\ NoSync.state = "Uninitialized"
  <2>1. "Uninitialized" \in States
    BY StatesAre DEF Beginning
  <2> QED
    BY <2>1, SyncAssumption DEF NoSync, Sync
<1>2. StartSynchronizing = [NoSync EXCEPT !.state = "WFOptions"]
  BY DEF StartSynchronizing
<1>3. "WFOptions" \in States
  BY StatesAre DEF Beginning
<1>4. StartSynchronizing \in Sync
  BY <1>1, <1>2, <1>3, PutInSync
<1>5. StartSynchronizing.state = "WFOptions"
  BY <1>2 DEF NoSync
<1>6. InLoops(StartSynchronizing)
  BY <1>2, <1>5 DEF InLoops, AtSoups, InSoup
<1>7. NoSync = [NoSync EXCEPT !.state = NoSync.state]
  BY DEF NoSync
<1>8. InLoops(NoSync)
  BY <1>1, <1>7 DEF InLoops, AtSoups, InSoup
<1> QED
  BY <1>1, <1>4, <1>5, <1>6, <1>8

LEMMA InterruptIs ==
  ASSUME NEW s \in Sync, InLoops(s)
  PROVE  /\ Interrupt(s) \in Sync /\ InLoops(Interrupt(s))
         /\ Interrupt(s).state \in {s.state, "Interrupted"}
<1>1. CASE interrupted
  <2> DEFINE t == [s EXCEPT !.state = "Interrupted"]
  <2>1. "Interrupted" \in States
    BY StatesAre
  <2>2. t \in Sync /\ t.state = "Interrupted"
    <3>1. t \in Sync
      BY <2>1, PutInSync
    <3> QED
      BY <3>1 DEF Sync
  <2>3. Interrupt(s) = t
    BY <1>1 DEF Interrupt
  <2> HIDE DEF t
  <2> QED
    BY <2>2, <2>3 DEF InLoops, Beginning, AtSoups, InSoup
<1>2. CASE ~interrupted
  BY <1>2 DEF Interrupt
<1> QED
  BY <1>1, <1>2

LEMMA ServeCommandIs ==
  ASSUME DockIInv, InOrder, ServeCommand
  PROVE  InOrder' /\ \E d, what : Lawful(d, what)
<1>1. PICK e \in Commands : \/ ServeWithEngine(e) \/ ServeInstall(e) \/ ServeStartKeys(e)
                            \/ ServeSync(e) \/ ServeInVain(e)
  BY DEF ServeCommand
<1>2. events' \in Seq(Events) /\ pc = "running"
  BY EventTaken DEF ServeCommand, InOrder
<1>3. UNCHANGED <<kit, tries, fromNewton, newtonVars, calls, reports>>
  BY DEF ServeCommand
<1>4. toNewton \in Seq(Message) /\ ~(pc \in Stops) /\ pc \in Session /\ pc \notin Ended
  BY <1>2 DEF DockIInv, TypeOK, Stops, Session, Ended
<1>5. UNCHANGED <<confirmed, stray, lost>>
  BY <1>3 DEF reports
<1>6. ASSUME NEW what, Send(what), what \in Seq(Message),
             \A S : At(what, S) # {} =>
               "Keyboard" \in S \/ "OperationCanceled" \in S \/ "RequestToInstall" \in S
                 \/ "StartKeyboard" \in S \/ "GetSyncOptions" \in S,
             Of(what, Queries) = {},
             \/ pc' = pc /\ UNCHANGED <<engine, sync>> /\ At(what, ResultCommands) = {}
             \/ engine = "none" /\ pc' = pc /\ At(what, ResultCommands) = {}
             \/ engine = "none" /\ pc' \in {"install", "keyboard"} /\ Questions(what, pc') # {}
                /\ (pc' = "install" \/ At(what, ResultCommands) = {})
                /\ \A k, l \in At(what, ResultCommands) : k = l
      PROVE  Lawful(0, what)
  <2>1. LinkActs(0, what)
    BY <1>3, <1>6 DEF LinkActs
  <2>2. At(what, {"Disconnect"}) = {} /\ At(what, {"OpCanceledAck"}) = {}
    BY <1>6
  <2>3. Acknowledges(0, what)
    BY <1>4, <1>5, <2>2 DEF Acknowledges
  <2>4. Authenticates(0, what)
    BY <1>2, <1>4, <1>6 DEF Authenticates
  <2>5. AsksFor(0, what)
    BY <1>2, <1>4, <1>5, <1>6 DEF AsksFor, Waits, Dialogue
  <2>6. KeepsResults(0, what)
    <3>1. engine = "none" => ~Owner
      BY <1>2 DEF Owner, Loading
    <3>2. pc' = pc /\ UNCHANGED <<engine, sync>> => (Owner' <=> Owner) /\ (Loading' <=> Loading)
      BY DEF Owner, Loading
    <3>3. pc' = "install" => Owner' /\ ~Loading'
      BY DEF Owner, Loading
    <3> QED
      BY <1>4, <1>5, <1>6, <3>1, <3>2, <3>3 DEF KeepsResults
  <2> QED
    BY <2>1, <2>3, <2>4, <2>5, <2>6 DEF Lawful
<1>7. ASSUME pc' = pc \/ (pc' = "install" /\ engine' = "loadpkg") \/ (pc' = "keyboard" /\ engine' = "keyboard"),
             engine' \in Engines, engine' \in {"keyboard", "sync"} => engine' \in kit.engines,
             \/ UNCHANGED <<engine, sync>>
             \/ engine' # "sync" /\ UNCHANGED sync
             \/ engine' = "sync" /\ sync' = StartSynchronizing,
             interrupted' \in BOOLEAN
      PROVE  InOrder'
  <2>0. /\ sync' \in Sync
        /\ engine' = "sync" => sync'.state \notin {"Uninitialized", "End"}
    BY <1>7, SyncBegins DEF InOrder, EngineAtWork
  <2>1. EngineAtWork'
    BY <1>2, <1>3, <1>7, <2>0 DEF EngineAtWork, Dialogue
  <2>2. InLoops(sync)'
    <3>1. CASE UNCHANGED sync
      BY <3>1 DEF InOrder, InLoops
    <3>2. CASE sync' = StartSynchronizing
      BY <3>2, SyncBegins DEF InLoops
    <3> QED
      BY <1>7, <3>1, <3>2
  <2> QED
    BY <1>2, <1>3, <1>5, <1>7, <2>0, <2>1, <2>2 DEF InOrder, Session
<1>8. /\ engine \in Engines
      /\ engine \in {"keyboard", "sync"} => engine \in kit.engines
      /\ interrupted \in BOOLEAN
  BY DEF InOrder, EngineAtWork
<1>9. CASE ServeWithEngine(e)
  <2>1. PICK what \in {<<>>, Say("Keyboard"), Say("OperationCanceled")} : Send(what)
    BY <1>9 DEF ServeWithEngine
  <2>2. UNCHANGED <<pc, engine, sync, interrupted>>
    BY <1>9 DEF ServeWithEngine
  <2>3. /\ what \in Seq(Message) /\ Of(what, Queries) = {}
        /\ \A S : At(what, S) # {} => "Keyboard" \in S \/ "OperationCanceled" \in S
    <3>1. CASE what = <<>>
      BY <3>1, NothingAt
    <3>2. ASSUME NEW c \in {"Keyboard", "OperationCanceled"}, what = Say(c)
          PROVE  /\ what \in Seq(Message) /\ Of(what, Queries) = {}
                 /\ \A S : At(what, S) # {} => "Keyboard" \in S \/ "OperationCanceled" \in S
      <4>1. c \in DockCommands /\ c # "SetTimeout"
        BY <3>2, Names
      <4>2. /\ what \in Seq(Message) /\ Of(what, Queries) = {}
            /\ \A S : At(what, S) = IF c \in S THEN {1} ELSE {}
        BY <3>2, <4>1, SayAt
      <4> QED
        BY <3>2, <4>2
    <3> QED
      BY <2>1, <3>1, <3>2
  <2>4. At(what, ResultCommands) = {}
    BY <2>3 DEF ResultCommands
  <2>5. InOrder'
    BY <1>7, <1>8, <2>2
  <2> QED
    BY <1>6, <2>1, <2>2, <2>3, <2>4, <2>5
<1>10. CASE ServeInVain(e)
  <2>1. UNCHANGED <<pc, engine, sync, interrupted, toNewton>>
    BY <1>10 DEF ServeInVain
  <2>2. InOrder'
    BY <1>7, <1>8, <2>1
  <2>3. Lawful(0, <<>>)
    BY <1>3, <1>4, <2>1, Quiet
  <2> QED
    BY <2>2, <2>3
<1>11. CASE ServeInstall(e)
  <2>1. /\ engine = "none" /\ engine' = "loadpkg" /\ Send(Say("RequestToInstall"))
        /\ pc' = "install" \/ (pc' = "running" /\ gone)
        /\ UNCHANGED <<sync, interrupted>>
    BY <1>11 DEF ServeInstall
  <2>2. InOrder'
    BY <1>2, <1>7, <1>8, <2>1 DEF Engines
  <2>3. CASE pc' = "install"
    <3> DEFINE what == Say("RequestToInstall")
    <3>1. /\ \A S : At(what, S) = IF "RequestToInstall" \in S THEN {1} ELSE {}
          /\ Of(what, Queries) = {} /\ what \in Seq(Message)
      BY SayAt, Names
    <3>2. Send(what)
      BY <2>1
    <3> HIDE DEF what
    <3>3. Questions(what, pc') # {} /\ \A k, l \in At(what, ResultCommands) : k = l
      BY <2>3, <3>1 DEF Questions, Question
    <3>4. Lawful(0, what)
      BY <1>6, <2>1, <2>3, <3>1, <3>2, <3>3
    <3> QED
      BY <2>2, <3>4
  <2>4. CASE pc' = "running" /\ gone
    <3>1. Send(<<>>)
      BY <2>1, <2>4 DEF Send
    <3>2. Lawful(0, <<>>)
      BY <1>2, <1>6, <2>1, <2>4, <3>1, NothingAt
    <3> QED
      BY <2>2, <3>2
  <2> QED
    BY <2>1, <2>3, <2>4
<1>12. CASE ServeStartKeys(e)
  <2> DEFINE what == Say("StartKeyboard")
  <2>1. /\ engine = "none" /\ engine' = "keyboard" /\ "keyboard" \in kit.engines /\ Send(what)
        /\ pc' = "keyboard" \/ pc' = "running"
        /\ UNCHANGED <<sync, interrupted>>
    BY <1>12 DEF ServeStartKeys
  <2>2. InOrder'
    BY <1>2, <1>7, <1>8, <2>1 DEF Engines
  <2>3. /\ \A S : At(what, S) = IF "StartKeyboard" \in S THEN {1} ELSE {}
        /\ Of(what, Queries) = {} /\ what \in Seq(Message)
    BY SayAt, Names
  <2> HIDE DEF what
  <2>4. At(what, ResultCommands) = {}
    BY <2>3 DEF ResultCommands
  <2>5. pc' = "keyboard" => Questions(what, pc') # {}
    <3>1. At(what, {"StartKeyboard"}) = {1}
      BY <2>3
    <3>2. Question["keyboard"] = "StartKeyboard"
      BY DEF Question
    <3>3. pc' = "keyboard" => Questions(what, pc') = {1}
      BY <3>1, <3>2 DEF Questions
    <3> QED
      BY <3>3
  <2>6. Lawful(0, what)
    BY <1>2, <1>6, <2>1, <2>3, <2>4, <2>5
  <2> QED
    BY <2>2, <2>6
<1>13. CASE ServeSync(e)
  <2> DEFINE what == Say("GetSyncOptions")
  <2>1. /\ engine = "none" /\ engine' = "sync" /\ "sync" \in kit.engines /\ Send(what)
        /\ sync' = StartSynchronizing /\ interrupted' = FALSE /\ UNCHANGED pc
    BY <1>13 DEF ServeSync
  <2>2. InOrder'
    BY <1>7, <1>8, <2>1, SyncBegins DEF Engines
  <2>3. /\ \A S : At(what, S) = IF "GetSyncOptions" \in S THEN {1} ELSE {}
        /\ Of(what, Queries) = {} /\ what \in Seq(Message)
    BY SayAt, Names
  <2> HIDE DEF what
  <2>4. At(what, ResultCommands) = {}
    BY <2>3 DEF ResultCommands
  <2>5. Lawful(0, what)
    BY <1>6, <2>1, <2>3, <2>4
  <2> QED
    BY <2>2, <2>5
<1> QED
  BY <1>1, <1>9, <1>10, <1>11, <1>12, <1>13

-----------------------------------------------------------------------------
(* A message of the Newton while the link is running.                      *)

\* What the engine for synchronisation asks for, and what it gets.
LEMMA AskedIs ==
  /\ \A s \in DOMAIN Asked :
       /\ Asked[s] \in DockCommands
       /\ Asked[s] \notin {"Disconnect", "OpCanceledAck", "SetTimeout"}
       /\ Asked[s] \in ResultCommands => s \in ResultStates \ {"Interrupted", "End"}
  /\ \A s \in Answered :
       /\ Awaited[s] # "OperationCanceled"
       /\ s \in ResultStates => Awaited[s] \in {"Result", "AddedID"}
<1>1. ResultStates = {"WFSetStoreResult", "WFSetStoreResult2", "WFSetStoreToDefaultResult",
                      "WFModifiedResult", "WFAddedID", "Interrupted"}
  BY DEF ResultStates, States, Awaited
<1>2. \A s \in DOMAIN Asked : Asked[s] \in DockCommands
  BY Names
<1>3. \A s \in DOMAIN Asked : Asked[s] \notin {"Disconnect", "OpCanceledAck", "SetTimeout"}
  BY DEF Asked
<1>4. \A s \in DOMAIN Asked : Asked[s] \in ResultCommands => s \in ResultStates \ {"Interrupted", "End"}
  BY <1>1 DEF Asked, ResultCommands
<1>5. \A s \in Answered : Awaited[s] # "OperationCanceled"
  BY DEF Answered, AtSoups, InSoup, Awaited
<1>6. \A s \in Answered : s \in ResultStates => Awaited[s] \in {"Result", "AddedID"}
  BY <1>1 DEF Answered, AtSoups, InSoup, Awaited
<1> QED
  BY <1>2, <1>3, <1>4, <1>5, <1>6

\* What remains to be shown of a step of the running link that reads a message.
Speaks(what) ==
  /\ At(what, {"Disconnect"}) = {} /\ Of(what, Queries) = {}
  /\ At(what, {"OpCanceledAck"}) # {} => First({"OperationCanceled"})
  /\ \A k, l \in At(what, {"OpCanceledAck"}) : k = l
  /\ First({"OperationCanceled"}) => lost' \/ At(what, {"OpCanceledAck"}) # {}

LEMMA WhileRunning ==
  ASSUME toNewton \in Seq(Message), fromNewton # <<>>, fromNewton' = Tail(fromNewton),
         pc = "running", pc' \in {"running", "over"}, UNCHANGED newtonVars, lost => lost',
         NEW what \in Seq(Message), Send(what), pc' = "running" => Speaks(what),
         KeepsResults(1, what)
  PROVE  Lawful(1, what)
<1>1. LinkActs(1, what)
  BY DEF LinkActs
<1>2. Acknowledges(1, what)
  BY DEF Acknowledges, Speaks, Stops, Ended
<1>3. Authenticates(1, what)
  BY DEF Authenticates, Speaks, Session, Ended
<1>4. AsksFor(1, what)
  BY DEF AsksFor, Waits, Dialogue
<1> QED
  BY <1>1, <1>2, <1>3, <1>4 DEF Lawful

\* What the link says when no engine keeps the message.
LEMMA LinkSpeaks ==
  ASSUME kit \in Kits, NEW m \in Message, m = Head(fromNewton),
         NEW w \in {<<>>, Say("OperationDone")}, NEW what, what = w \o LinkServes(m).sent
  PROVE  /\ what \in Seq(Message) /\ Speaks(what) /\ At(what, ResultCommands) = {}
<1> DEFINE sent == LinkServes(m).sent
<1>1. /\ w \in Seq(Message) /\ Of(w, Queries) = {}
      /\ \A S : "OperationDone" \notin S => At(w, S) = {}
  <2>1. CASE w = <<>>
    BY <2>1, NothingAt
  <2>2. CASE w = Say("OperationDone")
    BY <2>2, SayAt, Names
  <2> QED
    BY <2>1, <2>2
<1>2. /\ sent \in Seq(Message) /\ Len(sent) <= 1
      /\ \A i \in 1..Len(sent) :
           /\ sent[i].cmd \in {"Result", "GetSyncOptions", "OpCanceledAck", "UnknownCommand"}
           /\ sent[i].arg # "retry"
           /\ sent[i].cmd = "OpCanceledAck" => m.cmd = "OperationCanceled"
      /\ m.cmd = "OperationCanceled" => sent = Say("OpCanceledAck")
  BY LinkServesIs
<1> HIDE DEF sent
<1>3. /\ DOMAIN sent = 1..Len(sent) /\ Len(sent) \in Nat
      /\ \A k, l \in DOMAIN sent : k = l
  BY <1>2
<1>4. /\ Of(sent, Queries) = {} /\ At(sent, {"Disconnect"}) = {} /\ At(sent, ResultCommands) = {}
      /\ At(sent, {"OpCanceledAck"}) # {} => m.cmd = "OperationCanceled"
      /\ \A k, l \in At(sent, {"OpCanceledAck"}) : k = l
  BY <1>2, <1>3 DEF Of, At, Queries, AsksPassword, ResultCommands
<1>5. m.cmd = "OperationCanceled" => At(sent, {"OpCanceledAck"}) # {}
  <2>1. "OpCanceledAck" \in DockCommands
    BY Names
  <2>2. At(Say("OpCanceledAck"), {"OpCanceledAck"}) = {1}
    BY <2>1, SayAt
  <2> QED
    BY <1>2, <2>2
<1>6. what \in Seq(Message) /\ Len(w) \in Nat /\ Len(sent) \in Nat
  BY <1>1, <1>2 DEF sent
<1>7. Of(what, Queries) = {}
  <2>1. \A i \in Of(what, Queries) : i \in Of(w, Queries) \/ \E k \in Of(sent, Queries) : i = Len(w) + k
    BY <1>1, <1>2, JoinedOf DEF sent
  <2> QED
    BY <1>1, <1>4, <2>1
<1>8. ASSUME NEW S, "OperationDone" \notin S
      PROVE  /\ \A i \in At(what, S) : \E k \in At(sent, S) : i = Len(w) + k
             /\ \A k \in At(sent, S) : Len(w) + k \in At(what, S)
  <2> DEFINE M == {x \in Message : x.cmd \in S}
  <2>1. At(what, S) = Of(what, M) /\ At(w, S) = Of(w, M) /\ At(sent, S) = Of(sent, M)
    BY <1>1, <1>2, <1>6, AtIs
  <2> HIDE DEF M
  <2>2. /\ \A i \in Of(what, M) : i \in Of(w, M) \/ \E k \in Of(sent, M) : i = Len(w) + k
        /\ \A k \in Of(sent, M) : Len(w) + k \in Of(what, M)
    BY <1>1, <1>2, JoinedOf DEF sent
  <2> QED
    BY <1>1, <1>8, <2>1, <2>2
<1>9. At(what, {"Disconnect"}) = {} /\ At(what, ResultCommands) = {}
  <2>1. "OperationDone" \notin ResultCommands
    BY DEF ResultCommands
  <2> QED
    BY <1>4, <1>8, <2>1
<1>10. /\ At(what, {"OpCanceledAck"}) # {} => m.cmd = "OperationCanceled"
       /\ \A k, l \in At(what, {"OpCanceledAck"}) : k = l
       /\ m.cmd = "OperationCanceled" => At(what, {"OpCanceledAck"}) # {}
  BY <1>4, <1>5, <1>8
<1> QED
  BY <1>6, <1>7, <1>9, <1>10 DEF Speaks, First

\* Each way to serve a message keeps the link in order, says what it may say, and
\* keeps the result that is to come.
LEMMA ServedKeepsOrder ==
  ASSUME InOrder, pc = "running", UNCHANGED <<kit, tries, calls>>, events' \in Seq(Events),
         NEW m \in Message, NEW what, Served(m, what)
  PROVE  InOrder' /\ pc' \in {"running", "over"} /\ (lost => lost')
<1>1. /\ pc' \in {"running", "over"} /\ confirmed' \in Nat /\ stray' \in BOOLEAN /\ lost' \in BOOLEAN
      /\ interrupted' \in BOOLEAN
      /\ lost => lost'
  <2>1. CASE ServedThrows(m, what)
    BY <2>1 DEF ServedThrows, InOrder
  <2>2. CASE ServedReply(m, what) \/ ServedFile(m, what)
    BY <2>2 DEF ServedReply, ServedFile, InOrder, reports
  <2>3. CASE ServedResult(m, what) \/ ServedSync(m, what)
    BY <2>3 DEF ServedResult, ServedSync, InOrder, reports
  <2>4. CASE ServedHello(m, what)
    BY <2>4 DEF ServedHello, InOrder
  <2>5. CASE ServedByLink(m, what)
    <3>1. (stray \/ engine = "loadpkg" \/ SyncGivesUp(m)) \in BOOLEAN
      OBVIOUS
    <3> QED
      BY <2>5, <3>1 DEF ServedByLink, InOrder
  <2> QED
    BY <2>1, <2>2, <2>3, <2>4, <2>5 DEF Served
<1>2. /\ engine' \in Engines /\ sync' \in Sync
      /\ engine' \in {"keyboard", "sync"} => engine' \in kit.engines
      /\ engine' = "sync" => sync'.state \notin {"Uninitialized", "End"}
      /\ InLoops(sync)'
  <2>o. /\ engine \in Engines /\ sync \in Sync
        /\ engine \in {"keyboard", "sync"} => engine \in kit.engines
        /\ engine = "sync" => sync.state \notin {"Uninitialized", "End"}
        /\ InLoops(sync)
    BY DEF InOrder, EngineAtWork
  <2>u. ASSUME sync' \in Sync, sync' \in {sync, Interrupt(sync), StartSynchronizing, NoSync}
        PROVE  InLoops(sync)'
    <3>1. CASE UNCHANGED sync
      BY <2>o, <3>1 DEF InLoops
    <3>2. CASE sync' = Interrupt(sync)
      BY <2>o, <3>2, InterruptIs DEF InLoops
    <3>3. CASE sync' \in {StartSynchronizing, NoSync}
      BY <3>3, SyncBegins DEF InLoops
    <3> QED
      BY <2>u, <3>1, <3>2, <3>3
  <2>1. CASE ServedThrows(m, what) \/ ServedReply(m, what) \/ ServedFile(m, what) \/ ServedResult(m, what)
    <3>1. /\ engine' \in {engine, "loadpkg", "none"} /\ UNCHANGED sync
      BY <2>1 DEF ServedThrows, ServedReply, ServedFile, ServedResult
    <3> QED
      BY <2>o, <2>u, <3>1 DEF Engines
  <2>2. CASE ServedSync(m, what)
    <3>1. PICK t : Follow(t) /\ sync' = Interrupt(t)
      BY <2>2 DEF ServedSync
    <3>2. /\ sync' \in Sync /\ InLoops(sync')
          /\ sync'.state # "Uninitialized"
      BY <3>1, InterruptIs DEF Follow
    <3>3. engine' = IF sync'.state = "End" THEN "none" ELSE engine
      BY <2>2 DEF ServedSync
    <3> QED
      BY <2>o, <3>2, <3>3 DEF InLoops, Engines
  <2>3. CASE ServedHello(m, what)
    <3>1. engine' \in {engine, "none"} /\ sync' \in {sync, Interrupt(sync)}
      BY <2>3 DEF ServedHello
    <3>2. sync' \in Sync /\ sync'.state \in {sync.state, "Interrupted"}
      BY <2>o, <3>1, InterruptIs
    <3> QED
      BY <2>o, <2>u, <3>1, <3>2 DEF Engines
  <2>4. CASE ServedByLink(m, what)
    <3>1. /\ engine' \in {"none", "browse", "keyboard", "sync"}
          /\ engine' \in {"keyboard", "sync"} => engine' \in kit.engines
          /\ \/ engine' = "sync" /\ sync' = StartSynchronizing
             \/ engine' # "sync" /\ sync' \in {sync, NoSync}
      BY <2>4, LinkServesIs DEF ServedByLink, InOrder
    <3>2. sync' \in Sync
      BY <2>o, <3>1, SyncBegins
    <3>3. engine' = "sync" => sync'.state \notin {"Uninitialized", "End"}
      BY <3>1, SyncBegins
    <3> QED
      BY <2>u, <3>1, <3>2, <3>3 DEF Engines
  <2> QED
    BY <2>1, <2>2, <2>3, <2>4 DEF Served
<1>3. EngineAtWork'
  BY <1>1, <1>2 DEF EngineAtWork, Dialogue, InOrder
<1> QED
  BY <1>1, <1>2, <1>3 DEF InOrder, Session, Ended

LEMMA ServedSpeaks ==
  ASSUME kit \in Kits, pc = "running", pc' = "running",
         NEW m \in Message, m = Head(fromNewton), NEW what, Served(m, what)
  PROVE  Speaks(what)
<1>1. CASE ServedThrows(m, what) \/ ServedResult(m, what)
  <2>1. what = <<>> /\ (m.cmd = "OperationCanceled" => lost')
    BY <1>1 DEF ServedThrows, ServedResult
  <2> QED
    BY <2>1, NothingAt DEF Speaks, First
<1>2. ASSUME NEW cmd \in DockCommands \ {"Disconnect", "OpCanceledAck", "SetTimeout"},
             what = Say(cmd), m.cmd # "OperationCanceled"
      PROVE  Speaks(what)
  BY <1>2, SayAt DEF Speaks, First
<1>3. CASE ServedReply(m, what)
  BY <1>2, <1>3, Names DEF ServedReply
<1>4. CASE ServedFile(m, what)
  BY <1>2, <1>4, Names DEF ServedFile
<1>5. CASE ServedSync(m, what)
  <2>1. PICK t : Follow(t) /\ what = Say(Asked[t.state])
    BY <1>5 DEF ServedSync
  <2>2. t.state \in DOMAIN Asked
    BY <2>1 DEF Follow, Sync, States, Awaited, Asked
  <2>3. m.cmd # "OperationCanceled"
    BY <1>5, AskedIs DEF ServedSync
  <2>4. Asked[t.state] \in DockCommands \ {"Disconnect", "OpCanceledAck", "SetTimeout"}
    BY <2>2, AskedIs
  <2> QED
    BY <1>2, <2>1, <2>3, <2>4
<1>6. CASE ServedHello(m, what)
  <2>1. m.cmd # "OperationCanceled" /\ what \in {<<>>, Say("OperationDone")}
    BY <1>6 DEF ServedHello
  <2>2. CASE what = <<>>
    BY <2>1, <2>2, NothingAt DEF Speaks, First
  <2> QED
    BY <1>2, <2>1, <2>2, Names
<1>7. CASE ServedByLink(m, what)
  BY <1>7, LinkSpeaks DEF ServedByLink
<1> QED
  BY <1>1, <1>3, <1>4, <1>5, <1>6, <1>7 DEF Served

LEMMA ServedKeepsResults ==
  ASSUME InOrder, pc = "running", NEW m \in Message, m = Head(fromNewton), NEW what, Served(m, what)
  PROVE  KeepsResults(1, what)
<1>1. pc \notin Stops
  BY DEF Stops, Ended
<1>2. ASSUME ~stray', pc' \notin Stops, At(what, ResultCommands) = {}, Owner => Owner' \/ TakesIt(1),
             Loading' => Loading \/ ~Owner, stray => stray', confirmed' = confirmed
      PROVE  KeepsResults(1, what)
  BY <1>1, <1>2 DEF KeepsResults
<1>3. CASE ServedThrows(m, what)
  <2>1. /\ At(what, ResultCommands) = {} /\ UNCHANGED <<pc, sync, confirmed, stray>>
        /\ engine' = engine \/ (engine = "browse" /\ engine' = "loadpkg")
    BY <1>3, NothingAt DEF ServedThrows
  <2>2. Owner => Owner'
    BY <2>1 DEF Owner, Loading
  <2>3. Loading' => Loading \/ ~Owner
    BY <2>1 DEF Owner, Loading
  <2> QED
    BY <1>1, <2>1, <2>2, <2>3 DEF KeepsResults
<1>4. CASE ServedReply(m, what)
  <2>1. /\ UNCHANGED <<pc, engine, sync, confirmed, stray>> /\ what = Say("BrowseReply")
    BY <1>4 DEF ServedReply, reports
  <2>2. At(what, ResultCommands) = {}
    <3>1. "BrowseReply" \in DockCommands /\ "BrowseReply" \notin ResultCommands
      BY Names DEF ResultCommands
    <3> QED
      BY <2>1, <3>1, SayAt
  <2>3. (Owner => Owner') /\ (Loading' => Loading)
    BY <2>1 DEF Owner, Loading
  <2> QED
    BY <1>1, <2>1, <2>2, <2>3 DEF KeepsResults
<1>5. CASE ServedFile(m, what)
  BY <1>5 DEF ServedFile, KeepsResults
<1>6. CASE ServedResult(m, what)
  <2>1. /\ what = <<>> /\ Loading /\ ~Loading' /\ confirmed' = confirmed + 1
        /\ First({"Result"}) /\ Head(fromNewton).arg = "ok" /\ UNCHANGED stray /\ TakesIt(1)
    BY <1>6 DEF ServedResult, Loading, First, TakesIt
  <2> QED
    BY <1>1, <2>1, NothingAt DEF KeepsResults
<1>7. CASE ServedSync(m, what)
  <2>1. PICK t : Follow(t) /\ sync' = Interrupt(t) /\ what = Say(Asked[t.state])
    BY <1>7 DEF ServedSync
  <2>2. t.state \in DOMAIN Asked
    BY <2>1 DEF Follow, Sync, States, Awaited, Asked
  <2>3. /\ engine = "sync" /\ engine' = IF sync'.state = "End" THEN "none" ELSE "sync"
        /\ UNCHANGED <<pc, confirmed, stray>>
        /\ sync.state \in Answered /\ m.cmd = Awaited[sync.state]
    BY <1>7 DEF ServedSync, reports
  <2>4. ~Loading /\ ~Loading'
    BY <2>3 DEF Loading
  <2>5. Owner => TakesIt(1)
    <3>1. Owner => sync.state \in ResultStates
      BY <2>3 DEF Owner, Loading
    <3> QED
      BY <2>3, <3>1, AskedIs DEF TakesIt, First
  <2>6. \A S : At(what, S) = IF Asked[t.state] \in S THEN {1} ELSE {}
    BY <2>1, <2>2, AskedIs, SayAt
  <2>7. Asked[t.state] \in ResultCommands => Owner'
    <3>1. ASSUME Asked[t.state] \in ResultCommands
          PROVE  sync'.state \in ResultStates /\ sync'.state # "End"
      <4>1. t.state \in ResultStates \ {"Interrupted", "End"}
        BY <2>2, <3>1, AskedIs
      <4>2. sync'.state \in {t.state, "Interrupted"}
        BY <2>1, InterruptIs DEF Follow
      <4> QED
        BY <4>1, <4>2 DEF ResultStates
    <3> QED
      BY <2>3, <3>1 DEF Owner
  <2> QED
    BY <1>1, <2>3, <2>4, <2>5, <2>6, <2>7 DEF KeepsResults
<1>8. CASE ServedHello(m, what)
  <2>1. At(what, ResultCommands) = {}
    <3>1. what \in {<<>>, Say("OperationDone")}
      BY <1>8 DEF ServedHello
    <3>2. "OperationDone" \in DockCommands /\ "OperationDone" \notin ResultCommands
      BY Names DEF ResultCommands
    <3>3. At(Say("OperationDone"), ResultCommands) = {}
      BY <3>2, SayAt
    <3> QED
      BY <3>1, <3>3, NothingAt
  <2>2. /\ UNCHANGED confirmed
        /\ stray => stray'
        /\ ~stray' /\ pc' \notin Stops =>
             pc' = pc /\ engine' = engine /\ engine # "loadpkg" /\ sync' \in {sync, Interrupt(sync)}
    BY <1>8 DEF ServedHello, Stops, Ended
  <2>3. ASSUME ~stray', pc' \notin Stops
        PROVE  (Owner => Owner') /\ ~Loading'
    <3>1. sync'.state \in {sync.state, "Interrupted"}
      BY <2>2, <2>3, InterruptIs DEF InOrder
    <3>2. sync.state \in ResultStates => sync'.state \in ResultStates
      BY <3>1 DEF ResultStates
    <3> QED
      BY <2>2, <2>3, <3>2 DEF Owner, Loading
  <2> QED
    BY <1>1, <2>1, <2>2, <2>3 DEF KeepsResults
<1>9. CASE ServedByLink(m, what)
  <2>1. At(what, ResultCommands) = {}
    BY <1>9, LinkSpeaks DEF ServedByLink, InOrder
  <2>2. /\ UNCHANGED confirmed
        /\ stray => stray'
        /\ ~stray' => engine # "loadpkg" /\ ~SyncGivesUp(m)
        /\ engine' # "loadpkg"
    BY <1>9, LinkServesIs DEF ServedByLink, InOrder
  <2>3. ASSUME ~stray'
        PROVE  (Owner => TakesIt(1)) /\ ~Loading'
    BY <2>2, <2>3 DEF Owner, Loading, SyncGivesUp, TakesIt, First
  <2> QED
    BY <1>1, <2>1, <2>2, <2>3 DEF KeepsResults
<1> QED
  BY <1>3, <1>4, <1>5, <1>6, <1>7, <1>8, <1>9 DEF Served

LEMMA ServeDataIs ==
  ASSUME DockIInv, InOrder, ServeData
  PROVE  InOrder' /\ \E d, what : Lawful(d, what)
<1>1. /\ events' \in Seq(Events) /\ pc = "running" /\ UNCHANGED <<kit, tries, newtonVars, calls>>
      /\ toNewton \in Seq(Message) /\ fromNewton \in Seq(Message)
  BY EventTaken DEF ServeData, InOrder, DockIInv, TypeOK
<1>2. CASE fromNewton = <<>>
  <2>1. /\ pc' = IF gone THEN "over" ELSE pc
        /\ UNCHANGED <<engine, sync, interrupted, toNewton, fromNewton, reports>>
    BY <1>2 DEF ServeData
  <2>2. InOrder'
    BY <1>1, <2>1 DEF InOrder, EngineAtWork, InLoops, Session, Ended, Dialogue, reports
  <2>3. Lawful(0, <<>>)
    BY <1>1, <2>1, Quiet DEF Ended
  <2> QED
    BY <2>2, <2>3
<1>3. CASE fromNewton # <<>>
  <2>1. PICK what \in Seq(Message) : Send(what) /\ Served(Head(fromNewton), what)
    BY <1>1, <1>3, Serving DEF InOrder, EngineAtWork
  <2>2. fromNewton' = Tail(fromNewton) /\ Head(fromNewton) \in Message
    BY <1>1, <1>3, Taken DEF ServeData
  <2>3. InOrder' /\ pc' \in {"running", "over"} /\ (lost => lost')
    BY <1>1, <2>1, <2>2, ServedKeepsOrder
  <2>4. pc' = "running" => Speaks(what)
    BY <1>1, <2>1, <2>2, ServedSpeaks DEF InOrder
  <2>5. KeepsResults(1, what)
    BY <1>1, <2>1, <2>2, ServedKeepsResults
  <2>6. Lawful(1, what)
    BY <1>1, <1>3, <2>1, <2>2, <2>3, <2>4, <2>5, WhileRunning
  <2> QED
    BY <2>3, <2>6
<1> QED
  BY <1>2, <1>3

-----------------------------------------------------------------------------
(* The steps together.                                                     *)

LEMMA InitIs ==
  ASSUME Init
  PROVE  DockIInv /\ Authenticated
<1>1. /\ kit \in Kits /\ pc = "dock" /\ tries = 0 /\ engine = "none" /\ sync = NoSync
      /\ interrupted = FALSE /\ events = <<>> /\ toNewton = <<>> /\ fromNewton = <<>>
      /\ mode = "away" /\ waiting = "none" /\ gone = FALSE /\ calls = 0 /\ turns = 0
      /\ password = "none" /\ accepted = 0 /\ confirmed = 0 /\ stray = FALSE /\ lost = FALSE
  BY DEF Init
<1>2. TypeOK /\ EngineAtWork /\ InLoops(sync)
  <2>1. sync \in Sync /\ InLoops(sync)
    BY <1>1, SyncBegins
  <2>2. mode \in DOMAIN MayAsk
    BY <1>1 DEF MayAsk
  <2>3. EngineAtWork
    BY <1>1 DEF EngineAtWork
  <2>4. interrupted \in BOOLEAN /\ gone \in BOOLEAN /\ stray \in BOOLEAN /\ lost \in BOOLEAN
    BY <1>1
  <2>5. /\ events \in Seq(Commands \cup {"data", "disconnect"})
        /\ toNewton \in Seq(Message) /\ fromNewton \in Seq(Message)
    BY <1>1
  <2>6. /\ pc \in Dialogue /\ engine \in Engines /\ tries \in 0..2
        /\ {calls, turns, accepted, confirmed} \subseteq Nat
    BY <1>1 DEF Dialogue, Engines
  <2> QED
    BY <1>1, <2>1, <2>2, <2>3, <2>4, <2>5, <2>6 DEF TypeOK
<1>3. \A S : At(toNewton, S) = {} /\ At(fromNewton, S) = {}
  BY <1>1, NothingAt
<1>4. OnePassword
  BY <1>1, <1>3 DEF OnePassword, AtMostOne, PasswordAsked, PasswordGiven, Ended
<1>5. OneCancel
  BY <1>1, <1>3 DEF OneCancel, AtMostOne, Acks, Cancels, Results
<1>6. AnswerToCome
  BY <1>1 DEF AnswerToCome
<1>7. OneResult
  BY <1>1, <1>3 DEF OneResult, AtMostOne, ResultsAsked, Results
<1>8. Authenticated
  BY <1>1 DEF Authenticated, Session
<1> QED
  BY <1>2, <1>4, <1>5, <1>6, <1>7, <1>8 DEF DockIInv

\* Every step of the link is lawful, ...
LEMMA LinkIsLawful ==
  ASSUME DockIInv, InOrder,
         \/ LinkStep \/ DataPresent \/ PostCommand \/ PostDisconnect \/ StopSynchronizing
  PROVE  InOrder' /\ \E d, what : Lawful(d, what)
BY QuietSteps, DialogueStepIs, ServeDataIs, ServeCommandIs, GetResultIs, GetEchoIs, CommandBreaksIs,
   ServeDisconnectIs, GoodbyeIs DEF LinkStep

\* ... and a lawful step keeps the invariant, ...
LEMMA LinkKeeps ==
  ASSUME DockAssumption, DockIInv, InOrder', NEW d, NEW what, Lawful(d, what)
  PROVE  DockIInv' /\ (Authenticated => Authenticated')
<1>1. /\ toNewton \in Seq(Message) /\ fromNewton \in Seq(Message)
      /\ confirmed \in Nat /\ accepted \in Nat
      /\ mode \in DOMAIN MayAsk /\ waiting \in Asks \cup {"none"} /\ gone \in BOOLEAN
      /\ turns \in Nat /\ password \in {"none", "right", "wrong"}
  BY DEF DockIInv, TypeOK
<1>2. /\ LinkActs(d, what) /\ Acknowledges(d, what) /\ Authenticates(d, what)
      /\ KeepsResults(d, what) /\ AsksFor(d, what)
  BY DEF Lawful
<1>3. OnePassword /\ OneCancel /\ AnswerToCome /\ OneResult
  BY DEF DockIInv
<1>4. TypeOK' /\ EngineAtWork' /\ InLoops(sync)'
  <2>1. toNewton' \in Seq(Message) /\ fromNewton' \in Seq(Message)
    BY <1>1, <1>2, LinkActsAt
  <2>2. UNCHANGED newtonVars
    BY <1>2 DEF LinkActs
  <2>3. /\ mode' \in DOMAIN MayAsk /\ waiting' \in Asks \cup {"none"} /\ gone' \in BOOLEAN
        /\ turns' \in Nat /\ accepted' \in Nat /\ password' \in {"none", "right", "wrong"}
    BY <1>1, <2>2 DEF newtonVars
  <2> QED
    BY <2>1, <2>3 DEF TypeOK, InOrder, Events
<1>5. OneCancel'
  BY <1>1, <1>2, <1>3, CancelsByLink
<1>6. OnePassword' /\ (Authenticated => Authenticated')
  BY <1>1, <1>2, <1>3, PasswordByLink
<1>7. AnswerToCome'
  BY <1>1, <1>2, <1>3, AnswersByLink
<1>8. OneResult'
  BY <1>1, <1>2, <1>3, ResultsByLink
<1> QED
  BY <1>4, <1>5, <1>6, <1>7, <1>8 DEF DockIInv

\* ... as does a step of the Newton.
NewtonSteps == NewtonReads \/ NewtonDocks \/ NewtonAsks \/ NewtonSaysHello \/ NewtonLeaves

LEMMA NewtonIsInOrder ==
  ASSUME DockIInv, NewtonSteps
  PROVE  TypeOK' /\ EngineAtWork' /\ InLoops(sync)'
<1>0. /\ toNewton \in Seq(Message) /\ fromNewton \in Seq(Message)
      /\ mode \in DOMAIN MayAsk /\ waiting \in Asks \cup {"none"} /\ gone \in BOOLEAN
      /\ turns \in Nat /\ accepted \in Nat /\ password \in {"none", "right", "wrong"}
      /\ TypeOK /\ EngineAtWork /\ InLoops(sync)
  BY DEF DockIInv, TypeOK
<1>1. /\ UNCHANGED linkVars
      /\ UNCHANGED reports
      /\ calls' = calls
      /\ toNewton' \in Seq(Message) /\ fromNewton' \in Seq(Message)
      /\ mode' \in DOMAIN MayAsk /\ waiting' \in Asks \cup {"none"} /\ gone' \in BOOLEAN
      /\ turns' \in Nat /\ accepted' \in Nat /\ password' \in {"none", "right", "wrong"}
  <2>1. CASE NewtonReads
    <3> DEFINE m == Head(toNewton)
    <3>1. /\ gone' = gone /\ toNewton # <<>> /\ m \in Message
          /\ toNewton' = Tail(toNewton) /\ UNCHANGED linkVars /\ UNCHANGED reports
          /\ turns' = turns /\ calls' = calls
          /\ \E w : /\ Adds(w)
                    /\ \/ w = {} /\ UNCHANGED <<password, accepted>>
                       \/ /\ w # {} /\ IsAsked(m)
                          /\ \A a \in w :
                               /\ a \in AnswersTo(m)
                               /\ password' = IF a.cmd = "Password" THEN a.arg ELSE password
                               /\ accepted' = accepted +
                                    (IF m.cmd = "LoadPackage" /\ a.arg = "ok" THEN 1 ELSE 0)
          /\ mode' = mode \/ mode' = ModeAfter(m)
          /\ waiting' \in {waiting, "none"}
      BY <1>0, <2>1, NewtonReadsIs
    <3> HIDE DEF m
    <3>2. PICK w : /\ Adds(w)
                   /\ \/ w = {} /\ UNCHANGED <<password, accepted>>
                      \/ /\ w # {} /\ IsAsked(m)
                         /\ \A a \in w :
                              /\ a \in AnswersTo(m)
                              /\ password' = IF a.cmd = "Password" THEN a.arg ELSE password
                              /\ accepted' = accepted +
                                   (IF m.cmd = "LoadPackage" /\ a.arg = "ok" THEN 1 ELSE 0)
      BY <3>1
    <3>3. fromNewton' \in Seq(Message)
      BY <1>0, <3>2, AddsAt
    <3>4. toNewton' \in Seq(Message)
      BY <1>0, <3>1, Taken
    <3>5. mode' \in DOMAIN MayAsk
      <4>1. DOMAIN MayAsk = {"free", "browse", "keyboard", "sync", "docking", "away", "closed"}
        BY DEF MayAsk
      <4>2. ModeAfter(m) \in {"closed", "browse", "sync", "keyboard", "free", mode}
        BY DEF ModeAfter
      <4> QED
        BY <1>0, <3>1, <4>1, <4>2
    <3>6. accepted' \in Nat /\ password' \in {"none", "right", "wrong"}
      <4>1. CASE w = {}
        BY <1>0, <3>2, <4>1
      <4>2. CASE w # {}
        <5>1. PICK a \in w : TRUE
          BY <4>2
        <5>2. a \in AnswersTo(m) /\ IsAsked(m)
          BY <3>2, <4>2, <5>1
        <5>3. a.cmd = "Password" => a.arg \in {"right", "wrong"}
          BY <3>1, <5>2, AnswersAre
        <5> QED
          BY <1>0, <3>2, <4>2, <5>1, <5>3
      <4> QED
        BY <4>1, <4>2
    <3> QED
      BY <1>0, <3>1, <3>3, <3>4, <3>5, <3>6
  <2>2. CASE NewtonDocks \/ NewtonAsks \/ NewtonSaysHello
    <3>1. /\ gone' = gone /\ toNewton' = toNewton
          /\ UNCHANGED linkVars /\ UNCHANGED reports /\ UNCHANGED <<password, accepted, calls>>
          /\ mode' \in DOMAIN MayAsk /\ waiting' \in Asks \cup {"none"} /\ turns' \in Nat
          /\ \E w : Adds(w)
      BY <1>0, <2>2, NewtonSaysIs
    <3>2. fromNewton' \in Seq(Message)
      BY <1>0, <3>1, AddsAt
    <3> QED
      BY <1>0, <3>1, <3>2
  <2>3. CASE NewtonLeaves
    BY <1>0, <2>3 DEF NewtonLeaves, MayAsk
  <2> QED
    BY <2>1, <2>2, <2>3 DEF NewtonSteps
<1>2. UNCHANGED <<kit, pc, tries, engine, sync, interrupted, events, confirmed, stray, lost>>
  BY <1>1 DEF linkVars, reports
<1>3. EngineAtWork' /\ InLoops(sync)'
  BY <1>0, <1>2 DEF EngineAtWork, InLoops
<1> QED
  BY <1>0, <1>1, <1>2, <1>3 DEF TypeOK

LEMMA NewtonKeeps ==
  ASSUME DockIInv, NewtonSteps
  PROVE  DockIInv' /\ (Authenticated => Authenticated')
<1>1. /\ toNewton \in Seq(Message) /\ fromNewton \in Seq(Message) /\ lost \in BOOLEAN
      /\ mode \in DOMAIN MayAsk /\ waiting \in Asks \cup {"none"} /\ turns \in Nat
      /\ confirmed \in Nat /\ accepted \in Nat
  BY DEF DockIInv, TypeOK
<1>2. OnePassword /\ OneCancel /\ AnswerToCome /\ OneResult
  BY DEF DockIInv
<1>3. NewtonReads \/ NewtonDocks \/ NewtonAsks \/ NewtonSaysHello \/ NewtonLeaves
  BY DEF NewtonSteps
<1>4. OneCancel'
  BY <1>1, <1>2, <1>3, CancelsByNewton
<1>5. OnePassword' /\ (Authenticated => Authenticated')
  BY <1>1, <1>2, <1>3, PasswordByNewton
<1>6. AnswerToCome'
  BY <1>1, <1>2, <1>3, AnswersByNewton
<1>7. OneResult'
  BY <1>1, <1>2, <1>3, ResultsByNewton
<1> QED
  BY <1>4, <1>5, <1>6, <1>7, NewtonIsInOrder DEF DockIInv

LEMMA DockStutters ==
  ASSUME DockIInv, UNCHANGED vars
  PROVE  DockIInv' /\ (Authenticated => Authenticated')
<1>1. /\ UNCHANGED <<kit, pc, tries, engine, sync, interrupted, events, confirmed, stray, lost>>
      /\ UNCHANGED <<toNewton, fromNewton, mode, waiting, gone, turns, password, accepted, calls>>
  BY DEF vars, linkVars, newtonVars, reports
<1>2. TypeOK' /\ EngineAtWork' /\ InLoops(sync)'
  BY <1>1 DEF DockIInv, TypeOK, EngineAtWork, InLoops
<1>3. OnePassword'
  BY <1>1 DEF DockIInv, OnePassword, PasswordAsked, PasswordGiven, At
<1>4. OneCancel'
  BY <1>1 DEF DockIInv, OneCancel, Acks, Cancels, Results, At
<1>5. AnswerToCome'
  BY <1>1 DEF DockIInv, AnswerToCome, PasswordAsked, WillHear, Acks, At
<1>6. OneResult'
  BY <1>1 DEF DockIInv, OneResult, ResultsAsked, Results, WillHear, Acks, At
<1>7. Authenticated => Authenticated'
  BY <1>1 DEF Authenticated
<1> QED
  BY <1>2, <1>3, <1>4, <1>5, <1>6, <1>7 DEF DockIInv

LEMMA NextKeeps ==
  ASSUME DockAssumption, DockIInv, [Next]_vars
  PROVE  DockIInv' /\ (Authenticated => Authenticated')
<1>1. CASE LinkStep \/ DataPresent \/ PostCommand \/ PostDisconnect \/ StopSynchronizing
  <2>1. InOrder
    BY DEF DockIInv, TypeOK, InOrder, Events
  <2>2. InOrder' /\ \E d, what : Lawful(d, what)
    BY <1>1, <2>1, LinkIsLawful
  <2> QED
    BY <2>2, LinkKeeps
<1>2. CASE NewtonReads \/ NewtonDocks \/ NewtonAsks \/ NewtonSaysHello \/ NewtonLeaves
  BY <1>2, NewtonKeeps DEF NewtonSteps
<1> QED
  BY <1>1, <1>2, DockStutters DEF Next

-----------------------------------------------------------------------------
(* The theorems.                                                           *)

\* Whatever is made of the link, however long the session and however many commands,
\* requests and hellos cross each other, the engine in charge is at work, the loops of
\* the synchronisation are in order, and what is owed between the two sides is owed
\* once: one password, one acknowledgement, one result, and the answer to come.
THEOREM DockInvariance == Spec => []DockIInv
<1>1. Init => DockIInv
  BY InitIs
<1>2. DockIInv /\ [Next]_vars => DockIInv'
  BY NextKeeps, DockAssumption
<1> QED
  BY <1>1, <1>2, PTL DEF Spec

\* TDCLDockLink::DoConnect lets nobody in by the way: a session that serves the Newton
\* is one whose Newton gave the right password, within its three attempts.
THEOREM Authentication == Spec => []Authenticated
<1>1. Init => DockIInv /\ Authenticated
  BY InitIs
<1>2. (DockIInv /\ Authenticated) /\ [Next]_vars => (DockIInv /\ Authenticated)'
  BY NextKeeps, DockAssumption
<1> QED
  BY <1>1, <1>2, PTL DEF Spec

\* The link never waits for an answer (GetResultCmd, WaitForDockCommand) that nobody
\* is going to give, unless a message was lost in an exception.
THEOREM Answering == Spec => []NeverBothWait
<1>1. DockIInv => NeverBothWait
  <2>1. ASSUME DockIInv, pc \in Waits \ {"dock"}, ~lost, fromNewton = <<>>, ~gone
        PROVE  toNewton # <<>>
    <3>1. \E i \in Questions(toNewton, pc) : TRUE
      <4>1. \E i \in IF pc = "password" THEN PasswordAsked ELSE At(toNewton, {Question[pc]}) : TRUE
        BY <2>1 DEF DockIInv, AnswerToCome
      <4>2. toNewton \in Seq(Message) /\ fromNewton \in Seq(Message)
        BY <2>1 DEF DockIInv, TypeOK
      <4> QED
        BY <4>1, <4>2, PasswordsAre DEF Questions
    <3> QED
      BY <3>1 DEF Questions, Of, At
  <2> QED
    BY <2>1 DEF NeverBothWait
<1> QED
  BY <1>1, DockInvariance, PTL

\* DoInstallPackage and TDCLLoadPkgEngine report no package as installed that the
\* Newton has not taken, as long as no result that was to come was given up.
THEOREM Installing == Spec => []InstallTold
<1>1. DockIInv => InstallTold
  BY DEF DockIInv, OneResult, InstallTold
<1> QED
  BY <1>1, DockInvariance, PTL

\* TDCLSyncEngine leaves no soup out: a synchronisation that ends has gone through
\* each soup of each source on each store and offered every entry that was due.
THEOREM Synchronizing == Spec => []NothingMissed
<1>1. DockIInv => NothingMissed
  BY DEF DockIInv, InLoops, NothingMissed
<1> QED
  BY <1>1, DockInvariance, PTL
=============================================================================
