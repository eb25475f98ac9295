----------------------------- MODULE SyncEngine -----------------------------
(***************************************************************************)
(* The synchronisation of a Newton: TDCLSyncEngine                         *)
(* (DCL/Link/Link_Engines/TDCLSyncEngine.cpp).  The engine asks, the       *)
(* Newton answers, and the answer decides what to ask next: it walks       *)
(* through the sources of the application, for each source through the     *)
(* stores of the Newton, for each store through the soups of the source    *)
(* and for each soup through its entries; then through the soups again, to *)
(* add the entries that are only on this side.                             *)
(*                                                                         *)
(* A synchronisation is a record.  The operators give the records that may *)
(* follow; module FullDockLink receives the commands and sends what the    *)
(* record reached asks for.  The cursors of the code start at -1; here     *)
(* they start at 0.                                                        *)
(***************************************************************************)
EXTENDS Naturals

CONSTANTS Sources,     \* bound: sources of the application that have soups
          Stores,      \* stores of the Newton
          Soups,       \* soups of a source
          MaxEntries   \* bound: entries of a soup, and entries added to a soup

ASSUME SyncAssumption == /\ Sources \in Nat /\ Stores \in Nat \ {0}
                         /\ Soups \in Nat \ {0} /\ MaxEntries \in Nat

\* The command of the Newton that each state waits for.
Awaited == [WFOptions |-> "SyncOptions", WFStoreNames |-> "StoreNames",
            WFPreliminaryTime |-> "CurrentTime", WFSetStoreResult |-> "Result",
            WFPackageIDs |-> "PackageIDList", WFSetStoreResult2 |-> "Result",
            WFStoreSyncTime |-> "CurrentTime", WFSoupInfo |-> "SoupInfo",
            WFSoupIDs |-> "SoupIDs", WFChangedIDs |-> "ChangedIDs", WFEntry |-> "Entry",
            WFSetStoreToDefaultResult |-> "Result", WFModifiedResult |-> "Result",
            WFAddedID |-> "AddedID", Uninitialized |-> "-", End |-> "-", Interrupted |-> "-"]

\* The command that is sent on the way to a state.  An entry that the source
\* changed is sent back or deleted; the Newton answers both alike.
Asked == [WFOptions |-> "GetSyncOptions", WFStoreNames |-> "GetStoreNames",
          WFPreliminaryTime |-> "LastSyncTime", WFSetStoreResult |-> "SetCurrentStore",
          WFPackageIDs |-> "GetPackageIDs", WFSetStoreResult2 |-> "SetCurrentStore",
          WFStoreSyncTime |-> "LastSyncTime", WFSoupInfo |-> "SetSoupGetInfo",
          WFSoupIDs |-> "GetSoupIDs", WFChangedIDs |-> "GetChangedIDs", WFEntry |-> "ReturnEntry",
          WFSetStoreToDefaultResult |-> "SetStoreToDefault", WFModifiedResult |-> "ChangedEntry",
          WFAddedID |-> "AddEntry", End |-> "OperationDone"]

States == DOMAIN Awaited

\* A source, a store and a soup; store 0 stands for the entries that are added.
Places == (1..Sources) \X (0..Stores) \X (1..Soups)

Sync == [state : States,
         source : 0..Sources, store : 0..Stores, soup : 0..Soups,  \* the cursors
         adding : BOOLEAN,                \* mAddingEntries
         complete : BOOLEAN,              \* mCompleteSync
         entry : 0..MaxEntries,           \* mEntryIndex, or the entries added
         fetch : SUBSET (1..MaxEntries),  \* entries of the soup that are due
         data : SUBSET (1..MaxEntries),   \* entries that were downloaded
         offered : SUBSET (1..MaxEntries),\* entries the source was asked about
         visited : SUBSET Places,         \* soups that were gone through
         missed : BOOLEAN]                \* entries due were left out, though the
                                          \* synchronisation was not complete

NoSync == [state |-> "Uninitialized", source |-> 0, store |-> 0, soup |-> 0,
           adding |-> FALSE, complete |-> TRUE, entry |-> 0, fetch |-> {}, data |-> {},
           offered |-> {}, visited |-> {}, missed |-> FALSE]

\* StartSynchronizing
StartSynchronizing == [NoSync EXCEPT !.state = "WFOptions"]

-----------------------------------------------------------------------------
(* The cursors.                                                            *)

SyncNextSource(s) ==
  IF s.source < Sources
  THEN [s EXCEPT !.state = "WFSetStoreResult2", !.source = @ + 1, !.store = 1, !.soup = 0,
                 !.adding = FALSE]
  ELSE [NoSync EXCEPT !.state = "End", !.visited = s.visited, !.missed = s.missed]

\* Mutant: the cursor of the soups is left where the last store ended.
SyncFirstSoupStays(s) == s

\* The first soup of a store: mSoupIndex = -1.
SyncFirstSoup(s) == [s EXCEPT !.soup = 0]

SyncNextSoup(s) ==
  CASE s.soup < Soups ->
         [s EXCEPT !.state = "WFSoupInfo", !.soup = @ + 1, !.entry = 0,
                   !.visited = @ \cup {<<s.source, IF s.adding THEN 0 ELSE s.store, s.soup + 1>>}]
    [] s.soup = Soups /\ s.adding -> SyncNextSource(s)
    [] s.soup = Soups /\ ~s.adding /\ s.store < Stores ->
         [s EXCEPT !.state = "WFSetStoreResult2", !.store = @ + 1]
    [] OTHER -> [s EXCEPT !.state = "WFSetStoreToDefaultResult", !.adding = TRUE]

LeaveSoup(s) ==
  SyncNextSoup([s EXCEPT !.missed = @ \/ (~s.complete /\ s.fetch # s.offered),
                         !.fetch = {}, !.data = {}, !.offered = {}, !.entry = 0])

\* The source is asked about the entries that were downloaded, in order, up to
\* the first that it changes or deletes.
SyncNextEntry(s) ==
  LET left == {e \in s.data : e > s.entry}
  IN  {[s EXCEPT !.state = "WFModifiedResult", !.entry = e,
                 !.offered = @ \cup {d \in left : d <= e}] : e \in left}
        \cup {LeaveSoup([s EXCEPT !.offered = @ \cup left])}

\* Mutant: the entries are offered from where the download stopped.
SyncEntriesFromHere(s) == SyncNextEntry(s)

SyncEntries(s) == SyncNextEntry([s EXCEPT !.entry = 0])

\* Mutant: the cursor stays on the entry that was downloaded.
FetchSameEntry(s) ==
  LET left == {e \in s.fetch : e >= s.entry}
  IN  IF left = {} THEN SyncEntries(s)
      ELSE {[s EXCEPT !.state = "WFEntry", !.entry = e] : e \in {e \in left : \A d \in left : e <= d}}

FetchNextEntry(s) ==
  LET left == {e \in s.fetch : e > s.entry}
  IN  IF left = {} THEN SyncEntries(s)
      ELSE {[s EXCEPT !.state = "WFEntry", !.entry = e] : e \in {e \in left : \A d \in left : e <= d}}

\* GetNextNewEntry: one more entry for this soup, or none.
AddNextEntry(s) ==
  {SyncNextSoup(s)} \cup (IF s.entry < MaxEntries
                          THEN {[s EXCEPT !.state = "WFAddedID", !.entry = @ + 1]} ELSE {})

-----------------------------------------------------------------------------
(* The transitions, each for the command that its state awaits.  The       *)
(* argument is "nil" or "ok" for the options, "ok" or "error" for a result. *)

\* Without options the engine asks for the names of the stores itself.
FromWFOptions(s, arg) ==
  {[s EXCEPT !.state = IF arg = "nil" THEN "WFStoreNames" ELSE "WFPreliminaryTime"]}

FromWFStoreNames(s) == {[s EXCEPT !.state = "WFPreliminaryTime"]}

\* The application says whether it wants packages synchronised.
FromWFPreliminaryTime(s) == {[s EXCEPT !.state = "WFSetStoreResult"], SyncNextSource(s)}

FromWFSetStoreResult(s) == {[s EXCEPT !.state = "WFPackageIDs"]}

\* The synchronisation is complete if the source keeps no dates, or has none for
\* this store.
FromWFSetStoreResult2(s) ==
  {SyncNextSoup(SyncFirstSoup([s EXCEPT !.complete = TRUE])),
   [s EXCEPT !.complete = FALSE, !.state = "WFStoreSyncTime"]}

FromWFStoreSyncTime(s) == {SyncNextSoup(SyncFirstSoup(s))}

FromWFSoupInfo(s) == IF s.adding THEN AddNextEntry(s) ELSE {[s EXCEPT !.state = "WFSoupIDs"]}

\* A complete synchronisation goes on to the entries without downloading them.
FromWFSoupIDs(s) ==
  IF s.complete
  THEN UNION {SyncNextEntry([s EXCEPT !.fetch = 1..n]) : n \in 0..MaxEntries}
  ELSE {[s EXCEPT !.state = "WFChangedIDs"]}

\* The Newton names the entries that changed; those without a key are new.  What
\* the keys are found in may have been freed (GetCurrentStoreFrame): any entry
\* may be due.
FromWFChangedIDs(s) ==
  UNION {FetchNextEntry([s EXCEPT !.fetch = due]) : due \in SUBSET (1..MaxEntries)}

\* The source takes the entry or is not interested.
FromWFEntry(s) ==
  FetchNextEntry([s EXCEPT !.data = @ \cup {s.entry}])
    \cup FetchNextEntry([s EXCEPT !.fetch = @ \ {s.entry}])

FromWFSetStoreToDefaultResult(s) == {SyncNextSoup(SyncFirstSoup(s))}

\* The command is the awaited one: the records that may follow.
SyncTransition(s, arg) ==
  CASE s.state = "WFOptions" -> FromWFOptions(s, arg)
    [] s.state = "WFStoreNames" -> FromWFStoreNames(s)
    [] s.state = "WFPreliminaryTime" -> FromWFPreliminaryTime(s)
    [] s.state = "WFSetStoreResult" -> FromWFSetStoreResult(s)
    [] s.state = "WFSetStoreResult2" -> FromWFSetStoreResult2(s)
    [] s.state = "WFStoreSyncTime" -> FromWFStoreSyncTime(s)
    [] s.state = "WFSoupInfo" -> FromWFSoupInfo(s)
    [] s.state = "WFSoupIDs" -> FromWFSoupIDs(s)
    [] s.state = "WFChangedIDs" -> FromWFChangedIDs(s)
    [] s.state = "WFEntry" -> FromWFEntry(s)
    [] s.state = "WFSetStoreToDefaultResult" -> FromWFSetStoreToDefaultResult(s)
    [] s.state = "WFModifiedResult" -> SyncNextEntry(s)
    [] s.state = "WFAddedID" -> AddNextEntry(s)

\* The awaited command is bad news, or asks for what is not written yet (the
\* synchronisation of patches and packages): an exception, and the record stays.
\* An entry that could not be added is reported by a result instead of an ID.
SyncThrows(s, cmd, arg) ==
  \/ cmd = "Result" /\ (\/ s.state = "WFAddedID"
                        \/ Awaited[s.state] = "Result" /\ arg # "ok"
                        \/ s.state = "WFSetStoreResult")
  \/ cmd = "PackageIDList" /\ s.state = "WFPackageIDs"

-----------------------------------------------------------------------------
(* Where a synchronisation is.                                             *)

Beginning == {"Uninitialized", "WFOptions", "WFStoreNames", "WFPreliminaryTime",
            "WFSetStoreResult", "WFPackageIDs"}

\* The soups that come before those of a store, and the first of these.
GoneThrough(s, soups) ==
  {p \in Places : \/ p[1] < s.source
                  \/ /\ p[1] = s.source
                     /\ \/ s.adding /\ (p[2] # 0 \/ p[3] <= soups)
                        \/ /\ ~s.adding /\ p[2] # 0
                           /\ p[2] < s.store \/ (p[2] = s.store /\ p[3] <= soups)}

\* At the head of the loop over the soups the cursor is that of the last store.
AtSoups == {"WFSetStoreResult2", "WFStoreSyncTime", "WFSetStoreToDefaultResult"}
InSoup  == {"WFSoupInfo", "WFSoupIDs", "WFChangedIDs", "WFEntry", "WFModifiedResult",
            "WFAddedID"}

\* The cursors say what was gone through, and the entries of a soup go from those
\* due to those downloaded to those offered.
InLoops(s) ==
  /\ s.state \in Beginning => s = [NoSync EXCEPT !.state = s.state]
  /\ s.state = "End" => s.visited = Places /\ ~s.missed
  /\ s.state \in AtSoups \cup InSoup =>
       /\ s.source > 0 /\ s.store > 0 /\ ~s.missed
       /\ s.visited = GoneThrough(s, IF s.state \in InSoup THEN s.soup ELSE 0)
       /\ s.state \in {"WFSetStoreToDefaultResult", "WFAddedID"} => s.adding
       /\ s.adding => s.state \in {"WFSetStoreToDefaultResult", "WFAddedID", "WFSoupInfo"}
       /\ s.state \in {"WFSoupInfo", "WFSoupIDs", "WFChangedIDs"} => s.entry = 0
       /\ s.state \notin {"WFEntry", "WFModifiedResult"} => s.fetch = {} /\ s.data = {} /\ s.offered = {}
  /\ s.state = "WFEntry" => /\ s.entry \in s.fetch /\ s.offered = {}
                            /\ s.data = {e \in s.fetch : e < s.entry}
  /\ s.state = "WFModifiedResult" => /\ s.data = s.fetch
                                     /\ s.offered = {e \in s.data : e <= s.entry}
=============================================================================
