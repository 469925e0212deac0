------------------------ MODULE CollectionSyncProofs ------------------------
(***************************************************************************)
(* Theorems about CollectionSync, for any collections, items, changes and  *)
(* failures: types, what a marker vouches for, and that a replacement      *)
(* takes nothing away that has been there all along.                       *)
(***************************************************************************)
EXTENDS CollectionSync, TLAPS

LEMMA NoSyncType == NoSync \in SyncType
  BY BoundAssumption DEF NoSync, NoItems, SyncType, Time

LEMMA NoSyncFields ==
  /\ NoSync.at = "idle" /\ NoSync.coll = None /\ NoSync.got = NoItems
  /\ NoSync.sent = {} /\ NoSync.begun = None /\ NoSync.steady = {}
  BY DEF NoSync

LEMMA TypeInit == Init => TypeOK
  BY NoSyncType, NoSyncFields, BoundAssumption DEF Init, TypeOK, NoItems, Time

\* What a page does, whichever kind of collection it is of.
LEMMA PageType ==
  ASSUME TypeOK, sync.coll \in Coll, NEW page \in SUBSET Unsent, ReceivePage(page)
  PROVE  /\ sync' \in SyncType
         /\ cache' \in [Coll -> [Item -> Time]]
         /\ sync'.at \in {"page", AfterListing} /\ sync'.coll = sync.coll
  <1>1. page \subseteq Item
    BY DEF Unsent, Live
  <1>2. \A rows \in [Item -> Time] : Over(rows, page) \in [Item -> Time]
    BY <1>1 DEF Over, TypeOK
  <1>3. AfterListing \in {"delete", "mark"}
    BY DEF AfterListing
  <1> QED
    BY <1>1, <1>2, <1>3 DEF ReceivePage, TypeOK, SyncType

LEMMA TypeStep == TypeOK /\ CollectionInv /\ [Next]_vars => TypeOK'
  <1> SUFFICES ASSUME TypeOK, CollectionInv, [Next]_vars PROVE TypeOK'
    OBVIOUS
  <1> USE BoundAssumption
  <1>1. ASSUME NEW c \in Coll, Begin(c) PROVE TypeOK'
    <2>1. sync' \in SyncType /\ sync'.at = "page"
      BY <1>1, NoSyncType DEF Begin, SyncType, Live
    <2> QED
      BY <1>1, <2>1 DEF Begin, TypeOK
  <1>2. ASSUME NEW c \in Coll, NEW x \in Item, NEW live \in BOOLEAN,
               Edit(c, x, live)
        PROVE  TypeOK'
    <2>1. sync' \in SyncType /\ sync'.at = sync.at /\ sync'.coll = sync.coll
      BY <1>2 DEF Edit, TypeOK, SyncType
    <2>2. clock' \in Time
      BY <1>2 DEF Edit, TypeOK, Time
    <2>3. up' \in [Coll -> [Item -> [at : Time, live : BOOLEAN]]]
      BY <1>2, <2>2 DEF Edit, TypeOK
    <2> QED
      BY <1>2, <2>1, <2>2, <2>3 DEF Edit, TypeOK
  <1>3. CASE FetchPage
    <2>1. sync.coll \in Coll
      BY <1>3 DEF FetchPage, CollectionInv, Collected
    <2>2. PICK page \in SUBSET Unsent : ReceivePage(page)
      BY <1>3 DEF FetchPage
    <2>3. /\ sync' \in SyncType
          /\ cache' \in [Coll -> [Item -> Time]]
          /\ sync'.at \in {"page", AfterListing} /\ sync'.coll = sync.coll
      BY <2>1, <2>2, PageType
    <2>4. sync'.at \in {"delete", "upsert"} => sync'.coll \in Replaced
      BY <2>3 DEF AfterListing
    <2> QED
      BY <1>3, <2>3, <2>4 DEF FetchPage, TypeOK
  <1>4. CASE DeleteAbsent
    <2>1. ASSUME NEW rows \in [Item -> Time]
          PROVE  [x \in Item |-> IF sync.got[x] = 0 THEN 0 ELSE rows[x]]
                   \in [Item -> Time]
      BY DEF Time
    <2>3. cache' \in [Coll -> [Item -> Time]]
      BY <1>4, <2>1 DEF DeleteAbsent, TypeOK
    <2>2. sync' \in SyncType /\ sync'.coll = sync.coll
      BY <1>4 DEF DeleteAbsent, TypeOK, SyncType
    <2> QED
      BY <1>4, <2>2, <2>3 DEF DeleteAbsent, TypeOK
  <1>5. CASE UpsertAll
    <2>1. cache' \in [Coll -> [Item -> Time]]
      BY <1>5 DEF UpsertAll, TypeOK, SyncType
    <2>2. sync' \in SyncType /\ sync'.at = "mark"
      BY <1>5 DEF UpsertAll, TypeOK, SyncType
    <2> QED
      BY <1>5, <2>1, <2>2 DEF UpsertAll, TypeOK
  <1>6. CASE Mark
    <2>1. synced' \in [Coll -> Time \union {None}]
      BY <1>6 DEF Mark, TypeOK, SyncType
    <2> QED
      BY <1>6, <2>1, NoSyncType, NoSyncFields DEF Mark, TypeOK
  <1>7. CASE Abort
    BY <1>7, NoSyncType, NoSyncFields DEF Abort, TypeOK
  <1>8. CASE UNCHANGED vars
    BY <1>8 DEF vars, TypeOK
  <1> QED
    BY <1>1, <1>2, <1>3, <1>4, <1>5, <1>6, <1>7, <1>8 DEF Next
-----------------------------------------------------------------------------
(***************************************************************************)
(* What a marker vouches for.                                              *)
(***************************************************************************)
LEMMA CollectionInit == Init => CollectionInv
  <1> SUFFICES ASSUME Init PROVE CollectionInv
    OBVIOUS
  <1>1. TimesPassed
    BY NoSyncFields DEF Init, TimesPassed
  <1>2. Collected /\ ListedAll /\ Replacing
    BY NoSyncFields, CollAssumption, NoneAssumption
    DEF Init, Collected, ListedAll, Replacing, NoItems
  <1>3. VersionsCollected
    BY NoSyncFields DEF Init, VersionsCollected, Live
  <1>4. MarkedMeansComplete /\ RemovedRowsGo
    BY CollAssumption DEF Init, MarkedMeansComplete, RemovedRowsGo
  <1> QED
    BY <1>1, <1>2, <1>3, <1>4 DEF CollectionInv

\* Without a sync in progress only the markers have to be looked at.
LEMMA NothingInProgress ==
  ASSUME sync' = NoSync
  PROVE  Collected' /\ ListedAll' /\ Replacing'
  BY NoSyncFields, CollAssumption, NoneAssumption
  DEF Collected, ListedAll, Replacing, NoItems

LEMMA BeginStep ==
  ASSUME TypeOK, CollectionInv, NEW c \in Coll, Begin(c)
  PROVE  CollectionInv'
  <1>1. /\ sync'.at = "page" /\ sync'.coll = c /\ sync'.sent = {}
        /\ sync'.begun = None /\ sync'.steady = Live(c)
        /\ \A x \in Item : sync'.got[x] = 0
        /\ UNCHANGED <<clock, up, cache, synced>>
    BY DEF Begin, NoSync, NoItems
  <1> QED
    BY <1>1 DEF CollectionInv, TimesPassed, Collected, ListedAll, Replacing,
       VersionsCollected, MarkedMeansComplete, RemovedRowsGo, Live

\* A change upstream is later than every marker and the listing under way.
LEMMA EditStep ==
  ASSUME TypeOK, CollectionInv,
         NEW c \in Coll, NEW x \in Item, NEW live \in BOOLEAN, Edit(c, x, live)
  PROVE  CollectionInv'
  <1>1. /\ clock \in Nat /\ clock' = clock + 1
        /\ up'[c][x].at = clock' /\ up'[c][x].live = live
        /\ \A d \in Coll, y \in Item :
             d # c \/ y # x => up'[d][y] = up[d][y]
        /\ \A d \in Coll, y \in Item : up[d][y].at \in Nat
        /\ UNCHANGED <<cache, synced>>
    BY DEF Edit, TypeOK, Time
  <1>2. /\ sync'.at = sync.at /\ sync'.coll = sync.coll /\ sync'.got = sync.got
        /\ sync'.sent = sync.sent /\ sync'.begun = sync.begun
        /\ sync'.steady = IF c = sync.coll /\ ~live
                          THEN sync.steady \ {x} ELSE sync.steady
        /\ sync.at = "idle" => sync' = sync
    BY NoneAssumption DEF Edit, TypeOK, SyncType, CollectionInv, Collected, NoSync
  <1>3. /\ sync.begun # None => sync.begun \in Nat
        /\ \A d \in Coll : synced[d] # None => synced[d] \in Nat
        /\ sync.at # "idle" => sync.coll \in Coll
        /\ sync.begun # None => sync.at # "idle"
    BY NoSyncFields DEF TypeOK, SyncType, Time, CollectionInv, Collected
  <1>4. TimesPassed'
    BY <1>1, <1>2, <1>3 DEF CollectionInv, TimesPassed
  <1>5. Collected'
    <2>1. /\ sync'.at = "idle" => sync' = NoSync
          /\ sync'.at # "idle" => sync'.coll \in Coll
          /\ sync'.begun = None => sync'.sent = {} /\ sync'.at \in {"idle", "page"}
          /\ \A y \in Item : sync'.got[y] # 0 => y \in sync'.sent
      BY <1>2 DEF CollectionInv, Collected
    <2>2. sync'.at # "idle" =>
            \A y \in sync'.steady : y \in Item /\ up'[sync'.coll][y].live
      BY <1>1, <1>2, <1>3 DEF CollectionInv, Collected, Live
    <2>3. ASSUME sync'.begun # None, NEW y \in Item,
                 up'[sync'.coll][y].at <= sync'.begun
          PROVE  /\ sync.begun # None /\ up'[sync'.coll][y] = up[sync.coll][y]
                 /\ up[sync.coll][y].at <= sync.begun
      BY <1>1, <1>2, <1>3, <2>3 DEF CollectionInv, TimesPassed
    <2> QED
      BY <1>1, <1>2, <2>1, <2>2, <2>3 DEF CollectionInv, Collected, Live
  <1>6. ListedAll'
    <2> SUFFICES ASSUME sync.at \in {"delete", "upsert", "mark"}
                 PROVE  ListedAll'
      BY <1>2 DEF ListedAll
    <2> QED
      BY <1>1, <1>2, <1>3 DEF CollectionInv, TimesPassed, ListedAll
  <1>7. Replacing' /\ VersionsCollected'
    BY <1>1, <1>2 DEF CollectionInv, Replacing, VersionsCollected, Live
  <1>8. MarkedMeansComplete' /\ RemovedRowsGo'
    BY <1>1, <1>3, CollAssumption
    DEF CollectionInv, TimesPassed, MarkedMeansComplete, RemovedRowsGo
  <1> QED
    BY <1>4, <1>5, <1>6, <1>7, <1>8 DEF CollectionInv

\* A page collects, or caches, rows at their present versions; after the last
\* one nothing that is upstream is left out.
LEMMA FetchStep ==
  ASSUME TypeOK, CollectionInv, FetchPage
  PROVE  CollectionInv'
  <1> DEFINE c == sync.coll
             begun == IF sync.begun = None THEN clock ELSE sync.begun
  <1>1. PICK page \in SUBSET Unsent : ReceivePage(page)
    BY DEF FetchPage
  <1>2. /\ sync.at = "page" /\ c \in Coll
        /\ UNCHANGED <<clock, up, synced>>
    BY DEF FetchPage, CollectionInv, Collected
  <1>3. /\ sync'.at = IF page = Unsent THEN AfterListing ELSE "page"
        /\ sync'.begun = begun /\ sync'.coll = c
        /\ sync'.sent = sync.sent \union page
        /\ sync'.steady = sync.steady
        /\ sync'.got = Over(sync.got, page)
    BY <1>1 DEF ReceivePage, TypeOK, SyncType
  <1>4. /\ \A x \in page : sync'.got[x] = up[c][x].at
        /\ \A x \in Item \ page : sync'.got[x] = sync.got[x]
        /\ page \subseteq Item /\ page \subseteq Live(c)
    BY <1>3 DEF Over, Unsent, Live
  <1>5. /\ c \in Replaced => cache' = cache
        /\ c \notin Replaced =>
             /\ \A x \in page : cache'[c][x] = up[c][x].at
             /\ \A x \in Item \ page : cache'[c][x] = cache[c][x]
             /\ \A d \in Coll \ {c} : cache'[d] = cache[d]
    BY <1>1, <1>2, <1>4 DEF ReceivePage, Over, TypeOK
  <1>6. /\ begun # None /\ begun \in Nat /\ begun <= clock
        /\ \A d \in Coll : synced[d] # None => synced[d] <= begun
        /\ sync.begun # None => begun = sync.begun
    BY NoneAssumption DEF TypeOK, SyncType, Time, CollectionInv, TimesPassed
  <1>7. /\ sync'.at \in {"page", AfterListing}
        /\ AfterListing \in {"delete", "mark"}
        /\ c \in Replaced => AfterListing = "delete"
    BY <1>3 DEF AfterListing
  <1>8. TimesPassed'
    BY <1>2, <1>3, <1>6 DEF CollectionInv, TimesPassed
  <1>9. Collected'
    <2>1. ASSUME NEW x \in sync.sent \union page, up[c][x].at <= begun
          PROVE  /\ up[c][x].live /\ sync'.got[x] = up[c][x].at
                 /\ c \notin Replaced => cache'[c][x] = up[c][x].at
      <3>1. CASE x \in page
        BY <1>4, <1>5, <3>1 DEF Live
      <3>2. CASE x \notin page
        <4>1. x \in Item /\ sync.begun # None
          BY <3>2 DEF CollectionInv, Collected, TypeOK, SyncType
        <4> QED
          BY <1>4, <1>5, <1>6, <2>1, <3>2, <4>1 DEF CollectionInv, Collected
      <3> QED
        BY <3>1, <3>2
    <2>2. \A x \in Item : sync'.got[x] # 0 => x \in sync'.sent
      BY <1>3, <1>4 DEF CollectionInv, Collected
    <2>3. sync'.at # "idle" /\ sync'.steady \subseteq Live(c)
      BY <1>2, <1>3, <1>7 DEF CollectionInv, Collected
    <2> QED
      BY <1>2, <1>3, <1>6, <2>1, <2>2, <2>3 DEF Collected, Live
  <1>10. ListedAll'
    <2> SUFFICES ASSUME page = Unsent
                 PROVE  /\ sync.steady \subseteq sync.sent \union page
                        /\ Live(c) \subseteq sync.sent \union page
      BY <1>2, <1>3, <1>6, <1>7 DEF ListedAll, Live
    <2> QED
      BY <1>2 DEF Unsent, CollectionInv, Collected
  <1>11. Replacing'
    BY <1>3, <1>7 DEF Replacing
  <1>12. VersionsCollected'
    <2>1. \A x \in page : up[c][x].at # 0
      BY <1>2, <1>4 DEF CollectionInv, VersionsCollected
    <2>2. sync.sent \subseteq Item
      BY DEF TypeOK, SyncType
    <2> QED
      BY <1>2, <1>3, <1>4, <2>1, <2>2 DEF CollectionInv, VersionsCollected, Live
  <1>13. MarkedMeansComplete'
    BY <1>2, <1>5 DEF CollectionInv, MarkedMeansComplete
  <1>14. RemovedRowsGo'
    BY <1>2, <1>5, CollAssumption DEF CollectionInv, RemovedRowsGo
  <1> QED
    BY <1>8, <1>9, <1>10, <1>11, <1>12, <1>13, <1>14 DEF CollectionInv

\* The steps that only move rows between the listing and the cache.
LEMMA SameListing ==
  ASSUME TypeOK, CollectionInv, UNCHANGED <<clock, up, synced>>,
         sync.at \in {"delete", "upsert"}, sync'.at \in {"upsert", "mark"},
         UNCHANGED <<sync.coll, sync.got, sync.sent, sync.begun, sync.steady>>
  PROVE  TimesPassed' /\ Collected' /\ ListedAll' /\ VersionsCollected'
  <1>1. sync.coll \in Replaced
    BY DEF TypeOK
  <1>2. TimesPassed' /\ VersionsCollected'
    BY DEF CollectionInv, TimesPassed, VersionsCollected, Live
  <1>3. Collected'
    BY <1>1 DEF CollectionInv, Collected, Live
  <1>4. ListedAll'
    BY DEF CollectionInv, ListedAll
  <1> QED
    BY <1>2, <1>3, <1>4

\* What the listing of a replacement holds, once it is complete.
LEMMA Listed ==
  ASSUME TypeOK, CollectionInv, sync.at \in {"delete", "upsert", "mark"},
         NEW x \in Item, up[sync.coll][x].at <= sync.begun
  PROVE  sync.got[x] = IF up[sync.coll][x].live THEN up[sync.coll][x].at ELSE 0
  <1>1. sync.begun # None
    BY DEF CollectionInv, ListedAll
  <1>2. CASE up[sync.coll][x].live
    BY <1>1, <1>2 DEF CollectionInv, ListedAll, Collected
  <1>3. CASE ~up[sync.coll][x].live
    BY <1>1, <1>3 DEF CollectionInv, Collected
  <1> QED
    BY <1>2, <1>3

\* A marker set earlier speaks of changes before this listing began.
LEMMA MarkedEarlier ==
  ASSUME TypeOK, CollectionInv, sync.at \in {"delete", "upsert", "mark"},
         NEW c \in Coll, NEW x \in Item, synced[c] # None, up[c][x].at <= synced[c]
  PROVE  up[c][x].at <= sync.begun
  <1>1. sync.begun # None
    BY DEF CollectionInv, ListedAll
  <1>2. /\ synced[c] \in Nat /\ sync.begun \in Nat /\ up[c][x].at \in Nat
        /\ synced[c] <= sync.begun
    BY <1>1 DEF TypeOK, SyncType, Time, CollectionInv, TimesPassed
  <1> QED
    BY <1>2

LEMMA DeleteStep ==
  ASSUME TypeOK, CollectionInv, DeleteAbsent
  PROVE  CollectionInv'
  <1>1. /\ sync.at = "delete" /\ sync'.at = "upsert"
        /\ UNCHANGED <<clock, up, synced>>
        /\ UNCHANGED <<sync.coll, sync.got, sync.sent, sync.begun, sync.steady>>
    BY DEF DeleteAbsent, TypeOK, SyncType
  <1>2. sync.coll \in Coll
    BY <1>1 DEF CollectionInv, Collected
  <1>3. /\ \A x \in Item : cache'[sync.coll][x] =
             IF sync.got[x] = 0 THEN 0 ELSE cache[sync.coll][x]
        /\ \A c \in Coll \ {sync.coll} : cache'[c] = cache[c]
    BY <1>2 DEF DeleteAbsent, TypeOK
  <1>4. TimesPassed' /\ Collected' /\ ListedAll' /\ VersionsCollected'
    BY <1>1, SameListing
  <1>5. Replacing'
    BY <1>1, <1>3 DEF Replacing
  <1>6. MarkedMeansComplete'
    <2> SUFFICES ASSUME NEW c \in Coll, NEW x \in Item, synced[c] # None,
                        up[c][x].live, up[c][x].at <= synced[c]
                 PROVE  cache'[c][x] = up[c][x].at
      BY <1>1 DEF MarkedMeansComplete
    <2>1. cache[c][x] = up[c][x].at
      BY DEF CollectionInv, MarkedMeansComplete
    <2>2. CASE c # sync.coll
      BY <1>3, <2>1, <2>2
    <2>3. CASE c = sync.coll
      <3>1. sync.got[x] = up[c][x].at
        BY <1>1, <2>3, MarkedEarlier, Listed
      <3> QED
        BY <1>3, <2>1, <2>3, <3>1
    <2> QED
      BY <2>2, <2>3
  <1>7. RemovedRowsGo'
    BY <1>1, <1>3, CollAssumption DEF CollectionInv, RemovedRowsGo
  <1> QED
    BY <1>4, <1>5, <1>6, <1>7 DEF CollectionInv

LEMMA UpsertStep ==
  ASSUME TypeOK, CollectionInv, UpsertAll
  PROVE  CollectionInv'
  <1>1. /\ sync.at = "upsert" /\ sync'.at = "mark"
        /\ UNCHANGED <<clock, up, synced>>
        /\ UNCHANGED <<sync.coll, sync.got, sync.sent, sync.begun, sync.steady>>
    BY DEF UpsertAll, TypeOK, SyncType
  <1>2. sync.coll \in Coll
    BY <1>1 DEF CollectionInv, Collected
  <1>3. /\ \A x \in Item : cache'[sync.coll][x] =
             IF sync.got[x] = 0 THEN cache[sync.coll][x] ELSE sync.got[x]
        /\ \A c \in Coll \ {sync.coll} : cache'[c] = cache[c]
    BY <1>2 DEF UpsertAll, TypeOK
  <1>4. TimesPassed' /\ Collected' /\ ListedAll' /\ VersionsCollected'
    BY <1>1, SameListing
  <1>5. Replacing'
    BY <1>1, <1>3 DEF CollectionInv, Replacing
  <1>6. ASSUME NEW c \in Coll, NEW x \in Item, synced[c] # None,
               up[c][x].at <= synced[c]
        PROVE  /\ up[c][x].live => cache'[c][x] = up[c][x].at
               /\ c \in Replaced /\ ~up[c][x].live => cache'[c][x] = 0
    <2>1. /\ up[c][x].live => cache[c][x] = up[c][x].at
          /\ c \in Replaced /\ ~up[c][x].live => cache[c][x] = 0
      BY <1>6 DEF CollectionInv, MarkedMeansComplete, RemovedRowsGo
    <2>2. CASE c # sync.coll
      BY <1>3, <2>1, <2>2
    <2>3. CASE c = sync.coll
      <3>1. sync.got[x] = IF up[c][x].live THEN up[c][x].at ELSE 0
        BY <1>1, <1>6, <2>3, MarkedEarlier, Listed
      <3> QED
        BY <1>3, <2>1, <2>3, <3>1
    <2> QED
      BY <2>2, <2>3
  <1>7. MarkedMeansComplete' /\ RemovedRowsGo'
    BY <1>1, <1>6, CollAssumption DEF MarkedMeansComplete, RemovedRowsGo
  <1> QED
    BY <1>4, <1>5, <1>7 DEF CollectionInv

LEMMA MarkStep ==
  ASSUME TypeOK, CollectionInv, Mark
  PROVE  CollectionInv'
  <1>1. /\ sync.at = "mark" /\ sync' = NoSync
        /\ UNCHANGED <<clock, up, cache>>
    BY DEF Mark
  <1>2. sync.coll \in Coll /\ sync.begun # None /\ sync.begun <= clock
    BY <1>1 DEF CollectionInv, Collected, ListedAll, TimesPassed
  <1>3. /\ synced'[sync.coll] = sync.begun
        /\ \A c \in Coll \ {sync.coll} : synced'[c] = synced[c]
    BY <1>2 DEF Mark, TypeOK
  <1>4. TimesPassed' /\ VersionsCollected'
    BY <1>1, <1>2, <1>3, NoSyncFields
    DEF CollectionInv, TimesPassed, VersionsCollected, Live
  <1>5. Collected' /\ ListedAll' /\ Replacing'
    BY <1>1, NothingInProgress
  <1>6. ASSUME NEW c \in Coll, NEW x \in Item, synced'[c] # None,
               up[c][x].at <= synced'[c]
        PROVE  /\ up[c][x].live => cache[c][x] = up[c][x].at
               /\ c \in Replaced /\ ~up[c][x].live => cache[c][x] = 0
    <2>1. CASE c # sync.coll
      BY <1>3, <1>6, <2>1 DEF CollectionInv, MarkedMeansComplete, RemovedRowsGo
    <2>2. CASE c = sync.coll
      <3>1. sync.got[x] = IF up[c][x].live THEN up[c][x].at ELSE 0
        BY <1>1, <1>3, <1>6, <2>2, Listed
      <3>2. c \in Replaced => cache[c][x] = sync.got[x]
        BY <1>1, <2>2 DEF CollectionInv, Replacing
      <3>3. c \notin Replaced /\ up[c][x].live => cache[c][x] = up[c][x].at
        BY <1>1, <1>2, <1>3, <1>6, <2>2 DEF CollectionInv, ListedAll, Collected
      <3> QED
        BY <3>1, <3>2, <3>3
    <2> QED
      BY <2>1, <2>2
  <1>7. MarkedMeansComplete' /\ RemovedRowsGo'
    BY <1>1, <1>6, CollAssumption DEF MarkedMeansComplete, RemovedRowsGo
  <1> QED
    BY <1>4, <1>5, <1>7 DEF CollectionInv

LEMMA AbortStep ==
  ASSUME CollectionInv, Abort
  PROVE  CollectionInv'
  <1>1. sync' = NoSync /\ UNCHANGED <<clock, up, cache, synced>>
    BY DEF Abort
  <1>2. Collected' /\ ListedAll' /\ Replacing'
    BY <1>1, NothingInProgress
  <1> QED
    BY <1>1, <1>2, NoSyncFields DEF CollectionInv, TimesPassed,
       VersionsCollected, MarkedMeansComplete, RemovedRowsGo, Live

LEMMA CollectionStep ==
  ASSUME TypeOK, CollectionInv, [Next]_vars
  PROVE  CollectionInv'
  <1>1. ASSUME NEW c \in Coll, Begin(c) PROVE CollectionInv'
    BY <1>1, BeginStep
  <1>2. ASSUME NEW c \in Coll, NEW x \in Item, NEW live \in BOOLEAN,
               Edit(c, x, live)
        PROVE  CollectionInv'
    BY <1>2, EditStep
  <1>3. CASE UNCHANGED vars
    BY <1>3 DEF vars, CollectionInv, TimesPassed, Collected, ListedAll, Replacing,
       VersionsCollected, MarkedMeansComplete, RemovedRowsGo, Live
  <1> QED
    BY <1>1, <1>2, <1>3, FetchStep, DeleteStep, UpsertStep, MarkStep, AbortStep
    DEF Next

\* The types are kept, and with them what the sync relies on between its commits:
\* what is collected, listed, and already replaced.
THEOREM CollectionInvariant == Spec => [](TypeOK /\ CollectionInv)
  <1>1. Init => TypeOK /\ CollectionInv
    BY TypeInit, CollectionInit
  <1>2. TypeOK /\ CollectionInv /\ [Next]_vars => (TypeOK /\ CollectionInv)'
    BY TypeStep, CollectionStep
  <1> QED
    BY <1>1, <1>2, PTL DEF Spec

\* Items, pages and markers have their types, whatever the sizes.
THEOREM TypeCorrect == Spec => []TypeOK
  BY CollectionInvariant, PTL

\* A marked collection is complete, for any number of items, pages and failures.
THEOREM MarkedIsComplete == Spec => []MarkedMeansComplete
  <1>1. CollectionInv => MarkedMeansComplete
    BY DEF CollectionInv
  <1> QED
    BY <1>1, CollectionInvariant, PTL

\* What was gone before the last complete listing is not cached.
THEOREM RemovedAreGone == Spec => []RemovedRowsGo
  <1>1. CollectionInv => RemovedRowsGo
    BY DEF CollectionInv
  <1> QED
    BY <1>1, CollectionInvariant, PTL

\* No commit takes away a row that has been upstream since the sync began.
LEMMA KeptByStep ==
  ASSUME TypeOK, CollectionInv, Next,
         NEW c \in Coll, NEW x \in Item, cache[c][x] # 0, cache'[c][x] = 0
  PROVE  x \notin sync.steady
  <1>1. CASE UNCHANGED cache
    BY <1>1
  <1>2. CASE FetchPage
    <2>1. PICK page \in SUBSET Unsent : ReceivePage(page)
      BY <1>2 DEF FetchPage
    <2>2. sync.coll \in Coll /\ \A y \in page : up[sync.coll][y].at # 0
      BY <1>2 DEF FetchPage, CollectionInv, Collected, VersionsCollected, Unsent,
         TypeOK, Time
    <2>3. cache'[c][x] \in {cache[c][x], up[sync.coll][x].at}
      BY <2>1, <2>2 DEF ReceivePage, Over, TypeOK
    <2>4. x \notin page => cache'[c][x] = cache[c][x]
      BY <2>1, <2>2 DEF ReceivePage, Over, TypeOK
    <2> QED
      BY <2>2, <2>3, <2>4
  <1>3. CASE DeleteAbsent
    <2>1. sync.at = "delete" /\ sync.coll \in Coll
      BY <1>3 DEF DeleteAbsent, CollectionInv, Collected
    <2>2. sync.got[x] = 0
      BY <1>3, <2>1 DEF DeleteAbsent, TypeOK
    <2> QED
      BY <2>1, <2>2 DEF CollectionInv, ListedAll, VersionsCollected
  <1>4. CASE UpsertAll
    BY <1>4 DEF UpsertAll, CollectionInv, Collected, TypeOK
  <1> QED
    BY <1>1, <1>2, <1>3, <1>4 DEF Next, Begin, Edit, Mark, Abort

\* A replacement, killed anywhere or not, never loses a row for its readers that
\* has been there all along.
THEOREM ReplacementKeepsRows == Spec => RowsKept
  <1>1. TypeOK /\ CollectionInv /\ [Next]_vars =>
          [\A c \in Coll, x \in Item : cache[c][x] # 0 /\ cache'[c][x] = 0 =>
             x \notin sync.steady]_vars
    BY KeptByStep
  <1> QED
    BY <1>1, CollectionInvariant, PTL DEF Spec, RowsKept
=============================================================================
