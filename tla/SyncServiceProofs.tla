------------------------- MODULE SyncServiceProofs -------------------------
(***************************************************************************)
(* Theorems about SyncService, for any set of rows and any bounds: types,  *)
(* and that no update is lost when the upstream pins asOf to the beginning *)
(* of a listing (PinnedAsOf), but for the rows that a torn discard of the  *)
(* cache has dropped.                                                      *)
(***************************************************************************)
EXTENDS SyncService, TLAPS

LEMMA NoSyncType == NoSync \in SyncType
  BY DEF NoSync, SyncType, OptionalTime

LEMMA EmptyStateType == EmptyState \in StateType
  BY DEF EmptyState, StateType, OptionalTime

LEMMA TypeInit == Init => TypeOK
  <1> SUFFICES ASSUME Init PROVE TypeOK
    OBVIOUS
  <1>1. state \in StateType
    BY DEF Init, EmptyState, StateType, OptionalTime
  <1> QED
    BY <1>1, NoSyncType, BoundAssumption DEF Init, TypeOK

\* The start of a sync, full or incremental.
LEMMA TypeFull == TypeOK /\ StartFull => TypeOK'
  <1> SUFFICES ASSUME TypeOK, StartFull PROVE TypeOK'
    OBVIOUS
  <1>1. state' \in StateType
    BY DEF StartFull, Running, TypeOK, StateType
  <1>2. sync' \in SyncType
    BY DEF StartFull, NoSync, TypeOK, StateType, SyncType, OptionalTime
  <1> QED
    BY <1>1, <1>2 DEF StartFull, upstream, TypeOK

LEMMA TypeIncremental == TypeOK /\ StartIncremental => TypeOK'
  <1> SUFFICES ASSUME TypeOK, StartIncremental, state.lastAsOf # None
               PROVE  TypeOK'
    BY TypeFull DEF StartIncremental
  <1>1. state' \in StateType
    BY DEF StartIncremental, Running, TypeOK, StateType
  <1>2. sync' \in SyncType
    BY DEF StartIncremental, NoSync, TypeOK, StateType, SyncType, OptionalTime
  <1> QED
    BY <1>1, <1>2 DEF StartIncremental, upstream, TypeOK

LEMMA TypeStep == TypeOK /\ [Next]_vars => TypeOK'
  <1> SUFFICES ASSUME TypeOK, [Next]_vars PROVE TypeOK'
    OBVIOUS
  <1>1. ASSUME NEW x \in Row, Edit(x) PROVE TypeOK'
    BY <1>1, BoundAssumption DEF Edit, TypeOK
  <1>2. CASE SyncFull
    BY <1>2, TypeFull DEF SyncFull
  <1>3. CASE SyncIncremental
    BY <1>3, TypeIncremental DEF SyncIncremental
  <1>4. CASE EnsureFresh
    BY <1>4, TypeFull, TypeIncremental DEF EnsureFresh
  <1>5. CASE GetEarliest
    <2>1. sync' \in SyncType
      BY <1>5 DEF GetEarliest, TypeOK, SyncType
    <2> QED
      BY <1>5, <2>1 DEF GetEarliest, upstream, TypeOK
  <1>6. CASE FetchPage
    <2>1. PICK page \in SUBSET Unsent, given \in BOOLEAN :
            ReceivePage(page, given)
      BY <1>6 DEF FetchPage
    <2>2. Begun \in OptionalTime /\ clock \in OptionalTime
      BY DEF Begun, TypeOK, SyncType, OptionalTime
    <2>3. page \in SUBSET Row
      BY DEF Unsent
    <2>4. sync' \in SyncType
      BY <2>1, <2>2, <2>3, PinnedAssumption DEF ReceivePage, TypeOK, SyncType
    <2>5. cache' \in [Row -> 0 .. MaxClock]
      BY <2>1 DEF ReceivePage, Upsert, TypeOK
    <2>6. lost' \subseteq Row
      BY <2>1 DEF ReceivePage, TypeOK
    <2> QED
      BY <1>6, <2>4, <2>5, <2>6 DEF FetchPage, upstream, TypeOK
  <1>7. CASE CommitFull
    <2>1. state' \in StateType
      BY <1>7 DEF CommitFull, TypeOK, SyncType, StateType
    <2> QED
      BY <1>7, <2>1, NoSyncType DEF CommitFull, upstream, TypeOK
  <1>8. CASE CommitIncremental
    <2>1. state' \in StateType
      BY <1>8 DEF CommitIncremental, TypeOK, SyncType, StateType
    <2> QED
      BY <1>8, <2>1, NoSyncType DEF CommitIncremental, upstream, TypeOK
  <1>9. CASE Fail
    <2>1. state' \in StateType
      BY <1>9 DEF Fail, TypeOK, StateType
    <2> QED
      BY <1>9, <2>1, NoSyncType, BoundAssumption DEF Fail, upstream, TypeOK
  <1>10. CASE Kill
    BY <1>10, NoSyncType, BoundAssumption DEF Kill, upstream, TypeOK
  <1>11. CASE DropTable
    <2>1. sync' \in SyncType
      BY <1>11 DEF DropTable, TypeOK, SyncType
    <2> QED
      BY <1>11, <2>1, BoundAssumption DEF DropTable, upstream, TypeOK
  <1>12. CASE ResetMarkers
    BY <1>12, EmptyStateType, NoSyncType DEF ResetMarkers, upstream, TypeOK
  <1>13. CASE UNCHANGED vars
    BY <1>13 DEF vars, upstream, TypeOK
  <1> QED
    BY <1>1, <1>2, <1>3, <1>4, <1>5, <1>6, <1>7, <1>8, <1>9, <1>10, <1>11,
       <1>12, <1>13 DEF Next, Progress

\* The markers are always times of the upstream clock, or unset; the cache
\* never holds a version that does not exist.
THEOREM TypeCorrect == Spec => []TypeOK
  BY TypeInit, TypeStep, PTL DEF Spec
-----------------------------------------------------------------------------
(***************************************************************************)
(* No lost update.                                                         *)
(***************************************************************************)
LEMMA NoSyncFields ==
  /\ NoSync.at = "idle" /\ NoSync.full = FALSE /\ NoSync.since = None
  /\ NoSync.from = None /\ NoSync.asOf = None /\ NoSync.sent = {}
  /\ NoSync.begun = None
  BY DEF NoSync

LEMMA SyncInvInit == Init => SyncInv
  BY NoSyncFields DEF Init, SyncInv, TimesPassed, AsksByMarkers, SentIsCached,
     ListedAll, NoLostUpdate, InitializedMeansComplete, Initialized, EmptyState

\* A step that ends the sync and leaves rows and markers alone.
LEMMA Abandoned ==
  ASSUME SyncInv, sync' = NoSync, UNCHANGED <<clock, mod, date, cache, lost>>,
         state'.lastAsOf = state.lastAsOf,
         state'.dateOnAfter = state.dateOnAfter,
         state'.lastFullSyncAt = state.lastFullSyncAt
  PROVE  SyncInv'
  BY NoSyncFields DEF SyncInv, TimesPassed, AsksByMarkers, SentIsCached,
     ListedAll, NoLostUpdate, InitializedMeansComplete,
       Initialized, Due, After, Exists

\* A step that begins one.
LEMMA BegunFull ==
  ASSUME TypeOK, SyncInv, StartFull
  PROVE  SyncInv'
  <1>1. /\ sync'.at \in {"earliest", "page"} /\ sync'.full = TRUE
        /\ sync'.since = None /\ sync'.asOf = None
        /\ sync'.sent = {} /\ sync'.begun = None
    BY DEF StartFull, NoSync
  <1>2. /\ state'.lastAsOf = state.lastAsOf
        /\ state'.dateOnAfter = state.dateOnAfter
        /\ state'.lastFullSyncAt = state.lastFullSyncAt
        /\ UNCHANGED <<clock, mod, date, cache, lost>>
    BY DEF StartFull, Running, upstream, TypeOK, StateType
  <1> QED
    BY <1>1, <1>2 DEF SyncInv, TimesPassed, AsksByMarkers, SentIsCached,
       ListedAll, NoLostUpdate, InitializedMeansComplete,
       Initialized, Due, After, Exists

LEMMA BegunIncremental ==
  ASSUME TypeOK, SyncInv, StartIncremental
  PROVE  SyncInv'
  <1> SUFFICES ASSUME state.lastAsOf # None PROVE SyncInv'
    BY BegunFull DEF StartIncremental
  <1>1. /\ sync'.at = "page" /\ sync'.full = FALSE
        /\ sync'.since = state.lastAsOf /\ sync'.from = state.dateOnAfter
        /\ sync'.asOf = state.lastAsOf
        /\ sync'.sent = {} /\ sync'.begun = None
    BY DEF StartIncremental, NoSync
  <1>2. /\ state'.lastAsOf = state.lastAsOf
        /\ state'.dateOnAfter = state.dateOnAfter
        /\ state'.lastFullSyncAt = state.lastFullSyncAt
        /\ UNCHANGED <<clock, mod, date, cache, lost>>
    BY DEF StartIncremental, Running, upstream, TypeOK, StateType
  <1> QED
    BY <1>1, <1>2 DEF SyncInv, TimesPassed, AsksByMarkers, SentIsCached,
       ListedAll, NoLostUpdate, InitializedMeansComplete,
       Initialized, Due, After, Exists

\* A change upstream is later than the cursor and than the listing under way.
LEMMA EditStep ==
  ASSUME TypeOK, SyncInv, NEW x \in Row, Edit(x)
  PROVE  SyncInv'
  <1>1. /\ clock \in Nat /\ clock' = clock + 1
        /\ mod'[x] = clock'
        /\ \A y \in Row : mod[y] \in Nat
        /\ \A y \in Row \ {x} : mod'[y] = mod[y] /\ date'[y] = date[y]
        /\ UNCHANGED <<cache, state, sync, lost>>
    BY DEF Edit, TypeOK
  <1>2. /\ state.lastAsOf # None => state.lastAsOf \in Nat
        /\ Initialized => state.lastFullSyncAt \in Nat
        /\ sync.begun # None => sync.begun \in Nat
        /\ sync.sent \subseteq Row
    BY DEF TypeOK, StateType, SyncType, OptionalTime, Initialized
  <1>3. TimesPassed'
    BY <1>1, <1>2 DEF SyncInv, TimesPassed, Initialized
  <1>4. AsksByMarkers'
    BY <1>1 DEF SyncInv, AsksByMarkers
  <1>5. SentIsCached'
    BY <1>1, <1>2 DEF SyncInv, TimesPassed, SentIsCached
  <1>6. ListedAll'
    <2>1. sync.at = "commit" => sync.begun # None
      BY DEF SyncInv, AsksByMarkers
    <2> QED
      BY <1>1, <1>2, <2>1 DEF SyncInv, TimesPassed, ListedAll, Exists, After
  <1>7. NoLostUpdate' /\ InitializedMeansComplete'
    BY <1>1, <1>2 DEF SyncInv, TimesPassed, NoLostUpdate, InitializedMeansComplete,
       Initialized, Due, Exists, After
  <1> QED
    BY <1>3, <1>4, <1>5, <1>6, <1>7 DEF SyncInv

LEMMA GetEarliestStep ==
  ASSUME TypeOK, SyncInv, GetEarliest
  PROVE  SyncInv'
  <1>1. sync.full /\ sync.at = "earliest"
    BY DEF GetEarliest, SyncInv, AsksByMarkers
  <1>2. /\ sync'.at = "page" /\ sync'.full = sync.full
        /\ sync'.since = sync.since /\ sync'.asOf = sync.asOf
        /\ sync'.sent = sync.sent /\ sync'.begun = sync.begun
        /\ UNCHANGED <<clock, mod, date, cache, state, lost>>
    BY DEF GetEarliest, upstream, TypeOK, SyncType
  <1> QED
    BY <1>1, <1>2 DEF SyncInv, TimesPassed, AsksByMarkers, SentIsCached,
       ListedAll, NoLostUpdate, InitializedMeansComplete,
       Initialized, Due, After, Exists

\* A page brings rows at their present versions; the last one, all that is left.
LEMMA FetchStep ==
  ASSUME PinnedAsOf, TypeOK, SyncInv, FetchPage
  PROVE  SyncInv'
  <1>1. PICK page \in SUBSET Unsent, given \in BOOLEAN :
          ReceivePage(page, given)
    BY DEF FetchPage
  <1>2. /\ sync.at = "page"
        /\ UNCHANGED <<clock, mod, date, state>>
    BY DEF FetchPage, upstream
  <1>3. /\ sync'.at = IF page = Unsent THEN "commit" ELSE "page"
        /\ sync'.begun = Begun
        /\ sync'.sent = sync.sent \union page
        /\ sync'.asOf = IF given THEN Begun ELSE sync.asOf
        /\ sync'.full = sync.full
        /\ sync'.since = sync.since
        /\ sync'.from = sync.from
    BY <1>1 DEF ReceivePage, TypeOK, SyncType
  <1>4. /\ \A x \in page : cache'[x] = mod[x]
        /\ \A x \in Row \ page : cache'[x] = cache[x]
        /\ page \subseteq Row /\ lost' = lost \ page
    BY <1>1 DEF ReceivePage, Upsert, Unsent
  <1>5. /\ Begun # None /\ Begun <= clock
        /\ Begun = IF sync.begun = None THEN clock ELSE sync.begun
        /\ clock \in Nat /\ Begun \in Nat /\ sync.sent \subseteq Row
    BY NoneAssumption DEF Begun, TypeOK, SyncType, OptionalTime, SyncInv,
       TimesPassed
  <1>6. TimesPassed'
    BY <1>2, <1>3, <1>5 DEF SyncInv, TimesPassed, Initialized, TypeOK, StateType,
       OptionalTime
  <1>7. AsksByMarkers'
    <2>1. sync.begun = None => sync.asOf \in {None, sync.since}
      BY DEF SyncInv, AsksByMarkers
    <2>2. sync'.asOf \in {None, sync'.begun, sync'.since}
      BY <1>3, <1>5, <2>1 DEF SyncInv, AsksByMarkers
    <2>3. sync'.at \in {"page", "commit"}
      BY <1>3
    <2> QED
      BY <1>2, <1>3, <1>5, <2>2, <2>3 DEF SyncInv, AsksByMarkers
  <1>8. SentIsCached'
    <2> SUFFICES ASSUME NEW x \in sync.sent \union page, mod[x] <= Begun
                 PROVE  cache'[x] = mod[x]
      BY <1>2, <1>3 DEF SentIsCached
    <2>1. CASE x \in page
      BY <1>4, <2>1
    <2>2. CASE x \notin page
      <3>1. sync.begun # None
        BY <2>2 DEF SyncInv, AsksByMarkers
      <3> QED
        BY <1>4, <1>5, <2>2, <3>1 DEF SyncInv, SentIsCached
    <2> QED
      BY <2>1, <2>2
  <1>9. ListedAll'
    BY <1>2, <1>3 DEF ListedAll, Unsent, Exists, After
  <1>10. NoLostUpdate' /\ InitializedMeansComplete'
    BY <1>2, <1>4 DEF SyncInv, NoLostUpdate, InitializedMeansComplete,
       Initialized, Due, Exists, After
  <1> QED
    BY <1>6, <1>7, <1>8, <1>9, <1>10 DEF SyncInv

\* At its end a sync has everything up to the cursor it leaves.
LEMMA CommittedIsCached ==
  ASSUME TypeOK, SyncInv, sync.at = "commit",
         NEW x \in Row, sync.full \/ x \notin lost, Exists(x), After(x, sync.from), mod[x] <= sync.begun
  PROVE  cache[x] = mod[x]
  <1>1. sync.begun # None
    BY DEF SyncInv, AsksByMarkers
  <1>2. CASE x \in sync.sent
    BY <1>1, <1>2 DEF SyncInv, SentIsCached
  <1>3. CASE x \notin sync.sent
    <2>1. sync.since # None /\ mod[x] <= sync.since /\ x \notin lost
      BY <1>3 DEF SyncInv, ListedAll, AsksByMarkers, TypeOK, SyncType, OptionalTime
    <2>2. sync.since = state.lastAsOf /\ sync.from = state.dateOnAfter
      BY <2>1 DEF SyncInv, AsksByMarkers, TypeOK, SyncType
    <2> QED
      BY <2>1, <2>2 DEF SyncInv, NoLostUpdate, InitializedMeansComplete,
       Initialized, Due
  <1> QED
    BY <1>2, <1>3

LEMMA CommitFullStep ==
  ASSUME TypeOK, SyncInv, CommitFull
  PROVE  SyncInv'
  <1>1. /\ sync.at = "commit" /\ sync.full /\ sync.since = None
        /\ sync.begun # None /\ sync.begun <= clock
        /\ sync.asOf \in {None, sync.begun}
    BY DEF CommitFull, SyncInv, AsksByMarkers, TimesPassed
  <1>2. /\ state'.lastAsOf = sync.asOf /\ state'.dateOnAfter = sync.from
        /\ state'.lastFullSyncAt = sync.begun
        /\ sync' = NoSync
        /\ UNCHANGED <<clock, mod, date, cache, lost>>
    BY DEF CommitFull, upstream
  <1>3. TimesPassed' /\ AsksByMarkers' /\ SentIsCached' /\ ListedAll'
    BY <1>1, <1>2, NoSyncFields DEF SyncInv, TimesPassed, AsksByMarkers,
       SentIsCached, ListedAll, Initialized
  <1>4. NoLostUpdate' /\ InitializedMeansComplete'
    BY <1>1, <1>2, CommittedIsCached
    DEF NoLostUpdate, InitializedMeansComplete, Initialized, Due, Exists, After
  <1> QED
    BY <1>3, <1>4 DEF SyncInv

LEMMA CommitIncrementalStep ==
  ASSUME TypeOK, SyncInv, CommitIncremental
  PROVE  SyncInv'
  <1>1. /\ sync.at = "commit" /\ ~sync.full
        /\ sync.since = state.lastAsOf /\ sync.from = state.dateOnAfter
        /\ sync.begun # None /\ sync.begun <= clock
        /\ sync.asOf \in {None, sync.begun, state.lastAsOf}
    BY DEF CommitIncremental, SyncInv, AsksByMarkers, TimesPassed
  <1>2. /\ state'.lastAsOf = sync.asOf
        /\ state'.dateOnAfter = state.dateOnAfter
        /\ state'.lastFullSyncAt = state.lastFullSyncAt
        /\ sync' = NoSync
        /\ UNCHANGED <<clock, mod, date, cache, lost>>
    BY DEF CommitIncremental, upstream, TypeOK, StateType
  <1>3. TimesPassed' /\ AsksByMarkers' /\ SentIsCached' /\ ListedAll'
    BY <1>1, <1>2, NoSyncFields DEF SyncInv, TimesPassed, AsksByMarkers,
       SentIsCached, ListedAll, Initialized
  <1>4. NoLostUpdate'
    <2>1. CASE sync.asOf = state.lastAsOf
      BY <1>2, <2>1 DEF SyncInv, NoLostUpdate, Due, Exists, After
    <2>2. CASE sync.asOf \in {None, sync.begun}
      BY <1>1, <1>2, <2>2, CommittedIsCached DEF NoLostUpdate, Due, Exists, After
    <2> QED
      BY <1>1, <2>1, <2>2
  <1>5. InitializedMeansComplete'
    BY <1>2 DEF SyncInv, InitializedMeansComplete, Initialized, Due, Exists, After
  <1> QED
    BY <1>3, <1>4, <1>5 DEF SyncInv

\* What the first statement of a discard drops is lost until it is listed again
\* or the second one resets the markers.
LEMMA DropStep ==
  ASSUME TypeOK, SyncInv, DropTable
  PROVE  SyncInv'
  <1>1. /\ sync = NoSync /\ sync' = [NoSync EXCEPT !.at = "reset"]
        /\ UNCHANGED <<clock, mod, date, state>>
        /\ \A x \in Row : cache'[x] = 0
        /\ \A x \in Row \ lost' : x \notin lost /\ cache[x] = 0
    BY DEF DropTable, SyncInv, AsksByMarkers, upstream, TypeOK
  <1>2. /\ sync'.at = "reset" /\ sync'.full = FALSE /\ sync'.since = None
        /\ sync'.asOf = None /\ sync'.sent = {} /\ sync'.begun = None
    BY <1>1 DEF NoSync
  <1>3. TimesPassed' /\ AsksByMarkers' /\ SentIsCached' /\ ListedAll'
    BY <1>1, <1>2 DEF SyncInv, TimesPassed, AsksByMarkers, SentIsCached,
       ListedAll, Initialized
  <1>4. NoLostUpdate' /\ InitializedMeansComplete'
    BY <1>1 DEF SyncInv, NoLostUpdate, InitializedMeansComplete, Initialized,
       Due, Exists, After
  <1> QED
    BY <1>3, <1>4 DEF SyncInv

LEMMA ResetStep ==
  ASSUME SyncInv, ResetMarkers
  PROVE  SyncInv'
  <1>1. /\ state'.lastAsOf = None /\ state'.lastFullSyncAt = None
        /\ sync' = NoSync
        /\ UNCHANGED <<clock, mod, date>>
    BY DEF ResetMarkers, EmptyState, upstream
  <1> QED
    BY <1>1, NoSyncFields DEF SyncInv, TimesPassed, AsksByMarkers, SentIsCached,
       ListedAll, NoLostUpdate, InitializedMeansComplete, Initialized

LEMMA SyncInvStep ==
  ASSUME PinnedAsOf, TypeOK, SyncInv, [Next]_vars
  PROVE  SyncInv'
  <1>1. ASSUME NEW x \in Row, Edit(x) PROVE SyncInv'
    BY <1>1, EditStep
  <1>2. CASE SyncFull
    BY <1>2, BegunFull DEF SyncFull
  <1>3. CASE SyncIncremental
    BY <1>3, BegunIncremental DEF SyncIncremental
  <1>4. CASE EnsureFresh
    BY <1>4, BegunFull, BegunIncremental DEF EnsureFresh
  <1>5. CASE GetEarliest
    BY <1>5, GetEarliestStep
  <1>6. CASE FetchPage
    BY <1>6, FetchStep
  <1>7. CASE CommitFull
    BY <1>7, CommitFullStep
  <1>8. CASE CommitIncremental
    BY <1>8, CommitIncrementalStep
  <1>9. CASE Fail
    BY <1>9, Abandoned DEF Fail, upstream, TypeOK, StateType
  <1>10. CASE Kill
    BY <1>10, Abandoned DEF Kill, upstream
  <1>11. CASE DropTable
    BY <1>11, DropStep
  <1>12. CASE ResetMarkers
    BY <1>12, ResetStep
  <1>13. CASE UNCHANGED vars
    BY <1>13 DEF vars, SyncInv, TimesPassed, AsksByMarkers, SentIsCached,
       ListedAll, NoLostUpdate, InitializedMeansComplete, Initialized, Due,
       Exists, After
  <1> QED
    BY <1>1, <1>2, <1>3, <1>4, <1>5, <1>6, <1>7, <1>8, <1>9, <1>10, <1>11,
       <1>12, <1>13 DEF Next, Progress

\* The whole inductive invariant: cursor, pages in flight and markers agree.
THEOREM SyncInvariant ==
  ASSUME PinnedAsOf
  PROVE  Spec => []SyncInv
  <1>1. Init => TypeOK /\ SyncInv
    BY TypeInit, SyncInvInit
  <1>2. TypeOK /\ SyncInv /\ [Next]_vars => (TypeOK /\ SyncInv)'
    BY TypeStep, SyncInvStep
  <1> QED
    BY <1>1, <1>2, PTL DEF Spec

\* No change is lost below the cursor, whatever fails and whenever the process
\* is killed, for any number of rows, pages and changes; a kill in the middle of
\* a discard loses the rows that were dropped, and no others.
THEOREM UpdatesKept ==
  ASSUME PinnedAsOf
  PROVE  Spec => []NoLostUpdate
  <1>1. SyncInv => NoLostUpdate
    BY DEF SyncInv
  <1> QED
    BY <1>1, SyncInvariant, PTL

\* A cache that counts as initialized has everything the last complete sync was
\* there to bring, but for rows that a torn discard has dropped.
THEOREM InitializedIsComplete ==
  ASSUME PinnedAsOf
  PROVE  Spec => []InitializedMeansComplete
  <1>1. SyncInv => InitializedMeansComplete
    BY DEF SyncInv
  <1> QED
    BY <1>1, SyncInvariant, PTL

\* The cursor never goes back, and a cache that was completely synced counts as
\* synced until its rows are gone.
THEOREM CursorNeverBack ==
  ASSUME PinnedAsOf
  PROVE  Spec => CursorAdvances
  <1> DEFINE Advances == /\ Initialized => Initialized' \/ \A x \in Row : cache[x] = 0
                         /\ state.lastAsOf # None /\ state'.lastAsOf # None =>
                              state'.lastAsOf >= state.lastAsOf
  <1>1. TypeOK /\ SyncInv /\ [Next]_vars => [Advances]_vars
    <2> SUFFICES ASSUME TypeOK, SyncInv, Next PROVE Advances
      OBVIOUS
    <2>1. state.lastAsOf # None => state.lastAsOf \in Int
      BY DEF TypeOK, StateType, OptionalTime
    <2>2. ASSUME state'.lastAsOf = state.lastAsOf,
                 state'.lastFullSyncAt = state.lastFullSyncAt
          PROVE  Advances
      BY <2>1, <2>2 DEF Initialized
    <2>3. ASSUME NEW x \in Row, Edit(x) PROVE Advances
      BY <2>2, <2>3 DEF Edit
    <2>4. CASE StartFull
      BY <2>2, <2>4 DEF StartFull, Running, TypeOK, StateType
    <2>5. CASE SyncFull \/ SyncIncremental \/ EnsureFresh
      BY <2>2, <2>4, <2>5 DEF SyncFull, SyncIncremental, EnsureFresh,
         StartIncremental, Running, TypeOK, StateType
    <2>6. CASE GetEarliest \/ FetchPage \/ Kill
      BY <2>2, <2>6 DEF GetEarliest, FetchPage, Kill
    <2>7. CASE CommitFull
      BY <2>1, <2>7 DEF CommitFull, SyncInv, AsksByMarkers, TimesPassed, Initialized
    <2>8. CASE CommitIncremental
      <3>1. /\ sync.asOf \in {None, sync.begun, state.lastAsOf}
            /\ sync.begun # None
        BY <2>8 DEF CommitIncremental, SyncInv, AsksByMarkers
      <3> QED
        BY <2>1, <2>8, <3>1 DEF CommitIncremental, SyncInv, TimesPassed, Initialized,
           TypeOK, StateType
    <2>9. CASE Fail
      BY <2>2, <2>9 DEF Fail, TypeOK, StateType
    <2>10. CASE DropTable
      BY <2>2, <2>10 DEF DropTable
    <2>11. CASE ResetMarkers
      BY <2>11 DEF ResetMarkers, EmptyState, SyncInv, AsksByMarkers
    <2> QED
      BY <2>3, <2>5, <2>6, <2>7, <2>8, <2>9, <2>10, <2>11 DEF Next, Progress
  <1> QED
    BY <1>1, TypeCorrect, SyncInvariant, PTL DEF Spec, CursorAdvances
=============================================================================
