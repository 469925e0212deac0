-------------------------- MODULE ToolCallsProofs --------------------------
(***************************************************************************)
(* Theorems about ToolCalls, for any tables, calls and processes.          *)
(***************************************************************************)
EXTENDS ToolCalls, FiniteSetTheorems, TLAPS

(***************************************************************************)
(* NewestFirst lists a table: how many rows are newer than a row is its    *)
(* place, and no two rows have the same one.                               *)
(***************************************************************************)
NewerThan(row, rows) == {r \in rows : Newer(r, row)}
PlaceOf(row, rows) == Cardinality(NewerThan(row, rows))

LEMMA RowType ==
  ASSUME NEW rows, Table(rows)
  PROVE  \A row \in rows : row.id \in Int /\ row.date \in Int
  BY DEF Table, IsRow, IsDate, NoDate

LEMMA PlaceType ==
  ASSUME NEW rows, Table(rows), NEW row \in rows
  PROVE  /\ IsFiniteSet(NewerThan(row, rows))
         /\ PlaceOf(row, rows) \in 0 .. Cardinality(rows) - 1
  <1>1. NewerThan(row, rows) \subseteq rows \ {row}
    BY RowType DEF NewerThan, Newer
  <1>2. IsFiniteSet(rows \ {row}) /\ Cardinality(rows \ {row}) = Cardinality(rows) - 1
    BY FS_RemoveElement DEF Table
  <1>3. IsFiniteSet(NewerThan(row, rows))
    BY <1>1, <1>2, FS_Subset
  <1>4. Cardinality(NewerThan(row, rows)) <= Cardinality(rows \ {row})
    BY <1>1, <1>2, FS_Subset
  <1>5. Cardinality(rows) \in Nat /\ Cardinality(NewerThan(row, rows)) \in Nat
    BY <1>3, FS_CardinalityType DEF Table
  <1> QED
    BY <1>2, <1>3, <1>4, <1>5 DEF PlaceOf

\* A row before another has a smaller place.
LEMMA PlaceOrders ==
  ASSUME NEW rows, Table(rows), NEW r \in rows, NEW s \in rows, Newer(r, s)
  PROVE  PlaceOf(r, rows) < PlaceOf(s, rows)
  <1>1. NewerThan(r, rows) \subseteq NewerThan(s, rows)
    BY RowType DEF NewerThan, Newer
  <1>2. r \in NewerThan(s, rows) /\ r \notin NewerThan(r, rows)
    BY RowType DEF NewerThan, Newer
  <1>3. IsFiniteSet(NewerThan(s, rows)) /\ IsFiniteSet(NewerThan(r, rows))
    BY PlaceType
  <1>4. /\ Cardinality(NewerThan(r, rows)) <= Cardinality(NewerThan(s, rows))
        /\ Cardinality(NewerThan(r, rows)) # Cardinality(NewerThan(s, rows))
    BY <1>1, <1>2, <1>3, FS_Subset
  <1> QED
    BY <1>3, <1>4, FS_CardinalityType DEF PlaceOf

LEMMA PlaceIsItsOwn ==
  ASSUME NEW rows, Table(rows), NEW r \in rows, NEW s \in rows,
         PlaceOf(r, rows) = PlaceOf(s, rows)
  PROVE  r = s
  <1>1. r # s => Newer(r, s) \/ Newer(s, r)
    BY RowType DEF Newer, Table, DistinctIds
  <1>2. PlaceOf(r, rows) \in Int
    BY PlaceType
  <1> QED
    BY <1>1, <1>2, PlaceOrders

\* Every place is taken: a listing is the table, in order, each row once.
LEMMA EveryPlaceTaken ==
  ASSUME NEW rows, Table(rows), NEW i \in 1 .. Cardinality(rows)
  PROVE  \E row \in rows : PlaceOf(row, rows) = i - 1
  <1> DEFINE N == Cardinality(rows)
             places == 0 .. N - 1
             place == [row \in rows |-> PlaceOf(row, rows)]
  <1>1. N \in Nat
    BY FS_CardinalityType DEF Table
  <1>2. IsFiniteSet(places) /\ Cardinality(places) = N
    <2> DEFINE last == N - 1
    <2>1. last \in Int /\ 0 \in Int
      BY <1>1
    <2> HIDE DEF last
    <2>2. /\ IsFiniteSet(0 .. last)
          /\ Cardinality(0 .. last) = IF 0 > last THEN 0 ELSE last - 0 + 1
      BY <2>1, FS_Interval
    <2> QED
      BY <1>1, <2>2 DEF last
  <1>3. place \in Injection(rows, places)
    BY PlaceType, PlaceIsItsOwn DEF Injection, IsInjective
  <1>4. place \in Surjection(rows, places)
    BY <1>2, <1>3, FS_Injection DEF Table
  <1>5. i - 1 \in places
    BY <1>1
  <1> QED
    BY <1>4, <1>5 DEF Surjection

LEMMA ListingOfTable ==
  ASSUME NEW rows, Table(rows)
  PROVE  /\ Cardinality(rows) \in Nat
         /\ NewestFirst(rows) \in Seq(rows)
         /\ Len(NewestFirst(rows)) = Cardinality(rows)
         /\ \A i \in 1 .. Cardinality(rows) :
              /\ NewestFirst(rows)[i] \in rows
              /\ PlaceOf(NewestFirst(rows)[i], rows) = i - 1
         /\ \A row \in rows : NewestFirst(rows)[PlaceOf(row, rows) + 1] = row
  <1>1. Cardinality(rows) \in Nat
    BY FS_CardinalityType DEF Table
  <1>2. ASSUME NEW i \in 1 .. Cardinality(rows)
        PROVE  /\ NewestFirst(rows)[i] \in rows
               /\ PlaceOf(NewestFirst(rows)[i], rows) = i - 1
    <2>1. \E row \in rows : Cardinality({r \in rows : Newer(r, row)}) = i - 1
      BY EveryPlaceTaken DEF PlaceOf, NewerThan
    <2> QED
      BY <2>1 DEF NewestFirst, PlaceOf, NewerThan
  <1>3. NewestFirst(rows) \in [1 .. Cardinality(rows) -> rows]
    BY <1>2 DEF NewestFirst
  <1>4. NewestFirst(rows) \in Seq(rows) /\ Len(NewestFirst(rows)) = Cardinality(rows)
    BY <1>1, <1>3
  <1>5. ASSUME NEW row \in rows
        PROVE  NewestFirst(rows)[PlaceOf(row, rows) + 1] = row
    <2>1. PlaceOf(row, rows) + 1 \in 1 .. Cardinality(rows)
      BY <1>1, PlaceType
    <2> QED
      BY <1>1, <1>2, <2>1, PlaceType, PlaceIsItsOwn
  <1> QED
    BY <1>1, <1>2, <1>4, <1>5

LEMMA ListingHasAll ==
  ASSUME NEW rows, Table(rows)
  PROVE  /\ ToSet(NewestFirst(rows)) = rows
         /\ ToSet(Reverse(NewestFirst(rows))) = rows
  <1> DEFINE s == NewestFirst(rows)
             N == Cardinality(rows)
  <1>1. N \in Nat /\ s \in Seq(rows) /\ Len(s) = N
    BY ListingOfTable
  <1>2. ASSUME NEW row \in rows PROVE \E i \in 1 .. N : s[i] = row
    <2>1. PlaceOf(row, rows) + 1 \in 1 .. N
      BY <1>1, PlaceType
    <2> QED
      BY <2>1, ListingOfTable
  <1>3. \A i \in 1 .. N : s[i] \in rows
    BY ListingOfTable
  <1>4. DOMAIN s = 1 .. N
    BY <1>1
  <1>5. ToSet(s) = rows
    BY <1>2, <1>3, <1>4 DEF ToSet
  <1>6. ToSet(Reverse(s)) = rows
    <2>1. DOMAIN Reverse(s) = 1 .. N /\ \A i \in 1 .. N : Reverse(s)[i] = s[N - i + 1]
      BY <1>1 DEF Reverse
    <2>2. \A i \in 1 .. N : N - i + 1 \in 1 .. N /\ N - (N - i + 1) + 1 = i
      BY <1>1
    <2> QED
      BY <1>2, <1>3, <2>1, <2>2 DEF ToSet
  <1> QED
    BY <1>5, <1>6
-----------------------------------------------------------------------------
(***************************************************************************)
(* Pages.                                                                  *)
(***************************************************************************)
LEMMA PartOfTable ==
  ASSUME NEW rows, Table(rows), NEW part, part \subseteq rows
  PROVE  Table(part)
  <1>1. IsFiniteSet(part)
    BY FS_Subset DEF Table
  <1> QED
    BY <1>1 DEF Table, DistinctIds

LEMMA MinOfTwo ==
  ASSUME NEW a \in Int, NEW b \in Int
  PROVE  Min({a, b}) = IF a <= b THEN a ELSE b
  BY DEF Min

LEMMA MaxOfTwo ==
  ASSUME NEW a \in Int, NEW b \in Int
  PROVE  Max({a, b}) = IF a >= b THEN a ELSE b
  BY DEF Max

LEMMA LimitType ==
  ASSUME NEW limit \in Int
  PROVE  ClampedLimit(limit) \in 1 .. 200
  <1> DEFINE atLeastOne == Max({limit, 1})
  <1>1. atLeastOne \in Int /\ atLeastOne >= 1
    BY MaxOfTwo
  <1>2. ClampedLimit(limit) = Min({atLeastOne, 200})
    BY DEF ClampedLimit
  <1> HIDE DEF atLeastOne
  <1> DEFINE most == 200
  <1>3. most \in Int
    OBVIOUS
  <1> HIDE DEF most
  <1>4. Min({atLeastOne, most}) = IF atLeastOne <= most THEN atLeastOne ELSE most
    BY <1>1, <1>3, MinOfTwo
  <1> QED
    BY <1>1, <1>2, <1>4 DEF most

LEMMA CursorType ==
  ASSUME NEW cursor
  PROVE  DecodeCursor(cursor) \in Nat
  BY DEF DecodeCursor

\* A page has the rows of the listing from its offset on, up to its limit; the
\* cursor is where the next page begins, and there is none at the end.
LEMMA PageOfListing ==
  ASSUME NEW rows, Table(rows), NEW offset \in Nat, NEW limit \in 1 .. 200
  PROVE  LET page == PageOf(NewestFirst(rows), offset, limit)
         IN /\ ToSet(page.items) = {row \in rows : /\ offset <= PlaceOf(row, rows)
                                                   /\ PlaceOf(row, rows) < offset + limit}
            /\ page.nextCursor = IF Cardinality(rows) > offset + limit
                                 THEN offset + limit ELSE NoFilter
  <1> DEFINE s == NewestFirst(rows)
             N == Cardinality(rows)
             last == Min({offset + limit, N})
             items == SubSeq(s, offset + 1, last)
             listed == {row \in rows : /\ offset <= PlaceOf(row, rows)
                                       /\ PlaceOf(row, rows) < offset + limit}
  <1>1. N \in Nat /\ s \in Seq(rows) /\ Len(s) = N
    BY ListingOfTable
  <1>2. last = (IF offset + limit <= N THEN offset + limit ELSE N) /\ last \in Nat
    BY <1>1, MinOfTwo
  <1> HIDE DEF last, s, N
  <1>3. /\ DOMAIN items = 1 .. last - offset
        /\ \A i \in 1 .. last - offset : items[i] = s[offset + i]
    BY <1>1, <1>2
  <1> HIDE DEF items
  <1>4. \A i \in 1 .. last - offset : items[i] \in listed
    <2> SUFFICES ASSUME NEW i \in 1 .. last - offset PROVE items[i] \in listed
      OBVIOUS
    <2>1. offset + i \in 1 .. N
      BY <1>1, <1>2
    <2>2. s[offset + i] \in rows /\ PlaceOf(s[offset + i], rows) = offset + i - 1
      BY <2>1, ListingOfTable DEF s, N
    <2>3. items[i] = s[offset + i] /\ offset + i - 1 < offset + limit
      BY <1>1, <1>2, <1>3
    <2> QED
      BY <2>2, <2>3
  <1>5. ASSUME NEW row \in listed
        PROVE  \E i \in 1 .. last - offset : items[i] = row
    <2>1. PlaceOf(row, rows) \in 0 .. N - 1
      BY PlaceType DEF N
    <2>2. s[PlaceOf(row, rows) + 1] = row
      BY ListingOfTable DEF s
    <2> DEFINE i == PlaceOf(row, rows) + 1 - offset
    <2>3. i \in 1 .. last - offset /\ offset + i = PlaceOf(row, rows) + 1
      BY <1>1, <1>2, <2>1
    <2> QED
      BY <1>3, <2>2, <2>3
  <1>6. ToSet(items) = listed
    BY <1>3, <1>4, <1>5 DEF ToSet
  <1> QED
    BY <1>1, <1>6 DEF PageOf, items, s, N, last
\* The same of a query: the rows between its cursor and the next one.
LEMMA PageOfQuery ==
  ASSUME NEW table, Table(table), NEW q, q.limit \in Int, NEW cursor
  PROVE  LET page == QueryTransactions(table, q, cursor)
             rows == Matching(table, q)
             offset == DecodeCursor(cursor)
             limit == ClampedLimit(q.limit)
         IN /\ limit \in 1 .. 200
            /\ ToSet(page.items) = {row \in rows : /\ offset <= PlaceOf(row, rows)
                                                   /\ PlaceOf(row, rows) < offset + limit}
            /\ page.nextCursor = IF Cardinality(rows) > offset + limit
                                 THEN offset + limit ELSE NoFilter
  <1> DEFINE rows == Matching(table, q)
             offset == DecodeCursor(cursor)
             limit == ClampedLimit(q.limit)
  <1>1. Table(rows) /\ offset \in Nat /\ limit \in 1 .. 200
    BY PartOfTable, LimitType, CursorType DEF Matching
  <1>2. QueryTransactions(table, q, cursor) = PageOf(NewestFirst(rows), offset, limit)
    BY DEF QueryTransactions, Listing
  <1> HIDE DEF rows, offset, limit
  <1>3. LET page == PageOf(NewestFirst(rows), offset, limit)
        IN /\ ToSet(page.items) = {row \in rows : /\ offset <= PlaceOf(row, rows)
                                                  /\ PlaceOf(row, rows) < offset + limit}
           /\ page.nextCursor = IF Cardinality(rows) > offset + limit
                                THEN offset + limit ELSE NoFilter
    BY <1>1, PageOfListing
  <1> QED
    BY <1>1, <1>2, <1>3 DEF rows, offset, limit
-----------------------------------------------------------------------------
(***************************************************************************)
(* Types.                                                                  *)
(***************************************************************************)
LEMMA WorldsAreTables ==
  ASSUME TypeOK
  PROVE  Table(world.cache) /\ Table(world.upstream)
  BY WorldAssumption DEF TypeOK

LEMMA UpsertIsTable ==
  ASSUME TypeOK, NEW page, page \subseteq world.upstream
  PROVE  Table(Upsert(page)) /\ Upsert(page) \subseteq Stored
  <1>1. Table(page)
    BY WorldsAreTables, PartOfTable
  <1>2. Table({row \in cache : row.id \notin Ids(page)})
    BY PartOfTable DEF TypeOK
  <1>3. IsFiniteSet(Upsert(page))
    BY <1>1, <1>2, FS_Union DEF Upsert, Table
  <1>4. DistinctIds(Upsert(page))
    BY <1>1, <1>2 DEF Upsert, Table, DistinctIds, Ids
  <1> QED
    BY <1>1, <1>2, <1>3, <1>4 DEF Table, Upsert, TypeOK, Stored

LEMMA NoLoadType == NoLoad \in LoadType
  BY DEF NoLoad, LoadType

LEMMA NoPagesType == NoPages \in ClientType
  BY DEF NoPages, ClientType

LEMMA TypeInit == Init => TypeOK
  <1> SUFFICES ASSUME Init PROVE TypeOK
    OBVIOUS
  <1>1. world \in Worlds /\ cache = world.cache
    BY DEF Init
  <1> QED
    BY <1>1, WorldAssumption, NoLoadType, NoPagesType DEF Init, TypeOK, Stored, Steps

\* A commit keeps the table and the types of the histories.
LEMMA TypeCommit ==
  ASSUME TypeOK, NEW page, page \subseteq world.upstream, Commit(page), UNCHANGED world
  PROVE  /\ Table(cache') /\ cache' \subseteq Stored'
         /\ client' \in ClientType'
         /\ steady' \in BOOLEAN
  <1>1. Table(cache') /\ cache' \subseteq Stored'
    BY UpsertIsTable DEF Commit, Stored
  <1>2. client' \in ClientType'
    BY DEF Commit, TypeOK, ClientType, Stored
  <1>3. steady' \in BOOLEAN
    BY DEF Commit, TypeOK
  <1> QED
    BY <1>1, <1>2, <1>3

\* The rows of a range, in whatever order, are those of the table that lie in it.
LEMMA RangeOfTable ==
  ASSUME NEW table, Table(table), NEW from, NEW to, NEW account
  PROVE  LET rows == TransactionsInRange(table, from, to, account)
         IN /\ rows \in Seq(table)
            /\ ToSet(rows) = {row \in table : /\ ~row.deleted /\ row.date # NoDate
                                              /\ from <= row.date /\ row.date <= to
                                              /\ InAccount(row, account)}
  <1> DEFINE range == {row \in table : /\ ~row.deleted /\ row.date # NoDate
                                       /\ from <= row.date /\ row.date <= to
                                       /\ InAccount(row, account)}
             s == NewestFirst(range)
  <1>1. Table(range) /\ range \subseteq table
    BY PartOfTable
  <1>2. s \in Seq(range) /\ Len(s) \in Nat
    BY <1>1, ListingOfTable
  <1> HIDE DEF s, range
  <1>3. Reverse(s) \in Seq(range)
    <2>1. \A i \in 1 .. Len(s) : s[(Len(s) - i) + 1] \in range
      BY <1>2
    <2>2. Reverse(s) \in [1 .. Len(s) -> range]
      BY <2>1 DEF Reverse
    <2> QED
      BY <1>2, <2>2
  <1>4. Reverse(s) \in Seq(table)
    BY <1>1, <1>3
  <1>5. ToSet(Reverse(s)) = range
    BY <1>1, ListingHasAll DEF s
  <1> QED
    BY <1>4, <1>5 DEF TransactionsInRange, s, range

LEMMA TypeStep == TypeOK /\ [Next]_vars => TypeOK'
  <1> SUFFICES ASSUME TypeOK, [Next]_vars PROVE TypeOK'
    OBVIOUS
  <1>1. CASE Receive
    BY <1>1, NoLoadType, NoPagesType DEF Receive, TypeOK, Steps, Stored, LoadType, ClientType
  <1>2. CASE RefuseRefresh \/ UseCached \/ SyncFails \/ GetTransaction \/ EnsureCategoriesFresh
    BY <1>2, WorldAssumption DEF RefuseRefresh, UseCached, SyncFails, GetTransaction, EnsureCategoriesFresh,
       Return, Reading, TypeOK, Steps, Stored, LoadType, ClientType, Lists, Analyses
  <1>3. CASE Sync
    BY <1>3, TypeCommit, WorldAssumption DEF Sync, Reading, TypeOK, Steps, Stored, LoadType, ClientType, Lists, Analyses
  <1>4. CASE CommitMeanwhile
    <2>1. PICK page \in (SUBSET Changed) \ {{}} : Commit(page)
      BY <1>4 DEF CommitMeanwhile
    <2>2. page \subseteq world.upstream
      BY DEF Changed
    <2> QED
      BY <1>4, <2>1, <2>2, TypeCommit DEF CommitMeanwhile, TypeOK, Stored, LoadType, ClientType
  <1>5. CASE CountRows
    <2>1. Cardinality(Matching(cache, call)) \in Nat
      BY PartOfTable, FS_CardinalityType DEF TypeOK, Matching, Table
    <2>2. load' \in LoadType'
      BY <1>5, <2>1 DEF CountRows, TypeOK, LoadType, Stored
    <2> QED
      BY <1>5, <2>2 DEF CountRows, TypeOK, Steps, Stored, ClientType
  <1>6. CASE ReadPage
    <2> DEFINE page == QueryTransactions(cache, call, client.next)
               listed == Matching(cache, call)
    <2>1. call.limit \in Int
      BY <1>6, WorldAssumption DEF ReadPage, TypeOK
    <2>2. ClampedLimit(call.limit) \in 1 .. 200 /\ DecodeCursor(client.next) \in Nat
      BY <2>1, LimitType, CursorType
    <2>3. Table(listed) /\ listed \subseteq Stored
      BY PartOfTable DEF TypeOK, Matching
    <2>4. ToSet(page.items) \subseteq listed /\ page.nextCursor \in Nat \union {NoFilter}
      BY <2>1, <2>2, PageOfQuery DEF TypeOK
    <2> HIDE DEF page, listed
    <2>5. /\ Ids(ToSet(page.items)) \subseteq Ids(Stored)
          /\ Ids(listed) \subseteq Ids(Stored)
      BY <2>3, <2>4 DEF Ids
    <2>6. client' \in ClientType
      BY <1>6, <2>4, <2>5 DEF ReadPage, TypeOK, ClientType, NoPages, page, listed
    <2> QED
      BY <1>6, <2>6 DEF ReadPage, Return, TypeOK, Steps, Stored, LoadType, ClientType
  <1>7. CASE SyncOnMiss
    <2>1. CASE CanRefresh
      BY <1>7, <2>1, TypeCommit DEF SyncOnMiss, TypeOK, Steps, Stored, LoadType, ClientType
    <2>2. CASE ~CanRefresh
      BY <1>7, <2>2 DEF SyncOnMiss, TypeOK, Steps, Stored, LoadType, ClientType
    <2> QED
      BY <2>1, <2>2
  <1>8. CASE ReadRange
    <2> DEFINE rows == TransactionsInRange(cache, From, To, call.account)
    <2>1. rows \in Seq(cache) /\ ToSet(rows) \subseteq cache
      BY RangeOfTable DEF TypeOK
    <2> HIDE DEF rows
    <2>2. rows \in Seq(Stored) /\ ToSet(rows) \subseteq Stored
      BY <2>1 DEF TypeOK
    <2>3. load' \in LoadType'
      BY <1>8, <2>2 DEF ReadRange, TypeOK, LoadType, Stored, rows
    <2> QED
      BY <1>8, <2>3 DEF ReadRange, TypeOK, Steps, Stored, ClientType
  <1>9. CASE ReadCounterparts
    <2>1. TransactionsByIds(cache, MissingCounterparts) \subseteq Stored
      BY DEF TransactionsByIds, TypeOK
    <2>2. load' \in LoadType'
      BY <1>9, <2>1 DEF ReadCounterparts, TypeOK, LoadType, Stored
    <2> QED
      BY <1>9, <2>2 DEF ReadCounterparts, TypeOK, Steps, Stored, ClientType
  <1>10. CASE ReadCoverage
    BY <1>10 DEF ReadCoverage, Return, TypeOK, Steps, Stored, LoadType, ClientType
  <1>11. CASE UNCHANGED vars
    BY <1>11 DEF vars, TypeOK, Stored, LoadType, ClientType
  <1> QED
    BY <1>1, <1>2, <1>3, <1>4, <1>5, <1>6, <1>7, <1>8, <1>9, <1>10, <1>11 DEF Next

\* The cache is always a table, whatever pages are upserted and whenever; what a
\* call has read and the host has seen comes from tables, and each step of a call
\* is one of its tool.
THEOREM TypeCorrect == Spec => []TypeOK
  BY TypeInit, TypeStep, PTL DEF Spec
-----------------------------------------------------------------------------
(***************************************************************************)
(* An answer to a call that asked for a refresh is current: once the call  *)
(* reads, the cache has all of upstream, and commits of parts of upstream  *)
(* leave it so.                                                            *)
(***************************************************************************)
Synced == world.upstream \subseteq cache

\* What a call that asked for a refresh relies on at each of its steps.
RefreshInv ==
  /\ pc \notin {"idle", "refresh"} /\ call.refresh => Synced
  /\ pc = "again" /\ CanRefresh => Synced
  /\ pc = "page" /\ call.refresh =>
       load.total >= Cardinality(Matching(world.upstream, call))
  /\ pc \in {"counterparts", "coverage"} /\ call.refresh =>
       /\ Current(ToSet(load.rows))
       /\ ToSet(TransactionsInRange(world.upstream, From, To, call.account))
            \subseteq ToSet(load.rows)
  /\ RefreshedIsCurrent

LEMMA SyncedStays ==
  ASSUME TypeOK, NEW page, page \subseteq world.upstream, Commit(page), UNCHANGED world,
         Synced \/ page = world.upstream
  PROVE  Synced'
  <1>1. DistinctIds(world.upstream)
    BY WorldsAreTables DEF Table
  <1>2. ASSUME NEW row \in world.upstream
        PROVE  row \in Upsert(page)
    <2>1. row.id \in Ids(page) => row \in page
      BY <1>1 DEF Ids, DistinctIds
    <2> QED
      BY <2>1 DEF Upsert, Synced
  <1> QED
    BY <1>2 DEF Commit, Synced

LEMMA SyncedIsCurrent ==
  ASSUME TypeOK, Synced
  PROVE  Current(cache)
  BY DEF TypeOK, Table, DistinctIds, Synced, Current, Ids

LEMMA RefreshInvInit == Init => RefreshInv
  BY DEF Init, RefreshInv, RefreshedIsCurrent, NoAnswer, Reported, Analyses

LEMMA RefreshInvStep == TypeOK /\ RefreshInv /\ [Next]_vars => RefreshInv'
  <1> SUFFICES ASSUME TypeOK, RefreshInv, [Next]_vars PROVE RefreshInv'
    OBVIOUS
  <1>1. ASSUME answer'.kind \in {"none", "error", "found"} PROVE RefreshedIsCurrent'
    BY <1>1 DEF RefreshedIsCurrent, Reported, Analyses
  <1>2. NoAnswer.kind = "none" /\ Failed.kind = "error"
    BY DEF NoAnswer, Failed
  <1>3. pc # "idle" => answer = NoAnswer
    BY DEF TypeOK
  <1>4. CASE Receive
    BY <1>1, <1>2, <1>4 DEF Receive, RefreshInv
  <1>5. CASE RefuseRefresh \/ SyncFails
    BY <1>1, <1>2, <1>5 DEF RefuseRefresh, SyncFails, Return, RefreshInv
  <1>6. CASE UseCached
    <2>1. answer' = NoAnswer /\ pc' \in {"get", "count", "categories"} /\ ~call'.refresh
      BY <1>3, <1>6 DEF UseCached, Reading
    <2> QED
      BY <1>1, <1>2, <2>1 DEF RefreshInv
  <1>7. CASE Sync
    <2>1. answer' = NoAnswer /\ pc' \in {"get", "count", "categories"}
      BY <1>3, <1>7 DEF Sync, Reading
    <2>2. Synced'
      BY <1>7, SyncedStays DEF Sync
    <2> QED
      BY <1>1, <1>2, <2>1, <2>2 DEF RefreshInv
  <1>8. CASE CommitMeanwhile
    <2>1. PICK page \in (SUBSET Changed) \ {{}} : Commit(page)
      BY <1>8 DEF CommitMeanwhile
    <2>2. page \subseteq world.upstream
      BY DEF Changed
    <2>3. UNCHANGED <<world, call, pc, load, answer>>
      BY <1>8 DEF CommitMeanwhile
    <2>4. Synced => Synced'
      BY <2>1, <2>2, <2>3, SyncedStays
    <2> QED
      BY <2>3, <2>4 DEF RefreshInv, RefreshedIsCurrent, Reported, Current, CanRefresh,
         From, To
  <1>9. CASE CountRows
    <2>1. pc' = "page" /\ UNCHANGED <<world, call, answer, cache>>
      BY <1>9 DEF CountRows
    <2>2. load'.total = Cardinality(Matching(cache, call))
      BY <1>9 DEF CountRows, TypeOK, LoadType
    <2>3. ASSUME call.refresh
          PROVE  Synced /\ load'.total >= Cardinality(Matching(world.upstream, call))
      <3>1. Synced
        BY <1>9, <2>3 DEF RefreshInv, CountRows
      <3>2. Matching(world.upstream, call) \subseteq Matching(cache, call)
        BY <3>1 DEF Matching, Synced
      <3>3. IsFiniteSet(Matching(cache, call))
        BY PartOfTable DEF TypeOK, Matching, Table
      <3>4. /\ Cardinality(Matching(world.upstream, call)) <= Cardinality(Matching(cache, call))
            /\ IsFiniteSet(Matching(world.upstream, call))
        BY <3>2, <3>3, FS_Subset
      <3>5. /\ Cardinality(Matching(world.upstream, call)) \in Nat
            /\ Cardinality(Matching(cache, call)) \in Nat
        BY <3>3, <3>4, FS_CardinalityType
      <3> QED
        BY <2>2, <3>1, <3>4, <3>5
    <2> QED
      BY <1>1, <1>2, <1>3, <1>9, <2>1, <2>3 DEF CountRows, RefreshInv, Synced
  <1>10. CASE ReadPage
    <2> DEFINE page == QueryTransactions(cache, call, client.next)
    <2>1. /\ pc' = "idle" /\ UNCHANGED <<world, call>>
          /\ answer' = [kind |-> "page", items |-> page.items, total |-> load.total]
      BY <1>10 DEF ReadPage, Return
    <2>2. ASSUME call.refresh
          PROVE  /\ Current(ToSet(page.items))
                 /\ load.total >= Cardinality(Matching(world.upstream, call))
      <3>1. Synced /\ load.total >= Cardinality(Matching(world.upstream, call))
        BY <1>10, <2>2 DEF RefreshInv, ReadPage
      <3>2. call.limit \in Int
        BY <1>10, WorldAssumption DEF ReadPage, TypeOK
      <3>3. ToSet(page.items) \subseteq Matching(cache, call)
        BY <3>2, PageOfQuery DEF TypeOK
      <3> HIDE DEF page
      <3>4. ToSet(page.items) \subseteq cache
        BY <3>3 DEF Matching
      <3> QED
        BY <3>1, <3>4, SyncedIsCurrent DEF Current
    <2> HIDE DEF page
    <2>3. /\ answer'.kind = "page" /\ answer'.items = page.items
          /\ answer'.total = load.total
      BY <2>1
    <2>4. RefreshedIsCurrent'
      BY <2>1, <2>2, <2>3 DEF RefreshedIsCurrent, Reported, Analyses, Current
    <2> QED
      BY <2>1, <2>4 DEF RefreshInv
  <1>11. CASE GetTransaction
    <2>1. UNCHANGED <<cache, world, call, load>>
      BY <1>11 DEF GetTransaction
    <2>2. CASE pc' = "miss" /\ UNCHANGED answer
      BY <1>1, <1>2, <1>3, <1>11, <2>1, <2>2 DEF GetTransaction, RefreshInv, Synced
    <2>3. CASE Return([kind |-> "found", rows |-> Found])
      BY <1>1, <2>1, <2>3 DEF Return, RefreshInv
    <2>4. CASE Found = {} /\ (pc = "again" \/ ~call.refreshOnMiss) /\ Return([kind |-> "not found"])
      <3>1. ASSUME call.refreshOnMiss, CanRefresh
            PROVE  call.id \notin Ids(world.upstream)
        <4>1. Synced
          BY <2>4, <3>1 DEF RefreshInv
        <4>2. \A row \in cache : row.id # call.id
          BY <2>4 DEF Found, TransactionsByIds
        <4> QED
          BY <4>1, <4>2 DEF Synced, Ids
      <3>2. answer'.kind = "not found" /\ pc' = "idle"
        BY <2>4 DEF Return
      <3> QED
        BY <2>1, <3>1, <3>2 DEF RefreshInv, RefreshedIsCurrent, Reported, Analyses, CanRefresh
    <2> QED
      BY <1>11, <2>2, <2>3, <2>4 DEF GetTransaction
  <1>12. CASE SyncOnMiss
    <2>1. pc' = "again" /\ answer' = NoAnswer /\ UNCHANGED <<world, call, load>>
      BY <1>3, <1>12 DEF SyncOnMiss
    <2>2. CanRefresh \/ call.refresh => Synced'
      <3>1. CASE CanRefresh
        BY <1>12, <3>1, SyncedStays DEF SyncOnMiss
      <3>2. CASE ~CanRefresh /\ call.refresh
        BY <1>12, <3>2 DEF SyncOnMiss, RefreshInv, Synced
      <3> QED
        BY <3>1, <3>2
    <2> QED
      BY <1>1, <1>2, <2>1, <2>2 DEF RefreshInv, CanRefresh
  <1>13. CASE EnsureCategoriesFresh
    BY <1>1, <1>2, <1>3, <1>13 DEF EnsureCategoriesFresh, RefreshInv, Synced
  <1>14. CASE ReadRange
    <2> DEFINE rows == TransactionsInRange(cache, From, To, call.account)
    <2>1. pc' = "counterparts" /\ UNCHANGED <<world, call, answer, cache>>
      BY <1>14 DEF ReadRange
    <2>2. load'.rows = rows
      BY <1>14 DEF ReadRange, TypeOK, LoadType
    <2>3. /\ ToSet(rows) \subseteq cache
          /\ Synced => ToSet(TransactionsInRange(world.upstream, From, To, call.account))
                         \subseteq ToSet(rows)
      <3>1. Table(cache) /\ Table(world.upstream)
        BY WorldsAreTables DEF TypeOK
      <3> QED
        BY <3>1, RangeOfTable DEF Synced
    <2> HIDE DEF rows
    <2>4. From' = From /\ To' = To
      BY <2>1 DEF From, To
    <2>5. call.refresh => Synced /\ Current(ToSet(rows))
      BY <1>14, <2>3, SyncedIsCurrent DEF RefreshInv, ReadRange, Current
    <2> QED
      BY <1>1, <1>2, <1>3, <1>14, <2>1, <2>2, <2>3, <2>4, <2>5
      DEF ReadRange, RefreshInv, Synced, Current
  <1>15. CASE ReadCounterparts
    <2>1. /\ pc = "counterparts" /\ pc' = "coverage" /\ answer' = NoAnswer
          /\ UNCHANGED <<world, call, cache>>
      BY <1>3, <1>15 DEF ReadCounterparts
    <2>2. load'.rows = load.rows
      BY <1>15 DEF ReadCounterparts, TypeOK, LoadType
    <2>3. From' = From /\ To' = To
      BY <2>1 DEF From, To
    <2> QED
      BY <1>1, <1>2, <2>1, <2>2, <2>3 DEF RefreshInv, Synced, Current
  <1>16. CASE ReadCoverage
    <2>1. /\ pc = "coverage" /\ pc' = "idle" /\ answer'.kind = call.tool
          /\ UNCHANGED <<world, call, cache, load>>
      BY <1>16 DEF ReadCoverage, Return
    <2>2. call.tool \in Analyses
      BY <2>1 DEF TypeOK
    <2>3. From' = From /\ To' = To
      BY <2>1 DEF From, To
    <2> QED
      BY <2>1, <2>2, <2>3 DEF RefreshInv, RefreshedIsCurrent, Reported, Analyses, Current
  <1>17. CASE UNCHANGED vars
    BY <1>17 DEF vars, RefreshInv, Synced, RefreshedIsCurrent, Reported, Current, CanRefresh,
       From, To
  <1> QED
    BY <1>4, <1>5, <1>6, <1>7, <1>8, <1>9, <1>10, <1>11, <1>12, <1>13, <1>14, <1>15, <1>16,
       <1>17 DEF Next

\* An explicit refresh is never downgraded to what was cached, and a transaction is
\* only unknown when a sync that could be made has not brought it.
THEOREM RefreshesAreCurrent == Spec => []RefreshedIsCurrent
  <1>1. RefreshInv => RefreshedIsCurrent
    BY DEF RefreshInv
  <1> QED
    BY <1>1, TypeInit, TypeStep, RefreshInvInit, RefreshInvStep, PTL DEF Spec
-----------------------------------------------------------------------------
(***************************************************************************)
(* A walk through the pages of a list skips nothing: the rows that come    *)
(* before the cursor and were there when it began have been given out, and *)
(* rows that are added can only move others to later places.               *)
(***************************************************************************)
Listed == Matching(cache, call)

\* Why nothing is skipped, at every step of a walk.
WalkInv ==
  /\ pc # "idle" => client = NoPages \/ client.next # NoFilter
  /\ client.onlyAdded =>
       /\ client.start \subseteq Ids(Listed)
       /\ client.next # NoFilter =>
            \A row \in Listed :
              row.id \in client.start /\ PlaceOf(row, Listed) < client.next
                => row.id \in client.seen
       /\ client.next = NoFilter => client.start \subseteq client.seen

\* Rows that stay are not moved to the front by rows that are added.
LEMMA PlaceOnlyGrows ==
  ASSUME NEW old, Table(old), NEW new, Table(new),
         \A row \in old : StaysListed(row, new),
         NEW r \in old, NEW s \in new, r.id = s.id
  PROVE  PlaceOf(r, old) <= PlaceOf(s, new)
  <1> DEFINE stays(x) == CHOOSE y \in new : y.id = x.id /\ y.date = x.date
             f == [x \in NewerThan(r, old) |-> stays(x)]
  <1>1. \A x \in old : stays(x) \in new /\ stays(x).id = x.id /\ stays(x).date = x.date
    BY DEF StaysListed
  <1>2. r.date = s.date
    BY <1>1 DEF Table, DistinctIds
  <1>3. \A x \in NewerThan(r, old) : x \in old /\ stays(x) \in NewerThan(s, new)
    BY <1>1, <1>2 DEF NewerThan, Newer
  <1>4. \A x, y \in NewerThan(r, old) : stays(x) = stays(y) => x = y
    BY <1>1, <1>3 DEF Table, DistinctIds
  <1> HIDE DEF stays
  <1>5. f \in Injection(NewerThan(r, old), NewerThan(s, new))
    BY <1>3, <1>4 DEF Injection, IsInjective
  <1>6. IsFiniteSet(NewerThan(s, new))
    BY PlaceType
  <1> QED
    BY <1>5, <1>6, FS_Injection DEF PlaceOf

LEMMA WalkCommit ==
  ASSUME TypeOK, WalkInv, NEW page, page \subseteq world.upstream, Commit(page),
         UNCHANGED <<world, call>>, pc' # "idle" => pc # "idle"
  PROVE  WalkInv'
  <1> DEFINE new == Matching(Upsert(page), call)
  <1>1. Table(Listed) /\ Table(new) /\ Listed' = new
    <2>1. Table(cache) /\ Table(Upsert(page))
      BY UpsertIsTable DEF TypeOK
    <2>2. Table(Listed) /\ Table(new)
      BY <2>1, PartOfTable DEF Listed, Matching
    <2> QED
      BY <2>2 DEF Listed, Commit
  <1>2. /\ client'.next = client.next /\ client'.seen = client.seen
        /\ client'.start = client.start
        /\ client = NoPages => client' = NoPages
    BY DEF Commit, TypeOK, ClientType
  <1>3. ASSUME client'.onlyAdded
        PROVE  client.onlyAdded /\ \A row \in Listed : StaysListed(row, new)
    <2> DEFINE stay == \A row \in Listed : StaysListed(row, new)
    <2>1. client # NoPages
      BY <1>2, <1>3 DEF NoPages
    <2>2. client' = [client EXCEPT !.onlyAdded = @ /\ stay]
      BY <2>1 DEF Commit, Listed
    <2> HIDE DEF stay
    <2>3. client'.onlyAdded = (client.onlyAdded /\ stay)
      BY <2>2 DEF TypeOK, ClientType
    <2> QED
      BY <1>3, <2>3 DEF stay
  <1> HIDE DEF new
  <1>4. ASSUME client'.onlyAdded
        PROVE  /\ client.start \subseteq Ids(new)
               /\ client.next # NoFilter =>
                    \A row \in new :
                      row.id \in client.start /\ PlaceOf(row, new) < client.next
                        => row.id \in client.seen
    <2>1. client.onlyAdded /\ client.start \subseteq Ids(Listed)
      BY <1>3, <1>4 DEF WalkInv
    <2>2. client.start \subseteq Ids(new)
      BY <1>3, <1>4, <2>1 DEF StaysListed, Ids
    <2>3. ASSUME client.next # NoFilter, NEW row \in new, row.id \in client.start,
                 PlaceOf(row, new) < client.next
          PROVE  row.id \in client.seen
      <3>1. PICK before \in Listed : before.id = row.id
        BY <2>1, <2>3 DEF Ids
      <3>2. PlaceOf(before, Listed) <= PlaceOf(row, new)
        BY <1>1, <1>3, <1>4, <3>1, PlaceOnlyGrows
      <3>3. PlaceOf(before, Listed) \in Int /\ PlaceOf(row, new) \in Int /\ client.next \in Int
        BY <1>1, <2>3, PlaceType DEF TypeOK, ClientType
      <3> QED
        BY <2>1, <2>3, <3>1, <3>2, <3>3 DEF WalkInv
    <2> QED
      BY <2>2, <2>3
  <1> QED
    BY <1>1, <1>2, <1>3, <1>4 DEF WalkInv, Commit

LEMMA WalkPage ==
  ASSUME TypeOK, WalkInv, ReadPage
  PROVE  WalkInv'
  <1> DEFINE page == QueryTransactions(cache, call, client.next)
             offset == DecodeCursor(client.next)
             limit == ClampedLimit(call.limit)
             rows == Matching(cache, call)
             before == IF client = NoPages
                       THEN [NoPages EXCEPT !.start = Ids(rows), !.onlyAdded = TRUE]
                       ELSE client
  <1>1. call.limit \in Int
    BY WorldAssumption DEF ReadPage, TypeOK
  <1>2. Table(rows) /\ Cardinality(rows) \in Nat
    BY PartOfTable, ListingOfTable DEF TypeOK, Matching
  <1>3. /\ limit \in 1 .. 200
        /\ offset \in Nat
        /\ ToSet(page.items) = {row \in rows : /\ offset <= PlaceOf(row, rows)
                                               /\ PlaceOf(row, rows) < offset + limit}
        /\ page.nextCursor = IF Cardinality(rows) > offset + limit
                             THEN offset + limit ELSE NoFilter
    <2>1. Table(cache)
      BY DEF TypeOK
    <2> QED
      BY <1>1, <2>1, PageOfQuery, CursorType
  <1>4. /\ before \in ClientType
        /\ client = NoPages => offset = 0 /\ before.start = Ids(rows)
        /\ client # NoPages => before = client
    <2>1. Ids(rows) \subseteq Ids(Stored)
      BY DEF Matching, TypeOK, Ids
    <2>2. client = NoPages => offset = 0
      BY FilterAssumption DEF NoPages, DecodeCursor
    <2> QED
      BY <2>1, <2>2 DEF NoPages, ClientType, TypeOK
  <1>5. /\ pc = "page" /\ pc' = "idle"
        /\ client' = [before EXCEPT !.next = page.nextCursor,
                                    !.seen = @ \union Ids(ToSet(page.items))]
        /\ UNCHANGED <<cache, call>>
    BY DEF ReadPage, Return
  <1> HIDE DEF page, offset, limit, rows, before
  <1>6. /\ client'.next = page.nextCursor
        /\ client'.seen = before.seen \union Ids(ToSet(page.items))
        /\ client'.start = before.start /\ client'.onlyAdded = before.onlyAdded
    BY <1>4, <1>5 DEF ClientType
  <1>7. Listed = rows /\ Listed' = rows
    BY <1>5 DEF Listed, rows
  <1>8. ASSUME before.onlyAdded
        PROVE  /\ before.start \subseteq Ids(rows)
               /\ \A row \in rows :
                    row.id \in before.start /\ PlaceOf(row, rows) < offset + limit
                      => row.id \in client'.seen
    <2>1. before.start \subseteq Ids(rows)
      BY <1>4, <1>7, <1>8 DEF WalkInv
    <2>2. ASSUME NEW row \in rows, row.id \in before.start, PlaceOf(row, rows) < offset + limit
          PROVE  row.id \in client'.seen
      <3>1. PlaceOf(row, rows) \in Nat
        BY <1>2, PlaceType
      <3>2. CASE offset <= PlaceOf(row, rows)
        BY <1>3, <1>6, <2>2, <3>2 DEF Ids
      <3>3. CASE PlaceOf(row, rows) < offset
        <4>1. client # NoPages /\ before = client
          BY <1>4, <3>1, <3>3
        <4>2. client.next # NoFilter /\ client.next \in Nat
          BY <1>5, <4>1 DEF WalkInv, TypeOK, ClientType
        <4>3. offset = client.next
          BY <4>2 DEF offset, DecodeCursor
        <4> QED
          BY <1>6, <1>7, <1>8, <2>2, <3>3, <4>1, <4>2, <4>3 DEF WalkInv
      <3> QED
        BY <1>3, <3>1, <3>2, <3>3
    <2> QED
      BY <2>1, <2>2
  <1>9. ASSUME before.onlyAdded, page.nextCursor = NoFilter
        PROVE  before.start \subseteq client'.seen
    <2>1. Cardinality(rows) <= offset + limit
      BY <1>2, <1>3, <1>9, FilterAssumption
    <2>2. \A row \in rows : PlaceOf(row, rows) < offset + limit
      BY <1>2, <1>3, <2>1, PlaceType
    <2> QED
      BY <1>8, <1>9, <2>2 DEF Ids
  <1>10. page.nextCursor # NoFilter => page.nextCursor = offset + limit
    BY <1>3
  <1> QED
    BY <1>5, <1>6, <1>7, <1>8, <1>9, <1>10 DEF WalkInv

LEMMA WalkInit == Init => WalkInv
  BY DEF Init, WalkInv, NoPages

LEMMA WalkStep == TypeOK /\ WalkInv /\ [Next]_vars => WalkInv'
  <1> SUFFICES ASSUME TypeOK, WalkInv, [Next]_vars PROVE WalkInv'
    OBVIOUS
  <1>1. CASE Receive
    <2>1. CASE client' = NoPages
      BY <2>1 DEF WalkInv, NoPages
    <2>2. CASE client' = client /\ client.next # NoFilter /\ call' = call
      BY <1>1, <2>2 DEF Receive, WalkInv, Listed
    <2> QED
      BY <1>1, <2>1, <2>2 DEF Receive
  <1>2. ASSUME UNCHANGED <<cache, call, client>>, pc' # "idle" => pc # "idle"
        PROVE  WalkInv'
    BY <1>2 DEF WalkInv, Listed
  <1>3. CASE RefuseRefresh \/ UseCached \/ SyncFails
    BY <1>2, <1>3 DEF RefuseRefresh, UseCached, SyncFails, Return
  <1>4. CASE CountRows \/ GetTransaction \/ EnsureCategoriesFresh \/ ReadRange
    BY <1>2, <1>4 DEF CountRows, GetTransaction, EnsureCategoriesFresh, ReadRange, Return
  <1>5. CASE ReadCounterparts \/ ReadCoverage \/ UNCHANGED vars
    BY <1>2, <1>5 DEF ReadCounterparts, ReadCoverage, Return, vars
  <1>6. CASE Sync
    BY <1>6, WalkCommit DEF Sync, Reading
  <1>7. CASE CommitMeanwhile
    <2>1. PICK page \in (SUBSET Changed) \ {{}} : Commit(page)
      BY <1>7 DEF CommitMeanwhile
    <2>2. page \subseteq world.upstream
      BY DEF Changed
    <2> QED
      BY <1>7, <2>1, <2>2, WalkCommit DEF CommitMeanwhile
  <1>8. CASE ReadPage
    BY <1>8, WalkPage
  <1>9. CASE SyncOnMiss
    <2>1. CASE CanRefresh
      BY <1>9, <2>1, WalkCommit DEF SyncOnMiss
    <2>2. CASE ~CanRefresh
      BY <1>2, <1>9, <2>2 DEF SyncOnMiss
    <2> QED
      BY <2>1, <2>2
  <1> QED
    BY <1>1, <1>3, <1>4, <1>5, <1>6, <1>7, <1>8, <1>9 DEF Next

\* Offset cursors lose no row of a list while syncs only add rows to it and change
\* rows in place, whatever the limit of the pages and however many syncs commit
\* between two of them.
THEOREM PagesComplete == Spec => []PagesSkipNothing
  <1>1. TypeOK /\ WalkInv => PagesSkipNothing
    BY DEF WalkInv, PagesSkipNothing
  <1> QED
    BY <1>1, TypeInit, TypeStep, WalkInit, WalkStep, PTL DEF Spec
=============================================================================
