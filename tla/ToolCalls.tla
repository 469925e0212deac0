----------------------------- MODULE ToolCalls -----------------------------
(***************************************************************************)
(* Tool calls that read transactions: TransactionToolService and           *)
(* AnalysisService over a cache that syncs go on writing.  A call first    *)
(* waits for a refresh, then reads.  In the writer the reads of one call   *)
(* run without an await between them; in a reader each SELECT has its own  *)
(* snapshot, and the writer commits pages between them.                    *)
(*                                                                         *)
(* The sync itself is SyncService and the delegation of a refresh to the   *)
(* writer RefreshCoordinator; here it is one step that leaves everything   *)
(* upstream in the cache, or fails.  A page committed by another sync is   *)
(* any part of what has changed.  Of the caches and calls possible, Worlds *)
(* lists the ones to begin with.                                           *)
(***************************************************************************)
EXTENDS CacheQueries

CONSTANTS
  Worlds,    \* records with cache, upstream (sets of rows), calls, role, channel
  NoCall     \* no tool has been called yet

VARIABLES
  cache,     \* the transactions table: a set of rows with distinct ids
  world,     \* upstream, calls, and what the process is: role and channel
  call,      \* the call in progress, or the last one
  pc,        \* what it does next
  load,      \* what it has read
  answer,    \* the answer to it
  client,    \* the host's walk through the pages of a list
  steady     \* nothing was committed since the call began to read

vars == <<cache, world, call, pc, load, answer, client, steady>>

Lists == {"list", "search", "uncategorized"}
Analyses == {"burn", "categories", "recurring"}

NoLoad == [rows |-> <<>>, known |-> {}, total |-> 0]
NoAnswer == [kind |-> "none"]
Failed == [kind |-> "error"]
NoPages == [next |-> NoFilter, seen |-> {}, start |-> {}, onlyAdded |-> FALSE]

Ids(rows) == {row.id : row \in rows}

\* A table has finitely many rows, each with an id of its own; a date and an
\* amount are NULL or what they should be.
DistinctIds(rows) == \A r, s \in rows : r.id = s.id => r = s
IsRow(row) == /\ row.id \in Int
              /\ row.date = NoDate \/ IsDate(row.date)
              /\ row.amount = NoAmount \/ row.amount \in Int
Table(rows) == IsFiniteSet(rows) /\ DistinctIds(rows) /\ \A row \in rows : IsRow(row)

ASSUME FilterAssumption == NoFilter \notin Int
ASSUME LinkAssumption == NoId \notin Int
ASSUME WorldAssumption ==
  \A w \in Worlds :
    /\ Table(w.cache) /\ Table(w.upstream)
    /\ \A c \in w.calls :
         /\ c.tool \in Lists \union Analyses \union {"get"}
         /\ c.tool \in Lists => c.limit \in Int
         /\ c.tool \in Analyses => /\ IsDate(c.asOf) /\ Year(MonthOf(c.asOf)) >= 1
                                   /\ c.from = NoFilter \/ IsDate(c.from)
                                   /\ c.to = NoFilter \/ IsDate(c.to)
         /\ c.tool = "recurring" =>
              {c.minOccurrences, c.minChangeCents, c.minEstablishedRun} \subseteq Int

Init ==
  \E w \in Worlds :
    /\ world = w
    /\ cache = w.cache
    /\ call = NoCall
    /\ pc = "idle"
    /\ load = NoLoad
    /\ answer = NoAnswer
    /\ client = NoPages
    /\ steady = FALSE
-----------------------------------------------------------------------------
\* canExplicitlyRefresh: the writer can, and a reader that knows its writer.
CanRefresh == world.role = "writer" \/ world.channel

\* upsertTransactions: a row replaces the one with its id.
M_Upsert(page) == cache \union page
Upsert(page) == {row \in cache : row.id \notin Ids(page)} \union page

\* The rows the walk lists: each is still there, and at the same place.
StaysListed(row, rows) == \E r \in rows : r.id = row.id /\ r.date = row.date

\* A commit of page, and what it does to the histories kept.
Commit(page) ==
  /\ cache' = Upsert(page)
  /\ steady' = (steady /\ page = {})
  /\ client' = IF client = NoPages THEN client ELSE
       [client EXCEPT !.onlyAdded = @ /\
          \A row \in Matching(cache, call) : StaysListed(row, Matching(Upsert(page), call))]

Changed == {row \in world.upstream : row \notin cache}

\* The call is over.
Return(result) == pc' = "idle" /\ answer' = result

(***************************************************************************)
(* The host calls a tool.  A list is walked with the cursor of the page    *)
(* before; a cursor nobody handed out begins a new walk.                   *)
(***************************************************************************)
Receive ==
  /\ pc = "idle"
  /\ \E c \in world.calls :
       /\ call' = c
       /\ client' = IF client.next # NoFilter /\ call = c THEN client ELSE NoPages
  /\ pc' = "refresh"
  /\ load' = NoLoad
  /\ answer' = NoAnswer
  /\ steady' = FALSE
  /\ UNCHANGED <<cache, world>>

\* Where a call goes on after its refresh.
Reading == IF call.tool = "get" THEN "get"
           ELSE IF call.tool \in Lists THEN "count" ELSE "categories"

\* assertCanRefresh: an explicit refresh is refused, not downgraded.
RefuseRefresh ==
  /\ pc = "refresh" /\ call.refresh /\ ~CanRefresh
  /\ Return(Failed)
  /\ UNCHANGED <<cache, world, call, load, client, steady>>

\* ensureFresh finds the cache fresh enough, or cannot refresh it.  How old it
\* is is left open.
UseCached ==
  /\ pc = "refresh" /\ ~call.refresh
  /\ pc' = Reading
  /\ UNCHANGED <<cache, world, call, load, answer, client, steady>>

\* syncIncremental, syncFull: done by this process or, for it, by the writer.
Sync ==
  /\ pc = "refresh" /\ CanRefresh
  /\ Commit(world.upstream)
  /\ pc' = Reading
  /\ UNCHANGED <<world, call, load, answer>>

\* A failed sync, of the transactions or the categories, fails the call.
SyncFails ==
  /\ pc \in {"refresh", "miss", "categories"} /\ CanRefresh
  /\ Return(Failed)
  /\ UNCHANGED <<cache, world, call, load, client, steady>>

\* Pages committed meanwhile: by the interval, another call or the writer.
CommitMeanwhile ==
  /\ world.role = "reader" \/ pc \in {"idle", "refresh", "miss", "categories"}
  /\ \E page \in (SUBSET Changed) \ {{}} : Commit(page)
  /\ UNCHANGED <<world, call, pc, load, answer>>
-----------------------------------------------------------------------------
(***************************************************************************)
(* list_transactions, search_transactions, list_uncategorized: a COUNT and *)
(* a page.                                                                 *)
(***************************************************************************)
CountRows ==
  /\ pc = "count"
  /\ load' = [load EXCEPT !.total = Cardinality(Matching(cache, call))]
  /\ pc' = "page"
  /\ UNCHANGED <<cache, world, call, answer, client, steady>>

ReadPage ==
  LET page == QueryTransactions(cache, call, client.next)
      listed == Ids(Matching(cache, call))
      before == IF client = NoPages
                THEN [NoPages EXCEPT !.start = listed, !.onlyAdded = TRUE]
                ELSE client
  IN /\ pc = "page"
     /\ client' = [before EXCEPT !.next = page.nextCursor,
                                 !.seen = @ \union Ids(ToSet(page.items))]
     /\ Return([kind |-> "page", items |-> page.items, total |-> load.total])
     /\ UNCHANGED <<cache, world, call, load, steady>>

(***************************************************************************)
(* get_transaction: a miss is looked up again after a sync.                *)
(***************************************************************************)
Found == TransactionsByIds(cache, {call.id})

GetTransaction ==
  /\ pc \in {"get", "again"}
  /\ \/ /\ Found # {}
        /\ Return([kind |-> "found", rows |-> Found])
     \/ /\ Found = {} /\ pc = "get" /\ call.refreshOnMiss
        /\ pc' = "miss"
        /\ UNCHANGED answer
     \/ /\ Found = {} /\ (pc = "again" \/ ~call.refreshOnMiss)
        /\ Return([kind |-> "not found"])
  /\ UNCHANGED <<cache, world, call, load, client, steady>>

\* Without a way to sync, syncIncremental returns and nothing has changed.
M_SyncOnMiss ==
  /\ pc = "miss"
  /\ pc' = "again"
  /\ UNCHANGED <<cache, world, call, load, answer, client, steady>>
SyncOnMiss ==
  /\ pc = "miss"
  /\ IF CanRefresh THEN Commit(world.upstream) ELSE UNCHANGED <<cache, client, steady>>
  /\ pc' = "again"
  /\ UNCHANGED <<world, call, load, answer>>

(***************************************************************************)
(* AnalysisService.load: the range, the counterparts outside it, and what  *)
(* the cache covers; then the pure analysis.                               *)
(***************************************************************************)
EnsureCategoriesFresh ==
  /\ pc = "categories"
  /\ pc' = "range"
  /\ UNCHANGED <<cache, world, call, load, answer, client, steady>>

\* Without a range, the twelve months up to asOf.
To == IF call.to = NoFilter THEN call.asOf ELSE call.to
From == IF call.from = NoFilter THEN DefaultFrom(call.asOf) ELSE call.from

ReadRange ==
  /\ pc = "range"
  /\ LET rows == TransactionsInRange(cache, From, To, call.account)
     IN load' = [load EXCEPT !.rows = rows, !.known = ToSet(rows)]
  /\ steady' = TRUE
  /\ pc' = "counterparts"
  /\ UNCHANGED <<cache, world, call, answer, client>>

MissingCounterparts ==
  {row.link : row \in load.known} \ ({NoId} \union Ids(load.known))

M_ReadCounterparts ==
  /\ pc = "counterparts"
  /\ pc' = "coverage"
  /\ UNCHANGED <<cache, world, call, load, answer, client, steady>>
ReadCounterparts ==
  /\ pc = "counterparts"
  /\ load' = [load EXCEPT !.known = @ \union TransactionsByIds(cache, MissingCounterparts)]
  /\ pc' = "coverage"
  /\ UNCHANGED <<cache, world, call, answer, client, steady>>

Analyse(input) ==
  CASE call.tool = "burn" -> MonthlyBurn(input)
    [] call.tool = "categories" -> SpendingByCategoryByMonth(input)
    [] call.tool = "recurring" -> RecurringChargeChanges(input)

Input(covered) ==
  [rows |-> load.rows, known |-> load.known, from |-> From, to |-> To, asOf |-> call.asOf,
   earliest |-> covered[1], latest |-> covered[2], minOccurrences |-> call.minOccurrences,
   minChangeCents |-> call.minChangeCents, minEstablishedRun |-> call.minEstablishedRun]

ReadCoverage ==
  /\ pc = "coverage"
  /\ LET covered == TransactionCoverage(cache, call.asOf)
     IN Return([kind |-> call.tool, report |-> Analyse(Input(covered))])
  /\ UNCHANGED <<cache, world, call, load, client, steady>>

Next ==
  \/ Receive \/ RefuseRefresh \/ UseCached \/ Sync \/ SyncFails \/ CommitMeanwhile
  \/ CountRows \/ ReadPage
  \/ GetTransaction \/ SyncOnMiss
  \/ EnsureCategoriesFresh \/ ReadRange \/ ReadCounterparts \/ ReadCoverage

Spec == Init /\ [][Next]_vars
-----------------------------------------------------------------------------
Steps == {"idle", "refresh", "count", "page", "get", "miss", "again",
          "categories", "range", "counterparts", "coverage"}

Stored == world.cache \union world.upstream

LoadType == [rows : Seq(Stored), known : SUBSET Stored, total : Nat]
ClientType == [next : Nat \union {NoFilter}, seen : SUBSET Ids(Stored),
               start : SUBSET Ids(Stored), onlyAdded : BOOLEAN]

TypeOK ==
  /\ world \in Worlds
  /\ Table(cache) /\ cache \subseteq Stored
  /\ pc \in Steps
  /\ pc # "idle" => call \in world.calls /\ answer = NoAnswer
  /\ pc \in {"count", "page"} => call.tool \in Lists
  /\ pc \in {"get", "miss", "again"} => call.tool = "get"
  /\ pc \in {"categories", "range", "counterparts", "coverage"} => call.tool \in Analyses
  /\ load \in LoadType
  /\ client \in ClientType
  /\ steady \in BOOLEAN

Reported == answer.kind \in Analyses
Report == answer.report

\* What rows add up to; of a sequence or function of figures, how many of them
\* cite an id, and what they add up to.
Amounts(rows) == SumFunction([row \in rows |-> AmountCentsOf(row)])
Cited(figures, id) ==
  SumFunction([k \in DOMAIN figures |-> IF id \in ToSet(figures[k].ids) THEN 1 ELSE 0])
SumOf(figures) == SumFunction([k \in DOMAIN figures |-> figures[k].total])
AmountOf(ids) == Amounts({row \in ToSet(load.rows) : row.id \in ids})

MonthTotals == [i \in DOMAIN Report.months |-> Report.months[i].total]

\* No row read by an analysis is lost or counted twice: each is in the figure of
\* one month or under one exclusion, every figure is the sum of the rows it
\* cites, and the parts of a month make up its total.  For the recurring
\* charges each outflow is with one merchant or among the unnamed.
EveryRowAccounted ==
  Reported =>
    LET excluded == UNION {ToSet(Report.exclusions[k].ids) : k \in DOMAIN Report.exclusions}
        exact(figure) == figure.total = AmountOf(ToSet(figure.ids))
        madeUpOf(whole, parts) ==
          /\ SumOf(parts) = whole.total
          /\ \A row \in ToSet(load.rows) : /\ row.id \in ToSet(whole.ids)
                                            /\ AmountCentsOf(row) # 0
                                            => Cited(parts, row.id) = 1
    IN /\ \A k \in DOMAIN Report.exclusions : exact(Report.exclusions[k])
       /\ answer.kind # "recurring" =>
            /\ \A i \in DOMAIN MonthTotals : exact(MonthTotals[i])
            /\ \A row \in ToSet(load.rows) :
                 Cited(MonthTotals, row.id) + Cited(Report.exclusions, row.id) = 1
       /\ answer.kind = "categories" =>
            \A i \in DOMAIN MonthTotals :
              madeUpOf(MonthTotals[i], Report.months[i].categories)
       /\ answer.kind = "burn" =>
            \A i \in DOMAIN MonthTotals :
              madeUpOf(MonthTotals[i], <<Report.months[i].outflow, Report.months[i].inflow>>)
       /\ answer.kind = "recurring" =>
            \A row \in ToSet(load.rows) :
              LET groups == {key \in DOMAIN Report.merchants :
                               row.id \in ToSet(Report.merchants[key].rows)}
                  unnamed == row.id \in ToSet(Report.unnamed)
              IN IF row.id \in excluded \/ AmountCentsOf(row) >= 0
                 THEN groups = {} /\ ~unnamed
                 ELSE Cardinality(groups) + (IF unnamed THEN 1 ELSE 0) = 1

\* What a set of rows says of a month, however it is asked for.
CountsIn(row, month) ==
  /\ ~row.deleted /\ row.date # NoDate /\ MonthOf(row.date) = month
  /\ row.date <= call.asOf /\ InAccount(row, call.account)
  /\ row.coa \notin {"ACCOUNT", "BALANCE_ADJUSTMENT"} /\ row.type # "INVESTMENT"
SaysAllOf(entry, rows) ==
  LET month == {row \in rows : CountsIn(row, entry.month)}
  IN /\ ToSet(entry.total.ids) = Ids(month)
     /\ entry.total.total = Amounts(month)

\* The cache is what upstream has between two dates, its own projections aside.
History == {row \in cache : ~row.deleted /\ row.date # NoDate /\ row.date <= call.asOf}
IsWindow ==
  /\ cache \subseteq world.upstream
  /\ \A row \in world.upstream \ cache :
       \/ \A r \in History : row.date < r.date
       \/ \A r \in History : row.date > r.date

Complete(entry) == entry.reasons = {}
Inside(entry) == From <= FirstOf(entry.month) /\ LastOf(entry.month) <= To
PairedIn(row) == \E other \in cache : other.id = row.link /\ other.link = row.id
CalledTransfer(row) == /\ "transfer" \in DOMAIN Report.exclusions
                       /\ row.id \in ToSet(Report.exclusions["transfer"].ids)

\* A month that is called complete and lies inside the range has the figures of
\* the whole cache, and those of upstream when the cache is a window of it; and a
\* transfer is a pair or not, whatever the range cuts off.  Provided that nothing
\* was committed between the reads of the analysis.
CompleteMonthsWhole ==
  Reported /\ steady =>
    /\ answer.kind # "recurring" =>
         \A entry \in ToSet(Report.months) :
           Complete(entry) /\ Inside(entry) =>
             SaysAllOf(entry, cache) /\ (IsWindow => SaysAllOf(entry, world.upstream))
    /\ \A row \in ToSet(load.rows) :
         TransferShaped(row) /\ row.date <= call.asOf => (PairedIn(row) <=> CalledTransfer(row))

\* src/src/analysis/types.ts says of a month's status that it tells whether the
\* figures for it describe all of it.  A range that cuts a month off breaks it.
CompleteMeansWhole ==
  answer.kind = "burn" /\ steady =>
    \A entry \in ToSet(Report.months) : Complete(entry) => SaysAllOf(entry, cache)

\* The charges that are said of a merchant, by their place; a run of one cost;
\* i .. j and j + 1 .. n as two runs the first of which is whole.
ChargeAt(said, i) == CHOOSE row \in ToSet(load.rows) : row.id = said.rows[i]
CostAt(said, i) == Magnitude(ChargeAt(said, i).amount)
Flat(said, i, j) == \A k \in i .. j : CostAt(said, k) = CostAt(said, i)
TwoRuns(said, i, j) ==
  LET n == Len(said.rows)
  IN /\ i <= j /\ Flat(said, i, j) /\ Flat(said, j + 1, n)
     /\ CostAt(said, i) # CostAt(said, n)
     /\ i > 1 => CostAt(said, i - 1) # CostAt(said, i)

\* The gaps between the charges that are as long as a cadence asks, and those
\* that are as short.
Gap(said, i) == DaysBetween(ChargeAt(said, i).date, ChargeAt(said, i + 1).date)
LongEnough(said, c) ==
  {i \in 1 .. Len(said.rows) - 1 : CadenceRanges[c][1] <= Gap(said, i)}
ShortEnough(said, c) ==
  {i \in 1 .. Len(said.rows) - 1 : Gap(said, i) <= CadenceRanges[c][2]}
HalfSpaced(said, c) ==
  /\ 2 * Cardinality(LongEnough(said, c)) >= Len(said.rows) - 1
  /\ 2 * Cardinality(ShortEnough(said, c)) >= Len(said.rows) - 1
MostlySpaced(said, c) ==
  2 * Cardinality(LongEnough(said, c) \intersect ShortEnough(said, c)) > Len(said.rows) - 1

Evidence(said) ==
  LET n == Len(said.rows)
      established == Max({call.minEstablishedRun, 1})
      told == Max({call.minChangeCents, 1})
      change(i) == CostAt(said, n) - CostAt(said, i)
  IN /\ \A i \in 1 .. n - 1 : ChargeAt(said, i).date <= ChargeAt(said, i + 1).date
     /\ said.verdict = "few" <=> n < Max({call.minOccurrences, 2})
     /\ \A c \in DOMAIN CadenceRanges : MostlySpaced(said, c) =>
          said.verdict # "irregular" /\ (said.verdict = "changed" => said.cadence = c)
     /\ said.verdict \in {"changed", "steady", "variable"} =>
          \E c \in DOMAIN CadenceRanges :
            HalfSpaced(said, c) /\ (said.verdict = "changed" => said.cadence = c)
     /\ said.verdict = "changed" =>
          \E i, j \in 1 .. n - 1 :
            /\ TwoRuns(said, i, j) /\ j - i + 1 >= established
            /\ said.before.ids = SubSeq(said.rows, i, j)
            /\ said.after.ids = SubSeq(said.rows, j + 1, n)
            /\ said.change = change(i) /\ Magnitude(change(i)) >= told
     /\ said.verdict = "steady" =>
          \/ Flat(said, 1, n)
          \/ \E i, j \in 1 .. n - 1 : TwoRuns(said, i, j) /\ Magnitude(change(i)) < told
     /\ said.verdict = "variable" =>
          \A i, j \in 1 .. n - 1 : TwoRuns(said, i, j) => j - i + 1 < established

\* A price change is told from evidence: all charges of a merchant, in order of
\* their dates, end in a run of one amount, which a run of another amount, long
\* enough and not the end of a longer one, comes before.  A merchant is passed over
\* for few charges only when there are too few, and never as irregular when more
\* than half of the gaps fit one cadence; a cadence is told only when no more than
\* half of them are too short for it, or too long.
RecurringEvidence ==
  answer.kind = "recurring" =>
    \A key \in DOMAIN Report.merchants : Evidence(Report.merchants[key])

\* A client that walks a list to its end has been given every row that was in
\* it when it began, while syncs only add rows and change them in place.
PagesSkipNothing ==
  pc = "idle" /\ client.next = NoFilter /\ client.onlyAdded => client.start \subseteq client.seen

\* An answer to a call that asked for a refresh has no row older than upstream
\* and leaves none out; a transaction is only unknown after a sync has been
\* tried, if there was one to try.
Current(rows) == \A row \in rows : row.id \in Ids(world.upstream) => row \in world.upstream
RefreshedIsCurrent ==
  /\ answer.kind = "page" /\ call.refresh =>
       /\ Current(ToSet(answer.items))
       /\ answer.total >= Cardinality(Matching(world.upstream, call))
  /\ Reported /\ call.refresh =>
       /\ Current(ToSet(load.rows))
       /\ ToSet(TransactionsInRange(world.upstream, From, To, call.account))
            \subseteq ToSet(load.rows)
  /\ answer.kind = "not found" /\ call.refreshOnMiss /\ CanRefresh =>
       call.id \notin Ids(world.upstream)
=============================================================================
