# A verification project for simplifi-local-readonly-mcp

TLA+ models of the local MCP server that mirrors a Simplifi account into a
SQLite cache: who may write the cache and until when, how other processes ask the
writer for a refresh, how the syncs fill the cache, how the session is kept, and
what the tools answer from the cache while it is written. Every definition is
translated from the code under `src/src`; `PROJECT.json` gives, for each one, the
lines it stands for.

## 1. The system

Several server processes (one per editor session) share one SQLite file. One of
them, the *writer*, holds a lock file; the others are *readers*. Only the writer
talks to Simplifi. Readers delegate: they leave request files beside the cache,
the writer polls for them, refreshes, and leaves response files. The writer also
syncs on an interval. `npm run auth` is a separate process that needs the lease.

| Component | State it keeps | Operations | Correct means |
|---|---|---|---|
| `CacheLease` (`runtime/cache-lease.ts`) | lock file with a pid; per process its role and the writer's pid | `acquire`, `release` | never two writers; a dead owner's lock is reclaimed; a reader knows whom to ask; start-up neither throws nor spins |
| `RefreshCoordinator` (`runtime/refresh-coordinator.ts`) | request, processing and response files; the `polling` flag; one promise chain | `run`, `request`, `poll`, `enqueue`, `start`, `stop` | one refresh at a time; an answer is no older than the question; an accepted request survives crashes and timeouts; the queue drains |
| `SyncService` (`sync/sync-service.ts`) | the `sync_state` row (cursor, markers, range) and the transaction rows | full and incremental sync, freshness check, start/stop | no update below the cursor is missed; "initialized" means complete; the cache converges |
| `AccountService`, `ReferenceDataService` (`services/`) | accounts, scheduled transactions, categories, tags; a marker each | sync (replace or merge), freshness checks, lists, net worth | a marked collection is complete; removed rows go; nobody sees a row vanish that was there all along |
| `SimplifiAuthService` and the auth commands (`simplifi/`, `commands/`) | the token row; the refresh latch; the pending challenge | `getAccessToken`, `attemptLogin`, `completeMfaLogin`, the prompt loop | the session survives rotation; a dead token is not tried on every tick; a login ends |
| `DatabaseContext` (`db/database.ts`) | all tables, schema versions | migration, upserts, replacements, queries, paging | each commit leaves what the services above rely on |
| `StdioServer` (`runtime/stdio-server.ts`) | the process: lease, database, timers, transport | start, orderly stop on signals or end of input | stop in an order that leaves no handler with a closed database and no second writer |
| `TransactionToolService`, `AnalysisService` | none | refresh on demand, paged and multi-query reads of the cache | one answer speaks of one cache |
| Analysis (`analysis/`, `transfers.ts`, `rewards/`) | none (pure) | classification, partition into spending/income/transfers, periods, averages, recurring charges, rewards | every row counted once, excluded money accounted for, averages over complete months only |
| MCP server, config, logging, types, scripts, example | none the properties speak of | registration, parsing, output | not modelled |

How they interact: `StdioServer` acquires the lease, opens the database with the
role's rights and starts the coordinator and the interval. Every sync, whether a
tool, the interval or a reader wants it, is a piece of work on the coordinator's
promise chain. A sync makes HTTP calls, each of which first asks
`SimplifiAuthService` for an access token, and commits to the database page by
page or at its end; readers see every commit through their own connection.

The hard behaviours, listed with their lines as *hazards* in `PROJECT.json`:
file system calls of several processes in any order (the lock is created and
filled by two calls, so is a request); state judged in one call and acted on in
a later one; crashes between two commits or two renames; timeouts racing answers;
an upstream that changes between two pages; a rotated token lost before it is
saved; one promise chain shared by everything.

## 2. The modules

| Module | Models | EXTENDS / uses |
|---|---|---|
| `WriterRole` | abstract: processes take the writer or reader role, never a second writer | |
| `CacheLease` | `acquire`/`release`, one step per file system call; crashes; pids recycled | INSTANCE `WriterRole` |
| `MCCacheLease`, three `.cfg` | three pids | `CacheLease` |
| `StdioServer` | servers and the auth command from start to exit: migration, work in flight, shutdown | `CacheLease` |
| `MCStdioServer`, two `.cfg` | two pids | `StdioServer` |
| `StdioServerProofs` | theorems about the lease, its refinement, a process and what it commits | `StdioServer` |
| `RefreshCoordinator` | files, poll, promise chain, reader calls | |
| `MCRefreshCoordinator`, two `.cfg` | two requests | `RefreshCoordinator` |
| `RefreshCoordinatorProofs` | theorems about the queue, and its inductive invariant | `RefreshCoordinator` |
| `SyncService` | transaction sync against a changing upstream | |
| `MCSyncService` | two rows, two dates | `SyncService` |
| `SyncServiceProofs` | theorems about the cursor and the markers | `SyncService` |
| `CollectionSync` | the replaced and the merged collections | |
| `MCCollectionSync` | one collection of each kind, two items | `CollectionSync` |
| `CollectionSyncProofs` | theorems about markers and replacements | `CollectionSync` |
| `AuthService` | token row, rotation, latch, login with a challenge | |
| `MCAuthService` | four tokens | `AuthService` |
| `AuthServiceProofs` | theorems about the session and the latch | `AuthService` |
| `Calendar` | months, days, coverage, why a month is incomplete (`periods.ts`) | |
| `Spending` | classification, transfer pairs, partition, figures, both monthly analyses | `Calendar` |
| `Recurring` | merchants, cadence, runs of one amount, verdicts | `Spending` |
| `CacheQueries` | the queries on transactions: filters, order, pages, range, coverage | `Recurring` |
| `ToolCalls` | a call's refresh and its reads, between the commits of syncs | `CacheQueries` |
| `MCToolCalls`, two `.cfg` | three kinds of small worlds | `ToolCalls` |
| `ToolCallsProofs` | theorems about refreshes and pages | `ToolCalls` |
| `Folding` | what a loop computes: lemmas about the folds of the community modules | |
| `AnalysisProofs` | theorems about what the analyses answer | `ToolCallsProofs`, INSTANCE `Folding` for each loop |

Operators named `M_...` are plausible wrong versions of the operator that follows
them. They are used by no specification; substituting one for its original shows
that a property can fail (`mutants` in `PROJECT.json`).

### CacheLease

`pc[p]` is the place of a process in `acquire()`: `open1` (first `openSync
"wx"`), `read1` (`readFileSync`), `check` (`process.kill(pid, 0)`), `remove`
(`rmSync`), `open2`, `write` (`writeFileSync` of the pid), `read2` (the loser
reads the winner's pid). `lock` is the file, `holder[p]` the pid that was read.
A pid can belong to another program (`foreign`), which is what makes `isRunning`
wrong. Initially any lock may be left over, written or half-written.

`SerialStarts` says that no two processes are inside `acquire()` together and
`PidReuse` that a pid still written down somewhere may be given away. The code
assures neither; they separate what holds from what does not.

A loser of the second creation may find the winner's lock before its pid is in
it. It then has no writer to ask and `canRefresh` is false for as long as it
runs, although the comment at `cache-lease.ts:64-65` has it read the winner's
pid. This state is in the model and in the hazards; it is a consequence of the
same two-call creation as finding 1.

### StdioServer

Extends `CacheLease` with what a process does around the lease. `stage[p]` is
where `runStdioServer` or `runLocalAuth` is: `start` (before the cache is
opened), `drop`, `unmark`, `create`, `rest` (the statements of the migration, which
commit one by one), `open` (`server.connect` is awaited), `serving`, then the
shutdown: `closing` (`server.close()`), `closed` (`db.close()` done), `done` (lease
released), or `failed` when `server.close()` throws. `handle` is the connection,
`timers` the interval and the poll, `exits` whether somebody calls `process.exit`
after the shutdown, `work` a handler or a sync in flight. Of the cache file it keeps
what the migration and a reader look at: whether it exists, which schema the
transactions table has, whether the tables created after it are there, whether
`sync_state` says it was filled, and whether what was fetched is there. The
statements of `migrate()` are grouped where no process can tell the states between
them apart: up to the transactions table no reader opens the file
(`CreateTables`), and what comes after it is all that a reader may miss
(`CreateRest`). The two statements of the discard are steps of their own, and a
process can end between them (finding 4).

A shutdown begins from `serving` (`Shutdown`), from the `catch` of a start that
failed (`StartFails`), or from a signal or the end of stdin while `connect` is still
awaited (`Interrupt`), since their handlers are registered before it. In the last
case the timers are stopped before they are started, `start()` follows
(`LateTimers`), and what they begin goes on until the process exits. That it does
exit, and commits nothing once the lease is gone, is `ShutdownEnds` and
`CommitsUnderLease`. `connect()` and `close()` of the SDK are external: each returns
or throws.

A sync that a shutdown overtakes goes on until the database is closed:
`SyncCommits` asks for an open handle, not for the stage. That it is harmless is
`CommitsUnderLease`, and it holds because `db.close()` comes before `release()`.

### RefreshCoordinator

`req[r]` is the reader's call, `file[r]` its file (`none`, `request`,
`processing`), `whole` the files that have been written and not only created,
`resp[r]` the response. `poll` holds where the writer's `poll()` is and which
files it has listed, claimed and grouped; `job` and `tail` are the promise chain
with `localTail`. A step is one file system call or the stretch between two
awaits. A crash of the writer empties its memory and keeps the files; the next
writer has a new `gen` (pid). A stop of the writer is no other step: `stop()` only
clears the timer, and a poll in flight goes on until the process exits, wherever it
is then. A file operation of `poll()` that throws ends the poll and leaves what it
has claimed (`PollFails`), but one does not: a failing `readFileSync` is caught with
the corrupt requests, and the file is removed (`ReadFails`). `unread` is history: the
requests removed because they could not be read, half-written ones and those.
`upstream` counts changes, so that an answer can be
compared with the time of its question. Each request id is used once
(`randomUUID`).

### SyncService

Upstream time is a counter that ticks with each change. `mod[x]` is when row `x`
last changed, `cache[x]` the version cached. `sync` holds the local variables of
`doFullSync` or `doIncrementalSync`; a page is any part of what the listing still
has to return, the last one all of it. `asOf` may be missing from a page. The
markers move in the final commit only. `Fail` is the `catch`, `Kill` the end of
the process. A start that finds a table of an older build drops it and then resets
the markers, in two commits (`DropTable`, `ResetMarkers`), and may be killed in
between; the next start finds no table and leaves the markers alone. `lost` is
history: the rows that were dropped and whose markers were not reset, until a sync
brings them again. It is what finding 4 costs: the properties say what holds of all
other rows. With `Row \ lost` replaced by `Row` TLC finds `NoLostUpdate`,
`InitializedMeansComplete` and `Converges` violated.

External assumption: `PinnedAsOf`, every page of a listing carries the time at
which the listing began. Nothing in the code depends on more, and nothing in it
checks this. With `PinnedAsOf = FALSE` TLC finds a lost update: a row changed
after its page was sent lies below the `asOf` of a later page.

### CollectionSync

Accounts and scheduled transactions are `Replaced`: collected over all pages, then
three commits (`DeleteAbsent`, `UpsertAll`, `Mark`). Categories and tags are merged
page by page, then marked. `sync.steady` is history: the items that have been
upstream ever since the sync began. `begun`, the time a listing began at by the
upstream clock, stands for the marker, which the code sets from the local clock.
Freshness windows only decide whether a sync runs, so `Begin` is left open.

### AuthService

One process holds the lease, the server or the auth command. `call.at` is the
place in `getAccessToken`, `attemptLogin` or `completeMfaLogin`; `refreshed` and
`exchanged` are the moments between an answer and its save. `stored` is the token
row, `good` the refresh tokens upstream accepts, `latch` is `refreshFailure`.
A refresh may rotate the token or return the same one. `lost` and `tried` are
history: that the answer which replaced the stored token was lost or not saved (or
the session revoked), and the tokens whose refresh failed in this process.
`StoreElsewhere` stores a token under a running server. The lease normally excludes
this; with two writers (finding 1) it happens, and it is how the repository's own
test of the latch has it. `Rearms` says that the latch is then no obstacle.

When a code was accepted and the exchange or the save after it fails, the prompt
says that the code was rejected and asks for another, up to the third attempt,
although the challenge is gone upstream (`interactive-auth.ts:67`). It stops at once
when the text of the error, which quotes the upstream answer, matches "MFA session"
(`LoginFails` leaves this open). `AuthEnds` covers that the login ends all the same.

### ToolCalls and the analyses

`Calendar`, `Spending`, `Recurring` and `CacheQueries` are the pure part: one
operator for each function of `analysis/`, for `transfers.ts`, and for each
query on the transactions table. A date is the number its digits write, so that
comparisons are those of the strings; amounts are cents; a row is a record with
the columns some query or analysis looks at. A figure keeps the ids of its rows
(`TraceFigure`), as in the code.

`ToolCalls` runs them. `pc` is the await a call is at: `refresh`
(`ensureFresh`, or an explicit refresh, done here or delegated), `categories`
(the second await of an analysis), and the reads `count`, `page`, `range`,
`counterparts`, `coverage`, `get`, `miss`, `again`. In the writer process nothing
is committed between two reads, because there is no await between them; in a
reader every SELECT has its own snapshot and the writer may commit before each
(`CommitMeanwhile`). `client` is the host's walk through the pages of a list,
with the ids it has seen. A sync and a delegated refresh are one step each here;
`SyncService` and `RefreshCoordinator` take them apart.

The properties do not repeat the operators. `EveryRowAccounted` recounts a report
from the ids it cites: each row in one figure or under one exclusion, each figure
the sum of its rows. `CompleteMonthsWhole` compares a month that is called
complete with the whole cache and with upstream, whatever range was asked for.
`RecurringEvidence` looks for the two runs of charges by quantifiers instead of
walking back, and for the cadence it counts the gaps that fit instead of taking a
median: a merchant is `few` only below the threshold, not `irregular` when more than
half of its gaps fit one cadence, and has a cadence only when at most half of the
gaps are too short for it and at most half too long.

## 3. The runs

| Run | Checks | Shows |
|---|---|---|
| `server` | `ServerTypeOK`, `AtMostOneWriter`, `WriterHoldsLock`, `SerialInv`, `ServedCacheIsCurrent`, `RolesSpec`, `CommitsUnderLease`, `ShutdownEnds` | without overlapping starts: one writer, every commit under its lease, work overtaken by a shutdown or begun after it included; no process serves a half-migrated transactions table; a stopping process ends, also when it had not started yet; the lease implements `WriterRole`, recycled pids, kills and leftover locks included |
| `lease_overlap` | `UnownedLockReclaimed`, `AcquireEnds` | with overlapping starts and no recycled pid, only live owners are deferred to and every `acquire()` ends |
| `lease_two_writers` | `AtMostOneWriter` (violated) | finding 1 |
| `lease_pid_reuse` | `UnownedLockReclaimed` (violated) | finding 2 |
| `coordinator_safety` | `TypeOK`, `OneJobAtATime`, `FreshAnswer`, `WaitingIsQueued`, `AcceptedJobKept` | two readers and a local call, one crash, failed poll or failed read anywhere |
| `coordinator_live` | `QueueDrains`, `ChainMoves` | with a writer that stays, files go and the chain moves |
| `sync` | `TypeOK`, `SyncInv`, `NoLostUpdate`, `InitializedMeansComplete`, `CursorAdvances`, `Converges` | the cursor and the markers vouch for the cache, but for the rows a torn discard dropped; kills and pages without `asOf` included |
| `collections` | `TypeOK`, `CollectionInv`, `MarkedMeansComplete`, `RemovedRowsGo`, `RowsKept` | a replacement torn by a kill never loses a steady row and never spoils what its marker says |
| `auth` | `TypeOK`, `AuthInv`, `StoredTokenWorks`, `OneAttemptPerToken`, `Rearms`, `AuthEnds` | the session survives all but a lost answer; a failed token is not tried again, another one is; logins end |
| `reads` | `TypeOK`, `EveryRowAccounted`, `CompleteMonthsWhole`, `RecurringEvidence`, `PagesSkipNothing`, `RefreshedIsCurrent` | lists, the lookup and three analyses over a cache that is written between their steps |
| `burn_partial_month` | `CompleteMeansWhole` (violated) | finding 3 |
| `migration_crash` | `MarkedHasRows` (violated) | finding 4 |

### Bounds, and why they are enough

- Lease: three pids. A race takes two starters; the third is the dead or foreign
  owner of the leftover lock. Runs are unbounded in length (the state is finite).
- Server: two pids. The lease has its race of three in `lease_overlap`; here the
  question is what one process leaves to the next, or does while another waits for
  its lock, and that takes two: the one that serves, stops, or has been killed, and
  the one that starts beside it or after it. `PidReuse = TRUE` lets a dead writer's
  pid be another program's. A third pid multiplies the states past the time a run
  may take; the theorems hold for every set of pids.
- Coordinator: two requests. Coalescing, a claim that overtakes a running group,
  and the reader's clean-up all relate two requests; `coordinator_safety` gives
  them one kind and two processes, `coordinator_live` two kinds and one process.
  `MaxEdits = 1` is one change to be seen or missed; `MaxFaults = 1` one crash,
  failed poll or failed read at any place, and a second writer after it; for any
  number of them there are the theorems. In the liveness run
  nothing is compared with upstream, so `MaxEdits = 0`.
- Sync: two rows, one listed before and one after a change, three changes (two
  rows created, one changed during a listing), three faults (a discard, the
  kill that tears it and a failure of the sync after it, or a failed sync and the
  failures of its retries), two dates (a row before and one inside the range).
- Collections: one collection of each kind, two items, three changes, one fault.
- Reads: three kinds of worlds. *Two months around a new year* with one row of each
  kind that is classified differently (a transfer pair across the year's end, an
  unpaired transfer, a split, a projection, income, an investment, a balance
  adjustment, an anchor in the month before), over caches that are complete, miss
  their beginning, hold older versions, miss their end, or are empty. *Lists* of up
  to four rows, walked one or two at a time, while one row moves to another date,
  one is deleted and one is new. *All histories* of five monthly charges with three
  amounts, 243 of them, and irregular ones: every way in which trailing runs of
  different lengths, returns to an old amount and single changes can follow each
  other. Each with a writer, a reader that knows its writer, and one that does not,
  where that matters.
- Auth: four tokens are a login, a rotation, a loss, and the login after it;
  `MaxAttempts = 3` is the code's constant.

Counters are bounded by guards (`MaxEdits`, `MaxClock`, `MaxFaults`, `MaxIssued`)
in the actions of the environment only. `CHECK_DEADLOCK FALSE` stands in the two
coordinator configurations, where each request id and each local call is used once
and an idle system rightly does nothing more.

### Fairness, and why the code justifies it

- `CacheLease`: a live process finishes the synchronous calls of `acquire()`.
- `StdioServer`: the synchronous `acquire()` goes on; work in flight ends, because
  requests have timeouts; a shutdown goes from its database to its lease to the
  exit, or the process ends by itself when no timer and no work keeps it.
- `RefreshCoordinator`: weak fairness of the poll, of each piece of work on the
  chain, and of each waiting reader's loop. The event loop returns to its timers
  and callbacks, and a refresh ends because its HTTP calls do. No process has to
  start, to call, or to crash. `QueueDrains` and `ChainMoves` assume that from some
  moment on a writer is up.
- `SyncService`: the interval keeps ticking and a request is answered or fails.
- `AuthService`: a call goes on, and the operator at the prompt enters something.

That an HTTP call ends is the environment's part: `request()` and
`authedRequest()` abort by timer, but `SimplifiAuthService.request` clears its
timer when the headers are there (`auth-service.ts:367`), so a body that stalls is
only ended by the HTTP client's own default limit.

## 4. What is proved

`tlapm` proves the theorems below for every value of the constants.

**CacheLease** (first part of `StdioServerProofs`). `TypeCorrect`: types, without assumptions on
the constants beyond the named ones. `SerialInvariant`, `SingleWriter`,
`LockKept` and `ImplementsRoles` assume `SerialStarts`. `AtMostOneWriter` is not
inductive: one has to know that a process at `remove` or `open2` has no writer
behind it (`ReplacesNoWriter`), that a check is a check of the writer's own pid
(`ChecksTheWriter`), that a half-written lock belongs to the process writing it
(`WritesOwnLock`), and that no other starter is in between (`OneStarter`).
Together they are `SerialInv`. Without `SerialStarts` the theorem is false
(finding 1). `OwnerRespected` (`UnownedLockReclaimed`) needs no serial starts but
that no recorded pid is given away: a written lock, and a pid being checked, belong
to a process that had the lease and has it still, has released it, or is gone
(`ReclaimInv`). With a recycled pid it is false (finding 2). `ImplementsRoles` maps
each step to a step of `WriterRole` or a
stutter.

**StdioServer** (`StdioServerProofs`). `ServerTypeCorrect`; `ServerInvariant`,
`ServedCurrent` and `LeasedCommits`, which assume `SerialStarts`. Each step of a
server is a step of the lease or leaves its variables alone (`LeaseStep`), so that
`SerialInv` carries over. `WritesAsWriter` says that whoever can still write, with
an open handle or in the migration, has the writer role, whose lock is on disk by
`WriterHoldsLock`; `MigratedBefore` says how far the table is from how far the
process is, and needs that nobody else writes meanwhile.

**RefreshCoordinator** (`RefreshCoordinatorProofs`). `CoordinatorInvariant`, and
from it `TypeCorrect`, `OneAtATime`, `AnswersAreFresh`, `WaitingQueued` and
`AcceptedKept`, for any number of requests, readers, local calls, crashes and
failed polls. Three invariants, each with its own lemma on steps. `ChainInv`: the
queued and running work is a line in which each piece waits for the one before
it, only the head of which can run, and `poll()` has a piece in it exactly while
it awaits one (`LineGrows`, `HeadStarts`, `HeadLeaves` are what `enqueue()`, the
start and the end of a job do to the line). `FreshInv`: what the writer knows of
has been asked, so a new question is in no group; a group's refresh that has begun
has seen everything its members were asked after. `QueueInv`: a call waits only
for a writer it knows, and a request that `poll()` is about to remove has been
answered. The one assumption beyond those on types is that the constants are kept
apart (`JobAssumption`, `ResponseAssumption`).

**SyncService** (`SyncServiceProofs`). `TypeCorrect`; `SyncInvariant`,
`UpdatesKept` and `InitializedIsComplete`, which assume `PinnedAsOf`. The invariant `SyncInv` says
what a sync in progress has established: rows the listing is past are cached or
have changed since (`SentIsCached`), an incremental listing asks exactly from the
cursor on (`AsksByMarkers`), and after the last page nothing is left out
(`ListedAll`). A failure or a kill leaves the markers, hence all of it, alone; a
kill between the two statements of a discard leaves them over an empty table, and
the dropped rows are `lost` until a page brings them.
`CursorNeverBack` (`CursorAdvances`) needs one more: the asOf that a listing
brings is not before the cursor it asked from.

**CollectionSync** (`CollectionSyncProofs`). `TypeCorrect`, `CollectionInvariant`,
`MarkedIsComplete`, `RemovedAreGone`, `ReplacementKeepsRows`. The marker of an
earlier sync must stay true while a later one deletes and upserts. The step is
that anything unchanged since the marker is unchanged since this listing began
(`TimesPassed`), was therefore listed (`ListedAll`) with its present version
(`Collected`), so that neither transaction takes it away.

**AuthService** (`AuthServiceProofs`). `TypeCorrect`, `AuthInvariant`, `SessionSurvives`,
`TokenTriedOnce`. `AuthInv` adds that the stored token does not change under a
refresh in flight, and that an answer not saved yet works unless it was revoked
(`InFlight`; this is where one process and one call at a time are used), and that a
server whose stored token has failed is idle and latched on that very token
(`Latched`).

**ToolCalls** (`ToolCallsProofs`), for any tables, calls, processes and
interleaving of commits. `TypeCorrect`; `RefreshesAreCurrent`, from `RefreshInv`:
since the refresh a call waited for, the cache has had nothing older than upstream
and has had all of it, and so has what was read; `PagesComplete`,
from `WalkInv`: the rows that were there when a walk began and stayed in place are
seen or still lie after its offset. The last one is about places in a listing.
`NewestFirst` gives a row the place that as many rows are newer than it
(`PlaceOf`), no two rows have one place, and a row added on top or anywhere else
only pushes others back, where a later page meets them again.

**The analyses** (`Folding`, `AnalysisProofs`). `RowsAccounted`,
`CompleteMonthsAreWhole` and `ChangesAreEvident` (`RecurringEvidence`), from
`AnalysisInv`: what `load()` has read so far is the
range of some cache, the counterparts are those of the links in it, and an answer
is the analysis of exactly what was read. What then has to be known is what the
loops compute for lists of any length. The folds of the community modules are
recursive functions chosen by `CHOOSE`, and the library's induction theorems take
an operator no installed prover can instantiate. `Folding` goes around both: the
set of numbers for which a statement holds has no least number missing
(`NatSet`, from the library's theorem that `<` is well-founded), so that subsets
can be taken by their size (`SubsetInduction`), the recursive function exists
(`IterExists`) and is unique (`IterUnique`), and a fold is one step on the fold
over one element less (`FoldPick`), a loop one step on the loop over one row less
(`NextTurn`). `AnalysisProofs` instantiates it once for each loop: `traceFigure`,
a filter, `partitionSpending`, the grouping by category, and sums. From there on
the argument is that each operator is given each row of a set exactly once
(`Enumerates`) and passes that on: a figure is the sum of its rows and cites each
once (`FigureOfRows`), the groups of a partition are figures of disjoint sets that
make up the whole (`AreGroups`), each row counts in exactly one month
(`MonthsAccounted`), and sums over parts add up (`SumAdds`). For
`CompleteMonthsWhole`, a month without a reason against it lies between the first
and the last day of the cache (`WindowOfMonth`), the whole month was therefore
read (`SpentOfMonth`), and a transfer has its counterpart among what was read
exactly when the cache has it (`TransfersNow`). For `RecurringEvidence`, the walk
back from a charge ends at the first one of its run (`WalkEnds`), so that the two
runs found are the only two there are (`OnlyTwoRuns`), and the ids that a figure
cites are in the order of the rows (`IdsOfPart`). The median is a place in a sorted
list: as many values as its place are at most it, the others at least, so that half
of the gaps bound it on either side, and more than half of them inside one range of
`CADENCE_RANGES` keep it there.

The assumptions are on the constants that stand for the tables and the calls
(`WorldAssumption`): a table is finite and has one row for each id (the primary
key), its dates are calendar dates or NULL, its amounts whole cents or NULL, and
the dates and thresholds of a call are calendar dates and whole numbers (the
schemas of the tools ask for the latter). Of the dates the code checks only the
form (`assertDate`), so that 2026-02-31 is outside the theorems. `NoFilter` and
`NoId`, which stand for `undefined`, are no values of the columns
(`FilterAssumption`, `LinkAssumption`).

Every invariant and every action property of the runs is the property of a theorem.
Only model-checked are the liveness properties, since liveness under fairness is
out of the prover's reach: `AcquireEnds`, `ShutdownEnds`, `QueueDrains`,
`ChainMoves`, `Converges`, `AuthEnds`.

## 5. Findings

1. *Two writers.* `acquire()` removes whatever is at the lock's path after judging
   an earlier file unowned, and a new lock is empty until its pid is written. Two
   processes that start together can both become writers
   (`cache-lease.ts:61`, `:77`; the comments at lines 7 and 131 exclude it).
2. *A recycled pid keeps a dead lock.* The recorded pid of a killed writer may run
   another program, or the starting process itself, as in a container where the
   server is always pid 1 (`cache-lease.ts:57`; the comment at line 54 promises
   that an unowned lock is reclaimed).
3. *A complete month with part of its figures.* `periodStatus()` compares a month
   with what the cache covers and with `asOf`, never with the range that was asked
   for. A range that begins or ends inside a month gives a month that is "complete"
   with some of its rows, and `monthlyBurn()` averages over it (`periods.ts:147`,
   `spending.ts:286`; the comments at `periods.ts:131` and `types.ts:163-164`).
   `CompleteMonthsWhole` is what does hold: it asks that the month lies inside the
   range.
4. *An empty table that counts as synced.* `discardIncompatibleCache()` drops the
   table and resets the markers in two statements with a commit each. A process
   that ends between them leaves an empty table marked as synced; the next start
   returns at `database.ts:254` without looking at the markers, and only
   incremental syncs follow (`database.ts:271`; the log line at 267 says that a full
   resync will).

Three more places where the code does not do what is said of it are in the models
and are named here without a run of their own:

- *A latched server cannot be re-armed by the command it names.* The comment on the
  latch (`auth-service.ts:34`) says that an operator login re-arms it, the test
  `no-server-side-login.test.ts:152-194` shows it for a token that is stored under
  the running service, and `Rearms` holds. But `npm run auth` needs the lease, which
  the latched server holds (`local-auth.ts:19`), so that in practice the server has
  to be stopped first, even if the latch was set by a timeout.
- *A failed read removes an accepted request.* The `catch` at
  `refresh-coordinator.ts:210` takes a failing `readFileSync` for a corrupt request;
  the reader waits for its whole timeout. The comment at lines 163-164 has a
  replacement writer recover an accepted job. `WaitingIsQueued` and
  `AcceptedJobKept` exempt these requests and half-written ones (`unread`).
- *A reader may be served before its tables are there.* `assertReadableSchema()`
  asks for the transactions table only (`database.ts:163-186`); `migrate()` creates
  accounts, categories, tags and their markers after it, in commits of their own. A
  reader that opens in between serves, and its tools for these fail until the writer
  is done. `ServedCacheIsCurrent` claims all tables for the writer only.

## 6. Composition

`StdioServer` is a composition in the strict sense: its steps are those of
`CacheLease` with the rest of the process around them, and `LeaseStep` proves that
it implements the lease. The analyses are composed by EXTENDS, each on the
functions it calls.

The other modules are joined by what each assumes of the one below it, a property
that is checked or proved there: `RefreshCoordinator` has one writer at a time
(`CacheLease!AtMostOneWriter`, which needs serial starts), `SyncService`,
`CollectionSync` and `AuthService` one piece of work at a time
(`RefreshCoordinator!OneJobAtATime`), and `ToolCalls` a refresh that begins after
the call (`RefreshCoordinator!FreshAnswer`) and leaves what is upstream
(`SyncService!NoLostUpdate`). Where the assumption fails, as in finding 1,
so may what rests on it: two writers may refresh one rotating token, and each
latches what the other has used up.

## 7. Not modelled, and why

- The texts, log lines, argument schemas and formats of the MCP tools; the
  configuration; scripts and the example client.
- `lastError` columns (written, never read), `raw_json`, and the columns of a row
  that no query and no analysis looks at: in the syncs a version stands for a row.
- `partitionTransfers` and the reward classification, pure functions that no tool
  and no service calls. (The pattern `NON_REWARD_CATEGORY` of the latter has no word
  boundaries, so that it takes "coffee" for a fee.)
- The merchant, category, tag and account lists, which read one table after the
  refresh that `ToolCalls` has; net worth, one pass over the accounts.
- The rounding of decimals to cents, the choice between two date fields, and the
  lower case of names: a row in `ToolCalls` has them done.
- Rows deleted upstream without an `isDeleted` version, and rows earlier than the
  range fixed by the first full sync: limits of the design that `NoLostUpdate` and
  `Converges` exclude by what they say.
- `CompleteMonthsWhole` speaks of analyses during which nothing was committed
  between the three reads: a reader has no transaction around them, and the code
  promises none. `PagesSkipNothing` speaks of walks during which rows were added or
  changed in place: a cursor is an offset, and a row that is removed or moves to
  another date shifts the others under it.
- The single statements of `migrate()` beyond the grouping above, and a transport
  that is closed by the client while `connect` is awaited (the SDK's part).
- Freshness windows as durations: a sync may begin whenever it is asked for.
- The HTTP requests themselves: a page, a rejection, or a failure.
- Response files nobody collects (nothing promises to remove them).

## 8. Plan

Done, in this order: `CacheLease` with `WriterRole`, `RefreshCoordinator`,
`SyncService`, `CollectionSync`, `AuthService` and their proofs; the analyses, the
queries and `ToolCalls`; `StdioServer` over the lease and its proofs; the proofs
about the queue; those about tool calls, loops and what the analyses answer.

Left, by importance:

1. The lists of merchants, categories, tags and accounts, and net worth, as further
   reads of `ToolCalls`.
2. The reward classification, as a pass over rows that must lose no cent.
3. Freshness windows as ages, to say how old an answer without an explicit refresh
   may be.
4. A theorem that composes `RefreshCoordinator` and `SyncService`: a delegated
   refresh leaves what section 6 assumes of it.
