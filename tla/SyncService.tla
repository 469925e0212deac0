---------------------------- MODULE SyncService ----------------------------
(***************************************************************************)
(* The transaction sync of src/src/sync/sync-service.ts against an         *)
(* upstream that changes while it is listed page by page.  A sync upserts  *)
(* every page into the cache as it arrives and moves the markers of        *)
(* sync_state only at its end; it can fail at any request, and the process *)
(* can be killed between any two commits to the database, those two by     *)
(* which a start discards an incompatible cache included.                  *)
(*                                                                         *)
(* The refresh coordinator runs one sync at a time (RefreshCoordinator),   *)
(* so withLock is never met by a second one here.                          *)
(***************************************************************************)
EXTENDS Integers

CONSTANTS
  Row,         \* transaction ids
  Date,        \* the dates transactions are posted on
  None,        \* `undefined` / NULL
  MaxClock,    \* bound: changes made upstream
  MaxFaults,   \* bound: failed requests and killed processes
  PinnedAsOf   \* external: all pages of a listing carry the time of the first

ASSUME DateAssumption == Date \subseteq Int /\ Date # {}
ASSUME NoneAssumption == None \notin Int
ASSUME BoundAssumption == MaxClock \in Nat /\ MaxFaults \in Nat
ASSUME PinnedAssumption == PinnedAsOf \in BOOLEAN

VARIABLES
  clock,   \* upstream time: one tick per change
  mod,     \* mod[x]: upstream modification time of x, 0 while x does not exist
  date,    \* date[x]: the date x is posted on
  cache,   \* cache[x]: the modification time of the row cached, 0 for none
  state,   \* the sync_state row
  sync,    \* the sync in progress and its local variables
  lost,    \* history: rows dropped under markers that stayed, not cached since
  faults   \* failures, kills and discarded caches so far

vars == <<clock, mod, date, cache, state, sync, lost, faults>>
upstream == <<clock, mod, date>>

(***************************************************************************)
(* lastFullSyncAt stands for the time by the upstream clock the last       *)
(* complete listing began at; lastSyncAt only for being set or not.        *)
(***************************************************************************)
EmptyState == [dateOnAfter |-> None, lastAsOf |-> None,
               lastFullSyncAt |-> None, lastSyncAt |-> FALSE,
               status |-> None]

(***************************************************************************)
(* at: "idle", "earliest" (getEarliestDateOn), "page", "commit"; or        *)
(* "reset", in a process that starts, between the two statements that      *)
(* discard a cache.  since is modifiedAfter, from is dateOnAfter, asOf is  *)
(* latestAsOf, sent the rows the listing is past, and begun the upstream   *)
(* time it began at.                                                       *)
(***************************************************************************)
NoSync == [at |-> "idle", full |-> FALSE, since |-> None, from |-> None,
           asOf |-> None, sent |-> {}, begun |-> None]

Exists(x) == mod[x] > 0
After(x, from) == from = None \/ date[x] >= from

\* External: the rows the listing still has to return.
Unsent == {x \in Row : /\ Exists(x) /\ x \notin sync.sent
                       /\ After(x, sync.from)
                       /\ sync.since = None \/ mod[x] > sync.since}

\* A cache discarded by an older build may have kept a lastSyncAt marker.
Init ==
  /\ clock = 0
  /\ mod = [x \in Row |-> 0]
  /\ date \in [Row -> Date]
  /\ cache = [x \in Row |-> 0]
  /\ \E b \in BOOLEAN : state = [EmptyState EXCEPT !.lastSyncAt = b]
  /\ sync = NoSync
  /\ lost = {}
  /\ faults = 0
-----------------------------------------------------------------------------
\* External: a transaction is added, or changed, its date included.
Edit(x) ==
  /\ clock < MaxClock
  /\ clock' = clock + 1
  /\ mod' = [mod EXCEPT ![x] = clock + 1]
  /\ \E d \in Date : date' = [date EXCEPT ![x] = d]
  /\ UNCHANGED <<cache, state, sync, lost, faults>>

Running == [state EXCEPT !.status = "running"]

\* doFullSync up to its first request.
StartFull ==
  /\ state' = Running
  /\ sync' = [NoSync EXCEPT !.at = IF state.dateOnAfter = None THEN "earliest"
                                   ELSE "page",
                            !.full = TRUE, !.from = state.dateOnAfter]
  /\ UNCHANGED <<upstream, cache, lost, faults>>

\* doIncrementalSync: a full sync as long as no lastAsOf is known.
StartIncremental ==
  IF state.lastAsOf = None THEN StartFull
  ELSE /\ state' = Running
       /\ sync' = [NoSync EXCEPT !.at = "page", !.since = state.lastAsOf,
                                 !.from = state.dateOnAfter,
                                 !.asOf = state.lastAsOf]
       /\ UNCHANGED <<upstream, cache, lost, faults>>

\* A full sync has been completed: ensureFresh and ensureInitialized ask this.
Initialized == state.lastFullSyncAt # None

\* syncFull, or the first ensureInitialized on an empty cache.
SyncFull == sync.at = "idle" /\ StartFull

\* syncIncremental: the interval, a refresh, a miss.
SyncIncremental == sync.at = "idle" /\ StartIncremental

\* ensureFresh: full when never completed; incremental when too old, which is
\* left open here; otherwise the cache is used as it is.
EnsureFresh ==
  /\ sync.at = "idle"
  /\ IF Initialized /\ state.lastSyncAt THEN StartIncremental ELSE StartFull

\* External: the answer to getEarliestDateOn, none when there are no rows.
Earliest(d) ==
  \/ d = None /\ \A x \in Row : ~Exists(x)
  \/ /\ \E x \in Row : Exists(x) /\ date[x] = d
     /\ \A x \in Row : Exists(x) => d <= date[x]

GetEarliest ==
  /\ sync.at = "earliest"
  /\ \E d \in Date \union {None} :
       /\ Earliest(d)
       /\ sync' = [sync EXCEPT !.at = "page", !.from = d]
  /\ UNCHANGED <<upstream, cache, state, lost, faults>>

Begun == IF sync.begun = None THEN clock ELSE sync.begun

\* upsertTransactions: one database transaction.
Upsert(page) == [x \in Row |-> IF x \in page THEN mod[x] ELSE cache[x]]

\* One page: any part of what is left, at its present version, or all of it;
\* the listing goes on until a page has no nextLink.  A page may carry no asOf.
M_FirstPageOnly(page, given) ==
  /\ page = {} => Unsent = {}
  /\ cache' = Upsert(page)
  /\ lost' = lost \ page
  /\ sync' = [sync EXCEPT !.at = "commit", !.begun = Begun, !.asOf = Begun]
ReceivePage(page, given) ==
  /\ page = {} => Unsent = {}
  /\ cache' = Upsert(page)
  /\ lost' = lost \ page
  /\ sync' = [sync EXCEPT
                !.at = IF page = Unsent THEN "commit" ELSE "page",
                !.begun = Begun,
                !.sent = @ \union page,
                !.asOf = IF ~given THEN @ ELSE IF PinnedAsOf THEN Begun ELSE clock]

FetchPage ==
  /\ sync.at = "page"
  /\ \E page \in SUBSET Unsent, given \in BOOLEAN : ReceivePage(page, given)
  /\ UNCHANGED <<upstream, state, faults>>

\* The last page was upserted: the markers are moved.
M_CommitSwapped ==
  /\ sync.at = "commit" /\ sync.full
  /\ state' = [dateOnAfter |-> sync.asOf, lastAsOf |-> sync.from,
               lastFullSyncAt |-> sync.begun, lastSyncAt |-> TRUE,
               status |-> "ok"]
  /\ sync' = NoSync
  /\ UNCHANGED <<upstream, cache, lost, faults>>
CommitFull ==
  /\ sync.at = "commit" /\ sync.full
  /\ state' = [dateOnAfter |-> sync.from, lastAsOf |-> sync.asOf,
               lastFullSyncAt |-> sync.begun, lastSyncAt |-> TRUE,
               status |-> "ok"]
  /\ sync' = NoSync
  /\ UNCHANGED <<upstream, cache, lost, faults>>

M_CommitWhole ==
  /\ sync.at = "commit" /\ ~sync.full
  /\ state' = [EmptyState EXCEPT !.dateOnAfter = sync.from, !.lastAsOf = sync.asOf,
                                 !.lastSyncAt = TRUE, !.status = "ok"]
  /\ sync' = NoSync
  /\ UNCHANGED <<upstream, cache, lost, faults>>
CommitIncremental ==
  /\ sync.at = "commit" /\ ~sync.full
  /\ state' = [state EXCEPT !.lastAsOf = sync.asOf, !.lastSyncAt = TRUE,
                            !.status = "ok"]
  /\ sync' = NoSync
  /\ UNCHANGED <<upstream, cache, lost, faults>>

\* A request fails: the error is recorded, the markers stay, and so do the
\* pages that were upserted.
M_FailMovesCursor ==
  /\ sync.at # "idle" /\ faults < MaxFaults
  /\ faults' = faults + 1
  /\ state' = [state EXCEPT !.status = "error", !.lastAsOf = sync.asOf]
  /\ sync' = NoSync
  /\ UNCHANGED <<upstream, cache, lost>>
Fail ==
  /\ sync.at \in {"earliest", "page"} /\ faults < MaxFaults
  /\ faults' = faults + 1
  /\ state' = [state EXCEPT !.status = "error"]
  /\ sync' = NoSync
  /\ UNCHANGED <<upstream, cache, lost>>

\* The process is killed, between any two commits to the database.
Kill ==
  /\ sync.at # "idle" /\ faults < MaxFaults
  /\ faults' = faults + 1
  /\ sync' = NoSync
  /\ UNCHANGED <<upstream, cache, state, lost>>

\* discardIncompatibleCache: a new build finds a table it cannot read and drops
\* it.  The two statements commit one by one; a start that finds no table, after
\* a kill in between, creates an empty one and leaves the markers alone.
DropTable ==
  /\ sync.at = "idle" /\ faults < MaxFaults
  /\ faults' = faults + 1
  /\ cache' = [x \in Row |-> 0]
  /\ lost' = lost \union {x \in Row : cache[x] > 0}
  /\ sync' = [sync EXCEPT !.at = "reset"]
  /\ UNCHANGED <<upstream, state>>

M_ResetCursorOnly ==
  /\ sync.at = "reset"
  /\ state' = [state EXCEPT !.lastAsOf = None]
  /\ lost' = {}
  /\ sync' = NoSync
  /\ UNCHANGED <<upstream, cache, faults>>
ResetMarkers ==
  /\ sync.at = "reset"
  /\ state' = EmptyState
  /\ lost' = {}
  /\ sync' = NoSync
  /\ UNCHANGED <<upstream, cache, faults>>

Progress == \/ GetEarliest \/ FetchPage \/ CommitFull \/ CommitIncremental
            \/ ResetMarkers

Next ==
  \/ \E x \in Row : Edit(x)
  \/ SyncFull \/ SyncIncremental \/ EnsureFresh
  \/ Progress
  \/ Fail \/ Kill \/ DropTable

\* The interval goes on ticking, requests are answered or time out, and a start
\* that was not killed goes on.
Spec == Init /\ [][Next]_vars /\ WF_vars(SyncIncremental) /\ WF_vars(Progress)
-----------------------------------------------------------------------------
OptionalTime == (0 .. MaxClock) \union {None}

StateType == [dateOnAfter : Date \union {None}, lastAsOf : OptionalTime,
              lastFullSyncAt : OptionalTime, lastSyncAt : BOOLEAN,
              status : {None, "running", "ok", "error"}]

SyncType == [at : {"idle", "earliest", "page", "commit", "reset"}, full : BOOLEAN,
             since : OptionalTime, from : Date \union {None},
             asOf : OptionalTime, sent : SUBSET Row, begun : OptionalTime]

\* Type invariant; the markers are times of the upstream clock or unset.
TypeOK == /\ clock \in 0 .. MaxClock
          /\ mod \in [Row -> 0 .. MaxClock]
          /\ date \in [Row -> Date]
          /\ cache \in [Row -> 0 .. MaxClock]
          /\ state \in StateType
          /\ sync \in SyncType
          /\ lost \subseteq Row
          /\ faults \in 0 .. MaxFaults

\* Row x, as it is upstream, is one the cache is responsible for at time t.
Due(x, t) == Exists(x) /\ mod[x] <= t /\ After(x, state.dateOnAfter)

\* No update is lost below the cursor: a change made upstream no later than
\* lastAsOf is in the cache, since no incremental sync will ask for it again.
\* Only a row that was dropped before the markers were reset may be missing.
NoLostUpdate ==
  state.lastAsOf # None =>
    \A x \in Row \ lost : Due(x, state.lastAsOf) => cache[x] = mod[x]

\* Freshness "only has meaning after a full sync established the cache": with
\* lastFullSyncAt set, everything there was when that sync began is cached,
\* but for the rows dropped before the markers were reset.
InitializedMeansComplete ==
  Initialized =>
    \A x \in Row \ lost : Due(x, state.lastFullSyncAt) => cache[x] = mod[x]

\* A database that was completely synced counts as synced until it is empty: the
\* markers are given up after the rows, and the cursor never goes back.
CursorAdvances ==
  [][/\ Initialized => Initialized' \/ \A x \in Row : cache[x] = 0
     /\ state.lastAsOf # None /\ state'.lastAsOf # None =>
          state'.lastAsOf >= state.lastAsOf]_vars

\* When the upstream stops changing, the interval brings the cache up to date
\* with every row of the range it covers, whatever failed before; a row dropped
\* before the markers were reset, only if a later listing brings it.
Converges ==
  <>[](\A x \in Row \ lost :
         Exists(x) /\ After(x, state.dateOnAfter) => cache[x] = mod[x])
-----------------------------------------------------------------------------
(***************************************************************************)
(* Why no update is lost.                                                  *)
(***************************************************************************)
TimesPassed ==
  /\ \A x \in Row : mod[x] <= clock
  /\ state.lastAsOf # None => state.lastAsOf <= clock
  /\ Initialized => state.lastFullSyncAt <= clock
  /\ sync.begun # None => /\ sync.begun <= clock
                          /\ state.lastAsOf # None => state.lastAsOf <= sync.begun

\* An incremental sync asks for what the markers say, a full one for all; the
\* cursor it will leave is the one it began with or the time it began at.
AsksByMarkers ==
  /\ sync.at = "idle" => sync = NoSync
  /\ sync.at = "reset" => /\ sync = [NoSync EXCEPT !.at = "reset"]
                          /\ \A x \in Row : cache[x] = 0
  /\ sync.full => sync.since = None
  /\ sync.at = "earliest" => sync.full
  /\ sync.at \in {"page", "commit"} /\ ~sync.full =>
       /\ sync.since # None
       /\ sync.since = state.lastAsOf /\ sync.from = state.dateOnAfter
  /\ sync.asOf \in {None, sync.begun, sync.since}
  /\ sync.begun = None => sync.sent = {} /\ sync.at # "commit"

\* A row the listing is past is cached as it was when the listing began, or has
\* changed since.
SentIsCached ==
  sync.begun # None =>
    \A x \in sync.sent : mod[x] <= sync.begun => cache[x] = mod[x]

\* At the last page nothing that was to be listed is left.
ListedAll ==
  sync.at = "commit" =>
    \A x \in Row : Exists(x) /\ After(x, sync.from) /\ mod[x] <= sync.begun
                    /\ (sync.since = None \/ mod[x] > sync.since)
                    => x \in sync.sent

\* Together inductive when the upstream pins asOf to the start of a listing:
\* a cursor never passes a change that the cache does not have.
SyncInv == /\ TimesPassed
           /\ AsksByMarkers
           /\ SentIsCached
           /\ ListedAll
           /\ NoLostUpdate
           /\ InitializedMeansComplete
=============================================================================
