--------------------------- MODULE CollectionSync ---------------------------
(***************************************************************************)
(* The syncs of complete collections: accounts and scheduled transactions  *)
(* (src/src/services/account-service.ts), which replace what is cached by  *)
(* what a listing returned, and categories and tags                        *)
(* (src/src/services/reference-data-service.ts), which merge every page    *)
(* into the cache as it arrives.                                           *)
(*                                                                         *)
(* A replacement is three commits to the database: absent rows are         *)
(* deleted, the rows of the listing are upserted, the marker is set.  The  *)
(* upstream changes between the pages, the process can be killed between   *)
(* any two commits, and readers see what each commit leaves.               *)
(*                                                                         *)
(* The refresh coordinator runs one sync at a time (RefreshCoordinator).   *)
(* The last_error columns are written and never read, and left out.        *)
(***************************************************************************)
EXTENDS Naturals

CONSTANTS
  Coll,        \* the collections
  Replaced,    \* those replaced wholesale; the others are merged
  Item,        \* ids
  None,        \* a collection that has never been synced
  MaxClock,    \* bound: changes made upstream
  MaxFaults    \* bound: failed requests and killed processes

ASSUME CollAssumption == Replaced \subseteq Coll
ASSUME NoneAssumption == None \notin Nat /\ None \notin Coll
ASSUME BoundAssumption == MaxClock \in Nat /\ MaxFaults \in Nat

VARIABLES
  clock,   \* upstream time: one tick per change
  up,      \* up[c][x]: when x last changed upstream, and whether it is there
  cache,   \* cache[c][x]: the version of x cached, 0 for none
  synced,  \* synced[c]: the ...LastSyncAt marker
  sync,    \* the sync in progress and its local variables
  faults   \* failures and kills so far

vars == <<clock, up, cache, synced, sync, faults>>

(***************************************************************************)
(* coll is the collection listed, got the `resources` collected so far,    *)
(* sent the items the listing is past, and begun the upstream time it      *)
(* began at, which stands for the time of the marker.  steady is history:  *)
(* the items that have been upstream ever since the sync began.            *)
(***************************************************************************)
NoItems == [x \in Item |-> 0]

NoSync == [at |-> "idle", coll |-> None, got |-> NoItems, sent |-> {},
           begun |-> None, steady |-> {}]

Init ==
  /\ clock = 0
  /\ up = [c \in Coll |-> [x \in Item |-> [at |-> 0, live |-> FALSE]]]
  /\ cache = [c \in Coll |-> NoItems]
  /\ synced = [c \in Coll |-> None]
  /\ sync = NoSync
  /\ faults = 0
-----------------------------------------------------------------------------
\* External: x is added, changed, or removed upstream.
Edit(c, x, live) ==
  /\ clock < MaxClock
  /\ live \/ up[c][x].live
  /\ clock' = clock + 1
  /\ up' = [up EXCEPT ![c][x] = [at |-> clock + 1, live |-> live]]
  /\ sync' = IF c = sync.coll /\ ~live
             THEN [sync EXCEPT !.steady = @ \ {x}] ELSE sync
  /\ UNCHANGED <<cache, synced, faults>>

Live(c) == {x \in Item : up[c][x].live}

\* External: what the listing still has to return.
Unsent == Live(sync.coll) \ sync.sent

\* syncAccounts, syncScheduledTransactions, syncCategories, syncTags: asked for,
\* or found too old, which is left open here.
Begin(c) ==
  /\ sync.at = "idle"
  /\ sync' = [NoSync EXCEPT !.at = "page", !.coll = c, !.steady = Live(c)]
  /\ UNCHANGED <<clock, up, cache, synced, faults>>

\* The rows of `items`, at their present version, over those in `rows`.
Over(rows, items) ==
  [x \in Item |-> IF x \in items THEN up[sync.coll][x].at ELSE rows[x]]

\* Where a listing goes on after its last page.
M_AfterListing == "delete"
AfterListing == IF sync.coll \in Replaced THEN "delete" ELSE "mark"

\* One page, any part of what is left or all of it: collected, or upserted.
M_FirstPageOnly(page) ==
  /\ page = {} => Unsent = {}
  /\ sync' = [sync EXCEPT !.at = AfterListing,
                !.begun = clock,
                !.sent = @ \union page,
                !.got = Over(@, page)]
  /\ cache' = IF sync.coll \in Replaced THEN cache
              ELSE [cache EXCEPT ![sync.coll] = Over(@, page)]
ReceivePage(page) ==
  /\ page = {} => Unsent = {}
  /\ sync' = [sync EXCEPT
                !.at = IF page = Unsent THEN AfterListing ELSE "page",
                !.begun = IF @ = None THEN clock ELSE @,
                !.sent = @ \union page,
                !.got = Over(@, page)]
  /\ cache' = IF sync.coll \in Replaced THEN cache
              ELSE [cache EXCEPT ![sync.coll] = Over(@, page)]

FetchPage ==
  /\ sync.at = "page"
  /\ \E page \in SUBSET Unsent : ReceivePage(page)
  /\ UNCHANGED <<clock, up, synced, faults>>

\* The first transaction of replaceAccounts: rows the listing did not return go.
M_DeleteNothing ==
  /\ sync.at = "delete"
  /\ sync' = [sync EXCEPT !.at = "upsert"]
  /\ UNCHANGED <<clock, up, cache, synced, faults>>
DeleteAbsent ==
  /\ sync.at = "delete"
  /\ cache' = [cache EXCEPT ![sync.coll] =
                 [x \in Item |-> IF sync.got[x] = 0 THEN 0 ELSE @[x]]]
  /\ sync' = [sync EXCEPT !.at = "upsert"]
  /\ UNCHANGED <<clock, up, synced, faults>>

\* The second one: upsertAccounts, which leaves every other row as it is.
M_UpsertNew ==
  /\ sync.at = "upsert"
  /\ cache' = [cache EXCEPT ![sync.coll] =
                 [x \in Item |-> IF @[x] = 0 THEN sync.got[x] ELSE @[x]]]
  /\ sync' = [sync EXCEPT !.at = "mark"]
  /\ UNCHANGED <<clock, up, synced, faults>>
UpsertAll ==
  /\ sync.at = "upsert"
  /\ cache' = [cache EXCEPT ![sync.coll] =
                 [x \in Item |-> IF sync.got[x] = 0 THEN @[x] ELSE sync.got[x]]]
  /\ sync' = [sync EXCEPT !.at = "mark"]
  /\ UNCHANGED <<clock, up, synced, faults>>

\* The marker: the collection counts as synced.
Mark ==
  /\ sync.at = "mark"
  /\ synced' = [synced EXCEPT ![sync.coll] = sync.begun]
  /\ sync' = NoSync
  /\ UNCHANGED <<clock, up, cache, faults>>

\* A request fails, or the process is killed: what was committed stays.
Abort ==
  /\ sync.at # "idle" /\ faults < MaxFaults
  /\ faults' = faults + 1
  /\ sync' = NoSync
  /\ UNCHANGED <<clock, up, cache, synced>>

Next ==
  \/ \E c \in Coll : Begin(c)
  \/ \E c \in Coll, x \in Item, live \in BOOLEAN : Edit(c, x, live)
  \/ FetchPage \/ DeleteAbsent \/ UpsertAll \/ Mark \/ Abort

Spec == Init /\ [][Next]_vars
-----------------------------------------------------------------------------
Time == 0 .. MaxClock

SyncType == [at : {"idle", "page", "delete", "upsert", "mark"},
             coll : Coll \union {None}, got : [Item -> Time],
             sent : SUBSET Item, begun : Time \union {None},
             steady : SUBSET Item]

\* Type invariant; only a collection that is replaced is ever deleted from.
TypeOK ==
  /\ clock \in Time /\ faults \in 0 .. MaxFaults
  /\ up \in [Coll -> [Item -> [at : Time, live : BOOLEAN]]]
  /\ cache \in [Coll -> [Item -> Time]]
  /\ synced \in [Coll -> Time \union {None}]
  /\ sync \in SyncType
  /\ sync.at \in {"delete", "upsert"} => sync.coll \in Replaced

\* A collection that counts as synced has every item that has not changed since
\* the listing began, at its present version, whatever a later sync that failed
\* half way has done to it.
MarkedMeansComplete ==
  \A c \in Coll, x \in Item :
    synced[c] # None /\ up[c][x].live /\ up[c][x].at <= synced[c] =>
      cache[c][x] = up[c][x].at

\* "A deleted bill must not linger": an item of a replaced collection that was
\* gone when the last complete listing began is not cached.
RemovedRowsGo ==
  \A c \in Replaced, x \in Item :
    synced[c] # None /\ ~up[c][x].live /\ up[c][x].at <= synced[c] =>
      cache[c][x] = 0

\* A replacement never takes away an account that has been there all along: no
\* reader, between its transactions or after a crash, finds such a row missing.
RowsKept ==
  [][\A c \in Coll, x \in Item : cache[c][x] # 0 /\ cache'[c][x] = 0 =>
       x \notin sync.steady]_vars
-----------------------------------------------------------------------------
(***************************************************************************)
(* Why a synced collection is complete.                                    *)
(***************************************************************************)
TimesPassed ==
  /\ \A c \in Coll, x \in Item : up[c][x].at <= clock
  /\ \A c \in Coll : synced[c] # None => synced[c] <= clock
  /\ sync.begun # None =>
       /\ sync.begun <= clock
       /\ \A c \in Coll : synced[c] # None => synced[c] <= sync.begun

\* Of the items that were there when the listing began, those unchanged since
\* are collected, or cached, once the listing is past them; gone ones are not.
Collected ==
  /\ IF sync.at = "idle" THEN sync = NoSync
     ELSE sync.coll \in Coll /\ sync.steady \subseteq Live(sync.coll)
  /\ sync.begun = None => sync.sent = {} /\ sync.at \in {"idle", "page"}
  /\ \A x \in Item : sync.got[x] # 0 => x \in sync.sent
  /\ sync.begun # None =>
       \A x \in Item : LET u == up[sync.coll][x] IN
         u.at <= sync.begun =>
           /\ x \in sync.sent => u.live /\ sync.got[x] = u.at
           /\ x \in sync.sent /\ sync.coll \notin Replaced =>
                cache[sync.coll][x] = u.at

\* After its last page the listing is past everything that has been there since
\* it began.
ListedAll ==
  sync.at \in {"delete", "upsert", "mark"} =>
    /\ sync.begun # None
    /\ sync.steady \subseteq sync.sent
    /\ \A x \in Item : LET u == up[sync.coll][x] IN
         u.live /\ u.at <= sync.begun => x \in sync.sent

\* What the transactions of a replacement have done by now.
Replacing ==
  sync.coll \in Replaced =>
    /\ sync.at \in {"upsert", "mark"} =>
         \A x \in Item : sync.got[x] = 0 => cache[sync.coll][x] = 0
    /\ sync.at = "mark" =>
         \A x \in Item : sync.got[x] # 0 => cache[sync.coll][x] = sync.got[x]

\* A collected row has a version: it was upstream when its page was sent.
VersionsCollected ==
  /\ \A c \in Coll : \A x \in Live(c) : up[c][x].at > 0
  /\ \A x \in sync.sent : sync.got[x] # 0

\* Together inductive: what a marker vouches for is in the cache.
CollectionInv == /\ TimesPassed
                 /\ Collected
                 /\ ListedAll
                 /\ Replacing
                 /\ VersionsCollected
                 /\ MarkedMeansComplete
                 /\ RemovedRowsGo
=============================================================================
