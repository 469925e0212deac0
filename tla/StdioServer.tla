---------------------------- MODULE StdioServer ----------------------------
(***************************************************************************)
(* The life of a process around the lease: runStdioServer of               *)
(* src/src/runtime/stdio-server.ts and runLocalAuth of                     *)
(* src/src/commands/local-auth.ts, with the constructor of DatabaseContext *)
(* (src/src/db/database.ts), which opens and migrates the cache.           *)
(*                                                                         *)
(* The statements of the migration commit one by one, and a process may be *)
(* killed between any two; they are grouped where nothing can tell a state *)
(* between them apart.  Of the cache the model keeps what the migration    *)
(* and a reader look at.  A process does its work (tool calls, syncs,      *)
(* refreshes for others) in the background; work counts as one piece.      *)
(***************************************************************************)
EXTENDS CacheLease

VARIABLES
  program,   \* program[p]: the server, or the auth command
  stage,     \* stage[p]: how far p is, see Stages
  handle,    \* handle[p]: p's connection to the cache file
  work,      \* work[p]: a handler or a sync of p is in flight
  timers,    \* timers[p]: the sync interval and the poll of p; "due" when a
             \* shutdown has begun but start() is still to come
  exits,     \* exits[p]: p calls process.exit after its shutdown
  cache      \* the cache file

local == <<program, stage, handle, work, timers, exits>>
serverVars == <<vars, local, cache>>

\* "start" is before the cache is opened, "dead" after an error at startup.
Stages == {"start", "drop", "unmark", "create", "rest", "open", "serving",
           "closing", "closed", "done", "failed", "dead"}

\* file: it exists; table: the transactions table and its schema; rest: the
\* tables created after it are there; marked: sync_state says a full sync was
\* done; rows: what it fetched is in the table.
Caches == [file : BOOLEAN, table : {"none", "old", "current"}, rest : BOOLEAN,
           marked : BOOLEAN, rows : BOOLEAN]
NoCache == [file |-> FALSE, table |-> "none", rest |-> FALSE,
            marked |-> FALSE, rows |-> FALSE]
Existing == {c \in Caches : c.file /\ c.table # "none" /\ c.rows = c.marked}

ServerInit ==
  /\ Init
  /\ program = [p \in Pid |-> "server"]
  /\ stage = [p \in Pid |-> "start"]
  /\ handle = [p \in Pid |-> "none"]
  /\ work = [p \in Pid |-> FALSE]
  /\ timers = [p \in Pid |-> "none"]
  /\ exits = [p \in Pid |-> FALSE]
  /\ cache \in Existing \union {NoCache}

At(p, from, to) == stage[p] = from /\ stage' = [stage EXCEPT ![p] = to]
-----------------------------------------------------------------------------
(***************************************************************************)
(* Starting: the lease first, then the cache in the role it gave.          *)
(***************************************************************************)
Launch(p) ==
  /\ Start(p)
  /\ \E name \in {"server", "auth"} : program' = [program EXCEPT ![p] = name]
  /\ UNCHANGED <<stage, handle, work, timers, exits, cache>>

Acquire(p) == AcquireStep(p) /\ UNCHANGED <<local, cache>>

Opens(p) == stage[p] = "start" /\ program[p] = "server"

\* A reader needs a file with a table of this schema, or dies.
Readable == cache.file /\ cache.table = "current"
M_OpenReadOnly(p) ==
  /\ pc[p] = "reader" /\ Opens(p) /\ cache.file
  /\ At(p, "start", "open")
  /\ handle' = [handle EXCEPT ![p] = "read"]
  /\ UNCHANGED <<vars, program, work, timers, exits, cache>>
OpenReadOnly(p) ==
  /\ pc[p] = "reader" /\ Opens(p)
  /\ \/ /\ Readable
        /\ At(p, "start", "open")
        /\ handle' = [handle EXCEPT ![p] = "read"]
     \/ /\ ~Readable
        /\ At(p, "start", "dead")
        /\ UNCHANGED handle
  /\ UNCHANGED <<vars, program, work, timers, exits, cache>>

\* The writer, server or auth command, creates the file and migrates it.
OpenFile(p) ==
  /\ pc[p] = "writer"
  /\ At(p, "start", IF cache.table = "old" THEN "drop" ELSE "create")
  /\ handle' = [handle EXCEPT ![p] = "write"]
  /\ cache' = [cache EXCEPT !.file = TRUE]
  /\ UNCHANGED <<vars, program, work, timers, exits>>

\* discardIncompatibleCache: a script of two statements, each with its commit.
DropTable(p) ==
  /\ At(p, "drop", "unmark")
  /\ cache' = [cache EXCEPT !.table = "none", !.rows = FALSE]
  /\ UNCHANGED <<vars, program, handle, work, timers, exits>>

ResetMarkers(p) ==
  /\ At(p, "unmark", "create")
  /\ cache' = [cache EXCEPT !.marked = FALSE]
  /\ UNCHANGED <<vars, program, handle, work, timers, exits>>

\* migrate: CREATE TABLE IF NOT EXISTS, up to the transactions table.  What is
\* created before it nobody sees: without it no reader opens.
CreateTables(p) ==
  /\ At(p, "create", "rest")
  /\ cache' = [cache EXCEPT !.table = IF @ = "none" THEN "current" ELSE @]
  /\ UNCHANGED <<vars, program, handle, work, timers, exits>>

\* The rest of the script: its indexes, accounts, categories, their markers.
CreateRest(p) ==
  /\ At(p, "rest", "open")
  /\ cache' = [cache EXCEPT !.rest = TRUE]
  /\ UNCHANGED <<vars, program, handle, work, timers, exits>>

\* Any of it may throw: the server ends with its lock on disk, the auth command
\* releases it, without a database to close.
OpenFails(p) ==
  /\ pc[p] = "writer"
  /\ stage[p] \in {"start", "drop", "unmark", "create", "rest"}
  /\ stage' = [stage EXCEPT ![p] = IF program[p] = "server" THEN "dead" ELSE "closed"]
  /\ UNCHANGED <<vars, program, handle, work, timers, exits, cache>>

\* The auth command has no read-only mode: release() and an error.
RefuseAuth(p) ==
  /\ pc[p] = "reader" /\ program[p] = "auth"
  /\ At(p, "start", "done")
  /\ Release(p)
  /\ UNCHANGED <<program, handle, work, timers, exits, cache>>

\* server.connect returns: start() of the interval and of the poll, both of the
\* writer only.
Serve(p) ==
  /\ program[p] = "server"
  /\ At(p, "open", "serving")
  /\ timers' = [timers EXCEPT ![p] = IF pc[p] = "writer" THEN "on" ELSE "none"]
  /\ UNCHANGED <<vars, program, handle, work, exits, cache>>

\* It throws: the shutdown of the catch, after which the error goes to main(),
\* which sets an exit code and lets the process end by itself.
StartFails(p) ==
  /\ program[p] = "server"
  /\ At(p, "open", "closing")
  /\ UNCHANGED <<vars, program, handle, work, timers, exits, cache>>

\* A signal or the end of stdin while connect is awaited: their handlers are
\* registered before it.  stop() finds no timer to stop.
Interrupt(p) ==
  /\ program[p] = "server"
  /\ At(p, "open", "closing")
  /\ timers' = [timers EXCEPT ![p] = IF pc[p] = "writer" THEN "due" ELSE "none"]
  /\ exits' = [exits EXCEPT ![p] = TRUE]
  /\ UNCHANGED <<vars, program, handle, work, cache>>

\* connect goes on after such a shutdown began: nothing asks about it before the
\* timers are started, unless it throws now.
LateTimers(p) ==
  /\ timers[p] = "due"
  /\ \E late \in {"none", "on"} : timers' = [timers EXCEPT ![p] = late]
  /\ UNCHANGED <<vars, program, stage, handle, work, exits, cache>>
-----------------------------------------------------------------------------
(***************************************************************************)
(* Serving.  A timer that was started too late begins work all the same.   *)
(***************************************************************************)
BeginWork(p) ==
  /\ stage[p] = "serving" \/ timers[p] = "on"
  /\ ~work[p]
  /\ work' = [work EXCEPT ![p] = TRUE]
  /\ UNCHANGED <<vars, program, stage, handle, timers, exits, cache>>

\* A sync commits through an open handle, whatever has been asked to stop: a
\* full one when nothing is marked, which marks what it fetched.
SyncCommits(p) ==
  /\ work[p] /\ handle[p] = "write" /\ cache.table = "current"
  /\ cache' = [cache EXCEPT !.marked = TRUE, !.rows = cache.rows \/ ~cache.marked]
  /\ UNCHANGED <<vars, local>>

\* It is done, or has failed: on a closed handle it cannot but fail.
EndWork(p) ==
  /\ work[p]
  /\ work' = [work EXCEPT ![p] = FALSE]
  /\ UNCHANGED <<vars, program, stage, handle, timers, exits, cache>>

\* The login of the auth command is over; db.close() and release() follow.
EndLogin(p) ==
  /\ program[p] = "auth"
  /\ At(p, "open", "closing")
  /\ UNCHANGED <<vars, program, handle, work, timers, exits, cache>>
-----------------------------------------------------------------------------
(***************************************************************************)
(* Stopping.  A signal or the end of stdin exits after the shutdown; when  *)
(* the transport closes the process is left to end by itself.              *)
(***************************************************************************)
M_Shutdown(p) ==
  /\ At(p, "serving", "closing")
  /\ \E exit \in BOOLEAN : exits' = [exits EXCEPT ![p] = exit]
  /\ UNCHANGED <<vars, program, handle, work, timers, cache>>
Shutdown(p) ==
  /\ At(p, "serving", "closing")
  /\ timers' = [timers EXCEPT ![p] = "none"]
  /\ \E exit \in BOOLEAN : exits' = [exits EXCEPT ![p] = exit]
  /\ UNCHANGED <<vars, program, handle, work, cache>>

\* A second reason to stop finds the promise of the first shutdown.
ShutdownAgain(p) ==
  /\ stage[p] \in {"closing", "closed", "done"} /\ program[p] = "server"
  /\ ~exits[p]
  /\ exits' = [exits EXCEPT ![p] = TRUE]
  /\ UNCHANGED <<vars, program, stage, handle, work, timers, cache>>

\* server.close() returns: the database is closed before the lease is released.
M_CloseDatabase(p) ==
  /\ At(p, "closing", "closed")
  /\ UNCHANGED <<vars, program, handle, work, timers, exits, cache>>
CloseDatabase(p) ==
  /\ At(p, "closing", "closed")
  /\ handle' = [handle EXCEPT ![p] = "none"]
  /\ UNCHANGED <<vars, program, work, timers, exits, cache>>

ReleaseLease(p) ==
  /\ At(p, "closed", "done")
  /\ Release(p)
  /\ UNCHANGED <<program, handle, work, timers, exits, cache>>

\* server.close() throws: neither is done, and the process ends for it.
CloseFails(p) ==
  /\ program[p] = "server"
  /\ At(p, "closing", "failed")
  /\ UNCHANGED <<vars, program, handle, work, timers, exits, cache>>

\* The end of a process closes its handle and drops its work.
Gone(p) ==
  /\ End(p)
  /\ program' = [program EXCEPT ![p] = "server"]
  /\ stage' = [stage EXCEPT ![p] = "start"]
  /\ handle' = [handle EXCEPT ![p] = "none"]
  /\ work' = [work EXCEPT ![p] = FALSE]
  /\ timers' = [timers EXCEPT ![p] = "none"]
  /\ exits' = [exits EXCEPT ![p] = FALSE]
  /\ UNCHANGED cache

\* process.exit, or nothing is left that keeps the process running.
Exit(p) ==
  /\ \/ stage[p] \in {"failed", "dead"}
     \/ stage[p] = "done" /\ (exits[p] \/ (timers[p] = "none" /\ ~work[p]))
  /\ Gone(p)

Kill(p) == Gone(p)

Foreign(p) == (ForeignStart(p) \/ ForeignEnd(p)) /\ UNCHANGED <<local, cache>>

Commits(p) == OpenFile(p) \/ DropTable(p) \/ ResetMarkers(p) \/ CreateTables(p)
              \/ CreateRest(p) \/ SyncCommits(p)

Stops(p) == CloseDatabase(p) \/ ReleaseLease(p) \/ Exit(p)

ServerNext == \E p \in Pid :
  \/ Launch(p) \/ Acquire(p) \/ OpenReadOnly(p) \/ OpenFails(p) \/ RefuseAuth(p)
  \/ Commits(p) \/ Serve(p) \/ StartFails(p) \/ Interrupt(p) \/ LateTimers(p) \/ BeginWork(p) \/ EndWork(p) \/ EndLogin(p)
  \/ Shutdown(p) \/ ShutdownAgain(p) \/ CloseFails(p) \/ Stops(p)
  \/ Kill(p) \/ Foreign(p)

\* Synchronous code goes on, requests end (they have timeouts), and a process
\* with nothing left to do ends.
ServerSpec ==
  /\ ServerInit /\ [][ServerNext]_serverVars
  /\ \A p \in Pid : /\ WF_serverVars(Acquire(p))
                    /\ WF_serverVars(EndWork(p))
                    /\ WF_serverVars(Stops(p))
-----------------------------------------------------------------------------
\* Types, and what a stage says of the role and the handle.
ServerTypeOK ==
  /\ TypeOK
  /\ program \in [Pid -> {"server", "auth"}]
  /\ stage \in [Pid -> Stages]
  /\ handle \in [Pid -> {"none", "read", "write"}]
  /\ work \in [Pid -> BOOLEAN]
  /\ timers \in [Pid -> {"none", "due", "on"}]
  /\ exits \in [Pid -> BOOLEAN]
  /\ cache \in Caches

\* A process that migrates has the writer role, and keeps it while it has work
\* that can reach the cache.
WritesAsWriter ==
  \A p \in Pid :
    /\ stage[p] \in {"drop", "unmark", "create", "rest"} => pc[p] = "writer"
    /\ handle[p] = "write" /\ stage[p] \in {"open", "serving", "closing", "failed"}
         => pc[p] = "writer"
    /\ work[p] => stage[p] \in {"serving", "closing", "closed", "done", "failed"}
    /\ timers[p] # "none" => stage[p] \in {"serving", "closing", "closed", "done", "failed"}
    /\ (work[p] \/ timers[p] # "none") /\ stage[p] \in {"closed", "done"} => handle[p] = "none"

\* How far a process is says how far the table is.
MigratedBefore ==
  \A p \in Pid :
    /\ stage[p] = "drop" => cache.table = "old"
    /\ stage[p] \in {"unmark", "create"} => cache.table # "old"
    /\ stage[p] \in {"rest", "open", "serving"} => cache.table = "current"
    /\ stage[p] \in {"open", "serving"} /\ handle[p] = "write" => cache.rest

\* Inductive together with the types and SerialInv.
ServerInv == WritesAsWriter /\ MigratedBefore

\* Whatever commits to the cache, the migration of either program or a sync that
\* a shutdown has overtaken, is the process whose lock is on disk.
CommitsUnderLease ==
  [][\A p \in Pid : Commits(p) => lock = [by |-> p, written |-> TRUE]]_serverVars

\* No process, in either role, serves a cache without a transactions table of this
\* schema, neither one another process is migrating nor one it could not migrate;
\* the writer has every other table too.  (A reader asks for no other, and may come
\* before they are there.)
ServedCacheIsCurrent ==
  \A p \in Pid : stage[p] = "serving" =>
    /\ cache.table = "current"
    /\ handle[p] = "write" => cache.rest

\* A process that is asked to stop, or whose login is over, ends: with work in
\* flight, after a failed start or a failed close, when nobody calls
\* process.exit, and when timers are started after they were stopped.
ShutdownEnds == \A p \in Pid : stage[p] = "closing" ~> pc[p] = "off"

\* database.ts: "Discarding incompatible transaction cache; a full resync will
\* follow", which is to say that what is marked as synced is there.
MarkedHasRows == \A p \in Pid : stage[p] = "serving" /\ cache.marked => cache.rows
=============================================================================
