----------------------------- MODULE CacheLease -----------------------------
(***************************************************************************)
(* The single-writer lease of src/src/runtime/cache-lease.ts.  A process   *)
(* becomes the writer by creating the file <db>.lock exclusively, and a    *)
(* reader when it finds there the pid of a process that is running.        *)
(*                                                                         *)
(* Every file system call of acquire() and release() is a step of its own: *)
(* the calls are synchronous in one process, but the other processes and   *)
(* the crashes fall between them.  Creating the file and writing the pid   *)
(* into it are two such calls.                                             *)
(***************************************************************************)
EXTENDS Naturals

CONSTANTS
  Pid,           \* process identifiers of the operating system
  NoPid,         \* the holder of a lock that cannot be read: `undefined`
  NoLock,        \* the lock file does not exist
  SerialStarts,  \* no two processes are inside acquire() at the same time
  PidReuse       \* the system may give a recorded pid to a new process

ASSUME PidAssumption == NoPid \notin Pid
ASSUME LockAssumption == NoLock \notin [by : Pid, written : BOOLEAN]
ASSUME SwitchAssumption == SerialStarts \in BOOLEAN /\ PidReuse \in BOOLEAN

VARIABLES
  pc,      \* pc[p]: where process p is, see the sets below
  lock,    \* the lock file on disk: who created it, and whether it is written
  holder   \* holder[p]: the pid p read in the lock; for a reader, writerPid

vars == <<pc, lock, holder>>

(***************************************************************************)
(* "off" and "foreign" are pids this program does not run under: unused,   *)
(* or given to another program.  "open1" to "read2" are the calls of       *)
(* acquire(); "released" is a process that has called release().           *)
(***************************************************************************)
Acquiring == {"open1", "read1", "check", "remove", "open2", "write", "read2"}
Settled   == {"writer", "reader", "released"}
Ours      == Acquiring \union Settled
Places    == Ours \union {"off", "foreign"}
LockFile  == [by : Pid, written : BOOLEAN]

\* process.kill(pid, 0): some process has this pid, this program or not.
IsRunning(p) == pc[p] # "off"

\* The system has not handed out p while someone still has it written down.
Recorded(p) == \/ lock # NoLock /\ lock.by = p
               \/ \E q \in Pid : holder[q] = p

\* readHolder: undefined for a missing or half-written lock.
M_HolderUnvalidated ==
  IF lock = NoLock THEN NoPid ELSE IF lock.written THEN lock.by ELSE 0
HolderIn == IF lock # NoLock /\ lock.written THEN lock.by ELSE NoPid

(***************************************************************************)
(* A lock may be left over from before: written, or cut short by a crash.  *)
(***************************************************************************)
Init ==
  /\ pc = [p \in Pid |-> "off"]
  /\ lock \in LockFile \union {NoLock}
  /\ holder = [p \in Pid |-> NoPid]

Start(p) ==
  /\ pc[p] = "off"
  /\ SerialStarts => \A q \in Pid : pc[q] \notin Acquiring
  /\ PidReuse \/ ~Recorded(p)
  /\ pc' = [pc EXCEPT ![p] = "open1"]
  /\ UNCHANGED <<lock, holder>>

\* openSync(lockPath, "wx") of tryCreate, at its first or second use.
M_CreateShared(p, from, busy) ==
  /\ pc[p] = from
  /\ lock' = [by |-> p, written |-> FALSE]
  /\ pc' = [pc EXCEPT ![p] = "write"]
  /\ UNCHANGED holder
Create(p, from, busy) ==
  /\ pc[p] = from
  /\ \/ /\ lock = NoLock
        /\ lock' = [by |-> p, written |-> FALSE]
        /\ pc' = [pc EXCEPT ![p] = "write"]
     \/ /\ lock # NoLock
        /\ pc' = [pc EXCEPT ![p] = busy]
        /\ UNCHANGED lock
  /\ UNCHANGED holder

TryCreate(p) == Create(p, "open1", "read1")
TryCreateAgain(p) == Create(p, "open2", "read2")

\* The pid goes to the open descriptor: to this process's own file, even if
\* another process has removed it meanwhile.
WritePid(p) ==
  /\ pc[p] = "write"
  /\ lock' = IF lock # NoLock /\ lock.by = p
             THEN [lock EXCEPT !.written = TRUE] ELSE lock
  /\ pc' = [pc EXCEPT ![p] = "writer"]
  /\ UNCHANGED holder

ReadHolder(p) ==
  /\ pc[p] = "read1"
  /\ holder' = [holder EXCEPT ![p] = HolderIn]
  /\ pc' = [pc EXCEPT ![p] = IF HolderIn = NoPid THEN "remove" ELSE "check"]
  /\ UNCHANGED lock

M_CheckNever(p) ==
  /\ pc[p] = "check"
  /\ pc' = [pc EXCEPT ![p] = "reader"]
  /\ UNCHANGED <<lock, holder>>
M_CheckStale(p) ==
  /\ pc[p] = "check"
  /\ pc' = [pc EXCEPT ![p] = "remove"]
  /\ holder' = [holder EXCEPT ![p] = NoPid]
  /\ UNCHANGED lock
CheckHolder(p) ==
  /\ pc[p] = "check"
  /\ \/ /\ IsRunning(holder[p])
        /\ pc' = [pc EXCEPT ![p] = "reader"]
        /\ UNCHANGED holder
     \/ /\ ~IsRunning(holder[p])
        /\ pc' = [pc EXCEPT ![p] = "remove"]
        /\ holder' = [holder EXCEPT ![p] = NoPid]
  /\ UNCHANGED lock

\* rmSync(lockPath, { force: true }): whatever lock is there by now.
M_RetryWithoutRemove(p) ==
  /\ pc[p] = "remove"
  /\ pc' = [pc EXCEPT ![p] = "open1"]
  /\ UNCHANGED <<lock, holder>>
RemoveStale(p) ==
  /\ pc[p] = "remove"
  /\ lock' = NoLock
  /\ pc' = [pc EXCEPT ![p] = "open2"]
  /\ UNCHANGED holder

\* The race for the removed lock is lost: a reader, with the pid if it is there.
ReadWinner(p) ==
  /\ pc[p] = "read2"
  /\ holder' = [holder EXCEPT ![p] = HolderIn]
  /\ pc' = [pc EXCEPT ![p] = "reader"]
  /\ UNCHANGED lock

\* release(): the writer unlinks the lock file, whoever wrote it.
M_ReleaseAny(p) ==
  /\ pc[p] \in {"writer", "reader"}
  /\ lock' = NoLock
  /\ pc' = [pc EXCEPT ![p] = "released"]
  /\ UNCHANGED holder
Release(p) ==
  /\ pc[p] \in {"writer", "reader"}
  /\ lock' = IF pc[p] = "writer" THEN NoLock ELSE lock
  /\ pc' = [pc EXCEPT ![p] = "released"]
  /\ UNCHANGED holder

\* The process is gone: after release, or at any earlier point.
End(p) ==
  /\ pc[p] \in Ours
  /\ pc' = [pc EXCEPT ![p] = "off"]
  /\ holder' = [holder EXCEPT ![p] = NoPid]
  /\ UNCHANGED lock

\* Another program gets the pid, or gives it back.
ForeignStart(p) ==
  /\ PidReuse \/ ~Recorded(p)
  /\ pc[p] = "off"
  /\ pc' = [pc EXCEPT ![p] = "foreign"]
  /\ UNCHANGED <<lock, holder>>

ForeignEnd(p) ==
  /\ pc[p] = "foreign"
  /\ pc' = [pc EXCEPT ![p] = "off"]
  /\ UNCHANGED <<lock, holder>>

\* One call of acquire().
AcquireStep(p) ==
  \/ TryCreate(p) \/ WritePid(p) \/ ReadHolder(p) \/ CheckHolder(p)
  \/ RemoveStale(p) \/ TryCreateAgain(p) \/ ReadWinner(p)

Next == \E p \in Pid :
  \/ Start(p) \/ AcquireStep(p) \/ Release(p) \/ End(p)
  \/ ForeignStart(p) \/ ForeignEnd(p)

\* acquire() is synchronous code: a process inside it goes on until it crashes.
Spec == Init /\ [][Next]_vars /\ \A p \in Pid : WF_vars(AcquireStep(p))
-----------------------------------------------------------------------------
(***************************************************************************)
(* Type invariant: in particular the pid acquire() acts on is the pid of a *)
(* process or undefined, never another number found in the file.           *)
(***************************************************************************)
TypeOK ==
  /\ pc \in [Pid -> Places]
  /\ lock \in LockFile \union {NoLock}
  /\ holder \in [Pid -> Pid \union {NoPid}]

\* "`writer` owns the lease and is the only process that may sync": there are
\* never two processes that acquire() returned the writer role to.
AtMostOneWriter ==
  \A p, q \in Pid : pc[p] = "writer" /\ pc[q] = "writer" => p = q

\* As long as the writer serves, its own lock, with its pid, is on disk: no
\* reader that shuts down and no other process that starts has removed it.
WriterHoldsLock ==
  \A p \in Pid : pc[p] = "writer" => lock = [by |-> p, written |-> TRUE]

\* A lock is only respected for the process that wrote it: whoever becomes a
\* reader on the pid in the lock defers to another process of this program that
\* acquired the lease and has not ended, so an unowned lock is reclaimed.
UnownedLockReclaimed ==
  [][\A p \in Pid : pc[p] = "check" /\ pc'[p] = "reader" =>
       holder[p] # p /\ pc[holder[p]] \in {"writer", "released"}]_vars

\* acquire() never throws for contention and never spins on it: a process that
\* has called it gets its role, unless it dies first.
AcquireEnds == \A p \in Pid : pc[p] \in Acquiring ~> pc[p] \notin Acquiring
-----------------------------------------------------------------------------
(***************************************************************************)
(* Why the lease works when no two starts overlap.                         *)
(***************************************************************************)
OneStarter ==
  \A p, q \in Pid : pc[p] \in Acquiring /\ pc[q] \in Acquiring => p = q

\* A half-written lock is the one of the process that is writing it.
WritesOwnLock ==
  \A p \in Pid : pc[p] = "write" => lock = [by |-> p, written |-> FALSE]

\* A process about to remove or replace a lock has no live writer behind it.
ReplacesNoWriter ==
  \A p, q \in Pid : pc[p] \in {"remove", "open2", "write"} => pc[q] # "writer"

\* The pid being checked is the writer's, if there is a writer.
ChecksTheWriter ==
  \A p \in Pid : pc[p] = "check" =>
    holder[p] \in Pid /\ \A q \in Pid : pc[q] = "writer" => holder[p] = q

\* The second exclusive creation finds the file gone.
SecondTryWins ==
  \A p \in Pid : /\ pc[p] = "open2" => lock = NoLock
                /\ pc[p] # "read2"

\* Together inductive: every start that meets no other start ends in the only
\* role the lock on disk allows.
SerialInv == /\ OneStarter
             /\ WriterHoldsLock
             /\ WritesOwnLock
             /\ ReplacesNoWriter
             /\ ChecksTheWriter
             /\ SecondTryWins
-----------------------------------------------------------------------------
(***************************************************************************)
(* The roles the lease hands out, as the abstract specification sees them. *)
(***************************************************************************)
RoleOf(p) == IF pc[p] \in {"writer", "reader"} THEN pc[p] ELSE "none"
DefersTo(p) == IF pc[p] = "reader" THEN holder[p] ELSE NoPid

Roles == INSTANCE WriterRole
           WITH role <- [p \in Pid |-> RoleOf(p)],
                defersTo <- [p \in Pid |-> DefersTo(p)]

\* The lease implements the roles of WriterRole.
RolesSpec == Roles!Spec
=============================================================================
