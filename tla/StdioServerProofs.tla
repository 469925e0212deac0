------------------------- MODULE StdioServerProofs -------------------------
(***************************************************************************)
(* Theorems about the lease and the servers that compete for it: first     *)
(* CacheLease by itself, then StdioServer, whose steps are steps of the    *)
(* lease or none of its business.                                          *)
(***************************************************************************)
EXTENDS StdioServer, TLAPS

(***************************************************************************)
(* The lease, for any set of pids.  Type correctness needs no hypothesis.  *)
(* The single writer is proved for starts that do not overlap              *)
(* (SerialStarts), whatever pids are reused: the runs show that two        *)
(* overlapping starts can both become the writer.                          *)
(***************************************************************************)

\* The type invariant is inductive.
LEMMA TypeInit == Init => TypeOK
  BY DEF Init, TypeOK, Places

\* Exclusive creation keeps the types, at either of its two places.
LEMMA TypeCreate ==
  ASSUME NEW p \in Pid, NEW from, NEW busy \in Places, TypeOK,
         Create(p, from, busy)
  PROVE  TypeOK'
  <1>1. CASE /\ lock = NoLock
             /\ lock' = [by |-> p, written |-> FALSE]
             /\ pc' = [pc EXCEPT ![p] = "write"]
    <2>1. lock' \in LockFile
      BY <1>1 DEF LockFile
    <2>2. pc' \in [Pid -> Places]
      BY <1>1 DEF TypeOK, Places, Ours, Acquiring
    <2> QED
      BY <2>1, <2>2 DEF TypeOK, Create
  <1>2. CASE /\ lock # NoLock
             /\ pc' = [pc EXCEPT ![p] = busy]
             /\ UNCHANGED lock
    BY <1>2 DEF TypeOK, Create
  <1> QED
    BY <1>1, <1>2 DEF Create

LEMMA TypeStep == TypeOK /\ [Next]_vars => TypeOK'
  <1> SUFFICES ASSUME TypeOK, [Next]_vars PROVE TypeOK'
    OBVIOUS
  <1> USE DEF TypeOK, Places, Ours, Acquiring, Settled, LockFile
  <1>1. ASSUME NEW p \in Pid, Start(p) PROVE TypeOK'
    BY <1>1 DEF Start
  <1>2. ASSUME NEW p \in Pid, TryCreate(p) PROVE TypeOK'
    BY <1>2, TypeCreate DEF TryCreate
  <1>3. ASSUME NEW p \in Pid, WritePid(p) PROVE TypeOK'
    BY <1>3 DEF WritePid
  <1>4. ASSUME NEW p \in Pid, ReadHolder(p) PROVE TypeOK'
    <2>1. HolderIn \in Pid \union {NoPid}
      BY DEF HolderIn
    <2> QED
      BY <1>4, <2>1 DEF ReadHolder
  <1>5. ASSUME NEW p \in Pid, CheckHolder(p) PROVE TypeOK'
    BY <1>5 DEF CheckHolder
  <1>6. ASSUME NEW p \in Pid, RemoveStale(p) PROVE TypeOK'
    BY <1>6 DEF RemoveStale
  <1>7. ASSUME NEW p \in Pid, TryCreateAgain(p) PROVE TypeOK'
    BY <1>7, TypeCreate DEF TryCreateAgain
  <1>8. ASSUME NEW p \in Pid, ReadWinner(p) PROVE TypeOK'
    <2>1. HolderIn \in Pid \union {NoPid}
      BY DEF HolderIn
    <2> QED
      BY <1>8, <2>1 DEF ReadWinner
  <1>9. ASSUME NEW p \in Pid, Release(p) PROVE TypeOK'
    BY <1>9 DEF Release
  <1>10. ASSUME NEW p \in Pid, End(p) PROVE TypeOK'
    BY <1>10 DEF End
  <1>11. ASSUME NEW p \in Pid, ForeignStart(p) PROVE TypeOK'
    BY <1>11 DEF ForeignStart
  <1>12. ASSUME NEW p \in Pid, ForeignEnd(p) PROVE TypeOK'
    BY <1>12 DEF ForeignEnd
  <1>13. CASE UNCHANGED vars
    BY <1>13 DEF vars
  <1> QED
    BY <1>1, <1>2, <1>3, <1>4, <1>5, <1>6, <1>7, <1>8, <1>9, <1>10, <1>11,
       <1>12, <1>13 DEF Next, AcquireStep

\* acquire() only ever acts on the pid of a process, or on none; the lock file
\* is only ever absent, half-written or complete.
THEOREM TypeCorrect == Spec => []TypeOK
  BY TypeInit, TypeStep, PTL DEF Spec
-----------------------------------------------------------------------------
(***************************************************************************)
(* Starts that do not overlap: SerialInv is inductive together with the    *)
(* types, one step per call.                                               *)
(***************************************************************************)
\* A lock file that exists, as the system calls leave it.
LEMMA LockFacts ==
  ASSUME NEW p \in Pid, NEW b \in BOOLEAN, lock = [by |-> p, written |-> b]
  PROVE  /\ lock \in LockFile
         /\ lock # NoLock
         /\ lock.by = p
         /\ lock.written = b
  <1>1. [by |-> p, written |-> b] \in [by : Pid, written : BOOLEAN]
    OBVIOUS
  <1> QED
    BY <1>1, LockAssumption DEF LockFile

LEMMA SerialInit == Init => SerialInv
  BY DEF Init, SerialInv, OneStarter, WriterHoldsLock, WritesOwnLock,
         ReplacesNoWriter, ChecksTheWriter, SecondTryWins, Acquiring

\* One starter at a time: only Start brings a process into acquire().
LEMMA OneStarterStep ==
  ASSUME SerialStarts, TypeOK, OneStarter, [Next]_vars
  PROVE  OneStarter'
  <1>1. ASSUME NEW p \in Pid, Start(p) PROVE OneStarter'
    BY <1>1 DEF Start, TypeOK, OneStarter
  <1>2. ASSUME NEW p \in Pid, AcquireStep(p) PROVE OneStarter'
    <2>1. /\ pc[p] \in Acquiring
          /\ \A q \in Pid \ {p} : pc'[q] = pc[q]
      BY <1>2 DEF AcquireStep, TryCreate, TryCreateAgain, Create, WritePid,
                  ReadHolder, CheckHolder, RemoveStale, ReadWinner, TypeOK,
                  Acquiring
    <2> QED
      BY <2>1 DEF OneStarter
  <1>3. ASSUME NEW p \in Pid,
               Release(p) \/ End(p) \/ ForeignStart(p) \/ ForeignEnd(p)
        PROVE  OneStarter'
    <2>1. /\ pc'[p] \notin Acquiring
          /\ \A q \in Pid \ {p} : pc'[q] = pc[q]
      BY <1>3 DEF Release, End, ForeignStart, ForeignEnd, TypeOK, Acquiring
    <2> QED
      BY <2>1 DEF OneStarter
  <1>4. CASE UNCHANGED vars
    BY <1>4 DEF vars, OneStarter
  <1> QED
    BY <1>1, <1>2, <1>3, <1>4 DEF Next

LEMMA SerialStep ==
  ASSUME SerialStarts, TypeOK, SerialInv, [Next]_vars
  PROVE  SerialInv'
  <1>0. OneStarter'
    BY OneStarterStep DEF SerialInv
  <1> DEFINE Rest == /\ WriterHoldsLock
                     /\ WritesOwnLock
                     /\ ReplacesNoWriter
                     /\ ChecksTheWriter
                     /\ SecondTryWins
             Moves(p, to) ==
               \A q \in Pid : pc'[q] = IF q = p THEN to ELSE pc[q]
             Alone(p) == \A q \in Pid : pc[q] \in Acquiring => q = p
  <1> SUFFICES Rest'
    BY <1>0 DEF SerialInv
  <1> USE DEF SerialInv, OneStarter, WriterHoldsLock, WritesOwnLock,
              ReplacesNoWriter, ChecksTheWriter, SecondTryWins
  <1>1. ASSUME NEW p \in Pid, Start(p) PROVE Rest'
    BY <1>1 DEF Start, TypeOK, Acquiring
  <1>2. ASSUME NEW p \in Pid, TryCreate(p) PROVE Rest'
    <2>1. Alone(p)
      BY <1>2 DEF TryCreate, Create, Acquiring
    <2>2. CASE lock # NoLock
      <3>1. Moves(p, "read1") /\ UNCHANGED <<lock, holder>>
        BY <1>2, <2>2 DEF TryCreate, Create, TypeOK
      <3> QED
        BY <2>1, <3>1 DEF Acquiring
    <2>3. CASE lock = NoLock
      <3>1. /\ Moves(p, "write")
            /\ lock' = [by |-> p, written |-> FALSE]
            /\ UNCHANGED holder
        BY <1>2, <2>3 DEF TryCreate, Create, TypeOK
      <3>2. \A q \in Pid : pc[q] # "writer"
        BY <2>3, LockFacts
      <3> QED
        BY <2>1, <3>1, <3>2 DEF Acquiring
    <2> QED
      BY <2>2, <2>3
  <1>3. ASSUME NEW p \in Pid, WritePid(p) PROVE Rest'
    <2>1. Alone(p) /\ \A q \in Pid : pc[q] # "writer"
      BY <1>3 DEF WritePid, Acquiring
    <2>2. lock = [by |-> p, written |-> FALSE] /\ lock # NoLock
      BY <1>3, LockFacts DEF WritePid
    <2>3. lock' = [by |-> p, written |-> TRUE]
      <3>1. lock' = [lock EXCEPT !.written = TRUE]
        BY <1>3, <2>2, LockFacts DEF WritePid
      <3> QED
        BY <2>2, <3>1, Zenon
    <2>4. Moves(p, "writer") /\ UNCHANGED holder
      BY <1>3 DEF WritePid, TypeOK
    <2> QED
      BY <2>1, <2>3, <2>4 DEF Acquiring
  <1>4. ASSUME NEW p \in Pid, ReadHolder(p) PROVE Rest'
    <2>1. Alone(p)
      BY <1>4 DEF ReadHolder, Acquiring
    <2>2. \A q \in Pid : pc[q] = "writer" => HolderIn = q
      BY LockFacts DEF HolderIn
    <2>3. HolderIn \in Pid \union {NoPid} /\ NoPid \notin Pid
      BY PidAssumption DEF HolderIn, TypeOK, LockFile
    <2>4. /\ Moves(p, IF HolderIn = NoPid THEN "remove" ELSE "check")
          /\ holder'[p] = HolderIn
          /\ UNCHANGED lock
      BY <1>4 DEF ReadHolder, TypeOK
    <2> QED
      BY <2>1, <2>2, <2>3, <2>4 DEF Acquiring
  <1>5. ASSUME NEW p \in Pid, CheckHolder(p) PROVE Rest'
    BY <1>5 DEF CheckHolder, IsRunning, TypeOK, Acquiring
  <1>6. ASSUME NEW p \in Pid, RemoveStale(p) PROVE Rest'
    BY <1>6 DEF RemoveStale, TypeOK, Acquiring
  <1>7. ASSUME NEW p \in Pid, TryCreateAgain(p) PROVE Rest'
    BY <1>7 DEF TryCreateAgain, Create, TypeOK, Acquiring
  <1>8. ASSUME NEW p \in Pid, ReadWinner(p) PROVE Rest'
    BY <1>8 DEF ReadWinner
  <1>9. ASSUME NEW p \in Pid, Release(p) PROVE Rest'
    <2>1. Moves(p, "released") /\ UNCHANGED holder
      BY <1>9 DEF Release, TypeOK
    <2>2. CASE pc[p] = "reader"
      <3>1. UNCHANGED lock
        BY <1>9, <2>2 DEF Release
      <3> QED
        BY <2>1, <3>1
    <2>3. CASE pc[p] = "writer"
      <3>1. lock' = NoLock
        BY <1>9, <2>3 DEF Release
      <3>2. \A q \in Pid : pc[q] = "writer" => q = p
        BY <2>3
      <3>3. \A q \in Pid : pc[q] \notin {"remove", "open2", "write"}
        BY <2>3
      <3> QED
        BY <2>1, <3>1, <3>2, <3>3
    <2> QED
      BY <1>9, <2>2, <2>3 DEF Release
  <1>10. ASSUME NEW p \in Pid, End(p) PROVE Rest'
    BY <1>10 DEF End, TypeOK, Acquiring
  <1>11. ASSUME NEW p \in Pid, ForeignStart(p) PROVE Rest'
    BY <1>11 DEF ForeignStart, TypeOK, Acquiring
  <1>12. ASSUME NEW p \in Pid, ForeignEnd(p) PROVE Rest'
    BY <1>12 DEF ForeignEnd, TypeOK, Acquiring
  <1>13. CASE UNCHANGED vars
    BY <1>13 DEF vars
  <1> QED
    BY <1>1, <1>2, <1>3, <1>4, <1>5, <1>6, <1>7, <1>8, <1>9, <1>10, <1>11,
       <1>12, <1>13 DEF Next, AcquireStep

\* With starts that do not overlap, the lock on disk and the places of the
\* processes always agree: crashes, leftover locks and reused pids included.
THEOREM SerialInvariant ==
  ASSUME SerialStarts
  PROVE  Spec => []SerialInv
  <1>1. Init => TypeOK /\ SerialInv
    BY TypeInit, SerialInit
  <1>2. TypeOK /\ SerialInv /\ [Next]_vars => (TypeOK /\ SerialInv)'
    BY TypeStep, SerialStep
  <1> QED
    BY <1>1, <1>2, PTL DEF Spec

\* There is never a second writer, whatever the number of processes.
THEOREM SingleWriter ==
  ASSUME SerialStarts
  PROVE  Spec => []AtMostOneWriter
  <1>1. SerialInv => AtMostOneWriter
    BY LockFacts DEF SerialInv, WriterHoldsLock, AtMostOneWriter
  <1> QED
    BY <1>1, SerialInvariant, PTL

\* No other process ever takes the lock away from a writer that serves.
THEOREM LockKept ==
  ASSUME SerialStarts
  PROVE  Spec => []WriterHoldsLock
  <1>1. SerialInv => WriterHoldsLock
    BY DEF SerialInv
  <1> QED
    BY <1>1, SerialInvariant, PTL
-----------------------------------------------------------------------------
(***************************************************************************)
(* Pids that are not given away while they are written down.  Starts may   *)
(* overlap; what counts is who can have written the pid in the lock.       *)
(***************************************************************************)
Owners == {"off", "writer", "released"}

\* A lock with a pid in it, and a pid being checked, are those of a process that
\* had the lease: it has it still, has released it, or is gone.
ReclaimInv ==
  /\ lock # NoLock /\ lock.written => pc[lock.by] \in Owners
  /\ \A p \in Pid : pc[p] = "check" => holder[p] \in Pid /\ pc[holder[p]] \in Owners

LEMMA ReclaimInit == TypeOK /\ Init => ReclaimInv
  BY DEF Init, ReclaimInv, TypeOK, LockFile, Owners

\* Nobody is given a pid that is written down, so an owner stays one.
LEMMA OwnersStay ==
  ASSUME TypeOK, ~PidReuse, NEW p \in Pid,
         \/ Start(p) \/ AcquireStep(p) \/ Release(p) \/ End(p) \/ ForeignStart(p) \/ ForeignEnd(p),
         NEW q \in Pid, Recorded(q), pc[q] \in Owners
  PROVE  pc'[q] \in Owners
  BY DEF TypeOK, Start, AcquireStep, TryCreate, TryCreateAgain, Create, WritePid, ReadHolder,
         CheckHolder, RemoveStale, ReadWinner, Release, End, ForeignStart, ForeignEnd, Owners, Ours

LEMMA ReclaimStep == TypeOK /\ ~PidReuse /\ ReclaimInv /\ [Next]_vars => ReclaimInv'
  <1> SUFFICES ASSUME TypeOK, ~PidReuse, ReclaimInv, [Next]_vars PROVE ReclaimInv'
    OBVIOUS
  <1>1. CASE UNCHANGED vars
    BY <1>1 DEF vars, ReclaimInv
  <1>2. ASSUME NEW p \in Pid,
               \/ Start(p) \/ AcquireStep(p) \/ Release(p) \/ End(p)
               \/ ForeignStart(p) \/ ForeignEnd(p)
        PROVE  ReclaimInv'
    <2>1. ASSUME NEW q \in Pid, Recorded(q), pc[q] \in Owners PROVE pc'[q] \in Owners
      BY <1>2, <2>1, OwnersStay
    <2>2. lock' # NoLock /\ lock'.written =>
            \/ lock # NoLock /\ lock.written /\ lock'.by = lock.by /\ lock.by \in Pid
            \/ lock'.by = p /\ pc'[p] = "writer"
      BY <1>2, LockAssumption DEF TypeOK, LockFile, Start, AcquireStep, TryCreate, TryCreateAgain, Create,
         WritePid, ReadHolder, CheckHolder, RemoveStale, ReadWinner, Release, End,
         ForeignStart, ForeignEnd
    <2>3. lock' # NoLock /\ lock'.written => pc'[lock'.by] \in Owners
      BY <2>1, <2>2 DEF ReclaimInv, Recorded, Owners
    <2>4. ASSUME NEW q \in Pid, pc'[q] = "check"
          PROVE  \/ pc[q] = "check" /\ holder'[q] = holder[q]
                 \/ /\ lock # NoLock /\ lock.written /\ lock.by \in Pid
                    /\ holder'[q] = lock.by
      BY <1>2, <2>4, PidAssumption DEF TypeOK, LockFile, Start, AcquireStep, TryCreate, TryCreateAgain, Create,
         WritePid, ReadHolder, HolderIn, CheckHolder, RemoveStale, ReadWinner, Release, End,
         ForeignStart, ForeignEnd
    <2>5. ASSUME NEW q \in Pid, pc'[q] = "check"
          PROVE  holder'[q] \in Pid /\ pc'[holder'[q]] \in Owners
      BY <2>1, <2>4, <2>5 DEF ReclaimInv, Recorded
    <2> QED
      BY <2>3, <2>5 DEF ReclaimInv
  <1> QED
    BY <1>1, <1>2 DEF Next

\* UnownedLockReclaimed: a lock is only respected for another process that
\* acquired the lease and has not ended, however starts overlap, unless a pid
\* is given away while the lock has it.
THEOREM OwnerRespected ==
  ASSUME ~PidReuse
  PROVE  Spec => UnownedLockReclaimed
  <1> DEFINE Respects == \A p \in Pid : pc[p] = "check" /\ pc'[p] = "reader" =>
                           holder[p] # p /\ pc[holder[p]] \in {"writer", "released"}
  <1>1. TypeOK /\ ReclaimInv /\ [Next]_vars => [Respects]_vars
    <2> SUFFICES ASSUME TypeOK, ReclaimInv, Next, NEW p \in Pid, pc[p] = "check", pc'[p] = "reader"
                 PROVE  holder[p] # p /\ pc[holder[p]] \in {"writer", "released"}
      OBVIOUS
    <2>1. holder[p] \in Pid /\ pc[holder[p]] \in Owners
      BY DEF ReclaimInv
    <2>2. IsRunning(holder[p])
      BY DEF TypeOK, Next, Start, AcquireStep, TryCreate, TryCreateAgain, Create, WritePid, ReadHolder,
         CheckHolder, RemoveStale, ReadWinner, Release, End, ForeignStart, ForeignEnd
    <2> QED
      BY <2>1, <2>2 DEF IsRunning, Owners
  <1>2. TypeOK /\ ReclaimInv /\ [Next]_vars => ReclaimInv'
    BY ReclaimStep
  <1>3. Init => ReclaimInv
    BY TypeInit, ReclaimInit
  <1> QED
    BY TypeCorrect, <1>1, <1>2, <1>3, PTL DEF Spec, UnownedLockReclaimed
-----------------------------------------------------------------------------
(***************************************************************************)
(* The refinement of WriterRole.  Only WritePid grants the writer role and *)
(* only CheckHolder the reader role; Release and End take them back.       *)
(***************************************************************************)
LEMMA RolesInit == Init => Roles!Init
  BY DEF Init, Roles!Init, RoleOf, DefersTo

\* A step of p leaves the roles of the others alone, and with it the whole
\* mapping when the role of p does not change either.
LEMMA RolesStutter ==
  ASSUME \A p \in Pid : RoleOf(p)' = RoleOf(p) /\ DefersTo(p)' = DefersTo(p)
  PROVE  UNCHANGED Roles!roleVars
  BY DEF Roles!roleVars

\* What the abstract actions ask of the mapped state.
LEMMA RolesTake ==
  ASSUME NEW p \in Pid, RoleOf(p) = "none", RoleOf(p)' = "writer",
         \A q \in Pid : RoleOf(q) # "writer",
         \A q \in Pid \ {p} : RoleOf(q)' = RoleOf(q),
         \A q \in Pid : DefersTo(q)' = DefersTo(q)
  PROVE  Roles!Next
  BY DEF Roles!Next, Roles!TakeLease

LEMMA RolesDefer ==
  ASSUME NEW p \in Pid, NEW w \in Pid, RoleOf(p) = "none",
         RoleOf(p)' = "reader", DefersTo(p)' = w,
         \A q \in Pid \ {p} : RoleOf(q)' = RoleOf(q)
                             /\ DefersTo(q)' = DefersTo(q)
  PROVE  Roles!Next
  BY DEF Roles!Next, Roles!Defer

LEMMA RolesLeave ==
  ASSUME NEW p \in Pid, RoleOf(p) # "none", RoleOf(p)' = "none",
         DefersTo(p)' = NoPid,
         \A q \in Pid \ {p} : RoleOf(q)' = RoleOf(q)
                             /\ DefersTo(q)' = DefersTo(q)
  PROVE  Roles!Next
  BY DEF Roles!Next, Roles!Leave

\* Every step of the lease is a step of the roles, or changes none of them.
LEMMA RolesStep ==
  ASSUME SerialStarts, TypeOK, SerialInv, [Next]_vars
  PROVE  [Roles!Next]_(Roles!roleVars)
  <1> DEFINE Others(p) == \A q \in Pid \ {p} :
               pc'[q] = pc[q] /\ holder'[q] = holder[q]
             Same(p) == RoleOf(p)' = RoleOf(p) /\ DefersTo(p)' = DefersTo(p)
  <1>1. ASSUME NEW p \in Pid, Others(p)
        PROVE  \A q \in Pid \ {p} : Same(q)
    BY <1>1 DEF RoleOf, DefersTo
  <1>2. ASSUME NEW p \in Pid, Others(p), Same(p)
        PROVE  UNCHANGED Roles!roleVars
    BY <1>1, <1>2, RolesStutter
  <1>3. ASSUME NEW p \in Pid,
               Start(p) \/ TryCreate(p) \/ ReadHolder(p) \/ RemoveStale(p)
                 \/ TryCreateAgain(p) \/ ForeignStart(p) \/ ForeignEnd(p)
        PROVE  UNCHANGED Roles!roleVars
    <2>1. /\ Others(p)
          /\ pc[p] \notin {"writer", "reader"}
          /\ pc'[p] \notin {"writer", "reader"}
      BY <1>3 DEF Start, TryCreate, TryCreateAgain, Create, ReadHolder,
                  RemoveStale, ForeignStart, ForeignEnd, TypeOK
    <2> QED
      BY <1>2, <2>1 DEF RoleOf, DefersTo
  <1>4. ASSUME NEW p \in Pid, WritePid(p) PROVE Roles!Next
    <2>1. Others(p) /\ pc[p] = "write" /\ pc'[p] = "writer"
      BY <1>4 DEF WritePid, TypeOK
    <2>2. \A q \in Pid : RoleOf(q) # "writer"
      BY <2>1 DEF SerialInv, ReplacesNoWriter, RoleOf
    <2>3. \A q \in Pid : DefersTo(q)' = DefersTo(q)
      BY <2>1 DEF DefersTo
    <2> QED
      BY <1>1, <2>1, <2>2, <2>3, RolesTake DEF RoleOf
  <1>5. ASSUME NEW p \in Pid, CheckHolder(p)
        PROVE  Roles!Next \/ UNCHANGED Roles!roleVars
    <2>1. Others(p) /\ pc[p] = "check" /\ holder[p] \in Pid
      BY <1>5 DEF CheckHolder, TypeOK, SerialInv, ChecksTheWriter
    <2>2. CASE pc'[p] = "reader" /\ holder'[p] = holder[p]
      BY <1>1, <2>1, <2>2, RolesDefer DEF RoleOf, DefersTo
    <2>3. CASE pc'[p] = "remove"
      BY <1>2, <2>1, <2>3 DEF RoleOf, DefersTo
    <2> QED
      BY <1>5, <2>2, <2>3 DEF CheckHolder, TypeOK
  <1>6. ASSUME NEW p \in Pid, ReadWinner(p) PROVE FALSE
    BY <1>6 DEF ReadWinner, SerialInv, SecondTryWins
  <1>7. ASSUME NEW p \in Pid, Release(p) PROVE Roles!Next
    <2>1. Others(p) /\ pc[p] \in {"writer", "reader"} /\ pc'[p] = "released"
      BY <1>7 DEF Release, TypeOK
    <2> QED
      BY <1>1, <2>1, RolesLeave DEF RoleOf, DefersTo
  <1>8. ASSUME NEW p \in Pid, End(p)
        PROVE  Roles!Next \/ UNCHANGED Roles!roleVars
    <2>1. Others(p) /\ pc'[p] = "off"
      BY <1>8 DEF End, TypeOK
    <2>2. CASE pc[p] \in {"writer", "reader"}
      BY <1>1, <2>1, <2>2, RolesLeave DEF RoleOf, DefersTo
    <2>3. CASE pc[p] \notin {"writer", "reader"}
      BY <1>2, <2>1, <2>3 DEF RoleOf, DefersTo
    <2> QED
      BY <2>2, <2>3
  <1>9. CASE UNCHANGED vars
    BY <1>9, RolesStutter DEF vars, RoleOf, DefersTo
  <1> QED
    BY <1>3, <1>4, <1>5, <1>6, <1>7, <1>8, <1>9 DEF Next, AcquireStep

\* The lease files implement the roles: at most one writer at any time, and a
\* reader always has a process to delegate to.
THEOREM ImplementsRoles ==
  ASSUME SerialStarts
  PROVE  Spec => RolesSpec
  <1>1. TypeOK /\ SerialInv /\ [Next]_vars => [Roles!Next]_(Roles!roleVars)
    BY RolesStep
  <1> QED
    BY <1>1, RolesInit, TypeCorrect, SerialInvariant, PTL
    DEF Spec, RolesSpec, Roles!Spec

(***************************************************************************)
(* The servers, for any set of pids and starts that do not overlap.  The   *)
(* invariants of CacheLease carry over; ServerInv then ties the stages of  *)
(* a process to its role and to the table.                                 *)
(***************************************************************************)

LEMMA ServerTypeInit == ServerInit => ServerTypeOK
  <1> SUFFICES ASSUME ServerInit PROVE ServerTypeOK
    OBVIOUS
  <1>1. cache \in Caches
    <2>1. NoCache \in Caches
      BY DEF NoCache, Caches
    <2> QED
      BY <2>1 DEF ServerInit, Existing
  <1> QED
    BY TypeInit, <1>1 DEF ServerInit, ServerTypeOK, Stages

\* What the lease sees of the step of a server.
LEMMA LeaseStep == [ServerNext]_serverVars => [Next]_vars
  <1> SUFFICES ASSUME [ServerNext]_serverVars PROVE [Next]_vars
    OBVIOUS
  <1>1. ASSUME NEW p \in Pid,
               Launch(p) \/ Acquire(p) \/ RefuseAuth(p) \/ ReleaseLease(p)
                 \/ Exit(p) \/ Kill(p) \/ Foreign(p)
        PROVE  Next
    BY <1>1 DEF Launch, Acquire, RefuseAuth, ReleaseLease, Exit, Kill, Gone,
                Foreign, Next
  <1>2. ASSUME NEW p \in Pid,
               OpenReadOnly(p) \/ OpenFails(p) \/ Commits(p) \/ Serve(p)
                 \/ StartFails(p) \/ Interrupt(p) \/ LateTimers(p) \/ BeginWork(p) \/ EndWork(p) \/ EndLogin(p) \/ Shutdown(p)
                 \/ ShutdownAgain(p) \/ CloseFails(p) \/ CloseDatabase(p)
        PROVE  UNCHANGED vars
    BY <1>2 DEF OpenReadOnly, OpenFails, Commits, OpenFile, DropTable,
                ResetMarkers, CreateTables, CreateRest, SyncCommits, Serve,
                StartFails, Interrupt, LateTimers, BeginWork, EndWork, EndLogin, Shutdown, ShutdownAgain, CloseFails,
                CloseDatabase
  <1>3. CASE UNCHANGED serverVars
    BY <1>3 DEF serverVars
  <1> QED
    BY <1>1, <1>2, <1>3 DEF ServerNext, Stops

\* The types of what the server adds to the lease.
LEMMA ServerTypeStep ==
  ASSUME ServerTypeOK, [ServerNext]_serverVars
  PROVE  ServerTypeOK'
  <1>1. TypeOK'
    BY LeaseStep, TypeStep DEF ServerTypeOK
  <1> USE DEF ServerTypeOK, Stages, At
  <1>2. ASSUME NEW p \in Pid, Launch(p) \/ Acquire(p) \/ RefuseAuth(p)
                 \/ ReleaseLease(p) \/ Foreign(p)
        PROVE  ServerTypeOK'
    BY <1>1, <1>2 DEF Launch, Acquire, RefuseAuth, ReleaseLease, Foreign, local
  <1>3. ASSUME NEW p \in Pid, Exit(p) \/ Kill(p) PROVE ServerTypeOK'
    BY <1>1, <1>3 DEF Exit, Kill, Gone
  <1>4. ASSUME NEW p \in Pid, OpenReadOnly(p) PROVE ServerTypeOK'
    BY <1>1, <1>4 DEF OpenReadOnly
  <1>5. ASSUME NEW p \in Pid, OpenFails(p) PROVE ServerTypeOK'
    BY <1>1, <1>5 DEF OpenFails
  <1>6. ASSUME NEW p \in Pid, OpenFile(p) PROVE ServerTypeOK'
    BY <1>1, <1>6 DEF OpenFile, Caches
  <1>7. ASSUME NEW p \in Pid, DropTable(p) \/ ResetMarkers(p) PROVE ServerTypeOK'
    BY <1>1, <1>7 DEF DropTable, ResetMarkers, Caches
  <1>8. ASSUME NEW p \in Pid, CreateTables(p) \/ CreateRest(p) PROVE ServerTypeOK'
    BY <1>1, <1>8 DEF CreateTables, CreateRest, Caches
  <1>9. ASSUME NEW p \in Pid, SyncCommits(p) PROVE ServerTypeOK'
    <2>1. cache' \in Caches
      BY <1>9 DEF SyncCommits, Caches
    <2> QED
      BY <1>1, <1>9, <2>1 DEF SyncCommits, local
  <1>10. ASSUME NEW p \in Pid, Serve(p) \/ BeginWork(p) \/ EndWork(p) \/ EndLogin(p)
         PROVE  ServerTypeOK'
    BY <1>1, <1>10 DEF Serve, BeginWork, EndWork, EndLogin
  <1>13. ASSUME NEW p \in Pid, StartFails(p) \/ Interrupt(p) \/ LateTimers(p)
         PROVE  ServerTypeOK'
    <2>1. CASE StartFails(p)
      BY <1>1, <2>1 DEF StartFails
    <2>2. CASE Interrupt(p)
      <3>1. timers' \in [Pid -> {"none", "due", "on"}] /\ stage' \in [Pid -> Stages]
        BY <2>2 DEF Interrupt
      <3> QED
        BY <1>1, <2>2, <3>1 DEF Interrupt
    <2>3. CASE LateTimers(p)
      <3>1. timers' \in [Pid -> {"none", "due", "on"}]
        BY <2>3 DEF LateTimers
      <3> QED
        BY <1>1, <2>3, <3>1 DEF LateTimers
    <2> QED
      BY <1>13, <2>1, <2>2, <2>3
  <1>11. ASSUME NEW p \in Pid, Shutdown(p) \/ ShutdownAgain(p) \/ CloseFails(p)
                  \/ CloseDatabase(p)
         PROVE  ServerTypeOK'
    BY <1>1, <1>11 DEF Shutdown, ShutdownAgain, CloseFails, CloseDatabase
  <1>12. CASE UNCHANGED serverVars
    BY <1>1, <1>12 DEF serverVars, local
  <1> QED
    BY <1>2, <1>3, <1>4, <1>5, <1>6, <1>7, <1>8, <1>9, <1>10, <1>11, <1>12, <1>13
       DEF ServerNext, Commits, Stops

\* The types need no hypothesis about starts.
THEOREM ServerTypeCorrect == ServerSpec => []ServerTypeOK
  <1>1. ServerTypeOK /\ [ServerNext]_serverVars => ServerTypeOK'
    BY ServerTypeStep
  <1> QED
    BY ServerTypeInit, <1>1, PTL DEF ServerSpec
-----------------------------------------------------------------------------
(***************************************************************************)
(* The role behind every commit.  The lease never takes the writer role    *)
(* from a process but by its own release or its end.                       *)
(***************************************************************************)
LEMMA KeepsRole ==
  ASSUME TypeOK, NEW p \in Pid,
         Start(p) \/ AcquireStep(p) \/ ForeignStart(p) \/ ForeignEnd(p)
  PROVE  \A q \in Pid : pc[q] = "writer" => pc'[q] = "writer"
  BY DEF TypeOK, Start, AcquireStep, TryCreate, TryCreateAgain, Create, WritePid,
         ReadHolder, CheckHolder, RemoveStale, ReadWinner, ForeignStart, ForeignEnd

LEMMA WritesAsWriterStep ==
  ASSUME ServerTypeOK, WritesAsWriter, [ServerNext]_serverVars
  PROVE  WritesAsWriter'
  <1> USE DEF ServerTypeOK, WritesAsWriter, At
  <1>1. ASSUME NEW p \in Pid, Launch(p) \/ Acquire(p) \/ Foreign(p)
        PROVE  WritesAsWriter'
    <2>1. Start(p) \/ AcquireStep(p) \/ ForeignStart(p) \/ ForeignEnd(p)
      BY <1>1 DEF Launch, Acquire, Foreign
    <2>2. UNCHANGED <<stage, handle, work, timers>>
      BY <1>1 DEF Launch, Acquire, Foreign, local
    <2> QED
      BY <2>1, <2>2, KeepsRole
  <1>2. ASSUME NEW p \in Pid, RefuseAuth(p) \/ ReleaseLease(p)
        PROVE  WritesAsWriter'
    BY <1>2 DEF RefuseAuth, ReleaseLease, Release, TypeOK
  <1>3. ASSUME NEW p \in Pid, Exit(p) \/ Kill(p) PROVE WritesAsWriter'
    BY <1>3 DEF Exit, Kill, Gone, End, TypeOK
  <1>4. ASSUME NEW p \in Pid, OpenReadOnly(p) PROVE WritesAsWriter'
    BY <1>4 DEF OpenReadOnly, vars
  <1>5. ASSUME NEW p \in Pid, OpenFails(p) PROVE WritesAsWriter'
    BY <1>5 DEF OpenFails, vars
  <1>6. ASSUME NEW p \in Pid, OpenFile(p) PROVE WritesAsWriter'
    BY <1>6 DEF OpenFile, vars
  <1>7. ASSUME NEW p \in Pid, DropTable(p) \/ ResetMarkers(p) \/ CreateTables(p)
                 \/ CreateRest(p)
        PROVE  WritesAsWriter'
    BY <1>7 DEF DropTable, ResetMarkers, CreateTables, CreateRest, vars
  <1>8. ASSUME NEW p \in Pid, SyncCommits(p) \/ Serve(p) \/ ShutdownAgain(p)
        PROVE  WritesAsWriter'
    BY <1>8 DEF SyncCommits, Serve, ShutdownAgain, vars, local
  <1>9. ASSUME NEW p \in Pid, BeginWork(p) \/ EndWork(p) PROVE WritesAsWriter'
    BY <1>9 DEF BeginWork, EndWork, vars
  <1>10. ASSUME NEW p \in Pid, EndLogin(p) \/ Shutdown(p) \/ CloseFails(p)
         PROVE  WritesAsWriter'
    BY <1>10 DEF EndLogin, Shutdown, CloseFails, vars
  <1>11. ASSUME NEW p \in Pid, CloseDatabase(p) PROVE WritesAsWriter'
    BY <1>11 DEF CloseDatabase, vars
  <1>12. CASE UNCHANGED serverVars
    BY <1>12 DEF serverVars, vars, local
  <1>13. ASSUME NEW p \in Pid, StartFails(p) \/ Interrupt(p) \/ LateTimers(p)
         PROVE  WritesAsWriter'
    BY <1>13 DEF StartFails, Interrupt, LateTimers, vars
  <1> QED
    BY <1>1, <1>2, <1>3, <1>4, <1>5, <1>6, <1>7, <1>8, <1>9, <1>10, <1>11, <1>12, <1>13
       DEF ServerNext, Commits, Stops

\* Only one process can be dropping the table, and none serves meanwhile.
LEMMA MigratedBeforeStep ==
  ASSUME ServerTypeOK, WritesAsWriter, AtMostOneWriter, MigratedBefore,
         [ServerNext]_serverVars
  PROVE  MigratedBefore'
  <1> USE DEF ServerTypeOK, MigratedBefore, At
  <1>1. ASSUME NEW p \in Pid, Launch(p) \/ Acquire(p) \/ Foreign(p)
                 \/ BeginWork(p) \/ EndWork(p) \/ ShutdownAgain(p) \/ LateTimers(p)
        PROVE  MigratedBefore'
    BY <1>1 DEF Launch, Acquire, Foreign, BeginWork, EndWork, ShutdownAgain, LateTimers,
                local
  <1>2. ASSUME NEW p \in Pid, RefuseAuth(p) \/ ReleaseLease(p) \/ EndLogin(p)
                 \/ Shutdown(p) \/ CloseFails(p) \/ CloseDatabase(p)
                 \/ StartFails(p) \/ Interrupt(p)
        PROVE  MigratedBefore'
    BY <1>2 DEF RefuseAuth, ReleaseLease, EndLogin, Shutdown, CloseFails,
                CloseDatabase, StartFails, Interrupt
  <1>3. ASSUME NEW p \in Pid, Exit(p) \/ Kill(p) PROVE MigratedBefore'
    BY <1>3 DEF Exit, Kill, Gone
  <1>4. ASSUME NEW p \in Pid, OpenReadOnly(p) PROVE MigratedBefore'
    BY <1>4 DEF OpenReadOnly, Readable
  <1>5. ASSUME NEW p \in Pid, OpenFails(p) \/ Serve(p) PROVE MigratedBefore'
    BY <1>5 DEF OpenFails, Serve
  <1>6. ASSUME NEW p \in Pid, OpenFile(p) PROVE MigratedBefore'
    BY <1>6 DEF OpenFile, Caches
  <1>7. ASSUME NEW p \in Pid, DropTable(p) PROVE MigratedBefore'
    <2>1. cache.table = "old" /\ cache'.table = "none"
      BY <1>7 DEF DropTable, Caches
    <2>2. \A q \in Pid \ {p} : stage[q] # "drop"
      BY <1>7 DEF DropTable, WritesAsWriter, AtMostOneWriter
    <2> QED
      BY <1>7, <2>1, <2>2 DEF DropTable
  <1>8. ASSUME NEW p \in Pid, ResetMarkers(p) PROVE MigratedBefore'
    BY <1>8 DEF ResetMarkers, Caches
  <1>9. ASSUME NEW p \in Pid, CreateTables(p) \/ CreateRest(p) PROVE MigratedBefore'
    BY <1>9 DEF CreateTables, CreateRest, Caches
  <1>10. ASSUME NEW p \in Pid, SyncCommits(p) PROVE MigratedBefore'
    BY <1>10 DEF SyncCommits, Caches, local
  <1>11. CASE UNCHANGED serverVars
    BY <1>11 DEF serverVars, local
  <1> QED
    BY <1>1, <1>2, <1>3, <1>4, <1>5, <1>6, <1>7, <1>8, <1>9, <1>10, <1>11
       DEF ServerNext, Commits, Stops

LEMMA OneWriterOf == SerialInv => AtMostOneWriter
  BY LockFacts DEF SerialInv, WriterHoldsLock, AtMostOneWriter

LEMMA ServerInvInit == ServerInit => SerialInv /\ ServerInv
  BY SerialInit DEF ServerInit, ServerInv, WritesAsWriter, MigratedBefore

LEMMA ServerInvStep ==
  ASSUME SerialStarts, ServerTypeOK, SerialInv, ServerInv, [ServerNext]_serverVars
  PROVE  SerialInv' /\ ServerInv'
  <1>1. SerialInv'
    BY LeaseStep, SerialStep DEF ServerTypeOK
  <1>2. ServerInv'
    BY OneWriterOf, WritesAsWriterStep, MigratedBeforeStep DEF ServerInv
  <1> QED
    BY <1>1, <1>2

\* Roles, stages and the table agree in every state of every number of servers
\* and auth commands.
THEOREM ServerInvariant ==
  ASSUME SerialStarts
  PROVE  ServerSpec => [](ServerTypeOK /\ SerialInv /\ ServerInv)
  <1>1. ServerInit => ServerTypeOK /\ SerialInv /\ ServerInv
    BY ServerTypeInit, ServerInvInit
  <1>2. ServerTypeOK /\ SerialInv /\ ServerInv /\ [ServerNext]_serverVars
          => (ServerTypeOK /\ SerialInv /\ ServerInv)'
    BY ServerTypeStep, ServerInvStep
  <1> QED
    BY <1>1, <1>2, PTL DEF ServerSpec

\* No process serves a cache whose table has another schema, or none.
THEOREM ServedCurrent ==
  ASSUME SerialStarts
  PROVE  ServerSpec => []ServedCacheIsCurrent
  <1>1. ServerInv => ServedCacheIsCurrent
    BY DEF ServerInv, MigratedBefore, ServedCacheIsCurrent
  <1> QED
    BY <1>1, ServerInvariant, PTL

LEMMA CommitterIsWriter ==
  ASSUME ServerTypeOK, ServerInv, NEW p \in Pid, Commits(p)
  PROVE  pc[p] = "writer"
  <1> USE DEF ServerInv, WritesAsWriter, At
  <1>1. CASE OpenFile(p)
    BY <1>1 DEF OpenFile
  <1>2. CASE DropTable(p) \/ ResetMarkers(p) \/ CreateTables(p) \/ CreateRest(p)
    BY <1>2 DEF DropTable, ResetMarkers, CreateTables, CreateRest
  <1>3. CASE SyncCommits(p)
    BY <1>3 DEF SyncCommits
  <1> QED
    BY <1>1, <1>2, <1>3 DEF Commits

\* Nothing is committed to the cache but by the process whose lock is on disk:
\* not by a migration, not by a sync that a shutdown has overtaken.
THEOREM LeasedCommits ==
  ASSUME SerialStarts
  PROVE  ServerSpec => CommitsUnderLease
  <1> DEFINE Leased == \A p \in Pid : Commits(p) => lock = [by |-> p, written |-> TRUE]
  <1>1. ServerTypeOK /\ SerialInv /\ ServerInv => Leased
    BY CommitterIsWriter DEF SerialInv, WriterHoldsLock
  <1>2. CommitsUnderLease <=> [][Leased]_serverVars
    BY DEF CommitsUnderLease
  <1> HIDE DEF Leased
  <1> QED
    BY <1>1, <1>2, ServerInvariant, PTL
=============================================================================
