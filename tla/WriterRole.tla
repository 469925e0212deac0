----------------------------- MODULE WriterRole -----------------------------
(***************************************************************************)
(* What CacheLease promises to the programs that call acquire: processes   *)
(* take the role of writer or reader, there is never a second writer, and  *)
(* a reader always knows a process to delegate to.  Nothing is said here   *)
(* of lock files.                                                          *)
(***************************************************************************)
CONSTANTS Pid,      \* process identifiers of the operating system
          NoPid     \* no process

VARIABLES role,     \* role[p]: the role process p plays against the cache
          defersTo  \* defersTo[p]: the process reader p took for the writer

roleVars == <<role, defersTo>>

Roles == {"none", "writer", "reader"}

Init == /\ role = [p \in Pid |-> "none"]
        /\ defersTo = [p \in Pid |-> NoPid]

\* p takes the lease: nobody else may have it.
TakeLease(p) ==
  /\ role[p] = "none"
  /\ \A q \in Pid : role[q] # "writer"
  /\ role' = [role EXCEPT ![p] = "writer"]
  /\ UNCHANGED defersTo

\* p is told to read only, and which process q is in its way.
Defer(p, q) ==
  /\ role[p] = "none"
  /\ role' = [role EXCEPT ![p] = "reader"]
  /\ defersTo' = [defersTo EXCEPT ![p] = q]

\* p ends, cleanly or not.
Leave(p) ==
  /\ role[p] # "none"
  /\ role' = [role EXCEPT ![p] = "none"]
  /\ defersTo' = [defersTo EXCEPT ![p] = NoPid]

Next == \E p \in Pid : \/ TakeLease(p)
                       \/ \E q \in Pid : Defer(p, q)
                       \/ Leave(p)

Spec == Init /\ [][Next]_roleVars
=============================================================================
