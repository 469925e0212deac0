---------------------------- MODULE MCCacheLease ----------------------------
(***************************************************************************)
(* Small instances of CacheLease: three pids, so that one process starts   *)
(* while a second one is acquiring and a third one serves or has died.     *)
(***************************************************************************)
EXTENDS CacheLease

CONSTANTS p1, p2, p3

MCPid == {p1, p2, p3}
=============================================================================
