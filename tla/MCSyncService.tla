--------------------------- MODULE MCSyncService ---------------------------
(***************************************************************************)
(* A small instance of SyncService: two rows are enough for a page to be   *)
(* fetched before, and another after, the change of a row.                 *)
(***************************************************************************)
EXTENDS SyncService

CONSTANTS t1, t2

MCRow == {t1, t2}
=============================================================================
