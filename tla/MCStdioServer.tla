--------------------------- MODULE MCStdioServer ---------------------------
(***************************************************************************)
(* Two pids: one process serves, stops or has died, or is another program, *)
(* and one starts next to it or after it.                                  *)
(***************************************************************************)
EXTENDS StdioServer

CONSTANTS p1, p2

MCPid == {p1, p2}
=============================================================================
