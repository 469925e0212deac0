------------------------ MODULE MCRefreshCoordinator ------------------------
(***************************************************************************)
(* Small instances of RefreshCoordinator.  Coalescing needs two requests   *)
(* of one kind from two processes; serving one group after another needs   *)
(* two kinds.                                                              *)
(***************************************************************************)
EXTENDS RefreshCoordinator, TLC

CONSTANTS r1, r2, c1, c2, k1, k2

MCReq == {r1, r2}
MCReader == {c1, c2}
OneReader == {c1}
OneKind == {k1}
TwoKinds == {k1, k2}

PerProcess == r1 :> c1 @@ r2 :> c2
OneProcess == r1 :> c1 @@ r2 :> c1
SameKind == [r \in MCReq |-> k1]
PerKind == r1 :> k1 @@ r2 :> k2
=============================================================================
