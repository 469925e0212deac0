------------------------- MODULE MCCollectionSync -------------------------
(***************************************************************************)
(* A small instance of CollectionSync: one collection of each kind, and    *)
(* two items, one listed before and one after a change.                    *)
(***************************************************************************)
EXTENDS CollectionSync

CONSTANTS accounts, categories, x1, x2

MCColl == {accounts, categories}
MCReplaced == {accounts}
MCItem == {x1, x2}
=============================================================================
