-------------------------- MODULE MCIntrusiveList --------------------------
(***************************************************************************)
(* Two lists and four nodes: every insertion position, every removal and   *)
(* every move of a node from one list to the other.                        *)
(***************************************************************************)
EXTENDS IntrusiveList

MCNodes == {"n1", "n2", "n3", "n4"}

MCHeads == {"ready", "blocked"}

=============================================================================
