------------------------------- MODULE Lists -------------------------------
(***************************************************************************)
(* Sequences used as the kernel's intrusive lists                          *)
(* (src/include/sdk/chino/intrusive_list.h): an element occurs in a list   *)
(* at most once, and is removed by itself rather than by its position.     *)
(***************************************************************************)
EXTENDS Integers, SequencesExt

Distinct(list) == \A i, j \in DOMAIN list : list[i] = list[j] => i = j

Pos(list, e) == CHOOSE i \in DOMAIN list : list[i] = e

Without(list, e) == RemoveAt(list, Pos(list, e))

=============================================================================
