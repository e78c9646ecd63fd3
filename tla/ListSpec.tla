------------------------------ MODULE ListSpec ------------------------------
(***************************************************************************)
(* What the users of intrusive_list rely on: each list is a sequence, and  *)
(* a node is in at most one place of at most one list.                     *)
(***************************************************************************)
EXTENDS Lists

CONSTANTS Nodes, Heads

VARIABLE contents      \* the sequence each list holds

AbsInit == contents = [l \in Heads |-> << >>]

Loose(n) == \A l \in Heads : n \notin ToSet(contents[l])

InsertNode(l, n) ==
    /\ Loose(n)
    /\ \E i \in 1..(Len(contents[l]) + 1) :
           contents' = [contents EXCEPT ![l] = InsertAt(@, i, n)]

RemoveNode(l, n) ==
    /\ n \in ToSet(contents[l])
    /\ contents' = [contents EXCEPT ![l] = Without(@, n)]

AbsNext == \E l \in Heads, n \in Nodes : InsertNode(l, n) \/ RemoveNode(l, n)

AbsSpec == AbsInit /\ [][AbsNext]_contents

=============================================================================
