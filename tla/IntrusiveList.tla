--------------------------- MODULE IntrusiveList ---------------------------
(***************************************************************************)
(* The intrusive doubly linked list of Chino OS at the level of its        *)
(* pointers (src/include/sdk/chino/intrusive_list.h), which holds threads, *)
(* devices, I/O requests, completion blocks and directory entries.  Each   *)
(* list has a dummy node, named by the list itself.  All its users call it *)
(* with interrupts disabled or under a lock: an operation is one action.   *)
(***************************************************************************)
EXTENDS Lists

CONSTANTS Nodes,     \* intrusive_list_node members of the objects
          Heads,     \* the lists: dummy_ of each intrusive_list_storage
          Null       \* nullptr

ASSUME IntrusiveListAssumption ==
    Nodes \cap Heads = {} /\ Null \notin Nodes \cup Heads

VARIABLES prev, next, size

vars == <<prev, next, size>>

Init ==
    /\ prev = [n \in Nodes \cup Heads |-> IF n \in Heads THEN n ELSE Null]
    /\ next = [n \in Nodes \cup Heads |-> IF n \in Heads THEN n ELSE Null]
    /\ size = [l \in Heads |-> 0]

InList(n) == prev[n] # Null

(***************************************************************************)
(* Walking a list the way front() and next() do.                           *)
(***************************************************************************)
Walk(l) ==
    LET step[i \in 0..size[l]] == IF i = 0 THEN l ELSE next[step[i - 1]]
    IN  [i \in 1..size[l] |-> step[i]]

Members(l) == {Walk(l)[i] : i \in 1..size[l]}

MemberOf(l, n) == InList(n) /\ n \in Members(l)

FrontOf(l) == IF next[l] # l THEN next[l] ELSE Null

BackOf(l) == IF prev[l] # l THEN prev[l] ELSE Null

NextOf(l, n) == IF next[n] # l THEN next[n] ELSE Null

PrevOf(l, n) == IF prev[n] # l THEN prev[n] ELSE Null

(***************************************************************************)
(* The operations, each with what its callers guarantee: a node that is    *)
(* inserted is in no list, and a pivot or a node that is removed is in     *)
(* this one.                                                               *)
(***************************************************************************)
\* Fault: the pivot's link is redirected before its neighbour is reached through it.
InsertAfterFault(l, pivot, n) ==
    /\ next' = [next EXCEPT ![n] = next[pivot], ![pivot] = n]
    /\ prev' = [prev EXCEPT ![n] = n]
    /\ size' = [size EXCEPT ![l] = @ + 1]

InsertAfter(l, pivot, n) ==
    /\ next' = [next EXCEPT ![n] = next[pivot], ![pivot] = n]
    /\ prev' = [prev EXCEPT ![n] = pivot, ![next[pivot]] = n]
    /\ size' = [size EXCEPT ![l] = @ + 1]

InsertBefore(l, pivot, n) ==
    /\ prev' = [prev EXCEPT ![n] = prev[pivot], ![pivot] = n]
    /\ next' = [next EXCEPT ![n] = pivot, ![prev[pivot]] = n]
    /\ size' = [size EXCEPT ![l] = @ + 1]

\* Faults: the node keeps its links; the count is left.
UnlinkStaleFault(l, n) ==
    /\ prev' = [prev EXCEPT ![next[n]] = prev[n]]
    /\ next' = [next EXCEPT ![prev[n]] = next[n]]
    /\ size' = [size EXCEPT ![l] = @ - 1]

UnlinkCountFault(l, n) ==
    /\ prev' = [prev EXCEPT ![next[n]] = prev[n], ![n] = Null]
    /\ next' = [next EXCEPT ![prev[n]] = next[n], ![n] = Null]
    /\ UNCHANGED size

Unlink(l, n) ==
    /\ prev' = [prev EXCEPT ![next[n]] = prev[n], ![n] = Null]
    /\ next' = [next EXCEPT ![prev[n]] = next[n], ![n] = Null]
    /\ size' = [size EXCEPT ![l] = @ - 1]

PushFront(l, n) == ~InList(n) /\ InsertAfter(l, l, n)

\* Fault: at the other end.
PushBackFault(l, n) == ~InList(n) /\ InsertAfter(l, l, n)

PushBack(l, n) == ~InList(n) /\ InsertBefore(l, l, n)

InsertAfterPivot(l, pivot, n) ==
    ~InList(n) /\ MemberOf(l, pivot) /\ InsertAfter(l, pivot, n)

InsertBeforePivot(l, pivot, n) ==
    ~InList(n) /\ MemberOf(l, pivot) /\ InsertBefore(l, pivot, n)

RemoveMember(l, n) == MemberOf(l, n) /\ Unlink(l, n)

Next == \E l \in Heads, n \in Nodes :
    \/ PushFront(l, n)
    \/ PushBack(l, n)
    \/ RemoveMember(l, n)
    \/ \E pivot \in Nodes : InsertAfterPivot(l, pivot, n) \/ InsertBeforePivot(l, pivot, n)

Spec == Init /\ [][Next]_vars

(***************************************************************************)
(* Properties                                                              *)
(***************************************************************************)
All == Nodes \cup Heads

\* The links are pointers to nodes, and a node has both or none.
TypeOK ==
    /\ prev \in [All -> All \cup {Null}]
    /\ next \in [All -> All \cup {Null}]
    /\ size \in [Heads -> Nat]
    /\ \A n \in All : prev[n] = Null <=> next[n] = Null

\* Whatever insertions and removals came before, following next and then prev
\* (or the other way round) leads back: no list is ever cut or entered halfway.
LinksMirror ==
    \A n \in All : InList(n) =>
        /\ next[n] \in All /\ prev[next[n]] = n
        /\ prev[n] \in All /\ next[prev[n]] = n

\* The inductive invariant of the links: the mirror, and heads that never leave
\* their own ring.
ListInv == TypeOK /\ LinksMirror /\ \A l \in Heads : InList(l)

\* in_list() is true of exactly the nodes some list reaches, and no node is
\* reached twice or from two lists.
InListMeansMember ==
    /\ \A n \in Nodes : InList(n) <=> \E l \in Heads : n \in Members(l)
    /\ \A l \in Heads : Distinct(Walk(l)) /\ next[IF size[l] = 0 THEN l ELSE Walk(l)[size[l]]] = l
    /\ \A l, m \in Heads : l # m => Members(l) \cap Members(m) = {}

\* front(), back(), next() and prev() answer as for the sequence, null at its
\* ends.
EndsAgree ==
    \A l \in Heads :
        LET s == Walk(l) IN
        /\ FrontOf(l) = IF s = << >> THEN Null ELSE Head(s)
        /\ BackOf(l) = IF s = << >> THEN Null ELSE s[Len(s)]
        /\ \A i \in DOMAIN s :
             /\ NextOf(l, s[i]) = IF i = Len(s) THEN Null ELSE s[i + 1]
             /\ PrevOf(l, s[i]) = IF i = 1 THEN Null ELSE s[i - 1]

\* What the other components ask of a list is answered from the links as it
\* would be from the sequence: in_list(), which register_device_process_io
\* trusts before it inserts a node, and the ends and neighbours the
\* scheduler's loops walk by.
QueriesAgree == InListMeansMember /\ EndsAgree

\* Each operation puts the node where its name says and disturbs no other
\* place, in this list or in another.
OperationsPlace ==
    [][\A l \in Heads, n \in Nodes :
         LET s == Walk(l)
             Becomes(r) == \A m \in Heads : Walk(m)' = IF m = l THEN r ELSE Walk(m) IN
         /\ PushFront(l, n) => Becomes(<<n>> \o s)
         /\ PushBack(l, n) => Becomes(Append(s, n))
         /\ RemoveMember(l, n) => Becomes(Without(s, n))
         /\ \A pivot \in Nodes :
              /\ InsertAfterPivot(l, pivot, n) => Becomes(InsertAt(s, Pos(s, pivot) + 1, n))
              /\ InsertBeforePivot(l, pivot, n) => Becomes(InsertAt(s, Pos(s, pivot), n))]_vars

\* The pointer structure behaves like the sequences of ListSpec.
AsSequences == INSTANCE ListSpec WITH contents <- [l \in Heads |-> Walk(l)]

ImplementsSequences == AsSequences!AbsSpec

=============================================================================
