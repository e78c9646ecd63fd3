------------------------ MODULE IntrusiveListProofs ------------------------
(***************************************************************************)
(* The link structure of intrusive_list, for any set of nodes and lists:   *)
(* insertion and removal keep next and prev mirror images of each other.   *)
(***************************************************************************)
EXTENDS IntrusiveList, CommonTheorems

USE IntrusiveListAssumption

\* What insert_after and insert_before have in common: node n is put between
\* a and its successor b.
LinkBetween(l, a, b, n) ==
    /\ next' = [next EXCEPT ![n] = b, ![a] = n]
    /\ prev' = [prev EXCEPT ![n] = a, ![b] = n]
    /\ size' = [size EXCEPT ![l] = @ + 1]

\* Putting a loose node between two neighbours keeps the links mirrored.
LEMMA LinkInv ==
    ASSUME ListInv, NEW l \in Heads, NEW n \in Nodes, NEW a \in All, NEW b \in All,
           ~InList(n), InList(a), next[a] = b, prev[b] = a, LinkBetween(l, a, b, n)
    PROVE  ListInv'
<1> USE DEF All
<1>0. /\ prev \in [All -> All \cup {Null}] /\ next \in [All -> All \cup {Null}]
      /\ size \in [Heads -> Nat]
      /\ \A m \in All : prev[m] = Null <=> next[m] = Null
      /\ \A m \in All : prev[m] # Null =>
           /\ next[m] \in All /\ prev[next[m]] = m
           /\ prev[m] \in All /\ next[prev[m]] = m
      /\ \A m \in Heads : prev[m] # Null
  BY DEF ListInv, TypeOK, LinksMirror, InList
<1>1. n # a /\ n # b /\ n \in All /\ prev[n] = Null /\ prev[a] # Null /\ prev[b] # Null
  BY <1>0 DEF InList
<1>2. /\ next' \in [All -> All \cup {Null}]
      /\ \A m \in All : next'[m] = IF m = a THEN n ELSE IF m = n THEN b ELSE next[m]
  BY <1>0, <1>1 DEF LinkBetween
<1>3. /\ prev' \in [All -> All \cup {Null}]
      /\ \A m \in All : prev'[m] = IF m = b THEN n ELSE IF m = n THEN a ELSE prev[m]
  BY <1>0, <1>1 DEF LinkBetween
<1>4. size' \in [Heads -> Nat]
  BY <1>0 DEF LinkBetween
<1>5. TypeOK'
  BY <1>0, <1>1, <1>2, <1>3, <1>4 DEF TypeOK
<1>6. ASSUME NEW m \in All, prev'[m] # Null
      PROVE  /\ next'[m] \in All /\ prev'[next'[m]] = m
             /\ prev'[m] \in All /\ next'[prev'[m]] = m
  <2>1. CASE m = n
    BY <1>1, <1>2, <1>3, <2>1
  <2>2. CASE m # n
    <3>1. prev[m] # Null
      BY <1>1, <1>3, <1>6, <2>2
    <3>2. /\ next[m] \in All /\ prev[next[m]] = m /\ next[m] # n
          /\ prev[m] \in All /\ next[prev[m]] = m /\ prev[m] # n
      BY <1>0, <1>1, <3>1
    <3>3. next'[m] \in All /\ prev'[next'[m]] = m
      BY <1>0, <1>1, <1>2, <1>3, <2>2, <3>2
    <3>4. prev'[m] \in All /\ next'[prev'[m]] = m
      BY <1>0, <1>1, <1>2, <1>3, <2>2, <3>2
    <3> QED
      BY <3>3, <3>4
  <2> QED
    BY <2>1, <2>2
<1>7. \A m \in Heads : prev'[m] # Null
  BY <1>0, <1>1, <1>3
<1> QED
  BY <1>5, <1>6, <1>7 DEF ListInv, LinksMirror, InList

\* remove() joins the two neighbours and leaves the node with no links.
LEMMA UnlinkInv ==
    ASSUME ListInv, NEW l \in Heads, NEW n \in Nodes, RemoveMember(l, n)
    PROVE  ListInv'
<1> USE DEF All
<1> DEFINE a == prev[n]
           b == next[n]
<1>0. /\ prev \in [All -> All \cup {Null}] /\ next \in [All -> All \cup {Null}]
      /\ size \in [Heads -> Nat]
      /\ \A m \in All : prev[m] = Null <=> next[m] = Null
      /\ \A m \in All : prev[m] # Null =>
           /\ next[m] \in All /\ prev[next[m]] = m
           /\ prev[m] \in All /\ next[prev[m]] = m
      /\ \A m \in Heads : prev[m] # Null
  BY DEF ListInv, TypeOK, LinksMirror, InList
<1>1. prev[n] # Null /\ n \in All /\ n \in Members(l)
  BY DEF RemoveMember, MemberOf, InList
<1>2. a \in All /\ b \in All /\ next[a] = n /\ prev[b] = n
  BY <1>0, <1>1
<1> HIDE DEF a, b
<1>3. /\ a = prev[n] /\ b = next[n]
      /\ prev' = [prev EXCEPT ![b] = a, ![n] = Null]
      /\ next' = [next EXCEPT ![a] = b, ![n] = Null]
      /\ size' = [size EXCEPT ![l] = @ - 1]
  BY DEF RemoveMember, Unlink, a, b
<1>4. /\ next' \in [All -> All \cup {Null}]
      /\ \A m \in All : next'[m] = IF m = n THEN Null ELSE IF m = a THEN b ELSE next[m]
  BY <1>0, <1>1, <1>2, <1>3
<1>5. /\ prev' \in [All -> All \cup {Null}]
      /\ \A m \in All : prev'[m] = IF m = n THEN Null ELSE IF m = b THEN a ELSE prev[m]
  BY <1>0, <1>1, <1>2, <1>3
<1>6. size' \in [Heads -> Nat]
  <2>1. PICK i \in 1..size[l] : TRUE
    BY <1>1 DEF Members
  <2>2. size[l] - 1 \in Nat
    BY <1>0, <2>1
  <2> QED
    BY <1>0, <1>3, <2>2
<1>7. TypeOK'
  BY <1>0, <1>1, <1>2, <1>4, <1>5, <1>6 DEF TypeOK
<1>8. ASSUME NEW m \in All, prev'[m] # Null
      PROVE  /\ next'[m] \in All /\ prev'[next'[m]] = m
             /\ prev'[m] \in All /\ next'[prev'[m]] = m
  <2>1. m # n /\ prev[m] # Null
    BY <1>0, <1>1, <1>2, <1>5, <1>8
  <2>2. /\ next[m] \in All /\ prev[next[m]] = m
        /\ prev[m] \in All /\ next[prev[m]] = m
    BY <1>0, <2>1
  <2>3. next'[m] \in All /\ prev'[next'[m]] = m
    <3>1. CASE m = a
      <4>1. b # n
        BY <1>2, <1>3, <2>1, <3>1
      <4> QED
        BY <1>2, <1>4, <1>5, <2>1, <3>1, <4>1
    <3>2. CASE m # a
      <4>1. next[m] # n /\ next[m] # b
        BY <1>2, <1>3, <2>1, <2>2, <3>2
      <4> QED
        BY <1>4, <1>5, <2>1, <2>2, <3>2, <4>1
    <3> QED
      BY <3>1, <3>2
  <2>4. prev'[m] \in All /\ next'[prev'[m]] = m
    <3>1. CASE m = b
      <4>1. a # n
        BY <1>2, <1>3, <2>1, <3>1
      <4> QED
        BY <1>2, <1>4, <1>5, <2>1, <3>1, <4>1
    <3>2. CASE m # b
      <4>1. prev[m] # n /\ prev[m] # a
        BY <1>2, <1>3, <2>1, <2>2, <3>2
      <4> QED
        BY <1>4, <1>5, <2>1, <2>2, <3>2, <4>1
    <3> QED
      BY <3>1, <3>2
  <2> QED
    BY <2>3, <2>4
<1>9. \A m \in Heads : prev'[m] # Null
  BY <1>0, <1>2, <1>5
<1> QED
  BY <1>7, <1>8, <1>9 DEF ListInv, LinksMirror, InList

\* insert_after and insert_before both link the node between two neighbours.
LEMMA InsertInv ==
    ASSUME ListInv, NEW l \in Heads, NEW n \in Nodes, NEW p \in All,
           ~InList(n), InList(p), InsertAfter(l, p, n) \/ InsertBefore(l, p, n)
    PROVE  ListInv'
<1>1. p \in All /\ next[p] \in All /\ prev[p] \in All
      /\ prev[next[p]] = p /\ next[prev[p]] = p
  BY DEF ListInv, LinksMirror
<1>2. CASE InsertAfter(l, p, n)
  <2>1. LinkBetween(l, p, next[p], n)
    BY <1>2 DEF InsertAfter, LinkBetween
  <2> QED
    BY <1>1, <2>1, LinkInv
<1>3. CASE InsertBefore(l, p, n)
  <2>1. LinkBetween(l, prev[p], p, n)
    BY <1>3 DEF InsertBefore, LinkBetween
  <2>2. InList(prev[p])
    <3>1. next[p] # Null /\ p # Null
      BY <1>1 DEF All
    <3> QED
      BY <1>1, <3>1 DEF ListInv, TypeOK, InList
  <2> QED
    BY <1>1, <2>1, <2>2, LinkInv
<1> QED
  BY <1>2, <1>3

\* The empty lists point to themselves.
LEMMA InitListInv == Init => ListInv
BY DEF Init, ListInv, TypeOK, LinksMirror, InList, All

\* Every operation of intrusive_list_storage preserves the invariant.
LEMMA NextListInv == ListInv /\ [Next]_vars => ListInv'
<1> SUFFICES ASSUME ListInv, [Next]_vars PROVE ListInv'
  OBVIOUS
<1>1. CASE UNCHANGED vars
  BY <1>1 DEF vars, ListInv, TypeOK, LinksMirror, InList
<1>2. ASSUME NEW l \in Heads, NEW n \in Nodes,
             \/ PushFront(l, n)
             \/ PushBack(l, n)
             \/ RemoveMember(l, n)
             \/ \E pivot \in Nodes :
                  InsertAfterPivot(l, pivot, n) \/ InsertBeforePivot(l, pivot, n)
      PROVE  ListInv'
  <2>0. l \in All /\ InList(l) /\ Nodes \subseteq All
    BY DEF ListInv, All
  <2>1. CASE PushFront(l, n)
    BY <2>0, <2>1, InsertInv DEF PushFront
  <2>2. CASE PushBack(l, n)
    BY <2>0, <2>2, InsertInv DEF PushBack
  <2>3. CASE RemoveMember(l, n)
    BY <2>3, UnlinkInv
  <2>4. ASSUME NEW pivot \in Nodes,
               InsertAfterPivot(l, pivot, n) \/ InsertBeforePivot(l, pivot, n)
        PROVE  ListInv'
    BY <2>0, <2>4, InsertInv DEF InsertAfterPivot, InsertBeforePivot, MemberOf
  <2> QED
    BY <1>2, <2>1, <2>2, <2>3, <2>4
<1> QED
  BY <1>1, <1>2 DEF Next

\* For any nodes and any lists, however insertions and removals are mixed, the
\* links of intrusive_list stay mirror images of each other: no operation
\* follows a null link or leaves a list cut in two.
THEOREM LinksStayMirrored == Spec => []ListInv
<1> QED
  BY InitListInv, NextListInv, PTL DEF Spec

(***************************************************************************)
(* Walking a ring                                                          *)
(***************************************************************************)
\* The n places that following f from x passes.
PathFrom(f, n, x) ==
    LET step[i \in 0..n] == IF i = 0 THEN x ELSE f[step[i - 1]]
    IN  [i \in 1..n |-> step[i]]

\* f leads from x to the first of the n places of s and from each to the next.
Follows(f, n, x, s) ==
    /\ s = [i \in 1..n |-> s[i]]
    /\ n > 0 => s[1] = f[x]
    /\ \A i \in 2..n : s[i] = f[s[i - 1]]

\* Such a sequence is that path.
LEMMA PathIs ==
    ASSUME NEW f, NEW x, NEW n \in Nat, NEW s, Follows(f, n, x, s)
    PROVE  PathFrom(f, n, x) = s
<1> DEFINE st[i \in 0..n] == IF i = 0 THEN x ELSE f[st[i - 1]]
           g == [i \in 0..n |-> IF i = 0 THEN x ELSE s[i]]
<1>0. \A i \in 2..n : s[i] = f[s[i - 1]]
  BY DEF Follows
<1>1. st = CHOOSE h : h = [i \in 0..n |-> IF i = 0 THEN x ELSE f[h[i - 1]]]
  BY DEF st
<1>2. PathFrom(f, n, x) = [i \in 1..n |-> st[i]]
  BY DEF PathFrom, st
<1>3. g = [i \in 0..n |-> IF i = 0 THEN x ELSE f[g[i - 1]]]
  <2>1. ASSUME NEW i \in 0..n PROVE g[i] = IF i = 0 THEN x ELSE f[g[i - 1]]
    <3>1. CASE i = 0
      BY <3>1
    <3>2. CASE i = 1
      <4>1. g[1] = s[1] /\ s[1] = f[x] /\ g[0] = x
        BY <3>2 DEF Follows
      <4> QED
        BY <3>2, <4>1
    <3>3. CASE i > 1
      <4>1. i - 1 \in 0..n /\ i - 1 # 0 /\ i \in 1..n
        BY <3>3
      <4>2. g[i] = s[i] /\ g[i - 1] = s[i - 1]
        BY <4>1
      <4>3. s[i] = f[s[i - 1]]
        BY <1>0, <3>3
      <4> QED
        BY <3>3, <4>2, <4>3
    <3> QED
      BY <3>1, <3>2, <3>3
  <2> QED
    BY <2>1
<1> HIDE DEF st
<1>4. st = [i \in 0..n |-> IF i = 0 THEN x ELSE f[st[i - 1]]]
  <2> HIDE DEF g
  <2> QED
    BY <1>1, <1>3
<1>5. \A i \in 0..n : st[i] = g[i]
  <2> DEFINE W == {i \in 0..n : st[i] # g[i]}
  <2> SUFFICES ASSUME W # {} PROVE FALSE
    OBVIOUS
  <2>1. W \in SUBSET Nat
    OBVIOUS
  <2> DEFINE m == Min(W)
  <2>2. m \in W /\ \A y \in W : m <= y
    <3> HIDE DEF W
    <3> QED
      BY <2>1, MinInSet
  <2> HIDE DEF m
  <2>3. m \in 0..n /\ st[m] # g[m]
    BY <2>2
  <2>4. m # 0
    BY <1>4, <2>3
  <2>5. m - 1 \in 0..n /\ ~(m <= m - 1)
    BY <2>3, <2>4
  <2>6. st[m - 1] = g[m - 1]
    BY <2>2, <2>5
  <2>7. st[m] = f[st[m - 1]]
    BY <1>4, <2>3, <2>4
  <2>8. g[m] = f[g[m - 1]]
    <3> HIDE DEF g
    <3> QED
      BY <1>3, <2>3, <2>4
  <2> QED
    BY <2>3, <2>6, <2>7, <2>8
<1>6. s = [i \in 1..n |-> s[i]] /\ \A i \in 1..n : st[i] = s[i]
  BY <1>5 DEF Follows
<1> QED
  BY <1>2, <1>6

\* Place i of the ring of a list with the contents s: the head comes before the
\* first node and after the last.
Slot(l, s, i) == IF i \in 1..Len(s) THEN s[i] ELSE l

\* f leads from each place to the next and from the last one to the head.
Ring(f, l, s) == \A i \in 0..Len(s) : f[Slot(l, s, i)] = Slot(l, s, i + 1)

\* The walk from the head of a ring passes its contents.
LEMMA RingPath ==
    ASSUME NEW f, NEW l, NEW s \in Seq(Nodes), Ring(f, l, s)
    PROVE  PathFrom(f, Len(s), l) = s
<1>1. Len(s) \in Nat /\ s \in [1..Len(s) -> Nodes]
  BY LenProperties
<1>2. ASSUME NEW i \in 1..Len(s) PROVE s[i] = IF i = 1 THEN f[l] ELSE f[s[i - 1]]
  <2>1. i - 1 \in 0..Len(s) /\ (i - 1) + 1 = i
    BY <1>1
  <2>2. f[Slot(l, s, i - 1)] = Slot(l, s, i)
    BY <2>1 DEF Ring
  <2>3. Slot(l, s, i) = s[i] /\ Slot(l, s, i - 1) = IF i = 1 THEN l ELSE s[i - 1]
    BY <1>1 DEF Slot
  <2> QED
    BY <2>2, <2>3
<1>3. Follows(f, Len(s), l, s)
  <2>1. s = [i \in 1..Len(s) |-> s[i]]
    BY <1>1
  <2>2. Len(s) > 0 => s[1] = f[l]
    BY <1>1, <1>2
  <2>3. \A i \in 2..Len(s) : s[i] = f[s[i - 1]]
    BY <1>1, <1>2
  <2> QED
    BY <2>1, <2>2, <2>3 DEF Follows
<1> QED
  BY <1>1, <1>3, PathIs

\* The places of a ring are all different.
LEMMA SlotDistinct ==
    ASSUME NEW l \in Heads, NEW s \in Seq(Nodes), Distinct(s)
    PROVE  /\ Len(s) \in Nat
           /\ Slot(l, s, 0) = l /\ Slot(l, s, Len(s) + 1) = l
           /\ \A i \in 1..Len(s) : Slot(l, s, i) = s[i] /\ s[i] \in Nodes
           /\ \A i : Slot(l, s, i) \in {l} \cup ToSet(s)
           /\ \A i, j \in 0..Len(s) : Slot(l, s, i) = Slot(l, s, j) => i = j
<1>1. Len(s) \in Nat /\ DOMAIN s = 1..Len(s) /\ \A i \in 1..Len(s) : s[i] \in Nodes
  BY LenProperties, ElementOfSeq
<1>2. Slot(l, s, 0) = l /\ Slot(l, s, Len(s) + 1) = l
  BY <1>1 DEF Slot
<1>3. \A i \in 1..Len(s) : Slot(l, s, i) = s[i]
  BY DEF Slot
<1>4. \A i : Slot(l, s, i) \in {l} \cup ToSet(s)
  BY <1>1 DEF Slot, ToSet
<1>5. ASSUME NEW i \in 0..Len(s), NEW j \in 0..Len(s), Slot(l, s, i) = Slot(l, s, j)
      PROVE  i = j
  <2>1. \A p \in 0..Len(s) : p = 0 \/ p \in 1..Len(s)
    BY <1>1
  <2> QED
    BY <1>1, <1>2, <1>3, <1>5, <2>1 DEF Distinct
<1> QED
  BY <1>1, <1>2, <1>3, <1>4, <1>5

\* A list none of whose places is relinked stays a ring.
LEMMA RingUntouched ==
    ASSUME NEW f, NEW g, NEW l \in Heads, NEW s \in Seq(Nodes), Distinct(s), Ring(f, l, s),
           \A m \in {l} \cup ToSet(s) : g[m] = f[m]
    PROVE  Ring(g, l, s)
BY SlotDistinct DEF Ring

\* Linking a node between places k - 1 and k inserts it at k.
LEMMA RingInsert ==
    ASSUME NEW f, NEW g, NEW l \in Heads, NEW s \in Seq(Nodes), Distinct(s), Ring(f, l, s),
           NEW k \in 1..(Len(s) + 1), NEW n \in Nodes, n \notin ToSet(s),
           \A m \in All : g[m] = IF m = Slot(l, s, k - 1) THEN n
                                 ELSE IF m = n THEN Slot(l, s, k) ELSE f[m]
    PROVE  Ring(g, l, InsertAt(s, k, n))
<1> DEFINE r == InsertAt(s, k, n)
<1>1. Inserted(r, s, k, n, Nodes)
  BY InsertAtElements
<1> HIDE DEF r
<1>2. /\ Len(r) = Len(s) + 1 /\ Len(s) \in Nat
      /\ Slot(l, s, 0) = l /\ Slot(l, s, Len(s) + 1) = l
      /\ \A i : Slot(l, s, i) \in {l} \cup ToSet(s)
      /\ \A i, j \in 0..Len(s) : Slot(l, s, i) = Slot(l, s, j) => i = j
  BY <1>1, SlotDistinct DEF Inserted
<1>3. \A i : Slot(l, s, i) \in All /\ Slot(l, s, i) # n
  <2>1. ToSet(s) \subseteq Nodes
    BY FrontInList
  <2> QED
    BY <1>2, <2>1 DEF All
<1>4. ASSUME NEW i \in 0..(Len(r) + 1)
      PROVE  Slot(l, r, i) = IF i < k THEN Slot(l, s, i)
                             ELSE IF i = k THEN n ELSE Slot(l, s, i - 1)
  <2>1. CASE i = 0
    BY <1>2, <2>1 DEF Slot
  <2>2. CASE i \in 1..(k - 1)
    BY <1>1, <1>2, <2>2 DEF Slot, Inserted
  <2>3. CASE i = k
    BY <1>1, <1>2, <2>3 DEF Slot, Inserted
  <2>4. CASE i \in (k + 1)..(Len(s) + 1)
    BY <1>1, <1>2, <2>4 DEF Slot, Inserted
  <2>5. CASE i = Len(s) + 2
    BY <1>2, <2>5 DEF Slot
  <2> QED
    BY <1>2, <2>1, <2>2, <2>3, <2>4, <2>5
<1>5. ASSUME NEW i \in 0..Len(r) PROVE g[Slot(l, r, i)] = Slot(l, r, i + 1)
  <2>0. i \in Nat /\ i \in 0..(Len(r) + 1) /\ i + 1 \in 0..(Len(r) + 1) /\ k \in Nat
    BY <1>2
  <2>1. CASE i < k - 1
    <3>1. Slot(l, r, i) = Slot(l, s, i) /\ Slot(l, r, i + 1) = Slot(l, s, i + 1)
      BY <1>4, <2>0, <2>1
    <3>2. Slot(l, s, i) # Slot(l, s, k - 1)
      BY <1>2, <2>0, <2>1
    <3>3. i \in 0..Len(s)
      BY <1>2, <2>0, <2>1
    <3> QED
      BY <1>3, <3>1, <3>2, <3>3 DEF Ring
  <2>2. CASE i = k - 1
    <3>1. Slot(l, r, i) = Slot(l, s, k - 1) /\ Slot(l, r, i + 1) = n
      BY <1>4, <2>0, <2>2
    <3> QED
      BY <1>3, <3>1
  <2>3. CASE i = k
    <3>1. Slot(l, r, i) = n /\ Slot(l, r, i + 1) = Slot(l, s, k)
      <4>1. (i + 1) - 1 = k /\ ~(i + 1 < k) /\ i + 1 # k
        BY <2>0, <2>3
      <4> QED
        BY <1>4, <2>0, <2>3, <4>1
    <3> QED
      BY <1>3, <3>1 DEF All
  <2>4. CASE i > k
    <3>1. Slot(l, r, i) = Slot(l, s, i - 1) /\ Slot(l, r, i + 1) = Slot(l, s, i)
      <4>1. (i + 1) - 1 = i /\ ~(i + 1 < k) /\ i + 1 # k /\ ~(i < k) /\ i # k
        BY <2>0, <2>4
      <4> QED
        BY <1>4, <2>0, <4>1
    <3>2. i - 1 \in 0..Len(s) /\ k - 1 \in 0..Len(s) /\ i - 1 # k - 1 /\ (i - 1) + 1 = i
      BY <1>2, <2>0, <2>4
    <3>3. Slot(l, s, i - 1) # Slot(l, s, k - 1) /\ f[Slot(l, s, i - 1)] = Slot(l, s, i)
      BY <1>2, <3>2 DEF Ring
    <3> QED
      BY <1>3, <3>1, <3>3
  <2> QED
    BY <2>0, <2>1, <2>2, <2>3, <2>4
<1> QED
  BY <1>5 DEF Ring, r

\* Joining the neighbours of the node at place k removes it.
LEMMA RingRemove ==
    ASSUME NEW f, NEW g, NEW l \in Heads, NEW s \in Seq(Nodes), Distinct(s), Ring(f, l, s),
           NEW k \in 1..Len(s), NEW x,
           \A m \in All : g[m] = IF m = s[k] THEN x
                                 ELSE IF m = Slot(l, s, k - 1) THEN Slot(l, s, k + 1) ELSE f[m]
    PROVE  Ring(g, l, RemoveAt(s, k))
<1> DEFINE r == RemoveAt(s, k)
<1>1. /\ r \in Seq(Nodes) /\ Len(r) = Len(s) - 1
      /\ \A j \in 1..(Len(s) - 1) : r[j] = IF j < k THEN s[j] ELSE s[j + 1]
  BY RemoveAtElements
<1> HIDE DEF r
<1>2. /\ Len(s) \in Nat /\ Slot(l, s, 0) = l /\ Slot(l, s, Len(s) + 1) = l
      /\ \A i \in 1..Len(s) : Slot(l, s, i) = s[i]
      /\ \A i : Slot(l, s, i) \in {l} \cup ToSet(s)
      /\ \A i, j \in 0..Len(s) : Slot(l, s, i) = Slot(l, s, j) => i = j
  BY SlotDistinct
<1>3. \A i : Slot(l, s, i) \in All
  <2>1. ToSet(s) \subseteq Nodes
    BY FrontInList
  <2> QED
    BY <1>2, <2>1 DEF All
<1>4. ASSUME NEW i \in 0..(Len(r) + 1)
      PROVE  Slot(l, r, i) = IF i < k THEN Slot(l, s, i) ELSE Slot(l, s, i + 1)
  <2>1. CASE i = 0
    BY <1>2, <2>1 DEF Slot
  <2>2. CASE i \in 1..Len(r)
    <3>1. i + 1 \in 1..Len(s) /\ i \in 1..Len(s) /\ i \in 1..(Len(s) - 1)
      BY <1>1, <1>2, <2>2
    <3> QED
      BY <1>1, <2>2, <3>1 DEF Slot
  <2>3. CASE i = Len(r) + 1
    <3>1. i + 1 = Len(s) + 1 /\ ~(i < k) /\ i \notin 1..Len(r)
      BY <1>1, <1>2, <2>3
    <3> QED
      BY <1>2, <3>1 DEF Slot
  <2> QED
    BY <1>1, <1>2, <2>1, <2>2, <2>3
<1>5. ASSUME NEW i \in 0..Len(r) PROVE g[Slot(l, r, i)] = Slot(l, r, i + 1)
  <2>0. /\ i \in Nat /\ i \in 0..(Len(r) + 1) /\ i + 1 \in 0..(Len(r) + 1) /\ k \in Nat
        /\ k \in 0..Len(s) /\ k - 1 \in 0..Len(s) /\ k # k - 1 /\ s[k] = Slot(l, s, k)
    BY <1>1, <1>2
  <2>1. CASE i < k - 1
    <3>1. Slot(l, r, i) = Slot(l, s, i) /\ Slot(l, r, i + 1) = Slot(l, s, i + 1)
      BY <1>4, <2>0, <2>1
    <3>2. i \in 0..Len(s) /\ i # k /\ i # k - 1
      BY <1>1, <1>2, <2>0, <2>1
    <3>3. Slot(l, s, i) # Slot(l, s, k - 1) /\ Slot(l, s, i) # s[k]
      BY <1>2, <2>0, <3>2
    <3> QED
      BY <1>3, <3>1, <3>2, <3>3 DEF Ring
  <2>2. CASE i = k - 1
    <3>1. Slot(l, r, i) = Slot(l, s, k - 1) /\ Slot(l, r, i + 1) = Slot(l, s, k + 1)
      <4>1. i < k /\ ~(i + 1 < k) /\ (i + 1) + 1 = k + 1
        BY <2>0, <2>2
      <4> QED
        BY <1>4, <2>0, <2>2, <4>1
    <3>2. Slot(l, s, k - 1) # s[k]
      BY <1>2, <2>0
    <3> QED
      BY <1>3, <3>1, <3>2
  <2>3. CASE i >= k
    <3>1. Slot(l, r, i) = Slot(l, s, i + 1) /\ Slot(l, r, i + 1) = Slot(l, s, (i + 1) + 1)
      <4>1. ~(i < k) /\ ~(i + 1 < k)
        BY <2>0, <2>3
      <4> QED
        BY <1>4, <2>0, <4>1
    <3>2. i + 1 \in 0..Len(s) /\ i + 1 # k /\ i + 1 # k - 1
      BY <1>1, <1>2, <2>0, <2>3
    <3>3. Slot(l, s, i + 1) # Slot(l, s, k - 1) /\ Slot(l, s, i + 1) # s[k]
      BY <1>2, <2>0, <3>2
    <3>4. f[Slot(l, s, i + 1)] = Slot(l, s, (i + 1) + 1)
      BY <3>2 DEF Ring
    <3> QED
      BY <1>3, <3>1, <3>3, <3>4
  <2> QED
    BY <2>0, <2>1, <2>2, <2>3
<1> QED
  BY <1>5 DEF Ring, r

(***************************************************************************)
(* The lists as rings                                                      *)
(***************************************************************************)
\* c gives the contents of every list: each list is the ring of its contents,
\* size_ is their number, and a node is in at most one place of at most one
\* list, which in_list() knows.
Rings(c) ==
    /\ c \in [Heads -> Seq(Nodes)]
    /\ \A l \in Heads : Len(c[l]) = size[l] /\ Ring(next, l, c[l]) /\ Distinct(c[l])
    /\ \A n \in Nodes : InList(n) <=> \E l \in Heads : n \in ToSet(c[l])
    /\ \A l, m \in Heads : l # m => ToSet(c[l]) \cap ToSet(c[m]) = {}

\* The walk of the code finds the contents, before a step and after it.
LEMMA RingWalk ==
    ASSUME NEW c, Rings(c), NEW l \in Heads
    PROVE  Walk(l) = c[l]
<1>1. c[l] \in Seq(Nodes) /\ Len(c[l]) = size[l] /\ Ring(next, l, c[l])
  BY DEF Rings
<1>2. Walk(l) = PathFrom(next, size[l], l)
  BY DEF Walk, PathFrom
<1> QED
  BY <1>1, <1>2, RingPath

\* The same for the state after a step.
LEMMA RingWalkNext ==
    ASSUME NEW c, Rings(c)', NEW l \in Heads
    PROVE  Walk(l)' = c[l]
<1>1. c[l] \in Seq(Nodes) /\ Len(c[l]) = size'[l] /\ Ring(next', l, c[l])
  BY DEF Rings, Ring
<1>2. Walk(l)' = PathFrom(next', size'[l], l)
  BY DEF Walk, PathFrom
<1> QED
  BY <1>1, <1>2, RingPath

\* Every place of a ring is linked, and prev leads back along it.
LEMMA RingBack ==
    ASSUME ListInv, NEW c, Rings(c), NEW l \in Heads
    PROVE  /\ \A i : Slot(l, c[l], i) \in All /\ InList(Slot(l, c[l], i))
           /\ \A i \in 0..Len(c[l]) : prev[Slot(l, c[l], i + 1)] = Slot(l, c[l], i)
<1> DEFINE s == c[l]
<1>1. s \in Seq(Nodes) /\ Distinct(s) /\ Ring(next, l, s)
  BY DEF Rings
<1>2. /\ \A n \in ToSet(s) : n \in Nodes /\ InList(n)
      /\ InList(l) /\ l \in All
  BY <1>1, FrontInList DEF Rings, ListInv, All
<1> HIDE DEF s
<1>3. \A i : Slot(l, s, i) \in {l} \cup ToSet(s)
  BY <1>1, SlotDistinct
<1>4. \A i : Slot(l, s, i) \in All /\ InList(Slot(l, s, i))
  BY <1>2, <1>3 DEF All
<1>5. \A i \in 0..Len(s) : prev[Slot(l, s, i + 1)] = Slot(l, s, i)
  BY <1>1, <1>4 DEF Ring, ListInv, LinksMirror
<1> QED
  BY <1>4, <1>5 DEF s

(***************************************************************************)
(* The operations on rings                                                 *)
(***************************************************************************)
Put(c, l, k, n) == [c EXCEPT ![l] = InsertAt(c[l], k, n)]

Drop(c, l, n) == [c EXCEPT ![l] = Without(c[l], n)]

\* Linking a loose node between places k - 1 and k of a list puts it there and
\* leaves the other lists alone.
LEMMA LinkRings ==
    ASSUME ListInv, NEW c, Rings(c), NEW l \in Heads, NEW n \in Nodes, ~InList(n),
           NEW k \in 1..(Len(c[l]) + 1),
           LinkBetween(l, Slot(l, c[l], k - 1), Slot(l, c[l], k), n)
    PROVE  Rings(Put(c, l, k, n))'
<1> DEFINE s == c[l]
           a == Slot(l, s, k - 1)
           b == Slot(l, s, k)
           d == Put(c, l, k, n)
           r == InsertAt(s, k, n)
<1>1. /\ prev \in [All -> All \cup {Null}] /\ next \in [All -> All \cup {Null}]
      /\ size \in [Heads -> Nat]
  BY DEF ListInv, TypeOK
<1>2. /\ c \in [Heads -> Seq(Nodes)] /\ s \in Seq(Nodes) /\ Distinct(s) /\ Ring(next, l, s)
      /\ \A m \in Heads : n \notin ToSet(c[m])
  BY DEF Rings
<1>3. /\ a \in All /\ b \in All /\ InList(a) /\ InList(b) /\ a # n /\ b # n /\ n \in All
      /\ Null \notin All
  BY RingBack DEF All
<1>4. a \in {l} \cup ToSet(s)
  BY <1>2, SlotDistinct
<1>5. LinkBetween(l, a, b, n)
  OBVIOUS
<1>6. d = [c EXCEPT ![l] = r]
  BY DEF Put
<1>7. /\ r \in Seq(Nodes) /\ Len(r) = Len(s) + 1
      /\ ToSet(r) = ToSet(s) \cup {n} /\ Distinct(r)
  <2>1. Inserted(r, s, k, n, Nodes)
    BY <1>2, InsertAtElements
  <2> QED
    BY <1>2, <2>1, InsertElement DEF Inserted
<1> HIDE DEF a, b, d, r
<1>8. \A m \in All : next'[m] = IF m = a THEN n ELSE IF m = n THEN b ELSE next[m]
  BY <1>1, <1>3, <1>5 DEF LinkBetween
<1>9. \A m \in Nodes : InList(m)' <=> InList(m) \/ m = n
  <2>1. \A m \in All : prev'[m] = IF m = b THEN n ELSE IF m = n THEN a ELSE prev[m]
    BY <1>1, <1>3, <1>5 DEF LinkBetween
  <2> QED
    BY <1>3, <2>1 DEF InList, All
<1>10. /\ d \in [Heads -> Seq(Nodes)] /\ d[l] = r
       /\ \A m \in Heads : m # l => d[m] = c[m]
  BY <1>2, <1>6, <1>7
<1>11. /\ size'[l] = Len(r)
       /\ \A m \in Heads : m # l => size'[m] = size[m]
  <2>1. Len(s) = size[l]
    BY DEF Rings
  <2> QED
    BY <1>1, <1>5, <1>7, <2>1 DEF LinkBetween
<1>12. Ring(next', l, r)
  BY <1>2, <1>8, RingInsert DEF a, b, r
<1>13. ASSUME NEW m \in Heads, m # l
       PROVE  Len(c[m]) = size[m] /\ Ring(next', m, c[m]) /\ Distinct(c[m])
  <2>1. /\ Len(c[m]) = size[m] /\ Ring(next, m, c[m]) /\ Distinct(c[m]) /\ c[m] \in Seq(Nodes)
        /\ ToSet(c[m]) \cap ToSet(s) = {}
    BY <1>13 DEF Rings
  <2>2. ToSet(c[m]) \subseteq Nodes /\ ToSet(s) \subseteq Nodes
    BY <1>2, <2>1, FrontInList
  <2>3. \A e \in {m} \cup ToSet(c[m]) : e \in All /\ e # a /\ e # n
    BY <1>2, <1>4, <1>13, <2>1, <2>2 DEF All
  <2>4. \A e \in {m} \cup ToSet(c[m]) : next'[e] = next[e]
    BY <1>8, <2>3
  <2> QED
    BY <2>1, <2>4, RingUntouched
<1>14. \A m \in Heads : Len(d[m]) = size'[m] /\ Ring(next', m, d[m]) /\ Distinct(d[m])
  BY <1>7, <1>10, <1>11, <1>12, <1>13
<1>15. \A m \in Heads : ToSet(d[m]) = IF m = l THEN ToSet(c[m]) \cup {n} ELSE ToSet(c[m])
  BY <1>7, <1>10
<1>16. \A m \in Nodes : InList(m)' <=> \E h \in Heads : m \in ToSet(d[h])
  <2>1. \A m \in Nodes : InList(m) <=> \E h \in Heads : m \in ToSet(c[h])
    BY DEF Rings
  <2> QED
    BY <1>9, <1>15, <2>1
<1>17. \A g, h \in Heads : g # h => ToSet(d[g]) \cap ToSet(d[h]) = {}
  <2>1. \A g, h \in Heads : g # h => ToSet(c[g]) \cap ToSet(c[h]) = {}
    BY DEF Rings
  <2>2. SUFFICES ASSUME NEW g \in Heads, NEW h \in Heads, g # h, NEW e,
                        e \in ToSet(d[g]), e \in ToSet(d[h])
                 PROVE  FALSE
    OBVIOUS
  <2>3. (e \in ToSet(c[g]) \/ (e = n /\ g = l)) /\ (e \in ToSet(c[h]) \/ (e = n /\ h = l))
    BY <1>15, <2>2
  <2> QED
    BY <1>2, <2>1, <2>2, <2>3
<1>18. Rings(d)'
  BY <1>10, <1>14, <1>16, <1>17 DEF Rings, Ring
<1> QED
  BY <1>18 DEF d

\* remove() takes the node out of its list and leaves the other lists alone.
LEMMA UnlinkRings ==
    ASSUME ListInv, NEW c, Rings(c), NEW l \in Heads, NEW n \in Nodes, RemoveMember(l, n)
    PROVE  n \in ToSet(c[l]) /\ Rings(Drop(c, l, n))'
<1> DEFINE s == c[l]
           k == Pos(s, n)
           a == Slot(l, s, k - 1)
           b == Slot(l, s, k + 1)
           d == Drop(c, l, n)
           r == RemoveAt(s, k)
<1>1. /\ prev \in [All -> All \cup {Null}] /\ next \in [All -> All \cup {Null}]
      /\ size \in [Heads -> Nat] /\ Null \notin All
  BY DEF ListInv, TypeOK, All
<1>2. /\ c \in [Heads -> Seq(Nodes)] /\ s \in Seq(Nodes) /\ Distinct(s) /\ Ring(next, l, s)
      /\ Len(s) = size[l]
  BY DEF Rings
<1>3. Len(s) \in Nat /\ DOMAIN s = 1..Len(s)
  BY <1>2, LenProperties
<1>4. n \in ToSet(s)
  BY <1>2, <1>3, RingWalk DEF RemoveMember, MemberOf, Members, ToSet
<1>5. k \in 1..Len(s) /\ s[k] = n
  BY <1>3, <1>4 DEF Pos, ToSet
<1>6. Without(s, n) = r /\ d = [c EXCEPT ![l] = r]
  BY DEF Without, Drop
<1>7. /\ r \in Seq(Nodes) /\ Len(r) = Len(s) - 1
      /\ ToSet(r) = ToSet(s) \ {n} /\ Distinct(r)
  BY <1>2, <1>4, <1>5, <1>6, RemoveAtElements, RemoveElement
<1> HIDE DEF k
<1>8. /\ Slot(l, s, k) = n /\ next[n] = b /\ prev[n] = a
      /\ a \in All /\ b \in All /\ InList(a) /\ InList(b) /\ n \in All
  <2>1. Slot(l, s, k) = n
    BY <1>5 DEF Slot
  <2>2. k \in 0..Len(s) /\ k - 1 \in 0..Len(s) /\ (k - 1) + 1 = k
    BY <1>3, <1>5
  <2>3. next[Slot(l, s, k)] = b
    BY <1>2, <2>2 DEF Ring
  <2>4. prev[Slot(l, s, (k - 1) + 1)] = Slot(l, s, k - 1)
    BY <2>2, RingBack
  <2> QED
    BY <2>1, <2>2, <2>3, <2>4, RingBack DEF All
<1>9. a \in {l} \cup ToSet(s) /\ a # n
  <2>1. a \in {l} \cup ToSet(s)
    BY <1>2, SlotDistinct
  <2>2. k \in 0..Len(s) /\ k - 1 \in 0..Len(s) /\ k # k - 1
    BY <1>3, <1>5
  <2>3. Slot(l, s, k - 1) # Slot(l, s, k)
    BY <1>2, <2>2, SlotDistinct
  <2> QED
    BY <1>8, <2>1, <2>3
<1> HIDE DEF a, b, d, r
<1>10. /\ prev' = [prev EXCEPT ![b] = a, ![n] = Null]
       /\ next' = [next EXCEPT ![a] = b, ![n] = Null]
       /\ size' = [size EXCEPT ![l] = size[l] - 1]
  BY <1>8 DEF RemoveMember, Unlink
<1>11. \A m \in All : next'[m] = IF m = n THEN Null ELSE IF m = a THEN b ELSE next[m]
  BY <1>1, <1>8, <1>9, <1>10
<1>12. \A m \in Nodes : InList(m)' <=> InList(m) /\ m # n
  <2>1. \A m \in All : prev'[m] = IF m = n THEN Null ELSE IF m = b THEN a ELSE prev[m]
    BY <1>1, <1>8, <1>10
  <2> QED
    BY <1>1, <1>8, <2>1 DEF InList, All
<1>13. /\ d \in [Heads -> Seq(Nodes)] /\ d[l] = r
       /\ \A m \in Heads : m # l => d[m] = c[m]
  BY <1>2, <1>6, <1>7
<1>14. /\ size'[l] = Len(r)
       /\ \A m \in Heads : m # l => size'[m] = size[m]
  BY <1>1, <1>2, <1>7, <1>10
<1>15. Ring(next', l, r)
  BY <1>2, <1>5, <1>11, RingRemove DEF a, b, r
<1>16. ASSUME NEW m \in Heads, m # l
       PROVE  Len(c[m]) = size[m] /\ Ring(next', m, c[m]) /\ Distinct(c[m])
  <2>1. /\ Len(c[m]) = size[m] /\ Ring(next, m, c[m]) /\ Distinct(c[m]) /\ c[m] \in Seq(Nodes)
        /\ ToSet(c[m]) \cap ToSet(s) = {}
    BY <1>16 DEF Rings
  <2>2. ToSet(c[m]) \subseteq Nodes /\ ToSet(s) \subseteq Nodes
    BY <1>2, <2>1, FrontInList
  <2>3. \A e \in {m} \cup ToSet(c[m]) : e \in All /\ e # a /\ e # n
    BY <1>4, <1>9, <1>16, <2>1, <2>2 DEF All
  <2>4. \A e \in {m} \cup ToSet(c[m]) : next'[e] = next[e]
    BY <1>11, <2>3
  <2> QED
    BY <2>1, <2>4, RingUntouched
<1>17. \A m \in Heads : Len(d[m]) = size'[m] /\ Ring(next', m, d[m]) /\ Distinct(d[m])
  BY <1>7, <1>13, <1>14, <1>15, <1>16
<1>18. \A m \in Heads : ToSet(d[m]) = IF m = l THEN ToSet(c[m]) \ {n} ELSE ToSet(c[m])
  BY <1>7, <1>13
<1>19. \A g, h \in Heads : g # h => ToSet(c[g]) \cap ToSet(c[h]) = {}
  BY DEF Rings
<1>20. \A m \in Nodes : InList(m)' <=> \E h \in Heads : m \in ToSet(d[h])
  <2>1. \A m \in Nodes : InList(m) <=> \E h \in Heads : m \in ToSet(c[h])
    BY DEF Rings
  <2>2. \A h \in Heads : h # l => n \notin ToSet(c[h])
    BY <1>4, <1>19
  <2> QED
    BY <1>12, <1>18, <2>1, <2>2
<1>21. \A g, h \in Heads : g # h => ToSet(d[g]) \cap ToSet(d[h]) = {}
  BY <1>18, <1>19
<1>22. Rings(d)'
  BY <1>13, <1>17, <1>20, <1>21 DEF Rings, Ring
<1> QED
  BY <1>4, <1>22 DEF d

\* Each operation places its node where its name says.
LEMMA OperationRings ==
    ASSUME ListInv, NEW c, Rings(c), NEW l \in Heads, NEW n \in Nodes
    PROVE  /\ PushFront(l, n) => Rings(Put(c, l, 1, n))'
           /\ PushBack(l, n) => Rings(Put(c, l, Len(c[l]) + 1, n))'
           /\ \A pivot \in Nodes :
                /\ InsertAfterPivot(l, pivot, n) => Rings(Put(c, l, Pos(c[l], pivot) + 1, n))'
                /\ InsertBeforePivot(l, pivot, n) => Rings(Put(c, l, Pos(c[l], pivot), n))'
<1> DEFINE s == c[l]
<1>1. /\ s \in Seq(Nodes) /\ Distinct(s) /\ Ring(next, l, s) /\ Len(s) = size[l]
      /\ Len(s) \in Nat /\ DOMAIN s = 1..Len(s)
  BY LenProperties DEF Rings
<1>2. Slot(l, s, 0) = l /\ Slot(l, s, Len(s) + 1) = l
  BY <1>1, SlotDistinct
<1>3. \A i \in 0..Len(s) : /\ next[Slot(l, s, i)] = Slot(l, s, i + 1)
                           /\ prev[Slot(l, s, i + 1)] = Slot(l, s, i)
  BY <1>1, RingBack DEF Ring
<1>4. ASSUME PushFront(l, n) PROVE Rings(Put(c, l, 1, n))'
  <2>1. next[l] = Slot(l, s, 1) /\ 1 \in 1..(Len(s) + 1)
    BY <1>1, <1>2, <1>3
  <2>2. LinkBetween(l, l, next[l], n) /\ ~InList(n)
    BY <1>4 DEF PushFront, InsertAfter, LinkBetween
  <2>3. 1 - 1 = 0
    OBVIOUS
  <2>4. LinkBetween(l, Slot(l, s, 1 - 1), Slot(l, s, 1), n)
    BY <1>2, <2>1, <2>2, <2>3
  <2> QED
    BY <2>1, <2>2, <2>4, LinkRings
<1>5. ASSUME PushBack(l, n) PROVE Rings(Put(c, l, Len(s) + 1, n))'
  <2>1. prev[l] = Slot(l, s, Len(s)) /\ Len(s) + 1 \in 1..(Len(s) + 1) /\ (Len(s) + 1) - 1 = Len(s)
    BY <1>1, <1>2, <1>3
  <2>2. LinkBetween(l, Slot(l, s, Len(s)), Slot(l, s, Len(s) + 1), n) /\ ~InList(n)
    BY <1>2, <1>5, <2>1 DEF PushBack, InsertBefore, LinkBetween
  <2> QED
    BY <2>1, <2>2, LinkRings
<1>6. ASSUME NEW pivot \in Nodes, MemberOf(l, pivot)
      PROVE  LET k == Pos(s, pivot)
             IN  /\ k \in 1..Len(s) /\ k + 1 \in 1..(Len(s) + 1) /\ (k + 1) - 1 = k
                 /\ Slot(l, s, k) = pivot
                 /\ next[pivot] = Slot(l, s, k + 1) /\ prev[pivot] = Slot(l, s, k - 1)
  <2> DEFINE k == Pos(s, pivot)
  <2>1. pivot \in ToSet(s)
    BY <1>1, <1>6, RingWalk DEF MemberOf, Members, ToSet
  <2>2. k \in 1..Len(s) /\ s[k] = pivot
    BY <1>1, <2>1 DEF Pos, ToSet
  <2> HIDE DEF k
  <2>3. Slot(l, s, k) = pivot
    BY <2>2 DEF Slot
  <2>4. /\ k + 1 \in 1..(Len(s) + 1) /\ (k + 1) - 1 = k /\ k \in 0..Len(s)
        /\ k - 1 \in 0..Len(s) /\ (k - 1) + 1 = k
    BY <1>1, <2>2
  <2>5. next[pivot] = Slot(l, s, k + 1)
    BY <1>3, <2>3, <2>4
  <2>6. prev[pivot] = Slot(l, s, k - 1)
    <3>1. prev[Slot(l, s, (k - 1) + 1)] = Slot(l, s, k - 1)
      BY <1>3, <2>4
    <3> QED
      BY <2>3, <2>4, <3>1
  <2> QED
    BY <2>2, <2>3, <2>4, <2>5, <2>6 DEF k
<1>7. ASSUME NEW pivot \in Nodes, InsertAfterPivot(l, pivot, n)
      PROVE  Rings(Put(c, l, Pos(s, pivot) + 1, n))'
  <2> DEFINE k == Pos(s, pivot)
  <2>1. MemberOf(l, pivot) /\ ~InList(n) /\ InsertAfter(l, pivot, n)
    BY <1>7 DEF InsertAfterPivot
  <2>2. /\ k + 1 \in 1..(Len(s) + 1) /\ (k + 1) - 1 = k
        /\ Slot(l, s, k) = pivot /\ next[pivot] = Slot(l, s, k + 1)
    BY <1>6, <2>1
  <2> HIDE DEF k
  <2>3. LinkBetween(l, Slot(l, s, (k + 1) - 1), Slot(l, s, k + 1), n)
    BY <2>1, <2>2 DEF InsertAfter, LinkBetween
  <2>4. Rings(Put(c, l, k + 1, n))'
    BY <2>1, <2>2, <2>3, LinkRings
  <2> QED
    BY <2>4 DEF k
<1>8. ASSUME NEW pivot \in Nodes, InsertBeforePivot(l, pivot, n)
      PROVE  Rings(Put(c, l, Pos(s, pivot), n))'
  <2> DEFINE k == Pos(s, pivot)
  <2>1. MemberOf(l, pivot) /\ ~InList(n) /\ InsertBefore(l, pivot, n)
    BY <1>8 DEF InsertBeforePivot
  <2>2. /\ k \in 1..(Len(s) + 1)
        /\ Slot(l, s, k) = pivot /\ prev[pivot] = Slot(l, s, k - 1)
    BY <1>1, <1>6, <2>1
  <2> HIDE DEF k
  <2>3. LinkBetween(l, Slot(l, s, k - 1), Slot(l, s, k), n)
    BY <2>1, <2>2 DEF InsertBefore, LinkBetween
  <2>4. Rings(Put(c, l, k, n))'
    BY <2>1, <2>2, <2>3, LinkRings
  <2> QED
    BY <2>4 DEF k
<1> QED
  BY <1>4, <1>5, <1>7, <1>8

\* Every step puts a loose node somewhere, takes one out, or changes nothing.
LEMMA NextRings ==
    ASSUME ListInv, NEW c, Rings(c), [Next]_vars
    PROVE  \/ UNCHANGED vars /\ Rings(c)'
           \/ \E l \in Heads, n \in Nodes :
                \/ /\ \A m \in Heads : n \notin ToSet(c[m])
                   /\ \E k \in 1..(Len(c[l]) + 1) : Rings(Put(c, l, k, n))'
                \/ n \in ToSet(c[l]) /\ Rings(Drop(c, l, n))'
<1>1. CASE UNCHANGED vars
  BY <1>1 DEF vars, Rings, Ring, InList
<1>2. CASE Next
  <2>1. PICK l \in Heads, n \in Nodes :
          \/ PushFront(l, n)
          \/ PushBack(l, n)
          \/ RemoveMember(l, n)
          \/ \E pivot \in Nodes : InsertAfterPivot(l, pivot, n) \/ InsertBeforePivot(l, pivot, n)
    BY <1>2 DEF Next
  <2>2. CASE RemoveMember(l, n)
    BY <2>2, UnlinkRings
  <2>3. CASE ~RemoveMember(l, n)
    <3>1. ~InList(n)
      BY <2>1, <2>3 DEF PushFront, PushBack, InsertAfterPivot, InsertBeforePivot
    <3>2. \A m \in Heads : n \notin ToSet(c[m])
      BY <3>1 DEF Rings
    <3>3. /\ c[l] \in Seq(Nodes) /\ Len(c[l]) \in Nat /\ DOMAIN c[l] = 1..Len(c[l])
          /\ 1 \in 1..(Len(c[l]) + 1) /\ Len(c[l]) + 1 \in 1..(Len(c[l]) + 1)
      BY LenProperties DEF Rings
    <3>4. \A pivot \in Nodes : MemberOf(l, pivot) =>
            Pos(c[l], pivot) \in 1..(Len(c[l]) + 1) /\ Pos(c[l], pivot) + 1 \in 1..(Len(c[l]) + 1)
      <4> SUFFICES ASSUME NEW pivot \in Nodes, MemberOf(l, pivot)
                   PROVE  Pos(c[l], pivot) \in 1..Len(c[l])
        BY <3>3
      <4>1. Len(c[l]) = size[l] /\ Walk(l) = c[l]
        BY RingWalk DEF Rings
      <4> QED
        BY <3>3, <4>1 DEF MemberOf, Members, Pos
    <3>5. \E k \in 1..(Len(c[l]) + 1) : Rings(Put(c, l, k, n))'
      <4>1. CASE PushFront(l, n)
        BY <3>3, <4>1, OperationRings
      <4>2. CASE PushBack(l, n)
        BY <3>3, <4>2, OperationRings
      <4>3. CASE \E pivot \in Nodes : InsertAfterPivot(l, pivot, n)
        BY <3>4, <4>3, OperationRings DEF InsertAfterPivot
      <4>4. CASE \E pivot \in Nodes : InsertBeforePivot(l, pivot, n)
        BY <3>4, <4>4, OperationRings DEF InsertBeforePivot
      <4> QED
        BY <2>1, <2>3, <4>1, <4>2, <4>3, <4>4
    <3> QED
      BY <3>2, <3>5
  <2> QED
    BY <2>2, <2>3
<1> QED
  BY <1>1, <1>2


(***************************************************************************)
(* What follows for the users of the lists                                 *)
(***************************************************************************)
ContentsExist == \E c : Rings(c)

\* The empty lists are rings.
LEMMA InitRings == Init => ContentsExist
<1> SUFFICES ASSUME Init PROVE ContentsExist
  OBVIOUS
<1> DEFINE c == [l \in Heads |-> << >>]
<1>1. /\ c \in [Heads -> Seq(Nodes)]
      /\ \A l \in Heads : c[l] = << >> /\ Len(c[l]) = 0 /\ ToSet(c[l]) = {} /\ DOMAIN c[l] = {}
  BY EmptySeq DEF ToSet
<1> HIDE DEF c
<1>2. ASSUME NEW l \in Heads PROVE Len(c[l]) = size[l] /\ Ring(next, l, c[l]) /\ Distinct(c[l])
  <2>1. \A i \in 0..Len(c[l]) : Slot(l, c[l], i) = l /\ Slot(l, c[l], i + 1) = l
    BY <1>1 DEF Slot
  <2>2. next[l] = l /\ size[l] = 0
    BY DEF Init
  <2>3. Ring(next, l, c[l])
    BY <2>1, <2>2 DEF Ring
  <2> QED
    BY <1>1, <2>2, <2>3 DEF Distinct
<1>3. \A n \in Nodes : ~InList(n)
  BY DEF Init, InList
<1>4. Rings(c)
  BY <1>1, <1>2, <1>3 DEF Rings
<1> QED
  BY <1>4 DEF ContentsExist

\* The lists stay rings.
LEMMA RingsStay == Spec => []ContentsExist
<1>1. ListInv /\ ContentsExist /\ [Next]_vars => ContentsExist'
  <2> SUFFICES ASSUME ListInv, [Next]_vars, NEW c, Rings(c) PROVE \E d : Rings(d)'
    BY DEF ContentsExist
  <2> QED
    BY NextRings
<1> QED
  BY <1>1, InitRings, LinksStayMirrored, PTL DEF Spec

\* The queries of the code answer from the links as from the contents.
LEMMA RingQueries ==
    ASSUME ListInv, NEW c, Rings(c)
    PROVE  QueriesAgree
<1>1. ASSUME NEW l \in Heads
      PROVE  /\ Walk(l) = c[l] /\ c[l] \in Seq(Nodes) /\ Distinct(c[l]) /\ Len(c[l]) \in Nat
             /\ DOMAIN c[l] = 1..Len(c[l]) /\ Len(c[l]) = size[l] /\ Ring(next, l, c[l])
             /\ Members(l) = ToSet(c[l])
  <2>1. Walk(l) = c[l]
    BY RingWalk
  <2>2. /\ c[l] \in Seq(Nodes) /\ Distinct(c[l]) /\ Len(c[l]) \in Nat
        /\ DOMAIN c[l] = 1..Len(c[l]) /\ Len(c[l]) = size[l] /\ Ring(next, l, c[l])
    BY LenProperties DEF Rings
  <2>3. Members(l) = ToSet(c[l])
    BY <2>1, <2>2 DEF Members, ToSet
  <2> QED
    BY <2>1, <2>2, <2>3
<1>2. ASSUME NEW l \in Heads
      PROVE  /\ \A i \in 0..Len(c[l]) : /\ next[Slot(l, c[l], i)] = Slot(l, c[l], i + 1)
                                        /\ prev[Slot(l, c[l], i + 1)] = Slot(l, c[l], i)
             /\ Slot(l, c[l], 0) = l /\ Slot(l, c[l], Len(c[l]) + 1) = l
             /\ \A i \in 1..Len(c[l]) : Slot(l, c[l], i) = c[l][i] /\ c[l][i] # l
  <2>1. \A i \in 1..Len(c[l]) : Slot(l, c[l], i) = c[l][i] /\ c[l][i] \in Nodes
    BY <1>1, SlotDistinct
  <2>2. Slot(l, c[l], 0) = l /\ Slot(l, c[l], Len(c[l]) + 1) = l
    BY <1>1, SlotDistinct
  <2>3. \A i \in 0..Len(c[l]) : next[Slot(l, c[l], i)] = Slot(l, c[l], i + 1)
    BY <1>1 DEF Ring
  <2>4. \A i \in 0..Len(c[l]) : prev[Slot(l, c[l], i + 1)] = Slot(l, c[l], i)
    BY RingBack
  <2> QED
    BY <2>1, <2>2, <2>3, <2>4
<1>3. InListMeansMember
  <2>1. \A n \in Nodes : InList(n) <=> \E l \in Heads : n \in Members(l)
    BY <1>1 DEF Rings
  <2>2. \A l, m \in Heads : l # m => Members(l) \cap Members(m) = {}
    BY <1>1 DEF Rings
  <2>3. ASSUME NEW l \in Heads
        PROVE  next[IF size[l] = 0 THEN l ELSE Walk(l)[size[l]]] = l
    <3> DEFINE k == Len(c[l])
    <3>1. next[Slot(l, c[l], k)] = l
      BY <1>1, <1>2
    <3>2. Slot(l, c[l], k) = IF size[l] = 0 THEN l ELSE Walk(l)[size[l]]
      BY <1>1, <1>2
    <3> QED
      BY <3>1, <3>2
  <2> QED
    BY <1>1, <2>1, <2>2, <2>3 DEF InListMeansMember
<1>4. EndsAgree
  <2> SUFFICES ASSUME NEW l \in Heads
               PROVE  /\ FrontOf(l) = IF c[l] = << >> THEN Null ELSE Head(c[l])
                      /\ BackOf(l) = IF c[l] = << >> THEN Null ELSE c[l][Len(c[l])]
                      /\ \A i \in DOMAIN c[l] :
                           /\ NextOf(l, c[l][i]) = IF i = Len(c[l]) THEN Null ELSE c[l][i + 1]
                           /\ PrevOf(l, c[l][i]) = IF i = 1 THEN Null ELSE c[l][i - 1]
    BY <1>1 DEF EndsAgree
  <2> DEFINE s == c[l]
             k == Len(s)
  <2>1. /\ s \in Seq(Nodes) /\ k \in Nat /\ DOMAIN s = 1..k /\ (s = << >> <=> k = 0)
        /\ s # << >> => Head(s) = s[1]
    BY <1>1, EmptySeq
  <2>2. next[l] = Slot(l, s, 1) /\ prev[l] = Slot(l, s, k)
    <3>1. 0 \in 0..k /\ k \in 0..k
      BY <2>1
    <3> QED
      BY <1>2, <3>1
  <2>3. FrontOf(l) = IF s = << >> THEN Null ELSE Head(s)
    <3>1. CASE k = 0
      BY <1>2, <2>1, <2>2, <3>1 DEF FrontOf
    <3>2. CASE k # 0
      <4>1. 1 \in 1..k
        BY <2>1, <3>2
      <4> QED
        BY <1>2, <2>1, <2>2, <3>2, <4>1 DEF FrontOf
    <3> QED
      BY <3>1, <3>2
  <2>4. BackOf(l) = IF s = << >> THEN Null ELSE s[k]
    <3>1. CASE k = 0
      BY <1>2, <2>1, <2>2, <3>1 DEF BackOf
    <3>2. CASE k # 0
      <4>1. k \in 1..k
        BY <2>1, <3>2
      <4> QED
        BY <1>2, <2>1, <2>2, <3>2, <4>1 DEF BackOf
    <3> QED
      BY <3>1, <3>2
  <2>5. ASSUME NEW i \in DOMAIN s
        PROVE  /\ NextOf(l, s[i]) = IF i = k THEN Null ELSE s[i + 1]
               /\ PrevOf(l, s[i]) = IF i = 1 THEN Null ELSE s[i - 1]
    <3>0. i \in 1..k /\ i \in 0..k /\ i - 1 \in 0..k /\ (i - 1) + 1 = i
      BY <2>1
    <3>1. next[s[i]] = Slot(l, s, i + 1)
      BY <1>2, <3>0
    <3>2. prev[s[i]] = Slot(l, s, i - 1)
      <4>1. prev[Slot(l, s, (i - 1) + 1)] = Slot(l, s, i - 1)
        BY <1>2, <3>0
      <4> QED
        BY <1>2, <3>0, <4>1
    <3>3. NextOf(l, s[i]) = IF i = k THEN Null ELSE s[i + 1]
      <4>1. CASE i = k
        BY <1>2, <3>1, <4>1 DEF NextOf
      <4>2. CASE i # k
        <5>1. i + 1 \in 1..k
          BY <2>1, <3>0, <4>2
        <5> QED
          BY <1>2, <3>1, <4>2, <5>1 DEF NextOf
      <4> QED
        BY <4>1, <4>2
    <3>4. PrevOf(l, s[i]) = IF i = 1 THEN Null ELSE s[i - 1]
      <4>1. CASE i = 1
        BY <1>2, <3>2, <4>1 DEF PrevOf
      <4>2. CASE i # 1
        <5>1. i - 1 \in 1..k
          BY <2>1, <3>0, <4>2
        <5> QED
          BY <1>2, <3>2, <4>2, <5>1 DEF PrevOf
      <4> QED
        BY <4>1, <4>2
    <3> QED
      BY <3>3, <3>4
  <2> QED
    BY <2>3, <2>4, <2>5
<1> QED
  BY <1>3, <1>4 DEF QueriesAgree

\* in_list() and the ends and neighbours of a list are answered as for a
\* sequence, for any number of lists and nodes.
THEOREM QueriesAnswered == Spec => []QueriesAgree
<1>1. ListInv /\ ContentsExist => QueriesAgree
  BY RingQueries DEF ContentsExist
<1> QED
  BY <1>1, LinksStayMirrored, RingsStay, PTL

\* Inserting at the ends is pushing.
LEMMA InsertAtEnds ==
    ASSUME NEW s \in Seq(Nodes), NEW n \in Nodes
    PROVE  InsertAt(s, 1, n) = <<n>> \o s /\ InsertAt(s, Len(s) + 1, n) = Append(s, n)
<1>0. Len(s) \in Nat /\ <<n>> \in Seq(Nodes) /\ Len(<<n>>) = 1 /\ <<n>>[1] = n
  BY LenProperties
<1>1. InsertAt(s, 1, n) = <<n>> \o s
  <2> DEFINE r == InsertAt(s, 1, n)
             q == <<n>> \o s
  <2>1. Inserted(r, s, 1, n, Nodes)
    BY <1>0, InsertAtElements
  <2>2. /\ q \in Seq(Nodes) /\ Len(q) = Len(s) + 1
        /\ \A i \in 1..(Len(s) + 1) : q[i] = IF i = 1 THEN n ELSE s[i - 1]
    BY <1>0, ConcatProperties
  <2> HIDE DEF r, q
  <2>3. r \in Seq(Nodes) /\ Len(r) = Len(q) /\ \A i \in 1..Len(q) : r[i] = q[i]
    BY <1>0, <2>1, <2>2 DEF Inserted
  <2>4. r = q
    BY <2>2, <2>3, SeqEqual
  <2> QED
    BY <2>4 DEF r, q
<1>2. InsertAt(s, Len(s) + 1, n) = Append(s, n)
  <2> DEFINE r == InsertAt(s, Len(s) + 1, n)
             q == Append(s, n)
  <2>1. Inserted(r, s, Len(s) + 1, n, Nodes)
    BY <1>0, InsertAtElements
  <2>2. /\ q \in Seq(Nodes) /\ Len(q) = Len(s) + 1
        /\ \A i \in 1..Len(s) : q[i] = s[i]
        /\ q[Len(s) + 1] = n
    BY <1>0, AppendProperties
  <2> HIDE DEF r, q
  <2>3. r \in Seq(Nodes) /\ Len(r) = Len(q) /\ \A i \in 1..Len(q) : r[i] = q[i]
    BY <1>0, <2>1, <2>2 DEF Inserted
  <2>4. r = q
    BY <2>2, <2>3, SeqEqual
  <2> QED
    BY <2>4 DEF r, q
<1> QED
  BY <1>1, <1>2

\* Each operation puts its node where its name says, disturbs no other place of
\* its list and leaves every other list as it was, for any number of lists and
\* nodes.
THEOREM NodesArePlaced == Spec => OperationsPlace
<1> DEFINE Becomes(l, r) == \A m \in Heads : Walk(m)' = IF m = l THEN r ELSE Walk(m)
           Placed(l, n) ==
             LET s == Walk(l) IN
             /\ PushFront(l, n) => Becomes(l, <<n>> \o s)
             /\ PushBack(l, n) => Becomes(l, Append(s, n))
             /\ RemoveMember(l, n) => Becomes(l, Without(s, n))
             /\ \A pivot \in Nodes :
                  /\ InsertAfterPivot(l, pivot, n) => Becomes(l, InsertAt(s, Pos(s, pivot) + 1, n))
                  /\ InsertBeforePivot(l, pivot, n) => Becomes(l, InsertAt(s, Pos(s, pivot), n))
<1>1. ListInv /\ ContentsExist => \A l \in Heads, n \in Nodes : Placed(l, n)
  <2> SUFFICES ASSUME ListInv, NEW c, Rings(c), NEW l \in Heads, NEW n \in Nodes
               PROVE  Placed(l, n)
    BY DEF ContentsExist
  <2>1. /\ \A m \in Heads : Walk(m) = c[m]
        /\ c \in [Heads -> Seq(Nodes)] /\ c[l] \in Seq(Nodes)
    BY RingWalk DEF Rings
  <2>2. ASSUME NEW k, Rings(Put(c, l, k, n))' PROVE Becomes(l, InsertAt(c[l], k, n))
    <3>1. \A m \in Heads : Walk(m)' = Put(c, l, k, n)[m]
      BY <2>2, RingWalkNext
    <3> QED
      BY <2>1, <3>1 DEF Put
  <2>3. ASSUME Rings(Drop(c, l, n))' PROVE Becomes(l, Without(c[l], n))
    <3>1. \A m \in Heads : Walk(m)' = Drop(c, l, n)[m]
      BY <2>3, RingWalkNext
    <3> QED
      BY <2>1, <3>1 DEF Drop
  <2> HIDE DEF Becomes
  <2>4. PushFront(l, n) => Becomes(l, <<n>> \o c[l])
    BY <2>1, <2>2, OperationRings, InsertAtEnds
  <2>5. PushBack(l, n) => Becomes(l, Append(c[l], n))
    BY <2>1, <2>2, OperationRings, InsertAtEnds
  <2>6. RemoveMember(l, n) => Becomes(l, Without(c[l], n))
    BY <2>3, UnlinkRings
  <2>7. \A pivot \in Nodes :
          /\ InsertAfterPivot(l, pivot, n) => Becomes(l, InsertAt(c[l], Pos(c[l], pivot) + 1, n))
          /\ InsertBeforePivot(l, pivot, n) => Becomes(l, InsertAt(c[l], Pos(c[l], pivot), n))
    BY <2>2, OperationRings
  <2> QED
    BY <2>1, <2>4, <2>5, <2>6, <2>7
<1> HIDE DEF Placed
<1>2. ListInv /\ ContentsExist => [\A l \in Heads, n \in Nodes : Placed(l, n)]_vars
  BY <1>1
<1>3. (Spec => [][\A l \in Heads, n \in Nodes : Placed(l, n)]_vars)
  BY <1>2, LinksStayMirrored, RingsStay, PTL DEF Spec
<1> QED
  BY <1>3 DEF Placed, OperationsPlace

\* The pointer structure implements the sequences of ListSpec: every step is an
\* insertion of a loose node, the removal of a member, or invisible.
THEOREM ListsAreSequences == Spec => ImplementsSequences
<1> DEFINE contents == [l \in Heads |-> Walk(l)]
<1>1. Init /\ ContentsExist => AsSequences!AbsInit
  <2> SUFFICES ASSUME Init, NEW c, Rings(c), NEW l \in Heads PROVE Walk(l) = << >>
    BY DEF ContentsExist, AsSequences!AbsInit
  <2>1. Walk(l) = c[l] /\ c[l] \in Seq(Nodes) /\ Len(c[l]) = 0
    BY RingWalk DEF Rings, Init
  <2> QED
    BY <2>1, EmptySeq
<1>0. /\ \A s : AsSequences!ToSet(s) = ToSet(s)
      /\ \A s, i, n : AsSequences!InsertAt(s, i, n) = InsertAt(s, i, n)
      /\ \A s, n : AsSequences!Without(s, n) = Without(s, n)
  BY DEF ToSet, InsertAt, Without, Pos, RemoveAt, AsSequences!ToSet, AsSequences!InsertAt,
         AsSequences!Without, AsSequences!Pos, AsSequences!RemoveAt
<1>2. ListInv /\ ContentsExist /\ [Next]_vars => [AsSequences!AbsNext]_contents
  <2> SUFFICES ASSUME ListInv, NEW c, Rings(c), [Next]_vars
               PROVE  AsSequences!AbsNext \/ contents' = contents
    BY DEF ContentsExist
  <2>1. contents = c
    BY RingWalk DEF Rings
  <2>2. ASSUME NEW d, Rings(d)' PROVE contents' = d
    BY <2>2, RingWalkNext DEF Rings
  <2>3. CASE UNCHANGED vars /\ Rings(c)'
    BY <2>1, <2>2, <2>3
  <2>4. ASSUME NEW l \in Heads, NEW n \in Nodes, \A m \in Heads : n \notin ToSet(c[m]),
               NEW k \in 1..(Len(c[l]) + 1), Rings(Put(c, l, k, n))'
        PROVE  AsSequences!AbsNext
    <3>1. contents' = [contents EXCEPT ![l] = InsertAt(contents[l], k, n)]
      BY <2>1, <2>2, <2>4 DEF Put
    <3>2. AsSequences!InsertNode(l, n)
      <4>1. AsSequences!Loose(n)
        BY <1>0, <2>1, <2>4 DEF AsSequences!Loose
      <4> QED
        BY <1>0, <2>1, <3>1, <4>1 DEF AsSequences!InsertNode
    <3> QED
      BY <3>2 DEF AsSequences!AbsNext
  <2>5. ASSUME NEW l \in Heads, NEW n \in Nodes, n \in ToSet(c[l]), Rings(Drop(c, l, n))'
        PROVE  AsSequences!AbsNext
    <3>1. contents' = [contents EXCEPT ![l] = Without(contents[l], n)]
      BY <2>1, <2>2, <2>5 DEF Drop
    <3>2. AsSequences!RemoveNode(l, n)
      BY <1>0, <2>1, <2>5, <3>1 DEF AsSequences!RemoveNode
    <3> QED
      BY <3>2 DEF AsSequences!AbsNext
  <2> QED
    BY NextRings, <2>3, <2>4, <2>5
<1> QED
  BY <1>1, <1>2, LinksStayMirrored, RingsStay, PTL DEF Spec, ImplementsSequences, AsSequences!AbsSpec

=============================================================================
