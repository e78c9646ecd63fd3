--------------------------- MODULE CommonTheorems ---------------------------
(***************************************************************************)
(* Facts that the proofs of several modules use: what the list operations  *)
(* do to the set of elements of a list, and that they keep the elements    *)
(* distinct; how a step of one thread changes a count of threads.          *)
(***************************************************************************)
EXTENDS Lists, SequenceTheorems, FiniteSetTheorems, WellFoundedInduction, TLAPS

(***************************************************************************)
(* Counting                                                                *)
(***************************************************************************)
\* 1 for a member of S, 0 for anything else.
One(x, S) == IF x \in S THEN 1 ELSE 0

\* Two sets that differ in u at most: the counts differ by that element.
LEMMA OneDiffers ==
    ASSUME NEW A, NEW B, NEW u, IsFiniteSet(A), A \ {u} = B \ {u}
    PROVE  /\ IsFiniteSet(B) /\ Cardinality(A) \in Nat /\ Cardinality(B) \in Nat
           /\ Cardinality(B) = Cardinality(A) + One(u, B) - One(u, A)
<1> DEFINE C == A \ {u}
<1>1. /\ IsFiniteSet(C) /\ Cardinality(A) \in Nat
      /\ Cardinality(C) = Cardinality(A) - One(u, A)
  BY FS_RemoveElement, FS_CardinalityType DEF One
<1>2. u \notin C /\ B = IF u \in B THEN C \cup {u} ELSE C
  OBVIOUS
<1> HIDE DEF C
<1>3. IsFiniteSet(C \cup {u}) /\ Cardinality(C \cup {u}) = Cardinality(C) + 1
  BY <1>1, <1>2, FS_AddElement
<1>4. IsFiniteSet(B)
  BY <1>1, <1>2, <1>3
<1>5. Cardinality(B) \in Nat
  BY <1>4, FS_CardinalityType
<1>6. Cardinality(B) = Cardinality(C) + One(u, B)
  <2>1. Cardinality(C) \in Nat
    BY <1>1, FS_CardinalityType
  <2>2. CASE u \in B
    <3>1. B = C \cup {u} /\ One(u, B) = 1
      BY <1>2, <2>2 DEF One
    <3> QED
      BY <3>1, <1>3
  <2>3. CASE u \notin B
    <3>1. B = C /\ One(u, B) = 0
      BY <1>2, <2>3 DEF One
    <3> QED
      BY <3>1, <2>1
  <2> QED
    BY <2>2, <2>3
<1> QED
  BY <1>1, <1>4, <1>5, <1>6 DEF One

\* The members of T that f maps into S: threads in the places S of their code.
Where(T, f, S) == {u \in T : f[u] \in S}

\* A step takes t from the place f[t] to g[t]: the count of the threads in the
\* places S changes by the one thread.
LEMMA MoveCounts ==
    ASSUME NEW T, IsFiniteSet(T), NEW t \in T, NEW f, NEW g, NEW S,
           \A u \in T \ {t} : g[u] = f[u]
    PROVE  /\ Cardinality(Where(T, f, S)) \in Nat /\ Cardinality(Where(T, g, S)) \in Nat
           /\ Cardinality(Where(T, g, S))
                = Cardinality(Where(T, f, S)) + One(g[t], S) - One(f[t], S)
<1> DEFINE F == Where(T, f, S)
           G == Where(T, g, S)
<1>1. IsFiniteSet(F)
  <2>1. F \in SUBSET T
    BY DEF Where
  <2> QED
    BY <2>1, FS_Subset
<1>2. F \ {t} = G \ {t}
  BY DEF Where
<1>3. (t \in F <=> f[t] \in S) /\ (t \in G <=> g[t] \in S)
  BY DEF Where
<1> HIDE DEF F, G
<1>4. /\ Cardinality(F) \in Nat /\ Cardinality(G) \in Nat
      /\ Cardinality(G) = Cardinality(F) + One(t, G) - One(t, F)
  BY <1>1, <1>2, OneDiffers
<1>5. One(t, G) = One(g[t], S) /\ One(t, F) = One(f[t], S)
  BY <1>3 DEF One
<1> QED
  BY <1>4, <1>5 DEF F, G

(***************************************************************************)
(* Lists                                                                   *)
(***************************************************************************)

\* The searches for a position or a priority find an extreme one.
LEMMA MinInSet ==
    ASSUME NEW T \in SUBSET Nat, T # {}
    PROVE  Min(T) \in T /\ \A y \in T : Min(T) <= y
<1> DEFINE R == OpToRel(<, Nat)
<1>1. PICK x \in T : \A y \in T : ~(<<y, x>> \in R)
  <2>1. IsWellFoundedOn(R, Nat)
    BY NatLessThanWellFounded
  <2> HIDE DEF R
  <2> QED
    BY <2>1, WFMin
<1>2. \A y \in T : x <= y
  <2> SUFFICES ASSUME NEW y \in T PROVE x <= y
    OBVIOUS
  <2>1. ~(y < x)
    BY <1>1 DEF OpToRel
  <2> QED
    BY <2>1
<1>3. \E z \in T : \A y \in T : z <= y
  BY <1>2
<1> QED
  BY <1>3 DEF Min

\* The same for the maximum of a bounded set.
LEMMA MaxInSet ==
    ASSUME NEW n \in Nat, NEW T \in SUBSET (0..n), T # {}
    PROVE  Max(T) \in T /\ \A y \in T : y <= Max(T)
<1> DEFINE U == {m \in 0..n : n - m \in T}
<1>1. PICK x \in T : TRUE
  OBVIOUS
<1>2. U \in SUBSET Nat /\ n - x \in U
  <2>1. x \in 0..n /\ n - x \in 0..n /\ n - (n - x) = x
    OBVIOUS
  <2> QED
    BY <2>1
<1>3. Min(U) \in U /\ \A m \in U : Min(U) <= m
  <2> HIDE DEF U
  <2> QED
    BY <1>2, MinInSet
<1> DEFINE u == Min(U)
<1>4. u \in 0..n /\ n - u \in T
  BY <1>3
<1> HIDE DEF u
<1>5. ASSUME NEW y \in T PROVE n - u >= y
  <2>1. y \in 0..n /\ n - y \in 0..n /\ n - (n - y) = y
    OBVIOUS
  <2>2. n - y \in U
    BY <2>1
  <2>3. u <= n - y
    BY <2>2, <1>3 DEF u
  <2> QED
    BY <2>1, <2>3, <1>4
<1>6. \E z \in T : \A y \in T : z >= y
  BY <1>4, <1>5
<1>7. Max(T) \in T /\ \A y \in T : Max(T) >= y
  BY <1>6 DEF Max
<1> QED
  BY <1>7

\* A list is non-empty exactly when it has a front, and the front is in it.
LEMMA FrontInList ==
    ASSUME NEW S, NEW s \in Seq(S)
    PROVE  /\ ToSet(s) \subseteq S
           /\ s # << >> => Head(s) \in ToSet(s)
           /\ s = << >> <=> ToSet(s) = {}
<1>1. DOMAIN s = 1..Len(s) /\ Len(s) \in Nat
  BY LenProperties
<1>2. ToSet(s) \subseteq S
  BY <1>1, ElementOfSeq DEF ToSet
<1>3. s # << >> => 1 \in DOMAIN s /\ Head(s) = s[1]
  BY <1>1, EmptySeq
<1>4. s = << >> => ToSet(s) = {}
  BY <1>1 DEF ToSet
<1> QED
  BY <1>2, <1>3, <1>4 DEF ToSet

\* push_back adds one element.
LEMMA AppendElement ==
    ASSUME NEW S, NEW s \in Seq(S), NEW e \in S
    PROVE  /\ Append(s, e) \in Seq(S)
           /\ ToSet(Append(s, e)) = ToSet(s) \cup {e}
           /\ Distinct(s) /\ e \notin ToSet(s) => Distinct(Append(s, e))
<1> DEFINE r == Append(s, e)
<1>1. /\ r \in Seq(S) /\ Len(r) = Len(s) + 1
      /\ \A i \in 1..Len(s) : r[i] = s[i]
      /\ r[Len(s) + 1] = e
  BY AppendProperties
<1>2. /\ DOMAIN s = 1..Len(s) /\ DOMAIN r = 1..(Len(s) + 1) /\ Len(s) \in Nat
  BY <1>1, LenProperties
<1> HIDE DEF r
<1>3. ToSet(r) = ToSet(s) \cup {e}
  <2>1. ASSUME NEW x \in ToSet(r) PROVE x \in ToSet(s) \cup {e}
    BY <1>1, <1>2, <2>1 DEF ToSet
  <2>2. ASSUME NEW x \in ToSet(s) \cup {e} PROVE x \in ToSet(r)
    <3>1. CASE x = e
      BY <3>1, <1>1, <1>2 DEF ToSet
    <3>2. CASE x \in ToSet(s)
      <4>1. PICK i \in 1..Len(s) : x = s[i]
        BY <3>2, <1>2 DEF ToSet
      <4> QED
        BY <4>1, <1>1, <1>2 DEF ToSet
    <3> QED
      BY <3>1, <3>2
  <2> QED
    BY <2>1, <2>2
<1>4. Distinct(s) /\ e \notin ToSet(s) => Distinct(r)
  BY <1>1, <1>2 DEF Distinct, ToSet
<1> QED
  BY <1>1, <1>3, <1>4 DEF r

\* What RemoveAt leaves at every position.
LEMMA RemoveAtElements ==
    ASSUME NEW S, NEW s \in Seq(S), NEW k \in 1..Len(s)
    PROVE  /\ RemoveAt(s, k) \in Seq(S)
           /\ Len(RemoveAt(s, k)) = Len(s) - 1
           /\ \A j \in 1..(Len(s) - 1) :
                RemoveAt(s, k)[j] = IF j < k THEN s[j] ELSE s[j + 1]
<1> DEFINE u == SubSeq(s, 1, k - 1)
           v == SubSeq(s, k + 1, Len(s))
<1>1. Len(s) \in Nat /\ \A i \in 1..Len(s) : s[i] \in S
  BY LenProperties, ElementOfSeq
<1>2. /\ u \in Seq(S) /\ Len(u) = k - 1
      /\ \A i \in 1..(k - 1) : u[i] = s[i]
  <2>1. \A i \in 1..(k - 1) : s[i] \in S
    BY <1>1
  <2>2. /\ u \in Seq(S) /\ Len(u) = IF 1 <= k - 1 THEN k - 1 - 1 + 1 ELSE 0
        /\ \A i \in 1..(k - 1 - 1 + 1) : u[i] = s[1 + i - 1]
    BY <2>1, <1>1, SubSeqProperties
  <2> QED
    BY <2>2, <1>1
<1>3. /\ v \in Seq(S) /\ Len(v) = Len(s) - k
      /\ \A i \in 1..(Len(s) - k) : v[i] = s[k + i]
  <2>1. \A i \in (k + 1)..Len(s) : s[i] \in S
    BY <1>1
  <2>2. /\ v \in Seq(S) /\ Len(v) = IF k + 1 <= Len(s) THEN Len(s) - (k + 1) + 1 ELSE 0
        /\ \A i \in 1..(Len(s) - (k + 1) + 1) : v[i] = s[k + 1 + i - 1]
    BY <2>1, <1>1, SubSeqProperties
  <2> QED
    BY <2>2, <1>1
<1> HIDE DEF u, v
<1>4. /\ u \o v \in Seq(S) /\ Len(u \o v) = Len(u) + Len(v)
      /\ \A i \in 1..(Len(u) + Len(v)) :
           (u \o v)[i] = IF i <= Len(u) THEN u[i] ELSE v[i - Len(u)]
  BY <1>2, <1>3, ConcatProperties
<1>5. RemoveAt(s, k) = u \o v
  BY DEF RemoveAt, u, v
<1>6. \A j \in 1..(Len(s) - 1) :
         (u \o v)[j] = IF j < k THEN s[j] ELSE s[j + 1]
  <2> SUFFICES ASSUME NEW j \in 1..(Len(s) - 1)
               PROVE  (u \o v)[j] = IF j < k THEN s[j] ELSE s[j + 1]
    OBVIOUS
  <2>1. j \in 1..(Len(u) + Len(v))
    BY <1>1, <1>2, <1>3
  <2>2. CASE j < k
    BY <2>1, <2>2, <1>1, <1>2, <1>4
  <2>3. CASE ~(j < k)
    <3>1. j - Len(u) \in 1..(Len(s) - k) /\ ~(j <= Len(u))
      BY <2>3, <1>1, <1>2
    <3>2. (u \o v)[j] = v[j - Len(u)]
      BY <3>1, <2>1, <1>4
    <3>3. k + (j - Len(u)) = j + 1
      BY <1>1, <1>2
    <3> QED
      BY <3>1, <3>2, <3>3, <1>3, <2>3
  <2> QED
    BY <2>2, <2>3
<1>7. Len(u \o v) = Len(s) - 1
  BY <1>1, <1>2, <1>3, <1>4
<1> QED
  BY <1>4, <1>5, <1>6, <1>7, Zenon

\* remove() takes exactly the element away.
LEMMA RemoveElement ==
    ASSUME NEW S, NEW s \in Seq(S), Distinct(s), NEW e \in ToSet(s)
    PROVE  /\ Without(s, e) \in Seq(S)
           /\ ToSet(Without(s, e)) = ToSet(s) \ {e}
           /\ Distinct(Without(s, e))
<1> DEFINE k == Pos(s, e)
           r == Without(s, e)
<1>1. /\ DOMAIN s = 1..Len(s) /\ Len(s) \in Nat
  BY LenProperties
<1>2. k \in 1..Len(s) /\ s[k] = e
  BY <1>1 DEF ToSet, Pos
<1>3. /\ r \in Seq(S) /\ Len(r) = Len(s) - 1
      /\ \A j \in 1..(Len(s) - 1) : r[j] = IF j < k THEN s[j] ELSE s[j + 1]
  BY <1>2, RemoveAtElements DEF Without
<1>4. DOMAIN r = 1..(Len(s) - 1)
  BY <1>3, LenProperties
<1> HIDE DEF r, k
<1>5. ASSUME NEW x \in ToSet(r) PROVE x \in ToSet(s) \ {e}
  <2>1. PICK j \in 1..(Len(s) - 1) : x = r[j]
    BY <1>4, <1>5 DEF ToSet
  <2>2. CASE j < k
    <3>1. j \in 1..Len(s) /\ j # k /\ x = s[j]
      BY <2>1, <2>2, <1>1, <1>2, <1>3
    <3> QED
      BY <3>1, <1>1, <1>2 DEF ToSet, Distinct
  <2>3. CASE ~(j < k)
    <3>1. j + 1 \in 1..Len(s) /\ j + 1 # k /\ x = s[j + 1]
      BY <2>1, <2>3, <1>1, <1>2, <1>3
    <3> QED
      BY <3>1, <1>1, <1>2 DEF ToSet, Distinct
  <2> QED
    BY <2>2, <2>3
<1>6. ASSUME NEW x \in ToSet(s) \ {e} PROVE x \in ToSet(r)
  <2>1. PICK i \in 1..Len(s) : x = s[i]
    BY <1>1, <1>6 DEF ToSet
  <2>2. i # k
    BY <2>1, <1>2, <1>6
  <2>3. CASE i < k
    <3>1. i \in 1..(Len(s) - 1) /\ r[i] = s[i]
      BY <2>3, <1>1, <1>2, <1>3
    <3> QED
      BY <3>1, <2>1, <1>4 DEF ToSet
  <2>4. CASE i > k
    <3>1. i - 1 \in 1..(Len(s) - 1) /\ ~(i - 1 < k) /\ (i - 1) + 1 = i
      BY <2>4, <1>1, <1>2
    <3>2. r[i - 1] = s[i]
      BY <3>1, <1>3
    <3> QED
      BY <3>1, <3>2, <2>1, <1>4 DEF ToSet
  <2> QED
    BY <2>2, <2>3, <2>4, <1>1, <1>2
<1>7. Distinct(r)
  <2> SUFFICES ASSUME NEW i \in 1..(Len(s) - 1), NEW j \in 1..(Len(s) - 1), r[i] = r[j]
               PROVE  i = j
    BY <1>4 DEF Distinct
  <2>1. i \in 1..Len(s) /\ j \in 1..Len(s) /\ i + 1 \in 1..Len(s) /\ j + 1 \in 1..Len(s)
    BY <1>1
  <2>2. \A m, n \in 1..Len(s) : s[m] = s[n] => m = n
    BY <1>1 DEF Distinct
  <2>3. CASE i < k /\ j < k
    BY <2>1, <2>2, <2>3, <1>3
  <2>4. CASE i < k /\ ~(j < k)
    <3>1. s[i] = s[j + 1]
      BY <2>4, <1>3
    <3> QED
      BY <3>1, <2>1, <2>2, <2>4, <1>2
  <2>5. CASE ~(i < k) /\ j < k
    <3>1. s[i + 1] = s[j]
      BY <2>5, <1>3
    <3> QED
      BY <3>1, <2>1, <2>2, <2>5, <1>2
  <2>6. CASE ~(i < k) /\ ~(j < k)
    <3>1. s[i + 1] = s[j + 1]
      BY <2>6, <1>3
    <3> QED
      BY <3>1, <2>1, <2>2, <1>1
  <2> QED
    BY <2>3, <2>4, <2>5, <2>6
<1> QED
  BY <1>3, <1>5, <1>6, <1>7 DEF r

\* r is s with e inserted at position k.
Inserted(r, s, k, e, S) ==
    /\ r \in Seq(S)
    /\ Len(r) = Len(s) + 1
    /\ \A j \in 1..(k - 1) : r[j] = s[j]
    /\ r[k] = e
    /\ \A j \in (k + 1)..(Len(s) + 1) : r[j] = s[j - 1]

\* What InsertAt leaves at every position.
LEMMA InsertAtElements ==
    ASSUME NEW S, NEW s \in Seq(S), NEW k \in 1..(Len(s) + 1), NEW e \in S
    PROVE  Inserted(InsertAt(s, k, e), s, k, e, S)
<1> DEFINE u == SubSeq(s, 1, k - 1)
           w == u \o <<e>>
           v == SubSeq(s, k, Len(s))
<1>1. Len(s) \in Nat /\ \A i \in 1..Len(s) : s[i] \in S
  BY LenProperties, ElementOfSeq
<1>2. /\ u \in Seq(S) /\ Len(u) = k - 1
      /\ \A i \in 1..(k - 1) : u[i] = s[i]
  <2>1. \A i \in 1..(k - 1) : s[i] \in S
    BY <1>1
  <2>2. /\ u \in Seq(S) /\ Len(u) = IF 1 <= k - 1 THEN k - 1 - 1 + 1 ELSE 0
        /\ \A i \in 1..(k - 1 - 1 + 1) : u[i] = s[1 + i - 1]
    BY <2>1, <1>1, SubSeqProperties
  <2> QED
    BY <2>2, <1>1
<1>3. /\ v \in Seq(S) /\ Len(v) = Len(s) - k + 1
      /\ \A i \in 1..(Len(s) - k + 1) : v[i] = s[k + i - 1]
  <2>1. \A i \in k..Len(s) : s[i] \in S
    BY <1>1
  <2>2. /\ v \in Seq(S) /\ Len(v) = IF k <= Len(s) THEN Len(s) - k + 1 ELSE 0
        /\ \A i \in 1..(Len(s) - k + 1) : v[i] = s[k + i - 1]
    BY <2>1, <1>1, SubSeqProperties
  <2> QED
    BY <2>2, <1>1
<1> HIDE DEF u, v
<1>4. /\ w \in Seq(S) /\ Len(w) = k
      /\ \A i \in 1..(k - 1) : w[i] = s[i]
      /\ w[k] = e
  <2>1. w = Append(u, e)
    BY <1>2, AppendIsConcat
  <2>2. /\ Append(u, e) \in Seq(S) /\ Len(Append(u, e)) = Len(u) + 1
        /\ \A i \in 1..Len(u) : Append(u, e)[i] = u[i]
        /\ Append(u, e)[Len(u) + 1] = e
    BY <1>2, AppendProperties
  <2>3. Len(u) + 1 = k
    BY <1>2
  <2> HIDE DEF w
  <2> QED
    BY <2>1, <2>2, <2>3, <1>2
<1> HIDE DEF w
<1>5. /\ w \o v \in Seq(S) /\ Len(w \o v) = Len(w) + Len(v)
      /\ \A i \in 1..(Len(w) + Len(v)) :
           (w \o v)[i] = IF i <= Len(w) THEN w[i] ELSE v[i - Len(w)]
  BY <1>3, <1>4, ConcatProperties
<1>6. InsertAt(s, k, e) = w \o v
  BY DEF InsertAt, u, v, w
<1>7. Len(w) + Len(v) = Len(s) + 1
  BY <1>1, <1>3, <1>4
<1>8. /\ \A j \in 1..(k - 1) : (w \o v)[j] = s[j]
      /\ (w \o v)[k] = e
      /\ \A j \in (k + 1)..(Len(s) + 1) : (w \o v)[j] = s[j - 1]
  <2>1. \A j \in 1..(Len(s) + 1) : (w \o v)[j] = IF j <= k THEN w[j] ELSE v[j - k]
    BY <1>4, <1>5, <1>7
  <2>2. ASSUME NEW j \in 1..(k - 1) PROVE (w \o v)[j] = s[j]
    BY <2>1, <1>4, <1>1
  <2>3. (w \o v)[k] = e
    BY <2>1, <1>4, <1>1
  <2>4. ASSUME NEW j \in (k + 1)..(Len(s) + 1) PROVE (w \o v)[j] = s[j - 1]
    <3>1. /\ j - k \in 1..(Len(s) - k + 1) /\ ~(j <= k) /\ k + (j - k) - 1 = j - 1
          /\ j \in 1..(Len(s) + 1)
      BY <1>1
    <3> QED
      BY <3>1, <2>1, <1>3
  <2> QED
    BY <2>2, <2>3, <2>4
<1>9. Len(w \o v) = Len(s) + 1
  BY <1>5, <1>7
<1> QED
  BY <1>5, <1>6, <1>8, <1>9, Zenon DEF Inserted

\* insert_after and push_front add one element.
LEMMA InsertElement ==
    ASSUME NEW S, NEW s \in Seq(S), NEW k \in 1..(Len(s) + 1), NEW e \in S
    PROVE  /\ InsertAt(s, k, e) \in Seq(S)
           /\ ToSet(InsertAt(s, k, e)) = ToSet(s) \cup {e}
           /\ Distinct(s) /\ e \notin ToSet(s) => Distinct(InsertAt(s, k, e))
<1> DEFINE r == InsertAt(s, k, e)
<1>1. DOMAIN s = 1..Len(s) /\ Len(s) \in Nat
  BY LenProperties
<1> HIDE DEF r
<1>2. /\ r \in Seq(S) /\ Len(r) = Len(s) + 1
      /\ \A j \in 1..(k - 1) : r[j] = s[j]
      /\ r[k] = e
      /\ \A j \in (k + 1)..(Len(s) + 1) : r[j] = s[j - 1]
  <2>1. r = InsertAt(s, k, e)
    BY DEF r
  <2>2. Inserted(InsertAt(s, k, e), s, k, e, S)
    BY InsertAtElements, Zenon
  <2> QED
    BY <2>1, <2>2, Zenon DEF Inserted
<1>3. DOMAIN r = 1..(Len(s) + 1)
  BY <1>2, LenProperties
<1>4. ASSUME NEW x \in ToSet(r) PROVE x \in ToSet(s) \cup {e}
  <2>1. PICK j \in 1..(Len(s) + 1) : x = r[j]
    BY <1>3, <1>4 DEF ToSet
  <2>2. CASE j < k
    <3>1. j \in 1..Len(s) /\ j \in 1..(k - 1)
      BY <2>2, <1>1
    <3>2. x = s[j]
      BY <3>1, <2>1, <1>2
    <3> QED
      BY <3>1, <3>2, <1>1 DEF ToSet
  <2>3. CASE j = k
    BY <2>1, <2>3, <1>2
  <2>4. CASE j > k
    <3>1. j - 1 \in 1..Len(s) /\ x = s[j - 1]
      BY <2>1, <2>4, <1>1, <1>2
    <3> QED
      BY <3>1, <1>1 DEF ToSet
  <2> QED
    BY <2>2, <2>3, <2>4
<1>5. ASSUME NEW x \in ToSet(s) \cup {e} PROVE x \in ToSet(r)
  <2>1. CASE x = e
    <3>1. r[k] = e
      BY <1>1, <1>2
    <3> QED
      BY <3>1, <2>1, <1>3 DEF ToSet
  <2>2. CASE x \in ToSet(s)
    <3>1. PICK i \in 1..Len(s) : x = s[i]
      BY <2>2, <1>1 DEF ToSet
    <3>2. CASE i < k
      <4>1. i \in 1..(Len(s) + 1) /\ r[i] = s[i]
        BY <3>2, <1>1, <1>2
      <4> QED
        BY <4>1, <3>1, <1>3 DEF ToSet
    <3>3. CASE ~(i < k)
      <4>1. i + 1 \in 1..(Len(s) + 1) /\ ~(i + 1 < k) /\ i + 1 # k /\ (i + 1) - 1 = i
        BY <3>3, <1>1
      <4>2. r[i + 1] = s[i]
        BY <4>1, <1>2
      <4> QED
        BY <4>1, <4>2, <3>1, <1>3 DEF ToSet
    <3> QED
      BY <3>2, <3>3
  <2> QED
    BY <2>1, <2>2, <1>5
<1>6. ASSUME Distinct(s), e \notin ToSet(s) PROVE Distinct(r)
  <2> SUFFICES ASSUME NEW i \in 1..(Len(s) + 1), NEW j \in 1..(Len(s) + 1), r[i] = r[j], i < j
               PROVE  FALSE
    BY <1>1, <1>3 DEF Distinct
  <2>1. \A m, n \in 1..Len(s) : s[m] = s[n] => m = n
    BY <1>1, <1>6 DEF Distinct
  <2>2. \A m \in 1..Len(s) : s[m] # e
    BY <1>1, <1>6 DEF ToSet
  <2>3. CASE j < k
    BY <2>1, <2>3, <1>1, <1>2
  <2>4. CASE j = k
    BY <2>2, <2>4, <1>1, <1>2
  <2>5. CASE j > k /\ i < k
    <3>1. r[i] = s[i] /\ r[j] = s[j - 1] /\ i \in 1..Len(s) /\ j - 1 \in 1..Len(s) /\ i # j - 1
      BY <2>5, <1>1, <1>2
    <3> QED
      BY <3>1, <2>1
  <2>6. CASE j > k /\ i = k
    <3>1. j \in (k + 1)..(Len(s) + 1) /\ j - 1 \in 1..Len(s)
      BY <2>6, <1>1
    <3>2. r[i] = e
      BY <2>6, <1>2
    <3>3. r[j] = s[j - 1]
      BY <3>1, <1>2
    <3> QED
      BY <3>1, <3>2, <3>3, <2>2
  <2>7. CASE j > k /\ i > k
    <3>1. /\ r[i] = s[i - 1] /\ r[j] = s[j - 1]
          /\ i - 1 \in 1..Len(s) /\ j - 1 \in 1..Len(s) /\ i - 1 # j - 1
      BY <2>7, <1>1, <1>2
    <3> QED
      BY <3>1, <2>1
  <2> QED
    BY <2>3, <2>4, <2>5, <2>6, <2>7
<1> QED
  BY <1>2, <1>4, <1>5, <1>6 DEF r

\* Popping the front takes exactly the front away.
LEMMA PopFront ==
    ASSUME NEW S, NEW s \in Seq(S), Distinct(s), s # << >>
    PROVE  /\ Tail(s) \in Seq(S)
           /\ ToSet(Tail(s)) = ToSet(s) \ {Head(s)}
           /\ Distinct(Tail(s))
<1>1. DOMAIN s = 1..Len(s) /\ Len(s) \in Nat \ {0} /\ Head(s) = s[1]
  BY LenProperties, EmptySeq
<1> DEFINE r == Tail(s)
<1>2. r \in Seq(S) /\ Len(r) = Len(s) - 1 /\ \A i \in 1..Len(r) : r[i] = s[i + 1]
  BY HeadTailProperties
<1>3. DOMAIN r = 1..(Len(s) - 1)
  BY <1>2, LenProperties
<1>4. ASSUME NEW x \in ToSet(r) PROVE x \in ToSet(s) \ {Head(s)}
  <2>1. PICK j \in 1..(Len(s) - 1) : x = r[j]
    BY <1>3, <1>4 DEF ToSet
  <2>2. j + 1 \in 1..Len(s) /\ x = s[j + 1] /\ j + 1 # 1
    BY <2>1, <1>1, <1>2
  <2> QED
    BY <2>2, <1>1 DEF ToSet, Distinct
<1>5. ASSUME NEW x \in ToSet(s) \ {Head(s)} PROVE x \in ToSet(r)
  <2>1. PICK i \in 1..Len(s) : x = s[i]
    BY <1>1, <1>5 DEF ToSet
  <2>2. i # 1
    BY <2>1, <1>1, <1>5
  <2>3. i - 1 \in 1..(Len(s) - 1) /\ r[i - 1] = s[(i - 1) + 1] /\ (i - 1) + 1 = i
    BY <2>2, <1>1, <1>2
  <2> QED
    BY <2>1, <2>3, <1>3 DEF ToSet
<1>6. Distinct(r)
  <2> SUFFICES ASSUME NEW i \in 1..(Len(s) - 1), NEW j \in 1..(Len(s) - 1), r[i] = r[j]
               PROVE  i = j
    BY <1>3 DEF Distinct
  <2>1. /\ s[i + 1] = s[j + 1]
        /\ i + 1 \in 1..Len(s) /\ j + 1 \in 1..Len(s)
    BY <1>1, <1>2
  <2>2. i + 1 = j + 1
    BY <2>1, <1>1 DEF Distinct
  <2> QED
    BY <2>2, <1>1
<1> QED
  BY <1>2, <1>4, <1>5, <1>6 DEF r

\* An element is at one position of a list at most.
LEMMA Occurrences ==
    ASSUME NEW S, NEW s \in Seq(S), Distinct(s), NEW x
    PROVE  Cardinality({i \in DOMAIN s : s[i] = x}) = One(x, ToSet(s))
<1> DEFINE P == {i \in DOMAIN s : s[i] = x}
<1>1. CASE x \in ToSet(s)
  <2>1. PICK k \in DOMAIN s : s[k] = x
    BY <1>1 DEF ToSet
  <2>2. P = {k}
    BY <2>1 DEF Distinct
  <2> HIDE DEF P
  <2>3. Cardinality(P) = 1
    BY <2>2, FS_Singleton
  <2> QED
    BY <1>1, <2>3 DEF One, P
<1>2. CASE x \notin ToSet(s)
  <2>1. P = {}
    BY <1>2 DEF ToSet
  <2> HIDE DEF P
  <2>2. Cardinality(P) = 0
    BY <2>1, FS_EmptySet
  <2> QED
    BY <1>2, <2>2 DEF One, P
<1> QED
  BY <1>1, <1>2

=============================================================================
