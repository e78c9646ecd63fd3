--------------------------- MODULE HostDriverProofs ---------------------------
(***************************************************************************)
(* What programs reach in the host of the emulator: its files, through the *)
(* file services, and its serial port.  For any number of threads, files   *)
(* and handles, and any devices: the free lists of the two pools, the      *)
(* reference counts, the files open in the host and the directory.  For    *)
(* any set of requests to the port: the books of the requests and of the   *)
(* interrupts, the answers of unshared directions, and the control codes,  *)
(* for any settings.                                                       *)
(***************************************************************************)
EXTENDS FileServices, HostSerial, CommonTheorems

(***************************************************************************)
(* The file services: what holds between the steps of the calls            *)
(***************************************************************************)
\* Where a call holds a reference to its file, and where it ends the file.
Holding == {"open", "handle", "store", "io", "release"}
Ending == {"destroy", "push"}

FilesTyped ==
    /\ files \in FreeList(Files) /\ handles \in FreeList(Handles)
    /\ refs \in [FileIds -> Nat]
    /\ object \in [HandleIds -> 0..Files]
    /\ host \subseteq HostFiles
    /\ pc \in [Threads -> {"idle", "file", "open", "handle", "store", "look",
                           "io", "release", "drop", "destroy", "push", "free"}]
    /\ f \in [Threads -> 0..Files] /\ h \in [Threads -> 0..Handles]

\* What a call knows at its place of its file and of its handle.
PlaceOf(t) ==
    /\ f[t] # Nil <=> pc[t] \in Holding \cup Ending
    /\ h[t] # Nil => pc[t] \in {"store", "look", "drop", "free"} \cup Ending
    /\ pc[t] \in {"store", "look", "drop", "free"} => h[t] # Nil
    /\ h[t] # Nil => (object[h[t]] = Nil <=> pc[t] = "store")
    /\ pc[t] = "open" => refs[f[t]] = 1
    /\ pc[t] \in Ending => refs[f[t]] = 0

\* A handle is in the hands of one call, and a file that ends too.
OneOwner ==
    \A t, u \in Threads :
        /\ h[t] = h[u] /\ h[t] # Nil => t = u
        /\ f[t] = f[u] /\ pc[t] \in Ending => t = u

Places == (\A t \in Threads : PlaceOf(t)) /\ OneOwner

\* The device and the path a file is opened at, or none.
IsTarget(d) ==
    /\ d = <<d[1], d[2]>> /\ d[1] \in Devices \cup {Dev}
    /\ d[1] = Dev => d = NoDevice

\* A call hands what find_device returned to the file it allocates; a file has a
\* device as long as it is referred to or about to be destroyed.
Targets ==
    /\ device = [x \in FileIds |-> device[x]] /\ \A x \in FileIds : IsTarget(device[x])
    /\ target = [t \in Threads |-> target[t]] /\ \A t \in Threads : IsTarget(target[t])
    /\ \A t \in Threads : pc[t] \in {"file", "open"} => target[t] # NoDevice
    /\ \A t \in Threads : pc[t] = "open" => target[t] = device[f[t]]
    /\ \A x \in FileIds : device[x] # NoDevice =>
           refs[x] > 0 \/ \E t \in Threads : f[t] = x /\ pc[t] = "destroy"

InUse(x) == Handled(x) # {} \/ \E t \in Threads : f[t] = x /\ pc[t] \in {"handle", "store", "io"}

Opened(x) == device[x] # NoDevice /\ ~\E t \in Threads : f[t] = x /\ pc[t] = "open"

\* The files opened at fs0 and the files open in the host are the same.
HostOpen ==
    /\ \A x \in FileIds : InUse(x) => device[x] # NoDevice
    /\ \A x \in FileIds : Opened(x) /\ device[x][1] = Fs0 => device[x][2] \in host
    /\ \A x, y \in FileIds :
           Opened(x) /\ Opened(y) /\ device[x][1] = Fs0 /\ device[x] = device[y] => x = y
    /\ \A p \in host : \E x \in FileIds : Opened(x) /\ device[x] = <<Fs0, p>>

\* The directory is sorted and holds what was attached.
Sorted(s) == \A i, j \in 1..Len(s) : i < j => s[i] < s[j]

DirectoryInv ==
    /\ items \in Seq(Devices) /\ Sorted(items) /\ attached = ToSet(items)
    /\ booted \in BOOLEAN

(***************************************************************************)
(* The file services: the free list of a pool                              *)
(***************************************************************************)
\* Element i of a list, or null behind its end.
Link(s, i) == IF i \in 1..Len(s) THEN s[i] ELSE Nil

\* The pool links the entries s, from the head on and each to the next.
Chain(pool, n, s) ==
    /\ pool \in FreeList(n) /\ s \in Seq(1..n) /\ Distinct(s)
    /\ pool.head = Link(s, 1)
    /\ \A i \in 1..Len(s) : pool.next[s[i]] = Link(s, i + 1)

\* The free list of the pool holds the entries S.
PoolHolds(pool, n, S) == \E s : Chain(pool, n, s) /\ ToSet(s) = S

\* No entry is in the list twice, so the list is no longer than the pool.
LEMMA ChainBounded ==
    ASSUME NEW n \in Nat, NEW pool, NEW s, Chain(pool, n, s)
    PROVE  Len(s) \in 0..n
<1>1. Len(s) \in Nat /\ s \in [1..Len(s) -> 1..n] /\ DOMAIN s = 1..Len(s)
  BY LenProperties DEF Chain
<1>2. ASSUME NEW m \in Nat PROVE IsFiniteSet(1..m) /\ Cardinality(1..m) = m
  BY FS_Interval
<1>3. IsFiniteSet(1..Len(s)) /\ Cardinality(1..Len(s)) = Len(s)
  BY <1>1, <1>2
<1>4. \A x, y \in 1..Len(s) : s[x] = s[y] => x = y
  BY <1>1 DEF Chain, Distinct
<1>5. ASSUME n < Len(s) PROVE FALSE
  <2> DEFINE T == 1..n
             D == 1..Len(s)
  <2>1. IsFiniteSet(D) /\ IsFiniteSet(T) /\ Cardinality(T) < Cardinality(D) /\ s \in [D -> T]
    BY <1>1, <1>2, <1>3, <1>5
  <2>2. \A x, y \in D : s[x] = s[y] => x = y
    BY <1>4
  <2> HIDE DEF T, D
  <2>3. \E x, y \in D : x # y /\ s[x] = s[y]
    BY <2>1, FS_PigeonHole, Zenon
  <2> QED
    BY <2>2, <2>3
<1> QED
  BY <1>1, <1>5

\* The walk from the head passes the entries and then stays at null.
LEMMA ChainWalk ==
    ASSUME NEW n \in Nat, NEW pool, NEW s, Chain(pool, n, s)
    PROVE  \A k \in 0..n : Walk(pool, n)[k] = Link(s, k + 1)
<1> DEFINE w[k \in 0..n] ==
               IF k = 0 THEN pool.head
               ELSE IF w[k - 1] = Nil THEN Nil ELSE pool.next[w[k - 1]]
           g == [k \in 0..n |-> Link(s, k + 1)]
<1>1. w = CHOOSE v : v = [k \in 0..n |->
               IF k = 0 THEN pool.head
               ELSE IF v[k - 1] = Nil THEN Nil ELSE pool.next[v[k - 1]]]
  BY DEF w
<1>2. Walk(pool, n) = w
  BY DEF Walk, w
<1>3. ASSUME NEW k \in 0..n
      PROVE  g[k] = IF k = 0 THEN pool.head
                    ELSE IF g[k - 1] = Nil THEN Nil ELSE pool.next[g[k - 1]]
  <2>1. Len(s) \in Nat /\ \A i \in 1..Len(s) : s[i] \in 1..n
    BY LenProperties, ElementOfSeq DEF Chain
  <2>2. CASE k = 0
    BY <2>2 DEF Chain
  <2>3. CASE k # 0
    <3>1. k - 1 \in 0..n /\ (k - 1) + 1 = k /\ k \in 1..n
      BY <2>3
    <3>2. g[k] = Link(s, k + 1) /\ g[k - 1] = Link(s, k)
      BY <3>1
    <3>3. CASE k \in 1..Len(s)
      <4>1. Link(s, k) = s[k] /\ s[k] # Nil
        BY <3>3, <2>1 DEF Link, Nil
      <4>2. pool.next[s[k]] = Link(s, k + 1)
        BY <3>3 DEF Chain
      <4> QED
        BY <2>3, <3>2, <4>1, <4>2
    <3>4. CASE k \notin 1..Len(s)
      <4>1. Link(s, k) = Nil /\ Link(s, k + 1) = Nil
        BY <3>1, <3>4, <2>1 DEF Link
      <4> QED
        BY <2>3, <3>2, <4>1
    <3> QED
      BY <3>3, <3>4
  <2> QED
    BY <2>2, <2>3
<1>4. g = [k \in 0..n |-> IF k = 0 THEN pool.head
                          ELSE IF g[k - 1] = Nil THEN Nil ELSE pool.next[g[k - 1]]]
  BY <1>3
<1> HIDE DEF w
<1>5. w = [k \in 0..n |-> IF k = 0 THEN pool.head
                          ELSE IF w[k - 1] = Nil THEN Nil ELSE pool.next[w[k - 1]]]
  <2> HIDE DEF g
  <2> QED
    BY <1>1, <1>4
<1>6. \A k \in 0..n : w[k] = g[k]
  <2> DEFINE W == {k \in 0..n : w[k] # g[k]}
  <2> SUFFICES ASSUME W # {} PROVE FALSE
    OBVIOUS
  <2>1. W \in SUBSET Nat
    OBVIOUS
  <2> DEFINE m == Min(W)
  <2>2. m \in W /\ \A y \in W : m <= y
    <3> HIDE DEF W
    <3> QED
      BY <2>1, MinInSet
  <2> HIDE DEF m, g
  <2>3. m \in 0..n /\ w[m] # g[m]
    BY <2>2
  <2>4. m # 0
    BY <1>4, <1>5, <2>3
  <2>5. m - 1 \in 0..n /\ ~(m <= m - 1)
    BY <2>3, <2>4
  <2>6. w[m - 1] = g[m - 1]
    BY <2>2, <2>5
  <2>7. w[m] = IF w[m - 1] = Nil THEN Nil ELSE pool.next[w[m - 1]]
    BY <1>5, <2>3, <2>4
  <2>8. g[m] = IF g[m - 1] = Nil THEN Nil ELSE pool.next[g[m - 1]]
    BY <1>4, <2>3, <2>4
  <2> QED
    BY <2>3, <2>6, <2>7, <2>8
<1> QED
  BY <1>2, <1>6

\* The free list ends, and it holds what Free says.
LEMMA PoolFree ==
    ASSUME NEW n \in Nat, NEW pool, NEW S, PoolHolds(pool, n, S)
    PROVE  Walk(pool, n)[n] = Nil /\ Free(pool, n) = S
<1>1. PICK s : Chain(pool, n, s) /\ ToSet(s) = S
  BY DEF PoolHolds
<1>2. Len(s) \in 0..n /\ \A k \in 0..n : Walk(pool, n)[k] = Link(s, k + 1)
  BY <1>1, ChainBounded, ChainWalk
<1>3. DOMAIN s = 1..Len(s) /\ \A i \in 1..Len(s) : s[i] \in 1..n
  BY <1>1, LenProperties, ElementOfSeq DEF Chain
<1>4. Walk(pool, n)[n] = Nil
  BY <1>2 DEF Link
<1>5. ASSUME NEW x \in Free(pool, n) PROVE x \in S
  <2>1. PICK k \in 0..n : x = Link(s, k + 1) /\ x # Nil
    BY <1>2 DEF Free
  <2>2. k + 1 \in 1..Len(s) /\ x = s[k + 1]
    BY <2>1 DEF Link
  <2> QED
    BY <2>2, <1>1, <1>3 DEF ToSet
<1>6. ASSUME NEW x \in S PROVE x \in Free(pool, n)
  <2>1. PICK i \in 1..Len(s) : x = s[i]
    BY <1>1, <1>3 DEF ToSet
  <2>2. i - 1 \in 0..n /\ (i - 1) + 1 = i
    BY <1>2
  <2>3. Walk(pool, n)[i - 1] = x
    BY <1>2, <2>1, <2>2 DEF Link
  <2>4. x # Nil
    BY <1>3, <2>1 DEF Nil
  <2> QED
    BY <2>2, <2>3, <2>4 DEF Free
<1> QED
  BY <1>4, <1>5, <1>6

\* Taking the head takes exactly that entry from the list.
LEMMA PoolPop ==
    ASSUME NEW n \in Nat, NEW pool, NEW S, PoolHolds(pool, n, S), pool.head # Nil
    PROVE  pool.head \in S /\ PoolHolds(Pop(pool), n, S \ {pool.head})
<1>1. PICK s : Chain(pool, n, s) /\ ToSet(s) = S
  BY DEF PoolHolds
<1>2. s \in Seq(1..n) /\ Distinct(s) /\ pool.head = Link(s, 1)
  BY <1>1 DEF Chain
<1>3. s # << >> /\ 1 \in 1..Len(s) /\ Len(s) \in Nat /\ Head(s) = s[1] /\ pool.head = s[1]
  BY <1>2, LenProperties, EmptySeq DEF Link
<1>4. pool.head \in S
  BY <1>1, <1>2, <1>3, LenProperties DEF ToSet
<1> DEFINE r == Tail(s)
<1>5. r \in Seq(1..n) /\ Distinct(r) /\ ToSet(r) = S \ {pool.head}
  BY <1>1, <1>2, <1>3, PopFront
<1>6. Len(r) = Len(s) - 1 /\ \A i \in 1..Len(r) : r[i] = s[i + 1]
  BY <1>2, <1>3, HeadTailProperties
<1> HIDE DEF r
<1>7. ASSUME NEW i \in 1..Len(s) PROVE Link(r, i) = Link(s, i + 1)
  BY <1>3, <1>6 DEF Link
<1>8. /\ Pop(pool) \in FreeList(n)
      /\ Pop(pool).head = pool.next[pool.head] /\ Pop(pool).next = pool.next
  <2>1. pool \in FreeList(n) /\ pool.head \in 1..n
    BY <1>1, <1>2, <1>3, ElementOfSeq DEF Chain
  <2> QED
    BY <2>1 DEF Pop, FreeList
<1>9. pool.next[s[1]] = Link(s, 2)
  BY <1>1, <1>3 DEF Chain
<1>10. Pop(pool).head = Link(r, 1)
  BY <1>3, <1>7, <1>8, <1>9
<1>11. ASSUME NEW i \in 1..Len(r) PROVE pool.next[r[i]] = Link(r, i + 1)
  <2>1. i + 1 \in 1..Len(s) /\ r[i] = s[i + 1]
    BY <1>3, <1>6
  <2>2. pool.next[s[i + 1]] = Link(s, (i + 1) + 1)
    BY <1>1, <2>1 DEF Chain
  <2> QED
    BY <2>1, <2>2, <1>7
<1>12. Chain(Pop(pool), n, r)
  BY <1>5, <1>8, <1>10, <1>11 DEF Chain
<1> QED
  BY <1>4, <1>5, <1>12 DEF PoolHolds

\* Putting an entry in front that is not in the list adds exactly that entry.
LEMMA PoolPush ==
    ASSUME NEW n \in Nat, NEW pool, NEW S, PoolHolds(pool, n, S), NEW x \in (1..n) \ S
    PROVE  PoolHolds(Push(pool, x), n, S \cup {x})
<1>1. PICK s : Chain(pool, n, s) /\ ToSet(s) = S
  BY DEF PoolHolds
<1>2. s \in Seq(1..n) /\ Distinct(s) /\ Len(s) \in Nat /\ DOMAIN s = 1..Len(s)
  BY <1>1, LenProperties DEF Chain
<1> DEFINE r == InsertAt(s, 1, x)
<1>3. 1 \in 1..(Len(s) + 1)
  BY <1>2
<1>4. r \in Seq(1..n) /\ Distinct(r) /\ ToSet(r) = S \cup {x}
  BY <1>1, <1>2, <1>3, InsertElement
<1>5. /\ Len(r) = Len(s) + 1 /\ r[1] = x
      /\ \A j \in (1 + 1)..(Len(s) + 1) : r[j] = s[j - 1]
  <2>1. Inserted(InsertAt(s, 1, x), s, 1, x, 1..n)
    BY <1>2, <1>3, InsertAtElements, Zenon
  <2> QED
    BY <2>1, Zenon DEF Inserted
<1> HIDE DEF r
<1>6. ASSUME NEW i \in 1..(Len(s) + 1) PROVE Link(r, i + 1) = Link(s, i)
  <2>1. CASE i = Len(s) + 1
    BY <2>1, <1>2, <1>5 DEF Link
  <2>2. CASE i # Len(s) + 1
    <3>1. i + 1 \in (1 + 1)..(Len(s) + 1) /\ (i + 1) - 1 = i /\ i \in 1..Len(s)
      BY <2>2, <1>2
    <3>2. r[i + 1] = s[i]
      BY <3>1, <1>5
    <3> QED
      BY <3>1, <3>2, <1>2, <1>5 DEF Link
  <2> QED
    BY <2>1, <2>2
<1>7. Link(r, 1) = x
  BY <1>2, <1>5 DEF Link
<1>8. /\ Push(pool, x) \in FreeList(n) /\ Push(pool, x).head = x
      /\ Push(pool, x).next[x] = pool.head
      /\ \A y \in (1..n) \ {x} : Push(pool, x).next[y] = pool.next[y]
  <2>1. pool \in FreeList(n)
    BY <1>1 DEF Chain
  <2> QED
    BY <2>1 DEF Push, FreeList
<1>9. ASSUME NEW i \in 1..Len(r) PROVE Push(pool, x).next[r[i]] = Link(r, i + 1)
  <2>1. CASE i = 1
    BY <2>1, <1>1, <1>3, <1>5, <1>6, <1>8 DEF Chain
  <2>2. CASE i # 1
    <3>1. i \in (1 + 1)..(Len(s) + 1) /\ i - 1 \in 1..Len(s) /\ (i - 1) + 1 = i
      BY <2>2, <1>2, <1>5
    <3>2. r[i] = s[i - 1] /\ s[i - 1] \in (1..n) \ {x}
      <4>1. s[i - 1] \in S /\ s[i - 1] \in 1..n
        BY <3>1, <1>1, <1>2, ElementOfSeq DEF ToSet
      <4> QED
        BY <3>1, <4>1, <1>5
    <3>3. pool.next[s[i - 1]] = Link(s, (i - 1) + 1)
      BY <3>1, <1>1 DEF Chain
    <3>4. Link(r, i + 1) = Link(s, i)
      BY <3>1, <1>6
    <3> QED
      BY <3>1, <3>2, <3>3, <3>4, <1>8
  <2> QED
    BY <2>1, <2>2
<1>10. Chain(Push(pool, x), n, r)
  BY <1>4, <1>7, <1>8, <1>9 DEF Chain
<1> QED
  BY <1>4, <1>10 DEF PoolHolds

\* The constructor of a segment links all entries.
LEMMA PoolSegment ==
    ASSUME NEW n \in Nat \ {0}
    PROVE  PoolHolds(Segment(n), n, 1..n)
<1> DEFINE s == [i \in 1..n |-> i]
<1>1. s \in Seq(1..n) /\ Len(s) = n /\ \A i \in 1..n : s[i] = i
  <2>1. s \in [1..n -> 1..n]
    OBVIOUS
  <2> QED
    BY <2>1, SeqDef, LenProperties
<1>2. Distinct(s) /\ ToSet(s) = 1..n
  BY <1>1 DEF Distinct, ToSet
<1>3. \A i \in 1..n : Link(s, i) = i
  BY <1>1 DEF Link
<1>4. Link(s, n + 1) = Nil
  BY <1>1 DEF Link
<1> HIDE DEF s
<1>5. Segment(n) \in FreeList(n)
  <2>1. \A i \in 1..n : (IF i = n THEN Nil ELSE i + 1) \in 0..n
    BY DEF Nil
  <2> QED
    BY <2>1 DEF Segment, FreeList
<1>6. Segment(n).head = 1 /\ \A i \in 1..n : Segment(n).next[i] = IF i = n THEN Nil ELSE i + 1
  BY DEF Segment
<1>7. \A i \in 1..n : Segment(n).next[s[i]] = Link(s, i + 1)
  <2> SUFFICES ASSUME NEW i \in 1..n PROVE Segment(n).next[i] = Link(s, i + 1)
    BY <1>1
  <2>1. CASE i = n
    BY <2>1, <1>4, <1>6
  <2>2. CASE i # n
    <3>1. i + 1 \in 1..n
      BY <2>2
    <3> QED
      BY <2>2, <3>1, <1>3, <1>6
  <2> QED
    BY <2>1, <2>2
<1>8. Chain(Segment(n), n, s)
  BY <1>1, <1>2, <1>3, <1>5, <1>6, <1>7 DEF Chain
<1> QED
  BY <1>2, <1>8 DEF PoolHolds

(***************************************************************************)
(* The file services: the directory                                        *)
(***************************************************************************)
\* Where the scan stops: everything before is smaller, and the item there, if
\* any, is not.
LEMMA PivotIs ==
    ASSUME items \in Seq(Devices), NEW d \in Devices
    PROVE  /\ Pivot(d) \in 1..Len(items) + 1
           /\ Pivot(d) <= Len(items) => items[Pivot(d)] >= d
           /\ \A j \in 1..Pivot(d) - 1 : items[j] < d
<1>1. Len(items) \in Nat /\ d \in Nat /\ \A i \in 1..Len(items) : items[i] \in Nat
  BY FileServicesAssumption, LenProperties, ElementOfSeq
<1> DEFINE T == {i \in 1..Len(items) + 1 : i <= Len(items) => items[i] >= d}
           m == Min(T)
<1>2. T \in SUBSET Nat /\ Len(items) + 1 \in T
  BY <1>1
<1>3. m \in T /\ \A y \in T : m <= y
  <2> HIDE DEF T
  <2> QED
    BY <1>2, MinInSet
<1> HIDE DEF m
<1>4. m \in 1..Len(items) + 1 /\ (m <= Len(items) => items[m] >= d)
  BY <1>3
<1>5. ASSUME NEW j \in 1..m - 1 PROVE items[j] < d
  <2>1. j \in 1..Len(items) /\ ~(m <= j)
    BY <1>1, <1>4
  <2>2. j \notin T
    BY <1>3, <2>1
  <2> QED
    BY <1>1, <2>1, <2>2
<1>6. \E i \in 1..Len(items) + 1 :
        /\ i <= Len(items) => items[i] >= d
        /\ \A j \in 1..i - 1 : items[j] < d
  BY <1>4, <1>5
<1> QED
  BY <1>6 DEF Pivot

\* The scan of a sorted directory finds exactly the names in it.
LEMMA FoundIs ==
    ASSUME items \in Seq(Devices), Sorted(items), NEW d \in Devices
    PROVE  Found(d) <=> d \in ToSet(items)
<1>1. /\ Len(items) \in Nat /\ d \in Nat /\ \A i \in 1..Len(items) : items[i] \in Nat
      /\ DOMAIN items = 1..Len(items)
  BY FileServicesAssumption, LenProperties, ElementOfSeq
<1> DEFINE k == Pivot(d)
<1>2. /\ k \in 1..Len(items) + 1
      /\ k <= Len(items) => items[k] >= d
      /\ \A j \in 1..k - 1 : items[j] < d
  BY PivotIs
<1>3. Found(d) <=> k <= Len(items) /\ items[k] = d
  BY DEF Found
<1> HIDE DEF k
<1>4. Found(d) => d \in ToSet(items)
  BY <1>1, <1>2, <1>3 DEF ToSet
<1>5. ASSUME d \in ToSet(items) PROVE Found(d)
  <2>1. PICK i \in 1..Len(items) : items[i] = d
    BY <1>1, <1>5 DEF ToSet
  <2>2. ~(i < k)
    BY <1>1, <1>2, <2>1
  <2>3. k \in 1..Len(items) /\ items[k] >= d
    BY <1>1, <1>2, <2>2
  <2>4. ~(k < i)
    BY <1>1, <2>1, <2>3 DEF Sorted
  <2>5. k = i
    BY <1>1, <2>2, <2>3, <2>4
  <2> QED
    BY <2>1, <2>5, <1>1, <1>3
<1> QED
  BY <1>4, <1>5

\* insert keeps the directory sorted.
LEMMA AttachKeepsOrder ==
    ASSUME DirectoryInv, NEW d \in Devices, AttachDevice(d)
    PROVE  DirectoryInv'
<1>1. items \in Seq(Devices) /\ Sorted(items) /\ attached = ToSet(items) /\ booted' = booted
  BY DEF DirectoryInv, AttachDevice
<1>2. CASE Found(d)
  BY <1>1, <1>2 DEF DirectoryInv, AttachDevice, Sorted
<1>3. CASE ~Found(d)
  <2> DEFINE k == Pivot(d)
  <2>1. /\ k \in 1..(Len(items) + 1)
        /\ k <= Len(items) => items[k] >= d
        /\ \A j \in 1..k - 1 : items[j] < d
    BY <1>1, PivotIs
  <2>2. d \notin ToSet(items)
    BY <1>1, <1>3, FoundIs
  <2>3. /\ Len(items) \in Nat /\ d \in Nat /\ \A i \in 1..Len(items) : items[i] \in Nat
        /\ DOMAIN items = 1..Len(items)
    BY <1>1, FileServicesAssumption, LenProperties, ElementOfSeq
  <2> DEFINE r == InsertAt(items, k, d)
  <2>4. items' = r /\ attached' = attached \cup {d}
    BY <1>3 DEF AttachDevice
  <2> HIDE DEF k
  <2>5. r \in Seq(Devices) /\ ToSet(r) = ToSet(items) \cup {d}
    BY <1>1, <2>1, InsertElement
  <2>6. /\ Len(r) = Len(items) + 1 /\ r[k] = d
        /\ \A j \in 1..(k - 1) : r[j] = items[j]
        /\ \A j \in (k + 1)..(Len(items) + 1) : r[j] = items[j - 1]
    <3>1. Inserted(InsertAt(items, k, d), items, k, d, Devices)
      BY <1>1, <2>1, InsertAtElements, Zenon
    <3> QED
      BY <3>1, Zenon DEF Inserted
  <2> HIDE DEF r
  <2>7. \A j \in k..Len(items) : items[j] > d
    <3> SUFFICES ASSUME NEW j \in k..Len(items) PROVE items[j] > d
      OBVIOUS
    <3>1. j \in 1..Len(items) /\ k \in 1..Len(items) /\ items[k] >= d /\ items[j] # d
      BY <2>1, <2>2, <2>3 DEF ToSet
    <3>2. items[k] <= items[j]
      BY <3>1, <2>3, <1>1 DEF Sorted
    <3> QED
      BY <3>1, <3>2, <2>3
  <2>8. Sorted(r)
    <3> SUFFICES ASSUME NEW i \in 1..(Len(items) + 1), NEW j \in 1..(Len(items) + 1), i < j
                 PROVE  r[i] < r[j]
      BY <2>6 DEF Sorted
    <3>1. CASE j < k
      <4>1. r[i] = items[i] /\ r[j] = items[j] /\ i \in 1..Len(items) /\ j \in 1..Len(items)
        BY <3>1, <2>1, <2>3, <2>6
      <4> QED
        BY <4>1, <1>1 DEF Sorted
    <3>2. CASE j = k
      BY <3>2, <2>1, <2>3, <2>6
    <3>3. CASE j > k /\ i < k
      <4>1. r[i] = items[i] /\ r[j] = items[j - 1] /\ j - 1 \in k..Len(items)
        BY <3>3, <2>1, <2>3, <2>6
      <4>2. items[i] < d /\ items[j - 1] > d
        BY <3>3, <4>1, <2>1, <2>7
      <4> QED
        BY <4>1, <4>2, <3>3, <2>1, <2>3
    <3>4. CASE j > k /\ i = k
      <4>1. r[j] = items[j - 1] /\ j - 1 \in k..Len(items)
        BY <3>4, <2>1, <2>3, <2>6
      <4>2. items[j - 1] > d /\ items[j - 1] \in Nat
        BY <4>1, <2>1, <2>3, <2>7
      <4> QED
        BY <4>1, <4>2, <3>4, <2>3, <2>6
    <3>5. CASE j > k /\ i > k
      <4>1. /\ r[i] = items[i - 1] /\ r[j] = items[j - 1] /\ i - 1 < j - 1
            /\ i - 1 \in 1..Len(items) /\ j - 1 \in 1..Len(items)
        BY <3>5, <2>1, <2>3, <2>6
      <4> QED
        BY <4>1, <1>1 DEF Sorted
    <3> QED
      BY <3>1, <3>2, <3>3, <3>4, <3>5, <2>1
  <2> QED
    BY <1>1, <2>4, <2>5, <2>8 DEF DirectoryInv
<1> QED
  BY <1>2, <1>3

\* The lookup of an attached device.
LEMMA LookupFinds == DirectoryInv => AttachedFound
<1> SUFFICES ASSUME DirectoryInv, NEW d \in attached
             PROVE  LookupPartial(<<Dev, d>>).object = <<d, << >>>>
  BY DEF AttachedFound
<1> DEFINE p == <<Dev, d>>
<1>1. d \in Devices
  <2>1. ToSet(items) \subseteq Devices
    BY FrontInList DEF DirectoryInv
  <2> QED
    BY <2>1 DEF DirectoryInv
<1>2. Found(d)
  BY <1>1, FoundIs DEF DirectoryInv
<1>3. Len(p) = 2 /\ p[1] = Dev /\ p[2] = d /\ p # << >> /\ p # <<Dev>>
  OBVIOUS
<1>4. SubSeq(p, 3, Len(p)) = << >>
  OBVIOUS
<1> HIDE DEF p
<1>5. LookupPartial(p).object = <<p[2], SubSeq(p, 3, Len(p))>>
  BY <1>1, <1>2, <1>3 DEF LookupPartial
<1> QED
  BY <1>3, <1>4, <1>5 DEF p

\* find_device returns a device with a path, or none.
LEMMA FindsTarget ==
    ASSUME NEW p
    PROVE  IsTarget(FindDevice(p))
<1>1. IsTarget(NoDevice)
  BY DEF IsTarget, NoDevice
<1>2. ASSUME NEW d \in Devices, NEW q PROVE IsTarget(<<d, q>>)
  BY FileServicesAssumption DEF IsTarget
<1> QED
  BY <1>1, <1>2, FileServicesAssumption DEF FindDevice, LookupPartial

(***************************************************************************)
(* The file services: the inductive invariant, and counting references     *)
(***************************************************************************)
\* The entries that nobody uses.
FreeFiles == {x \in FileIds : refs[x] = 0 /\ \A t \in Threads : f[t] # x}
FreeHandles == {i \in HandleIds : object[i] = Nil /\ \A t \in Threads : h[t] # i}

PoolsHold == PoolHolds(files, Files, FreeFiles) /\ PoolHolds(handles, Handles, FreeHandles)

\* The inductive invariant.
FilesInd ==
    /\ FilesTyped /\ Places /\ RefsMatch /\ PoolsHold /\ Targets /\ HostOpen /\ DirectoryInv

\* The close of handle i has dropped its reference.
Dropped(i) == \E t \in Threads : h[t] = i /\ pc[t] \in {"destroy", "push", "free"}

\* The handles of a file, but for those a close has dropped.
LEMMA HandledIs ==
    ASSUME NEW x
    PROVE  Handled(x) = {i \in HandleIds : object[i] = x /\ ~Dropped(i)}
BY DEF Handled, Dropped

\* Handles and calls are finitely many.
LEMMA ReferencesFinite ==
    ASSUME NEW x
    PROVE  /\ IsFiniteSet(Handled(x)) /\ IsFiniteSet(Holders(x))
           /\ Cardinality(Handled(x)) \in 0..Handles
           /\ Cardinality(Holders(x)) \in 0..Cardinality(Threads)
<1>1. IsFiniteSet(HandleIds) /\ Cardinality(HandleIds) = Handles
  BY FileServicesAssumption, FS_Interval DEF HandleIds
<1>2. Handled(x) \in SUBSET HandleIds
  BY DEF Handled
<1>3. Holders(x) \in SUBSET Threads
  BY DEF Holders
<1>4. /\ IsFiniteSet(Handled(x)) /\ Cardinality(Handled(x)) <= Handles
      /\ Cardinality(Handled(x)) \in Nat
  <2>1. IsFiniteSet(Handled(x)) /\ Cardinality(Handled(x)) <= Cardinality(HandleIds)
    BY <1>1, <1>2, FS_Subset
  <2> QED
    BY <1>1, <2>1, FS_CardinalityType
<1>5. /\ IsFiniteSet(Holders(x)) /\ Cardinality(Holders(x)) <= Cardinality(Threads)
      /\ Cardinality(Holders(x)) \in Nat
  <2>1. IsFiniteSet(Holders(x)) /\ Cardinality(Holders(x)) <= Cardinality(Threads)
    BY FileServicesAssumption, <1>3, FS_Subset
  <2> QED
    BY <2>1, FS_CardinalityType
<1>6. Cardinality(Threads) \in Nat
  BY FileServicesAssumption, FS_CardinalityType
<1> QED
  BY <1>4, <1>5, <1>6, FileServicesAssumption

\* What small reference counts say: none refers to the file, or just one does.
LEMMA CountedReferences ==
    ASSUME RefsMatch, NEW x \in FileIds
    PROVE  /\ refs[x] \in Nat
           /\ refs[x] = 0 => Handled(x) = {} /\ Holders(x) = {}
           /\ \A i \in Handled(x) :
                  refs[x] >= 1 /\ (refs[x] = 1 => Handled(x) = {i} /\ Holders(x) = {})
           /\ \A t \in Holders(x) :
                  refs[x] >= 1 /\ (refs[x] = 1 => Handled(x) = {} /\ Holders(x) = {t})
<1> DEFINE A == Handled(x)
           B == Holders(x)
<1>1. refs[x] = Cardinality(A) + Cardinality(B)
  BY DEF RefsMatch
<1>2. IsFiniteSet(A) /\ IsFiniteSet(B) /\ Cardinality(A) \in Nat /\ Cardinality(B) \in Nat
  BY ReferencesFinite, FS_CardinalityType
<1> HIDE DEF A, B
<1>3. (Cardinality(A) = 0 <=> A = {}) /\ (Cardinality(B) = 0 <=> B = {})
  BY <1>2, FS_EmptySet
<1>4. \A i \in A : Cardinality(A) = 1 => A = {i}
  BY <1>2, FS_Singleton
<1>5. \A t \in B : Cardinality(B) = 1 => B = {t}
  BY <1>2, FS_Singleton
<1>6. refs[x] \in Nat
  BY <1>1, <1>2
<1>9. ASSUME refs[x] = 0 PROVE A = {} /\ B = {}
  <2>1. Cardinality(A) = 0 /\ Cardinality(B) = 0
    BY <1>1, <1>2, <1>9
  <2> QED
    BY <1>3, <2>1
<1>7. \A i \in A : refs[x] >= 1 /\ (refs[x] = 1 => A = {i} /\ B = {})
  BY <1>1, <1>2, <1>3, <1>4
<1>8. \A t \in B : refs[x] >= 1 /\ (refs[x] = 1 => A = {} /\ B = {t})
  BY <1>1, <1>2, <1>3, <1>5
<1> QED
  BY <1>6, <1>7, <1>8, <1>9 DEF A, B

\* A step that changes what refers to x by one handle i and one call t.
LEMMA RefsStep ==
    ASSUME RefsMatch, NEW x \in FileIds, NEW i, NEW t,
           Handled(x)' \ {i} = Handled(x) \ {i}, Holders(x)' \ {t} = Holders(x) \ {t},
           refs'[x] = refs[x] + One(i, Handled(x)') - One(i, Handled(x))
                              + One(t, Holders(x)') - One(t, Holders(x))
    PROVE  refs'[x] = Cardinality(Handled(x)') + Cardinality(Holders(x)')
<1> DEFINE A == Handled(x)
           B == Holders(x)
           C == Handled(x)'
           D == Holders(x)'
<1>1. refs[x] = Cardinality(A) + Cardinality(B)
  BY DEF RefsMatch
<1>2. IsFiniteSet(A) /\ IsFiniteSet(B)
  BY ReferencesFinite
<1> HIDE DEF A, B, C, D
<1>3. A \ {i} = C \ {i} /\ B \ {t} = D \ {t}
  BY DEF A, B, C, D
<1>4. /\ Cardinality(A) \in Nat /\ Cardinality(C) \in Nat
      /\ Cardinality(C) = Cardinality(A) + One(i, C) - One(i, A)
  BY <1>2, <1>3, OneDiffers
<1>5. /\ Cardinality(B) \in Nat /\ Cardinality(D) \in Nat
      /\ Cardinality(D) = Cardinality(B) + One(t, D) - One(t, B)
  BY <1>2, <1>3, OneDiffers
<1>6. refs'[x] = refs[x] + One(i, C) - One(i, A) + One(t, D) - One(t, B)
  BY DEF A, B, C, D
<1>7. \A z, S : One(z, S) \in {0, 1}
  BY DEF One
<1> QED
  BY <1>1, <1>4, <1>5, <1>6, <1>7 DEF C, D

\* A step that changes no reference to x.
LEMMA RefsSame ==
    ASSUME RefsMatch, NEW x \in FileIds, Handled(x)' = Handled(x), Holders(x)' = Holders(x),
           refs'[x] = refs[x]
    PROVE  refs'[x] = Cardinality(Handled(x)') + Cardinality(Holders(x)')
BY DEF RefsMatch

\* A step that opens and closes no file and starts no use of one.
LEMMA HostSame ==
    ASSUME HostOpen, device' = device, host' = host,
           \A x \in FileIds : InUse(x)' => InUse(x),
           \A x \in FileIds : Opened(x)' <=> Opened(x)
    PROVE  HostOpen'
BY DEF HostOpen

(***************************************************************************)
(* The file services: a step of one thread                                 *)
(***************************************************************************)
\* The calls of the other threads stay where they are.
OnlyMoves(t) ==
    \A u \in Threads : u # t => pc'[u] = pc[u] /\ f'[u] = f[u] /\ h'[u] = h[u]

\* A call refers to its file until it ends it.
LEMMA CallHolds ==
    ASSUME FilesInd, NEW t \in Threads, f[t] # Nil
    PROVE  /\ f[t] \in FileIds
           /\ pc[t] \in Holding => t \in Holders(f[t])
           /\ pc[t] \notin Holding => pc[t] \in Ending /\ refs[f[t]] = 0
BY DEF FilesInd, FilesTyped, Places, PlaceOf, Holders, Holding, Ending, FileIds, Nil

\* A handle in the hands of a call that has not dropped it.
LEMMA HandleHolds ==
    ASSUME FilesInd, NEW t \in Threads, pc[t] \in {"look", "drop"}
    PROVE  /\ h[t] \in HandleIds /\ object[h[t]] \in FileIds
           /\ h[t] \in Handled(object[h[t]]) /\ ~Dropped(h[t])
           /\ f[t] = Nil
<1>0. PlaceOf(t) /\ FilesTyped
  BY DEF FilesInd, Places
<1>1. h[t] \in HandleIds /\ object[h[t]] \in FileIds /\ f[t] = Nil /\ h[t] # Nil
  <2>1. h[t] # Nil /\ object[h[t]] # Nil /\ f[t] = Nil
    BY <1>0 DEF PlaceOf, Holding, Ending
  <2>2. h[t] \in HandleIds
    BY <1>0, <2>1 DEF FilesTyped, HandleIds, Nil
  <2> QED
    BY <1>0, <2>1, <2>2 DEF FilesTyped, FileIds, Nil
<1>2. ~Dropped(h[t])
  BY <1>1 DEF Dropped, FilesInd, Places, OneOwner
<1> QED
  BY <1>1, <1>2, HandledIs

\* The places and the owners after a step of t.
LEMMA PlacesStep ==
    ASSUME FilesInd, NEW t \in Threads, OnlyMoves(t), PlaceOf(t)',
           \A u \in Threads : u # t /\ h[u] # Nil =>
               h'[t] # h[u] /\ (object'[h[u]] = Nil <=> object[h[u]] = Nil),
           \A u \in Threads : u # t /\ pc[u] \in {"open", "destroy", "push"} =>
               refs'[f[u]] = refs[f[u]],
           \A u \in Threads : u # t /\ (pc[u] \in Ending \/ pc'[t] \in Ending) => f'[t] # f[u]
    PROVE  Places'
<1>1. (\A u \in Threads : PlaceOf(u)) /\ OneOwner
  BY DEF FilesInd, Places
<1>2. ASSUME NEW u \in Threads PROVE PlaceOf(u)'
  <2>1. CASE u = t
    BY <2>1
  <2>2. CASE u # t
    <3>1. /\ PlaceOf(u) /\ pc'[u] = pc[u] /\ f'[u] = f[u] /\ h'[u] = h[u]
          /\ h[u] # Nil => (object'[h[u]] = Nil <=> object[h[u]] = Nil)
          /\ pc[u] \in {"open", "destroy", "push"} => refs'[f[u]] = refs[f[u]]
      BY <1>1, <2>2 DEF OnlyMoves
    <3> QED
      BY <3>1 DEF PlaceOf, Ending, Holding
  <2> QED
    BY <2>1, <2>2
<1>3. ASSUME NEW u \in Threads, NEW v \in Threads, h'[u] = h'[v], h'[u] # Nil PROVE u = v
  BY <1>1, <1>3 DEF OneOwner, OnlyMoves
<1>4. ASSUME NEW u \in Threads, NEW v \in Threads, f'[u] = f'[v], pc'[u] \in Ending PROVE u = v
  BY <1>1, <1>4 DEF OneOwner, OnlyMoves
<1> QED
  BY <1>2, <1>3, <1>4 DEF Places, OneOwner

\* The calls that refer to a file, but for t.
LEMMA HoldersStep ==
    ASSUME NEW t \in Threads, OnlyMoves(t), NEW x
    PROVE  /\ Holders(x)' \ {t} = Holders(x) \ {t}
           /\ t \in Holders(x) <=> f[t] = x /\ pc[t] \in Holding
           /\ t \in Holders(x)' <=> f'[t] = x /\ pc'[t] \in Holding
BY DEF OnlyMoves, Holders, Holding

\* The call t neither gains nor loses a reference to x.
LEMMA HoldersSame ==
    ASSUME NEW t \in Threads, OnlyMoves(t), NEW x,
           f[t] = x /\ pc[t] \in Holding <=> f'[t] = x /\ pc'[t] \in Holding
    PROVE  Holders(x)' = Holders(x)
BY HoldersStep

\* The handles of all files stay when t drops none.
LEMMA HandledSame ==
    ASSUME NEW t \in Threads, OnlyMoves(t), object' = object,
           \A i \in HandleIds :
               h[t] = i /\ pc[t] \in {"destroy", "push", "free"}
               <=> h'[t] = i /\ pc'[t] \in {"destroy", "push", "free"}
    PROVE  \A x : Handled(x)' = Handled(x)
<1> SUFFICES ASSUME NEW x PROVE Handled(x)' = Handled(x)
  OBVIOUS
<1>1. \A i \in HandleIds : Dropped(i)' <=> Dropped(i)
  BY DEF Dropped, OnlyMoves
<1> QED
  BY <1>1, HandledIs DEF Handled, Dropped

\* The free files stay.
LEMMA FreeFilesSame ==
    ASSUME NEW t \in Threads, OnlyMoves(t),
           \A x \in FileIds : refs[x] = 0 /\ f[t] # x <=> refs'[x] = 0 /\ f'[t] # x
    PROVE  FreeFiles' = FreeFiles
BY DEF FreeFiles, OnlyMoves

\* The free handles stay.
LEMMA FreeHandlesSame ==
    ASSUME NEW t \in Threads, OnlyMoves(t),
           \A i \in HandleIds : object[i] = Nil /\ h[t] # i <=> object'[i] = Nil /\ h'[t] # i
    PROVE  FreeHandles' = FreeHandles
BY DEF FreeHandles, OnlyMoves

\* The free lists stay.
LEMMA PoolsSame ==
    ASSUME PoolsHold, files' = files, handles' = handles,
           FreeFiles' = FreeFiles, FreeHandles' = FreeHandles
    PROVE  PoolsHold'
BY DEF PoolsHold

\* t is not about to open a file: the targets stay.
LEMMA TargetsQuiet ==
    ASSUME Targets, NEW t \in Threads, OnlyMoves(t), device' = device, target' = target,
           pc'[t] \notin {"file", "open"}, pc[t] # "destroy",
           \A x \in FileIds : refs[x] > 0 => refs'[x] > 0 \/ (f'[t] = x /\ pc'[t] = "destroy")
    PROVE  Targets'
<1>1. ASSUME NEW x \in FileIds, device[x] # NoDevice
      PROVE  refs'[x] > 0 \/ \E u \in Threads : f'[u] = x /\ pc'[u] = "destroy"
  <2>1. CASE refs[x] > 0
    BY <2>1
  <2>2. CASE ~(refs[x] > 0)
    <3>1. PICK u \in Threads : f[u] = x /\ pc[u] = "destroy"
      BY <1>1, <2>2 DEF Targets
    <3>2. f'[u] = x /\ pc'[u] = "destroy"
      BY <3>1 DEF OnlyMoves
    <3> QED
      BY <3>2
  <2> QED
    BY <2>1, <2>2
<1>2. \A u \in Threads : pc'[u] \in {"file", "open"} => pc[u] = pc'[u] /\ f[u] = f'[u]
  BY DEF OnlyMoves
<1> QED
  BY <1>1, <1>2 DEF Targets

\* t is not about to open a file: what is open at the devices stays.
LEMMA HostQuiet ==
    ASSUME HostOpen, NEW t \in Threads, OnlyMoves(t), device' = device, host' = host,
           pc[t] # "open", pc'[t] # "open",
           \A x \in FileIds : Handled(x)' # {} => InUse(x),
           \A x \in FileIds : f'[t] = x /\ pc'[t] \in {"handle", "store", "io"} => InUse(x)
    PROVE  HostOpen'
<1>1. ASSUME NEW x \in FileIds, InUse(x)' PROVE InUse(x)
  <2>1. CASE Handled(x)' # {}
    BY <2>1
  <2>2. CASE \E u \in Threads : f'[u] = x /\ pc'[u] \in {"handle", "store", "io"}
    <3>1. PICK u \in Threads : f'[u] = x /\ pc'[u] \in {"handle", "store", "io"}
      BY <2>2
    <3>2. CASE u = t
      BY <3>1, <3>2
    <3>3. CASE u # t
      BY <3>1, <3>3 DEF OnlyMoves, InUse
    <3> QED
      BY <3>2, <3>3
  <2> QED
    BY <1>1, <2>1, <2>2 DEF InUse
<1>2. ASSUME NEW x \in FileIds PROVE Opened(x)' <=> Opened(x)
  BY DEF Opened, OnlyMoves
<1> QED
  BY <1>1, <1>2, HostSame

\* A file that something else refers to is neither being opened nor ended by a
\* call.
LEMMA NotAlone ==
    ASSUME FilesInd, NEW x \in FileIds, NEW u \in Threads, f[u] = x,
           Handled(x) # {} \/ \E t \in Holders(x) : t # u
    PROVE  u \in Holders(x) /\ refs[x] # 1 /\ pc[u] \notin {"open", "destroy", "push"}
<1>0. RefsMatch /\ PlaceOf(u)
  BY DEF FilesInd, Places
<1>1. refs[x] \in Nat /\ refs[x] # 0
  BY <1>0, CountedReferences
<1>2. f[u] # Nil
  BY DEF FileIds, Nil
<1>3. u \in Holders(x)
  BY <1>1, <1>2, CallHolds
<1>4. refs[x] # 1
  BY <1>0, <1>3, CountedReferences
<1> QED
  BY <1>0, <1>1, <1>3, <1>4 DEF PlaceOf, Ending

(***************************************************************************)
(* The file services: the steps                                            *)
(***************************************************************************)
\* A call that releases its reference: the last one goes on to end the file.
LEMMA ReleaseInv ==
    ASSUME FilesInd, NEW t \in Threads, Release(t)
    PROVE  FilesInd'
<1>0. /\ FilesTyped /\ PlaceOf(t) /\ Places /\ RefsMatch /\ PoolsHold
      /\ Targets /\ HostOpen /\ DirectoryInv
  BY DEF FilesInd, Places
<1>a. f[t] # Nil
  BY <1>0 DEF Release, At, PlaceOf, Holding
<1>b. PICK x \in FileIds : x = f[t]
  BY <1>a, CallHolds
<1> DEFINE last == refs[x] = 1
<1>1. /\ pc[t] = "release" /\ h[t] = Nil /\ x # Nil
      /\ refs' = [refs EXCEPT ![x] = refs[x] - 1]
      /\ pc' = [pc EXCEPT ![t] = IF last THEN "destroy" ELSE "idle"]
      /\ f' = IF last THEN f ELSE [f EXCEPT ![t] = Nil]
      /\ UNCHANGED <<boot, files, handles, device, object, host, h, target>>
  BY <1>0, <1>a, <1>b DEF Release, At, Goto, PlaceOf, Holding, Ending
<1>2. x \in FileIds /\ t \in Holders(x)
  BY <1>1, <1>b, CallHolds DEF Holding
<1>3. /\ refs[x] \in Nat \ {0}
      /\ last => Handled(x) = {} /\ Holders(x) = {t}
  BY <1>0, <1>2, CountedReferences
<1> HIDE DEF last
<1>4. /\ OnlyMoves(t) /\ h' = h /\ object' = object
      /\ \A y \in FileIds : y # x => refs'[y] = refs[y]
      /\ refs'[x] = refs[x] - 1
      /\ pc'[t] = (IF last THEN "destroy" ELSE "idle")
      /\ f'[t] = (IF last THEN x ELSE Nil)
  BY <1>0, <1>1, <1>b DEF FilesTyped, OnlyMoves
<1>5. FilesTyped'
  <2>1. refs[x] - 1 \in Nat
    BY <1>3
  <2>2. refs' \in [FileIds -> Nat]
    BY <1>0, <1>1, <2>1 DEF FilesTyped
  <2>3. f' \in [Threads -> 0..Files]
    BY <1>0, <1>1, FileServicesAssumption DEF FilesTyped, Nil
  <2> QED
    BY <1>0, <1>1, <2>2, <2>3 DEF FilesTyped
<1>6. ASSUME NEW u \in Threads, u # t, f[u] = x
      PROVE  pc[u] \notin Ending \cup {"open"} /\ ~last
  <2>1. u \in Holders(x)
    BY <1>2, <1>3, <1>6, CallHolds DEF Nil, FileIds
  <2>2. ~last /\ refs[x] # 1
    BY <2>1, <1>3, <1>6 DEF last
  <2> QED
    BY <2>1, <2>2, <1>0, <1>6 DEF Holders, Places, PlaceOf, Ending
<1>7. Places'
  <2>1. PlaceOf(t)'
    BY <1>1, <1>3, <1>4 DEF PlaceOf, Holding, Ending, last
  <2>2. ASSUME NEW u \in Threads, u # t, pc[u] \in {"open", "destroy", "push"}
        PROVE  refs'[f[u]] = refs[f[u]] /\ f'[t] # f[u]
    <3>1. f[u] # Nil
      BY <1>0, <2>2 DEF Places, PlaceOf, Holding, Ending
    <3>2. f[u] \in FileIds /\ f[u] # x
      BY <2>2, <3>1, <1>6, CallHolds DEF Ending
    <3> QED
      BY <3>1, <3>2, <1>4
  <2>3. ASSUME NEW u \in Threads, u # t, pc'[t] \in Ending PROVE f'[t] # f[u]
    BY <2>3, <1>4, <1>6 DEF Ending
  <2>4. \A u \in Threads : u # t /\ h[u] # Nil =>
            h'[t] # h[u] /\ (object'[h[u]] = Nil <=> object[h[u]] = Nil)
    BY <1>1, <1>4
  <2> QED
    BY <1>4, <2>1, <2>2, <2>3, <2>4, PlacesStep DEF Ending
<1>8. \A y : Handled(y)' = Handled(y)
  <2>1. \A i \in HandleIds : h[t] # i /\ h'[t] # i
    BY <1>1, <1>4 DEF HandleIds, Nil
  <2> QED
    BY <1>4, <2>1, HandledSame
<1>9. RefsMatch'
  <2>1. ASSUME NEW y \in FileIds, y # x
        PROVE  refs'[y] = Cardinality(Handled(y)') + Cardinality(Holders(y)')
    <3>1. Holders(y)' = Holders(y)
      BY <2>1, <1>4, <1>b, HoldersSame DEF FileIds, Nil
    <3> QED
      BY <2>1, <3>1, <1>0, <1>4, <1>8, RefsSame
  <2>2. refs'[x] = Cardinality(Handled(x)') + Cardinality(Holders(x)')
    <3>1. Holders(x)' \ {t} = Holders(x) \ {t} /\ t \notin Holders(x)'
      BY <1>4, HoldersStep DEF Holding
    <3> QED
      BY <1>0, <1>2, <1>3, <1>4, <1>8, <3>1, RefsStep DEF One
  <2> QED
    BY <2>1, <2>2 DEF RefsMatch
<1>10. PoolsHold'
  <2>1. FreeFiles' = FreeFiles
    <3>1. ASSUME NEW y \in FileIds
          PROVE  refs[y] = 0 /\ f[t] # y <=> refs'[y] = 0 /\ f'[t] # y
      <4>1. CASE y = x
        BY <4>1, <1>b, <1>3, <1>4 DEF last
      <4>2. CASE y # x
        BY <4>2, <1>b, <1>4 DEF FileIds, Nil
      <4> QED
        BY <4>1, <4>2
    <3> QED
      BY <3>1, <1>4, FreeFilesSame
  <2>2. FreeHandles' = FreeHandles
    BY <1>4, FreeHandlesSame
  <2> QED
    BY <1>0, <1>1, <2>1, <2>2, PoolsSame
<1>11. Targets'
  <2>1. \A y \in FileIds : refs[y] > 0 => refs'[y] > 0 \/ (f'[t] = y /\ pc'[t] = "destroy")
    <3> SUFFICES ASSUME NEW y \in FileIds, refs[y] > 0
                 PROVE  refs'[y] > 0 \/ (f'[t] = y /\ pc'[t] = "destroy")
      OBVIOUS
    <3>1. last \/ refs[x] - 1 > 0
      BY <1>3 DEF last
    <3>2. CASE y = x
      BY <1>4, <3>1, <3>2
    <3>3. CASE y # x
      BY <1>4, <3>3
    <3> QED
      BY <3>2, <3>3
  <2> QED
    BY <1>0, <1>1, <1>4, <2>1, TargetsQuiet
<1>12. HostOpen'
  BY <1>0, <1>1, <1>4, <1>8, HostQuiet DEF InUse
<1>13. DirectoryInv'
  BY <1>0, <1>1 DEF DirectoryInv, boot, Sorted
<1> QED
  BY <1>5, <1>7, <1>9, <1>10, <1>11, <1>12, <1>13 DEF FilesInd

\* A step that touches only the directory.
LEMMA StillInv ==
    ASSUME FilesInd, UNCHANGED <<files, handles, refs, device, object, host, pc, f, h, target>>,
           DirectoryInv'
    PROVE  FilesInd'
<1>1. \A x : Handled(x)' = Handled(x) /\ Holders(x)' = Holders(x)
  BY DEF Handled, Holders
<1>2. FreeFiles' = FreeFiles /\ FreeHandles' = FreeHandles
  BY DEF FreeFiles, FreeHandles
<1>3. FilesTyped' /\ Places'
  BY DEF FilesInd, FilesTyped, Places, PlaceOf, OneOwner
<1>4. RefsMatch' /\ PoolsHold'
  BY <1>1, <1>2 DEF FilesInd, RefsMatch, PoolsHold
<1>5. Targets'
  BY DEF FilesInd, Targets
<1>6. HostOpen'
  BY <1>1, HostSame DEF FilesInd, InUse, Opened
<1> QED
  BY <1>3, <1>4, <1>5, <1>6 DEF FilesInd

\* The directory stays.
LEMMA DirectorySame ==
    ASSUME FilesInd, UNCHANGED boot
    PROVE  DirectoryInv'
BY DEF FilesInd, DirectoryInv, boot, Sorted

\* A call that begins with a descriptor of the process: read, write, ioctl or
\* close finds the entry in use, and has it for itself.
LEMMA TakeHandle ==
    ASSUME FilesInd, NEW t \in Threads, NEW i \in HandleIds, NEW l \in {"look", "drop"},
           At(t, "idle"), Undisturbed(i), object[i] # Nil, Goto(t, l),
           h' = [h EXCEPT ![t] = i],
           UNCHANGED <<boot, files, handles, refs, device, object, host, f, target>>
    PROVE  FilesInd'
<1>0. /\ FilesTyped /\ PlaceOf(t) /\ Places /\ RefsMatch /\ PoolsHold
      /\ Targets /\ HostOpen /\ DirectoryInv
  BY DEF FilesInd, Places
<1>1. pc[t] = "idle" /\ f[t] = Nil /\ h[t] = Nil /\ i # Nil
  BY <1>0 DEF At, PlaceOf, Holding, Ending, HandleIds, Nil
<1>2. OnlyMoves(t) /\ pc'[t] = l /\ h'[t] = i /\ f'[t] = Nil
  BY <1>0, <1>1 DEF FilesTyped, OnlyMoves, Goto
<1>3. FilesTyped'
  <2>1. h' \in [Threads -> 0..Handles]
    BY <1>0 DEF FilesTyped, HandleIds
  <2> QED
    BY <1>0, <2>1 DEF FilesTyped, Goto
<1>4. Places'
  <2>1. PlaceOf(t)'
    BY <1>1, <1>2 DEF PlaceOf, Holding, Ending
  <2>2. \A u \in Threads : u # t /\ h[u] # Nil => h'[t] # h[u]
    BY <1>2 DEF Undisturbed
  <2>3. \A u \in Threads : (pc[u] \in Ending \/ pc'[t] \in Ending) => f'[t] # f[u]
    BY <1>0, <1>2 DEF Places, PlaceOf, Ending
  <2> QED
    BY <1>2, <2>1, <2>2, <2>3, PlacesStep
<1>5. \A y : Handled(y)' = Handled(y)
  <2>1. \A j \in HandleIds : h[t] # j /\ pc'[t] \notin {"destroy", "push", "free"}
    BY <1>1, <1>2 DEF HandleIds, Nil
  <2> QED
    BY <1>2, <2>1, HandledSame
<1>6. RefsMatch'
  <2>1. ASSUME NEW y \in FileIds
        PROVE  refs'[y] = Cardinality(Handled(y)') + Cardinality(Holders(y)')
    <3>1. Holders(y)' = Holders(y)
      BY <1>1, <1>2, HoldersSame DEF Holding
    <3> QED
      BY <3>1, <1>0, <1>5, RefsSame
  <2> QED
    BY <2>1 DEF RefsMatch
<1>7. PoolsHold'
  <2>1. FreeFiles' = FreeFiles
    BY <1>2, FreeFilesSame
  <2>2. FreeHandles' = FreeHandles
    <3>1. \A j \in HandleIds : object[j] = Nil /\ h[t] # j <=> object'[j] = Nil /\ h'[t] # j
      BY <1>1, <1>2 DEF HandleIds, Nil
    <3> QED
      BY <1>2, <3>1, FreeHandlesSame
  <2> QED
    BY <1>0, <2>1, <2>2, PoolsSame
<1>8. Targets'
  BY <1>0, <1>1, <1>2, TargetsQuiet
<1>9. HostOpen'
  BY <1>0, <1>1, <1>2, <1>5, HostQuiet DEF InUse
<1> QED
  BY <1>3, <1>4, <1>6, <1>7, <1>8, <1>9, DirectorySame DEF FilesInd

\* read, write or ioctl begins.
LEMMA UseInv ==
    ASSUME FilesInd, NEW t \in Threads, NEW i \in HandleIds, Use(t, i)
    PROVE  FilesInd'
<1>1. CASE object[i] = Nil
  BY <1>1, DirectorySame, StillInv DEF Use
<1>2. CASE object[i] # Nil
  BY <1>2, TakeHandle DEF Use
<1> QED
  BY <1>1, <1>2

\* close begins.
LEMMA CloseInv ==
    ASSUME FilesInd, NEW t \in Threads, NEW i \in HandleIds, Close(t, i)
    PROVE  FilesInd'
<1>1. CASE object[i] = Nil
  BY <1>1, DirectorySame, StillInv DEF Close
<1>2. CASE object[i] # Nil
  BY <1>2, TakeHandle DEF Close
<1> QED
  BY <1>1, <1>2

\* read, write or ioctl has its answer.
LEMMA TransferInv ==
    ASSUME FilesInd, NEW t \in Threads, Transfer(t)
    PROVE  FilesInd'
<1>0. /\ FilesTyped /\ PlaceOf(t) /\ Places /\ RefsMatch /\ PoolsHold
      /\ Targets /\ HostOpen /\ DirectoryInv
  BY DEF FilesInd, Places
<1>1. /\ pc[t] = "io" /\ pc' = [pc EXCEPT ![t] = "release"] /\ h[t] = Nil
      /\ UNCHANGED <<boot, files, handles, refs, device, object, host, f, h, target>>
  BY <1>0 DEF Transfer, At, Goto, PlaceOf, Holding, Ending
<1>2. OnlyMoves(t) /\ pc'[t] = "release"
  BY <1>0, <1>1 DEF FilesTyped, OnlyMoves
<1>3. FilesTyped'
  BY <1>0, <1>1 DEF FilesTyped
<1>4. Places'
  <2>1. PlaceOf(t)'
    BY <1>0, <1>1, <1>2 DEF PlaceOf, Holding, Ending
  <2>2. \A u \in Threads : u # t /\ (pc[u] \in Ending \/ pc'[t] \in Ending) => f'[t] # f[u]
    BY <1>0, <1>1, <1>2 DEF Places, OneOwner, Ending
  <2> QED
    BY <1>1, <1>2, <2>1, <2>2, PlacesStep
<1>5. \A y : Handled(y)' = Handled(y)
  <2>1. \A j \in HandleIds : h[t] # j /\ h'[t] # j
    BY <1>1 DEF HandleIds, Nil
  <2> QED
    BY <1>1, <1>2, <2>1, HandledSame
<1>6. RefsMatch'
  <2>1. ASSUME NEW y \in FileIds
        PROVE  refs'[y] = Cardinality(Handled(y)') + Cardinality(Holders(y)')
    <3>1. Holders(y)' = Holders(y)
      BY <1>1, <1>2, HoldersSame DEF Holding
    <3> QED
      BY <3>1, <1>0, <1>1, <1>5, RefsSame
  <2> QED
    BY <2>1 DEF RefsMatch
<1>7. PoolsHold'
  <2>1. FreeFiles' = FreeFiles /\ FreeHandles' = FreeHandles
    BY <1>1, <1>2, FreeFilesSame, FreeHandlesSame
  <2> QED
    BY <1>0, <1>1, <2>1, PoolsSame
<1>8. Targets'
  BY <1>0, <1>1, <1>2, TargetsQuiet
<1>9. HostOpen'
  BY <1>0, <1>1, <1>2, <1>5, HostQuiet DEF InUse
<1> QED
  BY <1>1, <1>3, <1>4, <1>6, <1>7, <1>8, <1>9, DirectorySame DEF FilesInd

\* find_device has an answer, or open returns.
LEMMA OpenInv ==
    ASSUME FilesInd, NEW t \in Threads, NEW p \in Paths, Open(t, p)
    PROVE  FilesInd'
<1>0. /\ FilesTyped /\ PlaceOf(t) /\ Places /\ RefsMatch /\ PoolsHold
      /\ Targets /\ HostOpen /\ DirectoryInv
  BY DEF FilesInd, Places
<1> DEFINE d == FindDevice(p)
<1>a. CASE d = NoDevice
  BY <1>a, DirectorySame, StillInv DEF Open
<1>b. CASE d # NoDevice
  <2>1. /\ pc[t] = "idle" /\ pc' = [pc EXCEPT ![t] = "file"] /\ f[t] = Nil /\ h[t] = Nil
        /\ target' = [target EXCEPT ![t] = d]
        /\ UNCHANGED <<boot, files, handles, refs, device, object, host, f, h>>
    BY <1>0, <1>b DEF Open, At, Goto, PlaceOf, Holding, Ending
  <2>2. IsTarget(d)
    BY FindsTarget
  <2> HIDE DEF d
  <2>3. OnlyMoves(t) /\ pc'[t] = "file"
    BY <1>0, <2>1 DEF FilesTyped, OnlyMoves
  <2>4. FilesTyped'
    BY <1>0, <2>1 DEF FilesTyped
  <2>5. Places'
    <3>1. PlaceOf(t)'
      BY <2>1, <2>3 DEF PlaceOf, Holding, Ending
    <3>2. \A u \in Threads : (pc[u] \in Ending \/ pc'[t] \in Ending) => f'[t] # f[u]
      BY <1>0, <2>1, <2>3 DEF Places, PlaceOf, Ending
    <3> QED
      BY <2>1, <2>3, <3>1, <3>2, PlacesStep
  <2>6. \A y : Handled(y)' = Handled(y)
    <3>1. \A j \in HandleIds : h[t] # j /\ h'[t] # j
      BY <2>1 DEF HandleIds, Nil
    <3> QED
      BY <2>1, <2>3, <3>1, HandledSame
  <2>7. RefsMatch'
    <3>1. ASSUME NEW y \in FileIds
          PROVE  refs'[y] = Cardinality(Handled(y)') + Cardinality(Holders(y)')
      <4>1. Holders(y)' = Holders(y)
        BY <2>1, <2>3, HoldersSame DEF Holding
      <4> QED
        BY <4>1, <1>0, <2>1, <2>6, RefsSame
    <3> QED
      BY <3>1 DEF RefsMatch
  <2>8. PoolsHold'
    <3>1. FreeFiles' = FreeFiles /\ FreeHandles' = FreeHandles
      BY <2>1, <2>3, FreeFilesSame, FreeHandlesSame
    <3> QED
      BY <1>0, <2>1, <3>1, PoolsSame
  <2>9. Targets'
    <3>1. target' = [u \in Threads |-> target'[u]] /\ \A u \in Threads : IsTarget(target'[u])
      BY <1>0, <2>1, <2>2 DEF Targets
    <3>2. \A u \in Threads : pc'[u] \in {"file", "open"} => target'[u] # NoDevice
      BY <1>0, <1>b, <2>1, <2>3 DEF Targets, OnlyMoves
    <3>3. \A u \in Threads : pc'[u] = "open" => target'[u] = device'[f'[u]]
      BY <1>0, <2>1, <2>3 DEF Targets, OnlyMoves
    <3>4. ASSUME NEW x \in FileIds, device'[x] # NoDevice
          PROVE  refs'[x] > 0 \/ \E u \in Threads : f'[u] = x /\ pc'[u] = "destroy"
      <4>1. refs[x] > 0 \/ \E u \in Threads : f[u] = x /\ pc[u] = "destroy"
        BY <1>0, <2>1, <3>4 DEF Targets
      <4> QED
        BY <2>1, <2>3, <4>1 DEF OnlyMoves
    <3> QED
      BY <1>0, <2>1, <3>1, <3>2, <3>3, <3>4 DEF Targets
  <2>10. HostOpen'
    BY <1>0, <2>1, <2>3, <2>6, HostQuiet DEF InUse
  <2> QED
    BY <2>1, <2>4, <2>5, <2>7, <2>8, <2>9, <2>10, DirectorySame DEF FilesInd
<1> QED
  BY <1>a, <1>b

\* alloc_handle takes the first free entry, or the file is released.
LEMMA AllocHandleInv ==
    ASSUME FilesInd, NEW t \in Threads, AllocHandle(t)
    PROVE  FilesInd'
<1>0. /\ FilesTyped /\ PlaceOf(t) /\ Places /\ RefsMatch /\ PoolsHold
      /\ Targets /\ HostOpen /\ DirectoryInv
  BY DEF FilesInd, Places
<1> DEFINE full == handles.head = Nil
<1>1. /\ pc[t] = "handle" /\ h[t] = Nil /\ f[t] # Nil
      /\ pc' = [pc EXCEPT ![t] = IF full THEN "release" ELSE "store"]
      /\ full => h' = h /\ handles' = handles
      /\ ~full => h' = [h EXCEPT ![t] = handles.head] /\ handles' = Pop(handles)
      /\ UNCHANGED <<boot, files, refs, device, object, host, f, target>>
  BY <1>0 DEF AllocHandle, At, Goto, PlaceOf, Holding, Ending
<1>2. PICK i \in 0..Handles : i = handles.head
  BY <1>0 DEF FilesTyped, FreeList
<1>3. full => i = Nil
  BY <1>2
<1>4. ~full => i # Nil /\ i \in FreeHandles /\ PoolHolds(handles', Handles, FreeHandles \ {i})
  BY <1>0, <1>1, <1>2, FileServicesAssumption, PoolPop DEF PoolsHold
<1> HIDE DEF full
<1>5. /\ OnlyMoves(t) /\ h'[t] = i /\ pc'[t] \in {"release", "store"}
      /\ pc'[t] = "release" <=> full
      /\ h' \in [Threads -> 0..Handles]
  BY <1>0, <1>1, <1>2, <1>3 DEF FilesTyped, OnlyMoves
<1>6. i # Nil => i \in HandleIds /\ object[i] = Nil /\ \A u \in Threads : h[u] # i
  BY <1>3, <1>4 DEF FreeHandles
<1>7. FilesTyped'
  <2>1. handles' \in FreeList(Handles)
    <3>1. CASE full
      BY <3>1, <1>0, <1>1 DEF FilesTyped
    <3>2. CASE ~full
      BY <3>2, <1>4 DEF PoolHolds, Chain
    <3> QED
      BY <3>1, <3>2
  <2> QED
    BY <1>0, <1>1, <1>5, <2>1 DEF FilesTyped
<1>8. Places'
  <2>1. PlaceOf(t)'
    BY <1>0, <1>1, <1>3, <1>4, <1>5, <1>6 DEF PlaceOf, Holding, Ending
  <2>2. \A u \in Threads : u # t /\ (pc[u] \in Ending \/ pc'[t] \in Ending) => f'[t] # f[u]
    BY <1>0, <1>1, <1>5 DEF Places, OneOwner, Ending
  <2>3. \A u \in Threads : u # t /\ h[u] # Nil => h'[t] # h[u]
    BY <1>5, <1>6
  <2> QED
    BY <1>1, <1>5, <2>1, <2>2, <2>3, PlacesStep
<1>9. \A y : Handled(y)' = Handled(y)
  <2>1. \A j \in HandleIds : h[t] # j /\ pc'[t] \notin {"destroy", "push", "free"}
    BY <1>1, <1>5 DEF HandleIds, Nil
  <2> QED
    BY <1>1, <1>5, <2>1, HandledSame
<1>10. RefsMatch'
  <2>1. ASSUME NEW y \in FileIds
        PROVE  refs'[y] = Cardinality(Handled(y)') + Cardinality(Holders(y)')
    <3>1. Holders(y)' = Holders(y)
      BY <1>1, <1>5, HoldersSame DEF Holding
    <3> QED
      BY <3>1, <1>0, <1>1, <1>9, RefsSame
  <2> QED
    BY <2>1 DEF RefsMatch
<1>11. PoolsHold'
  <2>1. FreeFiles' = FreeFiles
    BY <1>1, <1>5, FreeFilesSame
  <2>2. FreeHandles' = FreeHandles \ {i}
    BY <1>1, <1>5, <1>6 DEF FreeHandles, OnlyMoves, HandleIds, Nil
  <2>3. PoolHolds(handles', Handles, FreeHandles \ {i})
    <3>1. CASE full
      <4>1. FreeHandles \ {i} = FreeHandles
        BY <3>1, <1>3 DEF FreeHandles, HandleIds, Nil
      <4> QED
        BY <3>1, <4>1, <1>0, <1>1 DEF PoolsHold
    <3>2. CASE ~full
      BY <3>2, <1>4
    <3> QED
      BY <3>1, <3>2
  <2> QED
    BY <1>0, <1>1, <2>1, <2>2, <2>3 DEF PoolsHold
<1>12. Targets'
  BY <1>0, <1>1, <1>5, TargetsQuiet
<1>13. HostOpen'
  BY <1>0, <1>1, <1>5, <1>9, HostQuiet DEF InUse
<1> QED
  BY <1>1, <1>7, <1>8, <1>10, <1>11, <1>12, <1>13, DirectorySame DEF FilesInd

\* The handle is stored, with a reference of its own.
LEMMA StoreHandleInv ==
    ASSUME FilesInd, NEW t \in Threads, StoreHandle(t)
    PROVE  FilesInd'
<1>0. /\ FilesTyped /\ PlaceOf(t) /\ Places /\ RefsMatch /\ PoolsHold
      /\ Targets /\ HostOpen /\ DirectoryInv
  BY DEF FilesInd, Places
<1>a. f[t] # Nil /\ h[t] # Nil /\ pc[t] = "store" /\ object[h[t]] = Nil
  BY <1>0 DEF StoreHandle, At, PlaceOf, Holding
<1>b. PICK x \in FileIds : x = f[t]
  BY <1>a, CallHolds
<1>c. PICK i \in HandleIds : i = h[t]
  BY <1>0, <1>a DEF FilesTyped, HandleIds, Nil
<1>1. /\ refs' = [refs EXCEPT ![x] = refs[x] + 1]
      /\ pc' = [pc EXCEPT ![t] = "release"]
      /\ object' = [object EXCEPT ![i] = x] /\ h' = [h EXCEPT ![t] = Nil]
      /\ UNCHANGED <<boot, files, handles, device, host, f, target>>
  BY <1>b, <1>c DEF StoreHandle, Goto
<1>2. t \in Holders(x) /\ x # Nil /\ i # Nil
  BY <1>a, <1>b, <1>c, CallHolds DEF Holding
<1>3. refs[x] \in Nat \ {0} /\ refs[x] + 1 \in Nat
  BY <1>0, <1>2, CountedReferences
<1>4. /\ OnlyMoves(t) /\ h'[t] = Nil /\ f'[t] = x /\ pc'[t] = "release"
      /\ \A y \in FileIds : y # x => refs'[y] = refs[y]
      /\ refs'[x] = refs[x] + 1
      /\ \A j \in HandleIds : j # i => object'[j] = object[j]
      /\ object'[i] = x
  BY <1>0, <1>1, <1>b DEF FilesTyped, OnlyMoves
<1>5. FilesTyped'
  <2>1. refs' \in [FileIds -> Nat]
    BY <1>0, <1>1, <1>3 DEF FilesTyped
  <2>2. h' \in [Threads -> 0..Handles]
    BY <1>0, <1>1, FileServicesAssumption DEF FilesTyped, Nil
  <2>3. object' \in [HandleIds -> 0..Files]
    BY <1>0, <1>1 DEF FilesTyped, FileIds
  <2> QED
    BY <1>0, <1>1, <2>1, <2>2, <2>3 DEF FilesTyped
<1>6. ASSUME NEW u \in Threads, u # t
      PROVE  /\ h[u] # i
             /\ pc[u] \in {"open", "destroy", "push"} => f[u] \in FileIds \ {x}
  <2>1. h[u] # i
    BY <1>0, <1>6, <1>c, <1>2 DEF Places, OneOwner
  <2>2. ASSUME pc[u] \in {"open", "destroy", "push"} PROVE f[u] \in FileIds \ {x}
    <3>1. f[u] # Nil
      BY <1>0, <2>2 DEF Places, PlaceOf, Holding, Ending
    <3>2. f[u] \in FileIds
      BY <3>1, CallHolds
    <3>3. f[u] # x
      BY <2>2, <1>2, <1>6, NotAlone
    <3> QED
      BY <3>2, <3>3
  <2> QED
    BY <2>1, <2>2
<1>7. Places'
  <2>1. PlaceOf(t)'
    BY <1>2, <1>4 DEF PlaceOf, Holding, Ending
  <2>2. \A u \in Threads : u # t /\ pc[u] \in {"open", "destroy", "push"} =>
            refs'[f[u]] = refs[f[u]] /\ f'[t] # f[u]
    BY <1>4, <1>6
  <2>3. ASSUME NEW u \in Threads, u # t, h[u] # Nil
        PROVE  h'[t] # h[u] /\ (object'[h[u]] = Nil <=> object[h[u]] = Nil)
    <3>1. h[u] \in HandleIds
      BY <1>0, <2>3 DEF FilesTyped, HandleIds, Nil
    <3> QED
      BY <2>3, <3>1, <1>4, <1>6
  <2> QED
    BY <1>4, <2>1, <2>2, <2>3, PlacesStep DEF Ending
<1>8. /\ \A y \in FileIds : y # x => Handled(y)' = Handled(y)
      /\ Handled(x)' \ {i} = Handled(x) \ {i} /\ i \notin Handled(x) /\ i \in Handled(x)'
  <2>1. \A j \in HandleIds : Dropped(j)' <=> Dropped(j)
    BY <1>a, <1>4 DEF Dropped, OnlyMoves
  <2>2. ~Dropped(i)
    BY <1>6, <1>a, <1>c DEF Dropped
  <2>3. object[i] = Nil /\ \A y \in FileIds : y # Nil
    BY <1>a, <1>c DEF FileIds, Nil
  <2>4. ASSUME NEW y \in FileIds, NEW j
        PROVE  j \in Handled(y)' <=> j \in HandleIds /\ object'[j] = y /\ ~Dropped(j)'
    BY DEF Handled, Dropped
  <2>5. ASSUME NEW y \in FileIds, NEW j
        PROVE  j \in Handled(y) <=> j \in HandleIds /\ object[j] = y /\ ~Dropped(j)
    BY DEF Handled, Dropped
  <2> HIDE DEF Dropped, Handled
  <2>6. ASSUME NEW y \in FileIds, NEW j, j # i PROVE j \in Handled(y)' <=> j \in Handled(y)
    BY <2>1, <2>4, <2>5, <2>6, <1>4
  <2>7. i \in Handled(x)'
    BY <2>1, <2>2, <2>4, <1>4
  <2>8. ASSUME NEW y \in FileIds PROVE i \notin Handled(y)
    BY <2>3, <2>5
  <2>9. ASSUME NEW y \in FileIds, y # x PROVE i \notin Handled(y)'
    BY <2>4, <2>9, <1>4
  <2>10. ASSUME NEW y \in FileIds, y # x PROVE Handled(y)' = Handled(y)
    BY <2>6, <2>8, <2>9, <2>10
  <2> QED
    BY <2>6, <2>7, <2>8, <2>10
<1>9. \A y \in FileIds : Holders(y)' = Holders(y)
  BY <1>a, <1>b, <1>4, HoldersSame DEF Holding
<1>10. RefsMatch'
  <2>1. ASSUME NEW y \in FileIds, y # x
        PROVE  refs'[y] = Cardinality(Handled(y)') + Cardinality(Holders(y)')
    BY <2>1, <1>0, <1>4, <1>8, <1>9, RefsSame
  <2>2. refs'[x] = Cardinality(Handled(x)') + Cardinality(Holders(x)')
    BY <1>0, <1>2, <1>3, <1>4, <1>8, <1>9, RefsStep DEF One
  <2> QED
    BY <2>1, <2>2 DEF RefsMatch
<1>11. PoolsHold'
  <2>1. FreeFiles' = FreeFiles
    <3>1. \A y \in FileIds : refs[y] = 0 /\ f[t] # y <=> refs'[y] = 0 /\ f'[t] # y
      BY <1>b, <1>4
    <3> QED
      BY <3>1, <1>4, FreeFilesSame
  <2>2. FreeHandles' = FreeHandles
    <3>1. ASSUME NEW j \in HandleIds
          PROVE  object[j] = Nil /\ h[t] # j <=> object'[j] = Nil /\ h'[t] # j
      <4>1. CASE j = i
        BY <4>1, <1>c, <1>2, <1>4
      <4>2. CASE j # i
        BY <4>2, <1>c, <1>4 DEF HandleIds, Nil
      <4> QED
        BY <4>1, <4>2
    <3> QED
      BY <3>1, <1>4, FreeHandlesSame
  <2> QED
    BY <1>0, <1>1, <2>1, <2>2, PoolsSame
<1>12. Targets'
  <2>1. ASSUME NEW y \in FileIds, refs[y] > 0 PROVE refs'[y] > 0
    <3>1. CASE y = x
      BY <3>1, <1>3, <1>4
    <3>2. CASE y # x
      BY <2>1, <3>2, <1>4
    <3> QED
      BY <3>1, <3>2
  <2> QED
    BY <1>0, <1>a, <1>1, <1>4, <2>1, TargetsQuiet
<1>13. HostOpen'
  <2>1. InUse(x)
    BY <1>a, <1>b DEF InUse
  <2> QED
    BY <1>0, <1>a, <1>1, <1>4, <1>8, <2>1, HostQuiet DEF InUse
<1> QED
  BY <1>1, <1>5, <1>7, <1>10, <1>11, <1>12, <1>13, DirectorySame DEF FilesInd

\* reference_object: the call has a reference of its own.
LEMMA ReferenceInv ==
    ASSUME FilesInd, NEW t \in Threads, Reference(t)
    PROVE  FilesInd'
<1>0. /\ FilesTyped /\ PlaceOf(t) /\ Places /\ RefsMatch /\ PoolsHold
      /\ Targets /\ HostOpen /\ DirectoryInv
  BY DEF FilesInd, Places
<1>a. pc[t] = "look"
  BY DEF Reference, At
<1>b. PICK i \in HandleIds : i = h[t]
  BY <1>a, HandleHolds
<1>c. PICK x \in FileIds : x = object[i] /\ i \in Handled(x)
  BY <1>a, <1>b, HandleHolds
<1>1. /\ refs' = [refs EXCEPT ![x] = refs[x] + 1]
      /\ pc' = [pc EXCEPT ![t] = "io"] /\ f[t] = Nil
      /\ f' = [f EXCEPT ![t] = x] /\ h' = [h EXCEPT ![t] = Nil]
      /\ UNCHANGED <<boot, files, handles, device, object, host, target>>
  BY <1>a, <1>b, <1>c, HandleHolds DEF Reference, Goto
<1>2. x # Nil /\ i # Nil
  BY DEF FileIds, HandleIds, Nil
<1>3. refs[x] \in Nat \ {0} /\ refs[x] + 1 \in Nat
  BY <1>0, <1>c, CountedReferences
<1>4. /\ OnlyMoves(t) /\ h'[t] = Nil /\ f'[t] = x /\ pc'[t] = "io"
      /\ \A y \in FileIds : y # x => refs'[y] = refs[y]
      /\ refs'[x] = refs[x] + 1
  BY <1>0, <1>1 DEF FilesTyped, OnlyMoves
<1>5. FilesTyped'
  <2>1. refs' \in [FileIds -> Nat]
    BY <1>0, <1>1, <1>3 DEF FilesTyped
  <2>2. h' \in [Threads -> 0..Handles]
    BY <1>0, <1>1, FileServicesAssumption DEF FilesTyped, Nil
  <2>3. f' \in [Threads -> 0..Files]
    BY <1>0, <1>1 DEF FilesTyped, FileIds
  <2> QED
    BY <1>0, <1>1, <2>1, <2>2, <2>3 DEF FilesTyped
<1>6. ASSUME NEW u \in Threads, pc[u] \in {"open", "destroy", "push"}
      PROVE  f[u] \in FileIds \ {x}
  <2>1. f[u] # Nil
    BY <1>0, <1>6 DEF Places, PlaceOf, Holding, Ending
  <2>2. f[u] \in FileIds
    BY <2>1, CallHolds
  <2>3. f[u] # x
    BY <1>6, <1>c, NotAlone
  <2> QED
    BY <2>2, <2>3
<1>7. Places'
  <2>1. PlaceOf(t)'
    BY <1>2, <1>4 DEF PlaceOf, Holding, Ending
  <2>2. \A u \in Threads : pc[u] \in {"open", "destroy", "push"} =>
            refs'[f[u]] = refs[f[u]] /\ f'[t] # f[u]
    BY <1>4, <1>6
  <2> QED
    BY <1>1, <1>4, <2>1, <2>2, PlacesStep DEF Ending
<1>8. \A y : Handled(y)' = Handled(y)
  <2>1. pc[t] \notin {"destroy", "push", "free"} /\ pc'[t] \notin {"destroy", "push", "free"}
    BY <1>a, <1>4
  <2> QED
    BY <1>1, <1>4, <2>1, HandledSame
<1>9. RefsMatch'
  <2>1. ASSUME NEW y \in FileIds, y # x
        PROVE  refs'[y] = Cardinality(Handled(y)') + Cardinality(Holders(y)')
    <3>1. Holders(y)' = Holders(y)
      BY <2>1, <1>1, <1>4, HoldersSame DEF FileIds, Nil
    <3> QED
      BY <2>1, <3>1, <1>0, <1>4, <1>8, RefsSame
  <2>2. refs'[x] = Cardinality(Handled(x)') + Cardinality(Holders(x)')
    <3>1. /\ Holders(x)' \ {t} = Holders(x) \ {t} /\ t \in Holders(x)'
          /\ t \notin Holders(x)
      BY <1>1, <1>2, <1>4, HoldersStep DEF Holding
    <3> QED
      BY <1>0, <1>3, <1>4, <1>8, <3>1, RefsStep DEF One
  <2> QED
    BY <2>1, <2>2 DEF RefsMatch
<1>10. PoolsHold'
  <2>1. FreeFiles' = FreeFiles
    <3>1. ASSUME NEW y \in FileIds
          PROVE  refs[y] = 0 /\ f[t] # y <=> refs'[y] = 0 /\ f'[t] # y
      <4>1. CASE y = x
        BY <4>1, <1>3, <1>4
      <4>2. CASE y # x
        BY <4>2, <1>1, <1>4 DEF FileIds, Nil
      <4> QED
        BY <4>1, <4>2
    <3> QED
      BY <3>1, <1>4, FreeFilesSame
  <2>2. FreeHandles' = FreeHandles
    <3>1. \A j \in HandleIds : object[j] = Nil /\ h[t] # j <=> object'[j] = Nil /\ h'[t] # j
      BY <1>b, <1>c, <1>1, <1>2, <1>4 DEF HandleIds, Nil
    <3> QED
      BY <3>1, <1>4, FreeHandlesSame
  <2> QED
    BY <1>0, <1>1, <2>1, <2>2, PoolsSame
<1>11. Targets'
  <2>1. ASSUME NEW y \in FileIds, refs[y] > 0 PROVE refs'[y] > 0
    <3>1. CASE y = x
      BY <3>1, <1>3, <1>4
    <3>2. CASE y # x
      BY <2>1, <3>2, <1>4
    <3> QED
      BY <3>1, <3>2
  <2> QED
    BY <1>0, <1>a, <1>1, <1>4, <2>1, TargetsQuiet
<1>12. HostOpen'
  BY <1>0, <1>a, <1>c, <1>1, <1>4, <1>8, HostQuiet DEF InUse
<1> QED
  BY <1>1, <1>5, <1>7, <1>9, <1>10, <1>11, <1>12, DirectorySame DEF FilesInd

\* A close drops the reference of its handle: the last one goes on to end the
\* file.
LEMMA DropInv ==
    ASSUME FilesInd, NEW t \in Threads, Drop(t)
    PROVE  FilesInd'
<1>0. /\ FilesTyped /\ PlaceOf(t) /\ Places /\ RefsMatch /\ PoolsHold
      /\ Targets /\ HostOpen /\ DirectoryInv
  BY DEF FilesInd, Places
<1>a. pc[t] = "drop"
  BY DEF Drop, At
<1>b. PICK i \in HandleIds : i = h[t]
  BY <1>a, HandleHolds
<1>c. PICK x \in FileIds : x = object[i] /\ i \in Handled(x)
  BY <1>a, <1>b, HandleHolds
<1> DEFINE last == refs[x] = 1
<1>1. /\ refs' = [refs EXCEPT ![x] = refs[x] - 1] /\ f[t] = Nil
      /\ pc' = [pc EXCEPT ![t] = IF last THEN "destroy" ELSE "free"]
      /\ f' = IF last THEN [f EXCEPT ![t] = x] ELSE f
      /\ UNCHANGED <<boot, files, handles, device, object, host, h, target>>
  BY <1>a, <1>b, <1>c, HandleHolds DEF Drop, Goto
<1>2. x # Nil /\ i # Nil
  BY DEF FileIds, HandleIds, Nil
<1>3. refs[x] \in Nat \ {0} /\ refs[x] - 1 \in Nat
  BY <1>0, <1>c, CountedReferences
<1> HIDE DEF last
<1>4. /\ OnlyMoves(t) /\ h'[t] = i
      /\ f'[t] = (IF last THEN x ELSE Nil)
      /\ pc'[t] = (IF last THEN "destroy" ELSE "free")
      /\ \A y \in FileIds : y # x => refs'[y] = refs[y]
      /\ refs'[x] = refs[x] - 1
  BY <1>0, <1>b, <1>1 DEF FilesTyped, OnlyMoves
<1>5. FilesTyped'
  <2>1. refs' \in [FileIds -> Nat]
    BY <1>0, <1>1, <1>3 DEF FilesTyped
  <2>2. f' \in [Threads -> 0..Files]
    BY <1>0, <1>1 DEF FilesTyped, FileIds
  <2> QED
    BY <1>0, <1>1, <2>1, <2>2 DEF FilesTyped
<1>6. ASSUME NEW u \in Threads, f[u] = x
      PROVE  pc[u] \notin {"open", "destroy", "push"} /\ ~last
  BY <1>6, <1>c, NotAlone DEF last
<1>7. Places'
  <2>1. PlaceOf(t)'
    BY <1>b, <1>c, <1>1, <1>2, <1>3, <1>4 DEF PlaceOf, Holding, Ending, last
  <2>2. ASSUME NEW u \in Threads, u # t, pc[u] \in {"open", "destroy", "push"}
        PROVE  refs'[f[u]] = refs[f[u]] /\ f'[t] # f[u]
    <3>1. f[u] # Nil
      BY <1>0, <2>2 DEF Places, PlaceOf, Holding, Ending
    <3>2. f[u] \in FileIds /\ f[u] # x
      BY <2>2, <3>1, <1>6, CallHolds
    <3> QED
      BY <3>1, <3>2, <1>4
  <2>3. ASSUME NEW u \in Threads, u # t, pc'[t] \in Ending PROVE f'[t] # f[u]
    BY <2>3, <1>4, <1>6 DEF Ending
  <2>4. \A u \in Threads : u # t /\ h[u] # Nil => h'[t] # h[u]
    BY <1>0, <1>b, <1>4 DEF Places, OneOwner
  <2> QED
    BY <1>1, <1>4, <2>1, <2>2, <2>3, <2>4, PlacesStep DEF Ending
<1>8. /\ \A y \in FileIds : y # x => Handled(y)' = Handled(y)
      /\ Handled(x)' \ {i} = Handled(x) \ {i} /\ i \notin Handled(x)'
  <2>1. \A j \in HandleIds : j # i => (Dropped(j)' <=> Dropped(j))
    BY <1>b, <1>4 DEF Dropped, OnlyMoves
  <2>2. Dropped(i)'
    BY <1>4 DEF Dropped
  <2>4. ASSUME NEW y \in FileIds, NEW j
        PROVE  j \in Handled(y)' <=> j \in HandleIds /\ object'[j] = y /\ ~Dropped(j)'
    BY DEF Handled, Dropped
  <2>5. ASSUME NEW y \in FileIds, NEW j
        PROVE  j \in Handled(y) <=> j \in HandleIds /\ object[j] = y /\ ~Dropped(j)
    BY DEF Handled, Dropped
  <2>6. ASSUME NEW y \in FileIds, NEW j, j # i PROVE j \in Handled(y)' <=> j \in Handled(y)
    BY <2>1, <2>4, <2>5, <2>6, <1>1
  <2>7. ASSUME NEW y \in FileIds PROVE i \notin Handled(y)'
    BY <2>2, <2>4
  <2>8. ASSUME NEW y \in FileIds, y # x PROVE i \notin Handled(y)
    BY <2>5, <2>8, <1>c
  <2>9. ASSUME NEW y \in FileIds, y # x PROVE Handled(y)' = Handled(y)
    BY <2>6, <2>7, <2>8, <2>9
  <2> QED
    BY <2>6, <2>7, <2>9
<1>9. \A y \in FileIds : Holders(y)' = Holders(y)
  BY <1>a, <1>4, HoldersSame DEF Holding
<1>10. RefsMatch'
  <2>1. ASSUME NEW y \in FileIds, y # x
        PROVE  refs'[y] = Cardinality(Handled(y)') + Cardinality(Holders(y)')
    BY <2>1, <1>0, <1>4, <1>8, <1>9, RefsSame
  <2>2. refs'[x] = Cardinality(Handled(x)') + Cardinality(Holders(x)')
    <3>1. One(i, Handled(x)') = 0 /\ One(i, Handled(x)) = 1
      BY <1>c, <1>8 DEF One
    <3>2. One(t, Holders(x)') = One(t, Holders(x)) /\ One(t, Holders(x)) \in {0, 1}
      BY <1>9 DEF One
    <3>3. refs'[x] = refs[x] + One(i, Handled(x)') - One(i, Handled(x))
                             + One(t, Holders(x)') - One(t, Holders(x))
      BY <1>3, <1>4, <3>1, <3>2
    <3> QED
      BY <1>0, <1>8, <1>9, <3>3, RefsStep
  <2> QED
    BY <2>1, <2>2 DEF RefsMatch
<1>11. PoolsHold'
  <2>1. FreeFiles' = FreeFiles
    <3>1. ASSUME NEW y \in FileIds
          PROVE  refs[y] = 0 /\ f[t] # y <=> refs'[y] = 0 /\ f'[t] # y
      <4>1. CASE y = x
        BY <4>1, <1>3, <1>4 DEF last
      <4>2. CASE y # x
        BY <4>2, <1>1, <1>4 DEF FileIds, Nil
      <4> QED
        BY <4>1, <4>2
    <3> QED
      BY <3>1, <1>4, FreeFilesSame
  <2>2. FreeHandles' = FreeHandles
    BY <1>b, <1>1, <1>4, FreeHandlesSame
  <2> QED
    BY <1>0, <1>1, <2>1, <2>2, PoolsSame
<1>12. Targets'
  <2>1. ASSUME NEW y \in FileIds, refs[y] > 0
        PROVE  refs'[y] > 0 \/ (f'[t] = y /\ pc'[t] = "destroy")
    <3>1. last \/ refs[x] - 1 > 0
      BY <1>3 DEF last
    <3>2. CASE y = x
      BY <1>4, <3>1, <3>2
    <3>3. CASE y # x
      BY <1>4, <2>1, <3>3
    <3> QED
      BY <3>2, <3>3
  <2> QED
    BY <1>0, <1>a, <1>1, <1>4, <2>1, TargetsQuiet
<1>13. HostOpen'
  <2>1. InUse(x)
    BY <1>c DEF InUse
  <2> QED
    BY <1>0, <1>a, <1>1, <1>4, <1>8, <2>1, HostQuiet DEF InUse
<1> QED
  BY <1>1, <1>5, <1>7, <1>10, <1>11, <1>12, <1>13, DirectorySame DEF FilesInd

\* The entry of an ended file is free again.
LEMMA PushFileInv ==
    ASSUME FilesInd, NEW t \in Threads, PushFile(t)
    PROVE  FilesInd'
<1>0. /\ FilesTyped /\ PlaceOf(t) /\ Places /\ RefsMatch /\ PoolsHold
      /\ Targets /\ HostOpen /\ DirectoryInv
  BY DEF FilesInd, Places
<1>a. pc[t] = "push" /\ f[t] # Nil /\ refs[f[t]] = 0
  BY <1>0 DEF PushFile, At, PlaceOf, Ending
<1>b. PICK x \in FileIds : x = f[t]
  BY <1>a, CallHolds
<1>1. /\ pc' = [pc EXCEPT ![t] = IF h[t] = Nil THEN "idle" ELSE "free"]
      /\ f' = [f EXCEPT ![t] = Nil] /\ files' = Push(files, x)
      /\ UNCHANGED <<boot, handles, refs, device, object, host, h, target>>
  BY <1>b DEF PushFile, Goto
<1>2. /\ OnlyMoves(t) /\ f'[t] = Nil /\ h'[t] = h[t]
      /\ pc'[t] = (IF h[t] = Nil THEN "idle" ELSE "free")
  BY <1>0, <1>1 DEF FilesTyped, OnlyMoves
<1>3. \A u \in Threads : u # t => f[u] # x
  BY <1>0, <1>a, <1>b DEF Places, OneOwner, Ending
<1>4. FreeFiles' = FreeFiles \cup {x} /\ x \notin FreeFiles
  <2>1. x \notin FreeFiles
    BY <1>b DEF FreeFiles
  <2>2. x \in FreeFiles'
    BY <1>a, <1>b, <1>1, <1>2, <1>3 DEF FreeFiles, OnlyMoves, FileIds, Nil
  <2>3. ASSUME NEW y, y # x PROVE y \in FreeFiles' <=> y \in FreeFiles
    BY <2>3, <1>b, <1>1, <1>2 DEF FreeFiles, OnlyMoves, FileIds, Nil
  <2> QED
    BY <2>1, <2>2, <2>3
<1>5. PoolHolds(files', Files, FreeFiles')
  <2>1. x \in (1..Files) \ FreeFiles /\ Files \in Nat /\ PoolHolds(files, Files, FreeFiles)
    BY <1>0, <1>4, FileServicesAssumption DEF FileIds, PoolsHold
  <2>2. PoolHolds(Push(files, x), Files, FreeFiles \cup {x})
    BY <2>1, PoolPush, Zenon
  <2> QED
    BY <2>2, <1>1, <1>4
<1>6. FilesTyped'
  <2>1. f' \in [Threads -> 0..Files]
    BY <1>0, <1>1, FileServicesAssumption DEF FilesTyped, Nil
  <2>2. files' \in FreeList(Files)
    BY <1>5 DEF PoolHolds, Chain
  <2> QED
    BY <1>0, <1>1, <2>1, <2>2 DEF FilesTyped
<1>7. Places'
  <2>1. PlaceOf(t)'
    BY <1>0, <1>a, <1>1, <1>2 DEF PlaceOf, Holding, Ending
  <2>2. \A u \in Threads : u # t /\ h[u] # Nil => h'[t] # h[u]
    BY <1>0, <1>2 DEF Places, OneOwner
  <2>3. \A u \in Threads : (pc[u] \in Ending \/ pc'[t] \in Ending) => f'[t] # f[u]
    BY <1>0, <1>2 DEF Places, PlaceOf, Ending
  <2> QED
    BY <1>1, <1>2, <2>1, <2>2, <2>3, PlacesStep
<1>8. \A y : Handled(y)' = Handled(y)
  <2>1. \A j \in HandleIds :
            h[t] = j /\ pc[t] \in {"destroy", "push", "free"}
            <=> h'[t] = j /\ pc'[t] \in {"destroy", "push", "free"}
    BY <1>a, <1>2 DEF HandleIds, Nil
  <2> QED
    BY <1>1, <1>2, <2>1, HandledSame
<1>9. RefsMatch'
  <2>1. ASSUME NEW y \in FileIds
        PROVE  refs'[y] = Cardinality(Handled(y)') + Cardinality(Holders(y)')
    <3>1. Holders(y)' = Holders(y)
      BY <1>a, <1>2, HoldersSame DEF Holding
    <3> QED
      BY <3>1, <1>0, <1>1, <1>8, RefsSame
  <2> QED
    BY <2>1 DEF RefsMatch
<1>10. PoolsHold'
  <2>1. FreeHandles' = FreeHandles
    BY <1>1, <1>2, FreeHandlesSame
  <2> QED
    BY <1>0, <1>1, <1>5, <2>1 DEF PoolsHold
<1>11. Targets'
  BY <1>0, <1>a, <1>1, <1>2, TargetsQuiet
<1>12. HostOpen'
  BY <1>0, <1>a, <1>1, <1>2, <1>8, HostQuiet DEF InUse
<1> QED
  BY <1>1, <1>6, <1>7, <1>9, <1>10, <1>11, <1>12, DirectorySame DEF FilesInd

\* The entry of a closed handle is free again.
LEMMA FreeHandleInv ==
    ASSUME FilesInd, NEW t \in Threads, FreeHandle(t)
    PROVE  FilesInd'
<1>0. /\ FilesTyped /\ PlaceOf(t) /\ Places /\ RefsMatch /\ PoolsHold
      /\ Targets /\ HostOpen /\ DirectoryInv
  BY DEF FilesInd, Places
<1>a. pc[t] = "free" /\ f[t] = Nil /\ h[t] # Nil /\ object[h[t]] # Nil
  BY <1>0 DEF FreeHandle, At, PlaceOf, Holding, Ending
<1>b. PICK i \in HandleIds : i = h[t]
  BY <1>0, <1>a DEF FilesTyped, HandleIds, Nil
<1>1. /\ pc' = [pc EXCEPT ![t] = "idle"]
      /\ object' = [object EXCEPT ![i] = Nil]
      /\ h' = [h EXCEPT ![t] = Nil] /\ handles' = Push(handles, i)
      /\ UNCHANGED <<boot, files, refs, device, host, f, target>>
  BY <1>b DEF FreeHandle, Goto
<1>2. /\ OnlyMoves(t) /\ f'[t] = Nil /\ h'[t] = Nil /\ pc'[t] = "idle" /\ i # Nil
      /\ object'[i] = Nil /\ \A j \in HandleIds : j # i => object'[j] = object[j]
  BY <1>0, <1>a, <1>b, <1>1 DEF FilesTyped, OnlyMoves
<1>3. \A u \in Threads : u # t => h[u] # i
  BY <1>0, <1>a, <1>b DEF Places, OneOwner
<1>4. FreeHandles' = FreeHandles \cup {i} /\ i \notin FreeHandles
  <2>1. i \notin FreeHandles
    BY <1>b DEF FreeHandles
  <2>2. i \in FreeHandles'
    BY <1>2, <1>3 DEF FreeHandles, OnlyMoves
  <2>3. ASSUME NEW y, y # i PROVE y \in FreeHandles' <=> y \in FreeHandles
    BY <2>3, <1>b, <1>2 DEF FreeHandles, OnlyMoves, HandleIds, Nil
  <2> QED
    BY <2>1, <2>2, <2>3
<1>5. PoolHolds(handles', Handles, FreeHandles')
  <2>1. /\ i \in (1..Handles) \ FreeHandles /\ Handles \in Nat
        /\ PoolHolds(handles, Handles, FreeHandles)
    BY <1>0, <1>4, FileServicesAssumption DEF HandleIds, PoolsHold
  <2>2. PoolHolds(Push(handles, i), Handles, FreeHandles \cup {i})
    BY <2>1, PoolPush, Zenon
  <2> QED
    BY <2>2, <1>1, <1>4
<1>6. FilesTyped'
  <2>1. h' \in [Threads -> 0..Handles]
    BY <1>0, <1>1, FileServicesAssumption DEF FilesTyped, Nil
  <2>2. handles' \in FreeList(Handles)
    BY <1>5 DEF PoolHolds, Chain
  <2>3. object' \in [HandleIds -> 0..Files]
    BY <1>0, <1>1, FileServicesAssumption DEF FilesTyped, Nil
  <2> QED
    BY <1>0, <1>1, <2>1, <2>2, <2>3 DEF FilesTyped
<1>7. Places'
  <2>1. PlaceOf(t)'
    BY <1>2 DEF PlaceOf, Holding, Ending
  <2>2. ASSUME NEW u \in Threads, u # t, h[u] # Nil
        PROVE  h'[t] # h[u] /\ (object'[h[u]] = Nil <=> object[h[u]] = Nil)
    <3>1. h[u] \in HandleIds
      BY <1>0, <2>2 DEF FilesTyped, HandleIds, Nil
    <3> QED
      BY <2>2, <3>1, <1>2, <1>3
  <2>3. \A u \in Threads : (pc[u] \in Ending \/ pc'[t] \in Ending) => f'[t] # f[u]
    BY <1>0, <1>2 DEF Places, PlaceOf, Ending
  <2> QED
    BY <1>1, <1>2, <2>1, <2>2, <2>3, PlacesStep
<1>8. \A y \in FileIds : Handled(y)' = Handled(y)
  <2>1. \A j \in HandleIds : j # i => (Dropped(j)' <=> Dropped(j))
    BY <1>b, <1>2 DEF Dropped, OnlyMoves, HandleIds, Nil
  <2>2. Dropped(i)
    BY <1>a, <1>b DEF Dropped
  <2>3. ASSUME NEW y \in FileIds, NEW j
        PROVE  j \in Handled(y)' <=> j \in HandleIds /\ object'[j] = y /\ ~Dropped(j)'
    BY DEF Handled, Dropped
  <2>4. ASSUME NEW y \in FileIds, NEW j
        PROVE  j \in Handled(y) <=> j \in HandleIds /\ object[j] = y /\ ~Dropped(j)
    BY DEF Handled, Dropped
  <2>5. ASSUME NEW y \in FileIds, NEW j PROVE j \in Handled(y)' <=> j \in Handled(y)
    <3>1. CASE j = i
      <4>1. object'[i] # y
        BY <1>2 DEF FileIds, Nil
      <4> QED
        BY <3>1, <4>1, <2>2, <2>3, <2>4
    <3>2. CASE j # i
      BY <3>2, <2>1, <2>3, <2>4, <1>2
    <3> QED
      BY <3>1, <3>2
  <2> QED
    BY <2>5
<1>9. RefsMatch'
  <2>1. ASSUME NEW y \in FileIds
        PROVE  refs'[y] = Cardinality(Handled(y)') + Cardinality(Holders(y)')
    <3>1. Holders(y)' = Holders(y)
      BY <1>a, <1>2, HoldersSame DEF Holding
    <3> QED
      BY <3>1, <1>0, <1>1, <1>8, RefsSame
  <2> QED
    BY <2>1 DEF RefsMatch
<1>10. PoolsHold'
  <2>1. FreeFiles' = FreeFiles
    BY <1>1, <1>2, FreeFilesSame
  <2> QED
    BY <1>0, <1>1, <1>5, <2>1 DEF PoolsHold
<1>11. Targets'
  BY <1>0, <1>a, <1>1, <1>2, TargetsQuiet
<1>12. HostOpen'
  BY <1>0, <1>a, <1>1, <1>2, <1>8, HostQuiet DEF InUse
<1> QED
  BY <1>1, <1>6, <1>7, <1>9, <1>10, <1>11, <1>12, DirectorySame DEF FilesInd

\* The destructor of a file closes it at its device, and nothing else.
LEMMA DestroyInv ==
    ASSUME FilesInd, NEW t \in Threads, Destroy(t)
    PROVE  FilesInd'
<1>0. /\ FilesTyped /\ PlaceOf(t) /\ Places /\ RefsMatch /\ PoolsHold
      /\ Targets /\ HostOpen /\ DirectoryInv
  BY DEF FilesInd, Places
<1>a. pc[t] = "destroy" /\ f[t] # Nil /\ refs[f[t]] = 0
  BY <1>0 DEF Destroy, At, PlaceOf, Ending
<1>b. PICK x \in FileIds : x = f[t]
  BY <1>a, CallHolds
<1>c. PICK d : d = device[x] /\ IsTarget(d)
  BY <1>0 DEF Targets
<1>1. /\ pc' = [pc EXCEPT ![t] = "push"]
      /\ host' = IF d[1] = Fs0 THEN host \ {d[2]} ELSE host
      /\ device' = [device EXCEPT ![x] = NoDevice]
      /\ UNCHANGED <<boot, files, handles, refs, object, f, h, target>>
  BY <1>b, <1>c DEF Destroy, Goto
<1>2. /\ OnlyMoves(t) /\ pc'[t] = "push" /\ device'[x] = NoDevice
      /\ \A y \in FileIds : y # x => device'[y] = device[y]
      /\ device' = [y \in FileIds |-> device'[y]]
  BY <1>0, <1>1 DEF FilesTyped, OnlyMoves, Targets
<1>3. \A u \in Threads : u # t => f[u] # x
  BY <1>0, <1>a, <1>b DEF Places, OneOwner, Ending
<1>4. FilesTyped'
  <2>1. host' \subseteq HostFiles
    BY <1>0, <1>1 DEF FilesTyped
  <2> QED
    BY <1>0, <1>1, <2>1 DEF FilesTyped
<1>5. Places'
  <2>1. PlaceOf(t)'
    BY <1>0, <1>a, <1>1, <1>2 DEF PlaceOf, Holding, Ending
  <2>2. \A u \in Threads : u # t /\ h[u] # Nil => h'[t] # h[u]
    BY <1>0, <1>1 DEF Places, OneOwner
  <2> QED
    BY <1>b, <1>1, <1>2, <1>3, <2>1, <2>2, PlacesStep
<1>6. \A y : Handled(y)' = Handled(y)
  BY <1>a, <1>1, <1>2, HandledSame
<1>7. RefsMatch'
  <2>1. ASSUME NEW y \in FileIds
        PROVE  refs'[y] = Cardinality(Handled(y)') + Cardinality(Holders(y)')
    <3>1. Holders(y)' = Holders(y)
      BY <1>a, <1>2, HoldersSame DEF Holding
    <3> QED
      BY <3>1, <1>0, <1>1, <1>6, RefsSame
  <2> QED
    BY <2>1 DEF RefsMatch
<1>8. PoolsHold'
  <2>1. FreeFiles' = FreeFiles /\ FreeHandles' = FreeHandles
    BY <1>1, <1>2, FreeFilesSame, FreeHandlesSame
  <2> QED
    BY <1>0, <1>1, <2>1, PoolsSame
<1>9. Targets'
  <2>1. \A y \in FileIds : IsTarget(device'[y])
    BY <1>0, <1>2 DEF Targets, IsTarget, NoDevice
  <2>2. ASSUME NEW u \in Threads, pc'[u] \in {"file", "open"}
        PROVE  u # t /\ pc[u] = pc'[u]
    BY <2>2, <1>2 DEF OnlyMoves
  <2>3. ASSUME NEW u \in Threads, pc'[u] = "open" PROVE target'[u] = device'[f'[u]]
    <3>1. u # t /\ pc[u] = "open" /\ f[u] # x /\ f'[u] = f[u] /\ target'[u] = target[u]
      BY <2>2, <2>3, <1>1, <1>3
    <3>2. f[u] \in FileIds /\ target[u] = device[f[u]]
      BY <3>1, <1>0, CallHolds DEF Targets, Places, PlaceOf, Holding
    <3> QED
      BY <3>1, <3>2, <1>2
  <2>4. ASSUME NEW y \in FileIds, device'[y] # NoDevice
        PROVE  refs'[y] > 0 \/ \E u \in Threads : f'[u] = y /\ pc'[u] = "destroy"
    <3>1. y # x /\ device[y] # NoDevice
      BY <2>4, <1>2
    <3>2. refs[y] > 0 \/ \E u \in Threads : f[u] = y /\ pc[u] = "destroy"
      BY <3>1, <1>0 DEF Targets
    <3> QED
      BY <3>1, <3>2, <1>b, <1>1, <1>2 DEF OnlyMoves
  <2> QED
    BY <1>0, <1>1, <1>2, <2>1, <2>2, <2>3, <2>4 DEF Targets
<1>10. HostOpen'
  <2>1. Handled(x) = {}
    BY <1>0, <1>a, <1>b, CountedReferences
  <2>2. ~InUse(x)'
    BY <1>1, <1>2, <1>3, <1>6, <2>1 DEF InUse, OnlyMoves
  <2>3. ASSUME NEW y \in FileIds, InUse(y)' PROVE y # x /\ InUse(y)
    <3>1. y # x
      BY <2>2, <2>3
    <3> QED
      BY <2>3, <3>1, <1>b, <1>2, <1>6 DEF InUse, OnlyMoves
  <2>4. ASSUME NEW y \in FileIds
        PROVE  Opened(y)' <=> Opened(y) /\ y # x
    <3>1. (\E u \in Threads : f'[u] = y /\ pc'[u] = "open")
            <=> (\E u \in Threads : f[u] = y /\ pc[u] = "open")
      BY <1>a, <1>2 DEF OnlyMoves
    <3>2. CASE y = x
      BY <3>2, <1>2 DEF Opened
    <3>3. CASE y # x
      BY <3>1, <3>3, <1>2 DEF Opened
    <3> QED
      BY <3>2, <3>3
  <2>5. d[1] = Fs0 => Opened(x)
    <3>1. ~\E u \in Threads : f[u] = x /\ pc[u] = "open"
      BY <1>a, <1>3
    <3>2. d[1] = Fs0 => d # NoDevice
      BY FileServicesAssumption DEF NoDevice
    <3> QED
      BY <3>1, <3>2, <1>c DEF Opened
  <2>6. \A y \in FileIds : InUse(y)' => device'[y] # NoDevice
    BY <2>3, <1>0, <1>2 DEF HostOpen
  <2>7. ASSUME NEW y \in FileIds, Opened(y)', device'[y][1] = Fs0 PROVE device'[y][2] \in host'
    <3>1. Opened(y) /\ y # x /\ device'[y] = device[y]
      BY <2>4, <2>7, <1>2
    <3>2. device[y][1] = Fs0 /\ device[y][2] \in host
      BY <3>1, <2>7, <1>0 DEF HostOpen
    <3>3. ASSUME d[1] = Fs0, device[y][2] = d[2] PROVE FALSE
      <4>1. device[y] = device[x]
        BY <3>2, <3>3, <1>0, <1>c DEF Targets, IsTarget
      <4> QED
        BY <3>1, <3>2, <3>3, <4>1, <2>5, <1>0 DEF HostOpen
    <3> QED
      BY <3>1, <3>2, <3>3, <1>1
  <2>8. ASSUME NEW y \in FileIds, NEW z \in FileIds,
               Opened(y)', Opened(z)', device'[y][1] = Fs0, device'[y] = device'[z]
        PROVE  y = z
    BY <2>4, <2>8, <1>0, <1>2 DEF HostOpen
  <2>9. ASSUME NEW p \in host' PROVE \E y \in FileIds : Opened(y)' /\ device'[y] = <<Fs0, p>>
    <3>1. p \in host /\ (d[1] = Fs0 => p # d[2])
      BY <1>1
    <3>2. PICK y \in FileIds : Opened(y) /\ device[y] = <<Fs0, p>>
      BY <3>1, <1>0 DEF HostOpen
    <3>3. y # x
      BY <3>1, <3>2, <1>c
    <3> QED
      BY <3>2, <3>3, <2>4, <1>2
  <2> QED
    BY <2>6, <2>7, <2>8, <2>9 DEF HostOpen
<1> QED
  BY <1>1, <1>4, <1>5, <1>7, <1>8, <1>9, <1>10, DirectorySame DEF FilesInd

\* file_table_.allocate takes the first free entry, or open returns.
LEMMA AllocFileInv ==
    ASSUME FilesInd, NEW t \in Threads, AllocFile(t)
    PROVE  FilesInd'
<1>0. /\ FilesTyped /\ PlaceOf(t) /\ Places /\ RefsMatch /\ PoolsHold
      /\ Targets /\ HostOpen /\ DirectoryInv
  BY DEF FilesInd, Places
<1>1. /\ pc[t] = "file" /\ f[t] = Nil /\ h[t] = Nil
      /\ UNCHANGED <<boot, handles, object, host, h>>
  BY <1>0 DEF AllocFile, At, PlaceOf, Holding, Ending
<1>2. IsTarget(NoDevice) /\ IsTarget(target[t]) /\ target[t] # NoDevice
  BY <1>0, <1>1 DEF Targets, IsTarget, NoDevice
<1>3. CASE files.head = Nil
  <2>1. /\ pc' = [pc EXCEPT ![t] = "idle"] /\ target' = [target EXCEPT ![t] = NoDevice]
        /\ UNCHANGED <<files, refs, device, f>>
    BY <1>3 DEF AllocFile, Goto
  <2>2. OnlyMoves(t) /\ pc'[t] = "idle" /\ f'[t] = Nil /\ h'[t] = Nil
    BY <1>0, <1>1, <2>1 DEF FilesTyped, OnlyMoves
  <2>3. FilesTyped'
    BY <1>0, <1>1, <2>1 DEF FilesTyped
  <2>4. Places'
    <3>1. PlaceOf(t)'
      BY <2>2 DEF PlaceOf, Holding, Ending
    <3>2. \A u \in Threads : (pc[u] \in Ending \/ pc'[t] \in Ending) => f'[t] # f[u]
      BY <1>0, <2>2 DEF Places, PlaceOf, Ending
    <3> QED
      BY <1>1, <2>1, <2>2, <3>1, <3>2, PlacesStep
  <2>5. \A y : Handled(y)' = Handled(y)
    <3>1. pc[t] \notin {"destroy", "push", "free"} /\ pc'[t] \notin {"destroy", "push", "free"}
      BY <1>1, <2>2
    <3> QED
      BY <1>1, <2>2, <3>1, HandledSame
  <2>6. RefsMatch'
    <3>1. ASSUME NEW y \in FileIds
          PROVE  refs'[y] = Cardinality(Handled(y)') + Cardinality(Holders(y)')
      <4>1. Holders(y)' = Holders(y)
        BY <1>1, <2>2, HoldersSame DEF Holding
      <4> QED
        BY <4>1, <1>0, <2>1, <2>5, RefsSame
    <3> QED
      BY <3>1 DEF RefsMatch
  <2>7. PoolsHold'
    <3>1. FreeFiles' = FreeFiles /\ FreeHandles' = FreeHandles
      BY <1>1, <2>1, <2>2, FreeFilesSame, FreeHandlesSame
    <3> QED
      BY <1>0, <1>1, <2>1, <3>1, PoolsSame
  <2>8. Targets'
    <3>1. /\ target' = [u \in Threads |-> target'[u]] /\ \A u \in Threads : IsTarget(target'[u])
          /\ \A u \in Threads : u # t => target'[u] = target[u]
      BY <1>0, <1>2, <2>1 DEF Targets
    <3>2. \A u \in Threads : pc'[u] \in {"file", "open"} => u # t
      BY <2>2
    <3>3. ASSUME NEW x \in FileIds, device'[x] # NoDevice
          PROVE  refs'[x] > 0 \/ \E u \in Threads : f'[u] = x /\ pc'[u] = "destroy"
      <4>1. refs[x] > 0 \/ \E u \in Threads : f[u] = x /\ pc[u] = "destroy"
        BY <1>0, <2>1, <3>3 DEF Targets
      <4> QED
        BY <1>1, <2>1, <2>2, <4>1 DEF OnlyMoves
    <3> QED
      BY <1>0, <2>1, <2>2, <3>1, <3>2, <3>3 DEF Targets, OnlyMoves
  <2>9. HostOpen'
    BY <1>0, <1>1, <2>1, <2>2, <2>5, HostQuiet DEF InUse
  <2> QED
    BY <1>1, <2>3, <2>4, <2>6, <2>7, <2>8, <2>9, DirectorySame DEF FilesInd
<1>4. CASE files.head # Nil
  <2>a. PICK x \in FreeFiles : x = files.head /\ PoolHolds(Pop(files), Files, FreeFiles \ {x})
    BY <1>0, <1>4, FileServicesAssumption, PoolPop DEF PoolsHold
  <2>b. /\ x \in FileIds /\ refs[x] = 0 /\ x # Nil /\ \A u \in Threads : f[u] # x
    BY <2>a DEF FreeFiles, FileIds, Nil
  <2>1. /\ pc' = [pc EXCEPT ![t] = "open"] /\ f' = [f EXCEPT ![t] = x]
        /\ refs' = [refs EXCEPT ![x] = 1]
        /\ device' = [device EXCEPT ![x] = target[t]]
        /\ files' = Pop(files) /\ target' = target
    BY <1>4, <2>a DEF AllocFile, Goto
  <2>2. /\ OnlyMoves(t) /\ pc'[t] = "open" /\ f'[t] = x /\ h'[t] = Nil
        /\ refs'[x] = 1 /\ \A y \in FileIds : y # x => refs'[y] = refs[y]
    BY <1>0, <1>1, <2>1, <2>b DEF FilesTyped, OnlyMoves
  <2>3. /\ device'[x] = target[t] /\ \A y \in FileIds : y # x => device'[y] = device[y]
        /\ device' = [y \in FileIds |-> device'[y]]
    BY <1>0, <2>1, <2>b DEF Targets
  <2>4. FilesTyped'
    <3>1. files' \in FreeList(Files)
      BY <2>a, <2>1 DEF PoolHolds, Chain
    <3>2. f' \in [Threads -> 0..Files]
      BY <1>0, <2>1, <2>b DEF FilesTyped, FileIds
    <3>3. refs' \in [FileIds -> Nat]
      BY <1>0, <2>1 DEF FilesTyped
    <3> QED
      BY <1>0, <1>1, <2>1, <3>1, <3>2, <3>3 DEF FilesTyped
  <2>5. Places'
    <3>1. PlaceOf(t)'
      BY <2>2, <2>b DEF PlaceOf, Holding, Ending
    <3>2. ASSUME NEW u \in Threads, pc[u] \in {"open", "destroy", "push"}
          PROVE  refs'[f[u]] = refs[f[u]]
      <4>1. f[u] # Nil
        BY <1>0, <3>2 DEF Places, PlaceOf, Holding, Ending
      <4>2. f[u] \in FileIds /\ f[u] # x
        BY <4>1, <2>b, CallHolds
      <4> QED
        BY <4>2, <2>2
    <3> QED
      BY <1>1, <2>2, <2>b, <3>1, <3>2, PlacesStep
  <2>6. \A y : Handled(y)' = Handled(y)
    <3>1. pc[t] \notin {"destroy", "push", "free"} /\ pc'[t] \notin {"destroy", "push", "free"}
      BY <1>1, <2>2
    <3> QED
      BY <1>1, <2>2, <3>1, HandledSame
  <2>7. RefsMatch'
    <3>1. ASSUME NEW y \in FileIds, y # x
          PROVE  refs'[y] = Cardinality(Handled(y)') + Cardinality(Holders(y)')
      <4>1. Holders(y)' = Holders(y)
        BY <3>1, <1>1, <2>2, HoldersSame DEF FileIds, Nil
      <4> QED
        BY <3>1, <4>1, <1>0, <2>2, <2>6, RefsSame
    <3>2. refs'[x] = Cardinality(Handled(x)') + Cardinality(Holders(x)')
      <4>1. /\ Holders(x)' \ {t} = Holders(x) \ {t} /\ t \in Holders(x)'
            /\ t \notin Holders(x)
        BY <1>1, <2>2, <2>b, HoldersStep DEF Holding
      <4> QED
        BY <1>0, <2>2, <2>6, <2>b, <4>1, RefsStep DEF One
    <3> QED
      BY <3>1, <3>2 DEF RefsMatch
  <2>8. PoolsHold'
    <3>1. FreeFiles' = FreeFiles \ {x}
      <4>1. ASSUME NEW y \in FileIds, y # x PROVE y \in FreeFiles' <=> y \in FreeFiles
        BY <4>1, <1>1, <2>2 DEF FreeFiles, OnlyMoves, FileIds, Nil
      <4>2. x \notin FreeFiles'
        BY <2>2 DEF FreeFiles
      <4>3. FreeFiles' \subseteq FileIds /\ FreeFiles \subseteq FileIds
        BY DEF FreeFiles
      <4> QED
        BY <4>1, <4>2, <4>3
    <3>2. FreeHandles' = FreeHandles
      BY <1>1, <2>2, FreeHandlesSame
    <3> QED
      BY <1>0, <1>1, <2>a, <2>1, <3>1, <3>2 DEF PoolsHold
  <2>9. Targets'
    <3>1. \A y \in FileIds : IsTarget(device'[y])
      BY <1>0, <1>2, <2>3 DEF Targets
    <3>2. \A u \in Threads : pc'[u] \in {"file", "open"} => target'[u] # NoDevice
      BY <1>0, <1>2, <2>1, <2>2 DEF Targets, OnlyMoves
    <3>3. ASSUME NEW u \in Threads, pc'[u] = "open" PROVE target'[u] = device'[f'[u]]
      <4>1. CASE u = t
        BY <4>1, <2>1, <2>2, <2>3
      <4>2. CASE u # t
        <5>1. pc[u] = "open" /\ f'[u] = f[u] /\ target'[u] = target[u]
          BY <3>3, <4>2, <2>1, <2>2 DEF OnlyMoves
        <5>2. f[u] # Nil /\ target[u] = device[f[u]]
          BY <5>1, <1>0 DEF Targets, Places, PlaceOf, Holding
        <5>3. f[u] \in FileIds /\ f[u] # x
          BY <5>2, <2>b, CallHolds
        <5> QED
          BY <5>1, <5>2, <5>3, <2>3
      <4> QED
        BY <4>1, <4>2
    <3>4. ASSUME NEW y \in FileIds, device'[y] # NoDevice
          PROVE  refs'[y] > 0 \/ \E u \in Threads : f'[u] = y /\ pc'[u] = "destroy"
      <4>1. CASE y = x
        BY <4>1, <2>2
      <4>2. CASE y # x
        <5>1. refs[y] > 0 \/ \E u \in Threads : f[u] = y /\ pc[u] = "destroy"
          BY <3>4, <4>2, <1>0, <2>3 DEF Targets
        <5> QED
          BY <4>2, <5>1, <1>1, <2>2 DEF OnlyMoves
      <4> QED
        BY <4>1, <4>2
    <3> QED
      BY <1>0, <2>1, <2>3, <3>1, <3>2, <3>3, <3>4 DEF Targets
  <2>10. HostOpen'
    <3>1. Handled(x) = {} /\ device[x] = NoDevice
      BY <1>0, <2>b, CountedReferences DEF Targets
    <3>2. ~InUse(x)'
      <4>1. \A u \in Threads : u # t => f'[u] # x
        BY <2>2, <2>b DEF OnlyMoves
      <4> QED
        BY <4>1, <2>2, <2>6, <3>1 DEF InUse
    <3>3. ASSUME NEW y \in FileIds, InUse(y)' PROVE InUse(y) /\ y # x
      BY <3>2, <3>3, <2>2, <2>6 DEF InUse, OnlyMoves
    <3>4. ASSUME NEW y \in FileIds PROVE (Opened(y)' <=> Opened(y)) /\ (Opened(y) => y # x)
      <4>1. CASE y = x
        BY <4>1, <2>2, <3>1 DEF Opened
      <4>2. CASE y # x
        BY <4>2, <1>1, <2>2, <2>3 DEF Opened, OnlyMoves
      <4> QED
        BY <4>1, <4>2
    <3>5. \A y \in FileIds : InUse(y)' => device'[y] # NoDevice
      BY <3>3, <1>0, <2>3 DEF HostOpen
    <3>6. \A y \in FileIds : Opened(y)' => Opened(y) /\ device'[y] = device[y]
      BY <3>4, <2>3
    <3>7. \A p \in host : \E y \in FileIds : Opened(y)' /\ device'[y] = <<Fs0, p>>
      BY <3>4, <1>0, <2>3 DEF HostOpen
    <3> QED
      BY <1>0, <1>1, <3>5, <3>6, <3>7 DEF HostOpen
  <2> QED
    BY <1>1, <2>4, <2>5, <2>7, <2>8, <2>9, <2>10, DirectorySame DEF FilesInd
<1> QED
  BY <1>3, <1>4

\* fast_open: the device opens the file, which nobody else refers to yet, or the
\* file loses its device.
LEMMA FastOpenInv ==
    ASSUME FilesInd, NEW t \in Threads, FastOpen(t)
    PROVE  FilesInd'
<1>0. /\ FilesTyped /\ PlaceOf(t) /\ Places /\ RefsMatch /\ PoolsHold
      /\ Targets /\ HostOpen /\ DirectoryInv
  BY DEF FilesInd, Places
<1>a. pc[t] = "open" /\ f[t] # Nil /\ h[t] = Nil /\ refs[f[t]] = 1
  BY <1>0 DEF FastOpen, At, PlaceOf, Holding, Ending
<1>b. PICK x \in FileIds : x = f[t] /\ t \in Holders(x)
  BY <1>a, CallHolds DEF Holding
<1>c. PICK d : d = device[x] /\ d = target[t] /\ IsTarget(d) /\ d # NoDevice
  BY <1>0, <1>a, <1>b DEF Targets
<1> DEFINE ok == OpensAt(d)
<1>1. /\ pc' = [pc EXCEPT ![t] = IF ok THEN "handle" ELSE "release"]
      /\ host' = IF ok /\ d[1] = Fs0 THEN host \cup {d[2]} ELSE host
      /\ device' = IF ok THEN device ELSE [device EXCEPT ![x] = NoDevice]
      /\ target' = [target EXCEPT ![t] = NoDevice]
      /\ UNCHANGED <<boot, files, handles, refs, object, f, h>>
  BY <1>b, <1>c DEF FastOpen, Goto
<1>2. ok /\ d[1] = Fs0 => d[2] \in HostFiles /\ d[2] \notin host
  BY DEF OpensAt
<1> HIDE DEF ok
<1>3. /\ OnlyMoves(t) /\ pc'[t] \in {"handle", "release"} /\ (pc'[t] = "handle" <=> ok)
      /\ h'[t] = Nil /\ f'[t] = x
  BY <1>0, <1>a, <1>b, <1>1 DEF FilesTyped, OnlyMoves
<1>4. /\ \A y \in FileIds : y # x => device'[y] = device[y]
      /\ device'[x] = (IF ok THEN d ELSE NoDevice)
      /\ device' = [y \in FileIds |-> device'[y]]
  BY <1>0, <1>c, <1>1 DEF Targets
<1>5. Handled(x) = {} /\ \A u \in Threads : u # t => f[u] # x
  <2>1. Handled(x) = {} /\ Holders(x) = {t}
    BY <1>0, <1>a, <1>b, CountedReferences
  <2>2. ASSUME NEW u \in Threads, u # t, f[u] = x PROVE FALSE
    BY <2>2, <1>a, <1>b, NotAlone
  <2> QED
    BY <2>1, <2>2
<1>6. FilesTyped'
  <2>1. host' \subseteq HostFiles
    BY <1>0, <1>1, <1>2 DEF FilesTyped
  <2> QED
    BY <1>0, <1>1, <2>1 DEF FilesTyped
<1>7. Places'
  <2>1. PlaceOf(t)'
    BY <1>a, <1>b, <1>1, <1>3 DEF PlaceOf, Holding, Ending
  <2> QED
    BY <1>1, <1>3, <1>5, <2>1, PlacesStep
<1>8. \A y : Handled(y)' = Handled(y)
  <2>1. pc[t] \notin {"destroy", "push", "free"} /\ pc'[t] \notin {"destroy", "push", "free"}
    BY <1>a, <1>3
  <2> QED
    BY <1>1, <1>3, <2>1, HandledSame
<1>9. RefsMatch'
  <2>1. ASSUME NEW y \in FileIds
        PROVE  refs'[y] = Cardinality(Handled(y)') + Cardinality(Holders(y)')
    <3>1. Holders(y)' = Holders(y)
      BY <1>a, <1>b, <1>3, HoldersSame DEF Holding
    <3> QED
      BY <3>1, <1>0, <1>1, <1>8, RefsSame
  <2> QED
    BY <2>1 DEF RefsMatch
<1>10. PoolsHold'
  <2>1. FreeFiles' = FreeFiles /\ FreeHandles' = FreeHandles
    BY <1>1, <1>3, FreeFilesSame, FreeHandlesSame
  <2> QED
    BY <1>0, <1>1, <2>1, PoolsSame
<1>11. Targets'
  <2>1. IsTarget(NoDevice)
    BY DEF IsTarget, NoDevice
  <2>2. \A y \in FileIds : IsTarget(device'[y])
    BY <2>1, <1>0, <1>c, <1>4 DEF Targets
  <2>3. /\ target' = [u \in Threads |-> target'[u]] /\ \A u \in Threads : IsTarget(target'[u])
        /\ \A u \in Threads : u # t => target'[u] = target[u]
    BY <2>1, <1>0, <1>1 DEF Targets
  <2>4. ASSUME NEW u \in Threads, pc'[u] \in {"file", "open"}
        PROVE  u # t /\ pc[u] = pc'[u]
    BY <2>4, <1>3 DEF OnlyMoves
  <2>5. ASSUME NEW u \in Threads, pc'[u] = "open" PROVE target'[u] = device'[f'[u]]
    <3>1. u # t /\ pc[u] = "open" /\ f[u] # x /\ f'[u] = f[u] /\ target'[u] = target[u]
      BY <2>3, <2>4, <2>5, <1>1, <1>5
    <3>2. f[u] \in FileIds /\ target[u] = device[f[u]]
      BY <3>1, <1>0, CallHolds DEF Targets, Places, PlaceOf, Holding
    <3> QED
      BY <3>1, <3>2, <1>4
  <2>6. ASSUME NEW y \in FileIds, device'[y] # NoDevice
        PROVE  refs'[y] > 0 \/ \E u \in Threads : f'[u] = y /\ pc'[u] = "destroy"
    <3>1. CASE y = x
      BY <3>1, <1>a, <1>b, <1>1
    <3>2. CASE y # x
      <4>1. refs[y] > 0 \/ \E u \in Threads : f[u] = y /\ pc[u] = "destroy"
        BY <2>6, <3>2, <1>0, <1>4 DEF Targets
      <4> QED
        BY <4>1, <1>a, <1>1, <1>3 DEF OnlyMoves
    <3> QED
      BY <3>1, <3>2
  <2>7. \A u \in Threads : pc'[u] \in {"file", "open"} => target'[u] # NoDevice
    BY <2>3, <2>4, <1>0 DEF Targets
  <2> QED
    BY <2>2, <2>3, <2>5, <2>6, <2>7, <1>4 DEF Targets
<1>12. HostOpen'
  <2>1. ~Opened(x)
    BY <1>a, <1>b DEF Opened
  <2>2. Opened(x)' <=> ok
    <3>1. ~\E u \in Threads : f'[u] = x /\ pc'[u] = "open"
      BY <1>1, <1>3, <1>5
    <3> QED
      BY <3>1, <1>c, <1>4 DEF Opened
  <2>3. ASSUME NEW y \in FileIds, y # x
        PROVE  (Opened(y)' <=> Opened(y)) /\ (InUse(y)' => InUse(y)) /\ device'[y] = device[y]
    BY <2>3, <1>a, <1>b, <1>3, <1>4, <1>8 DEF Opened, InUse, OnlyMoves
  <2>4. InUse(x)' => ok
    BY <1>1, <1>3, <1>5, <1>8 DEF InUse
  <2>5. \A y \in FileIds : InUse(y)' => device'[y] # NoDevice
    BY <2>3, <2>4, <1>0, <1>c, <1>4 DEF HostOpen
  <2>6. ASSUME NEW y \in FileIds, Opened(y)', device'[y][1] = Fs0 PROVE device'[y][2] \in host'
    <3>1. CASE y = x
      BY <2>2, <2>6, <3>1, <1>1, <1>4
    <3>2. CASE y # x
      <4>1. Opened(y) /\ device'[y] = device[y]
        BY <2>3, <2>6, <3>2
      <4>2. device'[y][2] \in host
        BY <2>6, <4>1, <1>0 DEF HostOpen
      <4> QED
        BY <4>2, <1>1
    <3> QED
      BY <3>1, <3>2
  <2>7. ASSUME NEW y \in FileIds, y # x, Opened(y)', Opened(x)', d[1] = Fs0, device'[y] = device'[x]
        PROVE  FALSE
    <3>1. ok /\ device'[x] = d
      BY <2>2, <2>7, <1>4
    <3>2. Opened(y) /\ device[y] = d
      BY <2>3, <2>7, <3>1
    <3>3. d[2] \in host
      BY <3>2, <2>7, <1>0 DEF HostOpen
    <3> QED
      BY <3>1, <3>3, <2>7, <1>2
  <2>8. ASSUME NEW y \in FileIds, NEW z \in FileIds,
               Opened(y)', Opened(z)', device'[y][1] = Fs0, device'[y] = device'[z]
        PROVE  y = z
    <3>1. Opened(x)' => device'[x] = d
      BY <2>2, <1>4
    <3>2. CASE y = x
      BY <2>7, <2>8, <3>1, <3>2
    <3>3. CASE z = x
      BY <2>7, <2>8, <3>1, <3>3
    <3>4. CASE y # x /\ z # x
      BY <2>3, <2>8, <3>4, <1>0 DEF HostOpen
    <3> QED
      BY <3>2, <3>3, <3>4
  <2>9. ASSUME NEW p \in host' PROVE \E y \in FileIds : Opened(y)' /\ device'[y] = <<Fs0, p>>
    <3>1. CASE p \in host
      <4>1. PICK y \in FileIds : Opened(y) /\ device[y] = <<Fs0, p>>
        BY <3>1, <1>0 DEF HostOpen
      <4> QED
        BY <4>1, <2>1, <2>3
    <3>2. CASE p \notin host
      <4>1. ok /\ d[1] = Fs0 /\ p = d[2]
        BY <3>2, <1>1
      <4>2. device'[x] = <<Fs0, p>>
        BY <4>1, <1>c, <1>4 DEF IsTarget
      <4> QED
        BY <4>1, <4>2, <2>2
    <3> QED
      BY <3>1, <3>2
  <2> QED
    BY <2>5, <2>6, <2>8, <2>9 DEF HostOpen
<1> QED
  BY <1>1, <1>6, <1>7, <1>9, <1>10, <1>11, <1>12, DirectorySame DEF FilesInd

(***************************************************************************)
(* The file services: the theorems                                         *)
(***************************************************************************)
\* The system starts with both pools free and nothing open.
LEMMA InitFiles == Init => FilesInd
<1> SUFFICES ASSUME Init PROVE FilesInd
  OBVIOUS
<1>0. Files \in Nat \ {0} /\ Handles \in Nat \ {0}
  BY FileServicesAssumption
<1>1. FreeFiles = 1..Files /\ FreeHandles = 1..Handles
  BY DEF Init, FreeFiles, FreeHandles, FileIds, HandleIds, Nil
<1>2. PoolsHold
  BY <1>0, <1>1, PoolSegment DEF Init, PoolsHold
<1>3. FilesTyped
  <2>1. files \in FreeList(Files) /\ handles \in FreeList(Handles)
    BY <1>2 DEF PoolsHold, PoolHolds, Chain
  <2> QED
    BY <1>0, <2>1 DEF Init, FilesTyped, Nil
<1>4. Places
  BY DEF Init, Places, PlaceOf, OneOwner, Holding, Ending
<1>5. \A x \in FileIds : Handled(x) = {} /\ Holders(x) = {}
  BY DEF Init, Handled, Holders, FileIds, Nil
<1>6. RefsMatch
  <2>1. Cardinality({}) = 0 /\ \A x \in FileIds : refs[x] = 0
    BY FS_EmptySet DEF Init
  <2>2. ASSUME NEW x \in FileIds
        PROVE  refs[x] = Cardinality(Handled(x)) + Cardinality(Holders(x))
    <3>1. Cardinality(Handled(x)) = 0 /\ Cardinality(Holders(x)) = 0 /\ refs[x] = 0
      BY <1>5, <2>1
    <3> QED
      BY <3>1
  <2> QED
    BY <2>2 DEF RefsMatch
<1>7. Targets
  BY DEF Init, Targets, IsTarget, NoDevice
<1>8. HostOpen
  <2>1. \A x \in FileIds : ~InUse(x) /\ ~Opened(x)
    BY <1>5 DEF Init, InUse, Opened
  <2> QED
    BY <2>1 DEF Init, HostOpen
<1>9. DirectoryInv
  <2>1. items = << >> /\ attached = {} /\ booted \in BOOLEAN
    BY DEF Init
  <2>2. items \in Seq(Devices) /\ Len(items) = 0
    BY <2>1
  <2>3. ToSet(items) = {}
    BY <2>1, <2>2, FrontInList
  <2>4. Sorted(items)
    BY <2>2 DEF Sorted
  <2> QED
    BY <2>1, <2>2, <2>3, <2>4 DEF DirectoryInv
<1> QED
  BY <1>2, <1>3, <1>4, <1>6, <1>7, <1>8, <1>9 DEF FilesInd

\* Every step keeps the inductive invariant.
LEMMA NextFiles == FilesInd /\ [Next]_vars => FilesInd'
<1> SUFFICES ASSUME FilesInd, [Next]_vars PROVE FilesInd'
  OBVIOUS
<1>1. ASSUME NEW d \in Devices, AttachDevice(d) PROVE FilesInd'
  <2>1. DirectoryInv'
    BY <1>1, AttachKeepsOrder DEF FilesInd
  <2> QED
    BY <1>1, <2>1, StillInv DEF AttachDevice
<1>2. CASE Start
  <2>1. DirectoryInv'
    BY <1>2 DEF Start, FilesInd, DirectoryInv, Sorted
  <2> QED
    BY <1>2, <2>1, StillInv DEF Start
<1>3. ASSUME NEW t \in Threads, CallStep(t) PROVE FilesInd'
  BY <1>3, AllocFileInv, FastOpenInv, AllocHandleInv, StoreHandleInv, ReferenceInv,
     TransferInv, ReleaseInv, DropInv, DestroyInv, PushFileInv, FreeHandleInv DEF CallStep
<1>4. ASSUME NEW t \in Threads, NEW p \in Paths, Open(t, p) PROVE FilesInd'
  BY <1>4, OpenInv
<1>5. ASSUME NEW t \in Threads, NEW i \in HandleIds, Use(t, i) \/ Close(t, i) PROVE FilesInd'
  BY <1>5, UseInv, CloseInv
<1>6. CASE UNCHANGED vars
  <2>1. DirectoryInv'
    BY <1>6, DirectorySame DEF vars, boot
  <2> QED
    BY <1>6, <2>1, StillInv DEF vars
<1> QED
  BY <1>1, <1>2, <1>3, <1>4, <1>5, <1>6 DEF Next

\* The bookkeeping follows from the inductive invariant.
LEMMA IndFiles == FilesInd => FilesInv
<1> SUFFICES ASSUME FilesInd PROVE FilesInv
  OBVIOUS
<1>0. FilesTyped /\ Places /\ RefsMatch /\ PoolsHold /\ Targets /\ DirectoryInv
  BY DEF FilesInd
<1>1. TypeOK
  <2>1. Range(items) \subseteq Devices
    <3>1. DOMAIN items = 1..Len(items) /\ \A i \in 1..Len(items) : items[i] \in Devices
      BY <1>0, LenProperties, ElementOfSeq DEF DirectoryInv
    <3> QED
      BY <3>1 DEF Range
  <2>2. refs \in [FileIds -> 0..Handles + Cardinality(Threads)]
    <3>1. ASSUME NEW x \in FileIds PROVE refs[x] \in 0..Handles + Cardinality(Threads)
      <4>1. /\ Cardinality(Handled(x)) \in 0..Handles
            /\ Cardinality(Holders(x)) \in 0..Cardinality(Threads)
        BY ReferencesFinite
      <4>2. Cardinality(Threads) \in Nat /\ Handles \in Nat
        BY FileServicesAssumption, FS_CardinalityType
      <4>3. refs[x] = Cardinality(Handled(x)) + Cardinality(Holders(x))
        BY <1>0 DEF RefsMatch
      <4> QED
        BY <4>1, <4>2, <4>3
    <3> QED
      BY <3>1, <1>0 DEF FilesTyped
  <2>3. \A x \in FileIds : device[x][1] \in Devices \cup {Dev}
    BY <1>0 DEF Targets, IsTarget
  <2> QED
    BY <1>0, <2>1, <2>2, <2>3 DEF TypeOK, FilesTyped, DirectoryInv
<1>2. PoolsPartition
  <2>0. Files \in Nat /\ Handles \in Nat
    BY FileServicesAssumption
  <2>1. Walk(files, Files)[Files] = Nil /\ Free(files, Files) = FreeFiles
    BY <1>0, <2>0, PoolFree DEF PoolsHold
  <2>2. Walk(handles, Handles)[Handles] = Nil /\ Free(handles, Handles) = FreeHandles
    BY <1>0, <2>0, PoolFree DEF PoolsHold
  <2>3. \A x \in FileIds : x \in FreeFiles <=> refs[x] = 0 /\ \A t \in Threads : f[t] # x
    BY DEF FreeFiles
  <2>4. ASSUME NEW i \in HandleIds PROVE i \in FreeHandles <=> object[i] = Nil /\ ~Busy(i)
    <3>1. \A t \in Threads : h[t] = i /\ pc[t] = "look" => object[i] # Nil
      BY <1>0 DEF Places, PlaceOf, HandleIds, Nil
    <3> QED
      BY <3>1 DEF FreeHandles, Busy
  <2> QED
    BY <2>1, <2>2, <2>3, <2>4 DEF PoolsPartition
<1> QED
  BY <1>0, <1>1, <1>2 DEF FilesInv

\* What is open in the host follows from the inductive invariant.
LEMMA IndHost == FilesInd => HostMatches
<1> SUFFICES ASSUME FilesInd PROVE HostMatches
  OBVIOUS
<1>0. RefsMatch /\ Places /\ HostOpen
  BY DEF FilesInd
<1>1. ASSUME NEW x \in FileIds,
             Handled(x) # {} \/ \E t \in Holders(x) : pc[t] \in {"handle", "store", "io"}
      PROVE  device[x] # NoDevice /\ (device[x][1] = Fs0 => device[x][2] \in host)
  <2>1. InUse(x)
    BY <1>1 DEF InUse, Holders
  <2>2. device[x] # NoDevice
    BY <1>0, <2>1 DEF HostOpen
  <2>3. ASSUME NEW u \in Threads, f[u] = x, pc[u] = "open" PROVE FALSE
    <3>1. Handled(x) # {} \/ \E t \in Holders(x) : t # u
      BY <1>1, <2>3
    <3> QED
      BY <2>3, <3>1, NotAlone
  <2>4. Opened(x)
    BY <2>2, <2>3 DEF Opened
  <2> QED
    BY <2>2, <2>4, <1>0 DEF HostOpen
<1>2. ASSUME NEW p \in host
      PROVE  Cardinality({x \in FileIds : device[x] = <<Fs0, p>>
                 /\ ~\E t \in Threads : f[t] = x /\ pc[t] = "open"}) = 1
  <2> DEFINE S == {x \in FileIds : device[x] = <<Fs0, p>>
                     /\ ~\E t \in Threads : f[t] = x /\ pc[t] = "open"}
  <2>1. PICK y \in FileIds : Opened(y) /\ device[y] = <<Fs0, p>>
    BY <1>0 DEF HostOpen
  <2>2. y \in S
    BY <2>1 DEF Opened
  <2>3. ASSUME NEW z \in S PROVE z = y
    <3>1. z \in FileIds /\ device[z] = <<Fs0, p>> /\ device[z] # NoDevice /\ device[z][1] = Fs0
      BY FileServicesAssumption DEF NoDevice
    <3>2. Opened(z)
      BY <3>1 DEF Opened
    <3> QED
      BY <2>1, <3>1, <3>2, <1>0 DEF HostOpen
  <2>4. S = {y}
    BY <2>2, <2>3
  <2> HIDE DEF S
  <2>5. Cardinality(S) = 1
    BY <2>4, FS_Singleton
  <2> QED
    BY <2>5 DEF S
<1> QED
  BY <1>1, <1>2 DEF HostMatches

\* The inductive invariant always holds.
LEMMA FilesAlways == Spec => []FilesInd
BY InitFiles, NextFiles, PTL DEF Spec

\* The pools and the reference counts: whatever the threads open, use and close,
\* the free list of files and the free list of handles hold exactly the entries
\* nobody uses, and the count of a file is the number of its handles and of the
\* calls that use it.
THEOREM FilesKept == Spec => []FilesInv
BY FilesAlways, IndFiles, PTL

\* A file in use is open at its device, and what is open in the host belongs to
\* exactly one file.
THEOREM HostFilesMatch == Spec => []HostMatches
BY FilesAlways, IndHost, PTL

\* Every attached device is found under its name.
THEOREM DevicesFound == Spec => []AttachedFound
<1>1. FilesInd => AttachedFound
  BY LookupFinds DEF FilesInd
<1> QED
  BY FilesAlways, <1>1, PTL

(***************************************************************************)
(* The serial port: the inductive invariant                                *)
(***************************************************************************)
\* Each request in one place, by the sets of the lists.
OneList ==
    /\ Distinct(irps) /\ Distinct(pending)
    /\ ToSet(irps) \cap ToSet(pending) = {} /\ wirp \notin ToSet(irps) \cup ToSet(pending)
    /\ \A r \in Requests :
           status[r] = "busy" <=> r \in ToSet(irps) \cup ToSet(pending) \cup {wirp}
    /\ wpc \in {"process", "pend"} <=> wirp # Null

TransfersFinite == \A d \in Directions : IsFiniteSet(Transfers(d))

\* Until two requests of a direction are outstanding, a transfer and a result
\* belong to the one that is.
Own ==
    /\ \A d \in Directions :
           \/ overlapped[d] = NoResult
           \/ /\ overlapped[d].of \in Requests /\ Dir(overlapped[d].of) = d
              /\ overlapped[d].error # "io_pending"
    /\ ~shared =>
        /\ \A q, r \in Requests :
               status[q] = "busy" /\ status[r] = "busy" /\ Dir(q) = Dir(r) => q = r
        /\ \A r \in Requests : started[r] > 0 => status[r] = "busy"

\* The port has settings of programs.  Those of the last TCSETS that was alone,
\* a TCSETS that is not overtaken finds its DCB in place, and the DCB that such
\* a TCGETS has read is still the port's.
PortSet ==
    /\ \E a, b \in Terms : port = [dcb |-> SetDcb(a), timeouts |-> SetTimeouts(b)]
    /\ set_term # Null =>
           port.dcb = SetDcb(set_term) /\ port.timeouts = SetTimeouts(set_term)
    /\ \A c \in Callers : code[c] = "TCSETS" => kept[c] \in Terms
    /\ \A c \in Callers \ overtaken :
           /\ code[c] = "TCSETS" => port.dcb = SetDcb(kept[c])
           /\ code[c] = "TCGETS" => port.dcb = kept[c]

\* The inductive invariant.
SerialInd ==
    /\ SerialTypeOK /\ OneList /\ TransfersFinite /\ WaitsBacked /\ HaltsOnlyEarly
    /\ Own /\ AnswerIsOwn /\ PortSet

(***************************************************************************)
(* The serial port: counting requests and transfers                        *)
(***************************************************************************)
Tokens(e, d) == UNION {{r} \X (1 .. e[r]) : r \in {q \in Requests : Dir(q) = d}}

\* The tokens of a direction are pairs of a request of it and a transfer number.
LEMMA TokensMembers ==
    ASSUME NEW e, NEW d, NEW x
    PROVE  x \in Tokens(e, d) <=> \E r \in Requests : Dir(r) = d /\ \E k \in 1 .. e[r] : x = <<r, k>>
BY DEF Tokens

\* One more transfer of r: the transfers of its direction are one more.
LEMMA TokenAdded ==
    ASSUME NEW e \in [Requests -> Nat], NEW g \in [Requests -> Nat], NEW r \in Requests,
           g[r] = e[r] + 1, \A q \in Requests \ {r} : g[q] = e[q], NEW d,
           IsFiniteSet(Tokens(e, d)) \/ IsFiniteSet(Tokens(g, d))
    PROVE  /\ IsFiniteSet(Tokens(e, d)) /\ IsFiniteSet(Tokens(g, d))
           /\ Cardinality(Tokens(e, d)) \in Nat /\ Cardinality(Tokens(g, d)) \in Nat
           /\ Cardinality(Tokens(g, d)) = Cardinality(Tokens(e, d)) + IF Dir(r) = d THEN 1 ELSE 0
<1> DEFINE F == Tokens(e, d)
           G == Tokens(g, d)
           u == <<r, e[r] + 1>>
<1>1. ASSUME NEW q \in Requests, NEW k \in 1 .. g[q], <<q, k>> # u
      PROVE  k \in 1 .. e[q]
  BY <1>1
<1>2. ASSUME NEW q \in Requests, NEW k \in 1 .. e[q]
      PROVE  k \in 1 .. g[q] /\ <<q, k>> # u
  BY <1>2
<1>3. F \ {u} = G \ {u}
  BY <1>1, <1>2, TokensMembers
<1>4. u \notin F
  BY <1>2, TokensMembers
<1>5. u \in G <=> Dir(r) = d
  <2>1. e[r] + 1 \in 1 .. g[r]
    OBVIOUS
  <2> QED
    BY <2>1, TokensMembers
<1> HIDE DEF F, G, u
<1>6. IsFiniteSet(F) /\ IsFiniteSet(G)
  BY <1>3, OneDiffers DEF F, G
<1>7. /\ Cardinality(F) \in Nat /\ Cardinality(G) \in Nat
      /\ Cardinality(G) = Cardinality(F) + One(u, G) - One(u, F)
  BY <1>3, <1>6, OneDiffers
<1> QED
  BY <1>4, <1>5, <1>6, <1>7 DEF One, F, G

Of(S, d) == {q \in S : Dir(q) = d}

\* A request that becomes pending, or stops being so.
LEMMA WaitingAdded ==
    ASSUME NEW P \in SUBSET Requests, NEW Q, NEW r \in Requests, r \notin P, Q = P \cup {r}, NEW d
    PROVE  /\ Cardinality(Of(P, d)) \in Nat /\ Cardinality(Of(Q, d)) \in Nat
           /\ Cardinality(Of(Q, d)) = Cardinality(Of(P, d)) + IF Dir(r) = d THEN 1 ELSE 0
<1> DEFINE A == Of(P, d)
           B == Of(Q, d)
<1>1. A \in SUBSET Requests
  BY DEF Of
<1>2. A \ {r} = B \ {r} /\ r \notin A /\ (r \in B <=> Dir(r) = d)
  BY DEF Of
<1> HIDE DEF A, B
<1>3. IsFiniteSet(A)
  BY <1>1, SerialAssumption, FS_Subset
<1>4. /\ Cardinality(A) \in Nat /\ Cardinality(B) \in Nat
      /\ Cardinality(B) = Cardinality(A) + One(r, B) - One(r, A)
  BY <1>2, <1>3, OneDiffers
<1> QED
  BY <1>2, <1>4 DEF One, A, B

(***************************************************************************)
(* The serial port: the steps                                              *)
(***************************************************************************)
\* A step that leaves the requests alone and keeps the settings right.
LEMMA ControlInv ==
    ASSUME SerialInd, UNCHANGED requests, PortSet', NEW c \in Callers,
           code' \in [Callers -> {"none", "TCSETS", "TCGETS"}],
           kept' \in [Callers -> Terms \cup Dcbs \cup {Null}],
           overtaken' \subseteq Callers, set_term' \in Terms \cup {Null}
    PROVE  SerialInd'
<1> USE DEF SerialInd, requests
<1>1. SerialTypeOK' /\ OneList' /\ HaltsOnlyEarly'
  BY DEF SerialTypeOK, OneList, HaltsOnlyEarly
<1>2. \A d : Transfers(d)' = Transfers(d) /\ Waiting(d)' = Waiting(d)
  BY DEF Transfers, Waiting
<1>3. TransfersFinite' /\ WaitsBacked'
  BY <1>2 DEF TransfersFinite, WaitsBacked
<1>4. Own' /\ AnswerIsOwn'
  BY DEF Own, AnswerIsOwn
<1> QED
  BY <1>1, <1>3, <1>4

\* TCSETS: its first call overtakes every call under way, and so does its
\* second; if it was not overtaken between them both halves are its own.
LEMMA TcsetsInv ==
    ASSUME SerialInd, NEW c \in Callers,
           (\E new \in Terms : TcsetsState(c, new)) \/ TcsetsTimeouts(c)
    PROVE  SerialInd'
<1> USE SerialAssumption
<1>1. /\ code \in [Callers -> {"none", "TCSETS", "TCGETS"}] /\ overtaken \subseteq Callers
      /\ kept \in [Callers -> Terms \cup Dcbs \cup {Null}]
  BY DEF SerialInd, SerialTypeOK
<1>2. PICK a \in Terms, b \in Terms : port = [dcb |-> SetDcb(a), timeouts |-> SetTimeouts(b)]
  BY DEF SerialInd, PortSet
<1>3. CASE \E new \in Terms : TcsetsState(c, new)
  <2>1. PICK new \in Terms : TcsetsState(c, new)
    BY <1>3
  <2>2. /\ port' = [dcb |-> SetDcb(new), timeouts |-> SetTimeouts(b)]
        /\ code' = [code EXCEPT ![c] = "TCSETS"] /\ kept' = [kept EXCEPT ![c] = new]
        /\ overtaken' = Others(c) /\ set_term' = Null /\ UNCHANGED requests
    BY <1>2, <2>1 DEF TcsetsState
  <2>3. \A k \in Callers \ overtaken' : k = c \/ code'[k] = "none"
    BY <1>1, <2>2 DEF Others
  <2>4. PortSet'
    BY <1>1, <2>2, <2>3 DEF SerialInd, PortSet
  <2>5. overtaken' \subseteq Callers
    BY <2>2 DEF Others
  <2> QED
    BY <1>1, <2>2, <2>4, <2>5, ControlInv
<1>4. CASE TcsetsTimeouts(c)
  <2>1. /\ code[c] = "TCSETS" /\ kept[c] \in Terms
        /\ c \notin overtaken => SetDcb(a) = SetDcb(kept[c])
    BY <1>2, <1>4 DEF TcsetsTimeouts, SerialInd, PortSet
  <2>2. /\ port' = [dcb |-> SetDcb(a), timeouts |-> SetTimeouts(kept[c])]
        /\ code' = [code EXCEPT ![c] = "none"] /\ kept' = [kept EXCEPT ![c] = Null]
        /\ overtaken' = Others(c) /\ set_term' = (IF c \in overtaken THEN Null ELSE kept[c])
        /\ UNCHANGED requests
    BY <1>2, <1>4 DEF TcsetsTimeouts, EndCall
  <2>3. \A k \in Callers \ overtaken' : code'[k] = "none"
    BY <1>1, <2>2 DEF Others
  <2>4. PortSet'
    <3>1. \A k \in Callers : code'[k] = "TCSETS" => kept'[k] \in Terms
      BY <1>1, <2>2 DEF SerialInd, PortSet
    <3>2. set_term' # Null => port'.dcb = SetDcb(set_term') /\ port'.timeouts = SetTimeouts(set_term')
      BY <2>1, <2>2
    <3> QED
      BY <2>1, <2>2, <2>3, <3>1, <3>2 DEF PortSet
  <2>5. overtaken' \subseteq Callers
    BY <2>2 DEF Others
  <2> QED
    BY <1>1, <2>1, <2>2, <2>4, <2>5, ControlInv
<1> QED
  BY <1>3, <1>4

\* A TCGETS keeps the DCB of the port; the end of a call changes no setting.
LEMMA TcgetsInv ==
    ASSUME SerialInd, NEW c \in Callers,
           TcgetsState(c) \/ TcgetsTimeouts(c) \/ TcsetsFails(c)
    PROVE  SerialInd'
<1>1. /\ code \in [Callers -> {"none", "TCSETS", "TCGETS"}] /\ overtaken \subseteq Callers
      /\ kept \in [Callers -> Terms \cup Dcbs \cup {Null}] /\ set_term \in Terms \cup {Null}
  BY DEF SerialInd, SerialTypeOK
<1>2. port.dcb \in Dcbs
  BY DEF SerialInd, PortSet, Dcbs
<1>3. CASE TcgetsState(c)
  <2>1. /\ UNCHANGED <<requests, port, overtaken, set_term>>
        /\ code' = [code EXCEPT ![c] = "TCGETS"] /\ kept' = [kept EXCEPT ![c] = port.dcb]
    BY <1>3 DEF TcgetsState
  <2>2. PortSet'
    BY <1>1, <2>1 DEF SerialInd, PortSet
  <2> QED
    BY <1>1, <1>2, <2>1, <2>2, ControlInv
<1>4. CASE TcgetsTimeouts(c) \/ TcsetsFails(c)
  <2>1. /\ UNCHANGED <<requests, port, set_term>> /\ overtaken' = overtaken \ {c}
        /\ code' = [code EXCEPT ![c] = "none"] /\ kept' = [kept EXCEPT ![c] = Null]
    BY <1>4 DEF TcgetsTimeouts, TcsetsFails, EndCall
  <2>2. PortSet'
    BY <1>1, <2>1 DEF SerialInd, PortSet
  <2> QED
    BY <1>1, <2>1, <2>2, ControlInv
<1> QED
  BY <1>3, <1>4

\* irp::begin: a request that is in no list joins the list of new ones.
LEMMA IssueInv ==
    ASSUME SerialInd, NEW r \in Requests, Issue(r)
    PROVE  SerialInd'
<1> USE DEF SerialInd, Issue
<1>1. r \notin ToSet(irps) \cup ToSet(pending) \cup {wirp} /\ irps \in Seq(Requests) /\ Distinct(irps)
      /\ wirp = Null
  BY DEF OneList, SerialTypeOK
<1>2. irps' \in Seq(Requests) /\ ToSet(irps') = ToSet(irps) \cup {r} /\ Distinct(irps')
  BY <1>1, AppendElement
<1>3. /\ status' \in [Requests -> {"idle", "busy", "success", "io_error"}] /\ status'[r] = "busy"
      /\ answer' \in [Requests -> Requests \cup {Null}] /\ answer'[r] = Null
      /\ \A q \in Requests \ {r} : status'[q] = status[q] /\ answer'[q] = answer[q]
  BY DEF SerialTypeOK
<1>4. SerialTypeOK'
  <2>1. shared' \in BOOLEAN
    BY DEF SerialTypeOK
  <2> QED
    BY <1>2, <1>3, <2>1 DEF SerialTypeOK, settings
<1>5. OneList'
  BY <1>1, <1>2, <1>3, SerialAssumption DEF OneList
<1>6. \A d : Transfers(d)' = Transfers(d) /\ Waiting(d)' = Waiting(d)
  BY DEF Transfers, Waiting
<1>7. TransfersFinite' /\ WaitsBacked' /\ HaltsOnlyEarly'
  BY <1>6 DEF TransfersFinite, WaitsBacked, HaltsOnlyEarly
<1>8. Own'
  <2>1. ~shared' => ~shared /\ \A q \in Requests : Dir(q) = Dir(r) => status[q] # "busy"
    OBVIOUS
  <2> HIDE DEF Issue
  <2>2. overlapped' = overlapped /\ started' = started
    BY DEF Issue
  <2> QED
    BY <1>3, <2>1, <2>2 DEF Own
<1>9. AnswerIsOwn'
  BY <1>3 DEF AnswerIsOwn
<1>10. PortSet'
  BY DEF PortSet, settings
<1> QED
  BY <1>4, <1>5, <1>7, <1>8, <1>9, <1>10

\* The host ends a transfer: its token becomes an interrupt.
LEMMA PortIoCompletedInv ==
    ASSUME SerialInd, NEW r \in Requests, NEW error \in {"success", "io_error"},
           PortIoCompleted(r, error)
    PROVE  SerialInd'
<1> USE DEF SerialInd, PortIoCompleted
<1> DEFINE o == [error |-> error, of |-> r]
<1>1. /\ started' \in [Requests -> Nat] /\ started \in [Requests -> Nat]
      /\ started[r] = started'[r] + 1
      /\ \A q \in Requests \ {r} : started[q] = started'[q]
  BY DEF SerialTypeOK
<1>2. Dir(r) \in Directions
  BY DEF Dir, Directions
<1>3. /\ irqs' \in [Directions -> Nat] /\ irqs \in [Directions -> Nat]
      /\ \A d \in Directions : irqs'[d] = irqs[d] + IF Dir(r) = d THEN 1 ELSE 0
  BY <1>2 DEF SerialTypeOK
<1>4. /\ overlapped' \in [Directions -> [error : {"io_pending", "success", "io_error"},
                                         of : Requests \cup {Null}]]
      /\ overlapped'[Dir(r)].of = r /\ overlapped'[Dir(r)].error = error
      /\ \A d \in Directions : d # Dir(r) => overlapped'[d] = overlapped[d]
  BY <1>2 DEF SerialTypeOK
<1>5. SerialTypeOK'
  BY <1>1, <1>3, <1>4 DEF SerialTypeOK, settings
<1>6. OneList' /\ HaltsOnlyEarly'
  BY DEF OneList, HaltsOnlyEarly
<1>7. \A d : Transfers(d) = Tokens(started, d) /\ Transfers(d)' = Tokens(started', d)
             /\ Waiting(d)' = Waiting(d)
  BY DEF Transfers, Tokens, Waiting
<1>8. ASSUME NEW d \in Directions
      PROVE  /\ IsFiniteSet(Tokens(started', d)) /\ Cardinality(Tokens(started', d)) \in Nat
             /\ Cardinality(Tokens(started, d))
                  = Cardinality(Tokens(started', d)) + IF Dir(r) = d THEN 1 ELSE 0
  <2>1. IsFiniteSet(Tokens(started, d))
    BY <1>7, <1>8 DEF TransfersFinite
  <2> HIDE DEF SerialInd, PortIoCompleted
  <2> QED
    BY <1>1, <2>1, TokenAdded
<1>9. TransfersFinite'
  BY <1>7, <1>8 DEF TransfersFinite
<1>10. WaitsBacked'
  <2> SUFFICES ASSUME NEW d \in Directions
               PROVE  Cardinality(Waiting(d)) + (IF wpc = "pend" /\ Dir(wirp) = d THEN 1 ELSE 0)
                        = Cardinality(Tokens(started', d)) + irqs'[d]
    BY <1>7 DEF WaitsBacked
  <2>1. Cardinality(Waiting(d)) + (IF wpc = "pend" /\ Dir(wirp) = d THEN 1 ELSE 0)
          = Cardinality(Tokens(started, d)) + irqs[d]
    BY <1>7 DEF WaitsBacked
  <2>2. /\ Cardinality(Tokens(started', d)) \in Nat
        /\ Cardinality(Tokens(started, d))
             = Cardinality(Tokens(started', d)) + IF Dir(r) = d THEN 1 ELSE 0
    BY <1>8
  <2>3. irqs[d] \in Nat /\ irqs'[d] = irqs[d] + IF Dir(r) = d THEN 1 ELSE 0
    BY <1>3
  <2> HIDE DEF SerialInd, PortIoCompleted
  <2> QED
    BY <2>1, <2>2, <2>3
<1>11. Own'
  BY <1>1, <1>4 DEF Own
<1>12. AnswerIsOwn'
  BY <1>1, <1>2, <1>4 DEF AnswerIsOwn, Own, Dir, Directions
<1>13. PortSet'
  BY DEF PortSet, settings
<1> QED
  BY <1>5, <1>6, <1>9, <1>10, <1>11, <1>12, <1>13

\* The interrupt handler queues the first pending request of its direction.
\* If there is none the interrupt belongs to the request the worker has just
\* started.
LEMMA IrqHandlerInv ==
    ASSUME SerialInd, NEW d \in Directions, IrqHandler(d)
    PROVE  SerialInd'
<1> DEFINE Mine == {i \in DOMAIN pending : Dir(pending[i]) = d}
           r == pending[Min(Mine)]
<1>1. ~halted /\ irqs \in [Directions -> Nat] /\ irqs[d] > 0 /\ irqs' = [irqs EXCEPT ![d] = @ - 1]
      /\ UNCHANGED <<status, answer, wpc, wirp, overlapped, started, shared, port, code, kept,
                     overtaken, set_term>>
  BY DEF IrqHandler, SerialInd, SerialTypeOK, settings
<1>2. /\ irqs' \in [Directions -> Nat]
      /\ \A c \in Directions : irqs'[c] = irqs[c] - IF c = d THEN 1 ELSE 0
  BY <1>1
<1>3. \A c : Transfers(c)' = Transfers(c)
  BY <1>1 DEF Transfers
<1>4. Own' /\ AnswerIsOwn' /\ PortSet' /\ TransfersFinite'
  BY <1>1, <1>3 DEF SerialInd, Own, AnswerIsOwn, PortSet, TransfersFinite
<1>5. pending \in Seq(Requests) /\ Distinct(pending) /\ irps \in Seq(Requests) /\ Distinct(irps)
  BY DEF SerialInd, SerialTypeOK, OneList
<1>6. CASE Mine # {}
  <2>1. Min(Mine) \in Mine
    <3>1. Mine \in SUBSET Nat
      BY <1>5, LenProperties
    <3> QED
      BY <1>6, <3>1, MinInSet
  <2>2. r \in ToSet(pending) /\ r \in Requests /\ Dir(r) = d
    <3>1. Min(Mine) \in DOMAIN pending /\ Dir(r) = d
      BY <2>1
    <3>2. r \in ToSet(pending)
      BY <3>1 DEF ToSet
    <3> QED
      BY <1>5, <3>1, <3>2, FrontInList
  <2>3. pending' = RemoveAt(pending, Min(Mine)) /\ irps' = Append(irps, r) /\ halted' = halted
    BY <1>6 DEF IrqHandler
  <2>4. Pos(pending, r) = Min(Mine)
    BY <1>5, <2>1 DEF Pos, Distinct
  <2> HIDE DEF r, Mine
  <2>5. pending' = Without(pending, r)
    BY <2>3, <2>4 DEF Without
  <2>6. /\ pending' \in Seq(Requests) /\ ToSet(pending') = ToSet(pending) \ {r}
        /\ Distinct(pending')
    BY <1>5, <2>2, <2>5, RemoveElement
  <2>7. r \notin ToSet(irps) /\ r # wirp
    BY <2>2 DEF SerialInd, OneList
  <2>8. irps' \in Seq(Requests) /\ ToSet(irps') = ToSet(irps) \cup {r} /\ Distinct(irps')
    BY <1>5, <2>2, <2>3, <2>7, AppendElement
  <2>9. SerialTypeOK'
    BY <1>1, <1>2, <2>3, <2>6, <2>8 DEF SerialInd, SerialTypeOK
  <2>10. OneList'
    BY <1>1, <2>2, <2>6, <2>7, <2>8 DEF SerialInd, OneList
  <2>11. WaitsBacked' /\ HaltsOnlyEarly'
    <3>1. ASSUME NEW c
          PROVE  /\ Cardinality(Waiting(c)') \in Nat
                 /\ Cardinality(Waiting(c)) = Cardinality(Waiting(c)') + IF Dir(r) = c THEN 1 ELSE 0
      <4>1. ToSet(pending') \in SUBSET Requests /\ ToSet(pending) = ToSet(pending') \cup {r}
            /\ r \notin ToSet(pending')
        BY <1>5, <2>2, <2>6, FrontInList
      <4>2. Waiting(c) = Of(ToSet(pending), c) /\ Waiting(c)' = Of(ToSet(pending'), c)
        BY DEF Waiting, Of
      <4> QED
        BY <2>2, <4>1, <4>2, WaitingAdded
    <3>2. ASSUME NEW c \in Directions
          PROVE  Cardinality(Waiting(c)') + (IF wpc = "pend" /\ Dir(wirp) = c THEN 1 ELSE 0)
                   = Cardinality(Transfers(c)) + irqs'[c]
      <4>1. Cardinality(Waiting(c)) + (IF wpc = "pend" /\ Dir(wirp) = c THEN 1 ELSE 0)
              = Cardinality(Transfers(c)) + irqs[c]
        BY <1>1 DEF SerialInd, WaitsBacked
      <4>2. Cardinality(Transfers(c)) \in Nat
        BY FS_CardinalityType DEF SerialInd, TransfersFinite
      <4>3. irqs[c] \in Nat /\ irqs'[c] = irqs[c] - IF c = d THEN 1 ELSE 0
        BY <1>1, <1>2
      <4>4. /\ Cardinality(Waiting(c)') \in Nat
            /\ Cardinality(Waiting(c)) = Cardinality(Waiting(c)') + IF d = c THEN 1 ELSE 0
        BY <2>2, <3>1
      <4> QED
        BY <4>1, <4>2, <4>3, <4>4
    <3> QED
      BY <1>1, <1>3, <2>3, <3>2 DEF WaitsBacked, HaltsOnlyEarly
  <2> QED
    BY <1>4, <2>9, <2>10, <2>11 DEF SerialInd
<1>7. CASE Mine = {}
  <2>1. halted' = TRUE /\ irps' = irps /\ pending' = pending
    BY <1>7 DEF IrqHandler
  <2>2. SerialTypeOK' /\ OneList'
    BY <1>1, <1>2, <2>1 DEF SerialInd, SerialTypeOK, OneList
  <2>3. wpc = "pend"
    <3>1. Waiting(d) = {}
      BY <1>7 DEF Waiting, ToSet
    <3>2. Cardinality(Waiting(d)) = 0
      BY <3>1, FS_EmptySet
    <3>3. Cardinality(Transfers(d)) \in Nat
      BY FS_CardinalityType DEF SerialInd, TransfersFinite
    <3>4. Cardinality(Waiting(d)) + (IF wpc = "pend" /\ Dir(wirp) = d THEN 1 ELSE 0)
            = Cardinality(Transfers(d)) + irqs[d]
      BY <1>1 DEF SerialInd, WaitsBacked
    <3> QED
      BY <1>1, <3>2, <3>3, <3>4
  <2> QED
    BY <1>1, <1>4, <2>1, <2>2, <2>3 DEF SerialInd, WaitsBacked, HaltsOnlyEarly
<1> QED
  BY <1>6, <1>7

\* The worker between its requests.
LEMMA WakeTakeInv ==
    ASSUME SerialInd, Wake \/ Take
    PROVE  SerialInd'
<1>1. /\ UNCHANGED <<status, answer, pending, overlapped, started, irqs, shared, halted, port,
                     code, kept, overtaken, set_term>>
      /\ ~halted /\ wpc \in {"sleep", "take"} /\ wirp = Null
  BY DEF Wake, Take, SerialInd, OneList, SerialTypeOK, settings
<1>2. \A d : Transfers(d)' = Transfers(d) /\ Waiting(d)' = Waiting(d)
  BY <1>1 DEF Transfers, Waiting
<1>3. Own' /\ AnswerIsOwn' /\ PortSet' /\ TransfersFinite'
  BY <1>1, <1>2 DEF SerialInd, Own, AnswerIsOwn, PortSet, TransfersFinite
<1>4. wpc' # "pend"
  BY DEF Wake, Take
<1>5. WaitsBacked' /\ HaltsOnlyEarly'
  BY <1>1, <1>2, <1>4 DEF SerialInd, WaitsBacked, HaltsOnlyEarly
<1>6. CASE wpc' # "process"
  <2>1. irps' = irps /\ wirp' = wirp /\ wpc' \in {"sleep", "take"}
    BY <1>1, <1>6 DEF Wake, Take
  <2>2. SerialTypeOK' /\ OneList'
    BY <1>1, <2>1 DEF SerialInd, SerialTypeOK, OneList
  <2> QED
    BY <1>3, <1>5, <2>2 DEF SerialInd
<1>7. CASE wpc' = "process"
  <2>1. irps # << >> /\ wirp' = Head(irps) /\ irps' = Tail(irps)
    BY <1>7 DEF Wake, Take
  <2>2. irps \in Seq(Requests) /\ Distinct(irps)
    BY DEF SerialInd, SerialTypeOK, OneList
  <2>3. Head(irps) \in ToSet(irps) /\ Head(irps) \in Requests
    BY <2>1, <2>2, FrontInList
  <2>4. /\ Tail(irps) \in Seq(Requests) /\ Distinct(Tail(irps))
        /\ ToSet(Tail(irps)) = ToSet(irps) \ {Head(irps)}
    BY <2>1, <2>2, PopFront
  <2>5. SerialTypeOK'
    BY <1>1, <1>7, <2>1, <2>3, <2>4 DEF SerialInd, SerialTypeOK
  <2>6. OneList'
    BY <1>1, <1>7, <2>1, <2>3, <2>4, SerialAssumption DEF SerialInd, OneList
  <2> QED
    BY <1>3, <1>5, <2>5, <2>6 DEF SerialInd
<1> QED
  BY <1>6, <1>7

\* A transfer begins and the request is about to be pending: one more of each.
LEMMA StartTransferInv ==
    ASSUME SerialInd, StartTransfer
    PROVE  SerialInd'
<1>1. /\ UNCHANGED <<status, answer, irps, pending, wirp, overlapped, irqs, shared, halted,
                     port, code, kept, overtaken, set_term>>
      /\ ~halted /\ wpc = "process" /\ wpc' = "pend" /\ wirp \in Requests
  BY DEF StartTransfer, SerialInd, OneList, SerialTypeOK, settings
<1>2. /\ started \in [Requests -> Nat] /\ started' \in [Requests -> Nat]
      /\ started'[wirp] = started[wirp] + 1
      /\ \A q \in Requests \ {wirp} : started'[q] = started[q]
  BY <1>1 DEF StartTransfer, SerialInd, SerialTypeOK
<1>3. SerialTypeOK' /\ OneList' /\ HaltsOnlyEarly' /\ PortSet' /\ AnswerIsOwn'
  BY <1>1, <1>2 DEF SerialInd, SerialTypeOK, OneList, HaltsOnlyEarly, PortSet, AnswerIsOwn
<1>4. Own'
  <2>1. status[wirp] = "busy"
    BY <1>1 DEF SerialInd, OneList
  <2> QED
    BY <1>1, <1>2, <2>1 DEF SerialInd, Own
<1>5. \A d : Transfers(d) = Tokens(started, d) /\ Transfers(d)' = Tokens(started', d)
             /\ Waiting(d)' = Waiting(d)
  BY <1>1 DEF Transfers, Tokens, Waiting
<1>6. ASSUME NEW d \in Directions
      PROVE  /\ IsFiniteSet(Tokens(started', d)) /\ Cardinality(Tokens(started, d)) \in Nat
             /\ Cardinality(Tokens(started', d))
                  = Cardinality(Tokens(started, d)) + IF Dir(wirp) = d THEN 1 ELSE 0
  <2>1. IsFiniteSet(Tokens(started, d))
    BY <1>5, <1>6 DEF SerialInd, TransfersFinite
  <2> QED
    BY <1>1, <1>2, <2>1, TokenAdded
<1>7. TransfersFinite'
  BY <1>5, <1>6 DEF TransfersFinite
<1>8. WaitsBacked'
  <2> SUFFICES ASSUME NEW d \in Directions
               PROVE  Cardinality(Waiting(d)) + (IF Dir(wirp) = d THEN 1 ELSE 0)
                        = Cardinality(Tokens(started', d)) + irqs[d]
    BY <1>1, <1>5 DEF WaitsBacked
  <2>1. Cardinality(Waiting(d)) + 0 = Cardinality(Tokens(started, d)) + irqs[d]
    BY <1>1, <1>5 DEF SerialInd, WaitsBacked
  <2>2. Cardinality(Waiting(d)) \in Nat /\ irqs[d] \in Nat
    <3>1. Waiting(d) \in SUBSET Requests
      BY FrontInList DEF Waiting, SerialInd, SerialTypeOK
    <3> QED
      BY <3>1, SerialAssumption, FS_Subset, FS_CardinalityType DEF SerialInd, SerialTypeOK
  <2> QED
    BY <1>6, <2>1, <2>2
<1> QED
  BY <1>3, <1>4, <1>7, <1>8 DEF SerialInd

\* A request is answered, or the host refuses it: it leaves the worker.
LEMMA EndRequestInv ==
    ASSUME SerialInd, RefuseTransfer \/ Answer
    PROVE  SerialInd'
<1> DEFINE o == overlapped[Dir(wirp)]
<1>1. /\ UNCHANGED <<irps, pending, started, irqs, shared, halted, port,
                     code, kept, overtaken, set_term>>
      /\ ~halted /\ wpc = "process" /\ wpc' = "take" /\ wirp \in Requests /\ wirp' = Null
      /\ Dir(wirp) \in Directions /\ status[wirp] = "busy"
  BY DEF RefuseTransfer, Answer, SerialInd, OneList, SerialTypeOK, settings, Dir, Directions
<1>2. PICK x \in {"success", "io_error"}, a \in Requests \cup {Null} :
        /\ status' = [status EXCEPT ![wirp] = x] /\ answer' = [answer EXCEPT ![wirp] = a]
        /\ overlapped' = [overlapped EXCEPT ![Dir(wirp)] = NoResult]
        /\ x = "success" /\ ~shared => a = wirp
  <2>1. CASE RefuseTransfer
    <3>1. /\ status' = [status EXCEPT ![wirp] = "io_error"]
          /\ answer' = [answer EXCEPT ![wirp] = answer[wirp]]
          /\ overlapped' = [overlapped EXCEPT ![Dir(wirp)] = NoResult]
      BY <1>1, <2>1 DEF RefuseTransfer, SerialInd, SerialTypeOK
    <3>2. answer[wirp] \in Requests \cup {Null}
      BY <1>1 DEF SerialInd, SerialTypeOK
    <3> QED
      BY <3>1, <3>2
  <2>2. CASE Answer
    <3>1. /\ o.of \in Requests /\ Dir(o.of) = Dir(wirp) /\ o.error \in {"success", "io_error"}
      BY <1>1, <2>2 DEF Answer, SerialInd, SerialTypeOK, Own
    <3>2. ~shared => o.of = wirp
      BY <1>1, <3>1 DEF SerialInd, Own, AnswerIsOwn
    <3>3. /\ status' = [status EXCEPT ![wirp] = o.error]
          /\ answer' = [answer EXCEPT ![wirp] = o.of]
          /\ overlapped' = [overlapped EXCEPT ![Dir(wirp)] = NoResult]
      BY <2>2 DEF Answer
    <3> HIDE DEF o
    <3> QED
      BY <3>1, <3>2, <3>3
  <2> QED
    BY <2>1, <2>2
<1>3. /\ status' \in [Requests -> {"idle", "busy", "success", "io_error"}] /\ status'[wirp] = x
      /\ answer' \in [Requests -> Requests \cup {Null}] /\ answer'[wirp] = a
      /\ \A q \in Requests \ {wirp} : status'[q] = status[q] /\ answer'[q] = answer[q]
      /\ overlapped' \in [Directions -> [error : {"io_pending", "success", "io_error"},
                                         of : Requests \cup {Null}]]
      /\ overlapped'[Dir(wirp)] = NoResult
      /\ \A d \in Directions : d # Dir(wirp) => overlapped'[d] = overlapped[d]
  BY <1>1, <1>2 DEF SerialInd, SerialTypeOK, NoResult
<1>4. SerialTypeOK'
  BY <1>1, <1>3 DEF SerialInd, SerialTypeOK
<1>5. OneList'
  <2>1. Null \notin ToSet(irps) \cup ToSet(pending)
    BY FrontInList, SerialAssumption DEF SerialInd, SerialTypeOK
  <2> QED
    BY <1>1, <1>3, <2>1, SerialAssumption DEF SerialInd, OneList
<1>6. \A d : Transfers(d)' = Transfers(d) /\ Waiting(d)' = Waiting(d)
  BY <1>1 DEF Transfers, Waiting
<1>7. TransfersFinite' /\ WaitsBacked' /\ HaltsOnlyEarly' /\ PortSet'
  BY <1>1, <1>6 DEF SerialInd, TransfersFinite, WaitsBacked, HaltsOnlyEarly, PortSet
<1>8. ~shared => started[wirp] = 0
  <2> SUFFICES ASSUME ~shared, started[wirp] # 0 PROVE FALSE
    OBVIOUS
  <2>1. <<wirp, 1>> \in Transfers(Dir(wirp))
    <3>1. 1 \in 1 .. started[wirp]
      BY <1>1 DEF SerialInd, SerialTypeOK
    <3> QED
      BY <1>1, <3>1 DEF Transfers
  <2>2. /\ Cardinality(Transfers(Dir(wirp))) \in Nat
        /\ Cardinality(Transfers(Dir(wirp))) # 0
    BY <1>1, <2>1, FS_EmptySet, FS_CardinalityType DEF SerialInd, TransfersFinite
  <2>3. Waiting(Dir(wirp)) = {}
    <3> SUFFICES ASSUME NEW q \in ToSet(pending), Dir(q) = Dir(wirp) PROVE FALSE
      BY DEF Waiting
    <3>1. q \in Requests /\ q # wirp /\ status[q] = "busy"
      BY FrontInList DEF SerialInd, SerialTypeOK, OneList
    <3> QED
      BY <1>1, <3>1 DEF SerialInd, Own
  <2>4. Cardinality(Waiting(Dir(wirp))) = 0
    BY <2>3, FS_EmptySet
  <2>5. irqs[Dir(wirp)] \in Nat
    BY <1>1 DEF SerialInd, SerialTypeOK
  <2> QED
    BY <1>1, <2>2, <2>4, <2>5 DEF SerialInd, WaitsBacked
<1>9. Own'
  <2>1. \A q \in Requests : status'[q] = "busy" <=> q # wirp /\ status[q] = "busy"
    BY <1>3
  <2>2. /\ started' = started /\ shared' = shared
        /\ \A d \in Directions : overlapped'[d] \in {NoResult, overlapped[d]}
    BY <1>1, <1>3
  <2> QED
    BY <1>8, <2>1, <2>2 DEF SerialInd, Own
<1>10. AnswerIsOwn'
  <2> SUFFICES ASSUME ~shared, NEW r \in Requests
               PROVE  /\ status'[r] = "success" => answer'[r] = r
                      /\ overlapped'[Dir(r)].of = r => status'[r] = "busy"
    BY <1>1 DEF AnswerIsOwn
  <2>1. CASE r = wirp
    BY <1>2, <1>3, <2>1, SerialAssumption DEF NoResult
  <2>2. CASE r # wirp
    <3>1. Dir(r) \in Directions
      BY DEF Dir, Directions
    <3>2. overlapped'[Dir(r)].of = r => overlapped[Dir(r)].of = r
      BY <1>3, <3>1, SerialAssumption DEF NoResult
    <3> QED
      BY <1>3, <2>2, <3>2 DEF SerialInd, AnswerIsOwn
  <2> QED
    BY <2>1, <2>2
<1> QED
  BY <1>4, <1>5, <1>7, <1>9, <1>10 DEF SerialInd

\* The request is kept: what the worker owed is now pending.
LEMMA QueuePendingIoInv ==
    ASSUME SerialInd, QueuePendingIo
    PROVE  SerialInd'
<1>1. /\ UNCHANGED <<status, answer, irps, overlapped, started, irqs, shared, halted, port,
                     code, kept, overtaken, set_term>>
      /\ ~halted /\ wpc = "pend" /\ wpc' = "take" /\ wirp \in Requests /\ wirp' = Null
      /\ pending' = Append(pending, wirp) /\ pending \in Seq(Requests) /\ Distinct(pending)
      /\ wirp \notin ToSet(pending)
  BY DEF QueuePendingIo, SerialInd, OneList, SerialTypeOK, settings
<1>2. /\ pending' \in Seq(Requests) /\ ToSet(pending') = ToSet(pending) \cup {wirp}
      /\ Distinct(pending')
  BY <1>1, AppendElement
<1>3. SerialTypeOK'
  BY <1>1, <1>2 DEF SerialInd, SerialTypeOK
<1>4. OneList'
  <2>1. Null \notin ToSet(irps) \cup ToSet(pending')
    BY <1>1, <1>2, FrontInList, SerialAssumption DEF SerialInd, SerialTypeOK
  <2> QED
    BY <1>1, <1>2, <2>1, SerialAssumption DEF SerialInd, OneList
<1>5. Own' /\ AnswerIsOwn' /\ PortSet' /\ HaltsOnlyEarly'
  BY <1>1 DEF SerialInd, Own, AnswerIsOwn, PortSet, HaltsOnlyEarly
<1>6. \A d : Transfers(d)' = Transfers(d)
  BY <1>1 DEF Transfers
<1>7. ASSUME NEW d
      PROVE  /\ Cardinality(Waiting(d)) \in Nat
             /\ Cardinality(Waiting(d)') = Cardinality(Waiting(d)) + IF Dir(wirp) = d THEN 1 ELSE 0
  <2>1. ToSet(pending) \in SUBSET Requests
    BY <1>1, FrontInList
  <2>2. Waiting(d) = Of(ToSet(pending), d) /\ Waiting(d)' = Of(ToSet(pending'), d)
    BY DEF Waiting, Of
  <2> QED
    BY <1>1, <1>2, <2>1, <2>2, WaitingAdded
<1>8. TransfersFinite' /\ WaitsBacked'
  <2>1. TransfersFinite'
    BY <1>6 DEF SerialInd, TransfersFinite
  <2>2. ASSUME NEW d \in Directions
        PROVE  Cardinality(Waiting(d)') + 0 = Cardinality(Transfers(d)') + irqs'[d]
    <3>1. Cardinality(Waiting(d)) + (IF Dir(wirp) = d THEN 1 ELSE 0)
            = Cardinality(Transfers(d)) + irqs[d]
      BY <1>1 DEF SerialInd, WaitsBacked
    <3>2. /\ Cardinality(Waiting(d)) \in Nat
          /\ Cardinality(Waiting(d)') = Cardinality(Waiting(d)) + IF Dir(wirp) = d THEN 1 ELSE 0
      BY <1>7
    <3> QED
      BY <1>1, <1>6, <3>1, <3>2
  <2> QED
    BY <1>1, <2>1, <2>2 DEF WaitsBacked
<1> QED
  BY <1>3, <1>4, <1>5, <1>8 DEF SerialInd

\* At the start there is no request, and the port has some settings.
LEMMA InitSerial == SerialInit => SerialInd
<1> SUFFICES ASSUME SerialInit PROVE SerialInd
  OBVIOUS
<1> USE DEF SerialInit
<1>1. << >> \in Seq(Requests) /\ ToSet(<< >>) = {} /\ Distinct(<< >>)
  BY DEF ToSet, Distinct
<1>2. NoResult \in [error : {"io_pending", "success", "io_error"}, of : Requests \cup {Null}]
  BY DEF NoResult
<1>3. SerialTypeOK
  BY <1>1, <1>2 DEF SerialTypeOK
<1>4. OneList
  BY <1>1, SerialAssumption DEF OneList
<1>5. \A d : Transfers(d) = {} /\ Waiting(d) = {}
  BY <1>1 DEF Transfers, Waiting
<1>6. TransfersFinite
  BY <1>5, FS_EmptySet DEF TransfersFinite
<1>7. WaitsBacked
  <2> SUFFICES ASSUME NEW d \in Directions
               PROVE  Cardinality(Waiting(d)) + 0 = Cardinality(Transfers(d)) + irqs[d]
    BY DEF WaitsBacked
  <2>1. Cardinality(Waiting(d)) = 0 /\ Cardinality(Transfers(d)) = 0 /\ irqs[d] = 0
    BY <1>5, FS_EmptySet
  <2> QED
    BY <2>1
<1>8. Own /\ HaltsOnlyEarly
  BY DEF Own, HaltsOnlyEarly
<1>9. AnswerIsOwn
  <2> SUFFICES ASSUME NEW r \in Requests
               PROVE  status[r] # "success" /\ overlapped[Dir(r)].of # r
    BY DEF AnswerIsOwn
  <2>1. Dir(r) \in Directions
    BY DEF Dir, Directions
  <2> QED
    BY <2>1, SerialAssumption DEF NoResult
<1>10. PortSet
  BY SerialAssumption DEF PortSet
<1> QED
  BY <1>3, <1>4, <1>6, <1>7, <1>8, <1>9, <1>10 DEF SerialInd

\* Every step keeps the invariant.
LEMMA NextSerial == SerialInd /\ [SerialNext]_serial_vars => SerialInd'
<1> SUFFICES ASSUME SerialInd, [SerialNext]_serial_vars PROVE SerialInd'
  OBVIOUS
<1>1. CASE UNCHANGED serial_vars
  <2>1. \A d : Transfers(d)' = Transfers(d) /\ Waiting(d)' = Waiting(d)
    BY <1>1 DEF serial_vars, Transfers, Waiting
  <2>2. SerialTypeOK' /\ OneList' /\ Own' /\ AnswerIsOwn' /\ PortSet' /\ HaltsOnlyEarly'
    BY <1>1 DEF serial_vars, SerialInd, SerialTypeOK, OneList, Own, AnswerIsOwn, PortSet, HaltsOnlyEarly
  <2>3. TransfersFinite' /\ WaitsBacked'
    BY <1>1, <2>1 DEF serial_vars, SerialInd, TransfersFinite, WaitsBacked
  <2> QED
    BY <2>2, <2>3 DEF SerialInd
<1>2. ASSUME NEW r \in Requests, Issue(r) \/ HostStep(r) PROVE SerialInd'
  BY <1>2, IssueInv, PortIoCompletedInv DEF HostStep
<1>3. ASSUME NEW d \in Directions, IrqHandler(d) PROVE SerialInd'
  BY <1>3, IrqHandlerInv
<1>4. ASSUME NEW c \in Callers, ControlStep(c) PROVE SerialInd'
  BY <1>4, TcsetsInv, TcgetsInv DEF ControlStep
<1>5. CASE WorkerStep
  BY <1>5, WakeTakeInv, StartTransferInv, EndRequestInv, QueuePendingIoInv DEF WorkerStep
<1> QED
  BY <1>1, <1>2, <1>3, <1>4, <1>5 DEF SerialNext

(***************************************************************************)
(* The serial port: the theorems                                           *)
(***************************************************************************)
\* The bookkeeping of the driver is right, however many requests of a direction
\* are outstanding: each request is in one place, each wait has an interrupt
\* to come, and the assertion of requeue_pending_io fails only before the
\* worker has kept the request it has just started.
THEOREM RequestsAccounted == SerialSpec => []SerialInv
<1>1. SerialInd => SerialInv
  <2> SUFFICES ASSUME SerialInd PROVE RequestOnce
    BY DEF SerialInd, SerialInv
  <2> SUFFICES ASSUME NEW r \in Requests
               PROVE  Cardinality({i \in DOMAIN irps : irps[i] = r})
                        + Cardinality({i \in DOMAIN pending : pending[i] = r})
                        + (IF wirp = r THEN 1 ELSE 0)
                      = (IF status[r] = "busy" THEN 1 ELSE 0)
    BY DEF RequestOnce
  <2>1. /\ Cardinality({i \in DOMAIN irps : irps[i] = r}) = One(r, ToSet(irps))
        /\ Cardinality({i \in DOMAIN pending : pending[i] = r}) = One(r, ToSet(pending))
    <3>1. irps \in Seq(Requests) /\ pending \in Seq(Requests) /\ Distinct(irps) /\ Distinct(pending)
      BY DEF SerialInd, SerialTypeOK, OneList
    <3> QED
      BY <3>1, Occurrences, Zenon
  <2>2. /\ status[r] = "busy" <=> r \in ToSet(irps) \/ r \in ToSet(pending) \/ r = wirp
        /\ ~(r \in ToSet(irps) /\ r \in ToSet(pending))
        /\ r = wirp => r \notin ToSet(irps) /\ r \notin ToSet(pending)
    BY DEF SerialInd, OneList
  <2>3. One(r, ToSet(irps)) + One(r, ToSet(pending)) + (IF wirp = r THEN 1 ELSE 0)
          = (IF status[r] = "busy" THEN 1 ELSE 0)
    BY <2>2 DEF One
  <2> QED
    BY <2>1, <2>3
<1> QED
  BY InitSerial, NextSerial, <1>1, PTL DEF SerialSpec

\* Until two requests of a direction are outstanding, each is answered with the
\* result of its own transfer.
THEOREM OwnAnswers == SerialSpec => []AnswerIsOwn
<1>1. SerialInd => AnswerIsOwn
  BY DEF SerialInd
<1> QED
  BY InitSerial, NextSerial, <1>1, PTL DEF SerialSpec

\* What a TCGETS that no TCSETS overtakes answers of what the last TCSETS that
\* was alone was given: for every termios, any number of callers, and calls that
\* overlap or fail half way before or after.
THEOREM TermsSurvive == SerialSpec => []ControlRoundTrip
<1>1. SerialInd => ControlRoundTrip
  <2> DEFINE t == set_term
  <2> SUFFICES ASSUME SerialInd, NEW c \in Callers \ overtaken, code[c] = "TCGETS", t # Null
               PROVE  GetTerm(kept[c], port.timeouts) = [t EXCEPT
                        !.flags = @ \ ({"CCTS_OFLOW", "CRTS_IFLOW"}
                                       \cup IF "PARENB" \in @ THEN {} ELSE {"PARODD"}),
                        !.vmin = IF @ = 0 THEN 0 ELSE 1]
    BY DEF ControlRoundTrip, TcgetsAnswer
  <2>1. t \in [flags : SUBSET Flags, size : 5..8, vmin : 0..255, vtime : 0..255]
    BY SerialAssumption DEF SerialInd, SerialTypeOK
  <2>2. kept[c] = SetDcb(t) /\ port.timeouts = SetTimeouts(t)
    BY DEF SerialInd, PortSet
  <2> HIDE DEF t
  <2>3. /\ GetTimeouts(SetTimeouts(t)).vmin = (IF t.vmin = 0 THEN 0 ELSE 1)
        /\ GetTimeouts(SetTimeouts(t)).vtime = t.vtime
    <3>1. /\ t.vmin \in 0..255 /\ t.vtime \in 0..255 /\ (t.vtime * 100) \div 100 = t.vtime
          /\ t.vtime * 100 < MAXDWORD
      BY <2>1, SerialAssumption
    <3>2. CASE t.vmin = 0 /\ t.vtime # 0
      <4>1. SetTimeouts(t)
              = [interval |-> MAXDWORD, multiplier |-> MAXDWORD, constant |-> t.vtime * 100]
        BY <3>2 DEF SetTimeouts
      <4> QED
        BY <3>1, <3>2, <4>1 DEF GetTimeouts
    <3>3. CASE t.vmin = 0 /\ t.vtime = 0
      <4>1. SetTimeouts(t) = [interval |-> MAXDWORD, multiplier |-> 0, constant |-> 0]
        BY <3>3 DEF SetTimeouts
      <4> QED
        BY <3>1, <3>3, <4>1, SerialAssumption DEF GetTimeouts
    <3>4. CASE t.vmin # 0
      <4>1. SetTimeouts(t) = [interval |-> t.vtime * 100, multiplier |-> 0, constant |-> 0]
        BY <3>4 DEF SetTimeouts
      <4> QED
        BY <3>1, <3>4, <4>1 DEF GetTimeouts
    <3> QED
      BY <3>2, <3>3, <3>4
  <2>4. GetFlags(SetDcb(t)) = t.flags \ ({"CCTS_OFLOW", "CRTS_IFLOW"}
                                 \cup IF "PARENB" \in t.flags THEN {} ELSE {"PARODD"})
    <3> DEFINE F == t.flags
               dcb == SetDcb(t)
               Kept == F \ ({"CCTS_OFLOW", "CRTS_IFLOW"}
                            \cup IF "PARENB" \in F THEN {} ELSE {"PARODD"})
    <3>1. F \in SUBSET Flags
      BY <2>1
    <3>2. /\ dcb.fParity = ("PARENB" \in F)
          /\ dcb.Parity = (IF "PARENB" \notin F THEN 0 ELSE IF "PARODD" \in F THEN 1 ELSE 2)
          /\ dcb.StopBits = (IF "CSTOPB" \in F THEN 2 ELSE 0)
          /\ dcb.fOutxCtsFlow = 0 /\ dcb.fRtsControl = 0
      BY DEF SetDcb
    <3>3. (dcb.Parity = 1 <=> "PARENB" \in F /\ "PARODD" \in F)
          /\ (dcb.StopBits = 2 <=> "CSTOPB" \in F)
      BY <3>2
    <3> HIDE DEF F, dcb
    <3>4. ASSUME NEW x \in Flags PROVE x \in GetFlags(dcb) <=> x \in Kept
      <4>1. x \in GetFlags(dcb) <=>
              \/ x = "PARENB" /\ "PARENB" \in F
              \/ x = "PARODD" /\ "PARENB" \in F /\ "PARODD" \in F
              \/ x = "CSTOPB" /\ "CSTOPB" \in F
        <5>1. dcb.fParity <=> "PARENB" \in F
          BY <3>2
        <5> QED
          BY <3>2, <3>3, <5>1 DEF GetFlags
      <4> QED
        BY <3>1, <4>1 DEF Flags
    <3>5. GetFlags(dcb) \subseteq Flags /\ Kept \subseteq Flags
      BY <3>1 DEF GetFlags
    <3> QED
      BY <3>4, <3>5 DEF F, dcb
  <2>5. SetDcb(t).ByteSize = t.size
    BY DEF SetDcb
  <2>6. GetTerm(kept[c], port.timeouts) =
                 [flags |-> t.flags \ ({"CCTS_OFLOW", "CRTS_IFLOW"}
                                \cup IF "PARENB" \in t.flags THEN {} ELSE {"PARODD"}),
                  size |-> t.size, vmin |-> IF t.vmin = 0 THEN 0 ELSE 1, vtime |-> t.vtime]
    BY <2>2, <2>3, <2>4, <2>5, Zenon DEF GetTerm
  <2>7. ASSUME NEW F, NEW v
        PROVE  [t EXCEPT !.flags = F, !.vmin = v]
                 = [flags |-> F, size |-> t.size, vmin |-> v, vtime |-> t.vtime]
    <3> DEFINE u == [t EXCEPT !.flags = F]
    <3>1. u = [flags |-> F, size |-> t.size, vmin |-> t.vmin, vtime |-> t.vtime]
      BY <2>1
    <3>2. [t EXCEPT !.flags = F, !.vmin = v] = [u EXCEPT !.vmin = v]
      BY <2>1
    <3> HIDE DEF u
    <3>3. [u EXCEPT !.vmin = v] = [flags |-> F, size |-> t.size, vmin |-> v, vtime |-> t.vtime]
      BY <3>1
    <3> QED
      BY <3>2, <3>3
  <2> QED
    BY <2>6, <2>7, Zenon
<1> QED
  BY InitSerial, NextSerial, <1>1, PTL DEF SerialSpec

=============================================================================
