---------------------- MODULE PhysicalAllocatorProofs ----------------------
(***************************************************************************)
(* The page frame allocator with one level-0 table, the configuration of   *)
(* the emulator, for any number of threads and any geometry of the table:  *)
(* the counters agree with the bitmaps, a call that lowered free_pages_    *)
(* finds its page, no page is returned twice, and a call fails only when   *)
(* every page is returned or promised.                                     *)
(***************************************************************************)
EXTENDS PhysicalAllocator, CommonTheorems

\* The calls between lowering free_pages_ and lowering a counter of pt1, and
\* those between that and setting a bit.
Seeking == {"pt1", "pt2", "entry", "take"}
Setting == {"row", "set"}

\* The pages the counters of the level-1 table still offer, one token for each.
Offered == {x \in EntryIds \X (1 .. EntryPages) : 2 * x[2] <= pt1[0][x[1]]}

\* free_pages_ and the calls it let through account for what pt1 offers, from
\* the moment the table is rented.
PagesPromised ==
    /\ Cardinality(In(Seeking)) + free_pages = IF Rented(0) THEN Cardinality(Offered) ELSE 0
    /\ ~ Rented(0) => Cardinality(Offered) = TablePages

\* The pages not returned are those on offer and those about to be set.
PagesLeft == Cardinality(NotGiven) = Cardinality(Offered) + Cardinality(In(Setting))

\* What a call at l with locals m knows of the places it has passed: the
\* counters there are used up, the rows there are full, and both stay so.
Passed(l, m) ==
    /\ l = "reserve" => m.seen > 0
    /\ l = "take" => m.seen # 0 /\ m.seen % 2 = 0
    /\ l \in {"entry", "take"} => \A e \in EntryIds : e < m.entry => pt1[0][e] = 0
    /\ l \in Setting => \A r \in RowIds : r < m.row => pt2[0][m.entry][r] = BitIds
    /\ l \in {"load", "reserve", "rent"} \cup Seeking => m.row = 0
    /\ l \in {"load", "reserve", "rent", "pt1", "pt2"} => m.entry = 0

PassedEmpty == \A t \in Threads : Passed(pc[t], my[t])

FrameOf(e, r, b) == e * EntryPages + r * Digits + b

\* A page whose bit is clear has not been returned.
ClearNotGiven ==
    \A e \in EntryIds, r \in RowIds, b \in BitIds :
        b \notin pt2[0][e][r] => given[FrameOf(e, r, b)] = 0

\* The inductive invariant.
Inv ==
    /\ TablesInv /\ TakeFindsPage /\ PageGivenOnce
    /\ PagesPromised /\ PagesLeft /\ PassedEmpty /\ ClearNotGiven

(***************************************************************************)
(* The geometry of the table                                               *)
(***************************************************************************)
\* A pair of digits is below the product of their radices.
LEMMA Below ==
    ASSUME NEW n \in Nat, NEW d \in Nat, NEW q \in 0 .. n - 1, NEW r \in 0 .. d - 1
    PROVE  q * d + r \in 0 .. n * d - 1
<1>1. (q + 1) * d <= n * d
  OBVIOUS
<1>2. (q + 1) * d = q * d + d /\ q * d \in Nat /\ n * d \in Nat
  OBVIOUS
<1> QED
  BY <1>1, <1>2

\* A number determines its digits.
LEMMA DigitsUnique ==
    ASSUME NEW d \in Nat, NEW p \in Nat, NEW q \in Nat,
           NEW r \in 0 .. d - 1, NEW s \in 0 .. d - 1, q * d + r = p * d + s
    PROVE  q = p /\ r = s
<1>0. p * d \in Nat /\ q * d \in Nat
  OBVIOUS
<1>1. ASSUME NEW x \in Nat, NEW y \in Nat, x < y PROVE x * d + d <= y * d
  <2>1. (x + 1) * d <= y * d
    BY <1>1
  <2>2. (x + 1) * d = x * d + d
    OBVIOUS
  <2> QED
    BY <2>1, <2>2
<1>2. ~(q < p) /\ ~(p < q)
  BY <1>0, <1>1
<1> QED
  BY <1>0, <1>2

\* The sizes are positive, and the sets of pages have them.
LEMMA Sizes ==
    /\ EntryPages \in Nat \ {0} /\ TablePages \in Nat \ {0} /\ EntryPages <= TablePages
    /\ IsFiniteSet(RowIds \X BitIds) /\ Cardinality(RowIds \X BitIds) = EntryPages
    /\ IsFiniteSet(EntryIds \X (1 .. EntryPages))
    /\ Cardinality(EntryIds \X (1 .. EntryPages)) = TablePages
<1> USE AllocatorAssumption
<1>1. EntryPages \in Nat \ {0}
  BY DEF EntryPages
<1>2. TablePages \in Nat \ {0} /\ EntryPages <= TablePages
  <2> HIDE DEF EntryPages
  <2>1. ASSUME NEW n \in Nat \ {0}, NEW k \in Nat \ {0}
        PROVE  n * k \in Nat \ {0} /\ k <= n * k
    OBVIOUS
  <2> QED
    BY <1>1, <2>1 DEF TablePages
<1>3. /\ IsFiniteSet(RowIds) /\ Cardinality(RowIds) = Rows
      /\ IsFiniteSet(BitIds) /\ Cardinality(BitIds) = Digits
      /\ IsFiniteSet(EntryIds) /\ Cardinality(EntryIds) = Entries
  BY FS_Interval DEF RowIds, BitIds, EntryIds
<1>4. IsFiniteSet(1 .. EntryPages) /\ Cardinality(1 .. EntryPages) = EntryPages
  BY <1>1, FS_Interval
<1>5. IsFiniteSet(RowIds \X BitIds) /\ Cardinality(RowIds \X BitIds) = EntryPages
  BY <1>3, FS_Product DEF EntryPages
<1>6. /\ IsFiniteSet(EntryIds \X (1 .. EntryPages))
      /\ Cardinality(EntryIds \X (1 .. EntryPages)) = TablePages
  BY <1>3, <1>4, FS_Product DEF TablePages
<1> QED
  BY <1>1, <1>2, <1>5, <1>6

\* With one table, its frames are the pages of the segment.
LEMMA OneTable ==
    ASSUME Tables = 1
    PROVE  /\ TableIds = {0} /\ Pages = 0 .. TablePages - 1
           /\ IsFiniteSet(Pages) /\ Cardinality(Pages) = TablePages
<1>1. TableIds = {0} /\ Pages = 0 .. TablePages - 1
  BY Sizes DEF TableIds, Pages
<1> QED
  BY <1>1, Sizes, FS_Interval

\* Each bit of the tables stands for a page frame of its own.
LEMMA FrameInPages ==
    ASSUME Tables = 1, NEW e \in EntryIds, NEW r \in RowIds, NEW b \in BitIds
    PROVE  FrameOf(e, r, b) \in Pages
<1> USE AllocatorAssumption
<1>1. r * Digits + b \in 0 .. EntryPages - 1
  BY Below DEF RowIds, BitIds, EntryPages
<1>2. e * EntryPages + (r * Digits + b) \in 0 .. TablePages - 1
  BY <1>1, Sizes, Below DEF EntryIds, TablePages
<1>3. e * EntryPages \in Int /\ r * Digits \in Int /\ b \in Int
  BY Sizes DEF EntryIds, RowIds, BitIds
<1> QED
  BY <1>2, <1>3, OneTable DEF FrameOf

\* Two places of the table never stand for the same page.
LEMMA FrameUnique ==
    ASSUME NEW e \in EntryIds, NEW r \in RowIds, NEW b \in BitIds,
           NEW f \in EntryIds, NEW s \in RowIds, NEW c \in BitIds,
           FrameOf(e, r, b) = FrameOf(f, s, c)
    PROVE  e = f /\ r = s /\ b = c
<1> USE AllocatorAssumption
<1>1. r * Digits + b \in 0 .. EntryPages - 1 /\ s * Digits + c \in 0 .. EntryPages - 1
  BY Below DEF RowIds, BitIds, EntryPages
<1>2. /\ e * EntryPages \in Int /\ r * Digits \in Int /\ b \in Int
      /\ f * EntryPages \in Int /\ s * Digits \in Int /\ c \in Int
  BY Sizes DEF EntryIds, RowIds, BitIds
<1>3. e * EntryPages + (r * Digits + b) = f * EntryPages + (s * Digits + c)
  BY <1>2 DEF FrameOf
<1>4. e = f /\ r * Digits + b = s * Digits + c
  BY <1>1, <1>3, Sizes, DigitsUnique DEF EntryIds
<1>5. r = s /\ b = c
  BY <1>4, DigitsUnique DEF RowIds, BitIds
<1> QED
  BY <1>4, <1>5

(***************************************************************************)
(* Counting threads and pages                                              *)
(***************************************************************************)
\* A move of thread t changes the counts by that thread.
LEMMA GotoCounts ==
    ASSUME TypeOK, NEW t \in Threads, NEW l \in Locations, NEW m \in Locals, Goto(t, l, m)
    PROVE  /\ pc' \in [Threads -> Locations] /\ my' \in [Threads -> Locals]
           /\ pc'[t] = l /\ my'[t] = m
           /\ \A u \in Threads \ {t} : pc'[u] = pc[u] /\ my'[u] = my[u]
           /\ Cardinality(In(Seeking)) \in Nat /\ Cardinality(In(Setting)) \in Nat
           /\ Cardinality(In(Seeking)') \in Nat /\ Cardinality(In(Setting)') \in Nat
           /\ Cardinality(In(Seeking)') = Cardinality(In(Seeking)) + One(l, Seeking) - One(pc[t], Seeking)
           /\ Cardinality(In(Setting)') = Cardinality(In(Setting)) + One(l, Setting) - One(pc[t], Setting)
<1>1. /\ pc' \in [Threads -> Locations] /\ my' \in [Threads -> Locals]
      /\ pc'[t] = l /\ my'[t] = m
      /\ \A u \in Threads \ {t} : pc'[u] = pc[u] /\ my'[u] = my[u]
  BY DEF TypeOK, Goto
<1>2. ASSUME NEW S
      PROVE  /\ Cardinality(Where(Threads, pc, S)) \in Nat
             /\ Cardinality(Where(Threads, pc', S)) \in Nat
             /\ Cardinality(Where(Threads, pc', S))
                  = Cardinality(Where(Threads, pc, S)) + One(l, S) - One(pc[t], S)
  BY <1>1, AllocatorAssumption, MoveCounts
<1>3. In(Seeking) = Where(Threads, pc, Seeking) /\ In(Seeking)' = Where(Threads, pc', Seeking)
  BY DEF In, Where, Seeking
<1>4. In(Setting) = Where(Threads, pc, Setting) /\ In(Setting)' = Where(Threads, pc', Setting)
  BY DEF In, Where, Setting
<1> QED
  BY <1>1, <1>2, <1>3, <1>4, Zenon

\* The sets that are counted are finite.
LEMMA CountsAreNat ==
    /\ IsFiniteSet(Offered) /\ Cardinality(Offered) \in Nat
    /\ \A i, e : /\ IsFiniteSet(Clear(i, e)) /\ Cardinality(Clear(i, e)) \in Nat
                 /\ IsFiniteSet(Takers(i, e)) /\ Cardinality(Takers(i, e)) \in Nat
    /\ \A S : IsFiniteSet(In(S)) /\ Cardinality(In(S)) \in Nat
<1>1. Offered \in SUBSET (EntryIds \X (1 .. EntryPages))
  BY DEF Offered
<1>2. \A i, e : Clear(i, e) \in SUBSET (RowIds \X BitIds)
  BY DEF Clear
<1>3. \A i, e : Takers(i, e) \in SUBSET Threads
  BY DEF Takers, In
<1>4. \A S : In(S) \in SUBSET Threads
  BY DEF In
<1>5. IsFiniteSet(Offered)
  BY <1>1, Sizes, FS_Subset
<1>6. \A i, e : IsFiniteSet(Clear(i, e))
  BY <1>2, Sizes, FS_Subset
<1>7. (\A i, e : IsFiniteSet(Takers(i, e))) /\ \A S : IsFiniteSet(In(S))
  BY <1>3, <1>4, AllocatorAssumption, FS_Subset
<1> QED
  BY <1>5, <1>6, <1>7, FS_CardinalityType

\* A step of t changes the threads between counter and bit by t alone.
LEMMA TakersMove ==
    ASSUME TypeOK, NEW t \in Threads, NEW l \in Locations, NEW m \in Locals, Goto(t, l, m),
           NEW i, NEW e
    PROVE  /\ Cardinality(Takers(i, e)') = Cardinality(Takers(i, e))
                  + (IF l \in Setting /\ m.table = i /\ m.entry = e THEN 1 ELSE 0)
                  - (IF pc[t] \in Setting /\ my[t].table = i /\ my[t].entry = e THEN 1 ELSE 0)
<1>1. /\ pc'[t] = l /\ my'[t] = m
      /\ \A u \in Threads \ {t} : pc'[u] = pc[u] /\ my'[u] = my[u]
  BY GotoCounts
<1>2. Takers(i, e) \ {t} = Takers(i, e)' \ {t}
  BY <1>1 DEF Takers, In
<1>3. /\ t \in Takers(i, e) <=> pc[t] \in Setting /\ my[t].table = i /\ my[t].entry = e
      /\ t \in Takers(i, e)' <=> l \in Setting /\ m.table = i /\ m.entry = e
  BY <1>1 DEF Takers, In, Setting
<1>4. IsFiniteSet(Takers(i, e))
  BY CountsAreNat
<1>5. Cardinality(Takers(i, e)')
        = Cardinality(Takers(i, e)) + One(t, Takers(i, e)') - One(t, Takers(i, e))
  BY <1>2, <1>4, OneDiffers, Zenon
<1> QED
  BY <1>3, <1>5 DEF One

(***************************************************************************)
(* The steps                                                               *)
(***************************************************************************)
\* A step that leaves the tables alone and keeps its thread among the seeking,
\* the setting or the other ones.
LEMMA QuietStep ==
    ASSUME Tables = 1, Inv, NEW t \in Threads, NEW l \in Locations \ {"none", "full"},
           NEW m \in Locals, Goto(t, l, m), UNCHANGED <<counters, pt1, pt2, given>>,
           pc[t] \in Seeking <=> l \in Seeking, pc[t] \in Setting <=> l \in Setting,
           l \in Setting => m.table = my[t].table /\ m.entry = my[t].entry,
           Passed(l, m)
    PROVE  Inv'
<1> USE DEF Inv, TablesInv
<1>1. /\ pc' \in [Threads -> Locations] /\ my' \in [Threads -> Locals]
      /\ pc'[t] = l /\ my'[t] = m
      /\ \A u \in Threads \ {t} : pc'[u] = pc[u] /\ my'[u] = my[u]
      /\ Cardinality(In(Seeking)) \in Nat /\ Cardinality(In(Setting)) \in Nat
      /\ Cardinality(In(Seeking)') = Cardinality(In(Seeking)) + One(l, Seeking) - One(pc[t], Seeking)
      /\ Cardinality(In(Setting)') = Cardinality(In(Setting)) + One(l, Setting) - One(pc[t], Setting)
  BY GotoCounts
<1>2. free_pages' = free_pages /\ pt01_index' = pt01_index /\ pt0' = pt0
  BY DEF counters
<1>3. \A i, e : Cardinality(Takers(i, e)') = Cardinality(Takers(i, e))
  <2> SUFFICES ASSUME NEW i, NEW e
               PROVE  Cardinality(Takers(i, e)') = Cardinality(Takers(i, e))
    OBVIOUS
  <2>1. Cardinality(Takers(i, e)) \in Nat
    BY CountsAreNat
  <2> QED
    BY <2>1, TakersMove
<1>4. \A i, e : Clear(i, e)' = Clear(i, e)
  BY DEF Clear
<1>5. Offered' = Offered /\ NotGiven' = NotGiven
  BY DEF Offered, NotGiven
<1>6. TypeOK'
  BY <1>1, <1>2 DEF TypeOK
<1>7. EntryCountsBits'
  BY <1>3, <1>4 DEF EntryCountsBits
<1>8. TakeFindsPage'
  BY <1>1 DEF TakeFindsPage, In
<1>9. PassedEmpty'
  BY <1>1 DEF PassedEmpty, Passed
<1>10. /\ Cardinality(In(Seeking)') = Cardinality(In(Seeking))
       /\ Cardinality(In(Setting)') = Cardinality(In(Setting))
  BY <1>1 DEF One
<1>11. PagesPromised' /\ PagesLeft'
  BY <1>2, <1>5, <1>10 DEF PagesPromised, PagesLeft, Rented
<1>12. PageGivenOnce' /\ ClearNotGiven'
  BY DEF PageGivenOnce, ClearNotGiven
<1> QED
  BY <1>6, <1>7, <1>8, <1>9, <1>11, <1>12

\* The steps that read shared memory, and those that lose a race.
LEMMA CallInv ==
    ASSUME Tables = 1, Inv, NEW t \in Threads, Call(t)
    PROVE  Inv'
<1>1. NoLocals \in Locals /\ Passed("load", NoLocals)
  BY Sizes, OneTable, AllocatorAssumption
  DEF NoLocals, Locals, EntryIds, RowIds, BitIds, Passed, Setting, Seeking
<1> QED
  BY <1>1, QuietStep DEF Call, At, Locations, Seeking, Setting

\* allocate reads the number of free pages and reserves or rents.
LEMMA LoadFreePagesInv ==
    ASSUME Tables = 1, Inv, NEW t \in Threads, LoadFreePages(t)
    PROVE  Inv'
<1> USE DEF Inv, TablesInv
<1> DEFINE l == IF free_pages > 0 THEN "reserve" ELSE "rent"
           m == [my[t] EXCEPT !.seen = free_pages]
<1>0. my[t] \in Locals /\ Passed("load", my[t]) /\ free_pages \in 0 .. 2 * TablePages
  BY Sizes DEF LoadFreePages, At, TypeOK, PassedEmpty
<1>1. m \in Locals /\ Passed(l, m) /\ l \in {"reserve", "rent"}
  <2>1. m \in Locals /\ m.seen = free_pages /\ m.row = my[t].row /\ m.entry = my[t].entry
    BY <1>0 DEF Locals
  <2> QED
    BY <1>0, <2>1 DEF Passed, Setting, Seeking
<1> HIDE DEF l, m
<1>2. Goto(t, l, m) /\ pc[t] = "load" /\ UNCHANGED <<counters, pt1, pt2, given>>
  BY DEF LoadFreePages, At, l, m
<1> HIDE DEF Inv, TablesInv
<1> QED
  BY <1>1, <1>2, QuietStep DEF Locations, Seeking, Setting

\* allocate reads the two indices it starts its search from.
LEMMA ReadPtInv ==
    ASSUME Tables = 1, Inv, NEW t \in Threads, ReadPt1(t) \/ ReadPt2(t)
    PROVE  Inv'
<1>1. CASE ReadPt1(t)
  <2> DEFINE m == [my[t] EXCEPT !.table = pt01_index]
  <2>1. m \in Locals /\ Passed("pt2", m)
    BY <1>1 DEF ReadPt1, At, Inv, TablesInv, TypeOK, Locals, PassedEmpty, Passed, Setting, Seeking
  <2> QED
    BY <1>1, <2>1, QuietStep DEF ReadPt1, At, Locations, Seeking, Setting
<1>2. CASE ReadPt2(t)
  <2> DEFINE m == [my[t] EXCEPT !.bucket = pt01_index]
  <2>1. m \in Locals /\ m.row = my[t].row /\ m.entry = my[t].entry
    BY DEF Inv, TablesInv, TypeOK, Locals
  <2>2. Passed("pt2", my[t])
    BY <1>2 DEF ReadPt2, At, Inv, PassedEmpty
  <2>3. Passed("entry", m)
    BY <2>1, <2>2, AllocatorAssumption DEF Passed, Setting, Seeking, EntryIds
  <2> QED
    BY <1>2, <2>1, <2>3, QuietStep DEF ReadPt2, At, Locations, Seeking, Setting
<1> QED
  BY <1>1, <1>2

\* The scan of the level-1 table.  An entry that is passed has nothing to
\* offer; if none had, nothing would be promised to this call either.
LEMMA LoadEntryInv ==
    ASSUME Tables = 1, Inv, NEW t \in Threads, LoadEntry(t)
    PROVE  Inv'
<1> DEFINE m == my[t]
           value == pt1[0][m.entry]
<1>1. /\ m \in Locals /\ m.table = 0 /\ m.entry \in EntryIds
      /\ pc[t] = "entry" /\ Passed("entry", m)
      /\ UNCHANGED <<counters, pt1, pt2, given>>
  BY OneTable DEF LoadEntry, At, Inv, TablesInv, TypeOK, Locals, PassedEmpty
<1>2. value \in 0 .. 2 * EntryPages /\ value % 2 = 0
  <2>1. value \in {2 * n : n \in 0 .. EntryPages}
    BY <1>1, OneTable DEF Inv, TablesInv, TypeOK
  <2>2. PICK n \in 0 .. EntryPages : value = 2 * n
    BY <2>1
  <2> QED
    BY <2>2, Sizes
<1>3. CASE value # 0
  <2> DEFINE k == [m EXCEPT !.seen = value]
  <2>1. Goto(t, "take", k)
    BY <1>1, <1>2, <1>3 DEF LoadEntry
  <2>2. k \in Locals /\ k.seen = value /\ k.row = m.row /\ k.entry = m.entry
    BY <1>1, <1>2, Sizes DEF Locals
  <2>3. Passed("take", k)
    BY <1>1, <1>2, <1>3, <2>2 DEF Passed, Setting, Seeking
  <2> HIDE DEF k
  <2> QED
    BY <1>1, <2>1, <2>2, <2>3, QuietStep DEF Locations, Seeking, Setting
<1>4. CASE value = 0 /\ m.entry + 1 < Entries
  <2> DEFINE k == [m EXCEPT !.entry = @ + 1]
  <2>1. Goto(t, "entry", k)
    BY <1>1, <1>2, <1>4 DEF LoadEntry
  <2>2. k \in Locals /\ k.row = m.row /\ k.entry = m.entry + 1
    BY <1>1, <1>4, AllocatorAssumption DEF Locals, EntryIds
  <2>3. Passed("entry", k)
    BY <1>1, <1>4, <2>2 DEF Passed, Setting, Seeking, EntryIds
  <2> HIDE DEF k
  <2> QED
    BY <1>1, <2>1, <2>2, <2>3, QuietStep DEF Locations, Seeking, Setting
<1>5. CASE value = 0 /\ ~(m.entry + 1 < Entries)
  <2>1. \A e \in EntryIds : pt1[0][e] = 0
    BY <1>1, <1>5, AllocatorAssumption DEF Passed, EntryIds
  <2>2. Offered = {}
    BY <2>1, Sizes DEF Offered
  <2>3. Cardinality(Offered) = 0
    BY <2>2, FS_EmptySet
  <2>4. t \in In(Seeking) /\ IsFiniteSet(In(Seeking)) /\ Cardinality(In(Seeking)) \in Nat
    BY <1>1, CountsAreNat DEF In, Seeking
  <2>5. Cardinality(In(Seeking)) # 0
    BY <2>4, FS_EmptySet
  <2> QED
    BY <2>3, <2>4, <2>5 DEF Inv, TablesInv, TypeOK, PagesPromised
<1> QED
  BY <1>3, <1>4, <1>5

\* The scan of the level-2 table: a row that is passed is full; if all rows
\* were, the entry's counter would not have let this call through.
LEMMA LoadRowInv ==
    ASSUME Tables = 1, Inv, NEW t \in Threads, LoadRow(t)
    PROVE  Inv'
<1> DEFINE m == my[t]
           clear == BitIds \ pt2[0][m.entry][m.row]
<1>1. /\ m \in Locals /\ m.table = 0 /\ m.bucket = 0 /\ m.entry \in EntryIds /\ m.row \in RowIds
      /\ pc[t] = "row" /\ Passed("row", m)
      /\ UNCHANGED <<counters, pt1, pt2, given>>
  BY OneTable DEF LoadRow, At, Inv, TablesInv, TypeOK, Locals, PassedEmpty
<1>2. CASE clear # {}
  <2> DEFINE k == [m EXCEPT !.bit = Min(clear)]
  <2>1. Goto(t, "set", k)
    BY <1>1, <1>2 DEF LoadRow
  <2>2. Min(clear) \in BitIds
    <3>1. clear \in SUBSET Nat
      BY AllocatorAssumption DEF BitIds
    <3> QED
      BY <1>2, <3>1, MinInSet
  <2>3. /\ k \in Locals /\ k.row = m.row /\ k.entry = m.entry /\ k.table = m.table
        /\ k.seen = m.seen
    BY <1>1, <2>2 DEF Locals
  <2>4. Passed("set", k)
    BY <1>1, <2>3 DEF Passed, Setting, Seeking
  <2> HIDE DEF k
  <2> QED
    BY <1>1, <2>1, <2>3, <2>4, QuietStep DEF Locations, Seeking, Setting
<1>3. CASE clear = {} /\ m.row + 1 < Rows
  <2> DEFINE k == [m EXCEPT !.row = @ + 1]
  <2>1. Goto(t, "row", k)
    BY <1>1, <1>3 DEF LoadRow
  <2>2. k \in Locals /\ k.row = m.row + 1 /\ k.entry = m.entry /\ k.table = m.table
    BY <1>1, <1>3, AllocatorAssumption DEF Locals, RowIds
  <2>3. pt2[0][m.entry][m.row] = BitIds
    <3>1. pt2[0][m.entry][m.row] \in SUBSET BitIds
      BY <1>1, OneTable DEF Inv, TablesInv, TypeOK
    <3> QED
      BY <1>3, <3>1
  <2>4. Passed("row", k)
    <3>1. \A r \in RowIds : r < m.row => pt2[0][m.entry][r] = BitIds
      BY <1>1 DEF Passed, Setting
    <3>2. \A r \in RowIds : r < k.row => r < m.row \/ r = m.row
      <4>1. m.row \in Int /\ k.row = m.row + 1 /\ RowIds \subseteq Int
        BY <1>1, <2>2, AllocatorAssumption DEF RowIds
      <4> HIDE DEF k, m
      <4> QED
        BY <4>1
    <3>3. \A r \in RowIds : r < k.row => pt2[0][k.entry][r] = BitIds
      BY <2>2, <2>3, <3>1, <3>2, Zenon
    <3> QED
      BY <3>3 DEF Passed, Setting, Seeking
  <2> HIDE DEF k
  <2> QED
    BY <1>1, <2>1, <2>2, <2>4, QuietStep DEF Locations, Seeking, Setting
<1>4. CASE clear = {} /\ ~(m.row + 1 < Rows)
  <2>1. \A r \in RowIds : BitIds \subseteq pt2[0][m.entry][r]
    BY <1>1, <1>4, AllocatorAssumption DEF Passed, RowIds, Setting
  <2>2. Clear(0, m.entry) = {}
    BY <2>1 DEF Clear
  <2>3. Cardinality(Clear(0, m.entry)) = 0
    BY <2>2, FS_EmptySet
  <2>4. /\ t \in Takers(0, m.entry) /\ IsFiniteSet(Takers(0, m.entry))
        /\ Cardinality(Takers(0, m.entry)) \in Nat
    BY <1>1, CountsAreNat DEF Takers, In
  <2>5. Cardinality(Takers(0, m.entry)) # 0
    BY <2>4, FS_EmptySet
  <2>6. pt1[0][m.entry] \div 2 \in Nat
    <3>1. pt1[0][m.entry] \in {2 * n : n \in 0 .. EntryPages}
      BY <1>1, OneTable DEF Inv, TablesInv, TypeOK
    <3>2. PICK n \in 0 .. EntryPages : pt1[0][m.entry] = 2 * n
      BY <3>1
    <3> QED
      BY <3>2, Sizes
  <2> QED
    BY <1>1, <2>3, <2>4, <2>5, <2>6, OneTable DEF Inv, TablesInv, EntryCountsBits
<1> QED
  BY <1>2, <1>3, <1>4

\* A page is promised: one page less in free_pages_, one more call seeking.
LEMMA ReservePageInv ==
    ASSUME Tables = 1, Inv, NEW t \in Threads, ReservePage(t)
    PROVE  Inv'
<1>1. /\ NoLocals \in Locals /\ Passed("load", NoLocals) /\ Passed("pt1", NoLocals)
      /\ Passed("pt1", NoLocals)'
  BY Sizes, OneTable, AllocatorAssumption
  DEF NoLocals, Locals, EntryIds, RowIds, BitIds, Passed, Setting, Seeking
<1>2. pc[t] = "reserve" /\ UNCHANGED <<pt01_index, pt0, pt1, pt2, given>>
  BY DEF ReservePage, At
<1>3. CASE free_pages # my[t].seen
  <2>1. Goto(t, "load", NoLocals) /\ UNCHANGED counters
    BY <1>2, <1>3 DEF ReservePage, counters
  <2> QED
    BY <1>1, <1>2, <2>1, QuietStep DEF Locations, Seeking, Setting
<1>4. CASE free_pages = my[t].seen
  <2>1. Goto(t, "pt1", NoLocals) /\ free_pages' = free_pages - 1
    BY <1>4 DEF ReservePage
  <2>2. free_pages \in 1 .. TablePages
    <3>1. Passed("reserve", my[t])
      BY <1>2 DEF Inv, PassedEmpty
    <3> QED
      BY <1>4, <3>1, Sizes DEF Passed, Inv, TablesInv, TypeOK
  <2> USE DEF Inv, TablesInv
  <2>3. /\ pc' \in [Threads -> Locations] /\ my' \in [Threads -> Locals]
        /\ pc'[t] = "pt1" /\ my'[t] = NoLocals
        /\ \A u \in Threads \ {t} : pc'[u] = pc[u] /\ my'[u] = my[u]
        /\ Cardinality(In(Seeking)) \in Nat /\ Cardinality(In(Setting)) \in Nat
        /\ Cardinality(In(Seeking)') = Cardinality(In(Seeking)) + 1
        /\ Cardinality(In(Setting)') = Cardinality(In(Setting))
    BY <1>1, <1>2, <2>1, GotoCounts DEF Locations, One, Seeking, Setting
  <2>4. \A i, e : Cardinality(Takers(i, e)') = Cardinality(Takers(i, e))
    <3> SUFFICES ASSUME NEW i, NEW e
                 PROVE  Cardinality(Takers(i, e)') = Cardinality(Takers(i, e))
      OBVIOUS
    <3>1. Cardinality(Takers(i, e)) \in Nat
      BY CountsAreNat
    <3> QED
      BY <1>1, <1>2, <2>1, <3>1, TakersMove DEF Locations, Setting
  <2>5. (\A i, e : Clear(i, e)' = Clear(i, e)) /\ Offered' = Offered /\ NotGiven' = NotGiven
    BY <1>2 DEF Clear, Offered, NotGiven
  <2>6. TypeOK'
    BY <1>2, <2>1, <2>2, <2>3, Sizes DEF TypeOK
  <2>7. EntryCountsBits'
    BY <1>2, <2>4, <2>5 DEF EntryCountsBits
  <2>8. TakeFindsPage'
    BY <2>3 DEF TakeFindsPage, In
  <2>9. PassedEmpty'
    BY <1>1, <1>2, <2>3 DEF PassedEmpty, Passed
  <2>10. PagesPromised' /\ PagesLeft'
    BY <1>2, <2>1, <2>2, <2>3, <2>5 DEF PagesPromised, PagesLeft, Rented
  <2>11. PageGivenOnce' /\ ClearNotGiven'
    BY <1>2 DEF PageGivenOnce, ClearNotGiven
  <2> QED
    BY <2>6, <2>7, <2>8, <2>9, <2>10, <2>11
<1> QED
  BY <1>3, <1>4

\* The table is rented once: no call has taken a page before that.
LEMMA RentInv ==
    ASSUME Tables = 1, Inv, NEW t \in Threads, Rent(t)
    PROVE  Inv'
<1>1. NoLocals \in Locals /\ Passed("load", NoLocals) /\ Passed("idle", NoLocals)
      /\ Passed("load", NoLocals)'
  BY Sizes, OneTable, AllocatorAssumption
  DEF NoLocals, Locals, EntryIds, RowIds, BitIds, Passed, Setting, Seeking
<1>2. pc[t] = "rent" /\ UNCHANGED <<pt1, pt2, given>>
  BY DEF Rent, At
<1>3. CASE free_pages # 0
  <2>1. Goto(t, "load", NoLocals) /\ UNCHANGED counters
    BY <1>2, <1>3 DEF Rent
  <2> QED
    BY <1>1, <1>2, <2>1, QuietStep DEF Locations, Seeking, Setting
<1>4. CASE free_pages = 0 /\ Unrented = {}
  <2>1. Goto(t, "idle", NoLocals) /\ UNCHANGED counters
    BY <1>2, <1>4 DEF Rent, RentNewPt0, Return
  <2> QED
    BY <1>1, <1>2, <2>1, QuietStep DEF Locations, Seeking, Setting
<1>5. CASE free_pages = 0 /\ Unrented # {}
  <2>1. Min(Unrented) = 0 /\ ~ Rented(0)
    <3>1. Unrented \in SUBSET Nat /\ Unrented \subseteq {0}
      BY OneTable DEF Unrented
    <3>2. Min(Unrented) \in Unrented
      BY <1>5, <3>1, MinInSet
    <3> QED
      BY <3>1, <3>2 DEF Unrented
  <2> USE DEF Inv, TablesInv
  <2>2. pt0 \in [{0} -> {1, 2 * TablePages}] /\ pt0[0] = 2 * TablePages
    BY <2>1, OneTable DEF TypeOK, Rented
  <2>3. /\ Goto(t, "load", NoLocals) /\ pt0' = [pt0 EXCEPT ![0] = 1] /\ pt01_index' = 0
        /\ free_pages' = TablePages
    <3>1. (2 * TablePages) \div 2 = TablePages
      BY Sizes
    <3> QED
      BY <1>5, <2>1, <2>2, <3>1 DEF Rent, RentNewPt0
  <2>4. /\ pc' \in [Threads -> Locations] /\ my' \in [Threads -> Locals]
        /\ pc'[t] = "load" /\ my'[t] = NoLocals
        /\ \A u \in Threads \ {t} : pc'[u] = pc[u] /\ my'[u] = my[u]
        /\ Cardinality(In(Seeking)) \in Nat /\ Cardinality(In(Setting)) \in Nat
        /\ Cardinality(In(Seeking)') = Cardinality(In(Seeking))
        /\ Cardinality(In(Setting)') = Cardinality(In(Setting))
    BY <1>1, <1>2, <2>3, GotoCounts DEF Locations, One, Seeking, Setting
  <2>5. \A i, e : Cardinality(Takers(i, e)') = Cardinality(Takers(i, e))
    <3> SUFFICES ASSUME NEW i, NEW e
                 PROVE  Cardinality(Takers(i, e)') = Cardinality(Takers(i, e))
      OBVIOUS
    <3>1. Cardinality(Takers(i, e)) \in Nat
      BY CountsAreNat
    <3> QED
      BY <1>1, <1>2, <2>3, <3>1, TakersMove DEF Locations, Setting
  <2>6. (\A i, e : Clear(i, e)' = Clear(i, e)) /\ Offered' = Offered /\ NotGiven' = NotGiven
    BY <1>2 DEF Clear, Offered, NotGiven
  <2>7. pt0'[0] = 1 /\ pt0' \in [{0} -> {1, 2 * TablePages}]
    BY <2>2, <2>3
  <2>8. TypeOK'
    BY <1>2, <2>3, <2>4, <2>7, Sizes, OneTable DEF TypeOK
  <2>9. EntryCountsBits'
    BY <1>2, <2>5, <2>6 DEF EntryCountsBits
  <2>10. TakeFindsPage'
    BY <2>4 DEF TakeFindsPage, In
  <2>11. PassedEmpty'
    BY <1>1, <1>2, <2>4 DEF PassedEmpty, Passed
  <2>12. PagesPromised' /\ PagesLeft'
    BY <1>5, <2>1, <2>3, <2>4, <2>6, <2>7, Sizes DEF PagesPromised, PagesLeft, Rented
  <2>13. PageGivenOnce' /\ ClearNotGiven'
    BY <1>2 DEF PageGivenOnce, ClearNotGiven
  <2> QED
    BY <2>8, <2>9, <2>10, <2>11, <2>12, <2>13
<1> QED
  BY <1>3, <1>4, <1>5

\* An entry's counter is lowered: the entry offers one page less.
LEMMA TakeEntryInv ==
    ASSUME Tables = 1, Inv, NEW t \in Threads, TakeEntry(t)
    PROVE  Inv'
<1> DEFINE m == my[t]
           e == m.entry
           k == [m EXCEPT !.seen = 0]
<1>1. /\ m \in Locals /\ m.table = 0 /\ m.entry \in EntryIds
      /\ pc[t] = "take" /\ Passed("take", m)
      /\ UNCHANGED <<counters, pt2, given>>
  BY OneTable DEF TakeEntry, At, Inv, TablesInv, TypeOK, Locals, PassedEmpty
<1>2. /\ k \in Locals /\ k.row = m.row /\ k.entry = m.entry /\ k.table = 0
      /\ k.row = 0
  BY <1>1, Sizes DEF Locals, Passed, Seeking
<1>3. CASE pt1[0][e] # m.seen
  <2>1. Goto(t, "entry", k) /\ UNCHANGED pt1
    BY <1>1, <1>3 DEF TakeEntry
  <2>2. Passed("entry", k)
    BY <1>1, <1>2 DEF Passed, Setting, Seeking
  <2> HIDE DEF k
  <2> QED
    BY <1>1, <1>2, <2>1, <2>2, QuietStep DEF Locations, Seeking, Setting
<1>4. CASE pt1[0][e] = m.seen
  <2>1. Goto(t, "row", k) /\ pt1' = [pt1 EXCEPT ![0][e] = @ - 2]
    BY <1>1, <1>4 DEF TakeEntry
  <2> HIDE DEF k
  <2> USE DEF Inv, TablesInv
  <2>2. PICK n \in 1 .. EntryPages : pt1[0][e] = 2 * n
    <3>1. pt1[0][e] \in {2 * n : n \in 0 .. EntryPages}
      BY <1>1, OneTable DEF TypeOK
    <3>2. PICK n \in 0 .. EntryPages : pt1[0][e] = 2 * n
      BY <3>1
    <3>3. n # 0
      BY <1>1, <1>4, <3>2 DEF Passed
    <3> QED
      BY <3>2, <3>3, Sizes
  <2>3. /\ pt1[0] \in [EntryIds -> {2 * j : j \in 0 .. EntryPages}]
        /\ pt1'[0][e] = 2 * (n - 1)
        /\ \A f \in EntryIds : f # e => pt1'[0][f] = pt1[0][f]
    BY <1>1, <2>1, <2>2, OneTable DEF TypeOK
  <2>4. pt1' \in [TableIds -> [EntryIds -> {2 * j : j \in 0 .. EntryPages}]]
    <3>1. 2 * (n - 1) \in {2 * j : j \in 0 .. EntryPages}
      BY Sizes
    <3>2. pt1[0][e] - 2 = 2 * (n - 1)
      BY <2>2
    <3> QED
      BY <1>1, <2>1, <3>1, <3>2, OneTable DEF TypeOK
  <2>5. /\ pc' \in [Threads -> Locations] /\ my' \in [Threads -> Locals]
        /\ pc'[t] = "row" /\ my'[t] = k
        /\ \A u \in Threads \ {t} : pc'[u] = pc[u] /\ my'[u] = my[u]
        /\ Cardinality(In(Seeking)) \in Nat /\ Cardinality(In(Setting)) \in Nat
        /\ Cardinality(In(Seeking)') = Cardinality(In(Seeking)) - 1
        /\ Cardinality(In(Setting)') = Cardinality(In(Setting)) + 1
    BY <1>1, <1>2, <2>1, GotoCounts DEF Locations, One, Seeking, Setting
  <2>6. \A f : Cardinality(Takers(0, f)') = Cardinality(Takers(0, f)) + IF f = e THEN 1 ELSE 0
    <3> SUFFICES ASSUME NEW f
                 PROVE  Cardinality(Takers(0, f)')
                          = Cardinality(Takers(0, f)) + IF f = e THEN 1 ELSE 0
      OBVIOUS
    <3>1. Cardinality(Takers(0, f)) \in Nat
      BY CountsAreNat
    <3> QED
      BY <1>1, <1>2, <2>1, <3>1, TakersMove DEF Locations, Setting
  <2>7. \A i, f : Clear(i, f)' = Clear(i, f)
    BY <1>1 DEF Clear
  <2>8. NotGiven' = NotGiven
    BY <1>1 DEF NotGiven
  <2>9. Cardinality(Offered') = Cardinality(Offered) - 1
    <3>1. <<e, n>> \in Offered
      BY <1>1, <2>2 DEF Offered
    <3>2. <<e, n>> \notin Offered'
      BY <2>3 DEF Offered
    <3>3. ASSUME NEW f \in EntryIds, NEW j \in 1 .. EntryPages, <<f, j>> # <<e, n>>
          PROVE  2 * j <= pt1[0][f] <=> 2 * j <= pt1'[0][f]
      BY <2>2, <2>3, <3>3
    <3>4. Offered \ {<<e, n>>} = Offered' \ {<<e, n>>}
      BY <3>3 DEF Offered
    <3>5. IsFiniteSet(Offered)
      BY CountsAreNat
    <3> QED
      BY <3>1, <3>2, <3>4, <3>5, OneDiffers DEF One
  <2>10. TypeOK'
    BY <1>1, <2>4, <2>5 DEF TypeOK, counters
  <2>11. EntryCountsBits'
    <3> SUFFICES ASSUME NEW f \in EntryIds
                 PROVE  Cardinality(Clear(0, f)') = pt1'[0][f] \div 2 + Cardinality(Takers(0, f)')
      BY OneTable DEF EntryCountsBits
    <3>1. Cardinality(Clear(0, f)) = pt1[0][f] \div 2 + Cardinality(Takers(0, f))
      BY OneTable DEF EntryCountsBits
    <3>2. Cardinality(Takers(0, f)) \in Nat
      BY CountsAreNat
    <3>3. CASE f = e
      <4>1. pt1[0][f] \div 2 = n /\ pt1'[0][f] \div 2 = n - 1
        BY <2>2, <2>3, <3>3
      <4> QED
        BY <2>6, <2>7, <3>1, <3>2, <3>3, <4>1
    <3>4. CASE f # e
      BY <2>3, <2>6, <2>7, <3>1, <3>2, <3>4
    <3> QED
      BY <3>3, <3>4
  <2>12. TakeFindsPage'
    BY <2>5 DEF TakeFindsPage, In
  <2>13. PassedEmpty'
    <3> SUFFICES ASSUME NEW u \in Threads PROVE Passed(pc[u], my[u])'
      BY DEF PassedEmpty
    <3>1. \A f \in EntryIds : pt1[0][f] = 0 => pt1'[0][f] = 0
      BY <2>2, <2>3
    <3>2. CASE u = t
      <4>1. \A r \in RowIds : ~(r < 0)
        BY AllocatorAssumption DEF RowIds
      <4> QED
        BY <1>2, <2>5, <3>2, <4>1 DEF Passed, Setting, Seeking
    <3>3. CASE u # t
      <4>1. Passed(pc[u], my[u]) /\ pc'[u] = pc[u] /\ my'[u] = my[u]
        BY <2>5, <3>3 DEF PassedEmpty
      <4> QED
        BY <1>1, <3>1, <4>1 DEF Passed
    <3> QED
      BY <3>2, <3>3
  <2>14. Rented(0)' = Rented(0) /\ free_pages' = free_pages
    BY <1>1 DEF Rented, counters
  <2>15. Cardinality(In(Seeking)) # 0
    <3>1. t \in In(Seeking)
      BY <1>1 DEF In, Seeking
    <3> QED
      BY <3>1, CountsAreNat, FS_EmptySet
  <2>16. PagesPromised'
    BY <2>5, <2>9, <2>14, <2>15, CountsAreNat DEF PagesPromised, TypeOK
  <2>17. PagesLeft'
    BY <2>5, <2>8, <2>9, CountsAreNat DEF PagesLeft
  <2>18. PageGivenOnce' /\ ClearNotGiven'
    BY <1>1 DEF PageGivenOnce, ClearNotGiven
  <2> QED
    BY <2>10, <2>11, <2>12, <2>13, <2>16, <2>17, <2>18
<1> QED
  BY <1>3, <1>4

\* The bit is set.  If it was set already nothing changes; else its page was
\* not yet returned, and no clear bit stands for the same page.
LEMMA SetBitInv ==
    ASSUME Tables = 1, Inv, NEW t \in Threads, SetBit(t)
    PROVE  Inv'
<1> DEFINE m == my[t]
           p == FrameOf(m.entry, m.row, m.bit)
<1>1. /\ m \in Locals /\ m.table = 0 /\ m.bucket = 0 /\ m.entry \in EntryIds
      /\ m.row \in RowIds /\ m.bit \in BitIds
      /\ pc[t] = "set" /\ Passed("set", m) /\ UNCHANGED <<counters, pt1>>
      /\ pt2' = [pt2 EXCEPT ![0][m.entry][m.row] = @ \cup {m.bit}]
  BY OneTable DEF SetBit, FetchOr, At, Inv, TablesInv, TypeOK, Locals, PassedEmpty
<1>2. pt2 \in [{0} -> [EntryIds -> [RowIds -> SUBSET BitIds]]]
  BY OneTable DEF Inv, TablesInv, TypeOK
<1>3. /\ pt2' \in [{0} -> [EntryIds -> [RowIds -> SUBSET BitIds]]]
      /\ pt2'[0][m.entry][m.row] = pt2[0][m.entry][m.row] \cup {m.bit}
      /\ \A e \in EntryIds, r \in RowIds :
             <<e, r>> # <<m.entry, m.row>> => pt2'[0][e][r] = pt2[0][e][r]
  BY <1>1, <1>2
<1>4. CASE m.bit \in pt2[0][m.entry][m.row]
  <2> DEFINE k == [m EXCEPT !.bit = 0]
  <2>1. Goto(t, "row", k) /\ UNCHANGED given
    BY <1>1, <1>4 DEF SetBit, WasClear
  <2>2. pt2' = pt2
    <3>1. pt2[0][m.entry][m.row] \cup {m.bit} = pt2[0][m.entry][m.row]
      BY <1>4
    <3> HIDE DEF m
    <3> QED
      BY <1>1, <1>2, <3>1
  <2>3. /\ k \in Locals /\ k.row = m.row /\ k.entry = m.entry /\ k.table = m.table
        /\ k.seen = m.seen
    BY <1>1, AllocatorAssumption DEF Locals, BitIds
  <2>4. Passed("row", k)
    BY <1>1, <2>3 DEF Passed, Setting, Seeking
  <2> HIDE DEF k
  <2> QED
    BY <1>1, <2>1, <2>2, <2>3, <2>4, QuietStep DEF Locations, Seeking, Setting
<1>5. CASE m.bit \notin pt2[0][m.entry][m.row]
  <2>1. Goto(t, "idle", NoLocals) /\ given' = [given EXCEPT ![p] = @ + 1]
    BY <1>1, <1>5 DEF SetBit, WasClear, ReturnPage, Return, Pfn, FrameOf
  <2>2. p \in Pages
    BY <1>1, FrameInPages
  <2>3. NoLocals \in Locals
    BY Sizes, OneTable, AllocatorAssumption DEF NoLocals, Locals, EntryIds, RowIds, BitIds
  <2> USE DEF Inv, TablesInv
  <2>4. given[p] = 0
    BY <1>1, <1>5 DEF ClearNotGiven
  <2> HIDE DEF p
  <2>5. /\ given' \in [Pages -> Nat] /\ given'[p] = 1
        /\ \A q \in Pages : q # p => given'[q] = given[q]
    BY <2>1, <2>2, <2>4 DEF TypeOK
  <2>6. /\ pc' \in [Threads -> Locations] /\ my' \in [Threads -> Locals]
        /\ pc'[t] = "idle" /\ my'[t] = NoLocals
        /\ \A u \in Threads \ {t} : pc'[u] = pc[u] /\ my'[u] = my[u]
        /\ Cardinality(In(Seeking)) \in Nat /\ Cardinality(In(Setting)) \in Nat
        /\ Cardinality(In(Seeking)') = Cardinality(In(Seeking))
        /\ Cardinality(In(Setting)') = Cardinality(In(Setting)) - 1
    BY <1>1, <2>1, <2>3, GotoCounts DEF Locations, One, Seeking, Setting
  <2>7. \A e : Cardinality(Takers(0, e)')
                 = Cardinality(Takers(0, e)) - IF e = m.entry THEN 1 ELSE 0
    <3> SUFFICES ASSUME NEW e
                 PROVE  Cardinality(Takers(0, e)')
                          = Cardinality(Takers(0, e)) - IF e = m.entry THEN 1 ELSE 0
      OBVIOUS
    <3>1. Cardinality(Takers(0, e)) \in Nat
      BY CountsAreNat
    <3> QED
      BY <1>1, <2>1, <2>3, <3>1, TakersMove DEF Locations, Setting
  <2>8. Offered' = Offered
    BY <1>1 DEF Offered
  <2>9. Cardinality(NotGiven') = Cardinality(NotGiven) - 1
    <3>1. p \in NotGiven /\ p \notin NotGiven' /\ NotGiven \ {p} = NotGiven' \ {p}
      BY <2>2, <2>4, <2>5 DEF NotGiven
    <3>2. NotGiven \in SUBSET Pages
      BY DEF NotGiven
    <3>3. IsFiniteSet(NotGiven)
      BY <3>2, OneTable, FS_Subset
    <3> QED
      BY <3>1, <3>3, OneDiffers DEF One
  <2>10. \A e \in EntryIds : Cardinality(Clear(0, e)')
                 = Cardinality(Clear(0, e)) - IF e = m.entry THEN 1 ELSE 0
    <3> SUFFICES ASSUME NEW e \in EntryIds
                 PROVE  Cardinality(Clear(0, e)')
                          = Cardinality(Clear(0, e)) - IF e = m.entry THEN 1 ELSE 0
      OBVIOUS
    <3>1. IsFiniteSet(Clear(0, e)) /\ Cardinality(Clear(0, e)) \in Nat
      BY CountsAreNat
    <3>2. CASE e = m.entry
      <4> DEFINE x == <<m.row, m.bit>>
      <4>1. x \in Clear(0, e) /\ x \notin Clear(0, e)'
        BY <1>1, <1>3, <1>5, <3>2 DEF Clear
      <4>2. ASSUME NEW r \in RowIds, NEW b \in BitIds, <<r, b>> # x
            PROVE  b \notin pt2[0][e][r] <=> b \notin pt2'[0][e][r]
        BY <1>1, <1>3, <3>2, <4>2
      <4>3. Clear(0, e) \ {x} = Clear(0, e)' \ {x}
        BY <4>2 DEF Clear
      <4> HIDE DEF x
      <4>4. Cardinality(Clear(0, e)') = Cardinality(Clear(0, e)) - 1
        BY <3>1, <4>1, <4>3, OneDiffers DEF One
      <4> QED
        BY <3>2, <4>4
    <3>3. CASE e # m.entry
      <4>1. \A r \in RowIds : pt2'[0][e][r] = pt2[0][e][r]
        BY <1>3, <3>3
      <4>2. Clear(0, e)' = Clear(0, e)
        BY <4>1 DEF Clear
      <4> QED
        BY <3>1, <3>3, <4>2
    <3> QED
      BY <3>2, <3>3
  <2>11. TypeOK'
    BY <1>1, <1>3, <2>5, <2>6, OneTable DEF TypeOK, counters
  <2>12. EntryCountsBits'
    <3> SUFFICES ASSUME NEW f \in EntryIds
                 PROVE  Cardinality(Clear(0, f)') = pt1[0][f] \div 2 + Cardinality(Takers(0, f)')
      BY <1>1, OneTable DEF EntryCountsBits
    <3>1. Cardinality(Clear(0, f)) = pt1[0][f] \div 2 + Cardinality(Takers(0, f))
      BY OneTable DEF EntryCountsBits
    <3>2. pt1[0][f] \div 2 \in Int
      <4>1. pt1[0][f] \in {2 * n : n \in 0 .. EntryPages}
        BY OneTable DEF TypeOK
      <4>2. PICK n \in 0 .. EntryPages : pt1[0][f] = 2 * n
        BY <4>1
      <4> QED
        BY <4>2
    <3> QED
      BY <2>7, <2>10, <3>1, <3>2, CountsAreNat
  <2>13. TakeFindsPage'
    BY <2>6 DEF TakeFindsPage, In
  <2>14. PassedEmpty'
    <3> SUFFICES ASSUME NEW u \in Threads PROVE Passed(pc[u], my[u])'
      BY DEF PassedEmpty
    <3>1. \A e \in EntryIds, r \in RowIds : pt2[0][e][r] = BitIds => pt2'[0][e][r] = BitIds
      BY <1>1, <1>3
    <3>2. CASE u = t
      BY <2>6, <3>2 DEF Passed, Setting, Seeking
    <3>3. CASE u # t
      <4>1. Passed(pc[u], my[u]) /\ pc'[u] = pc[u] /\ my'[u] = my[u] /\ my[u].entry \in EntryIds
        BY <2>6, <3>3 DEF PassedEmpty, TypeOK, Locals
      <4> QED
        BY <1>1, <3>1, <4>1 DEF Passed
    <3> QED
      BY <3>2, <3>3
  <2>15. PagesPromised' /\ PagesLeft'
    BY <1>1, <2>6, <2>8, <2>9, CountsAreNat DEF PagesPromised, PagesLeft, Rented, counters
  <2>16. PageGivenOnce'
    BY <2>5 DEF PageGivenOnce
  <2>17. ClearNotGiven'
    <3> SUFFICES ASSUME NEW e \in EntryIds, NEW r \in RowIds, NEW b \in BitIds,
                        b \notin pt2'[0][e][r]
                 PROVE  given'[FrameOf(e, r, b)] = 0
      BY DEF ClearNotGiven
    <3>1. b \notin pt2[0][e][r] /\ <<e, r, b>> # <<m.entry, m.row, m.bit>>
      BY <1>1, <1>3
    <3>2. FrameOf(e, r, b) # p /\ FrameOf(e, r, b) \in Pages
      BY <1>1, <3>1, FrameUnique, FrameInPages DEF p
    <3>3. given[FrameOf(e, r, b)] = 0
      BY <3>1 DEF ClearNotGiven
    <3> QED
      BY <2>5, <3>2, <3>3
  <2> QED
    BY <2>11, <2>12, <2>13, <2>14, <2>15, <2>16, <2>17
<1> QED
  BY <1>4, <1>5

\* At the start every page is on offer and every bit clear.
LEMMA InitInv ==
    ASSUME Tables = 1, Init
    PROVE  Inv
<1> USE DEF Init
<1>1. NoLocals \in Locals
  BY Sizes, OneTable, AllocatorAssumption DEF NoLocals, Locals, EntryIds, RowIds, BitIds
<1>2. TypeOK
  <2>1. 2 * EntryPages \in {2 * n : n \in 0 .. EntryPages}
    <3>1. EntryPages \in 0 .. EntryPages
      BY Sizes
    <3> QED
      BY <3>1
  <2>2. free_pages \in 0 .. TablePages /\ pt01_index \in TableIds
    BY Sizes, OneTable
  <2>3. /\ pt1 \in [TableIds -> [EntryIds -> {2 * n : n \in 0 .. EntryPages}]]
        /\ pt0 \in [TableIds -> {1, 2 * TablePages}]
    BY <2>1
  <2>4. pc \in [Threads -> Locations] /\ my \in [Threads -> Locals] /\ given \in [Pages -> Nat]
    BY <1>1 DEF Locations
  <2> QED
    BY <2>2, <2>3, <2>4 DEF TypeOK
<1>3. \A S : "idle" \notin S => In(S) = {} /\ Cardinality(In(S)) = 0
  <2>1. \A S : "idle" \notin S => In(S) = {}
    BY DEF In
  <2> QED
    BY <2>1, FS_EmptySet
<1>4. EntryCountsBits
  <2> SUFFICES ASSUME NEW e \in EntryIds
               PROVE  Cardinality(Clear(0, e)) = pt1[0][e] \div 2 + Cardinality(Takers(0, e))
    BY OneTable DEF EntryCountsBits
  <2>1. Clear(0, e) = RowIds \X BitIds
    BY OneTable DEF Clear
  <2>2. Takers(0, e) = {}
    BY DEF Takers, In
  <2>3. Cardinality(Takers(0, e)) = 0
    BY <2>2, FS_EmptySet
  <2>4. pt1[0][e] \div 2 = EntryPages
    BY Sizes, OneTable
  <2>5. Cardinality(Clear(0, e)) = EntryPages /\ EntryPages \in Nat
    BY <2>1, Sizes
  <2> HIDE DEF Init
  <2> QED
    BY <2>3, <2>4, <2>5
<1>5. Offered = EntryIds \X (1 .. EntryPages)
  BY Sizes, OneTable DEF Offered
<1>6. NotGiven = Pages
  BY DEF NotGiven
<1>7. TakeFindsPage /\ PageGivenOnce
  BY DEF TakeFindsPage, PageGivenOnce, In
<1>8. PagesPromised
  <2>1. ~ Rented(0)
    BY Sizes, OneTable DEF Rented
  <2>2. Cardinality(In(Seeking)) = 0
    BY <1>3 DEF Seeking
  <2> QED
    BY <1>5, <2>1, <2>2, Sizes DEF PagesPromised
<1>9. PagesLeft
  <2>1. Cardinality(In(Setting)) = 0
    BY <1>3 DEF Setting
  <2> QED
    BY <1>5, <1>6, <2>1, Sizes, OneTable DEF PagesLeft
<1>10. PassedEmpty
  BY DEF PassedEmpty, Passed, Setting, Seeking
<1>11. ClearNotGiven
  BY FrameInPages DEF ClearNotGiven
<1> QED
  BY <1>2, <1>4, <1>7, <1>8, <1>9, <1>10, <1>11 DEF Inv, TablesInv

\* Every step keeps the invariant.
LEMMA NextInv ==
    ASSUME Tables = 1, Inv, [Next]_vars
    PROVE  Inv'
<1>1. CASE UNCHANGED vars
  <2> USE DEF Inv, TablesInv
  <2>1. /\ UNCHANGED <<free_pages, pt01_index, pt0, pt1, pt2, pc, my, given>>
    BY <1>1 DEF vars, counters
  <2>2. /\ (\A i, e : Clear(i, e)' = Clear(i, e) /\ Takers(i, e)' = Takers(i, e))
        /\ In(Seeking)' = In(Seeking) /\ In(Setting)' = In(Setting)
        /\ Offered' = Offered /\ NotGiven' = NotGiven
    BY <2>1 DEF Clear, Takers, In, Offered, NotGiven, Seeking, Setting
  <2>3. TypeOK' /\ TakeFindsPage' /\ PageGivenOnce' /\ ClearNotGiven'
    BY <2>1 DEF TypeOK, TakeFindsPage, In, PageGivenOnce, ClearNotGiven
  <2>4. EntryCountsBits'
    BY <2>1, <2>2 DEF EntryCountsBits
  <2>5. PagesPromised' /\ PagesLeft'
    BY <2>1, <2>2 DEF PagesPromised, PagesLeft, Rented
  <2>6. PassedEmpty'
    BY <2>1 DEF PassedEmpty, Passed
  <2> QED
    BY <2>3, <2>4, <2>5, <2>6
<1>2. ASSUME NEW t \in Threads, Call(t) \/ Continue(t) PROVE Inv'
  BY <1>2, CallInv, LoadFreePagesInv, ReservePageInv, RentInv, ReadPtInv, LoadEntryInv,
     TakeEntryInv, LoadRowInv, SetBitInv DEF Continue
<1> QED
  BY <1>1, <1>2 DEF Next

(***************************************************************************)
(* The theorems                                                            *)
(***************************************************************************)
\* With one table, the counters of the tables stay in range and agree with the
\* bitmaps between any two atomic operations.
THEOREM TablesAgree == Tables = 1 => (Spec => []TablesInv)
<1> SUFFICES ASSUME Tables = 1 PROVE Spec => []TablesInv
  OBVIOUS
<1>1. Inv => TablesInv
  BY DEF Inv
<1>2. Init => Inv
  BY InitInv
<1>3. Inv /\ [Next]_vars => Inv'
  BY NextInv
<1> QED
  BY <1>1, <1>2, <1>3, PTL DEF Spec

\* A call that lowered free_pages_ finds an entry and a clear bit: neither of
\* the two unchecked results of allocate_page is an error.
THEOREM PageIsFound == Tables = 1 => (Spec => []TakeFindsPage)
<1> SUFFICES ASSUME Tables = 1 PROVE Spec => []TakeFindsPage
  OBVIOUS
<1>1. Inv => TakeFindsPage
  BY DEF Inv
<1>2. Init => Inv
  BY InitInv
<1>3. Inv /\ [Next]_vars => Inv'
  BY NextInv
<1> QED
  BY <1>1, <1>2, <1>3, PTL DEF Spec

\* No two calls of allocate_page return the same page frame.
THEOREM PageIsOwned == Tables = 1 => (Spec => []PageGivenOnce)
<1> SUFFICES ASSUME Tables = 1 PROVE Spec => []PageGivenOnce
  OBVIOUS
<1>1. Inv => PageGivenOnce
  BY DEF Inv
<1>2. Init => Inv
  BY InitInv
<1>3. Inv /\ [Next]_vars => Inv'
  BY NextInv
<1> QED
  BY <1>1, <1>2, <1>3, PTL DEF Spec

\* allocate_page fails only when every page is returned or promised: the table
\* is rented, free_pages_ is 0, and what pt1 offers is promised to the calls
\* under way.
THEOREM OutOfMemoryIsReal == Tables = 1 => (Spec => OutOfMemoryMeansEmpty)
<1> SUFFICES ASSUME Tables = 1 PROVE Spec => OutOfMemoryMeansEmpty
  OBVIOUS
<1>1. Init => Inv
  BY InitInv
<1>2. Inv /\ [Next]_vars => Inv'
  BY NextInv
<1>3. ASSUME Inv, Next, NEW t \in Threads, At(t, "rent"), pc'[t] = "idle"
      PROVE  Unpromised = 0
  <2>1. Rent(t)
    <3>1. PICK u \in Threads : Call(u) \/ Continue(u)
      BY <1>3 DEF Next
    <3>2. \E l, m : Goto(u, l, m)  
      BY <3>1 DEF Call, Continue, LoadFreePages, ReservePage, Rent, RentNewPt0, Return, ReadPt1,
         ReadPt2, LoadEntry, TakeEntry, LoadRow, SetBit, ReturnPage
    <3>3. u = t
      BY <1>3, <3>2 DEF Goto, At, Inv, TablesInv, TypeOK
    <3> QED
      BY <1>3, <3>1, <3>3 DEF At, Call, Continue, LoadFreePages, ReservePage, ReadPt1, ReadPt2,
         LoadEntry, TakeEntry, LoadRow, SetBit
  <2>2. free_pages = 0 /\ Rented(0)
    <3>1. pc \in [Threads -> Locations]
      BY <1>3 DEF Inv, TablesInv, TypeOK
    <3> QED
      BY <1>3, <2>1, <3>1, OneTable DEF Rent, RentNewPt0, Goto, Unrented
  <2>3. In({"pt1", "pt2", "entry", "take", "row", "set"}) = In(Seeking) \cup In(Setting)
    BY DEF In, Seeking, Setting
  <2>4. In(Seeking) \cap In(Setting) = {}
    BY DEF In, Seeking, Setting
  <2>5. Cardinality(In({"pt1", "pt2", "entry", "take", "row", "set"}))
          = Cardinality(In(Seeking)) + Cardinality(In(Setting))
    <3>1. IsFiniteSet(In(Seeking)) /\ IsFiniteSet(In(Setting))
      BY CountsAreNat
    <3>2. Cardinality(In(Seeking) \cup In(Setting)) = Cardinality(In(Seeking))
            + Cardinality(In(Setting)) - Cardinality(In(Seeking) \cap In(Setting))
      BY <3>1, FS_Union
    <3>3. Cardinality(In(Seeking) \cap In(Setting)) = 0
      BY <2>4, FS_EmptySet
    <3>4. Cardinality(In(Seeking)) \in Nat /\ Cardinality(In(Setting)) \in Nat
      BY CountsAreNat
    <3>5. Cardinality(In(Seeking) \cup In(Setting))
            = Cardinality(In(Seeking)) + Cardinality(In(Setting))
      BY <3>2, <3>3, <3>4
    <3> QED
      BY <2>3, <3>5
  <2> QED
    BY <1>3, <2>2, <2>5, CountsAreNat DEF Inv, PagesPromised, PagesLeft, Unpromised
<1>4. Inv /\ [Next]_vars
        => [\A t \in Threads : At(t, "rent") /\ pc'[t] = "idle" => Unpromised = 0]_vars
  BY <1>3
<1> QED
  BY <1>1, <1>2, <1>4, PTL DEF Spec, OutOfMemoryMeansEmpty

=============================================================================
