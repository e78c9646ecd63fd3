------------------------- MODULE PhysicalAllocator -------------------------
(***************************************************************************)
(* The page frame allocator of Chino OS (src/src/os/kernel/mm/physical):   *)
(* threads of the one CPU call allocate_page and may be preempted between  *)
(* any two accesses to shared memory.                                      *)
(*                                                                         *)
(* The CPU rents a level-0 table at a time and counts its free pages in    *)
(* free_pages_.  A call first lowers that counter, then finds a level-1    *)
(* entry with free pages and lowers its counter, then sets the first clear *)
(* bit of the entry's level-2 table.  Each of the three is a retry loop    *)
(* around one atomic operation.  The renting of a table runs with the      *)
(* scheduler locked and is one step.  The chip has one memory segment, and *)
(* its size is a whole number of level-0 tables (64 MiB, one table, in     *)
(* the emulator).  Pages are never freed: the code has no such operation.  *)
(***************************************************************************)
EXTENDS Integers, FiniteSets, FiniteSetsExt

CONSTANTS Threads,
          Tables,     \* pt01_count()
          Entries,    \* page_table_1::max_entries
          Rows,       \* page_table_2::atomics_count
          Digits      \* page_table_2::row_digits

ASSUME AllocatorAssumption ==
    /\ IsFiniteSet(Threads)
    /\ Tables \in Nat \ {0} /\ Entries \in Nat \ {0}
    /\ Rows \in Nat \ {0} /\ Digits \in Nat \ {0}
    /\ 2 * Entries * Rows * Digits < 2 ^ 16

TableIds == 0 .. Tables - 1
EntryIds == 0 .. Entries - 1
RowIds   == 0 .. Rows - 1
BitIds   == 0 .. Digits - 1

EntryPages == Rows * Digits              \* page_table_1_entry::max_pages
TablePages == Entries * EntryPages       \* page_table_0::max_pages
Pages      == 0 .. Tables * TablePages - 1

VARIABLES
    free_pages,  \* free_pages_ of the CPU
    pt01_index,  \* pt01_index_ of the CPU
    pt0,         \* per table: value_, twice the free pages, or 1 when rented
    pt1,         \* per table and entry: value_, twice the free pages
    pt2,         \* per table, entry and row: the bits that are set
    pc,
    my,          \* per thread: its local variables
    given        \* per page frame: how often its address was returned

counters == <<free_pages, pt01_index, pt0>>
vars     == <<counters, pt1, pt2, pc, my, given>>

\* The locals of a call: the value a compare-exchange expects, the tables
\* whose pt1 and pt2 it takes from, pt1_index, row_index, first_zero_index.
NoLocals == [seen |-> 0, table |-> 0, bucket |-> 0, entry |-> 0, row |-> 0, bit |-> 0]

Init ==
    /\ free_pages = 0
    /\ pt01_index = 0
    /\ pt0 = [i \in TableIds |-> 2 * TablePages]
    /\ pt1 = [i \in TableIds |-> [e \in EntryIds |-> 2 * EntryPages]]
    /\ pt2 = [i \in TableIds |-> [e \in EntryIds |-> [r \in RowIds |-> {}]]]
    /\ pc = [t \in Threads |-> "idle"]
    /\ my = [t \in Threads |-> NoLocals]
    /\ given = [p \in Pages |-> 0]

At(t, l) == pc[t] = l

\* Thread t goes on at l with the locals m; Return ends their lifetime.
Goto(t, l, m) ==
    /\ pc' = [pc EXCEPT ![t] = l]
    /\ my' = [my EXCEPT ![t] = m]

Return(t) == Goto(t, "idle", NoLocals)

(***************************************************************************)
(* cpu_physical_allocator::allocate_page                                   *)
(***************************************************************************)
Call(t) ==
    /\ At(t, "idle") /\ Goto(t, "load", NoLocals)
    /\ UNCHANGED <<counters, pt1, pt2, given>>

LoadFreePages(t) ==
    /\ At(t, "load")
    /\ Goto(t, IF free_pages > 0 THEN "reserve" ELSE "rent", [my[t] EXCEPT !.seen = free_pages])
    /\ UNCHANGED <<counters, pt1, pt2, given>>

\* Fault: the counter is stored, not compared.
ReservePageFault(t) ==
    /\ At(t, "reserve") /\ free_pages' = my[t].seen - 1 /\ Goto(t, "pt1", NoLocals)
    /\ UNCHANGED <<pt01_index, pt0, pt1, pt2, given>>

\* compare_exchange_strong(free_pages, free_pages - 1).
ReservePage(t) ==
    /\ At(t, "reserve")
    /\ IF free_pages = my[t].seen
       THEN free_pages' = free_pages - 1 /\ Goto(t, "pt1", NoLocals)
       ELSE Goto(t, "load", NoLocals) /\ UNCHANGED free_pages
    /\ UNCHANGED <<pt01_index, pt0, pt1, pt2, given>>

\* The rent bit of page_table_0.
Rented(i) == pt0[i] % 2 = 1

Unrented == {i \in TableIds : ~ Rented(i)}

\* rent_new_pt0: the first table not yet rented becomes the current one, and
\* its rent bit replaces its count.  The call fails when no table is left.
RentNewPt0(t) ==
    IF Unrented = {}
    THEN Return(t) /\ UNCHANGED counters
    ELSE LET i == Min(Unrented)
         IN  /\ pt0' = [pt0 EXCEPT ![i] = 1]
             /\ pt01_index' = i
             /\ free_pages' = pt0[i] \div 2
             /\ Goto(t, "load", NoLocals)

\* Fault: a table is rented without a second look at the counter.
RentFault(t) ==
    /\ At(t, "rent") /\ RentNewPt0(t)
    /\ UNCHANGED <<pt1, pt2, given>>

\* The branch under current_schedule_lock.
Rent(t) ==
    /\ At(t, "rent")
    /\ IF free_pages = 0
       THEN RentNewPt0(t)
       ELSE Goto(t, "load", NoLocals) /\ UNCHANGED counters
    /\ UNCHANGED <<pt1, pt2, given>>

\* pt1(pt01_index_): the object expression, evaluated first.
ReadPt1(t) ==
    /\ At(t, "pt1") /\ Goto(t, "pt2", [my[t] EXCEPT !.table = pt01_index])
    /\ UNCHANGED <<counters, pt1, pt2, given>>

\* pt2_bucket_base(pt01_index_): the argument, which reads the index again.
ReadPt2(t) ==
    /\ At(t, "pt2") /\ Goto(t, "entry", [my[t] EXCEPT !.bucket = pt01_index])
    /\ UNCHANGED <<counters, pt1, pt2, given>>

(***************************************************************************)
(* page_table_1::take and page_table_1_entry::take.  "none" and "full":    *)
(* the unwrap of an error, from page_table_1::take and from                *)
(* set_first_untaken; its value is indeterminate.                          *)
(***************************************************************************)
LoadEntry(t) ==
    LET m     == my[t]
        value == pt1[m.table][m.entry]
    IN  /\ At(t, "entry")
        /\ IF value # 0 /\ value % 2 = 0
           THEN Goto(t, "take", [m EXCEPT !.seen = value])
           ELSE IF m.entry + 1 < Entries
                THEN Goto(t, "entry", [m EXCEPT !.entry = @ + 1])
                ELSE Goto(t, "none", m)
        /\ UNCHANGED <<counters, pt1, pt2, given>>

\* Fault: the entry's counter is stored, not compared.
TakeEntryFault(t) ==
    /\ At(t, "take")
    /\ pt1' = [pt1 EXCEPT ![my[t].table][my[t].entry] = my[t].seen - 2]
    /\ Goto(t, "row", [my[t] EXCEPT !.seen = 0])
    /\ UNCHANGED <<counters, pt2, given>>

TakeEntry(t) ==
    LET m == my[t]
    IN  /\ At(t, "take")
        /\ IF pt1[m.table][m.entry] = m.seen
           THEN /\ pt1' = [pt1 EXCEPT ![m.table][m.entry] = @ - 2]
                /\ Goto(t, "row", [m EXCEPT !.seen = 0])
           ELSE Goto(t, "entry", [m EXCEPT !.seen = 0]) /\ UNCHANGED pt1
        /\ UNCHANGED <<counters, pt2, given>>

(***************************************************************************)
(* page_table_2::set_first_untaken                                         *)
(***************************************************************************)
LoadRow(t) ==
    LET m     == my[t]
        clear == BitIds \ pt2[m.bucket][m.entry][m.row]
    IN  /\ At(t, "row")
        /\ IF clear # {}
           THEN Goto(t, "set", [m EXCEPT !.bit = Min(clear)])
           ELSE IF m.row + 1 < Rows
                THEN Goto(t, "row", [m EXCEPT !.row = @ + 1])
                ELSE Goto(t, "full", m)
        /\ UNCHANGED <<counters, pt1, pt2, given>>

\* The frame number allocate_page turns into an address: it counts from the
\* start of the table, wherever the table is in the segment.
Pfn(m) == m.entry * EntryPages + m.row * Digits + m.bit

WasClear(m) == m.bit \notin pt2[m.bucket][m.entry][m.row]

FetchOr(m) == pt2' = [pt2 EXCEPT ![m.bucket][m.entry][m.row] = @ \cup {m.bit}]

ReturnPage(t) == given' = [given EXCEPT ![Pfn(my[t])] = @ + 1] /\ Return(t)

\* Fault: the old value of the row is not looked at.
SetBitFault(t) ==
    /\ At(t, "set") /\ FetchOr(my[t]) /\ ReturnPage(t)
    /\ UNCHANGED <<counters, pt1>>

\* Fault: after a lost race the same bit is tried again.
SetBitRetryFault(t) ==
    /\ At(t, "set") /\ FetchOr(my[t])
    /\ IF WasClear(my[t]) THEN ReturnPage(t) ELSE UNCHANGED <<pc, my, given>>
    /\ UNCHANGED <<counters, pt1>>

\* The page is ours if the bit was clear, else the row is read again.
SetBit(t) ==
    /\ At(t, "set") /\ FetchOr(my[t])
    /\ IF WasClear(my[t])
       THEN ReturnPage(t)
       ELSE Goto(t, "row", [my[t] EXCEPT !.bit = 0]) /\ UNCHANGED given
    /\ UNCHANGED <<counters, pt1>>

(***************************************************************************)
(* Specification.  A thread that has begun a call keeps being scheduled.   *)
(***************************************************************************)
Continue(t) ==
    \/ LoadFreePages(t) \/ ReservePage(t) \/ Rent(t) \/ ReadPt1(t) \/ ReadPt2(t)
    \/ LoadEntry(t) \/ TakeEntry(t) \/ LoadRow(t) \/ SetBit(t)

Next == \E t \in Threads : Call(t) \/ Continue(t)

Spec == Init /\ [][Next]_vars

FairSpec == Spec /\ \A t \in Threads : WF_vars(Continue(t))

(***************************************************************************)
(* Properties                                                              *)
(***************************************************************************)
Locations == {"idle", "load", "reserve", "rent", "pt1", "pt2", "entry", "take",
              "row", "set", "none", "full"}

Locals == [seen : 0 .. 2 * TablePages, table : TableIds, bucket : TableIds,
           entry : EntryIds, row : RowIds, bit : BitIds]

\* Type invariant: the counters never leave the range of their tables
\* (free_pages_ and value_ are unsigned: below 0 they would wrap around).
TypeOK ==
    /\ free_pages \in 0 .. TablePages /\ pt01_index \in TableIds
    /\ pt0 \in [TableIds -> {1, 2 * TablePages}]
    /\ pt1 \in [TableIds -> [EntryIds -> {2 * n : n \in 0 .. EntryPages}]]
    /\ pt2 \in [TableIds -> [EntryIds -> [RowIds -> SUBSET BitIds]]]
    /\ pc \in [Threads -> Locations]
    /\ my \in [Threads -> Locals]
    /\ given \in [Pages -> Nat]

In(ls) == {t \in Threads : pc[t] \in ls}

\* The pages of an entry that are clear in its level-2 table.
Clear(i, e) == {x \in RowIds \X BitIds : x[2] \notin pt2[i][e][x[1]]}

\* The threads that have lowered the entry's counter and not set their bit.
Takers(i, e) == {t \in In({"row", "set"}) : my[t].table = i /\ my[t].entry = e}

\* The pages of an entry that are clear in the bitmap are those its counter
\* still offers and those of the threads between lowering the counter
\* (page_table_1_entry::take) and setting their bit (set_first_untaken).
EntryCountsBits ==
    \A i \in TableIds, e \in EntryIds :
        Cardinality(Clear(i, e)) = pt1[i][e] \div 2 + Cardinality(Takers(i, e))

\* The bookkeeping of the tables: free_pages_ and the counters stay in range,
\* and the counters agree with the bitmaps between any two atomic operations.
TablesInv == TypeOK /\ EntryCountsBits

\* A thread that lowered free_pages_ finds an entry with a free page, and in
\* its bitmap a clear bit, whatever others take between its steps.  (Both
\* results are unwrapped unchecked.)
TakeFindsPage == In({"none", "full"}) = {}

\* No two calls of allocate_page return the same page frame.
PageGivenOnce == \A p \in Pages : given[p] <= 1

NotGiven == {p \in Pages : given[p] = 0}

\* The pages not returned, less those of the calls that lowered free_pages_.
Unpromised ==
    Cardinality(NotGiven) - Cardinality(In({"pt1", "pt2", "entry", "take", "row", "set"}))

\* allocate_page reports out_of_memory only when every page has been returned
\* or is promised to a call in progress.
OutOfMemoryMeansEmpty ==
    [][\A t \in Threads : At(t, "rent") /\ pc'[t] = "idle" => Unpromised = 0]_vars

\* Every call of allocate_page returns, although three of its loops retry
\* when another thread is faster.
AllocationEnds == \A t \in Threads : At(t, "load") ~> At(t, "idle")

=============================================================================
