---------------------------- MODULE FileServices ----------------------------
(***************************************************************************)
(* Opening, using and closing files: the directory of the devices          *)
(* (src/src/os/kernel/ob/directory.cpp), find_device and open_file         *)
(* (io_manager.cpp), the two object pools behind them, of files and of the *)
(* handles of the process (object_pool.h, handle_table.h), the reference   *)
(* counts, and the host file system driver (host_fs.cpp).                  *)
(*                                                                         *)
(* A path is the sequence of its components after the leading separator.   *)
(* A step is what a thread does under one lock, or one atomic update of a  *)
(* reference count.  The threads of the process share its handle table;    *)
(* a descriptor is the index of its handle.                                *)
(***************************************************************************)
EXTENDS Naturals, FiniteSets, SequencesExt

CONSTANTS Threads,
          Files,       \* entries of file_table_, a number
          Handles,     \* entries of the handle table, a number
          Devices,     \* names of devices, numbers in the order of the names
          Fs0,         \* "fs0", the name of the file system device
          Dev,         \* "dev", the directory of devices
          Paths,       \* the paths that programs open
          HostFiles    \* the paths that exist in the host directory

ASSUME FileServicesAssumption ==
    /\ IsFiniteSet(Threads) /\ Files \in Nat \ {0} /\ Handles \in Nat \ {0}
    /\ Devices \subseteq Nat /\ Fs0 \in Devices /\ Dev \notin Devices

VARIABLES
    items,     \* items_ of the directory of devices
    attached,  \* history: the devices attached
    booted,    \* the devices are installed and the threads run
    files,     \* free list of file_table_: [head, next]
    handles,   \* free list of the handle table: [head, next]
    refs,      \* per file: ref_count_
    device,    \* per file: device_, with the path opened at it
    object,    \* per handle: object_, which is also the used word of the entry
    host,      \* what is open in the host: handles of CreateFileA
    pc,        \* per thread: where it is in a call
    f,         \* per thread: the file the call refers to
    h,         \* per thread: the handle the call allocates or closes
    target     \* per thread: the result of find_device, until it is used

vars == <<items, attached, booted, files, handles, refs, device, object, host,
          pc, f, h, target>>

boot == <<items, attached, booted>>

FileIds == 1..Files
HandleIds == 1..Handles
Nil == 0    \* nullptr

NoDevice == <<Dev, <<>>>>

\* The free list of a segment of n elements, as its constructor links it.
Segment(n) == [head |-> 1, next |-> [i \in 1..n |-> IF i = n THEN Nil ELSE i + 1]]

Init ==
    /\ items = <<>> /\ attached = {} /\ booted = FALSE
    /\ files = Segment(Files) /\ handles = Segment(Handles)
    /\ refs = [x \in FileIds |-> 0]
    /\ device = [x \in FileIds |-> NoDevice]
    /\ object = [x \in HandleIds |-> Nil]
    /\ host = {}
    /\ pc = [t \in Threads |-> "idle"]
    /\ f = [t \in Threads |-> Nil] /\ h = [t \in Threads |-> Nil]
    /\ target = [t \in Threads |-> NoDevice]

(***************************************************************************)
(* object_segment_base                                                     *)
(***************************************************************************)
\* allocate takes the head; the entry keeps its next.
Pop(pool) == [pool EXCEPT !.head = pool.next[@]]

\* Fault: the entry keeps the next of its last allocation.
PushFault(pool, x) == [pool EXCEPT !.head = x]

\* free puts the entry in front.
Push(pool, x) == [head |-> x, next |-> [pool.next EXCEPT ![x] = pool.head]]

(***************************************************************************)
(* The directory of devices                                                *)
(***************************************************************************)
\* The scan of insert_or_lookup: the first item not below the name, or one
\* past the end.
Pivot(name) ==
    CHOOSE i \in 1..Len(items) + 1 :
        /\ i <= Len(items) => items[i] >= name
        /\ \A j \in 1..i - 1 : items[j] < name

Found(name) == Pivot(name) <= Len(items) /\ items[Pivot(name)] = name

\* Fault: the device is put behind the pivot.
AttachDeviceFault(d) ==
    /\ ~booted
    /\ IF Found(d) THEN UNCHANGED <<items, attached>>
       ELSE /\ items' = IF Pivot(d) > Len(items) THEN Append(items, d)
                        ELSE InsertAt(items, Pivot(d) + 1, d)
            /\ attached' = attached \cup {d}
    /\ UNCHANGED <<booted, files, handles, refs, device, object, host, pc, f, h, target>>

\* attach_device, at boot and in the order of the board's devices: insert,
\* which refuses a name that exists.
AttachDevice(d) ==
    /\ ~booted
    /\ IF Found(d) THEN UNCHANGED <<items, attached>>
       ELSE /\ items' = InsertAt(items, Pivot(d), d)
            /\ attached' = attached \cup {d}
    /\ UNCHANGED <<booted, files, handles, refs, device, object, host, pc, f, h, target>>

Start ==
    /\ ~booted /\ booted' = TRUE
    /\ UNCHANGED <<items, attached, files, handles, refs, device, object, host, pc, f, h, target>>

\* lookup_object_partial: the root directory holds Dev only.  A device is not a
\* directory: it is returned with what remains of the path.
LookupPartial(p) ==
    IF p = <<>> \/ p = <<Dev>> THEN [ok |-> TRUE, object |-> NoDevice]
    ELSE IF Len(p) > 1 /\ p[1] = Dev /\ p[2] \in Devices /\ Found(p[2])
    THEN [ok |-> TRUE, object |-> <<p[2], SubSeq(p, 3, Len(p))>>]
    ELSE [ok |-> FALSE, object |-> NoDevice]

\* find_device: what is not in the directory is searched in fs0.  A directory
\* is no device: bad_cast.
FindDevice(p) ==
    LET r == LookupPartial(p) IN
    IF r.ok THEN r.object ELSE IF Found(Fs0) THEN <<Fs0, p>> ELSE NoDevice

(***************************************************************************)
(* open                                                                    *)
(***************************************************************************)
At(t, l) == booted /\ pc[t] = l
Goto(t, l) == pc' = [pc EXCEPT ![t] = l]

\* find_device; on an error open returns.
Open(t, p) ==
    /\ At(t, "idle")
    /\ IF FindDevice(p) = NoDevice THEN UNCHANGED <<pc, target>>
       ELSE Goto(t, "file") /\ target' = [target EXCEPT ![t] = FindDevice(p)]
    /\ UNCHANGED <<boot, files, handles, refs, device, object, host, f, h>>

\* file_table_.allocate and prepare_to_open; without an entry open returns.
AllocFile(t) ==
    /\ At(t, "file")
    /\ IF files.head = Nil
       THEN /\ Goto(t, "idle") /\ target' = [target EXCEPT ![t] = NoDevice]
            /\ UNCHANGED <<files, refs, device, f>>
       ELSE /\ Goto(t, "open")
            /\ f' = [f EXCEPT ![t] = files.head]
            /\ refs' = [refs EXCEPT ![files.head] = 1]
            /\ device' = [device EXCEPT ![files.head] = target[t]]
            /\ files' = Pop(files)
            /\ UNCHANGED target
    /\ UNCHANGED <<boot, handles, object, host, h>>

\* fast_open: host_fs opens a host file nobody has open (no sharing), any
\* other device opens itself, without a path.
OpensAt(d) ==
    IF d[1] = Fs0 THEN d[2] \in HostFiles /\ d[2] \notin host ELSE d[2] = <<>>

\* open_file: after an error, failed_to_open, and the file is released.
FastOpen(t) ==
    /\ At(t, "open")
    /\ IF OpensAt(target[t])
       THEN /\ Goto(t, "handle")
            /\ host' = IF target[t][1] = Fs0 THEN host \cup {target[t][2]} ELSE host
            /\ UNCHANGED device
       ELSE /\ Goto(t, "release")
            /\ device' = [device EXCEPT ![f[t]] = NoDevice]
            /\ UNCHANGED host
    /\ target' = [target EXCEPT ![t] = NoDevice]
    /\ UNCHANGED <<boot, files, handles, refs, object, f, h>>

\* Fault: without a handle open returns and forgets the file.
AllocHandleFault(t) ==
    /\ At(t, "handle")
    /\ IF handles.head = Nil
       THEN Goto(t, "idle") /\ UNCHANGED <<handles, h>>
       ELSE /\ Goto(t, "store")
            /\ h' = [h EXCEPT ![t] = handles.head]
            /\ handles' = Pop(handles)
    /\ UNCHANGED <<boot, files, refs, device, object, host, f, target>>

\* alloc_handle; without an entry the file is released.
AllocHandle(t) ==
    /\ At(t, "handle")
    /\ IF handles.head = Nil
       THEN Goto(t, "release") /\ UNCHANGED <<handles, h>>
       ELSE /\ Goto(t, "store")
            /\ h' = [h EXCEPT ![t] = handles.head]
            /\ handles' = Pop(handles)
    /\ UNCHANGED <<boot, files, refs, device, object, host, f, target>>

\* The constructor of handle_entry; open then returns the descriptor and
\* releases its own reference.
StoreHandle(t) ==
    /\ At(t, "store") /\ Goto(t, "release")
    /\ object' = [object EXCEPT ![h[t]] = f[t]]
    /\ refs' = [refs EXCEPT ![f[t]] = @ + 1]
    /\ h' = [h EXCEPT ![t] = Nil]
    /\ UNCHANGED <<boot, files, handles, device, host, f, target>>

(***************************************************************************)
(* read, write and ioctl                                                   *)
(***************************************************************************)
\* A program uses and closes its descriptors in an order: no call is made with
\* a descriptor that another thread is allocating or closing, and no close
\* while another thread looks the descriptor up.  A descriptor that was closed
\* may be used again.
Undisturbed(i) == \A t \in Threads : h[t] # i

\* reference_handle: at refuses an entry whose used word is 0.
Use(t, i) ==
    /\ At(t, "idle") /\ Undisturbed(i)
    /\ IF object[i] = Nil THEN UNCHANGED <<pc, h>>
       ELSE Goto(t, "look") /\ h' = [h EXCEPT ![t] = i]
    /\ UNCHANGED <<boot, files, handles, refs, device, object, host, f, target>>

\* reference_object: an object_ptr to the file.
Reference(t) ==
    /\ At(t, "look") /\ Goto(t, "io")
    /\ f' = [f EXCEPT ![t] = object[h[t]]]
    /\ refs' = [refs EXCEPT ![object[h[t]]] = @ + 1]
    /\ h' = [h EXCEPT ![t] = Nil]
    /\ UNCHANGED <<boot, files, handles, device, object, host, target>>

\* read_file, write_file or control_file returns.
Transfer(t) ==
    /\ At(t, "io") /\ Goto(t, "release")
    /\ UNCHANGED <<boot, files, handles, refs, device, object, host, f, h, target>>

(***************************************************************************)
(* The end of a reference, and close                                       *)
(***************************************************************************)
\* dec_ref, by the destructor of an object_ptr.
Release(t) ==
    /\ At(t, "release")
    /\ refs' = [refs EXCEPT ![f[t]] = @ - 1]
    /\ Goto(t, IF refs[f[t]] = 1 THEN "destroy" ELSE "idle")
    /\ f' = IF refs[f[t]] = 1 THEN f ELSE [f EXCEPT ![t] = Nil]
    /\ UNCHANGED <<boot, files, handles, device, object, host, h, target>>

\* close_handle: free begins with at.
Close(t, i) ==
    /\ At(t, "idle") /\ Undisturbed(i)
    /\ IF object[i] = Nil THEN UNCHANGED <<pc, h>>
       ELSE Goto(t, "drop") /\ h' = [h EXCEPT ![t] = i]
    /\ UNCHANGED <<boot, files, handles, refs, device, object, host, f, target>>

\* The destructor of handle_entry: dec_ref of its object.
Drop(t) ==
    LET x == object[h[t]] IN
    /\ At(t, "drop") /\ Goto(t, IF refs[x] = 1 THEN "destroy" ELSE "free")
    /\ f' = IF refs[x] = 1 THEN [f EXCEPT ![t] = x] ELSE f
    /\ refs' = [refs EXCEPT ![x] = @ - 1]
    /\ UNCHANGED <<boot, files, handles, device, object, host, h, target>>

\* Fault: the destructor of the file does not close it at its device.
DestroyFault(t) ==
    /\ At(t, "destroy") /\ Goto(t, "push")
    /\ device' = [device EXCEPT ![f[t]] = NoDevice]
    /\ UNCHANGED <<boot, files, handles, refs, object, host, f, h, target>>

\* internal_release: the destructor of the file closes it at its device.
Destroy(t) ==
    LET d == device[f[t]] IN
    /\ At(t, "destroy") /\ Goto(t, "push")
    /\ host' = IF d[1] = Fs0 THEN host \ {d[2]} ELSE host
    /\ device' = [device EXCEPT ![f[t]] = NoDevice]
    /\ UNCHANGED <<boot, files, handles, refs, object, f, h, target>>

\* The entry of the file returns to file_table_; a close goes on.
PushFile(t) ==
    /\ At(t, "push") /\ Goto(t, IF h[t] = Nil THEN "idle" ELSE "free")
    /\ files' = Push(files, f[t])
    /\ f' = [f EXCEPT ![t] = Nil]
    /\ UNCHANGED <<boot, handles, refs, device, object, host, h, target>>

\* object_ is cleared and the entry of the handle returns to its table.
FreeHandle(t) ==
    /\ At(t, "free") /\ Goto(t, "idle")
    /\ object' = [object EXCEPT ![h[t]] = Nil]
    /\ handles' = Push(handles, h[t])
    /\ h' = [h EXCEPT ![t] = Nil]
    /\ UNCHANGED <<boot, files, refs, device, host, f, target>>

\* A step inside a call.
CallStep(t) ==
    \/ AllocFile(t) \/ FastOpen(t) \/ AllocHandle(t) \/ StoreHandle(t)
    \/ Reference(t) \/ Transfer(t) \/ Release(t)
    \/ Drop(t) \/ Destroy(t) \/ PushFile(t) \/ FreeHandle(t)

Next ==
    \/ \E d \in Devices : AttachDevice(d)
    \/ Start
    \/ \E t \in Threads :
        \/ CallStep(t)
        \/ \E p \in Paths : Open(t, p)
        \/ \E i \in HandleIds : Use(t, i) \/ Close(t, i)

Spec == Init /\ [][Next]_vars

\* A call that has begun is not abandoned: the scheduler runs every thread, and
\* the devices answer.
FairSpec == Spec /\ \A t \in Threads : WF_vars(CallStep(t))

(***************************************************************************)
(* Properties                                                              *)
(***************************************************************************)
FreeList(n) == [head : 0..n, next : [1..n -> 0..n]]

TypeOK ==
    /\ Range(items) \subseteq Devices /\ booted \in BOOLEAN
    /\ files \in FreeList(Files) /\ handles \in FreeList(Handles)
    /\ refs \in [FileIds -> 0..Handles + Cardinality(Threads)]
    /\ \A x \in FileIds : device[x][1] \in Devices \cup {Dev}
    /\ object \in [HandleIds -> 0..Files]
    /\ host \subseteq HostFiles
    /\ pc \in [Threads -> {"idle", "file", "open", "handle", "store", "look",
                           "io", "release", "drop", "destroy", "push", "free"}]
    /\ f \in [Threads -> 0..Files] /\ h \in [Threads -> 0..Handles]

\* The entry of a free list k steps behind the head.
Walk(pool, n) ==
    LET w[k \in 0..n] ==
            IF k = 0 THEN pool.head
            ELSE IF w[k - 1] = Nil THEN Nil ELSE pool.next[w[k - 1]]
    IN w

Free(pool, n) == {Walk(pool, n)[k] : k \in 0..n} \ {Nil}

\* The handles that a thread allocates or closes.
Busy(i) == \E t \in Threads : h[t] = i /\ pc[t] # "look"

\* Both free lists end, and they hold exactly the entries nobody uses: an entry
\* is never lost, in the list twice, or free and in use.  The dtor of free runs
\* outside the lock of the pool.
PoolsPartition ==
    /\ Walk(files, Files)[Files] = Nil /\ Walk(handles, Handles)[Handles] = Nil
    /\ \A x \in FileIds :
           (x \in Free(files, Files))
           <=> (refs[x] = 0 /\ \A t \in Threads : f[t] # x)
    /\ \A i \in HandleIds :
           (i \in Free(handles, Handles)) <=> (object[i] = Nil /\ ~Busy(i))

\* What refers to file x: handles, except one whose reference a close has
\* dropped, and the object_ptr of a call.
Handled(x) ==
    {i \in HandleIds : object[i] = x
        /\ ~\E t \in Threads : h[t] = i /\ pc[t] \in {"destroy", "push", "free"}}

Holders(x) ==
    {t \in Threads : f[t] = x /\ pc[t] \in {"open", "handle", "store", "io", "release"}}

\* The reference count of a file is the number of its handles and of the calls
\* that use it, on every path through open, use, close and their errors.
RefsMatch ==
    \A x \in FileIds : refs[x] = Cardinality(Handled(x)) + Cardinality(Holders(x))

\* The bookkeeping of the pools and of the references into them.
FilesInv == TypeOK /\ PoolsPartition /\ RefsMatch

\* A file that can be used is open at its device, and what is open in the host
\* belongs to exactly one such file: no path closes a file in use, closes it
\* twice or leaves it open.
HostMatches ==
    /\ \A x \in FileIds :
           Handled(x) # {} \/ (\E t \in Holders(x) : pc[t] \in {"handle", "store", "io"})
           => device[x] # NoDevice /\ (device[x][1] = Fs0 => device[x][2] \in host)
    /\ \A p \in host :
           Cardinality({x \in FileIds : device[x] = <<Fs0, p>>
               /\ ~\E t \in Threads : f[t] = x /\ pc[t] = "open"}) = 1

\* Every device attached is found under its name, whatever the order in which
\* the devices were attached: the scan stops at the first larger name.
AttachedFound == \A d \in attached : LookupPartial(<<Dev, d>>).object = <<d, <<>>>>

\* A file that no handle refers to is freed, unless a handle is stored for it:
\* an open that fails and the last close give the entry back.
FilesReturn ==
    \A x \in FileIds :
        (Handled(x) = {}) ~> (Handled(x) # {} \/ x \in Free(files, Files))

=============================================================================
