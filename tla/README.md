# TLA+ models of Chino OS

Chino OS is a small operating system kernel in C++ with a Win32 emulator as its
only complete target. This directory models its concurrent core: the thread
scheduler, the intrusive lists it is made of, the synchronizers built on it,
the path of an I/O request from a program through the I/O worker to the host
console and back, the lock-free page frame allocator, the emulated CPU that
switches between host threads, the file services with their pools of files and
handles and the directory of devices, and the driver of the host's serial port.
The modules are translated from the source; `PROJECT.json` names the lines each
definition stands for.

## 1. Inventory

| Component | State | Operations | Interaction | Hard part | What makes it correct | Model |
|---|---|---|---|---|---|---|
| Scheduler (`kernel/ps/sched`, `ps/task/thread.cpp`) | ready list per priority, blocked list, delayed list, `max_ready_priority_`, `lock_depth_`, current thread, thread status | attach, detach, block, unblock, delay, tick, switch, lock | called by threads with interrupts disabled and by interrupt handlers; wakes the threads the other components put to sleep | interrupts between any two steps, a thread that is queued but still running, exit | lists agree with statuses, no lost wake-up, highest priority runs, sleepers wake | `Scheduler` |
| Intrusive list (`chino/intrusive_list.h`) | `prev_`, `next_` of nodes and of the dummy head, `size_` | push, insert, remove, iterate | one node of an object is shared by several lists in turn | wrong list or double insertion | rings, truthful `in_list`, behaves as a sequence | `IntrusiveList` implements `ListSpec` |
| Synchronizers (`chino/os/processapi.h`) | value and waiter count of mutex, event, auto-reset event, semaphore | lock/unlock, wait/notify/reset, take/give | `atomic_wait` and `atomic_notify` of the scheduler | lock-free fast paths, barging, timeouts | mutual exclusion, counts exact, no stuck waiter | `Synchronizers` |
| I/O manager and requests (`kernel/io`) | per device `irps_` and `pending_irps_`, work list and its event, frames, references, file events, completion queue | dispatch, queue, process, move to the next frame, complete, wait, requeue | programs, the I/O worker thread, interrupt handlers | completion before the wait, interrupts between registration and queueing, sharing of a file | a request is in one place, references balance, work is not forgotten, results come once | `IoRequests` |
| Stream stdio, host console (`drivers`) | console records, wait registration | fast read, process, interrupt handler | Win32 wait callback posts an interrupt | one-shot wait, stale interrupt | requests are served | `IoRequests` |
| Emulator CPU (`hal/archs/emulator`) | interrupt enable word, current host thread, suspend counts, saved interrupt state per thread, message queue | lock and restore interrupts, yield, take and process an interrupt, start and end of a thread | suspends and resumes host threads; asks the scheduler which thread is next | the new thread runs before the old one has suspended itself; the interrupt thread runs in between | one thread at a time outside a yield, whole sections, interrupts not left disabled | `EmulatorCpu` |
| Physical page allocator (`kernel/mm/physical`) | level-0 to level-2 tables (rent bits, counters, bitmaps), the CPU's current table and free count | allocate, rent | lock-free between threads of a CPU; renting locks the scheduler | reservation and taking are separate steps | a page is given out once, a reserved page is found | `PhysicalAllocator` |
| Object pool, handle table (`object_pool.h`, `ob.h`, `handle_table`) | free list and used word per entry, reference counts | allocate, free, at, add and drop a reference | file services; the I/O manager's requests | the destructor runs outside the lock; open, use and close of one file overlap | an entry is free or used, counts match the holders | `FileServices` |
| Directory (`kernel/ob`) | sorted list of named objects | insert, lookup | devices attached in any order, path lookup | the scan stops at the first larger name | attached devices are found | `FileServices` |
| File services, host file system (`kernel/io`, `drivers`) | files, handles, open host files | open, use, close | pools, directory, device drivers | each step of open may fail after others have succeeded | no host file left open or closed in use | `FileServices` |
| Host serial (`drivers/serial/host_serial`) | one overlapped result per direction, line settings | process, completion, interrupt, control | I/O worker, Win32 completion | a result that the next request finds; completion before the request is kept; settings made of two host calls | a request gets its own result, settings survive the conversion | `HostSerial` |
| errno, loaders, other drivers, generators, vendored code | little or none | | | | | not modelled, reasons in `PROJECT.json` |

`PROJECT.json` lists under "hazards" what in this code is hard to test, each at
its line and with the property that watches it.

## 2. Plan

Done: `Scheduler`, `IntrusiveList` and its refinement, `Synchronizers`,
`IoRequests`, `PhysicalAllocator`, `EmulatorCpu`, `FileServices` and `HostSerial`,
each with its proofs.

Next, in this order:

1. `Scheduler` composed with `Synchronizers` for priorities contending for a
   lock, and with `EmulatorCpu` for the thread an interrupt selects.
2. Operations still missing: writes and `wait_irp` in `IoRequests`, two tables in
   `PhysicalAllocator` (see Known limits), the boot page list.

## 3. Modules

`Lists` has the sequence operators that stand for list operations;
`CommonTheorems` proves what they do to the elements of a list, how the number of
threads at a place changes when one moves, and that the searches find an
extreme element: the facts several proofs use.

**Scheduler.** One CPU. What runs under a `current_irq_lock`, and every
interrupt handler, is one action; the two loops under the lock whose length is
not bounded (`unblock_local_threads`, `wakeup_delayed_threads`) take an action
per iteration, with `loop` keeping everything else out. `pc[t]` is the place of
a thread in its own code: `block` after the first read of `atomic_wait`, `yield`
between queueing and `yield()`, `check` in the loop after it, `notify` between
the store and the notification, `locked` inside a schedule lock, `exit` between
`detach_thread` and the last yield. `req[t]` keeps the arguments of the call.
`irqs` is the host's message queue: a notification that makes a thread ready
posts a yield, handled later. Time is `now`; the tick timer is one-shot and
re-armed by each tick. `bugcheck` stands for a failed `kassert(next_thread)`.

**IntrusiveList** has one variable per pointer field and the size; the action
guards are the callers' obligations (a node is in no list when it is inserted, in
this list when it is removed). `ListSpec` says what a list promises:
sequences without repetition; the mapping walks `next_` from the head.

**Synchronizers.** The four classes share their shape, so `kind` selects the
value waited for, taken and released. A thread with a timeout is in the delayed
list, where notifications do not look, exactly as in the scheduler. Threads
interleave at every atomic access.

**PhysicalAllocator.** `free_pages`, `pt0`, `pt1` and `pt2` are the atomics of the
code, `my[t]` the locals of a call, `pc[t]` the next shared access: `load` and
`reserve` for `free_pages_`, `pt1` and `pt2` for the two reads of `pt01_index_`,
`entry` and `take` for a level-1 counter, `row` and `set` for a bitmap row. `rent` is
the section under `current_schedule_lock`, one action because no other thread of
the CPU runs in it. `none` (no entry with a page) and `full` (no clear bit) are error
results that the code unwraps unchecked.
Sizes are constants; a page counter keeps the factor 2 of its flag bit.

**IoRequests.** Programs call `read`, asynchronous `read` and `control` on the
stream device. The worker has the highest priority: while `on_cpu` no program
runs. A section under an `irq_spin_lock` is one action, as is a handler.
`frame` is 1 at the stream device, 2 at the console, 0 when completed. A program
counts the console records and reads them in separate actions, because the worker
may preempt it in between; the worker does both in one, because nobody preempts
it but interrupts, which do not read. `EnterWait` evaluates `frames_[0].file()`:
the worker may have completed the request and destroyed the frame, and then the
program stops the machine or goes on, depending on what the build left in the dead
pointer. The Win32 wait callback fires once per registration and posts an
interrupt.

**EmulatorCpu.** `susp[t]` is the host's suspend count of a thread; a thread takes
steps while it is 0. `pc[t]` follows it through a section with interrupts disabled
and through `yield`: `restore` after the new thread is stored as current, `resume`
before `ResumeThread` of the new one, `suspend` before its own suspension. `apic`
is the thread that waits for messages: it suspends the current thread, runs the
handler, which may select another, and resumes that one. The thread a switch
selects is any live one; which it is, is `Scheduler`'s. A handler that makes no switch
leaves the current thread, also one that has exited and is on its way to its last yield. `lost` records that a
`ResumeThread` met a thread that was not suspended, which the host ignores.

**FileServices.** `files` and `handles` are the two pools with their free lists,
`refs` and `device` the fields of a file, `object` the file a handle refers to.
`pc[t]` is the place in `open`, `close` or a transfer between two locked sections;
the entry, the object and the path a call works with are `f`, `h` and `target`.
Devices are attached first, in any order; what `attach_device` does after the insertion
with the standard input and with socket and BLE devices is left out. Opening a host file excludes
others (it is opened without sharing), so the second open of it fails and unwinds.
Callers obey `Undisturbed`: no call with a descriptor that another thread is
just allocating or closing, and no close while another thread looks it up; a
close during a transfer is allowed.

**HostSerial.** The I/O worker takes a request, starts a transfer or takes the
result that lies in `overlapped` of its direction, and then keeps the request
pending; the completion of the host and the interrupt it posts come at any time.
`overlapped[d].of` remembers whose transfer produced the result, `answer[r]` whose
result a request was given. `shared` records that two requests of a direction were
outstanding at once. `TCSETS` and `TCGETS` convert through the fields of the
host's records with their widths. Each host call is in an interrupt lock of its own, so
each is an action: `code[c]` is the control call a caller is in and `kept[c]` what it keeps
between the calls, its termios (after `SetCommState`) or the DCB it has read. The
`GetCommState` of `TCSETS` is part of the `SetCommState` step: that one writes every
field that is modelled. `overtaken` records the callers in whose call another's `TCSETS`
changed the port, `set_term` the termios of the last `TCSETS` that was not overtaken, while
both halves of it are in the port. The specification of this module is `SerialSpec`
(`SerialInit`, `SerialNext`), so that its proofs can stand in one module with those of
`FileServices`.

## 4. Runs

| Run | Question | Bounds |
|---|---|---|
| `schedulerWaits` | lists against statuses and code positions, lost wake-ups, choice of the highest priority, exits | idle thread, worker and two programs, one address, two values, two queued interrupts |
| `schedulerLive` | no sleep ends early; every delayed thread becomes ready; no ready thread of the highest priority waits for ever behind a running one | idle thread and two threads of one priority, timeouts 1 and 2, clock to 2, no device interrupt, fair |
| `schedulerExit` (violation) | `kassert(next_thread)` | |
| `intrusiveList` | structure, in_list, refinement of sequences | two lists sharing four nodes |
| `synchronizers` | exclusion, waiter counts, stuck waiters, the mutex acquired again | each of the four classes, four threads, one with a timeout, up to two units, fair |
| `allocator` | counters against bitmaps, a reserved page is found, no page twice, `out_of_memory` only when empty, calls return | three threads, one table (as in the emulator) of two entries of two rows of two bits, fair |
| `ioShared` | one place per request, no forgotten work, references, single delivery | two programs on the shared standard input, two requests, one console record |
| `ioLive` | a wait ends with its own request completed; requests are served | one program, one request at a time, two console records, fair |
| `ioRace` (violation) | `kassert(irp)` of `requeue_pending_io` | one program, one read |
| `emulatorCpu` | suspend counts, one thread at a time, whole sections, where a resume is lost; interrupts and the current thread are served until then | three host threads, two posted interrupts, fair |
| `fileServices` | pools, references, host files, devices found, files given back | two threads, two files, two handles, three devices with the file system between the others, one host file, five paths, fair |
| `hostSerial` | one place and one interrupt per request, own results, the assertion, settings, requests answered | two reads and a write, two callers, four settings; beside a control call or a mixed setting only one read; fair |

Two programs, or two threads beside the worker, are enough for every pairwise
race the properties speak of: one thread about to sleep and one about to wake it,
one caller and one newcomer. The third and fourth thread of the synchronizer run
give a second sleeper and a barging thread. Two queued interrupts allow a stale
yield behind a fresh one; two entries, rows and bits make every loop of the
allocator advance and lose a race, and its eight pages run out; two console records let a non-key hide a key.
Three host threads give a yield from a first to a second and an interrupt that selects
the first or a third. Two files and two handles let either pool run out first and one
thread close what the other uses. Two reads share an overlapped result and the write has its own.
Requests and settings share no variable, and a control call needs of the requests only that
the worker sleeps; so `ControlBeside` lets control calls begin only while no request but
one read has been made, instead of multiplying the two. It holds back steps that
programs choose to take and none that fairness speaks of.
The models whose machine can stop for good (a bugcheck, or all programs exited)
switch the deadlock check off; the others keep it.

**Findings.** The two violation runs show disagreements between the code and what the
code itself asserts: the exit of the only thread of the highest ready
priority fails `kassert(next_thread)`; a console interrupt
between the registration of the wait and the queueing of the request fails
`kassert(irp)`. The serial driver has the second one too (`HaltsOnlyEarly`, a part of
`SerialInv`, says that it fails in no other way).

**Known limits.** Behaviours met while modelling that the properties are stated
around:

- `add_to_delay_list` does not compare with the first thread of the list, so the
  list is not ordered as the comment at `scheduler.cpp:248` says and a sleeper may
  wake a later tick than it could; `DelayedWakes` holds all the same.
- A thread that an interrupt makes ready between its queueing and its own yield is
  current with status "ready". `select_next_thread` then does not go past it, and its
  peers of the priority may starve; `RoundRobinServes` speaks of a running thread.
- With two tables in a segment the allocator reads `pt01_index_` twice, so a call may
  take from another table than the one it reserved in, and frame numbers of
  the second table repeat those of the first. The emulator has one table.
- `page_table_2.h:38` tells the compiler that the first free bit is not bit 0, which
  the first page of a fresh row contradicts.
- A switch, by an interrupt or by the yield of another thread, that selects a thread
  still in the tail of its own yield resumes a running thread; the host ignores it, the thread then suspends itself as the
  current one, and the machine stands still (`LostOnlyInTail`).
- Two outstanding reads of the serial port may be given each other's results, and
  the data of one is lost; the flow control flags do not fit the host's bit fields
  and are lost (`ControlRoundTrip` lists what is).
- `TCSETS` is not atomic: of two that overlap, the port may keep the DCB of one and the
  timeouts of the other, and one whose `SetCommTimeouts` fails leaves its DCB set. A
  `TCGETS` that overlaps a `TCSETS` may answer half of each. `ControlRoundTrip` speaks
  of calls that are not overtaken.
- Overlapping closes of one descriptor, or a close that overlaps its lookup, can
  free an entry twice; `Undisturbed` excludes them.

**Fairness.** `Scheduler`: loops under the lock end (weak), the timer fires
(weak), the host delivers posted messages and the clock goes on, both disabled
only while a loop runs with interrupts disabled (strong), and the CPU executes
kernel code of the current thread (strong, since interrupts take the CPU away and
give it back). Nothing is assumed of a program's own decisions.
`Synchronizers`: ticks share the CPU between threads of a priority, which
`RoundRobinServes` checks without device interrupts (Known limits has the case where
the sharing fails); a holder unlocks.
`EmulatorCpu`: the steps of the kernel's own code and of the interrupt thread are taken
(weak); the interrupt thread, which competes with sections that disable
interrupts again and again, gets its turn (strong: it retries the word in a loop).
`FileServices`: a thread inside a call goes on (weak); nothing makes a thread call.
`HostSerial`: the worker runs, transfers of the host complete and interrupts are
delivered (weak).
`PhysicalAllocator`: a thread inside `allocate_page` keeps being scheduled (weak);
nothing makes a thread call it.
`IoRequests`: the worker runs when it can, the host calls back and delivers
interrupts (weak); the user types a key again and again (strong: the record buffer
may be full of other records at times).

## 5. Proofs

Every safety property of section 4 except those of the two violation runs is a
theorem, for every value of the constants that the module's assumption allows. Each proof module states an inductive
invariant, proves it with one lemma per action or group of actions, and derives
the properties from it. `PROJECT.json` lists the theorems.

**Assumptions.** The `ASSUME` of each module and nothing more, unless a theorem
has a hypothesis of its own (two do, below). `SchedulerAssumption`: the idle thread
has the lowest priority and is not the worker, neither exits, null is no thread and
no address. `IntrusiveListAssumption`: nodes, heads and null are different.
`SynchronizersAssumption`, `CpuAssumption`, `AllocatorAssumption`, `SerialAssumption`
and `IoAssumption`: types, and that the threads or requests that are counted are
finitely many; the page counters of a table fit their 16 bits. `FileServicesAssumption`:
finitely many threads, at least one file and one handle, names of devices ordered as
numbers, `fs0` among them, and the directory of devices not one of them.

**SchedulerProofs.** The base is `Spec => []SchedInv`, where
`SchedInv == TypeOK /\ ListsMatchStatus /\ PcMatchesStatus`. The conjuncts are
inductive only together: removing a thread from the list its status names needs
that it is there; that needs to know which statuses are possible at each point of
the code, for example that a thread about to block is still in a ready list although
an interrupt may have switched away from it. On it rest

- `SearchIsComplete` (`SearchMissesNone`): until a thread exits, nothing is ready
  above `max_ready_priority_` (`Covers`), and the search finds a thread. The idle
  thread in list 0 is why it never comes back empty. `HighestIsChosen` and
  `ExitedStayOff`, the action properties of a switch, follow from what the search
  returns.
- `WakeupsKept` (`NoLostWakeup`): `Waits(t)` says of every thread in the blocked
  list that the value it waits on is unchanged or a notification is under way
  (`Notified`): in the loop that unblocks, or between the store and the call.
- `SleepIsLong` (`SleepsLongEnough`): `SleepInv`, a thread in `nanosleep` is delayed and
  off the CPU, or its time has come. That the sleeper leaves the CPU at its own
  yield needs that the idle thread can take it.

**IntrusiveListProofs.** `ListInv` says that next and prev are inverse on what is
linked. It does not say that the links form one ring per list, which is what
`Walk` and every query rely on. The proof therefore carries the witness:
`ContentsExist`, there are sequences `c` such that every ring reads head,
`c[l][1]`, `c[l][2]`, ..., head (`Ring`, `Slot`), the rings are disjoint and the nodes
outside them are unlinked (`Rings`). `RingInsert` and
`RingRemove` show what linking at a place does to the ring it is in, `RingUntouched`
that the others stay, which is the other half of `NodesArePlaced`. `PathIs` shows that the walk, a recursive function,
returns the witness: a least position at which they differ would contradict the one
before it. From this come `QueriesAnswered`, `NodesArePlaced` and the refinement
`ListsAreSequences`: each operation on pointers is the operation of `ListSpec` on
the walks.

**SynchronizersProofs.** The invariant is `SyncInv /\ MutualExclusion /\
NoStuckWaiter`. It is inductive as it stands because `NoStuckWaiter` counts: units
that are free, against threads that are on their way to take one or to notify.
`MoveCounts` gives the change of every such count.

**EmulatorCpuProofs.** `CpuInv` (the suspend counts) is not inductive: a yield
resumes `new_thread`, and what it found before may have been changed by an interrupt.
Added are `Switching` (between the store of the current thread and the restored
interrupt state no other switch is under way), `OwnYield` (what a thread keeps of its
own section) and `IrqState` (the interrupt word is the one of the current thread's
place). All are stated until a resume is lost; `LossIsInTail` shows the one way
to lose one, and `OneThreadExecutes` follows from the counts.

**PhysicalAllocatorProofs.** For any number of threads, entries, rows and digits,
under the hypothesis `Tables = 1`, the emulator's configuration; with two tables the
statements are false (Known limits). The invariant adds to the three properties the balance
between levels: `free_pages_` plus the calls it let through is what the level-1
counters offer (`PagesPromised`), those plus the calls about to set a bit is what is not
returned (`PagesLeft`), the places a call has passed stay used up (`PassedEmpty`), and
a clear bit belongs to a page not returned (`ClearNotGiven`). So a call that was let
through finds an entry ahead of it, and a bit in it.

**HostDriverProofs** has two parts, the file services and the serial port.

The file services, for any threads, pools, devices and paths. `FilesInv` and
`HostMatches` are not inductive: they speak of what a call refers to, not of what it
knows when it goes on. The invariant `FilesInd` adds

- `Places`: at each place of a call whether it has a file and a handle, what the entry
  of the handle holds, and the count of its file where the next step relies on it: 1
  while it opens the file, 0 while it ends it. A handle is in the hands of one call,
  and so is a file that ends (`OneOwner`), so no entry is given back twice.
- `PoolsHold`: each free list is a chain of different entries, and these are exactly
  the ones nobody uses. As for the rings, the chain is carried as a witness
  (`PoolHolds`, `Chain`), since what `Walk` reaches is a recursive function of the
  links; `ChainWalk` shows that the two agree, `ChainBounded` that the list is no longer than
  the pool, `PoolPop` and `PoolPush` what allocating and freeing do to the set.
- `Targets` and `HostOpen`: what `find_device` answered is what the file is opened at;
  a file has a device only while it is referred to or about to be destroyed; the files
  opened at `fs0` and the files open in the host are in one-to-one correspondence. That a
  destroyed file takes away no other file's host handle needs that no two
  opened files have the same path, which the host's refusal to share gives.
- `DirectoryInv`: the directory is sorted and holds what was attached. `FoundIs` needs
  the order (the scan stops at the first larger name), `AttachKeepsOrder` keeps it.

`CountedReferences` reads a count of 1 in a step that drops a reference: there is no other
handle and no other call, so the file may end. `FilesKept`, `HostFilesMatch` and
`DevicesFound` follow.

The serial port. The parts of `SerialInv` with finitely many transfers
(`TransfersFinite`), the owner of each result (`Own`) and `PortSet`: the port has the
DCB of some termios and the timeouts of some, those of `set_term` if there is one;
a `TCSETS` that is not overtaken finds its DCB still in the port, so that its second call
completes the pair, and the DCB that such a `TCGETS` has read is still the port's.
`TermsSurvive` follows with the conversions, for every setting and any number of callers,
with the widths of the host's fields.

**IoRequestsProofs.** `OneList` (by the sets of the lists), `WorkerAt` (what the
worker knows at each place), `Refs` and `OneResult` (a program that asked for a result has
one request under way or one result queued), with `NoForgottenWork`. `IoInv`, `RefsBalanced` and
`AsyncDeliveredOnce` follow. `WaitsForItsOwn` has the hypothesis `OwnFiles`: no two
programs share a file and none reads asynchronously, as in run `ioLive`; its invariant
`WaitInv` adds that the event of a file is clear until the request under way on it is
completed. Programs that share a file also share its event, and the completion of
one request may end the wait of the other.

**Model-checked only.** Liveness under fairness (`DelayedWakes`, `RoundRobinServes`,
`LockProgress`, `RequestsServed`, `AllocationEnds`, `InterruptsHandled`, `CurrentRuns`,
`FilesReturn`, `RequestsAnswered`), which this prover does not handle. The parameters
of a run are small, those of the theorems are not bounded, but the clock, the queue of
interrupts and the like keep the bounds the modules name.

## 6. Not modelled

Chino's own code is about 5000 of the 106000 lines counted as implementation. The
rest is vendored and has no part in the kernel: MicroPython, a BASIC interpreter,
lua, a FAT library for another chip, the C library and headers of compiler intrinsics.

Of Chino's own code: formatting, logging, register programming, the Win32, BLE and lwIP
adapters, the PE loader and the build-time generators, which keep no state of their own
worth a model. Failures of Win32 calls in the console driver; the line speed; `TCFLSH`
and `TCDRN`, single host calls. The table of errno values, the descriptors 0 to 2 and
asynchronous reads in `FileServices`. `directory::remove` and the atomic intrusive
queue, which have no caller. A worker that waits for a request of its own
(`io_request.cpp:66`): no driver does. The boot page list: one pass before
any thread runs. The memory of thread and request objects is
abstracted to names: reuse after free is visible only through reference counts.
The uncalled operations of the page allocator (`take_huge`, `return_current_pt0`).
Segments whose size is not a whole number of level-0 tables: the tables say nothing of
the missing pages, and the emulator always passes 64 MiB. Several CPUs: the source has arrays for them, with one in use.
