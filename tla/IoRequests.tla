----------------------------- MODULE IoRequests -----------------------------
(***************************************************************************)
(* I/O requests of Chino OS: programs read the standard input or send it a *)
(* control code, through the stream device, to the host console            *)
(*   src/src/os/kernel/io/{io_manager,device,io_request,iocp}.cpp,         *)
(*   src/include/ddk/chino/os/kernel/io/irp.h,                             *)
(*   src/src/os/drivers/stdio/stream_stdio, serial/host_console.           *)
(*                                                                         *)
(* The IO worker outranks the programs: once it has the CPU they run again *)
(* only when it sleeps.  Interrupts come between any two steps; a section  *)
(* under an irq_spin_lock, and an interrupt handler, is one step.  Waiting *)
(* on an event is a step enabled while the event is set (module            *)
(* Synchronizers).  Buffers hold one byte.  The worker's read of the       *)
(* console is one step, as no other reader runs meanwhile.                 *)
(***************************************************************************)
EXTENDS Lists, FiniteSets

CONSTANTS Programs,    \* threads that call read, ioctl, read_async, wait_queued_io
          Files,       \* open files of the stream device
          FileOf,      \* the file each program uses
          Calls,       \* the requests programs make: "read", "async", "control"
          Irps,        \* io_request_pool_
          Null,        \* nullptr
          MaxEvents    \* bound on the console events waiting to be read

ASSUME IoAssumption ==
    /\ FileOf \in [Programs -> Files] /\ Calls \subseteq {"read", "async", "control"}
    /\ Null \notin Programs \cup Files \cup Irps
    /\ IsFiniteSet(Irps) /\ MaxEvents \in Nat

Devices == {"stdio", "console"}

VARIABLES
    pc,          \* per program: where it is in dispatch_io_fast_slow
    call,        \* per program: the kind of request it is making
    irp_of,      \* per program: object_ptr<io_request> irp
    unread,      \* per program: unread_events of its fast_read
    irp,         \* the requests: [frame, file, kind, status, block, refs]
    irps,        \* per device: irps_
    pending,     \* the console's pending_irps_
    work_list,   \* device_work_list_
    work_avail,  \* device_work_list_avail_event_
    file_event,  \* per file: event_
    ready_io,    \* the process's ready_io_blocks_
    asked,       \* per program: an asynchronous read whose result it has not seen
    on_cpu,      \* the worker has the CPU
    wpc, wdev, wirp, wframe,   \* the worker: process_queued_ios
    events,      \* the host's console input records
    wait_armed,  \* stdin_wait_handle_ is registered and has not fired
    irqs,        \* host_console_stdin interrupts posted
    halted       \* "no", "assert" (kassert(irp) failed) or "fault"

programs == <<pc, call, irp_of, unread, asked>>
requests == <<irp, irps, pending>>
work     == <<work_list, work_avail>>
worker   == <<on_cpu, wpc, wdev, wirp, wframe>>
host     == <<events, wait_armed, irqs>>
results  == <<file_event, ready_io>>
vars     == <<programs, requests, work, worker, host, results, halted>>

FreeIrp == [frame |-> 0, file |-> Null, kind |-> "read", status |-> "pending",
            block |-> Null, refs |-> 0]

Init ==
    /\ pc = [p \in Programs |-> "idle"]
    /\ call = [p \in Programs |-> "read"]
    /\ irp_of = [p \in Programs |-> Null]
    /\ unread = [p \in Programs |-> 0]
    /\ irp = [i \in Irps |-> FreeIrp]
    /\ irps = [d \in Devices |-> << >>]
    /\ pending = << >>
    /\ work_list = << >>
    /\ work_avail = FALSE
    /\ file_event = [f \in Files |-> FALSE]
    /\ ready_io = << >>
    /\ asked = [p \in Programs |-> FALSE]
    /\ on_cpu = TRUE
    /\ wpc = "scan" /\ wdev = Null /\ wirp = Null /\ wframe = 0
    /\ events = << >>
    /\ wait_armed = FALSE
    /\ irqs = 0
    /\ halted = "no"

(***************************************************************************)
(* Operations used in several places                                       *)
(***************************************************************************)
\* Fault: the device is listed and nobody is notified.
QueueIoFault(d, i, table) ==
    /\ irps' = [table EXCEPT ![d] = Append(@, i)]
    /\ work_list' = IF d \in ToSet(work_list) THEN work_list ELSE Append(work_list, d)
    /\ UNCHANGED work_avail

\* device::queue_io and register_device_process_io.
QueueIo(d, i, table) ==
    /\ irps' = [table EXCEPT ![d] = Append(@, i)]
    /\ IF d \in ToSet(work_list)
       THEN UNCHANGED work
       ELSE work_list' = Append(work_list, d) /\ work_avail' = TRUE

\* dec_ref; the pool takes the request back with the last reference.
DecRef(i, table) ==
    [table EXCEPT ![i] = IF @.refs = 1 THEN FreeIrp ELSE [@ EXCEPT !.refs = table[i].refs - 1]]

\* fast_read of the console by the worker: records are consumed up to a key.
HasKey == \E i \in DOMAIN events : events[i] = "key"

Unread ==
    IF HasKey THEN SubSeq(events, Min({i \in DOMAIN events : events[i] = "key"}) + 1, Len(events))
    ELSE << >>

\* Fault: every frame's completion queues the result.
CompleteFault(i, status) ==
    /\ irp' = [irp EXCEPT ![i].frame = 0, ![i].status = status]
    /\ file_event' = [file_event EXCEPT ![irp[i].file] = TRUE]
    /\ ready_io' = IF irp[i].block = Null THEN ready_io
                   ELSE ready_io \o [n \in 1 .. irp[i].frame |-> irp[i].block]

\* io_request::complete on the console's frame or the stream's: every frame up
\* to the first signals its file; then the result goes to the completion queue.
\* (stream_file_ has an event of its own that nobody waits on.)
Complete(i, status) ==
    /\ irp' = [irp EXCEPT ![i].frame = 0, ![i].status = status]
    /\ file_event' = [file_event EXCEPT ![irp[i].file] = TRUE]
    /\ ready_io' = IF irp[i].block = Null THEN ready_io ELSE Append(ready_io, irp[i].block)

(***************************************************************************)
(* Programs: dispatch_io_fast_slow                                         *)
(***************************************************************************)
Running(p, l) == ~on_cpu /\ halted = "no" /\ pc[p] = l

Goto(p, l) == pc' = [pc EXCEPT ![p] = l]

\* Fault: the event keeps what an earlier request left in it.
BeginFault(p, kind) ==
    /\ Running(p, "idle")
    /\ kind = "async" => ~asked[p]
    /\ call' = [call EXCEPT ![p] = kind]
    /\ Goto(p, IF kind = "control" THEN "slow" ELSE "fast")
    /\ UNCHANGED <<irp_of, unread, asked, requests, work, worker, host, results, halted>>

\* file.event().reset(); the stream device has no fast_control.
Begin(p, kind) ==
    /\ Running(p, "idle")
    /\ kind = "async" => ~asked[p]
    /\ file_event' = [file_event EXCEPT ![FileOf[p]] = FALSE]
    /\ call' = [call EXCEPT ![p] = kind]
    /\ Goto(p, IF kind = "control" THEN "slow" ELSE "fast")
    /\ UNCHANGED <<irp_of, unread, asked, requests, work, worker, host, ready_io, halted>>

\* fast_read, passed on to the console: GetNumberOfConsoleInputEvents ...
FastCount(p) ==
    /\ Running(p, "fast")
    /\ unread' = [unread EXCEPT ![p] = Len(events)]
    /\ Goto(p, IF events = << >> THEN "slow" ELSE "drain")
    /\ UNCHANGED <<call, irp_of, asked, requests, work, worker, host, results, halted>>

\* ... and that many ReadConsoleInputA, each blocking while there is no record.
FastRead(p) ==
    /\ Running(p, "drain")
    /\ events # << >>
    /\ events' = Tail(events)
    /\ unread' = [unread EXCEPT ![p] = IF Head(events) = "key" THEN 0 ELSE @ - 1]
    /\ Goto(p, IF Head(events) = "key" THEN "idle" ELSE IF unread[p] = 1 THEN "fast" ELSE "drain")
    /\ UNCHANGED <<call, irp_of, asked, requests, work, worker, wait_armed, irqs,
                   results, halted>>

NoMemory(p) ==
    /\ Running(p, "slow")
    /\ \A i \in Irps : irp[i].refs > 0
    /\ Goto(p, "idle")
    /\ UNCHANGED <<call, irp_of, unread, asked, requests, work, worker, host, results, halted>>

\* The request is allocated with the caller's reference, queue() adds its own.
Submit(p, i) ==
    /\ Running(p, "slow")
    /\ irp[i].refs = 0
    /\ irp' = [irp EXCEPT ![i] =
           [frame |-> 1, file |-> FileOf[p], status |-> "pending", refs |-> 2,
            kind |-> IF call[p] = "control" THEN "control" ELSE "read",
            block |-> IF call[p] = "async" THEN p ELSE Null]]
    /\ irp_of' = [irp_of EXCEPT ![p] = i]
    /\ QueueIo("stdio", i, irps)
    /\ asked' = [asked EXCEPT ![p] = @ \/ call[p] = "async"]
    /\ Goto(p, IF call[p] = "async" THEN "release" ELSE "enter")
    /\ UNCHANGED <<call, unread, pending, worker, host, results, halted>>

\* internal_wait evaluates frames_[0].file(): complete() may have destroyed the
\* frame already, and what a dead object_ptr holds is null or its old value.
EnterWait(p) ==
    /\ Running(p, "enter")
    /\ \/ Goto(p, "wait") /\ UNCHANGED halted
       \/ irp[irp_of[p]].frame = 0 /\ halted' = "fault" /\ UNCHANGED pc
    /\ UNCHANGED <<call, irp_of, unread, asked, requests, work, worker, host, results>>

\* io_request::wait: returns when the file's event is set, whoever set it.
WaitReturns(p) ==
    /\ Running(p, "wait")
    /\ file_event[FileOf[p]]
    /\ Goto(p, "release")
    /\ UNCHANGED <<call, irp_of, unread, asked, requests, work, worker, host, results, halted>>

\* ~object_ptr<io_request> on return.
ReleaseIrp(p) ==
    /\ Running(p, "release")
    /\ irp' = DecRef(irp_of[p], irp)
    /\ irp_of' = [irp_of EXCEPT ![p] = Null]
    /\ Goto(p, "idle")
    /\ UNCHANGED <<call, unread, asked, irps, pending, work, worker, host, results, halted>>

\* io_wait_queued_io: any thread of the process takes the oldest result.
WaitQueuedIo(p) ==
    /\ Running(p, "idle")
    /\ ready_io # << >>
    /\ asked' = [asked EXCEPT ![Head(ready_io)] = FALSE]
    /\ ready_io' = Tail(ready_io)
    /\ UNCHANGED <<pc, call, irp_of, unread, requests, work, worker, host, file_event, halted>>

(***************************************************************************)
(* The IO worker: io::process_queued_ios and device::process_queued_ios    *)
(***************************************************************************)
Working(l) == on_cpu /\ halted = "no" /\ wpc = l

\* The next device, or the event is reset under the lock.
Scan ==
    /\ Working("scan")
    /\ IF work_list = << >>
       THEN work_avail' = FALSE /\ wpc' = "sleep" /\ UNCHANGED <<work_list, wdev>>
       ELSE /\ wdev' = Head(work_list) /\ work_list' = Tail(work_list)
            /\ wpc' = "take" /\ UNCHANGED work_avail
    /\ UNCHANGED <<on_cpu, wirp, wframe, programs, requests, host, results, halted>>

Sleep ==
    /\ Working("sleep")
    /\ IF work_avail THEN wpc' = "scan" /\ UNCHANGED on_cpu
       ELSE on_cpu' = FALSE /\ UNCHANGED wpc
    /\ UNCHANGED <<wdev, wirp, wframe, programs, requests, work, host, results, halted>>

\* The yield interrupt that follows a notification switches to the worker.
WorkerPreempts ==
    /\ ~on_cpu /\ halted = "no" /\ work_avail
    /\ on_cpu' = TRUE
    /\ UNCHANGED <<wpc, wdev, wirp, wframe, programs, requests, work, host, results, halted>>

TakeIrp ==
    /\ Working("take")
    /\ IF irps[wdev] = << >>
       THEN wpc' = "scan" /\ UNCHANGED <<wirp, wframe, irps>>
       ELSE /\ wirp' = Head(irps[wdev])
            /\ wframe' = irp[wirp'].frame
            /\ irps' = [irps EXCEPT ![wdev] = Tail(@)]
            /\ wpc' = wdev
    /\ UNCHANGED <<on_cpu, wdev, programs, irp, pending, work, host, results, halted>>

\* stream_stdio_device::process_io: a read moves to the next frame and on to
\* the console; anything else is completed with an error.
ProcessStdio ==
    /\ Working("stdio")
    /\ wpc' = "after"
    /\ IF irp[wirp].kind = "read"
       THEN /\ irp' = [irp EXCEPT ![wirp].frame = 2]
            /\ QueueIo("console", wirp, irps)
            /\ UNCHANGED results
       ELSE Complete(wirp, "error") /\ UNCHANGED <<irps, work>>
    /\ UNCHANGED <<on_cpu, wdev, wirp, wframe, programs, pending, host, halted>>

\* host_console_device::process_io: the old wait is dropped, the console is
\* read, and without a key a new wait is registered.
UnregisterWait ==
    /\ Working("console")
    /\ wait_armed' = FALSE
    /\ wpc' = "read"
    /\ UNCHANGED <<on_cpu, wdev, wirp, wframe, programs, requests, work, events, irqs,
                   results, halted>>

ProcessRead ==
    /\ Working("read")
    /\ events' = Unread
    /\ IF HasKey
       THEN Complete(wirp, "ok") /\ wpc' = "after"
       ELSE wpc' = "register" /\ UNCHANGED <<irp, results>>
    /\ UNCHANGED <<on_cpu, wdev, wirp, wframe, programs, irps, pending, work, wait_armed,
                   irqs, halted>>

RegisterWait ==
    /\ Working("register")
    /\ wait_armed' = TRUE
    /\ wpc' = "after"
    /\ UNCHANGED <<on_cpu, wdev, wirp, wframe, programs, requests, work, events, irqs,
                   results, halted>>

\* Fault: the worker's reference is not dropped.
AfterFault ==
    /\ Working("after")
    /\ pending' = IF irp[wirp].frame = wframe THEN Append(pending, wirp) ELSE pending
    /\ wirp' = Null /\ wframe' = 0 /\ wpc' = "take"
    /\ UNCHANGED <<on_cpu, wdev, programs, irp, irps, work, host, results, halted>>

\* Fault: whatever is not completed is pending, even when it went to another
\* device.
AfterPendingFault ==
    /\ Working("after")
    /\ irp' = IF irp[wirp].frame = 0 THEN DecRef(wirp, irp) ELSE irp
    /\ pending' = IF irp[wirp].frame # 0 THEN Append(pending, wirp) ELSE pending
    /\ wirp' = Null /\ wframe' = 0 /\ wpc' = "take"
    /\ UNCHANGED <<on_cpu, wdev, programs, irps, work, host, results, halted>>

\* Back in device::process_queued_ios: a completed request loses the queue's
\* reference, one that stayed on its frame is pending.
After ==
    /\ Working("after")
    /\ irp' = IF irp[wirp].frame = 0 THEN DecRef(wirp, irp) ELSE irp
    /\ pending' = IF irp[wirp].frame = wframe THEN Append(pending, wirp) ELSE pending
    /\ wirp' = Null /\ wframe' = 0 /\ wpc' = "take"
    /\ UNCHANGED <<on_cpu, wdev, programs, irps, work, host, results, halted>>

(***************************************************************************)
(* The host and the interrupt                                              *)
(***************************************************************************)
\* A key, or a record that is none (a key release, the mouse).
HostInput(e) ==
    /\ halted = "no" /\ Len(events) < MaxEvents
    /\ events' = Append(events, e)
    /\ UNCHANGED <<programs, requests, work, worker, wait_armed, irqs, results, halted>>

\* handle_ready_callback, once per registration.
WaitFires ==
    /\ halted = "no" /\ wait_armed /\ events # << >>
    /\ wait_armed' = FALSE
    /\ irqs' = irqs + 1
    /\ UNCHANGED <<programs, requests, work, worker, events, results, halted>>

\* stdin_irq_handler: requeue_pending_io of the first pending read.
StdinIrq ==
    /\ halted = "no" /\ irqs > 0
    /\ irqs' = irqs - 1
    /\ IF pending = << >>
       THEN halted' = "assert" /\ UNCHANGED <<irps, pending, work>>
       ELSE /\ pending' = Tail(pending)
            /\ QueueIo("console", Head(pending), irps)
            /\ UNCHANGED halted
    /\ UNCHANGED <<programs, irp, worker, events, wait_armed, results>>

ProgramStep(p) ==
    \/ FastCount(p) \/ FastRead(p) \/ NoMemory(p) \/ (\E i \in Irps : Submit(p, i))
    \/ EnterWait(p) \/ WaitReturns(p) \/ ReleaseIrp(p)

WorkerStep ==
    \/ Scan \/ Sleep \/ TakeIrp \/ ProcessStdio \/ UnregisterWait \/ ProcessRead
    \/ RegisterWait \/ After

Next ==
    \/ \E p \in Programs : ProgramStep(p) \/ WaitQueuedIo(p) \/ \E kind \in Calls : Begin(p, kind)
    \/ WorkerStep \/ WorkerPreempts
    \/ (\E e \in {"key", "other"} : HostInput(e)) \/ WaitFires \/ StdinIrq

Spec == Init /\ [][Next]_vars

\* The worker runs when it can, posted interrupts are delivered, the
\* host's wait thread calls back, and the user types keys again and again.
FairSpec ==
    /\ Spec
    /\ WF_vars(WorkerStep) /\ WF_vars(WorkerPreempts)
    /\ WF_vars(WaitFires) /\ WF_vars(StdinIrq) /\ SF_vars(HostInput("key"))

(***************************************************************************)
(* Properties                                                              *)
(***************************************************************************)
IrpType == [frame : 0 .. 2, file : Files \cup {Null}, kind : {"read", "control"},
            status : {"pending", "ok", "error"}, block : Programs \cup {Null}, refs : 0 .. 2]

\* The variables hold values of their types; a request has at most the
\* references of its caller and of the queue.
TypeOK ==
    /\ pc \in [Programs -> {"idle", "fast", "drain", "slow", "enter", "wait", "release"}]
    /\ call \in [Programs -> {"read", "async", "control"}]
    /\ irp_of \in [Programs -> Irps \cup {Null}]
    /\ unread \in [Programs -> 0 .. MaxEvents]
    /\ irp \in [Irps -> IrpType]
    /\ irps \in [Devices -> Seq(Irps)] /\ pending \in Seq(Irps)
    /\ work_list \in Seq(Devices) /\ work_avail \in BOOLEAN
    /\ file_event \in [Files -> BOOLEAN]
    /\ ready_io \in Seq(Programs)
    /\ asked \in [Programs -> BOOLEAN]
    /\ on_cpu \in BOOLEAN
    /\ wpc \in Devices \cup {"scan", "sleep", "take", "read", "register", "after"}
    /\ wdev \in Devices \cup {Null} /\ wirp \in Irps \cup {Null} /\ wframe \in 0 .. 2
    /\ events \in Seq({"key", "other"}) /\ Len(events) <= MaxEvents
    /\ wait_armed \in BOOLEAN /\ irqs \in Nat
    /\ halted \in {"no", "assert", "fault"}

\* The places that hold a request: positions of the devices' lists, and the
\* worker's hands until it has passed the request on.
Places(i) ==
    {<<"stdio", k>> : k \in {j \in DOMAIN irps["stdio"] : irps["stdio"][j] = i}}
        \cup {<<"console", k>> : k \in {j \in DOMAIN irps["console"] : irps["console"][j] = i}}
        \cup {<<"pending", k>> : k \in {j \in DOMAIN pending : pending[j] = i}}
        \cup {<<"worker", k>> : k \in {j \in {0} : wirp = i /\ irp[i].frame \in {0, wframe}}}

\* A request is never lost and never in two lists: until it is completed it is
\* in one place, on the list of the device its frame names (irps_,
\* pending_irps_ and the worker share one list node per request).
RequestInOnePlace ==
    \A i \in Irps :
        /\ Cardinality(Places(i)) <= 1
        /\ irp[i].frame > 0 => Places(i) # {}
        /\ i \in ToSet(irps["stdio"]) => irp[i].frame = 1
        /\ i \in ToSet(irps["console"]) \cup ToSet(pending) => irp[i].frame = 2

\* The bookkeeping of the requests: well formed, and each in one place.
IoInv == TypeOK /\ RequestInOnePlace

\* Queued work is never forgotten by process_queued_ios: a device with
\* requests is listed or being worked on, and a worker that is about to sleep
\* or asleep has been signalled when a device is listed.
NoForgottenWork ==
    /\ \A d \in Devices :
           irps[d] # << >> => d \in ToSet(work_list) \/ (wdev = d /\ wpc \notin {"scan", "sleep"})
    /\ wpc = "sleep" /\ work_list # << >> => work_avail

\* References are counted right across allocate, queue, the worker's dec_ref
\* and the caller's object_ptr: one for each program that holds the request
\* and one while it is queued, pending or worked on.
RefsBalanced ==
    \A i \in Irps : irp[i].refs = Cardinality({p \in Programs : irp_of[p] = i})
                                 + (IF Places(i) = {} THEN 0 ELSE 1)

\* An asynchronous read is delivered once: while a program waits for its
\* result, either one uncompleted request carries its block or the block is in
\* the completion queue exactly once; otherwise neither.
AsyncDeliveredOnce ==
    \A p \in Programs :
        Cardinality({i \in Irps : irp[i].block = p /\ irp[i].frame > 0})
            + Cardinality({k \in DOMAIN ready_io : ready_io[k] = p})
        = IF asked[p] THEN 1 ELSE 0

\* A synchronous call comes back with its own request completed, when no other
\* request uses the file: the event says nothing about an earlier one.
WaitEndsCompleted ==
    \A p \in Programs :
        pc[p] = "release" /\ call[p] # "async" => irp[irp_of[p]].status # "pending"

\* stdin_irq_handler finds the read it was raised for: requeue_pending_io
\* asserts kassert(irp).
RequeueFindsIrp == halted # "assert"

\* Every submitted request is completed, unless the machine stops.
RequestsServed ==
    \A i \in Irps : irp[i].frame > 0 ~> irp[i].frame = 0 \/ halted # "no"

=============================================================================
