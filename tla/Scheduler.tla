------------------------------ MODULE Scheduler ------------------------------
(***************************************************************************)
(* The per-CPU thread scheduler of Chino OS                                *)
(*   src/src/os/kernel/ps/sched/scheduler.{h,cpp}, synchronizers.cpp,      *)
(*   src/src/os/kernel/ps/task/thread.cpp, io/irq_handler.cpp.             *)
(*                                                                         *)
(* One CPU.  Code under a current_irq_lock, and an interrupt handler, run  *)
(* without interruption: each is one action, except that an unbounded loop *)
(* under the lock takes one action per iteration while `loop' keeps every  *)
(* other action disabled.  Between two actions of the current thread any   *)
(* interrupt may be handled.  The intrusive lists are sequences; module    *)
(* IntrusiveList shows that the pointer structure behaves like one.        *)
(***************************************************************************)
EXTENDS Lists

CONSTANTS Threads,       \* thread objects, created or not
          Idle,          \* idle_thread_: priority idle, never blocks, never exits
          Worker,        \* init_thread_: the IO worker, never exits
          Priority,      \* thread::priority()
          MaxPriority,   \* thread_priority::max
          Addrs,         \* addresses of the atomics waited on
          Values,        \* values those atomics take
          DeviceAddrs,   \* the addresses interrupt handlers signal
          Exiting,       \* the threads whose entry point may return
          Null,          \* nullptr
          Timeouts,      \* the timeouts passed to waits and delays
          MaxTime,       \* bound on the modelled clock
          MaxIrqs        \* bound on the interrupts queued in the host's message queue

ASSUME SchedulerAssumption ==
    /\ Idle \in Threads /\ Worker \in Threads /\ Idle # Worker
    /\ Null \notin Threads /\ Null \notin Addrs
    /\ DeviceAddrs \subseteq Addrs /\ Exiting \subseteq Threads \ {Idle, Worker}
    /\ MaxPriority \in Nat
    /\ Priority \in [Threads -> 0..MaxPriority]
    /\ Priority[Idle] = 0
    /\ Values \subseteq Nat /\ 0 \in Values
    /\ Timeouts \subseteq Nat /\ MaxTime \in Nat /\ MaxIrqs \in Nat

VARIABLES
    ready_threads,       \* per priority: the ready threads and the running one
    blocked_threads,     \* waiting without a timeout
    delayed_threads,     \* sleeping, or waiting with a timeout
    max_ready_priority,
    lock_depth,
    current,             \* chino_current_threads[0]
    status,              \* thread::flags_.status
    attached,            \* thread::scheduler_ is not null
    wait_address,
    wakeup_time,
    pc,                  \* where each thread's own code stands
    req,                 \* the arguments of the wait or store each thread is in
    mem,                 \* the values of the atomics
    now,                 \* hal current_cpu_time()
    tick_armed,          \* the one-shot system tick timer is running
    irqs,                \* interrupts posted to the CPU and not handled yet
    loop,                \* the loop in progress with interrupts disabled
    bugcheck             \* kassert(next_thread) failed

lists   == <<ready_threads, blocked_threads, delayed_threads>>
fields  == <<attached, wait_address, wakeup_time>>
choice  == <<current, status, max_ready_priority, bugcheck>>
machine == <<now, tick_armed, irqs>>
vars    == <<lists, fields, choice, machine, lock_depth, pc, req, mem, loop>>

NoLoop == [op |-> "none", addr |-> Null, unblocked |-> FALSE]

NoReq == [addr |-> Null, old |-> 0, timed |-> FALSE, timeout |-> 0, since |-> 0]

(***************************************************************************)
(* List operations                                                         *)
(***************************************************************************)
PushReady(rd, t) == [rd EXCEPT ![Priority[t]] = Append(@, t)]

\* Fault: the thread is not unlinked.
TakeReadyFault(rd, t) == rd

TakeReady(rd, t) == [rd EXCEPT ![Priority[t]] = Without(@, t)]

\* add_to_delay_list: the new thread goes after the last of the run of
\* threads, from the second one on, that wake no later than it does.
DelaySlot(list, when) ==
    IF list = << >> THEN 1
    ELSE 1 + Max({i \in DOMAIN list :
                    \A j \in 2..i : wakeup_time[list[j]] <= when})

\* Fault: the maximum is not raised.
UpdateMaxReadyFault(p) == max_ready_priority

UpdateMaxReady(p) == IF max_ready_priority < p THEN p ELSE max_ready_priority

(***************************************************************************)
(* select_next_thread, set_current_thread and switch_task, given the ready *)
(* lists, statuses and maximum the caller has just computed.               *)
(***************************************************************************)
\* Fault: always the front of the list.
RoundRobinFault(list, t) == IF list # << >> THEN Head(list) ELSE Null

RoundRobin(list, t) ==
    LET next == {list[i + 1] : i \in {j \in 1..(Len(list) - 1) : list[j] = t}}
    IN  IF next # {} THEN CHOOSE n \in next : TRUE
        ELSE IF list # << >> THEN Head(list) ELSE Null

\* Fault: the search goes up instead of down.
LowestFrontFault(rd, low, high) ==
    LET found == {p \in low..high : rd[p] # << >>}
    IN  IF found = {} THEN Null ELSE Head(rd[Min(found)])

HighestFront(rd, low, high) ==
    LET found == {p \in low..high : rd[p] # << >>}
    IN  IF found = {} THEN Null ELSE Head(rd[Max(found)])

SelectNextThread(rd, st, max) ==
    IF st[current] # "running" THEN HighestFront(rd, 0, max)
    ELSE IF max > Priority[current] THEN HighestFront(rd, Priority[current], max)
    ELSE RoundRobin(rd[Priority[current]], current)

KeepCurrent(st, max) ==
    /\ status' = st
    /\ max_ready_priority' = max
    /\ UNCHANGED current

SetCurrentThread(t, st) ==
    /\ status' = [st EXCEPT ![current] = IF @ = "running" THEN "ready" ELSE @,
                            ![t] = "running"]
    /\ max_ready_priority' = Priority[t]
    /\ current' = t

SwitchTask(rd, st, max) ==
    LET next == SelectNextThread(rd, st, max)
    IN  IF lock_depth > 0
        THEN KeepCurrent(st, max) /\ UNCHANGED bugcheck
        ELSE /\ bugcheck' = (next = Null)
             /\ IF next \in {Null, current}
                THEN KeepCurrent(st, max)
                ELSE SetCurrentThread(next, st)

(***************************************************************************)
(* Startup: ke_startup has attached the idle and the worker thread and     *)
(* start_schedule runs the worker.                                         *)
(***************************************************************************)
Booted == {Idle, Worker}

Init ==
    /\ ready_threads = [p \in 0..MaxPriority |->
           IF p = Priority[Worker]
           THEN IF p = 0 THEN <<Idle, Worker>> ELSE <<Worker>>
           ELSE IF p = 0 THEN <<Idle>> ELSE << >>]
    /\ blocked_threads = << >>
    /\ delayed_threads = << >>
    /\ max_ready_priority = Priority[Worker]
    /\ lock_depth = 0
    /\ current = Worker
    /\ status = [t \in Threads |-> IF t = Worker THEN "running" ELSE "ready"]
    /\ attached = [t \in Threads |-> t \in Booted]
    /\ wait_address = [t \in Threads |-> Null]
    /\ wakeup_time = [t \in Threads |-> 0]
    /\ pc = [t \in Threads |-> IF t \in Booted THEN "run" ELSE "new"]
    /\ req = [t \in Threads |-> NoReq]
    /\ mem \in [Addrs -> Values]
    /\ now = 0
    /\ tick_armed = TRUE
    /\ irqs = << >>
    /\ loop = NoLoop
    /\ bugcheck = FALSE

(***************************************************************************)
(* What the current thread does.  Self(l): it is about to take the step at *)
(* l, and no loop holds the CPU.                                           *)
(***************************************************************************)
\* A tick in the queue does not count towards the bound.
RoomForYield == Len(irqs) < IF tick_armed THEN MaxIrqs ELSE MaxIrqs + 1

CpuFree == loop = NoLoop /\ ~bugcheck

Self(l) == CpuFree /\ pc[current] = l

Goto(l) == pc' = [pc EXCEPT ![current] = l]

DropReq == req' = [req EXCEPT ![current] = NoReq]

\* thread::thread and scheduler::attach_thread, then its yield(): a new
\* thread is queued and the scheduler runs at once.
AttachThread(n) ==
    /\ Self("run") /\ current # Idle
    /\ pc[n] = "new"
    /\ pc' = [pc EXCEPT ![n] = "run"]
    /\ attached' = [attached EXCEPT ![n] = TRUE]
    /\ ready_threads' = PushReady(ready_threads, n)
    /\ SwitchTask(ready_threads', [status EXCEPT ![n] = "ready"],
                  UpdateMaxReady(Priority[n]))
    /\ UNCHANGED <<blocked_threads, delayed_threads, wait_address, wakeup_time,
                   machine, lock_depth, req, mem, loop>>

\* Fault: the thread stays in its ready list.
DetachThreadFault ==
    /\ Self("run") /\ current \in Exiting
    /\ Goto("exit")
    /\ attached' = [attached EXCEPT ![current] = FALSE]
    /\ UNCHANGED <<lists, wait_address, wakeup_time, choice, machine, lock_depth,
                   req, mem, loop>>

\* thread_main_thunk after the entry point has returned: detach_thread.  The
\* status stays "running"; interrupts are enabled again before the yield().
DetachThread ==
    /\ Self("run") /\ current \in Exiting
    /\ Goto("exit")
    /\ ready_threads' = TakeReady(ready_threads, current)
    /\ attached' = [attached EXCEPT ![current] = FALSE]
    /\ max_ready_priority' = IF Priority[current] = max_ready_priority
                             THEN 0 ELSE max_ready_priority
    /\ UNCHANGED <<blocked_threads, delayed_threads, wait_address, wakeup_time,
                   current, status, bugcheck, machine, lock_depth, req, mem, loop>>

\* The yield() at the end of thread_main_thunk.
ExitYield ==
    /\ Self("exit")
    /\ Goto("dead")
    /\ SwitchTask(ready_threads, status, max_ready_priority)
    /\ UNCHANGED <<lists, fields, machine, lock_depth, req, mem, loop>>

\* atomic_wait: the fast path returns at once, the slow one enters
\* block_current_thread, which first reads the clock.
AtomicWait(a, old, timed, timeout) ==
    /\ Self("run") /\ current # Idle
    /\ mem[a] = old
    /\ timed => now + timeout <= MaxTime
    /\ Goto("block")
    /\ req' = [req EXCEPT ![current] = [addr |-> a, old |-> old, timed |-> timed,
                                        timeout |-> timeout, since |-> now]]
    /\ UNCHANGED <<lists, fields, choice, machine, lock_depth, mem, loop>>

\* block_current_thread under the lock: the value is read again, and only if
\* it is still `old' is the thread taken off its ready list.
BlockReturnsAtOnce ==
    /\ Self("block")
    /\ mem[req[current].addr] # req[current].old
    /\ Goto("run") /\ DropReq
    /\ UNCHANGED <<lists, fields, choice, machine, lock_depth, mem, loop>>

AddToDelayList(timeout) ==
    LET when == now + timeout
    IN  /\ delayed_threads' = InsertAt(delayed_threads,
                                       DelaySlot(delayed_threads, when), current)
        /\ wakeup_time' = [wakeup_time EXCEPT ![current] = when]

QueueCurrent(r) ==
    /\ Goto("yield")
    /\ wait_address' = [wait_address EXCEPT ![current] = r.addr]
    /\ ready_threads' = TakeReady(ready_threads, current)
    /\ IF r.timed
       THEN /\ AddToDelayList(r.timeout)
            /\ status' = [status EXCEPT ![current] = "delayed"]
            /\ UNCHANGED blocked_threads
       ELSE /\ blocked_threads' = Append(blocked_threads, current)
            /\ status' = [status EXCEPT ![current] = "blocked"]
            /\ UNCHANGED <<delayed_threads, wakeup_time>>
    /\ UNCHANGED <<attached, current, max_ready_priority, bugcheck, machine,
                   lock_depth, req, mem, loop>>

\* Fault: the value is not read again under the lock.
BlockCurrentThreadFault ==
    /\ Self("block")
    /\ QueueCurrent(req[current])

BlockCurrentThread ==
    /\ Self("block")
    /\ mem[req[current].addr] = req[current].old
    /\ QueueCurrent(req[current])

\* The loop of block_current_thread: yield(), then look at the value and at
\* the clock.  A thread that finds the value unchanged yields again without
\* going back to a waiting list.
BlockYield ==
    /\ Self("yield")
    /\ Goto("check")
    /\ SwitchTask(ready_threads, status, max_ready_priority)
    /\ UNCHANGED <<lists, fields, machine, lock_depth, req, mem, loop>>

WaitIsOver(t) ==
    \/ mem[req[t].addr] # req[t].old
    \/ req[t].timed /\ now >= req[t].since + req[t].timeout

BlockCheck ==
    /\ Self("check")
    /\ IF WaitIsOver(current)
       THEN Goto("run") /\ DropReq
       ELSE Goto("yield") /\ UNCHANGED req
    /\ UNCHANGED <<lists, fields, choice, machine, lock_depth, mem, loop>>

\* nanosleep: delay_current_thread removes the thread, queues it and yields.
DelayCurrentThread(timeout) ==
    /\ Self("run") /\ current # Idle
    /\ now + timeout <= MaxTime
    /\ Goto("sleep")
    /\ ready_threads' = TakeReady(ready_threads, current)
    /\ AddToDelayList(timeout)
    /\ SwitchTask(ready_threads', [status EXCEPT ![current] = "delayed"],
                  max_ready_priority)
    /\ UNCHANGED <<blocked_threads, attached, wait_address, machine,
                   lock_depth, req, mem, loop>>

DelayReturns ==
    /\ Self("sleep")
    /\ Goto("run")
    /\ UNCHANGED <<lists, fields, choice, machine, lock_depth, req, mem, loop>>

\* A synchronizer changes its atomic, then notifies every waiter.  An
\* interrupt may come between the store and the notification.
Store(a, v) ==
    /\ Self("run") /\ current # Idle
    /\ v # mem[a]
    /\ Goto("notify")
    /\ mem' = [mem EXCEPT ![a] = v]
    /\ req' = [req EXCEPT ![current] = [NoReq EXCEPT !.addr = a]]
    /\ UNCHANGED <<lists, fields, choice, machine, lock_depth, loop>>

AtomicNotifyAll ==
    /\ Self("notify")
    /\ RoomForYield
    /\ Goto("run") /\ DropReq
    /\ loop' = [op |-> "unblock", addr |-> req[current].addr, unblocked |-> FALSE]
    /\ UNCHANGED <<lists, fields, choice, machine, lock_depth, mem>>

\* current_schedule_lock around a page table rental: switch_task does nothing.
LockSchedule ==
    /\ Self("run") /\ current # Idle
    /\ Goto("locked")
    /\ lock_depth' = lock_depth + 1
    /\ UNCHANGED <<lists, fields, choice, machine, req, mem, loop>>

UnlockSchedule ==
    /\ Self("locked")
    /\ Goto("run")
    /\ lock_depth' = lock_depth - 1
    /\ UNCHANGED <<lists, fields, choice, machine, req, mem, loop>>

(***************************************************************************)
(* unblock_local_threads: waiters of an address, in list order, become     *)
(* ready; if there was one, a yield interrupt is posted to this CPU.       *)
(***************************************************************************)
WaitersOf(a) == {i \in DOMAIN blocked_threads : wait_address[blocked_threads[i]] = a}

Unblock(t) ==
    /\ wait_address' = [wait_address EXCEPT ![t] = Null]
    /\ blocked_threads' = Without(blocked_threads, t)
    /\ status' = [status EXCEPT ![t] = "ready"]
    /\ ready_threads' = PushReady(ready_threads, t)
    /\ max_ready_priority' = UpdateMaxReady(Priority[t])
    /\ UNCHANGED <<delayed_threads, attached, wakeup_time, current, bugcheck>>

\* atomic_notify_one
AtomicNotifyOne(a) ==
    /\ Self("run") /\ current # Idle
    /\ WaitersOf(a) # {}
    /\ RoomForYield
    /\ Unblock(blocked_threads[Min(WaitersOf(a))])
    /\ irqs' = Append(irqs, "yield")
    /\ UNCHANGED <<now, tick_armed, lock_depth, pc, req, mem, loop>>

UnblockNext ==
    /\ loop.op = "unblock" /\ WaitersOf(loop.addr) # {}
    /\ Unblock(blocked_threads[Min(WaitersOf(loop.addr))])
    /\ loop' = [loop EXCEPT !.unblocked = TRUE]
    /\ UNCHANGED <<machine, lock_depth, pc, req, mem>>

UnblockDone ==
    /\ loop.op = "unblock" /\ WaitersOf(loop.addr) = {}
    /\ irqs' = IF loop.unblocked THEN Append(irqs, "yield") ELSE irqs
    /\ loop' = NoLoop
    /\ UNCHANGED <<lists, fields, choice, now, tick_armed, lock_depth, pc, req, mem>>

(***************************************************************************)
(* The machine: the clock, the tick timer and interrupts.  Interrupts wait *)
(* in the host's message queue and are handled one at a time.              *)
(***************************************************************************)
\* The clock stops at its bound only when no delayed thread needs it.
ClockAdvances ==
    /\ CpuFree
    /\ \/ now < MaxTime
       \/ \E t \in Threads : status[t] = "delayed" /\ now < wakeup_time[t]
    /\ now' = now + 1
    /\ UNCHANGED <<lists, fields, choice, tick_armed, irqs, lock_depth, pc, req, mem, loop>>

TimerFires ==
    /\ ~bugcheck
    /\ tick_armed
    /\ tick_armed' = FALSE
    /\ irqs' = Append(irqs, "tick")
    /\ UNCHANGED <<lists, fields, choice, now, lock_depth, pc, req, mem, loop>>

\* io_handle_irq for arch_irq_number_t::syscall with syscall_number::yield.
HandleYield ==
    /\ CpuFree
    /\ irqs # << >> /\ Head(irqs) = "yield"
    /\ irqs' = Tail(irqs)
    /\ SwitchTask(ready_threads, status, max_ready_priority)
    /\ UNCHANGED <<lists, fields, now, tick_armed, lock_depth, pc, req, mem, loop>>

\* Fault: the tick only switches.
HandleTickFault ==
    /\ CpuFree
    /\ irqs # << >> /\ Head(irqs) = "tick"
    /\ irqs' = Tail(irqs)
    /\ tick_armed' = TRUE
    /\ SwitchTask(ready_threads, status, max_ready_priority)
    /\ UNCHANGED <<lists, fields, now, lock_depth, pc, req, mem, loop>>

\* io_handle_irq for system_tick: on_system_tick re-arms the timer, wakes
\* delayed threads from the head of the list and switches.
HandleTick ==
    /\ CpuFree
    /\ irqs # << >> /\ Head(irqs) = "tick"
    /\ irqs' = Tail(irqs)
    /\ tick_armed' = TRUE
    /\ loop' = [NoLoop EXCEPT !.op = "wakeup"]
    /\ UNCHANGED <<lists, fields, choice, now, lock_depth, pc, req, mem>>

\* Fault: one time unit too early.
HeadExpiredFault ==
    delayed_threads # << >> /\ wakeup_time[Head(delayed_threads)] <= now + 1

HeadExpired ==
    delayed_threads # << >> /\ wakeup_time[Head(delayed_threads)] <= now

WakeupNext ==
    LET t == Head(delayed_threads) IN
    /\ loop.op = "wakeup" /\ HeadExpired
    /\ delayed_threads' = Tail(delayed_threads)
    /\ status' = [status EXCEPT ![t] = "ready"]
    /\ ready_threads' = PushReady(ready_threads, t)
    /\ max_ready_priority' = UpdateMaxReady(Priority[t])
    /\ UNCHANGED <<blocked_threads, fields, current, bugcheck, machine,
                   lock_depth, pc, req, mem, loop>>

WakeupDone ==
    /\ loop.op = "wakeup" /\ ~HeadExpired
    /\ loop' = NoLoop
    /\ SwitchTask(ready_threads, status, max_ready_priority)
    /\ UNCHANGED <<lists, fields, machine, lock_depth, pc, req, mem>>

\* A device interrupt: its handler signals a synchronizer (store and notify
\* all), without a thread running in between.
DeviceIrq(a, v) ==
    /\ CpuFree
    /\ v # mem[a]
    /\ RoomForYield
    /\ mem' = [mem EXCEPT ![a] = v]
    /\ loop' = [op |-> "unblock", addr |-> a, unblocked |-> FALSE]
    /\ UNCHANGED <<lists, fields, choice, machine, lock_depth, pc, req>>

ThreadStep ==
    \/ \E n \in Threads : AttachThread(n)
    \/ DetachThread
    \/ ExitYield
    \/ \E a \in Addrs, old \in Values : AtomicWait(a, old, FALSE, 0)
    \/ \E a \in Addrs, old \in Values, d \in Timeouts : AtomicWait(a, old, TRUE, d)
    \/ BlockReturnsAtOnce
    \/ BlockCurrentThread
    \/ BlockYield
    \/ BlockCheck
    \/ \E d \in Timeouts : DelayCurrentThread(d)
    \/ DelayReturns
    \/ \E a \in Addrs, v \in Values : Store(a, v)
    \/ AtomicNotifyAll
    \/ \E a \in Addrs : AtomicNotifyOne(a)
    \/ LockSchedule
    \/ UnlockSchedule

LoopStep == UnblockNext \/ UnblockDone \/ WakeupNext \/ WakeupDone

IrqStep ==
    \/ HandleYield
    \/ HandleTick
    \/ \E a \in DeviceAddrs, v \in Values : DeviceIrq(a, v)

Next == ThreadStep \/ LoopStep \/ IrqStep \/ ClockAdvances \/ TimerFires

Spec == Init /\ [][Next]_vars

(***************************************************************************)
(* Fairness.  The host always runs a handler to its end, the armed timer   *)
(* fires, and the CPU executes the code of the current thread that is not  *)
(* a program's choice.  Strong fairness where the action is disabled only  *)
(* while a loop runs with interrupts disabled: the clock goes on, and the  *)
(* host, waiting for interrupts to be enabled, delivers them in the end.   *)
(***************************************************************************)
KernelPath ==
    \/ ExitYield \/ BlockReturnsAtOnce \/ BlockCurrentThread \/ BlockYield
    \/ BlockCheck \/ DelayReturns \/ AtomicNotifyAll \/ UnlockSchedule

Fairness ==
    /\ WF_vars(LoopStep)
    /\ SF_vars(HandleYield \/ HandleTick)
    /\ SF_vars(ClockAdvances)
    /\ WF_vars(TimerFires)
    /\ SF_vars(KernelPath)

FairSpec == Spec /\ Fairness

(***************************************************************************)
(* Properties                                                              *)
(***************************************************************************)
Runnable == {"ready", "running"}

Statuses == {"ready", "running", "blocked", "delayed"}

Labels == {"new", "run", "block", "yield", "check", "sleep", "notify", "locked",
           "exit", "dead"}

\* Every variable has the type of the field it stands for; the schedule lock
\* (lock/unlock of scheduler.h) never nests and is never released twice.
TypeOK ==
    /\ ready_threads \in [0..MaxPriority -> Seq(Threads)]
    /\ blocked_threads \in Seq(Threads)
    /\ delayed_threads \in Seq(Threads)
    /\ max_ready_priority \in 0..MaxPriority
    /\ lock_depth \in {0, 1}
    /\ current \in Threads
    /\ status \in [Threads -> Statuses]
    /\ attached \in [Threads -> BOOLEAN]
    /\ wait_address \in [Threads -> Addrs \cup {Null}]
    /\ wakeup_time \in [Threads -> Nat]
    /\ pc \in [Threads -> Labels]
    /\ req \in [Threads -> [addr : Addrs \cup {Null}, old : Values, timed : BOOLEAN,
                            timeout : Nat, since : Nat]]
    /\ mem \in [Addrs -> Values]
    /\ now \in Nat
    /\ tick_armed \in BOOLEAN
    /\ irqs \in Seq({"tick", "yield"})
    /\ loop \in [op : {"none", "unblock", "wakeup"}, addr : Addrs \cup {Null},
                 unblocked : BOOLEAN]
    /\ bugcheck \in BOOLEAN

\* A thread is in the list list_of() finds it by, in no other list and only
\* once: the ready list of its priority when it is ready or running, the
\* blocked or the delayed list, and none before attach or after detach.
ListsMatchStatus ==
    /\ \A p \in 0..MaxPriority :
         /\ Distinct(ready_threads[p])
         /\ \A t \in Threads : t \in ToSet(ready_threads[p]) <=>
              attached[t] /\ Priority[t] = p /\ status[t] \in Runnable
    /\ Distinct(blocked_threads)
    /\ \A t \in Threads : t \in ToSet(blocked_threads) <=> attached[t] /\ status[t] = "blocked"
    /\ Distinct(delayed_threads)
    /\ \A t \in Threads : t \in ToSet(delayed_threads) <=> attached[t] /\ status[t] = "delayed"

\* A thread's place in its code agrees with its status: what executes
\* ordinary code is in a ready list, only the thread that is current has status
\* "running", only it can hold the schedule lock, the idle thread never
\* leaves its list, and a blocked thread waits where its request says.
PcMatchesStatus ==
    /\ \A t \in Threads :
         /\ attached[t] <=> pc[t] \notin {"new", "exit", "dead"}
         /\ pc[t] \in {"run", "block", "notify", "locked"} => status[t] \in Runnable
         /\ pc[t] \in {"block", "yield", "check", "notify"} => req[t].addr \in Addrs
         /\ pc[t] = "locked" <=> t = current /\ lock_depth = 1
         /\ status[t] = "running" => t = current
         /\ status[t] = "blocked" =>
              pc[t] \in {"yield", "check"} /\ wait_address[t] = req[t].addr
    /\ pc[current] # "new"
    /\ pc[current] \in {"check", "sleep"} /\ ~bugcheck => status[current] \in Runnable
    /\ pc[Idle] = "run"
    /\ loop.op = "unblock" => loop.addr \in Addrs
    /\ loop # NoLoop => ~bugcheck

\* The inductive invariant of the scheduler: the lists, the statuses and the
\* places in the code stay consistent with each other whatever interrupt comes
\* between a thread's registration in a list and its yield.
SchedInv == TypeOK /\ ListsMatchStatus /\ PcMatchesStatus

SomeThreadExited == \E t \in Threads : pc[t] \in {"exit", "dead"}

\* As long as no thread has returned from its entry point, the search of
\* select_next_thread down from max_ready_priority_ finds a thread, and misses
\* none: nothing is ready above the place it starts from.  (detach_thread
\* resets that place: see SelectFindsThread.)
SearchMissesNone ==
    ~SomeThreadExited =>
        /\ \A p \in 0..MaxPriority : ready_threads[p] # << >> => p <= max_ready_priority
        /\ ~bugcheck

\* Whichever interrupt or call makes it, a switch goes to a thread that no
\* ready thread outranks.
SwitchesToHighest ==
    [][current' # current /\ ~SomeThreadExited' =>
          \A t \in Threads : attached'[t] /\ status'[t] = "ready" =>
              Priority[t] <= Priority[current']]_vars

\* nanosleep does not return before the time it was given has passed, whatever
\* notifications, ticks and switches come in between.
SleepsLongEnough == pc[current] = "sleep" => wakeup_time[current] <= now

\* No wake-up is lost between the two reads of the value, the queueing and the
\* yield: a thread left in the blocked list while its atomic has already
\* changed still has a notification of that address coming.
NoLostWakeup ==
    \A t \in Threads :
        status[t] = "blocked" /\ attached[t] /\ mem[req[t].addr] # req[t].old =>
            \/ loop.op = "unblock" /\ loop.addr = wait_address[t]
            \/ \E u \in Threads : pc[u] = "notify" /\ req[u].addr = wait_address[t]

\* An exited thread is never chosen again (CHINO_UNREACHABLE after the last
\* yield of thread_main_thunk): the thread that executes after a switch is an
\* attached one.
ExitedNeverRuns == [][current' # current => attached'[current']]_vars

\* kassert(next_thread) in select_next_thread.
SelectFindsThread == ~bugcheck

\* Every delayed thread is made ready again, although add_to_delay_list may put
\* it behind a front that is due later ("Find the last thread.wakeup_time <=
\* cnt_thread.wakeup_time" does not look at the front) and wakeup_delayed_threads
\* stops at the first thread that is not due.
DelayedWakes ==
    \A t \in Threads : status[t] = "delayed" ~> (status[t] # "delayed" \/ bugcheck)

ReadyAtTop(t) ==
    /\ attached[t] /\ status[t] = "ready" /\ current # t
    /\ lock_depth = 0 /\ ~bugcheck
    /\ \A u \in Threads : attached[u] /\ status[u] \in {"ready", "running"} =>
           Priority[u] <= Priority[t]

\* "Round robin the same priority": with ticks coming, no thread of the highest
\* ready priority waits for the CPU forever behind a running one.  (Behind a
\* current thread of status ready, which an interrupt made so between its
\* queueing and its yield, it may: select_next_thread then keeps the front.)
RoundRobinServes ==
    \A t \in Threads : ~<>[](ReadyAtTop(t) /\ status[current] = "running")

=============================================================================
