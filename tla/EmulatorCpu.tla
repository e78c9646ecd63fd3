----------------------------- MODULE EmulatorCpu -----------------------------
(***************************************************************************)
(* The CPU of the Win32 emulator (src/src/os/hal/archs/emulator): every    *)
(* thread of Chino OS is a host thread, and the CPU runs one of them by    *)
(* suspending and resuming.  A switch is made by the running thread in     *)
(* emulator_cpu::yield, or by the host thread of the message queue, called *)
(* APIC, in process_irq.                                                   *)
(*                                                                         *)
(* The host runs its threads at the same time, so steps of the APIC, of    *)
(* the new thread and of the old one, which suspends itself last,          *)
(* interleave.  A section under a current_irq_lock is entered and left in  *)
(* one step each.  Which thread a switch selects is module Scheduler's     *)
(* matter: here it is any thread that has not exited, and an interrupt may *)
(* also leave the current one.                                             *)
(***************************************************************************)
EXTENDS Integers, FiniteSets

CONSTANTS Threads, Idle,
          First,       \* init_thread_, which start_schedule resumes
          MaxPosted    \* bound on the interrupt messages in the queue

ASSUME CpuAssumption ==
    /\ IsFiniteSet(Threads) /\ Idle \in Threads /\ First \in Threads \ {Idle}
    /\ MaxPosted \in Nat

VARIABLES
    ps_current,  \* chino_current_threads
    current,     \* current_thread_, a host handle
    irq,         \* emulator_irq_state: interrupts are enabled
    saved,       \* per thread: emulator_irq_state
    susp,        \* per thread: the suspend count of the host thread
    pc,          \* per thread: where it is
    old,         \* per thread: state_ of its current_irq_lock
    last,        \* per thread: last_thread of its yield
    new,         \* per thread: new_thread of its yield
    alive,       \* threads created and not exited
    posted,      \* WM_ARCH_IRQ messages
    apic,        \* "wait" for a message, "handler" or "resume"
    lost         \* history: a ResumeThread met a thread not yet suspended

vars == <<ps_current, current, irq, saved, susp, pc, old, last, new, alive,
          posted, apic, lost>>

ps == <<ps_current, current>>
locals == <<old, last, new>>
host == <<posted, apic, lost>>

\* start_schedule has resumed the first thread and suspended the boot thread.
Init ==
    /\ ps_current = First /\ current = First
    /\ irq = FALSE
    /\ saved = [t \in Threads |-> TRUE]
    /\ susp = [t \in Threads |-> IF t = First THEN 0 ELSE 1]
    /\ pc = [t \in Threads |-> "new"]
    /\ old = [t \in Threads |-> TRUE]
    /\ last = [t \in Threads |-> t]
    /\ new = [t \in Threads |-> t]
    /\ alive = {Idle, First}
    /\ posted = 0
    /\ apic = "wait"
    /\ lost = FALSE

(***************************************************************************)
(* The host: SuspendThread counts, ResumeThread of a running thread does   *)
(* nothing.                                                                *)
(***************************************************************************)
SuspendThread(t) == susp' = [susp EXCEPT ![t] = @ + 1]

ResumeThread(t) ==
    /\ susp' = [susp EXCEPT ![t] = IF @ = 0 THEN 0 ELSE @ - 1]
    /\ lost' = (lost \/ susp[t] = 0)

(***************************************************************************)
(* Threads                                                                 *)
(***************************************************************************)
\* Thread t executes at l.
Runs(t, l) == susp[t] = 0 /\ pc[t] = l

Goto(t, l) == pc' = [pc EXCEPT ![t] = l]

\* emulator_thread_start, then the entry point.
ThreadStart(t) ==
    /\ Runs(t, "new") /\ Goto(t, "run")
    /\ irq' = saved[t]
    /\ UNCHANGED <<ps, saved, susp, locals, alive, host>>

\* disable_irq, by the constructor of a current_irq_lock: it returns the old
\* state.
DisableIrq(t) ==
    /\ Runs(t, "run") \/ Runs(t, "exit")
    /\ Goto(t, "section")
    /\ old' = [old EXCEPT ![t] = irq]
    /\ irq' = FALSE
    /\ UNCHANGED <<ps, saved, susp, last, new, alive, host>>

\* restore_irq, by its destructor.
RestoreIrq(t) ==
    /\ (Runs(t, "section") /\ t \in alive) \/ Runs(t, "unlock")
    /\ Goto(t, "run")
    /\ irq' = old[t]
    /\ UNCHANGED <<ps, saved, susp, locals, alive, host>>

\* initialize_thread_handle: the host thread is created suspended.
CreateThread(t, n) ==
    /\ Runs(t, "section") /\ t \in alive
    /\ pc[n] = "new" /\ n \notin alive
    /\ alive' = alive \cup {n}
    /\ UNCHANGED <<ps, irq, saved, susp, pc, locals, host>>

\* The entry point has returned: the section of detach_thread.  What is left
\* is the last yield.
ExitThread(t) ==
    /\ Runs(t, "section") /\ t \in alive \ {Idle} /\ Goto(t, "exit")
    /\ alive' = alive \ {t}
    /\ irq' = old[t]
    /\ UNCHANGED <<ps, saved, susp, locals, host>>

\* A device, the timer or a system call posts a message.
SendIrq ==
    /\ posted < MaxPosted /\ posted' = posted + 1
    /\ UNCHANGED <<ps, irq, saved, susp, pc, locals, alive, apic, lost>>

(***************************************************************************)
(* emulator_cpu::yield, in the section of ps::yield                        *)
(***************************************************************************)
\* Up to the store of current_thread_; when the scheduler keeps the thread,
\* that is all.
YieldSwitch(t, n) ==
    /\ Runs(t, "section") /\ n \in alive
    /\ last' = [last EXCEPT ![t] = current] /\ new' = [new EXCEPT ![t] = n]
    /\ saved' = [saved EXCEPT ![ps_current] = irq]
    /\ ps_current' = n /\ current' = n
    /\ Goto(t, IF n = current THEN "unlock" ELSE "restore")
    /\ UNCHANGED <<irq, susp, old, alive, host>>

\* Fault: the new thread goes on with the interrupt state of the old one.
YieldRestoreFault(t) ==
    /\ Runs(t, "restore") /\ Goto(t, "resume")
    /\ UNCHANGED <<ps, irq, saved, susp, locals, alive, host>>

\* restore_irq with the state of the new thread.
YieldRestore(t) ==
    /\ Runs(t, "restore") /\ Goto(t, "resume")
    /\ irq' = saved[ps_current]
    /\ UNCHANGED <<ps, saved, susp, locals, alive, host>>

\* Fault: the thread resumed is the current one by then, not new_thread.
YieldResumeFault(t) ==
    /\ Runs(t, "resume") /\ Goto(t, "suspend")
    /\ ResumeThread(current)
    /\ UNCHANGED <<ps, irq, saved, locals, alive, posted, apic>>

\* ResumeThread(new_thread).
YieldResume(t) ==
    /\ Runs(t, "resume") /\ Goto(t, "suspend")
    /\ ResumeThread(new[t])
    /\ UNCHANGED <<ps, irq, saved, locals, alive, posted, apic>>

\* SuspendThread(last_thread): the thread itself, which leaves its section
\* when it is resumed.  One that has exited is never resumed.
YieldSuspend(t) ==
    /\ Runs(t, "suspend") /\ Goto(t, IF t \in alive THEN "unlock" ELSE "gone")
    /\ SuspendThread(last[t])
    /\ UNCHANGED <<ps, irq, saved, locals, alive, host>>

(***************************************************************************)
(* emulator_cpu::process_irq, by the APIC                                  *)
(***************************************************************************)
\* Fault: the thread is suspended although interrupts are disabled.
TakeIrqFault ==
    /\ apic = "wait" /\ posted > 0
    /\ SuspendThread(current)
    /\ posted' = posted - 1 /\ apic' = "handler"
    /\ UNCHANGED <<ps, irq, saved, pc, locals, alive, lost>>

\* Wait under irq_lock_ until interrupts are enabled, then suspend.
TakeIrq ==
    /\ apic = "wait" /\ posted > 0 /\ irq
    /\ SuspendThread(current)
    /\ posted' = posted - 1 /\ apic' = "handler"
    /\ UNCHANGED <<ps, irq, saved, pc, locals, alive, lost>>

\* io_handle_irq, and the stores after it: the handler may switch to n, or it
\* leaves the current thread, which may be on its way to its last yield.
HandleIrq(n) ==
    /\ apic = "handler" /\ n \in alive \cup {ps_current}
    /\ saved' = [saved EXCEPT ![ps_current] = irq]
    /\ ps_current' = n /\ current' = n
    /\ irq' = saved'[n]
    /\ apic' = "resume"
    /\ UNCHANGED <<susp, pc, locals, alive, posted, lost>>

\* ResumeThread(new_thread).
ApicResume ==
    /\ apic = "resume" /\ apic' = "wait"
    /\ ResumeThread(current)
    /\ UNCHANGED <<ps, irq, saved, pc, locals, alive, posted>>

KernelStep(t) ==
    \/ ThreadStart(t) \/ RestoreIrq(t) \/ (t \notin alive /\ DisableIrq(t))
    \/ \E n \in Threads : YieldSwitch(t, n)
    \/ YieldRestore(t) \/ YieldResume(t) \/ YieldSuspend(t)

ApicStep == (\E n \in Threads : HandleIrq(n)) \/ ApicResume

Next ==
    \/ \E t \in Threads :
        \/ KernelStep(t) \/ DisableIrq(t) \/ ExitThread(t)
        \/ \E n \in Threads : CreateThread(t, n)
    \/ SendIrq \/ TakeIrq \/ ApicStep

Spec == Init /\ [][Next]_vars

\* The host runs every thread that is not suspended, and sections end.  TakeIrq,
\* which a new section disables, is strongly fair: no thread forever enters a
\* new section between the wake of the condition variable and the lock.
FairSpec ==
    /\ Spec
    /\ \A t \in Threads : WF_vars(KernelStep(t))
    /\ WF_vars(ApicStep) /\ SF_vars(TakeIrq)

(***************************************************************************)
(* Properties                                                              *)
(***************************************************************************)
TypeOK ==
    /\ ps_current \in Threads /\ current \in Threads
    /\ irq \in BOOLEAN /\ lost \in BOOLEAN
    /\ saved \in [Threads -> BOOLEAN] /\ old \in [Threads -> BOOLEAN]
    /\ susp \in [Threads -> Nat]
    /\ pc \in [Threads -> {"new", "run", "section", "unlock", "restore",
                           "resume", "suspend", "exit", "gone"}]
    /\ last \in [Threads -> Threads] /\ new \in [Threads -> Threads]
    /\ alive \subseteq Threads
    /\ posted \in 0..MaxPosted
    /\ apic \in {"wait", "handler", "resume"}

\* Threads of which a yield to t has not resumed it yet.
Owed(t) == {u \in Threads : pc[u] \in {"restore", "resume"} /\ new[u] = t}

Count(b) == IF b THEN 1 ELSE 0

\* Until a resume is lost, the suspend count of every thread is accounted for:
\* one for a thread that is not current, one for the APIC's suspension, one
\* for each yield that still has to resume it, less the suspension it still
\* has to do itself.
SuspendCounts ==
    ~lost => \A t \in Threads :
        susp[t] = Count(t # current) + Count(apic # "wait" /\ t = current)
                  + Cardinality(Owed(t))
                  - Count(pc[t] \in {"restore", "resume", "suspend"})

\* The threads the host executes.
Executing == {t \in Threads : susp[t] = 0}

\* Until a resume is lost, one thread executes besides the tail of a yield, it
\* is the current one, and none does while the APIC handles an interrupt:
\* yield resumes the new thread before it suspends the old one, and the kernel
\* relies on one CPU.
OneCpu ==
    ~lost => \A t \in Executing :
        \/ pc[t] \in {"resume", "suspend"}
        \/ apic = "wait" /\ (t = current \/ pc[t] = "restore")

\* Until a resume is lost, the APIC never runs between the two ends of a
\* section: the thread it interrupts is outside, and the saved states say with
\* which interrupt state each thread goes on.
SectionsWhole ==
    ~lost =>
        /\ apic = "handler" => pc[current] \in {"run", "new", "exit"}
        /\ \A t \in Threads \ {current} :
               saved[t] <=> pc[t] \in {"run", "new", "exit"}

\* The bookkeeping of the emulated CPU, between any two host calls.
CpuInv == TypeOK /\ SuspendCounts /\ SectionsWhole

\* A resume is only lost when a switch, by an interrupt or by the yield of
\* another thread, selects a thread that is still in the tail of its own yield:
\* that thread then suspends itself as the current one.
LostOnlyInTail ==
    [][lost' /\ ~lost =>
        \E t \in Executing :
            /\ pc[t] \in {"resume", "suspend"}
            /\ \/ apic = "resume" /\ t = current
               \/ \E u \in Threads \ {t} : pc[u] = "resume" /\ new[u] = t]_vars

\* An interrupt that is posted is handled, unless a resume was lost: no path
\* leaves the interrupts disabled.
InterruptsHandled == (posted > 0) ~> (apic = "handler" \/ lost)

\* The thread that is current gets the CPU, or another one is made current,
\* unless a resume was lost.
CurrentRuns ==
    \A t \in Threads :
        (current = t) ~> (susp[t] = 0 \/ current # t \/ lost)

=============================================================================
