-------------------------- MODULE EmulatorCpuProofs --------------------------
(***************************************************************************)
(* The emulated CPU keeps its books, for any number of threads and of      *)
(* interrupts: the suspend counts are accounted for, one thread executes   *)
(* besides the tails of yields, and a resume is only lost on a thread in   *)
(* such a tail.                                                            *)
(***************************************************************************)
EXTENDS EmulatorCpu, CommonTheorems

YieldTail == {"restore", "resume", "suspend"}
Outside == {"run", "new", "exit"}

\* A yield between the store of current_thread_ and the restored interrupt
\* state: interrupts are disabled, so no other switch is under way, and the
\* saved state of the new thread is the one it goes on with.
Switching ==
    ~lost => \A r \in Threads : pc[r] = "restore" =>
        /\ new[r] = current /\ r # current /\ apic = "wait" /\ ~irq
        /\ \A s \in Threads : pc[s] = "restore" => s = r
        /\ saved[current] <=> pc[current] \in Outside

\* What a thread knows of its own section and of its own yield.
OwnYield ==
    ~lost => \A t \in Threads :
        /\ pc[t] \in YieldTail => last[t] = t /\ new[t] # t
        /\ pc[t] \in YieldTail \cup {"section", "unlock"} => old[t]
        /\ pc[t] = "new" => saved[t]

\* Outside a switch the interrupt state is the one of the current thread's
\* place.
IrqState ==
    ~lost =>
        /\ apic = "handler" => irq
        /\ (\A r \in Threads : pc[r] # "restore") =>
            /\ pc[current] \in {"section", "unlock", "resume", "suspend", "gone"} => ~irq
            /\ pc[current] \in {"run", "exit"} => irq

\* The inductive invariant.
Inv ==
    /\ CpuInv /\ ps_current = current
    /\ Switching /\ OwnYield /\ IrqState

(***************************************************************************)
(* What the counts say                                                     *)
(***************************************************************************)
\* The yields that owe t a resume are finitely many threads.
LEMMA OwedFinite ==
    ASSUME NEW t
    PROVE  /\ IsFiniteSet(Owed(t)) /\ Cardinality(Owed(t)) \in Nat
           /\ (Cardinality(Owed(t)) = 0 <=> Owed(t) = {})
<1>1. Owed(t) \in SUBSET Threads
  BY DEF Owed
<1> QED
  BY <1>1, FS_Subset, FS_CardinalityType, FS_EmptySet, CpuAssumption

\* A thread the host executes is in the tail of its yield, or it is the current
\* one, no switch is under way and nothing is about to resume it.
LEMMA Executes ==
    ASSUME Inv, ~lost, NEW t \in Threads, susp[t] = 0, pc[t] \notin YieldTail
    PROVE  /\ t = current /\ apic = "wait" /\ Owed(t) = {}
           /\ \A r \in Threads : pc[r] # "restore"
<1>1. t = current /\ apic = "wait" /\ Cardinality(Owed(t)) = 0
  BY OwedFinite DEF Inv, CpuInv, SuspendCounts, Count, YieldTail
<1>2. Owed(t) = {}
  BY <1>1, OwedFinite
<1>3. \A r \in Threads : pc[r] # "restore"
  BY <1>1, <1>2 DEF Owed, Inv, Switching
<1> QED
  BY <1>1, <1>2, <1>3

(***************************************************************************)
(* The steps                                                               *)
(***************************************************************************)
\* Every step keeps the types, and the two names of the current thread agree.
LEMMA TypeStep ==
    ASSUME Inv, [Next]_vars
    PROVE  TypeOK' /\ ps_current' = current' /\ (lost => lost')
<1> USE DEF Inv, CpuInv, TypeOK, Goto, Runs, ps, locals, host
<1>1. CASE UNCHANGED vars
  BY <1>1 DEF vars
<1>2. ASSUME NEW t \in Threads, ThreadStart(t)
      PROVE  TypeOK' /\ ps_current' = current' /\ (lost => lost')
  BY <1>2 DEF ThreadStart
<1>13. ASSUME NEW t \in Threads, DisableIrq(t)
      PROVE  TypeOK' /\ ps_current' = current' /\ (lost => lost')
  BY <1>13 DEF DisableIrq
<1>14. ASSUME NEW t \in Threads, RestoreIrq(t)
      PROVE  TypeOK' /\ ps_current' = current' /\ (lost => lost')
  BY <1>14 DEF RestoreIrq
<1>3. ASSUME NEW t \in Threads, ExitThread(t)
      PROVE  TypeOK' /\ ps_current' = current' /\ (lost => lost')
  BY <1>3 DEF ExitThread
<1>4. ASSUME NEW t \in Threads, NEW n \in Threads, CreateThread(t, n)
      PROVE  TypeOK' /\ ps_current' = current' /\ (lost => lost')
  BY <1>4 DEF CreateThread
<1>5. ASSUME NEW t \in Threads, NEW n \in Threads, YieldSwitch(t, n)
      PROVE  TypeOK' /\ ps_current' = current' /\ (lost => lost')
  BY <1>5 DEF YieldSwitch
<1>6. ASSUME NEW t \in Threads, YieldRestore(t)
      PROVE  TypeOK' /\ ps_current' = current' /\ (lost => lost')
  BY <1>6 DEF YieldRestore
<1>7. ASSUME NEW t \in Threads, YieldResume(t)
      PROVE  TypeOK' /\ ps_current' = current' /\ (lost => lost')
  BY <1>7 DEF YieldResume, ResumeThread
<1>8. ASSUME NEW t \in Threads, YieldSuspend(t)
      PROVE  TypeOK' /\ ps_current' = current' /\ (lost => lost')
  BY <1>8 DEF YieldSuspend, SuspendThread
<1>9. CASE SendIrq
  BY <1>9, CpuAssumption DEF SendIrq
<1>10. CASE TakeIrq
  BY <1>10, CpuAssumption DEF TakeIrq, SuspendThread
<1>11. ASSUME NEW n \in Threads, HandleIrq(n)
       PROVE  TypeOK' /\ ps_current' = current' /\ (lost => lost')
  BY <1>11 DEF HandleIrq
<1>12. CASE ApicResume
  BY <1>12 DEF ApicResume, ResumeThread
<1> QED
  BY <1>1, <1>2, <1>3, <1>4, <1>5, <1>6, <1>7, <1>8, <1>9, <1>10, <1>11, <1>12,
     <1>13, <1>14
  DEF Next, KernelStep, ApicStep

\* A step that neither starts nor ends a debt of a resume.
LEMMA OwedSame ==
    ASSUME NEW t,
           \A u \in Threads : (pc[u] \in {"restore", "resume"}) = (pc'[u] \in {"restore", "resume"}),
           \A u \in Threads : pc[u] \in {"restore", "resume"} => new'[u] = new[u]
    PROVE  Owed(t)' = Owed(t)
BY DEF Owed

\* A step that keeps the current thread, its suspension by the APIC and the
\* tails, and all suspend counts.
LEMMA CountsSame ==
    ASSUME Inv, ~lost, susp' = susp, current' = current,
           (apic = "wait") = (apic' = "wait"),
           \A u \in Threads : (pc[u] \in YieldTail) = (pc'[u] \in YieldTail),
           \A u \in Threads : Owed(u)' = Owed(u)
    PROVE  SuspendCounts'
BY OwedFinite DEF Inv, CpuInv, SuspendCounts, Count, YieldTail

\* The new thread is the current one: it enables what its saved state says.
LEMMA ThreadStartInv ==
    ASSUME Inv, ~lost, ~lost', NEW t \in Threads, ThreadStart(t)
    PROVE  SuspendCounts' /\ SectionsWhole' /\ Switching' /\ OwnYield' /\ IrqState'
<1> USE DEF Inv, CpuInv, TypeOK, Goto, Runs, ps, locals, host, YieldTail, Outside, ThreadStart
<1>1. t = current /\ apic = "wait" /\ \A r \in Threads : pc[r] # "restore"
  BY Executes
<1>2. \A u \in Threads : Owed(u)' = Owed(u)
  BY OwedSame
<1>3. SuspendCounts'
  BY <1>1, <1>2, CountsSame
<1>4. SectionsWhole'
  BY <1>1, <1>2 DEF SectionsWhole, Switching, OwnYield, IrqState
<1>5. Switching'
  BY <1>1, <1>2 DEF SectionsWhole, Switching, OwnYield, IrqState
<1>6. OwnYield'
  BY <1>1, <1>2 DEF SectionsWhole, Switching, OwnYield, IrqState
<1>7. IrqState'
  BY <1>1, <1>2 DEF SectionsWhole, Switching, OwnYield, IrqState
<1> QED
  BY <1>3, <1>4, <1>5, <1>6, <1>7

\* Only the current thread enters a section, and it was outside one.
LEMMA DisableIrqInv ==
    ASSUME Inv, ~lost, ~lost', NEW t \in Threads, DisableIrq(t)
    PROVE  SuspendCounts' /\ SectionsWhole' /\ Switching' /\ OwnYield' /\ IrqState'
<1> USE DEF Inv, CpuInv, TypeOK, Goto, Runs, ps, locals, host, YieldTail, Outside, DisableIrq
<1>1. t = current /\ apic = "wait" /\ \A r \in Threads : pc[r] # "restore"
  BY Executes
<1>2. \A u \in Threads : Owed(u)' = Owed(u)
  BY OwedSame
<1>3. SuspendCounts'
  BY <1>1, <1>2, CountsSame
<1>4. SectionsWhole'
  BY <1>1, <1>2 DEF SectionsWhole, Switching, OwnYield, IrqState
<1>5. Switching'
  BY <1>1, <1>2 DEF SectionsWhole, Switching, OwnYield, IrqState
<1>6. OwnYield'
  BY <1>1, <1>2 DEF SectionsWhole, Switching, OwnYield, IrqState
<1>7. IrqState'
  BY <1>1, <1>2 DEF SectionsWhole, Switching, OwnYield, IrqState
<1> QED
  BY <1>3, <1>4, <1>5, <1>6, <1>7

\* The section of the current thread ends with the state it began with.
LEMMA RestoreIrqInv ==
    ASSUME Inv, ~lost, ~lost', NEW t \in Threads, RestoreIrq(t)
    PROVE  SuspendCounts' /\ SectionsWhole' /\ Switching' /\ OwnYield' /\ IrqState'
<1> USE DEF Inv, CpuInv, TypeOK, Goto, Runs, ps, locals, host, YieldTail, Outside, RestoreIrq
<1>1. t = current /\ apic = "wait" /\ \A r \in Threads : pc[r] # "restore"
  BY Executes
<1>2. \A u \in Threads : Owed(u)' = Owed(u)
  BY OwedSame
<1>3. SuspendCounts'
  BY <1>1, <1>2, CountsSame
<1>4. SectionsWhole'
  BY <1>1, <1>2 DEF SectionsWhole, Switching, OwnYield, IrqState
<1>5. Switching'
  BY <1>1, <1>2 DEF SectionsWhole, Switching, OwnYield, IrqState
<1>6. OwnYield'
  BY <1>1, <1>2 DEF SectionsWhole, Switching, OwnYield, IrqState
<1>7. IrqState'
  BY <1>1, <1>2 DEF SectionsWhole, Switching, OwnYield, IrqState
<1> QED
  BY <1>3, <1>4, <1>5, <1>6, <1>7

\* The section of detach_thread ends in the same way.
LEMMA ExitThreadInv ==
    ASSUME Inv, ~lost, ~lost', NEW t \in Threads, ExitThread(t)
    PROVE  SuspendCounts' /\ SectionsWhole' /\ Switching' /\ OwnYield' /\ IrqState'
<1> USE DEF Inv, CpuInv, TypeOK, Goto, Runs, ps, locals, host, YieldTail, Outside, ExitThread
<1>1. t = current /\ apic = "wait" /\ \A r \in Threads : pc[r] # "restore"
  BY Executes
<1>2. \A u \in Threads : Owed(u)' = Owed(u)
  BY OwedSame
<1>3. SuspendCounts'
  BY <1>1, <1>2, CountsSame
<1>4. SectionsWhole'
  BY <1>1, <1>2 DEF SectionsWhole, Switching, OwnYield, IrqState
<1>5. Switching'
  BY <1>1, <1>2 DEF SectionsWhole, Switching, OwnYield, IrqState
<1>6. OwnYield'
  BY <1>1, <1>2 DEF SectionsWhole, Switching, OwnYield, IrqState
<1>7. IrqState'
  BY <1>1, <1>2 DEF SectionsWhole, Switching, OwnYield, IrqState
<1> QED
  BY <1>3, <1>4, <1>5, <1>6, <1>7

\* A thread that is created is suspended and outside.
LEMMA CreateThreadInv ==
    ASSUME Inv, ~lost, ~lost', NEW t \in Threads, NEW n \in Threads, CreateThread(t, n)
    PROVE  SuspendCounts' /\ SectionsWhole' /\ Switching' /\ OwnYield' /\ IrqState'
<1> USE DEF Inv, CpuInv, TypeOK, Goto, Runs, ps, locals, host, YieldTail, Outside, CreateThread
<1>1. t = current /\ apic = "wait" /\ \A r \in Threads : pc[r] # "restore"
  BY Executes
<1>2. \A u \in Threads : Owed(u)' = Owed(u)
  BY OwedSame
<1>3. SuspendCounts'
  BY <1>1, <1>2, CountsSame
<1>4. SectionsWhole'
  BY <1>1, <1>2 DEF SectionsWhole, Switching, OwnYield, IrqState
<1>5. Switching'
  BY <1>1, <1>2 DEF SectionsWhole, Switching, OwnYield, IrqState
<1>6. OwnYield'
  BY <1>1, <1>2 DEF SectionsWhole, Switching, OwnYield, IrqState
<1>7. IrqState'
  BY <1>1, <1>2 DEF SectionsWhole, Switching, OwnYield, IrqState
<1> QED
  BY <1>3, <1>4, <1>5, <1>6, <1>7

\* The interrupt state becomes the one of the new thread, which is current.
LEMMA YieldRestoreInv ==
    ASSUME Inv, ~lost, ~lost', NEW t \in Threads, YieldRestore(t)
    PROVE  SuspendCounts' /\ SectionsWhole' /\ Switching' /\ OwnYield' /\ IrqState'
<1> USE DEF Inv, CpuInv, TypeOK, Goto, Runs, ps, locals, host, YieldTail, Outside, YieldRestore
<1>2. \A u \in Threads : Owed(u)' = Owed(u)
  BY OwedSame
<1>3. SuspendCounts'
  BY <1>2, CountsSame
<1>4. SectionsWhole'
  BY <1>2 DEF SectionsWhole, Switching, OwnYield, IrqState
<1>5. Switching'
  BY <1>2 DEF SectionsWhole, Switching, OwnYield, IrqState
<1>6. OwnYield'
  BY <1>2 DEF SectionsWhole, Switching, OwnYield, IrqState
<1>7. IrqState'
  BY <1>2 DEF SectionsWhole, Switching, OwnYield, IrqState
<1> QED
  BY <1>3, <1>4, <1>5, <1>6, <1>7

\* The thread that yields suspends itself: its tail ends.
LEMMA YieldSuspendInv ==
    ASSUME Inv, ~lost, ~lost', NEW t \in Threads, YieldSuspend(t)
    PROVE  SuspendCounts' /\ SectionsWhole' /\ Switching' /\ OwnYield' /\ IrqState'
<1> USE DEF Inv, CpuInv, TypeOK, Goto, Runs, ps, locals, host, YieldTail, Outside, YieldSuspend, SuspendThread
<1>2. \A u \in Threads : Owed(u)' = Owed(u)
  BY OwedSame
<1>3. SuspendCounts'
  <2>1. /\ last[t] = t /\ susp' = [susp EXCEPT ![t] = susp[t] + 1]
        /\ pc[t] = "suspend" /\ pc'[t] \notin YieldTail
        /\ current' = current /\ apic' = apic
    BY DEF OwnYield
  <2>2. \A u \in Threads : u # t => pc'[u] = pc[u] /\ susp'[u] = susp[u]
    BY <2>1
  <2>3. \A u \in Threads : Cardinality(Owed(u)) \in Nat
    BY OwedFinite
  <2>4. ASSUME NEW u \in Threads
        PROVE  susp'[u] = Count(u # current') + Count(apic' # "wait" /\ u = current')
                          + Cardinality(Owed(u)')
                          - Count(pc'[u] \in {"restore", "resume", "suspend"})
    <3>1. CASE u = t
      BY <1>2, <2>1, <2>3, <3>1 DEF SuspendCounts, Count
    <3>2. CASE u # t
      BY <1>2, <2>1, <2>2, <2>3, <3>2 DEF SuspendCounts, Count
    <3> QED
      BY <3>1, <3>2
  <2> QED
    BY <2>4 DEF SuspendCounts, Owed
<1>4. SectionsWhole'
  BY <1>2 DEF SectionsWhole, Switching, OwnYield, IrqState
<1>5. Switching'
  BY <1>2 DEF SectionsWhole, Switching, OwnYield, IrqState
<1>6. OwnYield'
  BY <1>2 DEF SectionsWhole, Switching, OwnYield, IrqState
<1>7. IrqState'
  BY <1>2 DEF SectionsWhole, Switching, OwnYield, IrqState
<1> QED
  BY <1>3, <1>4, <1>5, <1>6, <1>7

\* A message changes nothing of the CPU.
LEMMA SendIrqInv ==
    ASSUME Inv, ~lost, ~lost', SendIrq
    PROVE  SuspendCounts' /\ SectionsWhole' /\ Switching' /\ OwnYield' /\ IrqState'
<1> USE DEF Inv, CpuInv, TypeOK, Goto, Runs, ps, locals, host, YieldTail, Outside, SendIrq
<1>2. \A u \in Threads : Owed(u)' = Owed(u)
  BY OwedSame
<1>3. SuspendCounts'
  BY <1>2, CountsSame
<1>4. SectionsWhole'
  BY <1>2 DEF SectionsWhole, Switching, OwnYield, IrqState
<1>5. Switching'
  BY <1>2 DEF SectionsWhole, Switching, OwnYield, IrqState
<1>6. OwnYield'
  BY <1>2 DEF SectionsWhole, Switching, OwnYield, IrqState
<1>7. IrqState'
  BY <1>2 DEF SectionsWhole, Switching, OwnYield, IrqState
<1> QED
  BY <1>3, <1>4, <1>5, <1>6, <1>7

\* Interrupts are enabled, so no switch is under way and the current thread is
\* outside.
LEMMA TakeIrqInv ==
    ASSUME Inv, ~lost, ~lost', TakeIrq
    PROVE  SuspendCounts' /\ SectionsWhole' /\ Switching' /\ OwnYield' /\ IrqState'
<1> USE DEF Inv, CpuInv, TypeOK, Goto, Runs, ps, locals, host, YieldTail, Outside, TakeIrq, SuspendThread
<1>2. \A u \in Threads : Owed(u)' = Owed(u)
  BY OwedSame
<1>3. SuspendCounts'
  BY <1>2, OwedFinite DEF SuspendCounts, Count, Switching, OwnYield, IrqState
<1>4. SectionsWhole'
  BY <1>2 DEF SectionsWhole, Switching, OwnYield, IrqState
<1>5. Switching'
  BY <1>2 DEF SectionsWhole, Switching, OwnYield, IrqState
<1>6. OwnYield'
  BY <1>2 DEF SectionsWhole, Switching, OwnYield, IrqState
<1>7. IrqState'
  BY <1>2 DEF SectionsWhole, Switching, OwnYield, IrqState
<1> QED
  BY <1>3, <1>4, <1>5, <1>6, <1>7

\* The APIC moves its suspension from the old current thread to the new one.
LEMMA HandleIrqInv ==
    ASSUME Inv, ~lost, ~lost', NEW n \in Threads, HandleIrq(n)
    PROVE  SuspendCounts' /\ SectionsWhole' /\ Switching' /\ OwnYield' /\ IrqState'
<1> USE DEF Inv, CpuInv, TypeOK, Goto, Runs, ps, locals, host, YieldTail, Outside, HandleIrq
<1>2. \A u \in Threads : Owed(u)' = Owed(u)
  BY OwedSame
<1>3. SuspendCounts'
  BY <1>2, OwedFinite DEF SuspendCounts, Count, Switching, OwnYield, IrqState
<1>4. SectionsWhole'
  BY <1>2 DEF SectionsWhole, Switching, OwnYield, IrqState
<1>5. Switching'
  BY <1>2 DEF SectionsWhole, Switching, OwnYield, IrqState
<1>6. OwnYield'
  BY <1>2 DEF SectionsWhole, Switching, OwnYield, IrqState
<1>7. IrqState'
  BY <1>2 DEF SectionsWhole, Switching, OwnYield, IrqState
<1> QED
  BY <1>3, <1>4, <1>5, <1>6, <1>7

\* The resume of the current thread ends the suspension by the APIC.
LEMMA ApicResumeInv ==
    ASSUME Inv, ~lost, ~lost', ApicResume
    PROVE  SuspendCounts' /\ SectionsWhole' /\ Switching' /\ OwnYield' /\ IrqState'
<1> USE DEF Inv, CpuInv, TypeOK, Goto, Runs, ps, locals, host, YieldTail, Outside, ApicResume, ResumeThread
<1>2. \A u \in Threads : Owed(u)' = Owed(u)
  BY OwedSame
<1>3. SuspendCounts'
  BY <1>2, OwedFinite DEF SuspendCounts, Count, Switching, OwnYield, IrqState
<1>4. SectionsWhole'
  BY <1>2 DEF SectionsWhole, Switching, OwnYield, IrqState
<1>5. Switching'
  BY <1>2 DEF SectionsWhole, Switching, OwnYield, IrqState
<1>6. OwnYield'
  BY <1>2 DEF SectionsWhole, Switching, OwnYield, IrqState
<1>7. IrqState'
  BY <1>2 DEF SectionsWhole, Switching, OwnYield, IrqState
<1> QED
  BY <1>3, <1>4, <1>5, <1>6, <1>7

\* The yielding thread stops being current: the new thread is owed a resume.
LEMMA YieldSwitchInv ==
    ASSUME Inv, ~lost, ~lost', NEW t \in Threads, NEW n \in Threads, YieldSwitch(t, n)
    PROVE  SuspendCounts' /\ SectionsWhole' /\ Switching' /\ OwnYield' /\ IrqState'
<1> USE DEF Inv, CpuInv, TypeOK, Goto, Runs, ps, locals, host, YieldTail, Outside, YieldSwitch
<1>1. /\ t = current /\ apic = "wait" /\ \A r \in Threads : pc[r] # "restore"
      /\ Owed(t) = {}
  BY Executes
<1>2. \A u \in Threads : u # n => Owed(u)' = Owed(u)
  BY DEF Owed
<1>3. Owed(n)' \ {t} = Owed(n) \ {t} /\ t \notin Owed(n)
      /\ (t \in Owed(n)' <=> n # current)
  BY DEF Owed
<1>4. Cardinality(Owed(n)') = Cardinality(Owed(n)) + (IF n # current THEN 1 ELSE 0)
  BY <1>3, OwedFinite, OneDiffers DEF One
<1>5. SuspendCounts'
  BY <1>1, <1>2, <1>4, OwedFinite DEF SuspendCounts, Count
<1>6. SectionsWhole'
  BY <1>1 DEF SectionsWhole, IrqState
<1>7. Switching'
  BY <1>1 DEF SectionsWhole, IrqState, Switching
<1>8. OwnYield'
  BY <1>1 DEF OwnYield, IrqState
<1>9. IrqState'
  BY <1>1 DEF IrqState
<1> QED
  BY <1>5, <1>6, <1>7, <1>8, <1>9

\* The resume that the new thread was owed.
LEMMA YieldResumeInv ==
    ASSUME Inv, ~lost, ~lost', NEW t \in Threads, YieldResume(t)
    PROVE  SuspendCounts' /\ SectionsWhole' /\ Switching' /\ OwnYield' /\ IrqState'
<1> USE DEF Inv, CpuInv, TypeOK, Goto, Runs, ps, locals, host, YieldTail, Outside, YieldResume,
            ResumeThread
<1> DEFINE n == new[t]
<1>1. n \in Threads /\ n # t /\ susp[n] # 0
  BY DEF OwnYield
<1>2. \A u \in Threads : u # n => Owed(u)' = Owed(u)
  BY DEF Owed
<1>3. Owed(n)' \ {t} = Owed(n) \ {t} /\ t \in Owed(n) /\ t \notin Owed(n)'
  BY DEF Owed
<1>4. Cardinality(Owed(n)') = Cardinality(Owed(n)) - 1
  BY <1>3, OwedFinite, OneDiffers DEF One
<1>5. SuspendCounts'
  BY <1>1, <1>2, <1>4, OwedFinite DEF SuspendCounts, Count
<1>6. SectionsWhole'
  BY DEF SectionsWhole
<1>7. Switching'
  BY DEF Switching
<1>8. OwnYield'
  BY DEF OwnYield
<1>9. IrqState'
  BY DEF IrqState, Switching
<1> QED
  BY <1>5, <1>6, <1>7, <1>8, <1>9

\* At the start the first thread is current and not suspended.
LEMMA InitInv == Init => Inv
<1> SUFFICES ASSUME Init PROVE Inv
  OBVIOUS
<1> USE DEF Init
<1>1. TypeOK
  <2>1. First \in Threads /\ Idle \in Threads /\ MaxPosted \in Nat
    BY CpuAssumption
  <2>2. susp \in [Threads -> Nat] /\ posted \in 0 .. MaxPosted
    BY <2>1
  <2> QED
    BY <2>1, <2>2, Zenon DEF TypeOK
<1>2. \A t \in Threads : Owed(t) = {}
  BY DEF Owed
<1>3. SuspendCounts
  BY <1>2, FS_EmptySet DEF SuspendCounts, Count
<1>4. SectionsWhole
  BY DEF SectionsWhole
<1>5. Switching
  BY DEF Switching
<1>6. OwnYield
  BY DEF OwnYield, YieldTail
<1>7. IrqState
  BY CpuAssumption DEF IrqState
<1> QED
  BY <1>1, <1>3, <1>4, <1>5, <1>6, <1>7 DEF Inv, CpuInv

\* Every step keeps the invariant.
LEMMA NextInv == Inv /\ [Next]_vars => Inv'
<1> SUFFICES ASSUME Inv, [Next]_vars PROVE Inv'
  OBVIOUS
<1>1. TypeOK' /\ ps_current' = current' /\ (lost => lost')
  BY TypeStep
<1>2. CASE lost'
  BY <1>1, <1>2
  DEF Inv, CpuInv, SuspendCounts, SectionsWhole, Switching, OwnYield, IrqState
<1>3. CASE ~lost'
  <2>1. ~lost
    BY <1>1, <1>3
  <2> DEFINE Goal == SuspendCounts' /\ SectionsWhole' /\ Switching' /\ OwnYield' /\ IrqState'
  <2>2. ASSUME UNCHANGED vars PROVE Goal
    <3>1. \A u : Owed(u)' = Owed(u)
      BY <2>2 DEF vars, Owed
    <3> QED
      BY <2>2, <3>1 DEF vars, Inv, CpuInv, SuspendCounts, SectionsWhole, Switching, OwnYield,
                   IrqState
  <2>3. ASSUME NEW t \in Threads, KernelStep(t) PROVE Goal
    BY <1>3, <2>1, <2>3, ThreadStartInv, RestoreIrqInv, DisableIrqInv, YieldSwitchInv,
       YieldRestoreInv, YieldResumeInv, YieldSuspendInv DEF KernelStep
  <2>4. ASSUME NEW t \in Threads, DisableIrq(t) \/ ExitThread(t) \/ \E n \in Threads : CreateThread(t, n)
        PROVE  Goal
    BY <1>3, <2>1, <2>4, DisableIrqInv, ExitThreadInv, CreateThreadInv
  <2>5. ASSUME SendIrq \/ TakeIrq \/ ApicStep PROVE Goal
    BY <1>3, <2>1, <2>5, SendIrqInv, TakeIrqInv, HandleIrqInv, ApicResumeInv DEF ApicStep
  <2>6. Goal
    BY <2>2, <2>3, <2>4, <2>5 DEF Next
  <2> QED
    BY <1>1, <2>6 DEF Inv, CpuInv
<1> QED
  BY <1>2, <1>3

(***************************************************************************)
(* The theorems                                                            *)
(***************************************************************************)
\* The bookkeeping of the emulated CPU is right between any two host calls:
\* every suspend count is accounted for, and the APIC finds no thread in a
\* section.
THEOREM BooksKept == Spec => []CpuInv
<1>1. Inv => CpuInv
  BY DEF Inv
<1> QED
  BY InitInv, NextInv, <1>1, PTL DEF Spec

\* Until a resume is lost, the host executes one thread besides the tails of
\* yields, the current one, and none while the APIC handles an interrupt.
THEOREM OneThreadExecutes == Spec => []OneCpu
<1>1. Inv => OneCpu
  <2> SUFFICES ASSUME Inv, ~lost, NEW t \in Threads, susp[t] = 0
               PROVE  \/ pc[t] \in {"resume", "suspend"}
                      \/ apic = "wait" /\ (t = current \/ pc[t] = "restore")
    BY DEF OneCpu, Executing
  <2>1. CASE pc[t] \in YieldTail
    BY <2>1 DEF YieldTail, Inv, Switching
  <2>2. CASE pc[t] \notin YieldTail
    BY <2>2, Executes
  <2> QED
    BY <2>1, <2>2
<1> QED
  BY InitInv, NextInv, <1>1, PTL DEF Spec

\* A resume is lost in one way only: a switch selects a thread that is still in
\* the tail of its own yield.
THEOREM LossIsInTail == Spec => LostOnlyInTail
<1> DEFINE Lost == \E t \in Executing :
                       /\ pc[t] \in {"resume", "suspend"}
                       /\ \/ apic = "resume" /\ t = current
                          \/ \E u \in Threads \ {t} : pc[u] = "resume" /\ new[u] = t
<1>1. ASSUME Inv, [Next]_vars, lost', ~lost PROVE Lost
  <2> USE DEF Inv, CpuInv, TypeOK
  <2>1. CASE ApicResume
    <3>1. susp[current] = 0 /\ apic = "resume"
      BY <1>1, <2>1 DEF ApicResume, ResumeThread
    <3>2. pc[current] \in YieldTail
      BY <1>1, <3>1, OwedFinite DEF SuspendCounts, Count, YieldTail
    <3>3. pc[current] # "restore"
      BY <1>1, <3>1 DEF Switching
    <3> QED
      BY <3>1, <3>2, <3>3, <1>1 DEF YieldTail, Executing
  <2>2. ASSUME NEW u \in Threads, YieldResume(u) PROVE Lost
    <3> DEFINE n == new[u]
    <3>1. n \in Threads /\ n # u /\ susp[n] = 0 /\ pc[u] = "resume"
      BY <1>1, <2>2 DEF YieldResume, ResumeThread, Runs, OwnYield, YieldTail
    <3>2. Cardinality(Owed(n)) \in Nat \ {0}
      <4>1. u \in Owed(n)
        BY <3>1 DEF Owed
      <4> QED
        BY <4>1, OwedFinite
    <3>3. pc[n] \in YieldTail /\ n = current
      <4>1. 0 = Count(n # current) + Count(apic # "wait" /\ n = current)
                + Cardinality(Owed(n))
                - Count(pc[n] \in {"restore", "resume", "suspend"})
        BY <1>1, <3>1 DEF SuspendCounts
      <4> HIDE DEF n
      <4> QED
        BY <3>2, <4>1 DEF Count, YieldTail
    <3>4. pc[n] # "restore"
      BY <1>1, <3>1, <3>3 DEF Switching
    <3> QED
      BY <3>1, <3>3, <3>4 DEF YieldTail, Executing
  <2>3. CASE lost' = lost
    BY <1>1, <2>3
  <2> QED
    BY <1>1, <2>1, <2>2, <2>3 
    DEF Next, KernelStep, ApicStep, vars, ThreadStart, DisableIrq, RestoreIrq, ExitThread,
        CreateThread, YieldSwitch, YieldRestore, YieldSuspend, SendIrq, TakeIrq, HandleIrq, host
<1>2. Inv /\ [Next]_vars => [lost' /\ ~lost => Lost]_vars
  BY <1>1
<1> QED
  BY InitInv, NextInv, <1>2, PTL DEF Spec, LostOnlyInTail

=============================================================================
