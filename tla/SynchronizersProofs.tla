------------------------ MODULE SynchronizersProofs ------------------------
(***************************************************************************)
(* The synchronizers, for any number of threads: the count of waiters is   *)
(* exact, the mutex has one holder, and no sleeper is left behind.         *)
(***************************************************************************)
EXTENDS Synchronizers, CommonTheorems

USE SynchronizersAssumption

\* Places from which a thread looks at the value again or wakes a sleeper.
Active == IF kind = "event" THEN {"released", "notify"}
          ELSE {"released", "notify", "count", "try", "wait", "block", "woken"}

\* A step that only moves t changes each of the three counts by that thread.
LEMMA GotoCounts ==
    ASSUME TypeOK, NEW t \in Threads, NEW l \in Labels, Goto(t, l), kind' = kind
    PROVE  /\ pc' \in [Threads -> Labels] /\ pc'[t] = l
           /\ \A u \in Threads \ {t} : pc'[u] = pc[u]
           /\ Cardinality(Waiting) \in Nat /\ Cardinality(Holders) \in Nat
           /\ Cardinality(Attentive) \in Nat
           /\ Cardinality(Waiting') \in Nat /\ Cardinality(Holders') \in Nat
           /\ Cardinality(Waiting') = Cardinality(Waiting)
                + One(l, Guarded) - One(pc[t], Guarded)
           /\ Cardinality(Holders') = Cardinality(Holders)
                + One(l, {"got", "owner"}) - One(pc[t], {"got", "owner"})
           /\ Cardinality(Attentive') = Cardinality(Attentive)
                + One(l, Active) - One(pc[t], Active)
<1>1. pc \in [Threads -> Labels] /\ pc' = [pc EXCEPT ![t] = l]
  BY DEF TypeOK, Goto
<1>2. IsFiniteSet(Threads)
  OBVIOUS
<1>3. pc' \in [Threads -> Labels] /\ pc'[t] = l /\ \A u \in Threads \ {t} : pc'[u] = pc[u]
  BY <1>1
<1>4. ASSUME NEW S
      PROVE  /\ Cardinality(Where(Threads, pc, S)) \in Nat
             /\ Cardinality(Where(Threads, pc', S)) \in Nat
             /\ Cardinality(Where(Threads, pc', S))
                  = Cardinality(Where(Threads, pc, S)) + One(l, S) - One(pc[t], S)
  BY <1>2, <1>3, MoveCounts
<1>5. /\ Waiting = Where(Threads, pc, Guarded)
      /\ Waiting' = Where(Threads, pc', Guarded)
  BY DEF Waiting, Guarded, Where
<1>6. /\ Holders = Where(Threads, pc, {"got", "owner"})
      /\ Holders' = Where(Threads, pc', {"got", "owner"})
  BY DEF Holders, Where
<1>7. /\ Attentive = Where(Threads, pc, Active)
      /\ Attentive' = Where(Threads, pc', Active)
  BY DEF Attentive, Active, Where
<1> QED
  BY <1>3, <1>4, <1>5, <1>6, <1>7, Zenon

\* A thread in the blocked list is counted as a waiter.
LEMMA SleeperCounted ==
    ASSUME SyncInv, blocked # << >> PROVE waiters # 0
<1>1. Head(blocked) \in ToSet(blocked) /\ ToSet(blocked) \subseteq Threads
  BY FrontInList DEF SyncInv, TypeOK
<1>2. Head(blocked) \in Waiting
  BY <1>1 DEF SyncInv, TypeOK, Waiting, Guarded
<1>3. IsFiniteSet(Waiting)
  <2>1. Waiting \in SUBSET Threads
    BY DEF Waiting
  <2> QED
    BY <2>1, FS_Subset
<1> QED
  BY <1>2, <1>3, FS_EmptySet DEF SyncInv, WaitersCounted

\* The inductive invariant.
Inv == SyncInv /\ MutualExclusion /\ NoStuckWaiter

\* The initial state satisfies the invariant.
LEMMA InitInv == Init => Inv
<1> SUFFICES ASSUME Init PROVE Inv
  OBVIOUS
<1>1. TypeOK
  <2>1. << >> \in Seq(Threads) /\ ToSet(<< >>) = {} /\ Distinct(<< >>)
    BY DEF ToSet, Distinct
  <2> QED
    BY <2>1 DEF Init, TypeOK, Labels
<1>2. Waiting = {} /\ Holders = {}
  BY DEF Init, Waiting, Holders, Guarded
<1>3. WaitersCounted /\ MutualExclusion
  BY <1>2, FS_EmptySet DEF Init, WaitersCounted, MutualExclusion
<1> QED
  BY <1>1, <1>3 DEF Inv, SyncInv, NoStuckWaiter, Init

\* Steps that leave the blocked list alone.  A count, a try or a timeout keeps
\* the free units and the threads that look at them in balance.
LEMMA QuietSteps ==
    ASSUME Inv, NEW t \in Threads, kind' = kind, blocked' = blocked,
           \/ TryFirst(t) \/ Count(t) \/ Try(t) \/ Wait(t) \/ Recheck(t)
           \/ TimeoutExpires(t) \/ Uncount(t) \/ Release(t) \/ Done(t) \/ LoadWaiters(t)
    PROVE  Inv'
<1> USE DEF Inv, SyncInv
<1>0. /\ kind \in {"mutex", "event", "auto_reset_event", "semaphore"}
      /\ value \in Nat /\ (kind # "semaphore" => value \in {0, 1}) /\ waiters \in Nat
      /\ MaxRes \in Nat \ {0} /\ value <= MaxRes /\ pc[t] \in Labels
      /\ blocked # << >> => waiters # 0
  BY SleeperCounted DEF TypeOK
<1>1. PICK l \in Labels : Goto(t, l)
  BY <1>0 DEF TryFirst, Count, Try, Wait, Recheck, TimeoutExpires, Uncount, Release, Done,
     LoadWaiters, WaitReturns, Labels, Guarded
<1> DEFINE W == Cardinality(Waiting)
           H == Cardinality(Holders)
           A == Cardinality(Attentive)
<1>2. /\ pc' \in [Threads -> Labels] /\ pc'[t] = l
      /\ \A u \in Threads \ {t} : pc'[u] = pc[u]
      /\ W \in Nat /\ H \in Nat /\ A \in Nat
      /\ Cardinality(Waiting') \in Nat /\ Cardinality(Holders') \in Nat
      /\ Cardinality(Waiting') = W + One(l, Guarded) - One(pc[t], Guarded)
      /\ Cardinality(Holders') = H + One(l, {"got", "owner"}) - One(pc[t], {"got", "owner"})
      /\ Cardinality(Attentive') = A + One(l, Active) - One(pc[t], Active)
  BY <1>1, GotoCounts, Zenon
<1>3. /\ waiters = W
      /\ kind = "mutex" => H = value
      /\ blocked # << >> => A >= IF kind = "mutex" THEN 1 - value ELSE value
  BY DEF WaitersCounted, MutualExclusion, NoStuckWaiter
<1> HIDE DEF W, H, A, Inv, SyncInv
<1>4. ASSUME pc[t] # "blocked", l # "blocked", value' \in 0..MaxRes, waiters' \in Nat,
             kind # "semaphore" => value' \in {0, 1},
             waiters' = waiters + One(l, Guarded) - One(pc[t], Guarded),
             kind = "mutex" =>
                 value' = value + One(l, {"got", "owner"}) - One(pc[t], {"got", "owner"}),
             blocked # << >> =>
                 A + One(l, Active) - One(pc[t], Active) >= IF kind = "mutex" THEN 1 - value' ELSE value'
      PROVE  Inv'
  <2>1. TypeOK'
    BY <1>2, <1>4 DEF Inv, SyncInv, TypeOK
  <2>2. WaitersCounted'
    BY <1>2, <1>3, <1>4 DEF WaitersCounted
  <2>3. MutualExclusion'
    BY <1>2, <1>3, <1>4 DEF MutualExclusion
  <2>4. NoStuckWaiter'
    BY <1>2, <1>4 DEF NoStuckWaiter
  <2> QED
    BY <2>1, <2>2, <2>3, <2>4 DEF Inv, SyncInv
<1>5. pc \in [Threads -> Labels]
  BY DEF Inv, SyncInv, TypeOK
<1>6. ASSUME TryFirst(t) PROVE Inv'
  BY <1>0, <1>2, <1>3, <1>4, <1>5, <1>6
     DEF TryFirst, Goto, At, Available, Taken, One, Guarded, Active
<1>7. ASSUME Count(t) PROVE Inv'
  BY <1>0, <1>2, <1>3, <1>4, <1>5, <1>7 DEF Count, Goto, At, One, Guarded, Active
<1>8. ASSUME Try(t) PROVE Inv'
  BY <1>0, <1>2, <1>3, <1>4, <1>5, <1>8
     DEF Try, Goto, At, Available, Taken, One, Guarded, Active
<1>9. ASSUME Wait(t) PROVE Inv'
  BY <1>0, <1>2, <1>3, <1>4, <1>5, <1>9
     DEF Wait, Goto, At, WaitReturns, Old, One, Guarded, Active
<1>10. ASSUME Recheck(t) PROVE Inv'
  BY <1>0, <1>2, <1>3, <1>4, <1>5, <1>10
     DEF Recheck, Goto, At, WaitReturns, Old, One, Guarded, Active
<1>11. ASSUME TimeoutExpires(t) PROVE Inv'
  BY <1>0, <1>2, <1>3, <1>4, <1>5, <1>11
     DEF TimeoutExpires, Goto, At, WaitReturns, Old, One, Guarded, Active
<1>12. ASSUME Uncount(t) PROVE Inv'
  BY <1>0, <1>2, <1>3, <1>4, <1>5, <1>12 DEF Uncount, Goto, One, Guarded, Active
<1>13. ASSUME Release(t) PROVE Inv'
  <2>1. /\ l = "released" /\ waiters' = waiters /\ value' = Released
        /\ pc[t] = IF kind = "mutex" THEN "owner" ELSE "idle"
        /\ kind = "semaphore" => value < MaxRes
    BY <1>2, <1>5, <1>13 DEF Release, Goto, At
  <2>2. CASE kind = "mutex"
    <3>1. value = 1
      BY <2>1, <2>2, <1>0, <1>2, <1>3 DEF One
    <3> QED
      BY <2>1, <2>2, <3>1, <1>0, <1>2, <1>3, <1>4 DEF Released, One, Guarded, Active
  <2>3. CASE kind # "mutex"
    BY <2>1, <2>3, <1>0, <1>2, <1>3, <1>4 DEF Released, One, Guarded, Active
  <2> QED
    BY <2>2, <2>3
<1>14. ASSUME Done(t) PROVE Inv'
  BY <1>0, <1>2, <1>3, <1>4, <1>5, <1>14 DEF Done, Goto, At, One, Guarded, Active
<1>15. ASSUME LoadWaiters(t) PROVE Inv'
  BY <1>0, <1>2, <1>3, <1>4, <1>5, <1>15 DEF LoadWaiters, Goto, At, One, Guarded, Active
<1> QED
  BY <1>6, <1>7, <1>8, <1>9, <1>10, <1>11, <1>12, <1>13, <1>14, <1>15

\* A thread goes to sleep only while nothing is free.
LEMMA BlockInv ==
    ASSUME Inv, NEW t \in Threads, kind' = kind, Block(t)
    PROVE  Inv'
<1>0. /\ kind \in {"mutex", "event", "auto_reset_event", "semaphore"}
      /\ pc \in [Threads -> Labels] /\ pc[t] = "block" /\ TypeOK
      /\ value' = value /\ waiters' = waiters
  BY DEF Inv, SyncInv, TypeOK, Block, At
<1>1. PICK l \in {"blocked", "delayed", "got", "try"} : Goto(t, l)
  BY DEF Block, WaitReturns
<1>2. l \in Labels
  BY DEF Labels, Guarded
<1> DEFINE W == Cardinality(Waiting)
           H == Cardinality(Holders)
           A == Cardinality(Attentive)
<1>3. /\ pc' \in [Threads -> Labels] /\ pc'[t] = l
      /\ \A u \in Threads \ {t} : pc'[u] = pc[u]
      /\ W \in Nat /\ H \in Nat /\ A \in Nat
      /\ Cardinality(Waiting') = W + One(l, Guarded) - One(pc[t], Guarded)
      /\ Cardinality(Holders') = H + One(l, {"got", "owner"}) - One(pc[t], {"got", "owner"})
      /\ Cardinality(Attentive') = A + One(l, Active) - One(pc[t], Active)
  BY <1>0, <1>1, <1>2, GotoCounts, Zenon
<1>4. /\ waiters = W
      /\ kind = "mutex" => H = value
      /\ blocked # << >> => A >= IF kind = "mutex" THEN 1 - value ELSE value
  BY DEF Inv, SyncInv, WaitersCounted, MutualExclusion, NoStuckWaiter
<1> HIDE DEF W, H, A
<1>5. /\ l = "got" => kind = "event"
      /\ l \in {"blocked", "delayed"} => value = Old
      /\ l = "blocked" => blocked' = Append(blocked, t)
      /\ l # "blocked" => blocked' = blocked
  BY <1>0, <1>1, <1>3 DEF Block, Goto, WaitReturns
<1>6. TypeOK'
  <2>1. CASE l # "blocked"
    BY <1>0, <1>3, <1>5, <2>1 DEF TypeOK
  <2>2. CASE l = "blocked"
    <3>1. /\ Append(blocked, t) \in Seq(Threads) /\ Distinct(Append(blocked, t))
          /\ ToSet(Append(blocked, t)) = ToSet(blocked) \cup {t}
      BY <1>0, AppendElement DEF TypeOK
    <3> QED
      BY <1>0, <1>3, <1>5, <2>2, <3>1 DEF TypeOK
  <2> QED
    BY <2>1, <2>2
<1>7. WaitersCounted' /\ MutualExclusion'
  BY <1>0, <1>3, <1>4, <1>5 DEF WaitersCounted, MutualExclusion, One, Guarded
<1>8. NoStuckWaiter'
  <2>1. CASE l \in {"blocked", "delayed"}
    <3>1. (IF kind = "mutex" THEN 1 - value ELSE value) = 0
      BY <2>1, <1>5 DEF Old
    <3>2. Cardinality(Attentive') >= 0
      <4>1. Attentive' \in SUBSET Threads
        BY DEF Attentive
      <4> QED
        BY <4>1, FS_Subset, FS_CardinalityType
    <3> QED
      BY <3>1, <3>2, <1>0 DEF NoStuckWaiter
  <2>2. CASE l \in {"got", "try"}
    BY <1>0, <1>3, <1>4, <1>5, <2>2 DEF NoStuckWaiter, One, Active
  <2> QED
    BY <2>1, <2>2
<1> QED
  BY <1>6, <1>7, <1>8 DEF Inv, SyncInv

\* A notifier that wakes one sleeper hands its place to it; a notified event
\* leaves no sleeper.
LEMMA NotifyInv ==
    ASSUME Inv, NEW t \in Threads, kind' = kind, Notify(t)
    PROVE  Inv'
<1> DEFINE woken == IF kind = "event" THEN ToSet(blocked)
                    ELSE IF blocked = << >> THEN {} ELSE {Head(blocked)}
<1>0. /\ kind \in {"mutex", "event", "auto_reset_event", "semaphore"}
      /\ pc \in [Threads -> Labels] /\ pc[t] = "notify" /\ TypeOK
      /\ value' = value /\ waiters' = waiters
      /\ pc' = [u \in Threads |-> IF u = t THEN "idle"
                                  ELSE IF u \in woken THEN "woken" ELSE pc[u]]
      /\ blocked' = IF kind = "event" \/ blocked = << >> THEN << >> ELSE Tail(blocked)
  BY DEF Inv, SyncInv, TypeOK, Notify, At
<1>1. /\ woken \subseteq ToSet(blocked) /\ ToSet(blocked) \subseteq Threads
      /\ \A u \in Threads : u \in ToSet(blocked) <=> pc[u] = "blocked"
      /\ blocked = << >> <=> ToSet(blocked) = {}
      /\ blocked # << >> => Head(blocked) \in ToSet(blocked)
  BY <1>0, FrontInList DEF TypeOK
<1> HIDE DEF woken
<1>2. TypeOK'
  <2>1. pc' \in [Threads -> Labels]
    BY <1>0 DEF Labels, Guarded
  <2>2. blocked' \in Seq(Threads) /\ Distinct(blocked') /\ ToSet(blocked') = ToSet(blocked) \ woken
    <3>1. CASE kind = "event" \/ blocked = << >>
      <4>1. << >> \in Seq(Threads) /\ ToSet(<< >>) = {} /\ Distinct(<< >>)
        BY DEF ToSet, Distinct
      <4> QED
        BY <3>1, <4>1, <1>0, <1>1 DEF woken
    <3>2. CASE ~(kind = "event" \/ blocked = << >>)
      BY <3>2, <1>0, PopFront DEF TypeOK, woken
    <3> QED
      BY <3>1, <3>2
  <2>3. \A u \in Threads : u \in ToSet(blocked') <=> pc'[u] = "blocked"
    BY <1>0, <1>1, <2>2
  <2> QED
    BY <1>0, <2>1, <2>2, <2>3 DEF TypeOK
<1>3. Waiting' = Waiting /\ Holders' = Holders
  BY <1>0, <1>1 DEF Waiting, Holders, Guarded
<1>4. WaitersCounted' /\ MutualExclusion'
  BY <1>0, <1>3 DEF Inv, SyncInv, WaitersCounted, MutualExclusion
<1>5. NoStuckWaiter'
  <2>1. CASE kind = "event" \/ blocked = << >>
    BY <2>1, <1>0 DEF NoStuckWaiter
  <2>2. CASE ~(kind = "event" \/ blocked = << >>)
    <3> DEFINE h == Head(blocked)
    <3>1. /\ h \in Threads /\ pc[h] = "blocked" /\ h # t /\ woken = {h}
      BY <2>2, <1>0, <1>1 DEF woken
    <3>2. Attentive' = (Attentive \ {t}) \cup {h} /\ t \in Attentive /\ h \notin Attentive \ {t}
      <4> HIDE DEF h
      <4> QED
        BY <2>2, <3>1, <1>0 DEF Attentive
    <3>3. IsFiniteSet(Attentive)
      <4>1. Attentive \in SUBSET Threads
        BY DEF Attentive
      <4> QED
        BY <4>1, FS_Subset
    <3>4. Cardinality(Attentive') = Cardinality(Attentive)
      <4> HIDE DEF h
      <4>1. /\ IsFiniteSet(Attentive \ {t}) /\ Cardinality(Attentive) \in Nat
            /\ Cardinality(Attentive \ {t}) = Cardinality(Attentive) - 1
        BY <3>2, <3>3, FS_RemoveElement, FS_CardinalityType
      <4>2. Cardinality((Attentive \ {t}) \cup {h}) = Cardinality(Attentive \ {t}) + 1
        BY <3>2, <4>1, FS_AddElement
      <4> QED
        BY <3>2, <4>1, <4>2
    <3> QED
      BY <2>2, <3>4, <1>0 DEF Inv, NoStuckWaiter
  <2> QED
    BY <2>1, <2>2
<1> QED
  BY <1>2, <1>4, <1>5 DEF Inv, SyncInv

\* event::reset clears the value and moves no thread.
LEMMA ResetInv ==
    ASSUME Inv, NEW t \in Threads, kind' = kind, Reset(t)
    PROVE  Inv'
<1>1. /\ kind = "event" /\ value' = 0 /\ waiters' = waiters /\ blocked' = blocked /\ pc' = pc
  BY DEF Reset
<1>2. Waiting' = Waiting /\ Attentive' = Attentive
  BY <1>1 DEF Waiting, Attentive, Guarded
<1>3. Cardinality(Attentive) \in Nat
  <2>1. Attentive \in SUBSET Threads
    BY DEF Attentive
  <2> QED
    BY <2>1, FS_Subset, FS_CardinalityType
<1> QED
  BY <1>1, <1>2, <1>3
     DEF Inv, SyncInv, TypeOK, WaitersCounted, MutualExclusion, NoStuckWaiter

\* Every step keeps the invariant.
LEMMA NextInv == Inv /\ [Next]_vars => Inv'
<1> SUFFICES ASSUME Inv, [Next]_vars PROVE Inv'
  OBVIOUS
<1>1. CASE Next
  <2>1. PICK t \in Threads : Step(t)
    BY <1>1 DEF Next
  <2>2. kind' = kind
    BY <1>1 DEF Next
  <2>3. CASE Block(t)
    BY <2>2, <2>3, BlockInv
  <2>4. CASE Notify(t)
    BY <2>2, <2>4, NotifyInv
  <2>5. CASE Reset(t)
    BY <2>2, <2>5, ResetInv
  <2>6. CASE \/ TryFirst(t) \/ Count(t) \/ Try(t) \/ Wait(t) \/ Recheck(t)
             \/ TimeoutExpires(t) \/ Uncount(t) \/ Release(t) \/ Done(t) \/ LoadWaiters(t)
    <3>1. blocked' = blocked
      BY <2>6 DEF TryFirst, Count, Try, Wait, Recheck, TimeoutExpires, Uncount, Release,
         Done, LoadWaiters
    <3> QED
      BY <2>2, <2>6, <3>1, QuietSteps
  <2> QED
    BY <2>1, <2>3, <2>4, <2>5, <2>6 DEF Step
<1>2. CASE UNCHANGED vars
  <2>1. kind' = kind /\ value' = value /\ waiters' = waiters /\ blocked' = blocked /\ pc' = pc
    BY <1>2 DEF vars
  <2>2. Waiting' = Waiting /\ Holders' = Holders /\ Attentive' = Attentive
    BY <2>1 DEF Waiting, Holders, Attentive, Guarded
  <2> QED
    BY <2>1, <2>2
       DEF Inv, SyncInv, TypeOK, WaitersCounted, MutualExclusion, NoStuckWaiter
<1> QED
  BY <1>1, <1>2

\* For any number of threads, with and without timeouts, and each of the four
\* classes: waiters_ counts exactly the threads inside a wait, and the blocked
\* list holds exactly the sleepers.
THEOREM WaitersStayCounted == Spec => []SyncInv
<1>1. Inv => SyncInv
  BY DEF Inv
<1> QED
  BY <1>1, InitInv, NextInv, PTL DEF Spec

\* However lock(), try_lock() with a timeout and unlock() interleave, one
\* thread holds the mutex at a time, and held_ says whether one does.
THEOREM MutexExcludes == Spec => []MutualExclusion
<1>1. Inv => MutualExclusion
  BY DEF Inv
<1> QED
  BY <1>1, InitInv, NextInv, PTL DEF Spec

\* A release is never missed: while something is free and a thread sleeps, a
\* thread is on its way to take it or to notify, although waiters_ is read
\* without a lock.
THEOREM NoWaiterStuck == Spec => []NoStuckWaiter
<1>1. Inv => NoStuckWaiter
  BY DEF Inv
<1> QED
  BY <1>1, InitInv, NextInv, PTL DEF Spec

=============================================================================
