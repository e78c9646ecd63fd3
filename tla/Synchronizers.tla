--------------------------- MODULE Synchronizers ---------------------------
(***************************************************************************)
(* mutex, event, auto_reset_event and semaphore of Chino OS                *)
(* (src/include/sdk/chino/os/processapi.h) on top of atomic_wait and       *)
(* atomic_notify (module Scheduler): one object of the given kind, threads *)
(* of one priority that may be preempted between any two steps.            *)
(*                                                                         *)
(* The four classes share their shape: try; count yourself as a waiter;    *)
(* until the try succeeds, wait for the value to change.  To release,      *)
(* change the value and, if the waiter count read after that is not zero,  *)
(* notify.                                                                 *)
(***************************************************************************)
EXTENDS Lists, FiniteSets

CONSTANTS Threads,
          Kinds,       \* the classes the object may be of
          Timed,       \* the threads that pass a timeout
          MaxRes       \* bound on the semaphore's count

ASSUME SynchronizersAssumption ==
    /\ Kinds \subseteq {"mutex", "event", "auto_reset_event", "semaphore"}
    /\ IsFiniteSet(Threads) /\ Timed \subseteq Threads
    /\ MaxRes \in Nat \ {0}

VARIABLES kind,        \* the object's class; never changes
          value,       \* held_, signal_ or res_
          waiters,     \* waiters_
          blocked,     \* the scheduler's blocked list, waiters of this object only
          pc

vars == <<kind, value, waiters, blocked, pc>>

Init ==
    /\ kind \in Kinds
    /\ value = 0
    /\ waiters = 0
    /\ blocked = << >>
    /\ pc = [t \in Threads |-> "idle"]

\* The value the wait functions pass to atomic_wait as `old'.
Old == IF kind = "mutex" THEN 1 ELSE 0

\* try_lock, try_wait and try_take are one compare-exchange.  (The retry loop
\* of try_take reads the count again until its exchange succeeds or finds 0.)
Available == IF kind = "mutex" THEN value = 0 ELSE value # 0

Taken == CASE kind = "mutex"     -> 1
           [] kind = "event"     -> value
           [] kind = "semaphore" -> value - 1
           [] OTHER              -> 0

Released == CASE kind = "mutex"     -> 0
              [] kind = "semaphore" -> value + 1
              [] OTHER              -> 1

At(t, l) == pc[t] = l

Goto(t, l) == pc' = [pc EXCEPT ![t] = l]

(***************************************************************************)
(* lock, wait and take                                                     *)
(***************************************************************************)
\* The first try, before the thread counts itself.
TryFirst(t) ==
    /\ At(t, "idle")
    /\ IF Available
       THEN value' = Taken /\ Goto(t, "owner")
       ELSE UNCHANGED value /\ Goto(t, "count")
    /\ UNCHANGED <<waiters, blocked>>

\* waiters_guard: fetch_add.  event::wait does not try again.
Count(t) ==
    /\ At(t, "count")
    /\ waiters' = waiters + 1
    /\ Goto(t, IF kind = "event" THEN "wait" ELSE "try")
    /\ UNCHANGED <<value, blocked>>

\* Fault: the compare-exchange does not store.
TryFault(t) ==
    /\ At(t, "try")
    /\ Goto(t, IF Available THEN "got" ELSE "wait")
    /\ UNCHANGED <<value, waiters, blocked>>

Try(t) ==
    /\ At(t, "try")
    /\ IF Available
       THEN value' = Taken /\ Goto(t, "got")
       ELSE UNCHANGED value /\ Goto(t, "wait")
    /\ UNCHANGED <<waiters, blocked>>

\* atomic_wait has returned: the loop goes on, event::wait is done.
WaitReturns == IF kind = "event" THEN "got" ELSE "try"

\* atomic_wait reads the value and returns at once if it has changed.
Wait(t) ==
    /\ At(t, "wait")
    /\ Goto(t, IF value = Old THEN "block" ELSE WaitReturns)
    /\ UNCHANGED <<value, waiters, blocked>>

\* Fault: the value is not read again with interrupts disabled.
BlockFault(t) ==
    /\ At(t, "block")
    /\ IF t \in Timed
       THEN Goto(t, "delayed") /\ UNCHANGED blocked
       ELSE Goto(t, "blocked") /\ blocked' = Append(blocked, t)
    /\ UNCHANGED <<value, waiters>>

\* block_current_thread with interrupts disabled.  A thread with a timeout
\* goes to the delayed list, where atomic_notify does not look.
Block(t) ==
    /\ At(t, "block")
    /\ IF value # Old THEN Goto(t, WaitReturns) /\ UNCHANGED blocked
       ELSE IF t \in Timed THEN Goto(t, "delayed") /\ UNCHANGED blocked
       ELSE Goto(t, "blocked") /\ blocked' = Append(blocked, t)
    /\ UNCHANGED <<value, waiters>>

\* A notified thread returns when the value has changed and otherwise yields,
\* staying ready.
Recheck(t) ==
    /\ At(t, "woken")
    /\ value # Old
    /\ Goto(t, WaitReturns)
    /\ UNCHANGED <<value, waiters, blocked>>

\* The system tick wakes the thread after its timeout; atomic_wait reports a
\* timeout only if the value is still the old one, and try_ passes it on.
TimeoutExpires(t) ==
    /\ At(t, "delayed")
    /\ Goto(t, IF value = Old THEN "timeout" ELSE WaitReturns)
    /\ UNCHANGED <<value, waiters, blocked>>

\* Fault: the early return of try_ skips the guard.
UncountFault(t) ==
    /\ pc[t] \in {"got", "timeout"}
    /\ waiters' = IF pc[t] = "got" THEN waiters - 1 ELSE waiters
    /\ Goto(t, IF pc[t] = "got" THEN "owner" ELSE "idle")
    /\ UNCHANGED <<value, blocked>>

\* ~waiters_guard on the way out, with the object or without.
Uncount(t) ==
    /\ pc[t] \in {"got", "timeout"}
    /\ waiters' = waiters - 1
    /\ Goto(t, IF pc[t] = "got" THEN "owner" ELSE "idle")
    /\ UNCHANGED <<value, blocked>>

(***************************************************************************)
(* unlock, notify and give.  Only the owner unlocks a mutex; the others    *)
(* are signalled by any thread, and a successful wait leaves nothing to    *)
(* return.                                                                 *)
(***************************************************************************)
Release(t) ==
    /\ At(t, IF kind = "mutex" THEN "owner" ELSE "idle")
    /\ kind = "semaphore" => value < MaxRes
    /\ value' = Released
    /\ Goto(t, "released")
    /\ UNCHANGED <<waiters, blocked>>

Done(t) ==
    /\ At(t, "owner") /\ kind # "mutex"
    /\ Goto(t, "idle")
    /\ UNCHANGED <<value, waiters, blocked>>

LoadWaiters(t) ==
    /\ At(t, "released")
    /\ Goto(t, IF waiters # 0 THEN "notify" ELSE "idle")
    /\ UNCHANGED <<value, waiters, blocked>>

\* Fault: only one thread is notified.
NotifyOneFault(t) ==
    /\ At(t, "notify") /\ blocked # << >>
    /\ pc' = [pc EXCEPT ![t] = "idle", ![Head(blocked)] = "woken"]
    /\ blocked' = Tail(blocked)
    /\ UNCHANGED <<value, waiters>>

\* atomic_notify_all for an event, atomic_notify_one for the others.
Notify(t) ==
    LET woken == IF kind = "event" THEN ToSet(blocked)
                 ELSE IF blocked = << >> THEN {} ELSE {Head(blocked)}
    IN  /\ At(t, "notify")
        /\ pc' = [u \in Threads |-> IF u = t THEN "idle"
                                    ELSE IF u \in woken THEN "woken" ELSE pc[u]]
        /\ blocked' = IF kind = "event" \/ blocked = << >> THEN << >> ELSE Tail(blocked)
        /\ UNCHANGED <<value, waiters>>

\* event::reset
Reset(t) ==
    /\ At(t, "idle") /\ kind = "event"
    /\ value' = 0
    /\ UNCHANGED <<waiters, blocked, pc>>

Step(t) ==
    \/ TryFirst(t) \/ Count(t) \/ Try(t) \/ Wait(t) \/ Block(t) \/ Recheck(t)
    \/ TimeoutExpires(t) \/ Uncount(t)
    \/ Release(t) \/ Done(t) \/ LoadWaiters(t) \/ Notify(t) \/ Reset(t)

Next == UNCHANGED kind /\ \E t \in Threads : Step(t)

Spec == Init /\ [][Next]_vars

(***************************************************************************)
(* Fairness.  Ticks share the CPU among threads of one priority, so every  *)
(* thread that can take a step inside a call takes it; whether it calls is *)
(* the program's choice.  A mutex holder unlocks in the end.               *)
(***************************************************************************)
Inside(t) ==
    \/ Count(t) \/ Try(t) \/ Wait(t) \/ Block(t) \/ Recheck(t) \/ TimeoutExpires(t)
    \/ Uncount(t) \/ LoadWaiters(t) \/ Notify(t) \/ (kind = "mutex" /\ Release(t))

FairSpec == Spec /\ \A t \in Threads : WF_vars(UNCHANGED kind /\ Inside(t))

(***************************************************************************)
(* Properties                                                              *)
(***************************************************************************)
Guarded == {"try", "wait", "block", "blocked", "delayed", "woken", "got", "timeout"}

Labels == Guarded \cup {"idle", "count", "owner", "released", "notify"}

\* The object's fields and each thread's place in its code.
TypeOK ==
    /\ kind \in Kinds
    /\ value \in 0..MaxRes
    /\ kind # "semaphore" => value \in {0, 1}
    /\ waiters \in Nat
    /\ blocked \in Seq(Threads) /\ Distinct(blocked)
    /\ pc \in [Threads -> Labels]
    /\ \A t \in Threads : t \in ToSet(blocked) <=> pc[t] = "blocked"

Waiting == {t \in Threads : pc[t] \in Guarded}

\* waiters_ counts the threads inside a guard, on every path out of the wait
\* including a timeout: it is not left too high or too low.
WaitersCounted == waiters = Cardinality(Waiting)

\* The bookkeeping of the wait: the count, and a blocked list of exactly the
\* threads that sleep.
SyncInv == TypeOK /\ WaitersCounted

Holders == {t \in Threads : pc[t] \in {"got", "owner"}}

\* At most one thread is past lock() and not yet past the store of unlock(),
\* and held_ says whether there is one.
MutualExclusion ==
    kind = "mutex" => Cardinality(Holders) = value

\* Threads that will look at the value again and take it, or wake a sleeper.
\* Taking an event leaves it signalled, so there only a notifier counts.
Attentive == {t \in Threads : pc[t] \in
                  IF kind = "event" THEN {"released", "notify"}
                  ELSE {"released", "notify", "count", "try", "wait", "block", "woken"}}

\* No wake-up is lost, although waiters_ is read without a lock and a newcomer
\* may take what a notified thread was woken for: for every unit that is free
\* while a thread sits in the blocked list, some thread is still on its way to
\* take it or to wake a sleeper.
NoStuckWaiter ==
    blocked # << >> =>
        Cardinality(Attentive) >= IF kind = "mutex" THEN 1 - value ELSE value

\* A thread inside lock() is not left there for good while the mutex is passed
\* around or free: some thread gets through.
LockProgress ==
    (kind = "mutex" /\ \E t \in Threads : pc[t] \in Guarded) ~> (\E t \in Threads : pc[t] \in {"got", "owner", "timeout"})

=============================================================================
