-------------------------- MODULE SchedulerProofs --------------------------
(***************************************************************************)
(* The inductive invariant of the scheduler and what follows from it.      *)
(***************************************************************************)
EXTENDS Scheduler, CommonTheorems

USE SchedulerAssumption

ReadyType == [0..MaxPriority -> Seq(Threads)]

(***************************************************************************)
(* The choice of the next thread                                           *)
(***************************************************************************)

\* The search by priority returns the front of the highest non-empty list in
\* its range, or null when all of them are empty.
LEMMA HighestFrontChoice ==
    ASSUME NEW rd \in ReadyType, NEW low \in Nat, NEW high \in 0..MaxPriority,
           NEW n, n = HighestFront(rd, low, high)
    PROVE  \/ n = Null /\ \A p \in low..high : rd[p] = << >>
           \/ \E m \in low..high : /\ n \in ToSet(rd[m])
                                   /\ \A p \in low..high : rd[p] # << >> => p <= m
<1> DEFINE found == {p \in low..high : rd[p] # << >>}
<1>1. CASE found = {}
  BY <1>1 DEF HighestFront
<1>2. CASE found # {}
  <2>1. found \in SUBSET (0..high) /\ high \in Nat
    OBVIOUS
  <2>2. Max(found) \in found /\ \A y \in found : y <= Max(found)
    <3> HIDE DEF found
    <3> QED
      BY <1>2, <2>1, MaxInSet
  <2>3. n = Head(rd[Max(found)])
    BY <1>2 DEF HighestFront
  <2> DEFINE m == Max(found)
  <2>4. m \in low..high /\ rd[m] # << >> /\ rd[m] \in Seq(Threads)
    BY <2>2 DEF ReadyType
  <2>5. n \in ToSet(rd[m])
    BY <2>3, <2>4, FrontInList
  <2>6. \A p \in low..high : rd[p] # << >> => p <= m
    BY <2>2
  <2> QED
    BY <2>4, <2>5, <2>6
<1> QED
  BY <1>1, <1>2

\* Round robin returns a thread of the list, or null when it is empty.
LEMMA RoundRobinChoice ==
    ASSUME NEW list \in Seq(Threads), NEW t \in Threads
    PROVE  \/ RoundRobin(list, t) = Null /\ list = << >>
           \/ RoundRobin(list, t) \in ToSet(list)
<1> DEFINE next == {list[i + 1] : i \in {j \in 1..(Len(list) - 1) : list[j] = t}}
<1>1. CASE next # {}
  <2>1. DOMAIN list = 1..Len(list) /\ Len(list) \in Nat
    BY LenProperties
  <2>2. next \subseteq ToSet(list)
    <3> SUFFICES ASSUME NEW i \in 1..(Len(list) - 1) PROVE list[i + 1] \in ToSet(list)
      OBVIOUS
    <3>1. i + 1 \in 1..Len(list)
      BY <2>1
    <3> QED
      BY <2>1, <3>1 DEF ToSet
  <2>3. RoundRobin(list, t) = CHOOSE n \in next : TRUE
    BY <1>1 DEF RoundRobin
  <2> HIDE DEF next
  <2> QED
    BY <1>1, <2>2, <2>3
<1>2. CASE next = {}
  BY <1>2, FrontInList DEF RoundRobin
<1> QED
  BY <1>1, <1>2

\* The chosen thread comes from a ready list.  When no thread comes back, the
\* list it was looked for in is empty; when the search by priority makes the
\* choice, no list in its range is above the chosen one.
LEMMA SelectChoice ==
    ASSUME TypeOK, NEW rd \in ReadyType, NEW st \in [Threads -> Statuses],
           NEW max \in 0..MaxPriority, NEW n, n = SelectNextThread(rd, st, max)
    PROVE  \/ /\ n = Null
              /\ \/ rd[Priority[current]] = << >> /\ st[current] = "running"
                 \/ rd[0] = << >>
           \/ \E m \in 0..MaxPriority :
                /\ n \in ToSet(rd[m]) /\ n \in Threads
                /\ \A p \in 0..max : rd[p] # << >> => p <= m
<1>0. current \in Threads /\ Priority[current] \in 0..MaxPriority
  BY DEF TypeOK
<1>1. CASE st[current] # "running"
  <2>1. n = HighestFront(rd, 0, max)
    BY <1>1 DEF SelectNextThread
  <2>2. \/ n = Null /\ \A p \in 0..max : rd[p] = << >>
        \/ \E m \in 0..max : /\ n \in ToSet(rd[m])
                             /\ \A p \in 0..max : rd[p] # << >> => p <= m
    BY <2>1, HighestFrontChoice
  <2>3. \A m \in 0..max : m \in 0..MaxPriority /\ rd[m] \in Seq(Threads)
    BY DEF ReadyType
  <2> QED
    BY <2>2, <2>3, FrontInList
<1>2. CASE st[current] = "running" /\ max > Priority[current]
  <2> DEFINE low == Priority[current]
  <2>1. low \in Nat /\ n = HighestFront(rd, low, max)
    BY <1>0, <1>2 DEF SelectNextThread
  <2>2. \/ n = Null /\ \A p \in low..max : rd[p] = << >>
        \/ \E m \in low..max : /\ n \in ToSet(rd[m])
                               /\ \A p \in low..max : rd[p] # << >> => p <= m
    <3> HIDE DEF low
    <3> QED
      BY <2>1, HighestFrontChoice
  <2>3. CASE n = Null /\ \A p \in low..max : rd[p] = << >>
    BY <2>3, <1>0, <1>2
  <2>4. CASE \E m \in low..max : /\ n \in ToSet(rd[m])
                                 /\ \A p \in low..max : rd[p] # << >> => p <= m
    <3>1. PICK m \in low..max : /\ n \in ToSet(rd[m])
                                /\ \A p \in low..max : rd[p] # << >> => p <= m
      BY <2>4
    <3>2. m \in 0..MaxPriority /\ rd[m] \in Seq(Threads)
      BY <1>0 DEF ReadyType
    <3>3. n \in Threads
      BY <3>1, <3>2, FrontInList
    <3>4. \A p \in 0..max : rd[p] # << >> => p <= m
      BY <3>1, <1>0
    <3> QED
      BY <3>1, <3>2, <3>3, <3>4
  <2> QED
    BY <2>2, <2>3, <2>4
<1>3. CASE st[current] = "running" /\ ~(max > Priority[current])
  <2> DEFINE low == Priority[current]
  <2>1. n = RoundRobin(rd[low], current)
    BY <1>3 DEF SelectNextThread
  <2>2. rd[low] \in Seq(Threads)
    BY <1>0 DEF ReadyType
  <2>3. \/ n = Null /\ rd[low] = << >>
        \/ n \in ToSet(rd[low])
    BY <2>1, <2>2, <1>0, RoundRobinChoice
  <2>4. \A p \in 0..max : p <= low
    BY <1>0, <1>3
  <2> QED
    BY <2>2, <2>3, <2>4, <1>0, <1>3, FrontInList
<1> QED
  BY <1>1, <1>2, <1>3

\* switch_task moves no thread between the ready lists and the others: it only
\* exchanges "ready" and "running", and leaves at most one thread running.
LEMMA SwitchTaskEffect ==
    ASSUME TypeOK, NEW rd \in ReadyType, NEW st \in [Threads -> Statuses],
           NEW max \in 0..MaxPriority,
           \A p \in 0..MaxPriority, t \in Threads : t \in ToSet(rd[p]) => st[t] \in Runnable,
           \A t \in Threads : st[t] = "running" => t = current,
           SwitchTask(rd, st, max)
    PROVE  /\ status' \in [Threads -> Statuses]
           /\ max_ready_priority' \in 0..MaxPriority
           /\ current' \in Threads
           /\ bugcheck' \in BOOLEAN
           /\ \A t \in Threads :
                /\ status'[t] \in Runnable <=> st[t] \in Runnable
                /\ st[t] \notin Runnable => status'[t] = st[t]
                /\ status'[t] = "running" => t = current'
           /\ current' # current =>
                /\ lock_depth = 0 /\ ~bugcheck' /\ status'[current'] = "running"
                /\ \E p \in 0..MaxPriority : current' \in ToSet(rd[p])
           /\ current' = current /\ lock_depth = 0 /\ ~bugcheck' =>
                \E p \in 0..MaxPriority : current \in ToSet(rd[p])
<1> DEFINE next == SelectNextThread(rd, st, max)
<1>1. current \in Threads /\ lock_depth \in {0, 1} /\ bugcheck \in BOOLEAN
  BY DEF TypeOK
<1>2. next = Null \/ \E p \in 0..MaxPriority : next \in ToSet(rd[p]) /\ next \in Threads
  BY SelectChoice
<1>3. CASE lock_depth > 0
  BY <1>1, <1>3 DEF SwitchTask, KeepCurrent, Statuses, Runnable
<1>4. CASE ~(lock_depth > 0) /\ next \in {Null, current}
  <2>1. KeepCurrent(st, max) /\ bugcheck' = (next = Null)
    BY <1>4 DEF SwitchTask
  <2>2. ~bugcheck' => \E p \in 0..MaxPriority : current \in ToSet(rd[p])
    BY <2>1, <1>2, <1>4
  <2> HIDE DEF next
  <2> QED
    BY <1>1, <2>1, <2>2 DEF KeepCurrent, Runnable
<1>5. CASE ~(lock_depth > 0) /\ next \notin {Null, current}
  <2>1. SetCurrentThread(next, st) /\ bugcheck' = (next = Null)
    BY <1>5 DEF SwitchTask
  <2>2. PICK p \in 0..MaxPriority : next \in ToSet(rd[p]) /\ next \in Threads
    BY <1>2, <1>5
  <2>3. st[next] \in Runnable
    BY <2>2
  <2> HIDE DEF next
  <2>4. status' \in [Threads -> Statuses]
    BY <2>1, <2>2, <1>1 DEF SetCurrentThread, Statuses
  <2>5. \A t \in Threads :
          status'[t] = IF t = next THEN "running"
                       ELSE IF t = current /\ st[t] = "running" THEN "ready" ELSE st[t]
    BY <2>1, <2>2, <1>1 DEF SetCurrentThread
  <2>6. \A t \in Threads :
                /\ status'[t] \in Runnable <=> st[t] \in Runnable
                /\ st[t] \notin Runnable => status'[t] = st[t]
                /\ status'[t] = "running" => t = next
    BY <2>3, <2>5 DEF Runnable
  <2>7. current' = next /\ max_ready_priority' = Priority[next] /\ ~bugcheck' /\ bugcheck' \in BOOLEAN
    BY <2>1, <1>5 DEF SetCurrentThread
  <2>8. lock_depth = 0 /\ current' # current /\ status'[next] = "running"
    BY <1>1, <1>5, <2>2, <2>5, <2>7
  <2> QED
    BY <2>2, <2>4, <2>6, <2>7, <2>8
<1> QED
  BY <1>3, <1>4, <1>5

(***************************************************************************)
(* The lists after an operation                                            *)
(***************************************************************************)

\* Queueing a thread that is in no ready list.
LEMMA Pushed ==
    ASSUME NEW rd \in ReadyType, NEW t \in Threads, t \notin ToSet(rd[Priority[t]])
    PROVE  /\ PushReady(rd, t) \in ReadyType
           /\ \A p \in 0..MaxPriority :
                /\ Distinct(rd[p]) => Distinct(PushReady(rd, t)[p])
                /\ \A u \in Threads : u \in ToSet(PushReady(rd, t)[p]) <=>
                            u \in ToSet(rd[p]) \/ (u = t /\ p = Priority[t])
<1> DEFINE q == Priority[t]
           r == Append(rd[q], t)
<1>1. q \in 0..MaxPriority /\ rd[q] \in Seq(Threads)
  BY DEF ReadyType
<1>2. /\ r \in Seq(Threads) /\ ToSet(r) = ToSet(rd[q]) \cup {t}
      /\ Distinct(rd[q]) => Distinct(r)
  BY <1>1, AppendElement
<1>3. PushReady(rd, t) = [rd EXCEPT ![q] = r]
  BY DEF PushReady
<1> HIDE DEF q, r
<1>4. PushReady(rd, t) \in ReadyType
  BY <1>1, <1>2, <1>3 DEF ReadyType
<1>5. \A p \in 0..MaxPriority : PushReady(rd, t)[p] = IF p = q THEN r ELSE rd[p]
  BY <1>3 DEF ReadyType
<1> QED
  BY <1>2, <1>4, <1>5 DEF q

\* Taking a thread off its ready list.
LEMMA Taken ==
    ASSUME NEW rd \in ReadyType, NEW t \in Threads, t \in ToSet(rd[Priority[t]]),
           Distinct(rd[Priority[t]])
    PROVE  /\ TakeReady(rd, t) \in ReadyType
           /\ \A p \in 0..MaxPriority :
                /\ Distinct(rd[p]) => Distinct(TakeReady(rd, t)[p])
                /\ \A u \in Threads : u \in ToSet(TakeReady(rd, t)[p]) <=>
                            u \in ToSet(rd[p]) /\ ~(u = t /\ p = Priority[t])
<1> DEFINE q == Priority[t]
           r == Without(rd[q], t)
<1>1. q \in 0..MaxPriority /\ rd[q] \in Seq(Threads)
  BY DEF ReadyType
<1>2. r \in Seq(Threads) /\ ToSet(r) = ToSet(rd[q]) \ {t} /\ Distinct(r)
  BY <1>1, RemoveElement
<1>3. TakeReady(rd, t) = [rd EXCEPT ![q] = r]
  BY DEF TakeReady
<1> HIDE DEF q, r
<1>4. TakeReady(rd, t) \in ReadyType
  BY <1>1, <1>2, <1>3 DEF ReadyType
<1>5. \A p \in 0..MaxPriority : TakeReady(rd, t)[p] = IF p = q THEN r ELSE rd[p]
  BY <1>3 DEF ReadyType
<1> QED
  BY <1>2, <1>4, <1>5 DEF q

\* add_to_delay_list inserts inside the list or at its end.
LEMMA DelaySlotInList ==
    ASSUME NEW list \in Seq(Threads), NEW when
    PROVE  DelaySlot(list, when) \in 1..(Len(list) + 1)
<1>1. DOMAIN list = 1..Len(list) /\ Len(list) \in Nat
  BY LenProperties
<1>2. CASE list = << >>
  BY <1>1, <1>2 DEF DelaySlot
<1>3. CASE list # << >>
  <2> DEFINE I == {i \in DOMAIN list : \A j \in 2..i : wakeup_time[list[j]] <= when}
  <2>1. 1 \in I
    BY <1>1, <1>3, EmptySeq
  <2>2. I \in SUBSET (0..Len(list))
    BY <1>1
  <2>3. Max(I) \in I
    <3> HIDE DEF I
    <3> QED
      BY <1>1, <2>1, <2>2, MaxInSet
  <2>4. DelaySlot(list, when) = 1 + Max(I)
    BY <1>3 DEF DelaySlot
  <2>5. Max(I) \in 1..Len(list)
    BY <2>3, <1>1
  <2> HIDE DEF I
  <2> QED
    BY <2>4, <2>5, <1>1
<1> QED
  BY <1>2, <1>3

(***************************************************************************)
(* The inductive invariant                                                 *)
(***************************************************************************)
\* The new lists agree with the statuses st.
MatchAfter(st) ==
    /\ \A p \in 0..MaxPriority :
         /\ Distinct(ready_threads'[p])
         /\ \A t \in Threads : t \in ToSet(ready_threads'[p]) <=>
              attached'[t] /\ Priority[t] = p /\ st[t] \in Runnable
    /\ Distinct(blocked_threads')
    /\ \A t \in Threads : t \in ToSet(blocked_threads') <=> attached'[t] /\ st[t] = "blocked"
    /\ Distinct(delayed_threads')
    /\ \A t \in Threads : t \in ToSet(delayed_threads') <=> attached'[t] /\ st[t] = "delayed"

\* Lists that agree with the statuses a switch starts from agree with those it
\* leaves; the current thread afterwards is an attached, runnable one unless
\* the switch was locked out or found nothing.
LEMMA SwitchKeepsLists ==
    ASSUME TypeOK, ready_threads' \in ReadyType, attached' \in [Threads -> BOOLEAN],
           NEW st \in [Threads -> Statuses], NEW max \in 0..MaxPriority,
           MatchAfter(st),
           \A t \in Threads : st[t] = "running" => t = current,
           SwitchTask(ready_threads', st, max)
    PROVE  /\ ListsMatchStatus'
           /\ status' \in [Threads -> Statuses]
           /\ max_ready_priority' \in 0..MaxPriority
           /\ current' \in Threads
           /\ bugcheck' \in BOOLEAN
           /\ \A t \in Threads :
                /\ status'[t] \in Runnable <=> st[t] \in Runnable
                /\ st[t] \notin Runnable => status'[t] = st[t]
                /\ status'[t] = "running" => t = current'
           /\ current' # current =>
                /\ lock_depth = 0 /\ ~bugcheck' /\ status'[current'] = "running"
                /\ attached'[current']
           /\ current' = current /\ lock_depth = 0 /\ ~bugcheck' =>
                attached'[current] /\ st[current] \in Runnable
<1>1. \A p \in 0..MaxPriority, t \in Threads :
         t \in ToSet(ready_threads'[p]) => st[t] \in Runnable /\ attached'[t]
  BY DEF MatchAfter
<1>2. /\ status' \in [Threads -> Statuses]
      /\ max_ready_priority' \in 0..MaxPriority
      /\ current' \in Threads
      /\ bugcheck' \in BOOLEAN
      /\ \A t \in Threads :
           /\ status'[t] \in Runnable <=> st[t] \in Runnable
           /\ st[t] \notin Runnable => status'[t] = st[t]
           /\ status'[t] = "running" => t = current'
      /\ current' # current =>
           /\ lock_depth = 0 /\ ~bugcheck' /\ status'[current'] = "running"
           /\ \E p \in 0..MaxPriority : current' \in ToSet(ready_threads'[p])
      /\ current' = current /\ lock_depth = 0 /\ ~bugcheck' =>
           \E p \in 0..MaxPriority : current \in ToSet(ready_threads'[p])
  BY <1>1, SwitchTaskEffect
<1>3. \A t \in Threads : /\ status'[t] = "blocked" <=> st[t] = "blocked"
                         /\ status'[t] = "delayed" <=> st[t] = "delayed"
  BY <1>2 DEF Statuses, Runnable
<1>4. ListsMatchStatus'
  BY <1>2, <1>3 DEF ListsMatchStatus, MatchAfter
<1>5. current \in Threads
  BY DEF TypeOK
<1> QED
  BY <1>1, <1>2, <1>4, <1>5

\* Steps that leave the lists and the statuses alone.
LEMMA QuietStepKeepsLists ==
    ASSUME ListsMatchStatus, UNCHANGED <<lists, attached, status>>
    PROVE  ListsMatchStatus'
BY DEF ListsMatchStatus, lists

\* The initial state satisfies the invariant.
LEMMA InitInv == Init => SchedInv
<1> SUFFICES ASSUME Init PROVE SchedInv
  OBVIOUS
<1>a. /\ Idle \in Threads /\ Worker \in Threads /\ Idle # Worker
      /\ Priority[Idle] = 0 /\ Priority[Worker] \in 0..MaxPriority
      /\ 0 \in 0..MaxPriority
  OBVIOUS
<1>b. \A p \in 0..MaxPriority :
        /\ ready_threads[p] \in Seq(Threads)
        /\ Distinct(ready_threads[p])
        /\ ToSet(ready_threads[p]) = {t \in Booted : Priority[t] = p}
  <2> SUFFICES ASSUME NEW p \in 0..MaxPriority
               PROVE  /\ ready_threads[p] \in Seq(Threads)
                      /\ Distinct(ready_threads[p])
                      /\ ToSet(ready_threads[p]) = {t \in Booted : Priority[t] = p}
    OBVIOUS
  <2>1. CASE p = Priority[Worker] /\ p = 0
    <3>1. ready_threads[p] = <<Idle, Worker>>
      BY <2>1 DEF Init
    <3>2. /\ <<Idle, Worker>> \in Seq(Threads) /\ DOMAIN <<Idle, Worker>> = {1, 2}
          /\ <<Idle, Worker>>[1] = Idle /\ <<Idle, Worker>>[2] = Worker
      BY <1>a
    <3>3. Distinct(<<Idle, Worker>>) /\ ToSet(<<Idle, Worker>>) = {Idle, Worker}
      BY <3>2, <1>a DEF Distinct, ToSet
    <3> QED
      BY <3>1, <3>2, <3>3, <1>a, <2>1 DEF Booted
  <2>2. CASE p = Priority[Worker] /\ p # 0
    <3>1. ready_threads[p] = <<Worker>>
      BY <2>2 DEF Init
    <3> QED
      BY <3>1, <1>a, <2>2 DEF Distinct, ToSet, Booted
  <2>3. CASE p # Priority[Worker] /\ p = 0
    <3>1. ready_threads[p] = <<Idle>>
      BY <2>3 DEF Init
    <3> QED
      BY <3>1, <1>a, <2>3 DEF Distinct, ToSet, Booted
  <2>4. CASE p # Priority[Worker] /\ p # 0
    <3>1. ready_threads[p] = << >>
      BY <2>4 DEF Init
    <3> QED
      BY <3>1, <1>a, <2>4 DEF Distinct, ToSet, Booted
  <2> QED
    BY <2>1, <2>2, <2>3, <2>4
<1>1. TypeOK
  <2>1. ready_threads \in [0..MaxPriority -> Seq(Threads)]
    BY <1>b DEF Init
  <2>2. /\ blocked_threads \in Seq(Threads) /\ delayed_threads \in Seq(Threads)
        /\ irqs \in Seq({"tick", "yield"})
    BY DEF Init
  <2>3. /\ max_ready_priority \in 0..MaxPriority /\ lock_depth \in {0, 1}
        /\ current \in Threads /\ now \in Nat
    BY <1>a DEF Init
  <2>4. /\ status \in [Threads -> Statuses] /\ attached \in [Threads -> BOOLEAN]
        /\ pc \in [Threads -> Labels]
        /\ wait_address \in [Threads -> Addrs \cup {Null}]
        /\ wakeup_time \in [Threads -> Nat]
    BY DEF Init, Statuses, Labels
  <2>5. req \in [Threads -> [addr : Addrs \cup {Null}, old : Values, timed : BOOLEAN,
                            timeout : Nat, since : Nat]]
    BY DEF Init, NoReq
  <2>6. /\ mem \in [Addrs -> Values] /\ tick_armed \in BOOLEAN /\ bugcheck \in BOOLEAN
        /\ loop \in [op : {"none", "unblock", "wakeup"}, addr : Addrs \cup {Null},
                     unblocked : BOOLEAN]
    BY DEF Init, NoLoop
  <2> QED
    BY <2>1, <2>2, <2>3, <2>4, <2>5, <2>6 DEF TypeOK
<1>2. ListsMatchStatus
  <2>1. \A t \in Threads : /\ attached[t] <=> t \in Booted
                           /\ status[t] \in Runnable
                           /\ status[t] # "blocked" /\ status[t] # "delayed"
    BY DEF Init, Runnable
  <2>2. /\ Distinct(blocked_threads) /\ ToSet(blocked_threads) = {}
        /\ Distinct(delayed_threads) /\ ToSet(delayed_threads) = {}
    BY DEF Init, Distinct, ToSet
  <2> QED
    BY <1>b, <2>1, <2>2 DEF ListsMatchStatus
<1>3. PcMatchesStatus
  <2>1. \A t \in Threads :
          /\ attached[t] <=> t \in Booted
          /\ pc[t] = IF t \in Booted THEN "run" ELSE "new"
          /\ status[t] = IF t = Worker THEN "running" ELSE "ready"
    BY DEF Init
  <2>2. current = Worker /\ lock_depth = 0 /\ loop = NoLoop /\ Worker \in Booted /\ Idle \in Booted
    BY DEF Init, Booted
  <2>3. loop.op # "unblock"
    BY <2>2 DEF NoLoop
  <2> QED
    BY <1>a, <2>1, <2>2, <2>3 DEF PcMatchesStatus, Runnable
<1> QED
  BY <1>1, <1>2, <1>3 DEF SchedInv

(***************************************************************************)
(* One lemma per group of actions                                          *)
(***************************************************************************)

\* What every action can use of the invariant about the current thread.
LEMMA CurrentFacts ==
    ASSUME SchedInv
    PROVE  /\ current \in Threads /\ Priority[current] \in 0..MaxPriority
           /\ ready_threads \in ReadyType
           /\ pc[current] # "locked" => lock_depth = 0
           /\ pc[current] \in {"run", "block"} =>
                /\ attached[current] /\ status[current] \in Runnable
                /\ current \in ToSet(ready_threads[Priority[current]])
                /\ Distinct(ready_threads[Priority[current]])
                /\ current \notin ToSet(blocked_threads)
                /\ current \notin ToSet(delayed_threads)
<1>1. current \in Threads /\ ready_threads \in ReadyType /\ lock_depth \in {0, 1}
  BY DEF SchedInv, TypeOK, ReadyType
<1>2. Priority[current] \in 0..MaxPriority
  BY <1>1
<1>3. pc[current] # "locked" => lock_depth = 0
  BY <1>1 DEF SchedInv, PcMatchesStatus
<1>4. pc[current] \in {"run", "block"} => attached[current] /\ status[current] \in Runnable
  BY <1>1 DEF SchedInv, PcMatchesStatus
<1> QED
  BY <1>1, <1>2, <1>3, <1>4 DEF SchedInv, ListsMatchStatus, Runnable

\* The current thread moves on in its code and no list changes.
LEMMA CodeStepsInv ==
    ASSUME SchedInv,
           \/ \E a \in Addrs, old \in Values : AtomicWait(a, old, FALSE, 0)
           \/ \E a \in Addrs, old \in Values, d \in Timeouts : AtomicWait(a, old, TRUE, d)
           \/ BlockReturnsAtOnce \/ BlockCheck \/ DelayReturns
           \/ \E a \in Addrs, v \in Values : Store(a, v)
           \/ AtomicNotifyAll \/ LockSchedule \/ UnlockSchedule
    PROVE  SchedInv'
<1> USE DEF Self, CpuFree, Goto, DropReq, lists, fields, choice, machine
<1>0. current \in Threads
  BY CurrentFacts
<1>1. ListsMatchStatus'
  <2>1. UNCHANGED <<lists, attached, status>>
    BY DEF AtomicWait, BlockReturnsAtOnce, BlockCheck, DelayReturns, Store,
           AtomicNotifyAll, LockSchedule, UnlockSchedule
  <2> QED
    BY <2>1, QuietStepKeepsLists DEF SchedInv
<1>2. ASSUME NEW a \in Addrs, NEW old \in Values, NEW timed \in BOOLEAN, NEW d \in Nat,
             AtomicWait(a, old, timed, d)
      PROVE  TypeOK' /\ PcMatchesStatus'
  <2>1. TypeOK'
    BY <1>0, <1>2 DEF AtomicWait, SchedInv, TypeOK, Labels
  <2>2. /\ \A t \in Threads : /\ pc'[t] = IF t = current THEN "block" ELSE pc[t]
                              /\ req'[t].addr = IF t = current THEN a ELSE req[t].addr
        /\ pc[current] = "run"
    BY <1>0, <1>2 DEF AtomicWait, SchedInv, TypeOK
  <2>3. UNCHANGED <<attached, status, current, lock_depth, bugcheck, loop, wait_address>>
    BY <1>2 DEF AtomicWait
  <2>4. current # Idle
    BY <1>2 DEF AtomicWait
  <2>5. PcMatchesStatus'
    BY <1>0, <2>2, <2>3, <2>4 DEF SchedInv, PcMatchesStatus, Runnable
  <2> QED
    BY <2>1, <2>5
<1>3. ASSUME BlockReturnsAtOnce PROVE TypeOK' /\ PcMatchesStatus'
  <2>1. TypeOK'
    BY <1>0, <1>3 DEF BlockReturnsAtOnce, SchedInv, TypeOK, Labels, NoReq
  <2>2. /\ \A t \in Threads : /\ pc'[t] = IF t = current THEN "run" ELSE pc[t]
                              /\ t # current => req'[t] = req[t]
        /\ pc[current] = "block"
    BY <1>0, <1>3 DEF BlockReturnsAtOnce, SchedInv, TypeOK
  <2>3. UNCHANGED <<attached, status, current, lock_depth, bugcheck, loop, wait_address>>
    BY <1>3 DEF BlockReturnsAtOnce
  <2>5. PcMatchesStatus'
    BY <1>0, <2>2, <2>3 DEF SchedInv, PcMatchesStatus, Runnable
  <2> QED
    BY <2>1, <2>5
<1>4. ASSUME BlockCheck PROVE TypeOK' /\ PcMatchesStatus'
  <2>1. /\ pc[current] = "check" /\ pc' \in [Threads -> Labels]
        /\ \A t \in Threads \ {current} : pc'[t] = pc[t] /\ req'[t] = req[t]
        /\ \/ pc'[current] = "run"
           \/ pc'[current] = "yield" /\ req'[current] = req[current]
        /\ req' \in [Threads -> [addr : Addrs \cup {Null}, old : Values, timed : BOOLEAN,
                                 timeout : Nat, since : Nat]]
    <3>1. /\ pc \in [Threads -> Labels]
          /\ req \in [Threads -> [addr : Addrs \cup {Null}, old : Values, timed : BOOLEAN,
                                   timeout : Nat, since : Nat]]
          /\ NoReq \in [addr : Addrs \cup {Null}, old : Values, timed : BOOLEAN,
                         timeout : Nat, since : Nat]
      BY DEF SchedInv, TypeOK, NoReq
    <3>2. CASE WaitIsOver(current)
      <4>1. /\ pc[current] = "check" /\ pc' = [pc EXCEPT ![current] = "run"]
            /\ req' = [req EXCEPT ![current] = NoReq]
        BY <1>4, <3>2 DEF BlockCheck
      <4> QED
        BY <1>0, <3>1, <4>1 DEF Labels
    <3>3. CASE ~WaitIsOver(current)
      <4>1. /\ pc[current] = "check" /\ pc' = [pc EXCEPT ![current] = "yield"]
            /\ req' = req
        BY <1>4, <3>3 DEF BlockCheck
      <4> QED
        BY <1>0, <3>1, <4>1 DEF Labels
    <3> QED
      BY <3>2, <3>3
  <2>2. UNCHANGED <<lists, fields, choice, machine, lock_depth, mem, loop>> /\ ~bugcheck
    BY <1>4 DEF BlockCheck
  <2>3. TypeOK'
    BY <2>1, <2>2 DEF SchedInv, TypeOK
  <2>4. PcMatchesStatus'
    BY <1>0, <2>1, <2>2 DEF SchedInv, PcMatchesStatus, Runnable
  <2> QED
    BY <2>3, <2>4
<1>5. ASSUME DelayReturns PROVE TypeOK' /\ PcMatchesStatus'
  <2>1. TypeOK'
    BY <1>0, <1>5 DEF DelayReturns, SchedInv, TypeOK, Labels
  <2>2. /\ \A t \in Threads : pc'[t] = IF t = current THEN "run" ELSE pc[t]
        /\ pc[current] = "sleep" /\ ~bugcheck
    BY <1>0, <1>5 DEF DelayReturns, SchedInv, TypeOK
  <2>3. UNCHANGED <<attached, status, current, lock_depth, bugcheck, loop, wait_address, req>>
    BY <1>5 DEF DelayReturns
  <2>5. PcMatchesStatus'
    BY <1>0, <2>2, <2>3 DEF SchedInv, PcMatchesStatus, Runnable
  <2> QED
    BY <2>1, <2>5
<1>6. ASSUME NEW a \in Addrs, NEW v \in Values, Store(a, v)
      PROVE  TypeOK' /\ PcMatchesStatus'
  <2>1. TypeOK'
    BY <1>0, <1>6 DEF Store, SchedInv, TypeOK, Labels, NoReq
  <2>2. /\ \A t \in Threads : /\ pc'[t] = IF t = current THEN "notify" ELSE pc[t]
                              /\ req'[t].addr = IF t = current THEN a ELSE req[t].addr
        /\ pc[current] = "run"
    BY <1>0, <1>6 DEF Store, SchedInv, TypeOK, NoReq
  <2>3. UNCHANGED <<attached, status, current, lock_depth, bugcheck, loop, wait_address>>
    BY <1>6 DEF Store
  <2>4. PcMatchesStatus'
    BY <1>0, <1>6, <2>2, <2>3 DEF Store, SchedInv, PcMatchesStatus, Runnable
  <2> QED
    BY <2>1, <2>4
<1>7. ASSUME AtomicNotifyAll PROVE TypeOK' /\ PcMatchesStatus'
  <2>1. TypeOK'
    BY <1>0, <1>7 DEF AtomicNotifyAll, SchedInv, TypeOK, PcMatchesStatus, Labels, NoReq
  <2>2. /\ \A t \in Threads : /\ pc'[t] = IF t = current THEN "run" ELSE pc[t]
                              /\ t # current => req'[t] = req[t]
        /\ pc[current] = "notify" /\ ~bugcheck
        /\ loop'.addr = req[current].addr
    BY <1>0, <1>7 DEF AtomicNotifyAll, SchedInv, TypeOK
  <2>3. UNCHANGED <<attached, status, current, lock_depth, bugcheck, wait_address>>
    BY <1>7 DEF AtomicNotifyAll
  <2>5. PcMatchesStatus'
    BY <1>0, <2>2, <2>3 DEF SchedInv, PcMatchesStatus, Runnable
  <2> QED
    BY <2>1, <2>5
<1>8. ASSUME LockSchedule PROVE TypeOK' /\ PcMatchesStatus'
  <2>1. /\ pc[current] = "run" /\ lock_depth = 0 /\ lock_depth' = 1
        /\ \A t \in Threads : pc'[t] = IF t = current THEN "locked" ELSE pc[t]
    BY <1>0, <1>8, CurrentFacts DEF LockSchedule, SchedInv, TypeOK, PcMatchesStatus
  <2>2. UNCHANGED <<attached, status, current, bugcheck, loop, wait_address, req>>
    BY <1>8 DEF LockSchedule
  <2>3. TypeOK'
    BY <1>0, <1>8, <2>1 DEF LockSchedule, SchedInv, TypeOK, Labels
  <2>4. \A t \in Threads : pc'[t] = "locked" <=> t = current' /\ lock_depth' = 1
    BY <1>0, <2>1, <2>2 DEF SchedInv, PcMatchesStatus
  <2>5. PcMatchesStatus'
    BY <1>0, <1>8, <2>1, <2>2, <2>4 DEF LockSchedule, SchedInv, PcMatchesStatus, Runnable
  <2> QED
    BY <2>3, <2>5
<1>9. ASSUME UnlockSchedule PROVE TypeOK' /\ PcMatchesStatus'
  <2>1. /\ pc[current] = "locked" /\ lock_depth = 1 /\ lock_depth' = 0
        /\ \A t \in Threads : pc'[t] = IF t = current THEN "run" ELSE pc[t]
    BY <1>0, <1>9, CurrentFacts DEF UnlockSchedule, SchedInv, TypeOK, PcMatchesStatus
  <2>2. UNCHANGED <<attached, status, current, bugcheck, loop, wait_address, req>>
    BY <1>9 DEF UnlockSchedule
  <2>3. TypeOK'
    BY <1>0, <1>9, <2>1 DEF UnlockSchedule, SchedInv, TypeOK, Labels
  <2>4. PcMatchesStatus'
    BY <1>0, <1>9, <2>1, <2>2 DEF SchedInv, PcMatchesStatus, Runnable
  <2> QED
    BY <2>3, <2>4
<1>10. 0 \in Nat /\ Timeouts \subseteq Nat
  OBVIOUS
<1> QED
  BY <1>1, <1>2, <1>3, <1>4, <1>5, <1>6, <1>7, <1>8, <1>9, <1>10 DEF SchedInv

\* Steps whose only effect on the scheduler is a switch_task.
LEMMA SwitchStepsInv ==
    ASSUME SchedInv, ExitYield \/ BlockYield \/ HandleYield \/ WakeupDone
    PROVE  SchedInv'
<1> USE DEF Self, CpuFree, Goto, lists, fields, machine
<1>1. /\ current \in Threads /\ ready_threads \in ReadyType /\ TypeOK
      /\ pc[current] # "locked" => lock_depth = 0
  BY CurrentFacts DEF SchedInv
<1>2. /\ SwitchTask(ready_threads, status, max_ready_priority)
      /\ UNCHANGED <<lists, fields>> /\ UNCHANGED <<lock_depth, req, mem, now>>
      /\ pc' \in [Threads -> Labels] /\ \A t \in Threads \ {current} : pc'[t] = pc[t]
      /\ irqs' \in Seq({"tick", "yield"}) /\ tick_armed' = tick_armed
      /\ ~bugcheck
      /\ loop' = NoLoop
  <2>1. CASE ExitYield
    BY <1>1, <2>1 DEF ExitYield, TypeOK, Labels
  <2>2. CASE BlockYield
    BY <1>1, <2>2 DEF BlockYield, TypeOK, Labels
  <2>3. CASE HandleYield
    <3>1. Tail(irqs) \in Seq({"tick", "yield"})
      BY <2>3, <1>1, HeadTailProperties DEF HandleYield, TypeOK
    <3> QED
      BY <1>1, <2>3, <3>1 DEF HandleYield, TypeOK, Labels
  <2>4. CASE WakeupDone
    <3>1. ~bugcheck
      BY <2>4 DEF WakeupDone, SchedInv, PcMatchesStatus, NoLoop
    <3> QED
      BY <1>1, <2>4, <3>1 DEF WakeupDone, TypeOK, Labels
  <2> QED
    BY <2>1, <2>2, <2>3, <2>4
<1>3. \/ pc[current] = "exit" /\ pc'[current] = "dead"
      \/ pc[current] = "yield" /\ pc'[current] = "check"
      \/ pc'[current] = pc[current]
  BY <1>1 DEF ExitYield, BlockYield, HandleYield, WakeupDone, TypeOK
<1>4. /\ ready_threads' = ready_threads /\ blocked_threads' = blocked_threads
      /\ delayed_threads' = delayed_threads /\ attached' = attached
      /\ wait_address' = wait_address /\ wakeup_time' = wakeup_time
  BY <1>2
<1>5. MatchAfter(status)
  BY <1>4 DEF MatchAfter, SchedInv, ListsMatchStatus
<1>6. \A t \in Threads : status[t] = "running" => t = current
  BY DEF SchedInv, PcMatchesStatus
<1>7. /\ ListsMatchStatus'
      /\ status' \in [Threads -> Statuses]
      /\ max_ready_priority' \in 0..MaxPriority
      /\ current' \in Threads
      /\ bugcheck' \in BOOLEAN
      /\ \A t \in Threads :
           /\ status'[t] \in Runnable <=> status[t] \in Runnable
           /\ status[t] \notin Runnable => status'[t] = status[t]
           /\ status'[t] = "running" => t = current'
      /\ current' # current =>
           /\ lock_depth = 0 /\ ~bugcheck' /\ status'[current'] = "running"
           /\ attached'[current']
      /\ current' = current /\ lock_depth = 0 /\ ~bugcheck' =>
           attached'[current] /\ status[current] \in Runnable
  <2>1. /\ ready_threads' \in ReadyType /\ attached' \in [Threads -> BOOLEAN]
        /\ status \in [Threads -> Statuses] /\ max_ready_priority \in 0..MaxPriority
        /\ SwitchTask(ready_threads', status, max_ready_priority)
    BY <1>1, <1>2, <1>4 DEF TypeOK
  <2> QED
    BY <1>1, <1>5, <1>6, <2>1, SwitchKeepsLists
<1>8. TypeOK'
  BY <1>1, <1>2, <1>4, <1>7 DEF TypeOK, ReadyType, NoLoop
<1>9. PcMatchesStatus'
  <2>1. \A t \in Threads :
         /\ attached'[t] <=> pc'[t] \notin {"new", "exit", "dead"}
         /\ pc'[t] \in {"run", "block", "notify", "locked"} => status'[t] \in Runnable
         /\ pc'[t] \in {"block", "yield", "check", "notify"} => req'[t].addr \in Addrs
         /\ status'[t] = "running" => t = current'
         /\ status'[t] = "blocked" =>
              pc'[t] \in {"yield", "check"} /\ wait_address'[t] = req'[t].addr
    BY <1>1, <1>2, <1>3, <1>4, <1>7 DEF SchedInv, PcMatchesStatus, Runnable
  <2>2. \A t \in Threads : pc'[t] = "locked" <=> t = current' /\ lock_depth' = 1
    BY <1>1, <1>2, <1>3, <1>7 DEF SchedInv, PcMatchesStatus
  <2>3. pc'[current'] # "new"
    BY <1>1, <1>2, <1>3, <1>7, <2>1 DEF SchedInv, PcMatchesStatus
  <2>4. pc'[current'] \in {"check", "sleep"} /\ ~bugcheck' => status'[current'] \in Runnable
    BY <1>1, <1>2, <1>3, <1>7 DEF SchedInv, PcMatchesStatus, Runnable
  <2>5. pc'[Idle] = "run"
    BY <1>1, <1>2, <1>3 DEF SchedInv, PcMatchesStatus
  <2> QED
    BY <1>2, <2>1, <2>2, <2>3, <2>4, <2>5 DEF PcMatchesStatus, NoLoop
<1> QED
  BY <1>7, <1>8, <1>9 DEF SchedInv

\* The machine's own steps and the start and end of an interrupt loop.
LEMMA MachineStepsInv ==
    ASSUME SchedInv,
           \/ UnblockDone \/ ClockAdvances \/ TimerFires \/ HandleTick
           \/ \E a \in DeviceAddrs, v \in Values : DeviceIrq(a, v)
           \/ UNCHANGED vars
    PROVE  SchedInv'
<1> USE DEF CpuFree, lists, fields, choice, machine
<1>1. UNCHANGED <<lists, fields, choice, lock_depth, pc, req>>
  BY DEF UnblockDone, ClockAdvances, TimerFires, HandleTick, DeviceIrq, vars
<1>2. ListsMatchStatus'
  BY <1>1, QuietStepKeepsLists DEF SchedInv
<1>3. /\ mem' \in [Addrs -> Values] /\ now' \in Nat /\ tick_armed' \in BOOLEAN
      /\ irqs' \in Seq({"tick", "yield"})
      /\ loop' \in [op : {"none", "unblock", "wakeup"}, addr : Addrs \cup {Null},
                    unblocked : BOOLEAN]
      /\ loop'.op = "unblock" => loop'.addr \in Addrs
      /\ loop' # NoLoop => ~bugcheck
  <2>0. TypeOK /\ PcMatchesStatus
    BY DEF SchedInv
  <2>1. CASE UnblockDone
    <3>1. Append(irqs, "yield") \in Seq({"tick", "yield"})
      BY <2>0, AppendProperties DEF TypeOK
    <3> QED
      BY <2>0, <2>1, <3>1 DEF UnblockDone, TypeOK, NoLoop
  <2>2. CASE ClockAdvances
    BY <2>0, <2>2 DEF ClockAdvances, TypeOK, PcMatchesStatus
  <2>3. CASE TimerFires
    <3>1. Append(irqs, "tick") \in Seq({"tick", "yield"})
      BY <2>0, AppendProperties DEF TypeOK
    <3> QED
      BY <2>0, <2>3, <3>1 DEF TimerFires, TypeOK, PcMatchesStatus
  <2>4. CASE HandleTick
    <3>1. Tail(irqs) \in Seq({"tick", "yield"})
      BY <2>0, <2>4, HeadTailProperties DEF TypeOK, HandleTick
    <3> QED
      BY <2>0, <2>4, <3>1 DEF HandleTick, TypeOK, NoLoop
  <2>5. CASE \E a \in DeviceAddrs, v \in Values : DeviceIrq(a, v)
    BY <2>0, <2>5 DEF DeviceIrq, TypeOK
  <2>6. CASE UNCHANGED vars
    BY <2>0, <2>6 DEF vars, TypeOK, PcMatchesStatus
  <2> QED
    BY <2>1, <2>2, <2>3, <2>4, <2>5, <2>6
<1>4. TypeOK'
  BY <1>1, <1>3 DEF SchedInv, TypeOK
<1>5. PcMatchesStatus'
  BY <1>1, <1>3 DEF SchedInv, PcMatchesStatus
<1> QED
  BY <1>2, <1>4, <1>5 DEF SchedInv

\* A waiting thread becomes ready: the common part of notification and wake-up.
LEMMA MadeReadyInv ==
    ASSUME SchedInv, NEW t \in Threads, attached[t], status[t] \notin Runnable,
           ready_threads' = PushReady(ready_threads, t),
           status' = [status EXCEPT ![t] = "ready"],
           max_ready_priority' = UpdateMaxReady(Priority[t]),
           \/ /\ blocked_threads' = Without(blocked_threads, t)
              /\ status[t] = "blocked"
              /\ delayed_threads' = delayed_threads
              /\ wait_address' = [wait_address EXCEPT ![t] = Null]
           \/ /\ delayed_threads' = Tail(delayed_threads)
              /\ delayed_threads # << >> /\ t = Head(delayed_threads)
              /\ blocked_threads' = blocked_threads
              /\ wait_address' = wait_address,
           UNCHANGED <<attached, wakeup_time, current, bugcheck, lock_depth, pc, req, mem>>,
           UNCHANGED <<now, tick_armed>>, irqs' \in Seq({"tick", "yield"}),
           loop' \in [op : {"none", "unblock", "wakeup"}, addr : Addrs \cup {Null},
                      unblocked : BOOLEAN],
           loop'.op = "unblock" => loop'.addr \in Addrs,
           loop' # NoLoop => ~bugcheck
    PROVE  SchedInv'
<1>1. /\ ready_threads \in ReadyType /\ Priority[t] \in 0..MaxPriority
      /\ t \notin ToSet(ready_threads[Priority[t]])
      /\ blocked_threads \in Seq(Threads) /\ Distinct(blocked_threads)
      /\ delayed_threads \in Seq(Threads) /\ Distinct(delayed_threads)
  BY DEF SchedInv, TypeOK, ReadyType, ListsMatchStatus
<1>2. /\ ready_threads' \in ReadyType
      /\ \A p \in 0..MaxPriority :
           /\ Distinct(ready_threads[p]) => Distinct(ready_threads'[p])
           /\ \A u \in Threads : u \in ToSet(ready_threads'[p]) <=>
                       u \in ToSet(ready_threads[p]) \/ (u = t /\ p = Priority[t])
  <2> DEFINE rd == PushReady(ready_threads, t)
  <2>1. /\ rd \in ReadyType
        /\ \A p \in 0..MaxPriority :
             /\ Distinct(ready_threads[p]) => Distinct(rd[p])
             /\ \A u \in Threads : u \in ToSet(rd[p]) <=>
                         u \in ToSet(ready_threads[p]) \/ (u = t /\ p = Priority[t])
    BY <1>1, Pushed
  <2>2. ready_threads' = rd
    OBVIOUS
  <2> HIDE DEF rd
  <2> QED
    BY <2>1, <2>2
<1>3. \A u \in Threads : status'[u] = IF u = t THEN "ready" ELSE status[u]
  BY DEF SchedInv, TypeOK
<1>4. /\ blocked_threads' \in Seq(Threads) /\ Distinct(blocked_threads')
      /\ delayed_threads' \in Seq(Threads) /\ Distinct(delayed_threads')
      /\ \A u \in Threads : /\ u \in ToSet(blocked_threads') <=>
                                 u \in ToSet(blocked_threads) /\ u # t
                            /\ u \in ToSet(delayed_threads') <=>
                                 u \in ToSet(delayed_threads) /\ u # t
  <2>1. CASE /\ blocked_threads' = Without(blocked_threads, t)
             /\ status[t] = "blocked" /\ delayed_threads' = delayed_threads
    <3>1. t \in ToSet(blocked_threads) /\ t \notin ToSet(delayed_threads)
      BY <2>1 DEF SchedInv, ListsMatchStatus
    <3>2. /\ blocked_threads' \in Seq(Threads) /\ Distinct(blocked_threads')
          /\ ToSet(blocked_threads') = ToSet(blocked_threads) \ {t}
      BY <1>1, <2>1, <3>1, RemoveElement
    <3> QED
      BY <1>1, <2>1, <3>1, <3>2
  <2>2. CASE /\ delayed_threads' = Tail(delayed_threads)
             /\ delayed_threads # << >> /\ t = Head(delayed_threads)
             /\ blocked_threads' = blocked_threads
    <3>1. t \in ToSet(delayed_threads)
      BY <1>1, <2>2, FrontInList
    <3>2. t \notin ToSet(blocked_threads)
      BY <3>1 DEF SchedInv, ListsMatchStatus
    <3>3. /\ delayed_threads' \in Seq(Threads) /\ Distinct(delayed_threads')
          /\ ToSet(delayed_threads') = ToSet(delayed_threads) \ {t}
      BY <1>1, <2>2, PopFront
    <3> QED
      BY <1>1, <2>2, <3>2, <3>3
  <2> QED
    BY <2>1, <2>2
<1>5. ListsMatchStatus'
  <2>1. attached' = attached /\ ListsMatchStatus
    BY DEF SchedInv
  <2>2. \A p \in 0..MaxPriority :
          /\ Distinct(ready_threads'[p])
          /\ \A u \in Threads : u \in ToSet(ready_threads'[p]) <=>
               attached'[u] /\ Priority[u] = p /\ status'[u] \in Runnable
    BY <1>2, <1>3, <2>1 DEF ListsMatchStatus, Runnable
  <2>3. \A u \in Threads :
          /\ u \in ToSet(blocked_threads') <=> attached'[u] /\ status'[u] = "blocked"
          /\ u \in ToSet(delayed_threads') <=> attached'[u] /\ status'[u] = "delayed"
    BY <1>3, <1>4, <2>1 DEF ListsMatchStatus
  <2> QED
    BY <1>4, <2>2, <2>3 DEF ListsMatchStatus
<1>6. TypeOK'
  BY <1>1, <1>2, <1>4 DEF SchedInv, TypeOK, ReadyType, UpdateMaxReady, Statuses
<1>7. PcMatchesStatus'
  <2>1. \A u \in Threads \ {t} : wait_address'[u] = wait_address[u]
    BY DEF SchedInv, TypeOK
  <2> QED
    BY <1>3, <2>1 DEF SchedInv, PcMatchesStatus, Runnable
<1> QED
  BY <1>5, <1>6, <1>7 DEF SchedInv

\* The waiter a notification picks is a blocked thread of that address.
LEMMA WaitersAreBlocked ==
    ASSUME SchedInv, NEW a, WaitersOf(a) # {}
    PROVE  LET t == blocked_threads[Min(WaitersOf(a))]
           IN  t \in Threads /\ attached[t] /\ status[t] = "blocked" /\ wait_address[t] = a
<1>1. DOMAIN blocked_threads = 1..Len(blocked_threads) /\ Len(blocked_threads) \in Nat
      /\ blocked_threads \in Seq(Threads)
  BY LenProperties DEF SchedInv, TypeOK
<1>2. WaitersOf(a) \in SUBSET Nat
  BY <1>1 DEF WaitersOf
<1>3. Min(WaitersOf(a)) \in WaitersOf(a)
  BY <1>2, MinInSet
<1> DEFINE t == blocked_threads[Min(WaitersOf(a))]
<1>4. t \in Threads /\ t \in ToSet(blocked_threads) /\ wait_address[t] = a
  BY <1>1, <1>3, ElementOfSeq DEF WaitersOf, ToSet
<1> QED
  BY <1>4 DEF SchedInv, ListsMatchStatus

\* Notifications and wake-ups.
LEMMA WakeStepsInv ==
    ASSUME SchedInv,
           (\E a \in Addrs : AtomicNotifyOne(a)) \/ UnblockNext \/ WakeupNext
    PROVE  SchedInv'
<1> USE DEF Self, CpuFree, fields, machine
<1>0. TypeOK /\ PcMatchesStatus /\ ListsMatchStatus
  BY DEF SchedInv
<1>1. ASSUME NEW a \in Addrs, AtomicNotifyOne(a) PROVE SchedInv'
  <2> DEFINE t == blocked_threads[Min(WaitersOf(a))]
  <2>1. WaitersOf(a) # {} /\ Unblock(t) /\ irqs' = Append(irqs, "yield") /\ ~bugcheck
    BY <1>1 DEF AtomicNotifyOne
  <2>2. t \in Threads /\ attached[t] /\ status[t] = "blocked"
    BY <2>1, WaitersAreBlocked
  <2>3. irqs' \in Seq({"tick", "yield"})
    BY <1>0, <2>1, AppendProperties DEF TypeOK
  <2>4. /\ loop' = loop /\ UNCHANGED <<now, tick_armed, lock_depth, pc, req, mem>>
        /\ loop' \in [op : {"none", "unblock", "wakeup"}, addr : Addrs \cup {Null},
                      unblocked : BOOLEAN]
        /\ loop'.op = "unblock" => loop'.addr \in Addrs
    BY <1>0, <1>1 DEF AtomicNotifyOne, TypeOK, PcMatchesStatus
  <2> HIDE DEF t
  <2> QED
    BY <2>1, <2>2, <2>3, <2>4, MadeReadyInv DEF Unblock, Runnable
<1>2. ASSUME UnblockNext PROVE SchedInv'
  <2> DEFINE t == blocked_threads[Min(WaitersOf(loop.addr))]
  <2>1. WaitersOf(loop.addr) # {} /\ Unblock(t) /\ loop.op = "unblock"
    BY <1>2 DEF UnblockNext
  <2>2. t \in Threads /\ attached[t] /\ status[t] = "blocked"
    BY <2>1, WaitersAreBlocked
  <2>3. /\ UNCHANGED <<now, tick_armed, lock_depth, pc, req, mem>> /\ irqs' = irqs
        /\ irqs' \in Seq({"tick", "yield"})
        /\ ~bugcheck /\ loop.addr \in Addrs
        /\ loop' = [loop EXCEPT !.unblocked = TRUE]
    BY <1>0, <1>2 DEF UnblockNext, TypeOK, PcMatchesStatus, NoLoop
  <2>4. /\ loop' \in [op : {"none", "unblock", "wakeup"}, addr : Addrs \cup {Null},
                      unblocked : BOOLEAN]
        /\ loop'.addr \in Addrs
    BY <1>0, <2>3 DEF TypeOK
  <2> HIDE DEF t
  <2> QED
    BY <2>1, <2>2, <2>3, <2>4, MadeReadyInv DEF Unblock, Runnable
<1>3. ASSUME WakeupNext PROVE SchedInv'
  <2> DEFINE t == Head(delayed_threads)
  <2>1. /\ delayed_threads # << >> /\ delayed_threads \in Seq(Threads)
        /\ loop' = loop /\ loop.op = "wakeup"
    BY <1>0, <1>3 DEF WakeupNext, HeadExpired, TypeOK
  <2>2. t \in ToSet(delayed_threads) /\ t \in Threads
    BY <2>1, FrontInList
  <2>3. attached[t] /\ status[t] = "delayed"
    BY <1>0, <2>2 DEF ListsMatchStatus
  <2>4. /\ ready_threads' = PushReady(ready_threads, t)
        /\ status' = [status EXCEPT ![t] = "ready"]
        /\ max_ready_priority' = UpdateMaxReady(Priority[t])
        /\ delayed_threads' = Tail(delayed_threads)
        /\ UNCHANGED <<blocked_threads, wait_address>>
        /\ UNCHANGED <<attached, wakeup_time, current, bugcheck, lock_depth, pc, req, mem>>
        /\ UNCHANGED <<now, tick_armed>> /\ irqs' = irqs
    BY <1>3 DEF WakeupNext
  <2>5. irqs' \in Seq({"tick", "yield"})
        /\ loop' \in [op : {"none", "unblock", "wakeup"}, addr : Addrs \cup {Null},
                      unblocked : BOOLEAN]
        /\ loop'.op # "unblock" /\ ~bugcheck
    BY <1>0, <2>1, <2>4 DEF TypeOK, PcMatchesStatus, NoLoop
  <2> HIDE DEF t
  <2> QED
    BY <2>1, <2>2, <2>3, <2>4, <2>5, MadeReadyInv DEF Runnable, t
<1> QED
  BY <1>1, <1>2, <1>3

\* A new thread is queued and the scheduler runs.
LEMMA AttachInv ==
    ASSUME SchedInv, NEW n \in Threads, AttachThread(n)
    PROVE  SchedInv'
<1> USE DEF Self, CpuFree, machine
<1> DEFINE st == [status EXCEPT ![n] = "ready"]
           max == UpdateMaxReady(Priority[n])
<1>0. TypeOK /\ PcMatchesStatus /\ ListsMatchStatus
  BY DEF SchedInv
<1>1. /\ current \in Threads /\ ready_threads \in ReadyType
      /\ pc[current] = "run" /\ lock_depth = 0 /\ pc[n] = "new" /\ ~attached[n] /\ n # current
      /\ attached[current] /\ status[current] \in Runnable
      /\ Priority[n] \in 0..MaxPriority
  BY CurrentFacts, <1>0 DEF AttachThread, PcMatchesStatus
<1>2. /\ n \notin ToSet(ready_threads[Priority[n]])
      /\ n \notin ToSet(blocked_threads) /\ n \notin ToSet(delayed_threads)
  BY <1>0, <1>1 DEF ListsMatchStatus
<1>3. /\ ready_threads' \in ReadyType
      /\ \A p \in 0..MaxPriority :
           /\ Distinct(ready_threads[p]) => Distinct(ready_threads'[p])
           /\ \A u \in Threads : u \in ToSet(ready_threads'[p]) <=>
                       u \in ToSet(ready_threads[p]) \/ (u = n /\ p = Priority[n])
  <2>1. ready_threads' = PushReady(ready_threads, n)
    BY DEF AttachThread
  <2> QED
    BY <1>1, <1>2, <2>1, Pushed
<1>4. /\ st \in [Threads -> Statuses]
      /\ \A u \in Threads : st[u] = IF u = n THEN "ready" ELSE status[u]
      /\ attached' \in [Threads -> BOOLEAN]
      /\ \A u \in Threads : attached'[u] <=> attached[u] \/ u = n
      /\ max \in 0..MaxPriority
  BY <1>0, <1>1 DEF AttachThread, TypeOK, Statuses, UpdateMaxReady
<1>5. /\ blocked_threads' = blocked_threads /\ delayed_threads' = delayed_threads
      /\ SwitchTask(ready_threads', st, max)
      /\ UNCHANGED <<wait_address, wakeup_time, machine, lock_depth, req, mem, loop>>
      /\ ~bugcheck
      /\ pc' \in [Threads -> Labels]
      /\ \A u \in Threads : pc'[u] = IF u = n THEN "run" ELSE pc[u]
  BY <1>0 DEF AttachThread, TypeOK, Labels
<1> HIDE DEF st, max
<1>6. MatchAfter(st)
  <2>1. \A p \in 0..MaxPriority :
          /\ Distinct(ready_threads'[p])
          /\ \A t \in Threads : t \in ToSet(ready_threads'[p]) <=>
               attached'[t] /\ Priority[t] = p /\ st[t] \in Runnable
    BY <1>0, <1>1, <1>3, <1>4 DEF ListsMatchStatus, Runnable
  <2>2. \A t \in Threads :
          /\ t \in ToSet(blocked_threads') <=> attached'[t] /\ st[t] = "blocked"
          /\ t \in ToSet(delayed_threads') <=> attached'[t] /\ st[t] = "delayed"
    BY <1>0, <1>1, <1>2, <1>4, <1>5 DEF ListsMatchStatus
  <2> QED
    BY <1>0, <1>5, <2>1, <2>2 DEF MatchAfter, ListsMatchStatus
<1>7. \A t \in Threads : st[t] = "running" => t = current
  BY <1>0, <1>4 DEF PcMatchesStatus
<1>8. /\ ListsMatchStatus'
      /\ status' \in [Threads -> Statuses]
      /\ max_ready_priority' \in 0..MaxPriority
      /\ current' \in Threads
      /\ bugcheck' \in BOOLEAN
      /\ \A t \in Threads :
           /\ status'[t] \in Runnable <=> st[t] \in Runnable
           /\ st[t] \notin Runnable => status'[t] = st[t]
           /\ status'[t] = "running" => t = current'
      /\ current' # current => ~bugcheck' /\ status'[current'] = "running" /\ attached'[current']
  BY <1>0, <1>3, <1>4, <1>5, <1>6, <1>7, SwitchKeepsLists
<1>9. TypeOK'
  BY <1>0, <1>3, <1>4, <1>5, <1>8 DEF TypeOK, ReadyType
<1>10. PcMatchesStatus'
  <2>1. \A t \in Threads :
         /\ attached'[t] <=> pc'[t] \notin {"new", "exit", "dead"}
         /\ pc'[t] \in {"run", "block", "notify", "locked"} => status'[t] \in Runnable
         /\ pc'[t] \in {"block", "yield", "check", "notify"} => req'[t].addr \in Addrs
         /\ status'[t] = "running" => t = current'
         /\ status'[t] = "blocked" =>
              pc'[t] \in {"yield", "check"} /\ wait_address'[t] = req'[t].addr
    BY <1>0, <1>1, <1>4, <1>5, <1>8 DEF PcMatchesStatus, Runnable
  <2>2. \A t \in Threads : pc'[t] = "locked" <=> t = current' /\ lock_depth' = 1
    BY <1>0, <1>1, <1>5 DEF PcMatchesStatus
  <2>3. pc'[current'] # "new"
    BY <1>1, <1>5, <1>8, <2>1
  <2>4. pc'[current'] \in {"check", "sleep"} /\ ~bugcheck' => status'[current'] \in Runnable
    BY <1>1, <1>5, <1>8 DEF Runnable
  <2>5. pc'[Idle] = "run"
    BY <1>0, <1>5 DEF PcMatchesStatus
  <2> QED
    BY <1>0, <1>1, <1>5, <2>1, <2>2, <2>3, <2>4, <2>5 DEF PcMatchesStatus, AttachThread
<1> QED
  BY <1>8, <1>9, <1>10 DEF SchedInv

\* A thread leaves its list for good.
LEMMA DetachInv ==
    ASSUME SchedInv, DetachThread
    PROVE  SchedInv'
<1> USE DEF Self, CpuFree, Goto, machine
<1>0. TypeOK /\ PcMatchesStatus /\ ListsMatchStatus
  BY DEF SchedInv
<1>1. /\ current \in Threads /\ ready_threads \in ReadyType
      /\ pc[current] = "run" /\ lock_depth = 0 /\ current # Idle
      /\ attached[current] /\ status[current] \in Runnable
      /\ current \in ToSet(ready_threads[Priority[current]])
      /\ Distinct(ready_threads[Priority[current]])
      /\ Priority[current] \in 0..MaxPriority
  BY CurrentFacts DEF DetachThread
<1>2. /\ ready_threads' \in ReadyType
      /\ \A p \in 0..MaxPriority :
           /\ Distinct(ready_threads[p]) => Distinct(ready_threads'[p])
           /\ \A u \in Threads : u \in ToSet(ready_threads'[p]) <=>
                       u \in ToSet(ready_threads[p]) /\ ~(u = current /\ p = Priority[current])
  <2>1. ready_threads' = TakeReady(ready_threads, current)
    BY DEF DetachThread
  <2> QED
    BY <1>1, <2>1, Taken
<1>3. /\ attached' \in [Threads -> BOOLEAN]
      /\ \A u \in Threads : attached'[u] <=> attached[u] /\ u # current
      /\ pc' \in [Threads -> Labels]
      /\ \A u \in Threads : pc'[u] = IF u = current THEN "exit" ELSE pc[u]
      /\ max_ready_priority' \in 0..MaxPriority
  BY <1>0, <1>1 DEF DetachThread, TypeOK, Labels
<1>4. /\ UNCHANGED <<blocked_threads, delayed_threads, wait_address, wakeup_time>>
      /\ UNCHANGED <<current, status, bugcheck, lock_depth, req, mem, loop>>
      /\ UNCHANGED machine
  BY DEF DetachThread
<1>5. ListsMatchStatus'
  <2>1. \A p \in 0..MaxPriority :
          /\ Distinct(ready_threads'[p])
          /\ \A t \in Threads : t \in ToSet(ready_threads'[p]) <=>
               attached'[t] /\ Priority[t] = p /\ status'[t] \in Runnable
    BY <1>0, <1>1, <1>2, <1>3, <1>4 DEF ListsMatchStatus, Runnable
  <2>2. \A t \in Threads :
          /\ t \in ToSet(blocked_threads') <=> attached'[t] /\ status'[t] = "blocked"
          /\ t \in ToSet(delayed_threads') <=> attached'[t] /\ status'[t] = "delayed"
    BY <1>0, <1>1, <1>3, <1>4 DEF ListsMatchStatus, Runnable
  <2> QED
    BY <1>0, <1>4, <2>1, <2>2 DEF ListsMatchStatus
<1>6. TypeOK'
  BY <1>0, <1>2, <1>3, <1>4 DEF TypeOK, ReadyType
<1>7. PcMatchesStatus'
  BY <1>0, <1>1, <1>3, <1>4 DEF PcMatchesStatus, Runnable
<1> QED
  BY <1>5, <1>6, <1>7 DEF SchedInv

\* add_to_delay_list adds the current thread to the delayed list.
LEMMA DelayInserted ==
    ASSUME TypeOK, NEW d \in Nat, AddToDelayList(d),
           Distinct(delayed_threads), current \notin ToSet(delayed_threads)
    PROVE  /\ delayed_threads' \in Seq(Threads) /\ Distinct(delayed_threads')
           /\ ToSet(delayed_threads') = ToSet(delayed_threads) \cup {current}
           /\ wakeup_time' \in [Threads -> Nat]
<1> DEFINE k == DelaySlot(delayed_threads, now + d)
<1>1. delayed_threads \in Seq(Threads) /\ current \in Threads
  BY DEF TypeOK
<1>2. k \in 1..(Len(delayed_threads) + 1)
  BY <1>1, DelaySlotInList
<1>3. delayed_threads' = InsertAt(delayed_threads, k, current)
  BY DEF AddToDelayList
<1> HIDE DEF k
<1>4. wakeup_time' \in [Threads -> Nat]
  BY DEF AddToDelayList, TypeOK
<1> QED
  <2>1. /\ InsertAt(delayed_threads, k, current) \in Seq(Threads)
        /\ ToSet(InsertAt(delayed_threads, k, current)) = ToSet(delayed_threads) \cup {current}
        /\ Distinct(InsertAt(delayed_threads, k, current))
    BY <1>1, <1>2, InsertElement, SMTT(30)
  <2> QED
    BY <2>1, <1>3, <1>4, Zenon

\* The current thread goes to the blocked or the delayed list.
LEMMA BlockInv ==
    ASSUME SchedInv, BlockCurrentThread
    PROVE  SchedInv'
<1> USE DEF Self, CpuFree, Goto, machine
<1>0. TypeOK /\ PcMatchesStatus /\ ListsMatchStatus
  BY DEF SchedInv
<1>1. /\ current \in Threads /\ ready_threads \in ReadyType
      /\ pc[current] = "block" /\ lock_depth = 0
      /\ attached[current] /\ status[current] \in Runnable
      /\ current \in ToSet(ready_threads[Priority[current]])
      /\ Distinct(ready_threads[Priority[current]])
      /\ Priority[current] \in 0..MaxPriority
      /\ current \notin ToSet(blocked_threads) /\ current \notin ToSet(delayed_threads)
      /\ req[current].addr \in Addrs /\ req[current].timeout \in Nat /\ current # Idle
  BY <1>0, CurrentFacts DEF BlockCurrentThread, QueueCurrent, TypeOK, PcMatchesStatus
<1>2. /\ ready_threads' \in ReadyType
      /\ \A p \in 0..MaxPriority :
           /\ Distinct(ready_threads[p]) => Distinct(ready_threads'[p])
           /\ \A u \in Threads : u \in ToSet(ready_threads'[p]) <=>
                       u \in ToSet(ready_threads[p]) /\ ~(u = current /\ p = Priority[current])
  <2>1. ready_threads' = TakeReady(ready_threads, current)
    BY DEF BlockCurrentThread, QueueCurrent
  <2> QED
    BY <1>1, <2>1, Taken
<1>3. /\ UNCHANGED <<attached, current, max_ready_priority, bugcheck>>
      /\ UNCHANGED <<now, tick_armed, irqs, lock_depth, req, mem, loop>>
      /\ ~bugcheck
      /\ pc' \in [Threads -> Labels]
      /\ \A u \in Threads : pc'[u] = IF u = current THEN "yield" ELSE pc[u]
      /\ wait_address' \in [Threads -> Addrs \cup {Null}]
      /\ \A u \in Threads : wait_address'[u] = IF u = current THEN req[u].addr ELSE wait_address[u]
  BY <1>0, <1>1 DEF BlockCurrentThread, QueueCurrent, TypeOK, Labels
<1>4. \E s \in {"blocked", "delayed"} :
         /\ status' \in [Threads -> Statuses]
         /\ \A u \in Threads : status'[u] = IF u = current THEN s ELSE status[u]
         /\ blocked_threads' \in Seq(Threads) /\ Distinct(blocked_threads')
         /\ delayed_threads' \in Seq(Threads) /\ Distinct(delayed_threads')
         /\ wakeup_time' \in [Threads -> Nat]
         /\ \A u \in Threads :
              /\ u \in ToSet(blocked_threads') <=>
                   u \in ToSet(blocked_threads) \/ (u = current /\ s = "blocked")
              /\ u \in ToSet(delayed_threads') <=>
                   u \in ToSet(delayed_threads) \/ (u = current /\ s = "delayed")
  <2>0. /\ blocked_threads \in Seq(Threads) /\ Distinct(blocked_threads)
        /\ delayed_threads \in Seq(Threads) /\ Distinct(delayed_threads)
        /\ wakeup_time \in [Threads -> Nat] /\ status \in [Threads -> Statuses]
    BY <1>0 DEF TypeOK, ListsMatchStatus
  <2>1. CASE req[current].timed
    <3>1. /\ AddToDelayList(req[current].timeout) /\ blocked_threads' = blocked_threads
          /\ status' = [status EXCEPT ![current] = "delayed"]
      BY <2>1 DEF BlockCurrentThread, QueueCurrent
    <3>2. /\ delayed_threads' \in Seq(Threads) /\ Distinct(delayed_threads')
          /\ ToSet(delayed_threads') = ToSet(delayed_threads) \cup {current}
          /\ wakeup_time' \in [Threads -> Nat]
      BY <1>0, <1>1, <2>0, <3>1, DelayInserted
    <3>3. /\ status' \in [Threads -> Statuses]
          /\ \A u \in Threads : status'[u] = IF u = current THEN "delayed" ELSE status[u]
      BY <1>1, <2>0, <3>1 DEF Statuses
    <3> WITNESS "delayed" \in {"blocked", "delayed"}
    <3> QED
      BY <2>0, <3>1, <3>2, <3>3
  <2>2. CASE ~req[current].timed
    <3>1. /\ blocked_threads' = Append(blocked_threads, current)
          /\ status' = [status EXCEPT ![current] = "blocked"]
          /\ delayed_threads' = delayed_threads /\ wakeup_time' = wakeup_time
      BY <2>2 DEF BlockCurrentThread, QueueCurrent
    <3>2. /\ blocked_threads' \in Seq(Threads) /\ Distinct(blocked_threads')
          /\ ToSet(blocked_threads') = ToSet(blocked_threads) \cup {current}
      BY <1>1, <2>0, <3>1, AppendElement
    <3>3. /\ status' \in [Threads -> Statuses]
          /\ \A u \in Threads : status'[u] = IF u = current THEN "blocked" ELSE status[u]
      BY <1>1, <2>0, <3>1 DEF Statuses
    <3> WITNESS "blocked" \in {"blocked", "delayed"}
    <3> QED
      BY <2>0, <3>1, <3>2, <3>3
  <2> QED
    BY <2>1, <2>2
<1>5. PICK s \in {"blocked", "delayed"} :
         /\ status' \in [Threads -> Statuses]
         /\ \A u \in Threads : status'[u] = IF u = current THEN s ELSE status[u]
         /\ blocked_threads' \in Seq(Threads) /\ Distinct(blocked_threads')
         /\ delayed_threads' \in Seq(Threads) /\ Distinct(delayed_threads')
         /\ wakeup_time' \in [Threads -> Nat]
         /\ \A u \in Threads :
              /\ u \in ToSet(blocked_threads') <=>
                   u \in ToSet(blocked_threads) \/ (u = current /\ s = "blocked")
              /\ u \in ToSet(delayed_threads') <=>
                   u \in ToSet(delayed_threads) \/ (u = current /\ s = "delayed")
  BY <1>4
<1>6a. /\ status'[current] = s /\ s \notin Runnable
       /\ \A t \in Threads : t # current => status'[t] = status[t]
  BY <1>1, <1>5 DEF Runnable
<1>6. ListsMatchStatus'
  <2>1. ASSUME NEW p \in 0..MaxPriority
        PROVE  /\ Distinct(ready_threads'[p])
               /\ \A t \in Threads : t \in ToSet(ready_threads'[p]) <=>
                    attached'[t] /\ Priority[t] = p /\ status'[t] \in Runnable
    <3>1. /\ Distinct(ready_threads[p])
          /\ \A t \in Threads : t \in ToSet(ready_threads[p]) <=>
               attached[t] /\ Priority[t] = p /\ status[t] \in Runnable
      BY <1>0 DEF ListsMatchStatus
    <3>2. Distinct(ready_threads'[p])
      BY <1>2, <3>1
    <3>3. ASSUME NEW t \in Threads
          PROVE  t \in ToSet(ready_threads'[p]) <=>
                    attached'[t] /\ Priority[t] = p /\ status'[t] \in Runnable
      <4>1. CASE t = current
        BY <1>2, <1>6a, <3>1, <4>1
      <4>2. CASE t # current
        BY <1>2, <1>3, <1>6a, <3>1, <4>2
      <4> QED
        BY <4>1, <4>2
    <3> QED
      BY <3>2, <3>3
  <2>2. ASSUME NEW t \in Threads
        PROVE  /\ t \in ToSet(blocked_threads') <=> attached'[t] /\ status'[t] = "blocked"
               /\ t \in ToSet(delayed_threads') <=> attached'[t] /\ status'[t] = "delayed"
    <3>1. /\ t \in ToSet(blocked_threads) <=> attached[t] /\ status[t] = "blocked"
          /\ t \in ToSet(delayed_threads) <=> attached[t] /\ status[t] = "delayed"
      BY <1>0 DEF ListsMatchStatus
    <3>2. CASE t = current
      BY <1>1, <1>3, <1>5, <1>6a, <3>2
    <3>3. CASE t # current
      BY <1>3, <1>5, <1>6a, <3>1, <3>3
    <3> QED
      BY <3>2, <3>3
  <2>3. Distinct(blocked_threads') /\ Distinct(delayed_threads')
    BY <1>5
  <2> QED
    BY <2>1, <2>2, <2>3 DEF ListsMatchStatus
<1>7. TypeOK'
  BY <1>0, <1>2, <1>3, <1>5 DEF TypeOK, ReadyType
<1>8. PcMatchesStatus'
  <2>1. ASSUME NEW t \in Threads
        PROVE  /\ attached'[t] <=> pc'[t] \notin {"new", "exit", "dead"}
               /\ pc'[t] \in {"run", "block", "notify", "locked"} => status'[t] \in Runnable
               /\ pc'[t] \in {"block", "yield", "check", "notify"} => req'[t].addr \in Addrs
               /\ pc'[t] = "locked" <=> t = current' /\ lock_depth' = 1
               /\ status'[t] = "running" => t = current'
               /\ status'[t] = "blocked" =>
                    pc'[t] \in {"yield", "check"} /\ wait_address'[t] = req'[t].addr
    <3>0. /\ attached[t] <=> pc[t] \notin {"new", "exit", "dead"}
          /\ pc[t] \in {"run", "block", "notify", "locked"} => status[t] \in Runnable
          /\ pc[t] \in {"block", "yield", "check", "notify"} => req[t].addr \in Addrs
          /\ pc[t] = "locked" <=> t = current /\ lock_depth = 1
          /\ status[t] = "running" => t = current
          /\ status[t] = "blocked" =>
               pc[t] \in {"yield", "check"} /\ wait_address[t] = req[t].addr
      BY <1>0 DEF PcMatchesStatus
    <3>1. CASE t = current
      <4>1. pc'[t] = "yield" /\ wait_address'[t] = req[t].addr /\ status'[t] = s
        BY <1>3, <1>6a, <3>1
      <4> QED
        BY <1>1, <1>3, <1>6a, <3>0, <3>1, <4>1 DEF Runnable
    <3>2. CASE t # current
      <4>1. pc'[t] = pc[t] /\ wait_address'[t] = wait_address[t] /\ status'[t] = status[t]
        BY <1>3, <1>6a, <3>2
      <4> QED
        BY <1>3, <3>0, <4>1
    <3> QED
      BY <3>1, <3>2
  <2>2. pc'[current'] = "yield"
    BY <1>1, <1>3
  <2>3. pc'[Idle] = "run"
    BY <1>0, <1>1, <1>3 DEF PcMatchesStatus
  <2>4. loop' = NoLoop /\ ~bugcheck'
    BY <1>3 DEF BlockCurrentThread, QueueCurrent
  <2> QED
    BY <2>1, <2>2, <2>3, <2>4 DEF PcMatchesStatus, NoLoop
<1> QED
  BY <1>6, <1>7, <1>8 DEF SchedInv

\* The current thread goes to sleep and the scheduler runs.
LEMMA DelayInv ==
    ASSUME SchedInv, NEW d \in Timeouts, DelayCurrentThread(d)
    PROVE  SchedInv'
<1> USE DEF Self, CpuFree, Goto, machine
<1> DEFINE st == [status EXCEPT ![current] = "delayed"]
<1>0. TypeOK /\ PcMatchesStatus /\ ListsMatchStatus /\ d \in Nat
  BY DEF SchedInv
<1>1. /\ current \in Threads /\ ready_threads \in ReadyType
      /\ pc[current] = "run" /\ lock_depth = 0 /\ current # Idle
      /\ attached[current] /\ status[current] \in Runnable
      /\ current \in ToSet(ready_threads[Priority[current]])
      /\ Distinct(ready_threads[Priority[current]])
      /\ Priority[current] \in 0..MaxPriority
      /\ current \notin ToSet(blocked_threads) /\ current \notin ToSet(delayed_threads)
  BY CurrentFacts DEF DelayCurrentThread
<1>2. /\ ready_threads' \in ReadyType
      /\ \A p \in 0..MaxPriority :
           /\ Distinct(ready_threads[p]) => Distinct(ready_threads'[p])
           /\ \A u \in Threads : u \in ToSet(ready_threads'[p]) <=>
                       u \in ToSet(ready_threads[p]) /\ ~(u = current /\ p = Priority[current])
  <2>1. ready_threads' = TakeReady(ready_threads, current)
    BY DEF DelayCurrentThread
  <2> QED
    BY <1>1, <2>1, Taken
<1>3. /\ UNCHANGED <<blocked_threads, attached, wait_address>>
      /\ UNCHANGED <<now, tick_armed, irqs, lock_depth, req, mem, loop>>
      /\ ~bugcheck /\ AddToDelayList(d)
      /\ SwitchTask(ready_threads', st, max_ready_priority)
      /\ pc' \in [Threads -> Labels]
      /\ \A u \in Threads : pc'[u] = IF u = current THEN "sleep" ELSE pc[u]
      /\ st \in [Threads -> Statuses]
      /\ \A u \in Threads : st[u] = IF u = current THEN "delayed" ELSE status[u]
  BY <1>0, <1>1 DEF DelayCurrentThread, TypeOK, Labels, Statuses
<1>4. /\ delayed_threads' \in Seq(Threads) /\ Distinct(delayed_threads')
      /\ ToSet(delayed_threads') = ToSet(delayed_threads) \cup {current}
      /\ wakeup_time' \in [Threads -> Nat]
  <2>1. Distinct(delayed_threads)
    BY <1>0 DEF ListsMatchStatus
  <2> QED
    BY <1>0, <1>1, <1>3, <2>1, DelayInserted
<1> HIDE DEF st
<1>5. MatchAfter(st)
  <2>1. \A p \in 0..MaxPriority :
          /\ Distinct(ready_threads'[p])
          /\ \A t \in Threads : t \in ToSet(ready_threads'[p]) <=>
               attached'[t] /\ Priority[t] = p /\ st[t] \in Runnable
    BY <1>0, <1>1, <1>2, <1>3 DEF ListsMatchStatus, Runnable
  <2>2. ASSUME NEW t \in Threads
        PROVE  /\ t \in ToSet(blocked_threads') <=> attached'[t] /\ st[t] = "blocked"
               /\ t \in ToSet(delayed_threads') <=> attached'[t] /\ st[t] = "delayed"
    <3>1. /\ t \in ToSet(blocked_threads) <=> attached[t] /\ status[t] = "blocked"
          /\ t \in ToSet(delayed_threads) <=> attached[t] /\ status[t] = "delayed"
      BY <1>0 DEF ListsMatchStatus
    <3>2. CASE t = current
      BY <1>1, <1>3, <1>4, <3>2
    <3>3. CASE t # current
      BY <1>3, <1>4, <3>1, <3>3
    <3> QED
      BY <3>2, <3>3
  <2> QED
    BY <1>0, <1>3, <1>4, <2>1, <2>2 DEF MatchAfter, ListsMatchStatus
<1>6. \A t \in Threads : st[t] = "running" => t = current
  BY <1>0, <1>3 DEF PcMatchesStatus
<1>7. /\ ListsMatchStatus'
      /\ status' \in [Threads -> Statuses]
      /\ max_ready_priority' \in 0..MaxPriority
      /\ current' \in Threads
      /\ bugcheck' \in BOOLEAN
      /\ \A t \in Threads :
           /\ status'[t] \in Runnable <=> st[t] \in Runnable
           /\ st[t] \notin Runnable => status'[t] = st[t]
           /\ status'[t] = "running" => t = current'
      /\ current' # current => ~bugcheck' /\ status'[current'] = "running" /\ attached'[current']
      /\ current' = current /\ lock_depth = 0 /\ ~bugcheck' =>
           attached'[current] /\ st[current] \in Runnable
  <2>1. attached' \in [Threads -> BOOLEAN] /\ max_ready_priority \in 0..MaxPriority
    BY <1>0, <1>3 DEF TypeOK
  <2> QED
    BY <1>0, <1>2, <1>3, <1>5, <1>6, <2>1, SwitchKeepsLists
<1>8. TypeOK'
  BY <1>0, <1>2, <1>3, <1>4, <1>7 DEF TypeOK, ReadyType
<1>9. PcMatchesStatus'
  <2>1. \A t \in Threads :
         /\ attached'[t] <=> pc'[t] \notin {"new", "exit", "dead"}
         /\ pc'[t] \in {"run", "block", "notify", "locked"} => status'[t] \in Runnable
         /\ pc'[t] \in {"block", "yield", "check", "notify"} => req'[t].addr \in Addrs
         /\ status'[t] = "running" => t = current'
         /\ status'[t] = "blocked" =>
              pc'[t] \in {"yield", "check"} /\ wait_address'[t] = req'[t].addr
    BY <1>0, <1>1, <1>3, <1>7 DEF PcMatchesStatus, Runnable
  <2>2. \A t \in Threads : pc'[t] = "locked" <=> t = current' /\ lock_depth' = 1
    BY <1>0, <1>1, <1>3 DEF PcMatchesStatus
  <2>3. pc'[current'] # "new"
    BY <1>1, <1>3, <1>7, <2>1
  <2>4. pc'[current'] \in {"check", "sleep"} /\ ~bugcheck' => status'[current'] \in Runnable
    BY <1>1, <1>3, <1>7 DEF Runnable
  <2>5. pc'[Idle] = "run"
    BY <1>0, <1>1, <1>3 DEF PcMatchesStatus
  <2>6. (loop'.op = "unblock" => loop'.addr \in Addrs) /\ loop' = NoLoop
    BY <1>0, <1>3 DEF PcMatchesStatus, DelayCurrentThread
  <2> QED
    BY <2>1, <2>2, <2>3, <2>4, <2>5, <2>6 DEF PcMatchesStatus
<1> QED
  BY <1>7, <1>8, <1>9 DEF SchedInv

(***************************************************************************)
(* The theorems                                                            *)
(***************************************************************************)

\* Every step keeps the invariant.
LEMMA NextInv == SchedInv /\ [Next]_vars => SchedInv'
<1> SUFFICES ASSUME SchedInv, [Next]_vars PROVE SchedInv'
  OBVIOUS
<1>1. CASE ThreadStep
  <2>1. CASE \E n \in Threads : AttachThread(n)
    BY <2>1, AttachInv
  <2>2. CASE DetachThread
    BY <2>2, DetachInv
  <2>3. CASE ExitYield \/ BlockYield
    BY <2>3, SwitchStepsInv
  <2>4. CASE BlockCurrentThread
    BY <2>4, BlockInv
  <2>5. CASE \E d \in Timeouts : DelayCurrentThread(d)
    BY <2>5, DelayInv
  <2>6. CASE \E a \in Addrs : AtomicNotifyOne(a)
    BY <2>6, WakeStepsInv
  <2>7. CASE \/ \E a \in Addrs, old \in Values : AtomicWait(a, old, FALSE, 0)
             \/ \E a \in Addrs, old \in Values, d \in Timeouts : AtomicWait(a, old, TRUE, d)
             \/ BlockReturnsAtOnce \/ BlockCheck \/ DelayReturns
             \/ \E a \in Addrs, v \in Values : Store(a, v)
             \/ AtomicNotifyAll \/ LockSchedule \/ UnlockSchedule
    BY <2>7, CodeStepsInv
  <2> QED
    BY <1>1, <2>1, <2>2, <2>3, <2>4, <2>5, <2>6, <2>7 DEF ThreadStep
<1>2. CASE LoopStep
  BY <1>2, MachineStepsInv, WakeStepsInv, SwitchStepsInv DEF LoopStep
<1>3. CASE IrqStep
  BY <1>3, MachineStepsInv, SwitchStepsInv DEF IrqStep
<1>4. CASE ClockAdvances \/ TimerFires \/ UNCHANGED vars
  BY <1>4, MachineStepsInv
<1> QED
  BY <1>1, <1>2, <1>3, <1>4 DEF Next

\* Types and the agreement of lists, statuses and code positions hold in every
\* reachable state, for any number of threads, priorities and interrupts.
THEOREM SchedInvariance == Spec => []SchedInv
<1>1. Init => SchedInv
  BY InitInv
<1>2. SchedInv /\ [Next]_vars => SchedInv'
  BY NextInv
<1> QED
  BY <1>1, <1>2, PTL DEF Spec

(***************************************************************************)
(* The search for the next thread                                          *)
(***************************************************************************)
\* Nothing is ready above the place the search starts from.
Covers(rd, max) == \A p \in 0..MaxPriority : rd[p] # << >> => p <= max

\* A switch goes to an attached thread; if the search it makes starts high
\* enough, so will the next one, and it finds a thread.
LEMMA SwitchOutcome ==
    ASSUME SchedInv, SchedInv', ~bugcheck,
           NEW st \in [Threads -> Statuses], NEW max \in 0..MaxPriority,
           SwitchTask(ready_threads', st, max)
    PROVE  /\ current' # current =>
                /\ attached'[current'] /\ status'[current'] = "running"
                /\ max_ready_priority' = Priority[current']
           /\ Covers(ready_threads', max) => Covers(ready_threads', max_ready_priority')
           /\ ~SomeThreadExited' => ~bugcheck'
           /\ \A t \in Threads : status'[t] \notin Runnable => status'[t] = st[t]
<1> DEFINE next == SelectNextThread(ready_threads', st, max)
           rd == ready_threads'
<1>1. /\ current \in Threads /\ current' \in Threads /\ rd \in ReadyType
      /\ lock_depth \in {0, 1} /\ TypeOK /\ ListsMatchStatus' /\ PcMatchesStatus'
      /\ \A t \in Threads : Priority[t] \in 0..MaxPriority
  BY DEF SchedInv, TypeOK, ReadyType
<1>2. \/ /\ next = Null
         /\ \/ rd[Priority[current]] = << >> /\ st[current] = "running"
            \/ rd[0] = << >>
      \/ \E m \in 0..MaxPriority :
           /\ next \in ToSet(rd[m]) /\ next \in Threads
           /\ \A p \in 0..max : rd[p] # << >> => p <= m
  BY <1>1, SelectChoice
<1>3. rd[0] # << >>
  <2>1. Idle \in ToSet(rd[0])
    BY <1>1 DEF PcMatchesStatus, ListsMatchStatus
  <2> QED
    BY <2>1 DEF ToSet
<1> HIDE DEF next, rd
<1>4. CASE lock_depth > 0
  <2>1. /\ status' = st /\ max_ready_priority' = max /\ current' = current /\ bugcheck' = bugcheck
    BY <1>4 DEF SwitchTask, KeepCurrent
  <2> QED
    BY <2>1
<1>5. CASE ~(lock_depth > 0) /\ next \in {Null, current}
  <2>1. /\ status' = st /\ max_ready_priority' = max /\ current' = current
        /\ bugcheck' = (next = Null)
    BY <1>5 DEF SwitchTask, KeepCurrent, next
  <2>2. ASSUME ~SomeThreadExited', bugcheck' PROVE FALSE
    <3>1. rd[Priority[current]] = << >> /\ st[current] = "running"
      BY <1>1, <1>2, <1>3, <2>1, <2>2
    <3>2. attached'[current] /\ status'[current] = "running"
      BY <1>1, <2>1, <2>2, <3>1 DEF PcMatchesStatus, SomeThreadExited
    <3>3. current \in ToSet(rd[Priority[current]])
      BY <1>1, <3>2 DEF ListsMatchStatus, Runnable, rd
    <3> QED
      BY <3>1, <3>3 DEF ToSet
  <2> QED
    BY <2>1, <2>2
<1>6. CASE ~(lock_depth > 0) /\ next \notin {Null, current}
  <2>1. SetCurrentThread(next, st) /\ bugcheck' = (next = Null)
    BY <1>6 DEF SwitchTask, next
  <2>2. PICK m \in 0..MaxPriority : /\ next \in ToSet(rd[m]) /\ next \in Threads
                                    /\ \A p \in 0..max : rd[p] # << >> => p <= m
    BY <1>2, <1>6
  <2>3. /\ current' = next /\ max_ready_priority' = Priority[next] /\ ~bugcheck'
        /\ status'[next] = "running"
        /\ \A t \in Threads : status'[t] \in {"running", "ready", st[t]}
    BY <1>1, <1>6, <2>1, <2>2 DEF SetCurrentThread
  <2>4. attached'[next] /\ Priority[next] = m
    BY <1>1, <2>2 DEF ListsMatchStatus, rd
  <2>5. Covers(ready_threads', max) => Covers(ready_threads', max_ready_priority')
    <3> SUFFICES ASSUME Covers(rd, max), NEW p \in 0..MaxPriority, rd[p] # << >>
                 PROVE  p <= m
      BY <2>3, <2>4 DEF Covers, rd
    <3>1. p \in 0..max
      BY DEF Covers
    <3> QED
      BY <2>2, <3>1
  <2> QED
    BY <2>3, <2>4, <2>5 DEF Runnable
<1> QED
  BY <1>4, <1>5, <1>6

\* A thread that has returned from its entry point stays where it is.
LEMMA ExitIsFinal ==
    ASSUME SchedInv, Next, SomeThreadExited
    PROVE  SomeThreadExited'
<1>1. PICK t \in Threads : pc[t] \in {"exit", "dead"}
  BY DEF SomeThreadExited
<1>2. pc \in [Threads -> Labels] /\ current \in Threads
  BY DEF SchedInv, TypeOK
<1>3. pc'[t] \in {"exit", "dead"}
  <2>1. CASE \E n \in Threads : AttachThread(n)
    BY <1>1, <1>2, <2>1 DEF AttachThread
  <2>2. CASE ExitYield \/ DetachThread
    BY <1>1, <1>2, <2>2 DEF ExitYield, DetachThread, Goto
  <2>3. CASE pc' = pc
    BY <1>1, <2>3
  <2>4. CASE \E l, m : pc[current] = l /\ l \notin {"exit", "dead"} /\ pc' = [pc EXCEPT ![current] = m]
    BY <1>1, <1>2, <2>4
  <2>5. CASE ThreadStep
    <3>1. CASE \/ \E a \in Addrs, old \in Values : AtomicWait(a, old, FALSE, 0)
               \/ \E a \in Addrs, old \in Values, d \in Timeouts : AtomicWait(a, old, TRUE, d)
               \/ BlockReturnsAtOnce \/ BlockCurrentThread \/ BlockYield \/ BlockCheck
               \/ (\E d \in Timeouts : DelayCurrentThread(d)) \/ DelayReturns
               \/ (\E a \in Addrs, v \in Values : Store(a, v))
               \/ AtomicNotifyAll \/ LockSchedule \/ UnlockSchedule
      BY <3>1, <2>4 DEF AtomicWait, BlockReturnsAtOnce, BlockCurrentThread, QueueCurrent, BlockYield,
           BlockCheck, DelayCurrentThread, DelayReturns, Store, AtomicNotifyAll, LockSchedule,
           UnlockSchedule, Self, Goto
    <3>2. CASE \E a \in Addrs : AtomicNotifyOne(a)
      BY <3>2, <2>3 DEF AtomicNotifyOne
    <3> QED
      BY <2>1, <2>2, <2>5, <3>1, <3>2 DEF ThreadStep
  <2>6. CASE LoopStep \/ IrqStep \/ ClockAdvances \/ TimerFires
    BY <2>3, <2>6 DEF LoopStep, IrqStep, UnblockNext, UnblockDone, WakeupNext, WakeupDone,
         HandleYield, HandleTick, DeviceIrq, ClockAdvances, TimerFires
  <2> QED
    BY <2>5, <2>6 DEF Next
<1> QED
  BY <1>3 DEF SomeThreadExited

\* update_max_ready_priority keeps up with a thread that is queued.
LEMMA PushCovers ==
    ASSUME TypeOK, NEW t \in Threads, Covers(ready_threads, max_ready_priority)
    PROVE  Covers(PushReady(ready_threads, t), UpdateMaxReady(Priority[t]))
<1>1. /\ ready_threads \in [0..MaxPriority -> Seq(Threads)]
      /\ max_ready_priority \in 0..MaxPriority /\ Priority[t] \in 0..MaxPriority
  BY DEF TypeOK
<1> DEFINE max == UpdateMaxReady(Priority[t])
<1>2. max_ready_priority <= max /\ Priority[t] <= max /\ max \in 0..MaxPriority
  BY <1>1 DEF UpdateMaxReady
<1>3. \A p \in 0..MaxPriority : p # Priority[t] =>
        PushReady(ready_threads, t)[p] = ready_threads[p]
  BY <1>1 DEF PushReady
<1> HIDE DEF max
<1> SUFFICES ASSUME NEW p \in 0..MaxPriority, PushReady(ready_threads, t)[p] # << >>
             PROVE  p <= max
  BY DEF Covers, max
<1>4. CASE p = Priority[t]
  BY <1>2, <1>4
<1>5. CASE p # Priority[t]
  <2>1. p <= max_ready_priority
    BY <1>3, <1>5 DEF Covers
  <2> QED
    BY <1>1, <1>2, <2>1
<1> QED
  BY <1>4, <1>5

\* A thread that leaves its list leaves nothing new.
LEMMA TakeCovers ==
    ASSUME TypeOK, NEW t \in Threads, t \in ToSet(ready_threads[Priority[t]]),
           Covers(ready_threads, max_ready_priority)
    PROVE  Covers(TakeReady(ready_threads, t), max_ready_priority)
<1>1. ready_threads \in [0..MaxPriority -> Seq(Threads)] /\ Priority[t] \in 0..MaxPriority
  BY DEF TypeOK
<1>2. \A p \in 0..MaxPriority : p # Priority[t] =>
        TakeReady(ready_threads, t)[p] = ready_threads[p]
  BY <1>1 DEF TakeReady
<1>3. ready_threads[Priority[t]] # << >>
  BY DEF ToSet
<1> QED
  BY <1>1, <1>2, <1>3 DEF Covers

\* Every step is a call of switch_task, an exit, or keeps the current thread
\* and the start of the search.
LEMMA StepKinds ==
    ASSUME SchedInv, [Next]_vars
    PROVE  \/ /\ UNCHANGED <<current, bugcheck>>
              /\ Covers(ready_threads, max_ready_priority) =>
                   Covers(ready_threads', max_ready_priority')
           \/ /\ ~bugcheck
              /\ \E st \in [Threads -> Statuses], max \in 0..MaxPriority :
                   /\ SwitchTask(ready_threads', st, max)
                   /\ Covers(ready_threads, max_ready_priority) => Covers(ready_threads', max)
           \/ DetachThread
<1> DEFINE Goal == \/ /\ UNCHANGED <<current, bugcheck>>
                      /\ Covers(ready_threads, max_ready_priority) =>
                           Covers(ready_threads', max_ready_priority')
                   \/ /\ ~bugcheck
                      /\ \E st \in [Threads -> Statuses], max \in 0..MaxPriority :
                           /\ SwitchTask(ready_threads', st, max)
                           /\ Covers(ready_threads, max_ready_priority) =>
                                Covers(ready_threads', max)
                   \/ DetachThread
<1>0. /\ TypeOK /\ status \in [Threads -> Statuses] /\ max_ready_priority \in 0..MaxPriority
      /\ current \in Threads
  BY DEF SchedInv, TypeOK
<1>1. ASSUME \E n \in Threads : AttachThread(n) PROVE Goal
  <2>1. PICK n \in Threads : AttachThread(n)
    BY <1>1
  <2> DEFINE st == [status EXCEPT ![n] = "ready"]
             max == UpdateMaxReady(Priority[n])
  <2>2. /\ st \in [Threads -> Statuses] /\ max \in 0..MaxPriority
        /\ ready_threads' = PushReady(ready_threads, n)
        /\ SwitchTask(ready_threads', st, max) /\ ~bugcheck
    BY <1>0, <2>1 DEF AttachThread, Self, CpuFree, Statuses, UpdateMaxReady
  <2>3. Covers(ready_threads, max_ready_priority) => Covers(ready_threads', max)
    BY <1>0, <2>2, PushCovers
  <2> HIDE DEF st, max
  <2> QED
    BY <2>2, <2>3
<1>2. ASSUME DetachThread PROVE Goal
  BY <1>2
<1>3. ASSUME ExitYield \/ BlockYield \/ HandleYield \/ WakeupDone PROVE Goal
  <2>1. /\ SwitchTask(ready_threads, status, max_ready_priority) /\ ready_threads' = ready_threads
        /\ ~bugcheck
    BY <1>3 DEF ExitYield, BlockYield, HandleYield, WakeupDone, lists, Self, CpuFree,
         SchedInv, PcMatchesStatus, NoLoop
  <2> QED
    BY <1>0, <2>1
<1>4. ASSUME \E d \in Timeouts : DelayCurrentThread(d) PROVE Goal
  <2>1. PICK d \in Timeouts : DelayCurrentThread(d)
    BY <1>4
  <2> DEFINE st == [status EXCEPT ![current] = "delayed"]
  <2>2. /\ st \in [Threads -> Statuses] /\ pc[current] = "run"
        /\ ready_threads' = TakeReady(ready_threads, current)
        /\ SwitchTask(ready_threads', st, max_ready_priority) /\ ~bugcheck
    BY <1>0, <2>1 DEF DelayCurrentThread, Self, CpuFree, Statuses
  <2>3. Covers(ready_threads, max_ready_priority) => Covers(ready_threads', max_ready_priority)
    BY <1>0, <2>2, CurrentFacts, TakeCovers
  <2> HIDE DEF st
  <2> QED
    BY <1>0, <2>2, <2>3
<1>5. ASSUME BlockCurrentThread PROVE Goal
  <2>1. /\ ready_threads' = TakeReady(ready_threads, current) /\ pc[current] = "block"
        /\ UNCHANGED <<current, bugcheck, max_ready_priority>>
    BY <1>5 DEF BlockCurrentThread, QueueCurrent, Self
  <2> QED
    BY <1>0, <2>1, CurrentFacts, TakeCovers
<1>6. ASSUME (\E a \in Addrs : AtomicNotifyOne(a)) \/ UnblockNext PROVE Goal
  <2>1. PICK a : WaitersOf(a) # {} /\ Unblock(blocked_threads[Min(WaitersOf(a))])
    BY <1>6 DEF AtomicNotifyOne, UnblockNext
  <2> DEFINE t == blocked_threads[Min(WaitersOf(a))]
  <2>2. t \in Threads
    BY <2>1, WaitersAreBlocked
  <2>3. /\ ready_threads' = PushReady(ready_threads, t)
        /\ max_ready_priority' = UpdateMaxReady(Priority[t])
        /\ UNCHANGED <<current, bugcheck>>
    BY <2>1 DEF Unblock
  <2> HIDE DEF t
  <2> QED
    BY <1>0, <2>2, <2>3, PushCovers
<1>7. ASSUME WakeupNext PROVE Goal
  <2> DEFINE t == Head(delayed_threads)
  <2>1. t \in Threads
    <3>1. delayed_threads # << >> /\ delayed_threads \in Seq(Threads)
      BY <1>0, <1>7 DEF WakeupNext, HeadExpired, TypeOK
    <3> QED
      BY <3>1, FrontInList
  <2>2. /\ ready_threads' = PushReady(ready_threads, t)
        /\ max_ready_priority' = UpdateMaxReady(Priority[t])
        /\ UNCHANGED <<current, bugcheck>>
    BY <1>7 DEF WakeupNext
  <2> HIDE DEF t
  <2> QED
    BY <1>0, <2>1, <2>2, PushCovers
<1>8. ASSUME UNCHANGED <<ready_threads, max_ready_priority, current, bugcheck>> PROVE Goal
  BY <1>8
<1>9. ASSUME \/ \E a \in Addrs, old \in Values : AtomicWait(a, old, FALSE, 0)
             \/ \E a \in Addrs, old \in Values, d \in Timeouts : AtomicWait(a, old, TRUE, d)
             \/ BlockReturnsAtOnce \/ BlockCheck \/ DelayReturns
             \/ \E a \in Addrs, v \in Values : Store(a, v)
             \/ AtomicNotifyAll \/ LockSchedule \/ UnlockSchedule
      PROVE  Goal
  <2>1. UNCHANGED <<ready_threads, max_ready_priority, current, bugcheck>>
    BY <1>9 DEF AtomicWait, BlockReturnsAtOnce, BlockCheck, DelayReturns, Store,
           AtomicNotifyAll, LockSchedule, UnlockSchedule, lists, choice
  <2> QED
    BY <1>8, <2>1
<1>10. ASSUME \/ UnblockDone \/ ClockAdvances \/ TimerFires \/ HandleTick
              \/ \E a \in DeviceAddrs, v \in Values : DeviceIrq(a, v)
              \/ UNCHANGED vars
       PROVE  Goal
  <2>1. UNCHANGED <<ready_threads, max_ready_priority, current, bugcheck>>
    BY <1>10 DEF UnblockDone, ClockAdvances, TimerFires, HandleTick, DeviceIrq, vars, lists, choice
  <2> QED
    BY <1>8, <2>1
<1> HIDE DEF Goal
<1>11. Goal
  BY <1>1, <1>2, <1>3, <1>4, <1>5, <1>6, <1>7, <1>9, <1>10
     DEF Next, ThreadStep, LoopStep, IrqStep
<1> QED
  BY <1>11 DEF Goal

\* Until a thread exits, the search misses nothing and finds a thread: the
\* kassert of select_next_thread holds for every program that does not exit.
THEOREM SearchIsComplete == Spec => []SearchMissesNone
<1>1. Init => SearchMissesNone
  <2> SUFFICES ASSUME Init, NEW p \in 0..MaxPriority, ready_threads[p] # << >>
               PROVE  p <= max_ready_priority /\ ~bugcheck
    BY DEF Init, SearchMissesNone
  <2>1. ready_threads[p] = IF p = Priority[Worker]
                           THEN IF p = 0 THEN <<Idle, Worker>> ELSE <<Worker>>
                           ELSE IF p = 0 THEN <<Idle>> ELSE << >>
    BY DEF Init
  <2>2. p = Priority[Worker] \/ p = 0
    BY <2>1
  <2> QED
    BY <2>2 DEF Init
<1>2. SchedInv /\ SchedInv' /\ SearchMissesNone /\ [Next]_vars => SearchMissesNone'
  <2> SUFFICES ASSUME SchedInv, SchedInv', SearchMissesNone, [Next]_vars, ~SomeThreadExited'
               PROVE  Covers(ready_threads', max_ready_priority') /\ ~bugcheck'
    BY DEF SearchMissesNone, Covers
  <2>1. ~SomeThreadExited
    BY ExitIsFinal DEF vars, SomeThreadExited
  <2>2. Covers(ready_threads, max_ready_priority) /\ ~bugcheck
    BY <2>1 DEF SearchMissesNone, Covers
  <2>3. CASE /\ UNCHANGED <<current, bugcheck>>
             /\ Covers(ready_threads, max_ready_priority) =>
                  Covers(ready_threads', max_ready_priority')
    BY <2>2, <2>3
  <2>4. ASSUME NEW st \in [Threads -> Statuses], NEW max \in 0..MaxPriority,
               SwitchTask(ready_threads', st, max),
               Covers(ready_threads, max_ready_priority) => Covers(ready_threads', max)
        PROVE  Covers(ready_threads', max_ready_priority') /\ ~bugcheck'
    BY <2>2, <2>4, SwitchOutcome
  <2>5. ~DetachThread
    <3> SUFFICES ASSUME DetachThread PROVE FALSE
      OBVIOUS
    <3>1. pc'[current] = "exit" /\ current \in Threads
      BY DEF DetachThread, Goto, SchedInv, TypeOK
    <3> QED
      BY <3>1 DEF SomeThreadExited
  <2> QED
    BY <2>3, <2>4, <2>5, StepKinds
<1> QED
  BY <1>1, <1>2, SchedInvariance, PTL DEF Spec

\* A switch goes to an attached thread, and the search starts from it next.
LEMMA SwitchedTo ==
    ASSUME SchedInv, SchedInv', [Next]_vars, current' # current
    PROVE  /\ attached'[current'] /\ status'[current'] = "running"
           /\ max_ready_priority' = Priority[current']
<1>1. ~DetachThread
  BY DEF DetachThread
<1>2. PICK st \in [Threads -> Statuses], max \in 0..MaxPriority :
        SwitchTask(ready_threads', st, max) /\ ~bugcheck
  BY <1>1, StepKinds
<1> QED
  BY <1>2, SwitchOutcome

\* No switch goes to a thread that has exited, or to one that was never
\* attached.
THEOREM ExitedStayOff == Spec => ExitedNeverRuns
<1>1. SchedInv /\ SchedInv' /\ [Next]_vars => [current' # current => attached'[current']]_vars
  BY SwitchedTo
<1> QED
  BY <1>1, SchedInvariance, PTL DEF Spec, ExitedNeverRuns

\* Until a thread exits, every switch goes to a thread of the highest ready
\* priority.
THEOREM HighestIsChosen == Spec => SwitchesToHighest
<1> DEFINE Step == current' # current /\ ~SomeThreadExited' =>
          \A t \in Threads : attached'[t] /\ status'[t] = "ready" =>
              Priority[t] <= Priority[current']
<1>1. SchedInv /\ SchedInv' /\ SearchMissesNone' /\ [Next]_vars => [Step]_vars
  <2> SUFFICES ASSUME SchedInv, SchedInv', SearchMissesNone', [Next]_vars, current' # current,
                      ~SomeThreadExited', NEW t \in Threads, attached'[t], status'[t] = "ready"
               PROVE  Priority[t] <= Priority[current']
    OBVIOUS
  <2>1. t \in ToSet(ready_threads'[Priority[t]]) /\ Priority[t] \in 0..MaxPriority
    BY DEF SchedInv, ListsMatchStatus, Runnable
  <2>2. ready_threads'[Priority[t]] # << >>
    BY <2>1 DEF ToSet
  <2>3. Priority[t] <= max_ready_priority'
    BY <2>1, <2>2 DEF SearchMissesNone
  <2> QED
    BY <2>3, SwitchedTo
<1> QED
  BY <1>1, SchedInvariance, SearchIsComplete, PTL DEF Spec, SwitchesToHighest

(***************************************************************************)
(* Waits and notifications                                                 *)
(***************************************************************************)
\* A notification of the address a is under way.
Notified(a) ==
    \/ loop.op = "unblock" /\ loop.addr = a
    \/ \E u \in Threads : pc[u] = "notify" /\ req[u].addr = a

\* What NoLostWakeup says of one thread, by the list the thread is in.
Waits(t) ==
    t \in ToSet(blocked_threads) /\ mem[req[t].addr] # req[t].old => Notified(wait_address[t])

\* The two readings agree.
LEMMA WaitsMeaning ==
    ASSUME SchedInv
    PROVE  NoLostWakeup <=> \A t \in Threads : Waits(t)
BY DEF NoLostWakeup, Waits, Notified, SchedInv, ListsMatchStatus

\* A step that queues no thread, changes neither the request nor the value of
\* a queued one and keeps the notifications under way loses nothing.
LEMMA WaitsKept ==
    ASSUME NEW t \in Threads, Waits(t),
           t \in ToSet(blocked_threads)' =>
             /\ t \in ToSet(blocked_threads)
             /\ wait_address'[t] = wait_address[t] /\ req'[t] = req[t]
             /\ mem'[req[t].addr] = mem[req[t].addr]
             /\ Notified(wait_address[t]) => Notified(wait_address[t])'
    PROVE  Waits(t)'
BY DEF Waits, Notified

\* The blocked list holds neither the current thread while it executes
\* ordinary code nor a thread without a place to wait.
LEMMA BlockedFacts ==
    ASSUME SchedInv, NEW t \in Threads, t \in ToSet(blocked_threads)
    PROVE  /\ pc[t] \in {"yield", "check"} /\ status[t] = "blocked"
           /\ wait_address[t] = req[t].addr /\ req[t].addr \in Addrs
           /\ t = current /\ ~bugcheck => pc[t] = "yield"
<1>1. status[t] = "blocked" /\ attached[t]
  BY DEF SchedInv, ListsMatchStatus
<1> QED
  BY <1>1 DEF SchedInv, PcMatchesStatus, Runnable

\* The code of the current thread that neither stores nor notifies.
LEMMA OwnStepWaits ==
    ASSUME SchedInv, NEW t \in Threads, Waits(t), ~bugcheck,
           pc[current] \notin {"notify", "yield"}, \E l : l # "notify" /\ Goto(l),
           \A u \in Threads : u # current => req'[u] = req[u],
           UNCHANGED <<blocked_threads, wait_address, mem, loop>>
    PROVE  Waits(t)'
<1>1. /\ pc \in [Threads -> Labels] /\ current \in Threads
  BY DEF SchedInv, TypeOK
<1>2. \A u \in Threads : u # current => pc'[u] = pc[u]
  BY <1>1 DEF Goto
<1>3. \A u \in Threads : pc[u] = "notify" => pc'[u] = "notify" /\ req'[u] = req[u]
  BY <1>1, <1>2
<1>4. ASSUME NEW a PROVE Notified(a) => Notified(a)'
  BY <1>3 DEF Notified
<1>5. t \in ToSet(blocked_threads) => t # current
  BY BlockedFacts
<1> QED
  BY <1>4, <1>5, WaitsKept

\* No step leaves a thread blocked on a value that has changed without a
\* notification of it under way.
LEMMA WaitsNext ==
    ASSUME SchedInv, SchedInv', [Next]_vars, \A u \in Threads : Waits(u), NEW t \in Threads
    PROVE  Waits(t)'
<1>0. /\ pc \in [Threads -> Labels] /\ current \in Threads /\ blocked_threads \in Seq(Threads)
      /\ mem \in [Addrs -> Values] /\ Waits(t) /\ Distinct(blocked_threads)
      /\ req \in [Threads -> [addr : Addrs \cup {Null}, old : Values, timed : BOOLEAN,
                            timeout : Nat, since : Nat]]
      /\ wait_address \in [Threads -> Addrs \cup {Null}]
  BY DEF SchedInv, TypeOK, ListsMatchStatus
<1>1. ASSUME NEW n \in Threads, AttachThread(n) PROVE Waits(t)'
  <2>1. \A u \in Threads : pc[u] = "notify" => pc'[u] = "notify" /\ req'[u] = req[u]
    BY <1>0, <1>1 DEF AttachThread
  <2>2. UNCHANGED <<blocked_threads, wait_address, mem, req, loop>>
    BY <1>1 DEF AttachThread
  <2>3. Notified(wait_address[t]) => Notified(wait_address[t])'
    BY <2>1, <2>2 DEF Notified
  <2> QED
    BY <1>0, <2>2, <2>3, WaitsKept
<1>2. ASSUME \/ DetachThread \/ ExitYield \/ BlockReturnsAtOnce \/ BlockCheck
             \/ (\E a \in Addrs, old \in Values : AtomicWait(a, old, FALSE, 0))
             \/ (\E a \in Addrs, old \in Values, d \in Timeouts : AtomicWait(a, old, TRUE, d))
             \/ (\E d \in Timeouts : DelayCurrentThread(d))
             \/ DelayReturns \/ LockSchedule \/ UnlockSchedule
      PROVE  Waits(t)'
  <2>1. /\ pc[current] \notin {"notify", "yield"} /\ ~bugcheck
        /\ \E l : l # "notify" /\ Goto(l)
    BY <1>2 DEF DetachThread, ExitYield, BlockReturnsAtOnce, BlockCheck, AtomicWait,
         DelayCurrentThread, DelayReturns, LockSchedule, UnlockSchedule, Self, CpuFree
  <2>2. /\ req' = req \/ \E r : req' = [req EXCEPT ![current] = r]
        /\ UNCHANGED <<blocked_threads, wait_address, mem, loop>>
    BY <1>2 DEF DetachThread, ExitYield, BlockReturnsAtOnce, BlockCheck, AtomicWait,
         DelayCurrentThread, DelayReturns, LockSchedule, UnlockSchedule, DropReq, lists, fields
  <2>3. \A u \in Threads : u # current => req'[u] = req[u]
    BY <1>0, <2>2
  <2> QED
    BY <1>0, <2>1, <2>2, <2>3, OwnStepWaits
<1>3. ASSUME BlockYield PROVE Waits(t)'
  <2>1. \A u \in Threads : pc[u] = "notify" => pc'[u] = "notify"
    BY <1>0, <1>3 DEF BlockYield, Self, Goto
  <2>2. UNCHANGED <<blocked_threads, wait_address, mem, req, loop>>
    BY <1>3 DEF BlockYield, lists, fields
  <2>3. Notified(wait_address[t]) => Notified(wait_address[t])'
    BY <2>1, <2>2 DEF Notified
  <2> QED
    BY <1>0, <2>2, <2>3, WaitsKept
<1>4. ASSUME BlockCurrentThread PROVE Waits(t)'
  <2>1. /\ pc[current] = "block" /\ mem[req[current].addr] = req[current].old
        /\ UNCHANGED <<mem, req, loop>>
        /\ wait_address' = [wait_address EXCEPT ![current] = req[current].addr]
        /\ pc' = [pc EXCEPT ![current] = "yield"]
        /\ blocked_threads' \in {blocked_threads, Append(blocked_threads, current)}
    BY <1>4 DEF BlockCurrentThread, QueueCurrent, Self, Goto
  <2>2. CASE t = current
    BY <2>1, <2>2 DEF Waits
  <2>3. CASE t # current
    <3>1. \A u \in Threads : pc[u] = "notify" => pc'[u] = "notify"
      BY <1>0, <2>1
    <3>2. Notified(wait_address[t]) => Notified(wait_address[t])'
      BY <1>0, <2>1, <2>3, <3>1 DEF Notified
    <3>3. ToSet(Append(blocked_threads, current)) = ToSet(blocked_threads) \cup {current}
      BY <1>0, AppendElement
    <3>4. t \in ToSet(blocked_threads') => t \in ToSet(blocked_threads)
      BY <2>1, <2>3, <3>3
    <3> QED
      BY <1>0, <2>1, <2>3, <3>2, <3>4, WaitsKept
  <2> QED
    BY <2>2, <2>3
<1>5. ASSUME NEW a \in Addrs, NEW v \in Values, Store(a, v) PROVE Waits(t)'
  <2>1. /\ pc[current] = "run" /\ pc' = [pc EXCEPT ![current] = "notify"] /\ ~bugcheck
        /\ mem' = [mem EXCEPT ![a] = v]
        /\ req' = [req EXCEPT ![current] = [NoReq EXCEPT !.addr = a]]
        /\ UNCHANGED <<blocked_threads, wait_address, loop>>
    BY <1>5 DEF Store, Self, CpuFree, Goto, lists, fields
  <2>2. pc'[current] = "notify" /\ req'[current].addr = a
    BY <1>0, <2>1 DEF NoReq
  <2>3. Notified(a)'
    BY <1>0, <2>2 DEF Notified
  <2>4. ASSUME t \in ToSet(blocked_threads) PROVE Waits(t)'
    <3>1. t # current /\ wait_address[t] = req[t].addr /\ req[t].addr \in Addrs
      BY <2>1, <2>4, BlockedFacts
    <3>2. CASE wait_address[t] = a
      BY <2>1, <2>3, <3>2 DEF Waits, Notified
    <3>3. CASE wait_address[t] # a
      <4>1. mem'[req[t].addr] = mem[req[t].addr] /\ req'[t] = req[t]
        BY <1>0, <2>1, <3>1, <3>3
      <4>2. \A u \in Threads : pc[u] = "notify" => pc'[u] = "notify" /\ req'[u] = req[u]
        BY <1>0, <2>1
      <4>3. Notified(wait_address[t]) => Notified(wait_address[t])'
        BY <2>1, <4>2 DEF Notified
      <4> QED
        BY <1>0, <2>1, <4>1, <4>3, WaitsKept
    <3> QED
      BY <3>2, <3>3
  <2> QED
    BY <2>1, <2>4 DEF Waits
<1>6. ASSUME AtomicNotifyAll PROVE Waits(t)'
  <2>1. /\ pc[current] = "notify" /\ pc' = [pc EXCEPT ![current] = "run"] /\ ~bugcheck
        /\ loop = NoLoop
        /\ loop' = [op |-> "unblock", addr |-> req[current].addr, unblocked |-> FALSE]
        /\ req' = [req EXCEPT ![current] = NoReq]
        /\ UNCHANGED <<blocked_threads, wait_address, mem>>
    BY <1>6 DEF AtomicNotifyAll, Self, CpuFree, Goto, DropReq, lists, fields
  <2>2. \A u \in Threads : pc[u] = "notify" =>
          u = current \/ (pc'[u] = "notify" /\ req'[u] = req[u])
    BY <1>0, <2>1
  <2>3. loop.op # "unblock" /\ loop'.op = "unblock" /\ loop'.addr = req[current].addr
    BY <2>1 DEF NoLoop
  <2>4. Notified(wait_address[t]) => Notified(wait_address[t])'
    BY <2>1, <2>2, <2>3 DEF Notified
  <2>5. t \in ToSet(blocked_threads) => t # current
    BY <2>1, BlockedFacts
  <2> QED
    BY <1>0, <2>1, <2>4, <2>5, WaitsKept
<1>7. ASSUME (\E a \in Addrs : AtomicNotifyOne(a)) \/ UnblockNext PROVE Waits(t)'
  <2>1. PICK a : WaitersOf(a) # {} /\ Unblock(blocked_threads[Min(WaitersOf(a))])
    BY <1>7 DEF AtomicNotifyOne, UnblockNext
  <2> DEFINE w == blocked_threads[Min(WaitersOf(a))]
  <2>2. w \in Threads /\ w \in ToSet(blocked_threads)
    BY <2>1, WaitersAreBlocked DEF SchedInv, ListsMatchStatus
  <2>3. /\ wait_address' = [wait_address EXCEPT ![w] = Null]
        /\ blocked_threads' = Without(blocked_threads, w)
    BY <2>1 DEF Unblock
  <2>4. /\ UNCHANGED <<pc, req, mem>>
        /\ loop.op = "unblock" => loop'.op = "unblock" /\ loop'.addr = loop.addr
    BY <1>7 DEF AtomicNotifyOne, UnblockNext, SchedInv, TypeOK
  <2> HIDE DEF w
  <2>5. ToSet(blocked_threads') = ToSet(blocked_threads) \ {w}
    BY <1>0, <2>2, <2>3, RemoveElement
  <2>6. Notified(wait_address[t]) => t = w \/ Notified(wait_address[t])'
    BY <1>0, <2>3, <2>4 DEF Notified
  <2> QED
    BY <1>0, <2>3, <2>4, <2>5, <2>6, WaitsKept
<1>8. ASSUME UnblockDone PROVE Waits(t)'
  <2>1. /\ WaitersOf(loop.addr) = {} /\ UNCHANGED <<blocked_threads, wait_address, mem, pc, req>>
    BY <1>8 DEF UnblockDone, lists, fields
  <2>2. t \in ToSet(blocked_threads) => wait_address[t] # loop.addr
    BY <2>1 DEF WaitersOf, ToSet
  <2>3. t \in ToSet(blocked_threads) /\ Notified(wait_address[t]) => Notified(wait_address[t])'
    BY <2>1, <2>2 DEF Notified
  <2> QED
    BY <1>0, <2>1, <2>3, WaitsKept
<1>9. ASSUME NEW a \in DeviceAddrs, NEW v \in Values, DeviceIrq(a, v) PROVE Waits(t)'
  <2>1. /\ loop = NoLoop /\ loop' = [op |-> "unblock", addr |-> a, unblocked |-> FALSE]
        /\ mem' = [mem EXCEPT ![a] = v] /\ a \in Addrs
        /\ UNCHANGED <<blocked_threads, wait_address, pc, req>>
    BY <1>9 DEF DeviceIrq, CpuFree, lists, fields
  <2>2. loop.op # "unblock" /\ loop'.op = "unblock" /\ loop'.addr = a
    BY <2>1 DEF NoLoop
  <2>3. Notified(a)'
    BY <2>2 DEF Notified
  <2>4. ASSUME t \in ToSet(blocked_threads) PROVE Waits(t)'
    <3>1. wait_address[t] = req[t].addr /\ req[t].addr \in Addrs
      BY <2>4, BlockedFacts
    <3>2. CASE wait_address[t] = a
      BY <2>1, <2>3, <3>2 DEF Waits, Notified
    <3>3. CASE wait_address[t] # a
      <4>1. mem'[req[t].addr] = mem[req[t].addr]
        BY <1>0, <2>1, <3>1, <3>3
      <4>2. Notified(wait_address[t]) => Notified(wait_address[t])'
        BY <2>1, <2>2 DEF Notified
      <4> QED
        BY <1>0, <2>1, <4>1, <4>2, WaitsKept
    <3> QED
      BY <3>2, <3>3
  <2> QED
    BY <2>1, <2>4 DEF Waits
<1>10. ASSUME \/ WakeupNext \/ WakeupDone \/ HandleYield \/ HandleTick \/ ClockAdvances
              \/ TimerFires \/ UNCHANGED vars
       PROVE  Waits(t)'
  <2>1. /\ UNCHANGED <<blocked_threads, wait_address, mem, pc, req>>
        /\ loop.op = "unblock" => loop' = loop
    BY <1>10 DEF WakeupNext, WakeupDone, HandleYield, HandleTick, ClockAdvances, TimerFires,
         CpuFree, NoLoop, vars, lists, fields
  <2>2. Notified(wait_address[t]) => Notified(wait_address[t])'
    BY <2>1 DEF Notified
  <2> QED
    BY <1>0, <2>1, <2>2, WaitsKept
<1> QED
  BY <1>1, <1>2, <1>3, <1>4, <1>5, <1>6, <1>7, <1>8, <1>9, <1>10
     DEF Next, ThreadStep, LoopStep, IrqStep

\* No wake-up is lost, whatever interrupt comes between the two reads of the
\* value, the queueing, the yield, the store and its notification.
THEOREM WakeupsKept == Spec => []NoLostWakeup
<1>1. Init => NoLostWakeup
  BY DEF Init, NoLostWakeup
<1>2. SchedInv /\ SchedInv' /\ NoLostWakeup /\ [Next]_vars => NoLostWakeup'
  <2> SUFFICES ASSUME SchedInv, SchedInv', NoLostWakeup, [Next]_vars PROVE NoLostWakeup'
    OBVIOUS
  <2>1. \A t \in Threads : Waits(t)
    BY WaitsMeaning
  <2>2. \A t \in Threads : Waits(t)'
    BY <2>1, WaitsNext
  <2> QED
    BY <2>2 DEF NoLostWakeup, Waits, Notified, SchedInv, ListsMatchStatus
<1> QED
  BY <1>1, <1>2, SchedInvariance, PTL DEF Spec

(***************************************************************************)
(* Sleeping                                                                *)
(***************************************************************************)
\* A thread in nanosleep is delayed and off the CPU until its time has come.
SleepOf(t) ==
    pc[t] = "sleep" => \/ status[t] = "delayed" /\ t # current
                       \/ wakeup_time[t] <= now

SleepInv == \A t \in Threads : SleepOf(t)

\* A sleeper that stays in the delayed list stays off the CPU.
LEMMA SleeperStays ==
    ASSUME SchedInv, SchedInv', [Next]_vars, NEW t \in Threads, SleepOf(t), pc[t] = "sleep",
           t \in ToSet(delayed_threads) => t \in ToSet(delayed_threads)',
           wakeup_time'[t] = wakeup_time[t], now' \in {now, now + 1}
    PROVE  SleepOf(t)'
<1>1. /\ wakeup_time \in [Threads -> Nat] /\ now \in Nat
      /\ status[t] = "delayed" => t \in ToSet(delayed_threads)
      /\ t \in ToSet(delayed_threads)' => status'[t] = "delayed"
  BY DEF SchedInv, TypeOK, ListsMatchStatus, PcMatchesStatus
<1>2. CASE status[t] = "delayed" /\ t # current
  <2>1. status'[t] = "delayed"
    BY <1>1, <1>2
  <2>2. current' # current => status'[current'] = "running"
    BY SwitchedTo
  <2>3. t # current'
    BY <1>2, <2>1, <2>2
  <2> QED
    BY <2>1, <2>3 DEF SleepOf
<1>3. CASE wakeup_time[t] <= now
  BY <1>1, <1>3 DEF SleepOf
<1> QED
  BY <1>2, <1>3 DEF SleepOf

\* nanosleep leaves the CPU: the idle thread is always there to take it.
LEMMA SleeperLeaves ==
    ASSUME SchedInv, SchedInv', NEW d \in Timeouts, DelayCurrentThread(d)
    PROVE  current' # current /\ status'[current] = "delayed"
<1> DEFINE st == [status EXCEPT ![current] = "delayed"]
           next == SelectNextThread(ready_threads', st, max_ready_priority)
<1>1. /\ TypeOK /\ current \in Threads /\ status \in [Threads -> Statuses]
      /\ max_ready_priority \in 0..MaxPriority /\ ready_threads' \in ReadyType
      /\ pc[current] = "run" /\ current # Idle /\ pc \in [Threads -> Labels]
  BY DEF SchedInv, TypeOK, DelayCurrentThread, Self, ReadyType
<1>2. st \in [Threads -> Statuses] /\ st[current] = "delayed"
  BY <1>1 DEF Statuses
<1>3. /\ lock_depth = 0 /\ Distinct(ready_threads[Priority[current]])
      /\ current \in ToSet(ready_threads[Priority[current]]) /\ ready_threads \in ReadyType
  BY <1>1, CurrentFacts
<1>4. ready_threads' = TakeReady(ready_threads, current)
  BY DEF DelayCurrentThread
<1>5. \A p \in 0..MaxPriority : \A u \in Threads : u \in ToSet(ready_threads'[p]) <=>
                            u \in ToSet(ready_threads[p]) /\ ~(u = current /\ p = Priority[current])
  BY <1>1, <1>3, <1>4, Taken
<1>6. \A p \in 0..MaxPriority : current \notin ToSet(ready_threads'[p])
  BY <1>1, <1>5 DEF SchedInv, ListsMatchStatus
<1>7. ready_threads'[0] # << >>
  <2>1. attached[Idle] /\ status[Idle] \in Runnable
    BY DEF SchedInv, PcMatchesStatus
  <2>2. Idle \in ToSet(ready_threads[0]) /\ 0 \in 0..MaxPriority
    BY <2>1 DEF SchedInv, ListsMatchStatus
  <2>3. Idle \in ToSet(ready_threads'[0])
    BY <1>1, <1>5, <2>2
  <2> QED
    BY <2>3 DEF ToSet
<1>8. SwitchTask(ready_threads', st, max_ready_priority)
  BY DEF DelayCurrentThread
<1> HIDE DEF st
<1>9. next \notin {Null, current}
  BY <1>1, <1>2, <1>6, <1>7, SelectChoice
<1>10. SetCurrentThread(next, st)
  BY <1>3, <1>8, <1>9 DEF SwitchTask
<1> HIDE DEF next
<1> QED
  BY <1>1, <1>2, <1>9, <1>10 DEF SetCurrentThread

\* The step of each action for one thread.
LEMMA SleepNext ==
    ASSUME SchedInv, SchedInv', [Next]_vars, SleepInv, NEW t \in Threads
    PROVE  SleepOf(t)'
<1>0. /\ pc \in [Threads -> Labels] /\ current \in Threads /\ now \in Nat
      /\ delayed_threads \in Seq(Threads) /\ Distinct(delayed_threads)
      /\ wakeup_time \in [Threads -> Nat] /\ SleepOf(t) /\ TypeOK
      /\ status \in [Threads -> Statuses]
  BY DEF SchedInv, TypeOK, ListsMatchStatus, SleepInv
<1>1. ASSUME UNCHANGED <<delayed_threads, wakeup_time>>, now' \in {now, now + 1},
             pc'[t] = "sleep" => pc[t] = "sleep"
      PROVE  SleepOf(t)'
  BY <1>0, <1>1, SleeperStays DEF SleepOf
<1>2. ASSUME \/ (\E n \in Threads : AttachThread(n)) \/ DetachThread \/ ExitYield
             \/ (\E a \in Addrs, old \in Values : AtomicWait(a, old, FALSE, 0))
             \/ (\E a \in Addrs, old \in Values, d \in Timeouts : AtomicWait(a, old, TRUE, d))
             \/ BlockReturnsAtOnce \/ BlockYield \/ BlockCheck \/ DelayReturns
             \/ (\E a \in Addrs, v \in Values : Store(a, v)) \/ AtomicNotifyAll
             \/ LockSchedule \/ UnlockSchedule
      PROVE  SleepOf(t)'
  <2>1. UNCHANGED <<delayed_threads, wakeup_time, now>>
    BY <1>2 DEF AttachThread, DetachThread, ExitYield, AtomicWait, BlockReturnsAtOnce, BlockYield,
         BlockCheck, DelayReturns, Store, AtomicNotifyAll, LockSchedule, UnlockSchedule,
         lists, fields, machine
  <2>2. \E u \in Threads : \E l : l # "sleep" /\ pc' = [pc EXCEPT ![u] = l]
    BY <1>0, <1>2 DEF AttachThread, DetachThread, ExitYield, AtomicWait, BlockReturnsAtOnce, BlockYield,
         BlockCheck, DelayReturns, Store, AtomicNotifyAll, LockSchedule, UnlockSchedule, Goto
  <2>3. pc'[t] = "sleep" => pc[t] = "sleep"
    BY <1>0, <2>2
  <2> QED
    BY <1>1, <2>1, <2>3
<1>3. ASSUME BlockCurrentThread PROVE SleepOf(t)'
  <2>1. /\ pc' = [pc EXCEPT ![current] = "yield"] /\ UNCHANGED <<now, current>>
        /\ \E s : status' = [status EXCEPT ![current] = s]
        /\ wakeup_time' = wakeup_time \/ \E w : wakeup_time' = [wakeup_time EXCEPT ![current] = w]
    BY <1>3 DEF BlockCurrentThread, QueueCurrent, AddToDelayList, Goto, machine
  <2>2. CASE t = current
    BY <1>0, <2>1, <2>2 DEF SleepOf
  <2>3. CASE t # current
    <3>1. pc'[t] = pc[t] /\ status'[t] = status[t] /\ wakeup_time'[t] = wakeup_time[t]
      BY <1>0, <2>1, <2>3
    <3> QED
      BY <1>0, <2>1, <3>1 DEF SleepOf
  <2> QED
    BY <2>2, <2>3
<1>4. ASSUME NEW d \in Timeouts, DelayCurrentThread(d) PROVE SleepOf(t)'
  <2>1. CASE t = current
    BY <1>4, <2>1, SleeperLeaves DEF SleepOf
  <2>2. CASE t # current
    <3>1. /\ pc' = [pc EXCEPT ![current] = "sleep"] /\ now' = now /\ AddToDelayList(d)
          /\ pc[current] = "run" /\ d \in Nat
      BY <1>4 DEF DelayCurrentThread, Goto, Self, machine
    <3>2. current \notin ToSet(delayed_threads)
      BY <3>1, CurrentFacts
    <3>3. ToSet(delayed_threads') = ToSet(delayed_threads) \cup {current}
      BY <1>0, <3>1, <3>2, DelayInserted
    <3>4. pc'[t] = pc[t] /\ wakeup_time'[t] = wakeup_time[t]
      BY <1>0, <2>2, <3>1 DEF AddToDelayList
    <3> QED
      BY <1>0, <3>1, <3>3, <3>4, SleeperStays DEF SleepOf
  <2> QED
    BY <2>1, <2>2
<1>5. ASSUME WakeupNext PROVE SleepOf(t)'
  <2> DEFINE w == Head(delayed_threads)
  <2>1. /\ wakeup_time[w] <= now /\ status' = [status EXCEPT ![w] = "ready"]
        /\ UNCHANGED <<pc, now, wakeup_time, current>>
    BY <1>5 DEF WakeupNext, HeadExpired, fields, machine
  <2> HIDE DEF w
  <2>2. CASE t = w
    BY <2>1, <2>2 DEF SleepOf
  <2>3. CASE t # w
    BY <1>0, <2>1, <2>3 DEF SleepOf
  <2> QED
    BY <2>2, <2>3
<1>6. ASSUME \/ (\E a \in Addrs : AtomicNotifyOne(a)) \/ UnblockNext \/ UnblockDone \/ WakeupDone
             \/ HandleYield \/ HandleTick \/ (\E a \in DeviceAddrs, v \in Values : DeviceIrq(a, v))
             \/ ClockAdvances \/ TimerFires \/ UNCHANGED vars
      PROVE  SleepOf(t)'
  <2>1. UNCHANGED <<delayed_threads, wakeup_time, pc>> /\ now' \in {now, now + 1}
    BY <1>6 DEF AtomicNotifyOne, UnblockNext, Unblock, UnblockDone, WakeupDone, HandleYield,
         HandleTick, DeviceIrq, ClockAdvances, TimerFires, vars, lists, fields, machine
  <2> QED
    BY <1>1, <2>1
<1> QED
  BY <1>2, <1>3, <1>4, <1>5, <1>6 DEF Next, ThreadStep, LoopStep, IrqStep

\* nanosleep returns no earlier than it was told to, for every number of
\* threads, priorities and interrupts.
THEOREM SleepIsLong == Spec => []SleepsLongEnough
<1>1. Init => SleepInv
  BY DEF Init, SleepInv, SleepOf
<1>2. SchedInv /\ SchedInv' /\ SleepInv /\ [Next]_vars => SleepInv'
  BY SleepNext DEF SleepInv
<1>3. SchedInv /\ SleepInv => SleepsLongEnough
  BY DEF SchedInv, TypeOK, SleepInv, SleepOf, SleepsLongEnough
<1> QED
  BY <1>1, <1>2, <1>3, SchedInvariance, PTL DEF Spec

=============================================================================
