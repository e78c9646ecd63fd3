-------------------------- MODULE IoRequestsProofs --------------------------
(***************************************************************************)
(* The I/O requests, for any programs, files and pool of requests: each    *)
(* request in one place, no work forgotten, references balanced and        *)
(* results delivered once.                                                 *)
(***************************************************************************)
EXTENDS IoRequests, CommonTheorems

\* The worker holds request i: it has not passed it on.
Held(i) == wirp = i /\ irp[i].frame \in {0, wframe}

Listed(i) == i \in ToSet(irps["stdio"]) \cup ToSet(irps["console"]) \cup ToSet(pending)

\* Each request in one place, by the sets of the lists.
OneList ==
    /\ Distinct(irps["stdio"]) /\ Distinct(irps["console"]) /\ Distinct(pending)
    /\ ToSet(irps["console"]) \cap ToSet(pending) = {}
    /\ \A i \in Irps :
        /\ i \in ToSet(irps["stdio"]) => irp[i].frame = 1
        /\ i \in ToSet(irps["console"]) \cup ToSet(pending) => irp[i].frame = 2
        /\ irp[i].frame > 0 => Listed(i) \/ Held(i)
        /\ ~(Listed(i) /\ Held(i))

\* Where the worker is, and what it knows of the request it has.
WorkerAt ==
    /\ wpc \in {"scan", "sleep", "take"} <=> wirp = Null
    /\ wpc = "stdio" => wframe = 1 /\ irp[wirp].frame = 1
    /\ wpc \in {"console", "read", "register"} => wframe = 2 /\ irp[wirp].frame = 2
    /\ wpc = "after" => wframe \in {1, 2} /\ irp[wirp].frame \in {0, 2}
    /\ wpc \notin {"scan", "sleep"} => wdev \in Devices

Holder(i) == \E p \in Programs : irp_of[p] = i

\* One reference of the program that has the request, one of its place.
Refs ==
    /\ \A i \in Irps : irp[i].refs = (IF Holder(i) THEN 1 ELSE 0)
                                     + (IF Listed(i) \/ Held(i) THEN 1 ELSE 0)
    /\ \A p, q \in Programs : irp_of[p] = irp_of[q] /\ irp_of[p] # Null => p = q
    /\ \A p \in Programs : irp_of[p] # Null <=> pc[p] \in {"enter", "wait", "release"}

Carried(p) == \E i \in Irps : irp[i].block = p /\ irp[i].frame > 0

\* A program that waits for a result has one request under way or one result
\* in the queue.
OneResult ==
    /\ Distinct(ready_io)
    /\ \A p \in Programs :
        /\ asked[p] <=> Carried(p) \/ p \in ToSet(ready_io)
        /\ ~(Carried(p) /\ p \in ToSet(ready_io))
        /\ call[p] = "async" /\ pc[p] \in {"fast", "drain", "slow"} => ~asked[p]
        /\ pc[p] = "drain" => unread[p] > 0
    /\ \A i, j \in Irps :
        irp[i].frame > 0 /\ irp[j].frame > 0 /\ irp[i].block = irp[j].block
            /\ irp[i].block # Null => i = j

\* The inductive invariant.
Inv ==
    /\ TypeOK /\ OneList /\ WorkerAt /\ Refs /\ OneResult
    /\ Distinct(work_list) /\ NoForgottenWork

(***************************************************************************)
(* What the operations do                                                  *)
(***************************************************************************)
\* queue_io: the request is on the device's list, and the device on the work
\* list; a list that was empty comes with the event.
LEMMA QueueIoEffect ==
    ASSUME TypeOK, Distinct(work_list), NEW d \in Devices, NEW i \in Irps, QueueIo(d, i, irps)
    PROVE  /\ irps' \in [Devices -> Seq(Irps)]
           /\ \A c \in Devices \ {d} : irps'[c] = irps[c]
           /\ ToSet(irps'[d]) = ToSet(irps[d]) \cup {i}
           /\ Distinct(irps[d]) /\ i \notin ToSet(irps[d]) => Distinct(irps'[d])
           /\ work_list' \in Seq(Devices) /\ Distinct(work_list')
           /\ ToSet(work_list') = ToSet(work_list) \cup {d}
           /\ work_avail' \in BOOLEAN
           /\ work_avail' \/ (work_list # << >> /\ work_avail' = work_avail)
<1>1. irps \in [Devices -> Seq(Irps)] /\ work_list \in Seq(Devices) /\ work_avail \in BOOLEAN
  BY DEF TypeOK
<1>2. irps' = [irps EXCEPT ![d] = Append(irps[d], i)]
  BY DEF QueueIo
<1>3. /\ Append(irps[d], i) \in Seq(Irps) /\ ToSet(Append(irps[d], i)) = ToSet(irps[d]) \cup {i}
      /\ Distinct(irps[d]) /\ i \notin ToSet(irps[d]) => Distinct(Append(irps[d], i))
  BY <1>1, AppendElement
<1>4. /\ irps' \in [Devices -> Seq(Irps)] /\ irps'[d] = Append(irps[d], i)
      /\ \A c \in Devices \ {d} : irps'[c] = irps[c]
  BY <1>1, <1>2, <1>3
<1>5. CASE d \in ToSet(work_list)
  <2>1. work_list' = work_list /\ work_avail' = work_avail
    BY <1>5 DEF QueueIo, work
  <2>2. work_list # << >>
    BY <1>5 DEF ToSet
  <2> QED
    BY <1>1, <1>3, <1>4, <1>5, <2>1, <2>2
<1>6. CASE d \notin ToSet(work_list)
  <2>1. work_list' = Append(work_list, d) /\ work_avail' = TRUE
    BY <1>6 DEF QueueIo, work
  <2>2. /\ Append(work_list, d) \in Seq(Devices) /\ Distinct(Append(work_list, d))
        /\ ToSet(Append(work_list, d)) = ToSet(work_list) \cup {d}
    BY <1>1, <1>6, AppendElement
  <2> QED
    BY <1>3, <1>4, <2>1, <2>2
<1> QED
  BY <1>5, <1>6

\* Work that is queued is not forgotten.
LEMMA QueuedWork ==
    ASSUME Inv, NEW d \in Devices, NEW i \in Irps, QueueIo(d, i, irps),
           wdev' = wdev, wpc' = wpc \/ wpc' \notin {"scan", "sleep"}
    PROVE  Distinct(work_list)' /\ NoForgottenWork'
<1>1. /\ irps' \in [Devices -> Seq(Irps)]
      /\ \A c \in Devices \ {d} : irps'[c] = irps[c]
      /\ Distinct(work_list') /\ ToSet(work_list') = ToSet(work_list) \cup {d}
      /\ work_avail' \/ (work_list # << >> /\ work_avail' = work_avail)
  BY QueueIoEffect DEF Inv
<1>2. NoForgottenWork'
  BY <1>1 DEF Inv, NoForgottenWork
<1> QED
  BY <1>1, <1>2

\* complete: the frame and the status change, the result may be queued.
LEMMA CompleteEffect ==
    ASSUME TypeOK, NEW i \in Irps, NEW s \in {"ok", "error"}, Complete(i, s)
    PROVE  /\ irp' \in [Irps -> IrpType] /\ irp'[i].frame = 0 /\ irp'[i].refs = irp[i].refs
           /\ irp'[i].block = irp[i].block /\ irp'[i].status = s
           /\ \A j \in Irps \ {i} : irp'[j] = irp[j]
           /\ file_event' \in [Files -> BOOLEAN]
           /\ ready_io' = IF irp[i].block = Null THEN ready_io ELSE Append(ready_io, irp[i].block)
           /\ ready_io' \in Seq(Programs)
<1>1. irp \in [Irps -> IrpType] /\ irp[i].block \in Programs \cup {Null}
  BY DEF TypeOK, IrpType
<1> DEFINE g == [irp EXCEPT ![i].frame = 0]
<1>2. irp' = [g EXCEPT ![i].status = s]
  BY <1>1 DEF Complete
<1>3. /\ g \in [Irps -> IrpType] /\ g[i].frame = 0 /\ g[i].refs = irp[i].refs
      /\ g[i].block = irp[i].block
      /\ \A j \in Irps \ {i} : g[j] = irp[j]
  BY <1>1 DEF IrpType
<1> HIDE DEF g
<1>4. /\ irp' \in [Irps -> IrpType] /\ irp'[i].frame = 0 /\ irp'[i].refs = irp[i].refs
      /\ irp'[i].block = irp[i].block /\ irp'[i].status = s
      /\ \A j \in Irps \ {i} : irp'[j] = irp[j]
  BY <1>2, <1>3 DEF IrpType
<1>5. file_event' \in [Files -> BOOLEAN]
  BY DEF TypeOK, Complete
<1>6. ready_io' \in Seq(Programs)
  BY <1>1, AppendElement DEF TypeOK, Complete
<1> QED
  BY <1>4, <1>5, <1>6 DEF Complete

\* dec_ref: a request with one reference goes back to the pool.
LEMMA DecRefEffect ==
    ASSUME TypeOK, NEW i \in Irps, irp[i].refs > 0, irp' = DecRef(i, irp)
    PROVE  /\ irp' \in [Irps -> IrpType] /\ irp'[i].refs = irp[i].refs - 1
           /\ irp[i].refs = 1 => irp'[i].frame = 0
           /\ irp[i].refs # 1 => /\ irp'[i].frame = irp[i].frame /\ irp'[i].block = irp[i].block
                                 /\ irp'[i].status = irp[i].status
           /\ \A j \in Irps \ {i} : irp'[j] = irp[j]
<1>1. irp \in [Irps -> IrpType] /\ irp[i] \in IrpType /\ irp[i].refs \in 1 .. 2
  BY DEF TypeOK, IrpType
<1>2. FreeIrp \in IrpType /\ FreeIrp.frame = 0 /\ FreeIrp.refs = 0
  BY DEF FreeIrp, IrpType
<1> DEFINE x == IF irp[i].refs = 1 THEN FreeIrp ELSE [irp[i] EXCEPT !.refs = irp[i].refs - 1]
<1>3. /\ x \in IrpType /\ x.refs = irp[i].refs - 1
      /\ irp[i].refs = 1 => x.frame = 0
      /\ irp[i].refs # 1 => /\ x.frame = irp[i].frame /\ x.block = irp[i].block
                            /\ x.status = irp[i].status
  <2>1. CASE irp[i].refs = 1
    BY <1>2, <2>1
  <2>2. CASE irp[i].refs # 1
    BY <1>1, <2>2 DEF IrpType
  <2> QED
    BY <2>1, <2>2
<1>4. irp' = [irp EXCEPT ![i] = x]
  BY DEF DecRef
<1> HIDE DEF x
<1> QED
  BY <1>1, <1>3, <1>4

(***************************************************************************)
(* Steps of the programs and of the host                                   *)
(***************************************************************************)
\* A step that leaves the requests and the worker alone.
LEMMA Untouched ==
    ASSUME Inv, UNCHANGED <<requests, work, wpc, wdev, wirp, wframe>>
    PROVE  /\ OneList' /\ WorkerAt' /\ Distinct(work_list)' /\ NoForgottenWork'
           /\ \A i : (Listed(i)' <=> Listed(i)) /\ (Held(i)' <=> Held(i))
<1>1. /\ UNCHANGED <<irp, irps, pending, work_list, work_avail, wpc, wdev, wirp, wframe>>
  BY DEF requests, work
<1>2. \A i : (Listed(i)' <=> Listed(i)) /\ (Held(i)' <=> Held(i))
  BY <1>1 DEF Listed, Held
<1>3. OneList'
  BY <1>1, <1>2 DEF Inv, OneList
<1>4. WorkerAt'
  BY <1>1 DEF Inv, WorkerAt
<1>5. Distinct(work_list)' /\ NoForgottenWork'
  BY <1>1 DEF Inv, NoForgottenWork
<1> QED
  BY <1>2, <1>3, <1>4, <1>5

\* It keeps the references when no program gets or gives up a request.
LEMMA RefsKept ==
    ASSUME Inv, UNCHANGED <<requests, work, wpc, wdev, wirp, wframe, irp_of>>,
           \A p \in Programs : pc[p] \in {"enter", "wait", "release"}
                                 <=> pc'[p] \in {"enter", "wait", "release"}
    PROVE  Refs'
<1>1. \A i : (Listed(i)' <=> Listed(i)) /\ (Held(i)' <=> Held(i)) /\ (Holder(i)' <=> Holder(i))
  BY Untouched DEF Holder
<1>2. irp' = irp /\ irp_of' = irp_of
  BY DEF requests
<1> QED
  BY <1>1, <1>2 DEF Inv, Refs

\* It keeps the results when nothing is delivered or asked for.
LEMMA ResultsKept ==
    ASSUME Inv, UNCHANGED <<irp, asked, ready_io>>,
           \A p \in Programs :
               /\ call'[p] = "async" /\ pc'[p] \in {"fast", "drain", "slow"} => ~asked[p]
               /\ pc'[p] = "drain" => unread'[p] > 0
    PROVE  OneResult'
<1>1. \A p : Carried(p)' <=> Carried(p)
  BY DEF Carried
<1> QED
  BY <1>1 DEF Inv, OneResult

\* A program enters a call with its own results cleared.
LEMMA BeginInv ==
    ASSUME Inv, NEW p \in Programs, NEW kind \in Calls, Begin(p, kind)
    PROVE  Inv'
<1> USE DEF Begin, Running, Goto, worker
<1>1. kind \in {"read", "async", "control"}
  BY IoAssumption
<1>2. /\ pc' \in [Programs -> {"idle", "fast", "drain", "slow", "enter", "wait", "release"}]
      /\ pc'[p] \in {"slow", "fast"} /\ pc[p] = "idle"
      /\ call' \in [Programs -> {"read", "async", "control"}] /\ call'[p] = kind
      /\ \A q \in Programs \ {p} : pc'[q] = pc[q] /\ call'[q] = call[q]
  BY <1>1 DEF Inv, TypeOK
<1>3. TypeOK'
  BY <1>2 DEF Inv, TypeOK, requests, work, host
<1>4. OneList' /\ WorkerAt' /\ Distinct(work_list)' /\ NoForgottenWork'
  BY Untouched
<1>5. Refs'
  BY <1>2, RefsKept
<1>6. OneResult'
  <2>1. \A q \in Programs : call'[q] = "async" /\ pc'[q] \in {"fast", "drain", "slow"} => ~asked[q]
    BY <1>2 DEF Inv, OneResult
  <2>2. \A q \in Programs : pc'[q] = "drain" => unread'[q] > 0
    BY <1>2 DEF Inv, OneResult
  <2>3. UNCHANGED <<irp, asked, ready_io>>
    BY DEF requests
  <2> QED
    BY <2>1, <2>2, <2>3, ResultsKept
<1> QED
  BY <1>3, <1>4, <1>5, <1>6 DEF Inv

\* The fast path of the console read looks at the number of events.
LEMMA FastCountInv ==
    ASSUME Inv, NEW p \in Programs, FastCount(p)
    PROVE  Inv'
<1> USE DEF FastCount, Running, Goto, worker
<1>1. Len(events) \in 0 .. MaxEvents /\ (events # << >> => Len(events) > 0)
  BY LenProperties, EmptySeq, IoAssumption DEF Inv, TypeOK
<1>2. /\ pc' \in [Programs -> {"idle", "fast", "drain", "slow", "enter", "wait", "release"}]
      /\ pc'[p] \in {"slow", "drain"} /\ pc[p] = "fast"
      /\ unread' \in [Programs -> 0 .. MaxEvents] /\ (pc'[p] = "drain" => unread'[p] > 0)
      /\ \A q \in Programs \ {p} : pc'[q] = pc[q] /\ unread'[q] = unread[q]
  BY <1>1 DEF Inv, TypeOK
<1>3. TypeOK'
  BY <1>2 DEF Inv, TypeOK, requests, work, host, results
<1>4. OneList' /\ WorkerAt' /\ Distinct(work_list)' /\ NoForgottenWork'
  BY Untouched
<1>5. Refs'
  BY <1>2, RefsKept
<1>6. OneResult'
  <2>1. \A q \in Programs : call'[q] = "async" /\ pc'[q] \in {"fast", "drain", "slow"} => ~asked[q]
    BY <1>2 DEF Inv, OneResult
  <2>2. \A q \in Programs : pc'[q] = "drain" => unread'[q] > 0
    BY <1>2 DEF Inv, OneResult
  <2>3. UNCHANGED <<irp, asked, ready_io>>
    BY DEF requests, results
  <2> QED
    BY <2>1, <2>2, <2>3, ResultsKept
<1> QED
  BY <1>3, <1>4, <1>5, <1>6 DEF Inv

\* The fast path takes one event from the front of the input.
LEMMA FastReadInv ==
    ASSUME Inv, NEW p \in Programs, FastRead(p)
    PROVE  Inv'
<1> USE DEF FastRead, Running, Goto, worker
<1>1. events' \in Seq({"key", "other"}) /\ Len(events') <= MaxEvents
  <2>1. /\ events \in Seq({"key", "other"}) /\ events # << >> /\ Len(events) <= MaxEvents
        /\ events' = Tail(events)
    BY DEF Inv, TypeOK
  <2>2. Tail(events) \in Seq({"key", "other"}) /\ Len(Tail(events)) = Len(events) - 1
    BY <2>1, HeadTailProperties
  <2> QED
    BY <2>1, <2>2, LenProperties, IoAssumption
<1>2. unread[p] \in 1 .. MaxEvents /\ pc[p] = "drain"
  BY IoAssumption DEF Inv, TypeOK, OneResult
<1>3. /\ pc' \in [Programs -> {"idle", "fast", "drain", "slow", "enter", "wait", "release"}]
      /\ pc'[p] \in {"idle", "fast", "drain"}
      /\ unread' \in [Programs -> 0 .. MaxEvents] /\ (pc'[p] = "drain" => unread'[p] > 0)
      /\ \A q \in Programs \ {p} : pc'[q] = pc[q] /\ unread'[q] = unread[q]
  BY <1>2, IoAssumption DEF Inv, TypeOK
<1>4. TypeOK'
  BY <1>1, <1>3 DEF Inv, TypeOK, requests, work, results
<1>5. OneList' /\ WorkerAt' /\ Distinct(work_list)' /\ NoForgottenWork'
  BY Untouched
<1>6. Refs'
  BY <1>2, <1>3, RefsKept
<1>7. OneResult'
  <2>1. \A q \in Programs : call'[q] = "async" /\ pc'[q] \in {"fast", "drain", "slow"} => ~asked[q]
    BY <1>2, <1>3 DEF Inv, OneResult
  <2>2. \A q \in Programs : pc'[q] = "drain" => unread'[q] > 0
    BY <1>3 DEF Inv, OneResult
  <2>3. UNCHANGED <<irp, asked, ready_io>>
    BY DEF requests, results
  <2> QED
    BY <2>1, <2>2, <2>3, ResultsKept
<1> QED
  BY <1>4, <1>5, <1>6, <1>7 DEF Inv

\* A call that fails, waits or has waited.
LEMMA QuietProgramInv ==
    ASSUME Inv, NEW p \in Programs, NoMemory(p) \/ EnterWait(p) \/ WaitReturns(p)
    PROVE  Inv'
<1>1. /\ UNCHANGED <<call, irp_of, unread, asked, requests, work, worker, host, results>>
      /\ halted' \in {"no", "fault"}
      /\ \/ pc' = pc
         \/ pc[p] = "slow" /\ pc' = [pc EXCEPT ![p] = "idle"]
         \/ pc[p] = "enter" /\ pc' = [pc EXCEPT ![p] = "wait"]
         \/ pc[p] = "wait" /\ pc' = [pc EXCEPT ![p] = "release"]
  BY DEF NoMemory, EnterWait, WaitReturns, Running, Goto
<1>2. /\ pc' \in [Programs -> {"idle", "fast", "drain", "slow", "enter", "wait", "release"}]
      /\ pc'[p] \in {"enter", "wait", "release"} <=> pc[p] \in {"enter", "wait", "release"}
      /\ pc'[p] = pc[p] \/ pc'[p] \notin {"fast", "drain", "slow"}
      /\ \A q \in Programs \ {p} : pc'[q] = pc[q]
  BY <1>1 DEF Inv, TypeOK
<1>3. /\ UNCHANGED <<irp, irps, pending, work_list, work_avail, on_cpu, wpc, wdev, wirp, wframe>>
      /\ UNCHANGED <<events, wait_armed, irqs, file_event, ready_io>>
      /\ UNCHANGED <<call, irp_of, unread, asked>>
  BY <1>1 DEF requests, work, worker, host, results
<1>4. TypeOK'
  BY <1>1, <1>2, <1>3 DEF Inv, TypeOK
<1>5. OneList' /\ WorkerAt' /\ Distinct(work_list)' /\ NoForgottenWork'
  BY <1>1, <1>3, Untouched
<1>6. Refs'
  BY <1>1, <1>2, <1>3, RefsKept
<1>7. OneResult'
  <2>1. \A q \in Programs : /\ call'[q] = "async" /\ pc'[q] \in {"fast", "drain", "slow"} => ~asked[q]
                            /\ pc'[q] = "drain" => unread'[q] > 0
    BY <1>2, <1>3 DEF Inv, OneResult
  <2> QED
    BY <1>3, <2>1, ResultsKept
<1> QED
  BY <1>4, <1>5, <1>6, <1>7 DEF Inv

(***************************************************************************)
(* Steps of the worker and of the host                                     *)
(***************************************************************************)
\* A step that moves no request keeps every request where it is.
LEMMA SamePlaces ==
    ASSUME Inv, UNCHANGED <<programs, requests, ready_io, wirp, wframe>>
    PROVE  OneList' /\ Refs' /\ OneResult'
<1>1. /\ UNCHANGED <<irp, irps, pending, ready_io, wirp, wframe>>
      /\ UNCHANGED <<pc, call, irp_of, unread, asked>>
  BY DEF requests, programs
<1>2. \A i : /\ (Listed(i)' <=> Listed(i)) /\ (Held(i)' <=> Held(i))
             /\ (Holder(i)' <=> Holder(i)) /\ (Carried(i)' <=> Carried(i))
  BY <1>1 DEF Listed, Held, Holder, Carried
<1>3. OneList'
  BY <1>1, <1>2 DEF Inv, OneList
<1>4. Refs'
  BY <1>1, <1>2 DEF Inv, Refs
<1>5. OneResult'
  BY <1>1, <1>2 DEF Inv, OneResult
<1> QED
  BY <1>3, <1>4, <1>5

\* The worker looks for a device, goes to sleep, wakes or waits for input.
LEMMA QuietWorkerInv ==
    ASSUME Inv, Sleep \/ WorkerPreempts \/ UnregisterWait \/ RegisterWait
    PROVE  Inv'
<1>1. /\ UNCHANGED <<programs, requests, work, results, wdev, wirp, wframe, halted, events, irqs>>
      /\ wait_armed' \in BOOLEAN /\ on_cpu' \in BOOLEAN
      /\ \/ wpc' = wpc
         \/ wpc = "sleep" /\ wpc' = "scan"
         \/ wpc = "console" /\ wpc' = "read"
         \/ wpc = "register" /\ wpc' = "after"
  BY DEF Inv, TypeOK, Sleep, WorkerPreempts, UnregisterWait, RegisterWait, Working, host
<1>2. /\ UNCHANGED <<irp, irps, pending, work_list, work_avail, file_event, ready_io>>
      /\ UNCHANGED <<pc, call, irp_of, unread, asked>>
  BY <1>1 DEF programs, requests, work, results
<1>3. TypeOK'
  BY <1>1, <1>2 DEF Inv, TypeOK, Devices
<1>4. OneList' /\ Refs' /\ OneResult'
  BY <1>1, <1>2, SamePlaces
<1>5. WorkerAt'
  BY <1>1, <1>2 DEF Inv, WorkerAt
<1>6. Distinct(work_list)' /\ NoForgottenWork'
  BY <1>1, <1>2 DEF Inv, NoForgottenWork
<1> QED
  BY <1>3, <1>4, <1>5, <1>6 DEF Inv

\* process_queued_ios takes the next device, or clears the event.
LEMMA ScanInv ==
    ASSUME Inv, Scan
    PROVE  Inv'
<1>1. /\ UNCHANGED <<on_cpu, wirp, wframe, programs, requests, host, results, halted>>
      /\ wpc = "scan"
  BY DEF Scan, Working
<1>2. /\ UNCHANGED <<irp, irps, pending, file_event, ready_io, events, wait_armed, irqs>>
      /\ UNCHANGED <<pc, call, irp_of, unread, asked>>
  BY <1>1 DEF programs, requests, host, results
<1>3. work_list \in Seq(Devices) /\ Distinct(work_list)
  BY DEF Inv, TypeOK
<1>4. OneList' /\ Refs' /\ OneResult'
  BY <1>1, <1>2, SamePlaces
<1>5. CASE work_list = << >>
  <2>1. /\ work_avail' = FALSE /\ wpc' = "sleep" /\ UNCHANGED <<work_list, wdev>>
    BY <1>5 DEF Scan
  <2>2. ToSet(work_list) = {}
    BY <1>5 DEF ToSet
  <2>3. TypeOK'
    BY <1>1, <1>2, <2>1 DEF Inv, TypeOK
  <2>4. WorkerAt'
    BY <1>1, <1>2, <2>1 DEF Inv, WorkerAt
  <2>5. NoForgottenWork'
    BY <1>1, <1>2, <1>5, <2>1, <2>2 DEF Inv, NoForgottenWork
  <2> QED
    BY <1>3, <1>4, <2>1, <2>3, <2>4, <2>5 DEF Inv
<1>6. CASE work_list # << >>
  <2>1. /\ wdev' = Head(work_list) /\ work_list' = Tail(work_list)
        /\ wpc' = "take" /\ UNCHANGED work_avail
    BY <1>6 DEF Scan
  <2>2. /\ Tail(work_list) \in Seq(Devices) /\ Distinct(Tail(work_list))
        /\ ToSet(Tail(work_list)) = ToSet(work_list) \ {Head(work_list)}
        /\ Head(work_list) \in Devices
    BY <1>3, <1>6, PopFront, HeadTailProperties
  <2>3. TypeOK'
    BY <1>1, <1>2, <2>1, <2>2 DEF Inv, TypeOK
  <2>4. WorkerAt'
    BY <1>1, <1>2, <2>1, <2>2 DEF Inv, WorkerAt
  <2>5. NoForgottenWork'
    BY <1>1, <1>2, <2>1, <2>2 DEF Inv, NoForgottenWork
  <2> QED
    BY <1>4, <2>1, <2>2, <2>3, <2>4, <2>5 DEF Inv
<1> QED
  BY <1>5, <1>6

\* Input at the host's console, and the wait for it that fires.
LEMMA HostInv ==
    ASSUME Inv, (\E e \in {"key", "other"} : HostInput(e)) \/ WaitFires
    PROVE  Inv'
<1>1. /\ UNCHANGED <<programs, requests, work, worker, results, halted>>
      /\ wait_armed' \in BOOLEAN /\ irqs' \in Nat
      /\ events' \in Seq({"key", "other"}) /\ Len(events') <= MaxEvents
  <2>1. events \in Seq({"key", "other"}) /\ Len(events) \in Nat /\ Len(events) <= MaxEvents
    BY LenProperties DEF Inv, TypeOK
  <2>2. CASE \E e \in {"key", "other"} : HostInput(e)
    <3>1. PICK e \in {"key", "other"} : HostInput(e)
      BY <2>2
    <3>2. /\ Append(events, e) \in Seq({"key", "other"})
          /\ Len(Append(events, e)) = Len(events) + 1
      BY <2>1, AppendProperties
    <3>3. Len(Append(events, e)) <= MaxEvents
      BY <2>1, <3>1, <3>2, IoAssumption DEF HostInput
    <3>4. wait_armed' \in BOOLEAN /\ irqs' \in Nat
      BY <3>1 DEF HostInput, Inv, TypeOK
    <3> QED
      BY <3>1, <3>2, <3>3, <3>4 DEF HostInput
  <2>3. CASE WaitFires
    <3>1. wait_armed' = FALSE /\ irqs' = irqs + 1 /\ events' = events /\ irqs \in Nat
      BY <2>3 DEF WaitFires, Inv, TypeOK
    <3>2. UNCHANGED <<programs, requests, work, worker, results, halted>>
      BY <2>3 DEF WaitFires
    <3>3. wait_armed' \in BOOLEAN
      BY <3>1
    <3>4. irqs' \in Nat
      BY <3>1
    <3> QED
      BY <2>1, <3>1, <3>2, <3>3, <3>4
  <2> QED
    BY <2>2, <2>3
<1>2. /\ UNCHANGED <<irp, irps, pending, work_list, work_avail, file_event, ready_io>>
      /\ UNCHANGED <<pc, call, irp_of, unread, asked>>
      /\ UNCHANGED <<on_cpu, wpc, wdev, wirp, wframe>>
  BY <1>1 DEF programs, requests, work, worker, results
<1>3. TypeOK'
  BY <1>1, <1>2 DEF Inv, TypeOK
<1>4. OneList' /\ Refs' /\ OneResult'
  BY <1>1, <1>2, SamePlaces
<1>5. WorkerAt' /\ Distinct(work_list)' /\ NoForgottenWork'
  BY <1>1, <1>2, Untouched
<1> QED
  BY <1>3, <1>4, <1>5 DEF Inv

\* A request that changes place keeps its references.
LEMMA RefsMoved ==
    ASSUME Inv, UNCHANGED <<irp_of, pc>>,
           \A i \in Irps : /\ irp'[i].refs = irp[i].refs
                           /\ (Listed(i) \/ Held(i))' <=> Listed(i) \/ Held(i)
    PROVE  Refs'
<1>1. \A i : Holder(i)' <=> Holder(i)
  BY DEF Holder
<1> QED
  BY <1>1 DEF Inv, Refs

\* device::process_queued_ios takes the first request of the device.
LEMMA TakeIrpInv ==
    ASSUME Inv, TakeIrp
    PROVE  Inv'
<1>1. /\ UNCHANGED <<on_cpu, wdev, programs, irp, pending, work, host, results, halted>>
      /\ wpc = "take" /\ wirp = Null /\ wdev \in Devices
  BY DEF TakeIrp, Working, Inv, WorkerAt
<1>2. /\ UNCHANGED <<work_list, work_avail, file_event, ready_io, events, wait_armed, irqs>>
      /\ UNCHANGED <<pc, call, irp_of, unread, asked>>
  BY <1>1 DEF programs, work, host, results
<1>3. irps \in [Devices -> Seq(Irps)] /\ irps[wdev] \in Seq(Irps) /\ irp \in [Irps -> IrpType]
  BY <1>1 DEF Inv, TypeOK
<1>4. CASE irps[wdev] = << >>
  <2>1. wpc' = "scan" /\ UNCHANGED <<wirp, wframe, irps>>
    BY <1>4 DEF TakeIrp
  <2>2. TypeOK'
    BY <1>1, <1>2, <2>1 DEF Inv, TypeOK
  <2>3. OneList' /\ Refs' /\ OneResult'
    BY <1>1, <2>1, SamePlaces DEF requests, results
  <2>4. WorkerAt'
    BY <1>1, <2>1 DEF Inv, WorkerAt
  <2>5. Distinct(work_list)' /\ NoForgottenWork'
    BY <1>1, <1>2, <1>4, <2>1 DEF Inv, NoForgottenWork
  <2> QED
    BY <2>2, <2>3, <2>4, <2>5 DEF Inv
<1>5. CASE irps[wdev] # << >>
  <2> DEFINE h == Head(irps[wdev])
  <2>1. /\ wirp' = h /\ wframe' = irp[h].frame /\ wpc' = wdev
        /\ irps' = [irps EXCEPT ![wdev] = Tail(irps[wdev])]
    BY <1>5 DEF TakeIrp
  <2>2. Distinct(irps[wdev])
    BY <1>1 DEF Inv, OneList, Devices
  <2>3. /\ Tail(irps[wdev]) \in Seq(Irps) /\ Distinct(Tail(irps[wdev]))
        /\ ToSet(Tail(irps[wdev])) = ToSet(irps[wdev]) \ {h}
        /\ h \in Irps /\ h \in ToSet(irps[wdev])
    BY <1>3, <1>5, <2>2, PopFront, FrontInList
  <2>4. /\ irps' \in [Devices -> Seq(Irps)]
        /\ ToSet(irps'[wdev]) = ToSet(irps[wdev]) \ {h} /\ Distinct(irps'[wdev])
        /\ \A d \in Devices \ {wdev} : irps'[d] = irps[d]
    BY <1>1, <1>3, <2>1, <2>3
  <2> HIDE DEF h
  <2>5. /\ wdev = "stdio" => irp[h].frame = 1
        /\ wdev = "console" => irp[h].frame = 2
        /\ irp[h].frame \in {1, 2} /\ h # Null
    BY <1>1, <2>3, IoAssumption DEF Inv, OneList, Devices
  <2>6. \A i \in Irps : /\ Listed(i)' <=> Listed(i) /\ i # h
                        /\ ~Held(i) /\ (Held(i)' <=> i = h) /\ Listed(h)
    <3>1. \A i \in Irps : ~Held(i) /\ (Held(i)' <=> i = h)
      BY <1>1, <2>1, <2>3, IoAssumption DEF Held
    <3>2. CASE wdev = "stdio"
      <4>1. h \notin ToSet(irps["console"]) \cup ToSet(pending)
        BY <2>3, <2>5, <3>2 DEF Inv, OneList
      <4>2. /\ ToSet(irps'["stdio"]) = ToSet(irps["stdio"]) \ {h}
            /\ irps'["console"] = irps["console"] /\ pending' = pending
        BY <1>1, <2>4, <3>2 DEF Devices
      <4> QED
        BY <2>3, <3>1, <3>2, <4>1, <4>2 DEF Listed
    <3>3. CASE wdev = "console"
      <4>1. h \notin ToSet(irps["stdio"]) \cup ToSet(pending)
        BY <2>3, <2>5, <3>3 DEF Inv, OneList
      <4>2. /\ ToSet(irps'["console"]) = ToSet(irps["console"]) \ {h}
            /\ irps'["stdio"] = irps["stdio"] /\ pending' = pending
        BY <1>1, <2>4, <3>3 DEF Devices
      <4> QED
        BY <2>3, <3>1, <3>3, <4>1, <4>2 DEF Listed
    <3> QED
      BY <1>1, <3>2, <3>3 DEF Devices
  <2>7. TypeOK'
    BY <1>1, <1>2, <2>1, <2>3, <2>4, <2>5 DEF Inv, TypeOK
  <2>8. OneList'
    <3>1. /\ Distinct(irps'["stdio"]) /\ Distinct(irps'["console"])
          /\ ToSet(irps'["stdio"]) \subseteq ToSet(irps["stdio"])
          /\ ToSet(irps'["console"]) \subseteq ToSet(irps["console"])
      BY <1>1, <2>4 DEF Inv, OneList, Devices
    <3> QED
      BY <1>1, <2>6, <3>1 DEF Inv, OneList
  <2>9. Refs'
    BY <1>1, <1>2, <2>6, RefsMoved
  <2>10. OneResult'
    BY <1>1, <1>2, ResultsKept DEF Inv, OneResult
  <2>11. WorkerAt'
    BY <1>1, <2>1, <2>3, <2>5, IoAssumption DEF WorkerAt, Devices
  <2>12. Distinct(work_list)' /\ NoForgottenWork'
    BY <1>1, <1>2, <2>1, <2>4 DEF Inv, NoForgottenWork, Devices
  <2> QED
    BY <2>7, <2>8, <2>9, <2>10, <2>11, <2>12 DEF Inv
<1> QED
  BY <1>4, <1>5

\* stdin_irq_handler moves the first pending read back to the device.
LEMMA StdinIrqInv ==
    ASSUME Inv, StdinIrq
    PROVE  Inv'
<1>1. /\ UNCHANGED <<programs, irp, worker, events, wait_armed, results>>
      /\ irqs' \in Nat
  BY DEF StdinIrq, Inv, TypeOK
<1>2. /\ UNCHANGED <<file_event, ready_io, on_cpu, wpc, wdev, wirp, wframe>>
      /\ UNCHANGED <<pc, call, irp_of, unread, asked>>
  BY <1>1 DEF programs, worker, results
<1>3. CASE pending = << >>
  <2>1. halted' = "assert" /\ UNCHANGED <<irps, pending, work>>
    BY <1>3 DEF StdinIrq
  <2>2. UNCHANGED <<work_list, work_avail>>
    BY <2>1 DEF work
  <2>3. TypeOK'
    BY <1>1, <1>2, <2>1, <2>2 DEF Inv, TypeOK
  <2>4. OneList' /\ Refs' /\ OneResult'
    BY <1>1, <1>2, <2>1, SamePlaces DEF requests
  <2>5. WorkerAt' /\ Distinct(work_list)' /\ NoForgottenWork'
    BY <1>1, <1>2, <2>1, Untouched DEF requests
  <2> QED
    BY <2>3, <2>4, <2>5 DEF Inv
<1>4. CASE pending # << >>
  <2> DEFINE h == Head(pending)
  <2>1. pending' = Tail(pending) /\ QueueIo("console", h, irps) /\ halted' = halted
    BY <1>4 DEF StdinIrq
  <2>2. pending \in Seq(Irps) /\ Distinct(pending)
    BY DEF Inv, TypeOK, OneList
  <2>3. /\ pending' \in Seq(Irps) /\ Distinct(pending')
        /\ ToSet(pending') = ToSet(pending) \ {h} /\ h \in ToSet(pending) /\ h \in Irps
    BY <1>4, <2>1, <2>2, PopFront, FrontInList
  <2> HIDE DEF h
  <2>4. h \notin ToSet(irps["console"]) /\ h \notin ToSet(irps["stdio"]) /\ irp[h].frame = 2
    BY <2>3 DEF Inv, OneList
  <2>5. /\ irps' \in [Devices -> Seq(Irps)] /\ irps'["stdio"] = irps["stdio"]
        /\ ToSet(irps'["console"]) = ToSet(irps["console"]) \cup {h}
        /\ Distinct(irps'["console"])
        /\ work_list' \in Seq(Devices) /\ work_avail' \in BOOLEAN
    <3>1. "console" \in Devices /\ "stdio" \in Devices \ {"console"}
      BY DEF Devices
    <3>2. TypeOK /\ Distinct(work_list) /\ Distinct(irps["console"])
      BY DEF Inv, OneList
    <3> QED
      BY <2>1, <2>3, <2>4, <3>1, <3>2, QueueIoEffect
  <2>6. \A i \in Irps : (Listed(i)' <=> Listed(i)) /\ (Held(i)' <=> Held(i))
    BY <1>1, <1>2, <2>3, <2>5 DEF Listed, Held
  <2>7. TypeOK'
    BY <1>1, <1>2, <2>1, <2>3, <2>5 DEF Inv, TypeOK
  <2>8. OneList'
    BY <1>1, <2>3, <2>4, <2>5, <2>6 DEF Inv, OneList
  <2>9. Refs'
    BY <1>1, <1>2, <2>6, RefsMoved
  <2>10. OneResult'
    BY <1>1, <1>2, ResultsKept DEF Inv, OneResult
  <2>11. WorkerAt'
    BY <1>1, <1>2 DEF Inv, WorkerAt
  <2>12. Distinct(work_list)' /\ NoForgottenWork'
    BY <1>2, <2>1, <2>3, QueuedWork DEF Devices
  <2> QED
    BY <2>7, <2>8, <2>9, <2>10, <2>11, <2>12 DEF Inv
<1> QED
  BY <1>3, <1>4

\* The worker completes the request it has: the result is queued once.
LEMMA CompleteInv ==
    ASSUME Inv, wirp \in Irps, Held(wirp), irp[wirp].frame > 0,
           NEW s \in {"ok", "error"}, Complete(wirp, s),
           UNCHANGED <<irps, pending, wirp, wframe, pc, call, irp_of, unread, asked>>
    PROVE  OneList' /\ Refs' /\ OneResult'
<1>1. /\ irp \in [Irps -> IrpType] /\ ready_io \in Seq(Programs)
      /\ TypeOK /\ irp[wirp].block \in Programs \cup {Null}
  BY DEF Inv, TypeOK, IrpType
<1>2. /\ irp' \in [Irps -> IrpType] /\ irp'[wirp].frame = 0 /\ irp'[wirp].refs = irp[wirp].refs
      /\ irp'[wirp].block = irp[wirp].block
      /\ \A j \in Irps \ {wirp} : irp'[j] = irp[j]
      /\ ready_io' = IF irp[wirp].block = Null THEN ready_io
                     ELSE Append(ready_io, irp[wirp].block)
  BY <1>1, CompleteEffect
<1>3. \A i \in Irps : (Listed(i)' <=> Listed(i)) /\ (Held(i)' <=> Held(i))
  BY <1>2 DEF Listed, Held
<1>4. OneList'
  <2>1. ~Listed(wirp) /\ \A i \in Irps : irp'[i].frame > 0 => irp[i].frame > 0
    BY <1>2 DEF Inv, OneList
  <2>2. \A i \in Irps : Listed(i) => irp'[i].frame = irp[i].frame
    BY <1>2, <2>1
  <2> QED
    BY <1>3, <2>1, <2>2 DEF Inv, OneList, Listed
<1>5. Refs'
  BY <1>2, <1>3, RefsMoved
<1>6. OneResult'
  <2>1. \A q \in Programs : Carried(q)' <=> Carried(q) /\ q # irp[wirp].block
    <3> SUFFICES ASSUME NEW q \in Programs
                 PROVE  Carried(q)' <=> Carried(q) /\ q # irp[wirp].block
      OBVIOUS
    <3>1. ASSUME Carried(q)' PROVE Carried(q) /\ q # irp[wirp].block
      <4>1. PICK i \in Irps : irp'[i].block = q /\ irp'[i].frame > 0
        BY <3>1 DEF Carried
      <4>2. i # wirp /\ irp[i].block = q /\ irp[i].frame > 0
        BY <1>2, <4>1
      <4> QED
        BY <4>1, <4>2, IoAssumption DEF Carried, Inv, OneResult
    <3>2. ASSUME Carried(q), q # irp[wirp].block PROVE Carried(q)'
      BY <1>2, <3>2 DEF Carried
    <3> QED
      BY <3>1, <3>2
  <2>2. \A i, j \in Irps :
          irp'[i].frame > 0 /\ irp'[j].frame > 0 /\ irp'[i].block = irp'[j].block
            /\ irp'[i].block # Null => i = j
    BY <1>2 DEF Inv, OneResult
  <2>3. CASE irp[wirp].block = Null
    BY <1>2, <2>1, <2>2, <2>3, IoAssumption DEF Inv, OneResult
  <2>4. CASE irp[wirp].block \in Programs
    <3> DEFINE b == irp[wirp].block
    <3>1. Carried(b) /\ b \notin ToSet(ready_io) /\ ready_io' = Append(ready_io, b)
      BY <1>2, <2>4, IoAssumption DEF Inv, OneResult, Carried
    <3> HIDE DEF b
    <3>2. Distinct(ready_io') /\ ToSet(ready_io') = ToSet(ready_io) \cup {b}
      BY <1>1, <2>4, <3>1, AppendElement DEF b, Inv, OneResult
    <3>3. \A q \in Programs : Carried(q)' <=> Carried(q) /\ q # b
      BY <2>1 DEF b
    <3> QED
      BY <2>2, <3>1, <3>2, <3>3 DEF Inv, OneResult
  <2> QED
    BY <1>1, <2>3, <2>4
<1> QED
  BY <1>4, <1>5, <1>6

\* The stream device passes a read on to the console and refuses the rest.
LEMMA ProcessStdioInv ==
    ASSUME Inv, ProcessStdio
    PROVE  Inv'
<1>1. /\ UNCHANGED <<on_cpu, wdev, wirp, wframe, programs, pending, host, halted>>
      /\ wpc = "stdio" /\ wpc' = "after"
  BY DEF ProcessStdio, Working
<1>2. /\ UNCHANGED <<events, wait_armed, irqs>>
      /\ UNCHANGED <<pc, call, irp_of, unread, asked>>
  BY <1>1 DEF programs, host
<1>3. /\ wirp \in Irps /\ wframe = 1 /\ irp[wirp].frame = 1 /\ Held(wirp)
      /\ irp \in [Irps -> IrpType] /\ wdev \in Devices
  BY <1>1 DEF Inv, TypeOK, WorkerAt, Held
<1>4. CASE irp[wirp].kind = "read"
  <2>1. /\ irp' = [irp EXCEPT ![wirp].frame = 2]
        /\ QueueIo("console", wirp, irps) /\ UNCHANGED <<file_event, ready_io>>
    BY <1>4 DEF ProcessStdio, results
  <2>2. /\ irp' \in [Irps -> IrpType] /\ irp'[wirp].frame = 2
        /\ irp'[wirp].refs = irp[wirp].refs /\ irp'[wirp].block = irp[wirp].block
        /\ \A j \in Irps \ {wirp} : irp'[j] = irp[j]
    BY <1>3, <2>1 DEF IrpType
  <2>3. ~Listed(wirp)
    BY <1>3 DEF Inv, OneList
  <2>4. /\ irps' \in [Devices -> Seq(Irps)] /\ irps'["stdio"] = irps["stdio"]
        /\ ToSet(irps'["console"]) = ToSet(irps["console"]) \cup {wirp}
        /\ Distinct(irps'["console"])
        /\ work_list' \in Seq(Devices) /\ work_avail' \in BOOLEAN
    <3>1. "console" \in Devices /\ "stdio" \in Devices \ {"console"}
      BY DEF Devices
    <3>2. TypeOK /\ Distinct(work_list) /\ Distinct(irps["console"])
      BY DEF Inv, OneList
    <3>3. wirp \notin ToSet(irps["console"])
      BY <2>3 DEF Listed
    <3> QED
      BY <1>3, <2>1, <3>1, <3>2, <3>3, QueueIoEffect
  <2>5. /\ \A i \in Irps \ {wirp} : (Listed(i)' <=> Listed(i)) /\ ~Held(i) /\ ~Held(i)'
        /\ Listed(wirp)' /\ ~Held(wirp)'
    BY <1>1, <1>3, <2>2, <2>4 DEF Listed, Held
  <2>6. TypeOK'
    BY <1>1, <1>2, <2>1, <2>2, <2>4 DEF Inv, TypeOK
  <2>7. OneList'
    BY <1>1, <1>3, <2>2, <2>3, <2>4, <2>5 DEF Inv, OneList, Listed
  <2>8. Refs'
    <3>1. \A i \in Irps : irp'[i].refs = irp[i].refs
      BY <1>3, <2>2
    <3>2. \A i \in Irps : (Listed(i) \/ Held(i))' <=> Listed(i) \/ Held(i)
      BY <1>1, <1>3, <2>5
    <3> QED
      BY <1>2, <3>1, <3>2, RefsMoved
  <2>9. OneResult'
    <3>1. \A i \in Irps : irp'[i].block = irp[i].block /\ (irp'[i].frame > 0 <=> irp[i].frame > 0)
      BY <1>3, <2>2
    <3>2. \A q : Carried(q)' <=> Carried(q)
      BY <3>1 DEF Carried
    <3> QED
      BY <1>2, <2>1, <3>1, <3>2 DEF Inv, OneResult
  <2>10. WorkerAt'
    BY <1>1, <1>3, <2>2, IoAssumption DEF WorkerAt
  <2>11. Distinct(work_list)' /\ NoForgottenWork'
    BY <1>1, <1>3, <2>1, QueuedWork DEF Devices
  <2> QED
    BY <2>6, <2>7, <2>8, <2>9, <2>10, <2>11 DEF Inv
<1>5. CASE irp[wirp].kind # "read"
  <2>1. Complete(wirp, "error") /\ UNCHANGED <<irps, work_list, work_avail>>
    BY <1>5 DEF ProcessStdio, work
  <2>2. OneList' /\ Refs' /\ OneResult'
    BY <1>1, <1>2, <1>3, <2>1, CompleteInv
  <2>3. /\ irp' \in [Irps -> IrpType] /\ irp'[wirp].frame = 0
        /\ file_event' \in [Files -> BOOLEAN] /\ ready_io' \in Seq(Programs)
    BY <1>3, <2>1, CompleteEffect DEF Inv
  <2>4. TypeOK'
    BY <1>1, <1>2, <2>1, <2>3 DEF Inv, TypeOK
  <2>5. WorkerAt'
    BY <1>1, <1>3, <2>3, IoAssumption DEF WorkerAt
  <2>6. Distinct(work_list)' /\ NoForgottenWork'
    BY <1>1, <2>1 DEF Inv, NoForgottenWork
  <2> QED
    BY <2>2, <2>4, <2>5, <2>6 DEF Inv
<1> QED
  BY <1>4, <1>5

\* What the worker leaves of the console's records.
LEMMA UnreadType ==
    ASSUME TypeOK
    PROVE  Unread \in Seq({"key", "other"}) /\ Len(Unread) <= MaxEvents
<1>1. /\ events \in Seq({"key", "other"}) /\ Len(events) \in Nat /\ Len(events) <= MaxEvents
      /\ DOMAIN events = 1 .. Len(events)
      /\ \A i \in 1 .. Len(events) : events[i] \in {"key", "other"}
  BY LenProperties, ElementOfSeq DEF TypeOK
<1>2. CASE HasKey
  <2> DEFINE K == {i \in DOMAIN events : events[i] = "key"}
             m == Min(K)
  <2>1. K # {} /\ K \in SUBSET Nat
    BY <1>1, <1>2 DEF HasKey
  <2>2. m \in K
    <3> HIDE DEF K
    <3> QED
      BY <2>1, MinInSet
  <2>3. m \in 1 .. Len(events)
    BY <1>1, <2>2
  <2>4. Unread = SubSeq(events, m + 1, Len(events))
    BY <1>2 DEF Unread
  <2> HIDE DEF m
  <2>5. /\ SubSeq(events, m + 1, Len(events)) \in Seq({"key", "other"})
        /\ Len(SubSeq(events, m + 1, Len(events)))
             = IF m + 1 <= Len(events) THEN Len(events) - (m + 1) + 1 ELSE 0
    <3>1. m + 1 \in Int /\ Len(events) \in Int
      BY <1>1, <2>3
    <3>2. \A i \in (m + 1) .. Len(events) : events[i] \in {"key", "other"}
      BY <1>1, <2>3
    <3> QED
      BY <3>1, <3>2, SubSeqProperties
  <2> QED
    BY <1>1, <2>3, <2>4, <2>5, IoAssumption
<1>3. CASE ~HasKey
  <2>1. Unread = << >> /\ << >> \in Seq({"key", "other"}) /\ Len(<< >>) = 0
    BY <1>3, EmptySeq DEF Unread
  <2> QED
    BY <2>1, IoAssumption
<1> QED
  BY <1>2, <1>3

\* The console device reads: with a key the request is completed.
LEMMA ProcessReadInv ==
    ASSUME Inv, ProcessRead
    PROVE  Inv'
<1>1. /\ UNCHANGED <<on_cpu, wdev, wirp, wframe, programs, irps, pending, work, wait_armed,
                     irqs, halted>>
      /\ wpc = "read" /\ events' = Unread
  BY DEF ProcessRead, Working
<1>2. /\ UNCHANGED <<work_list, work_avail>>
      /\ UNCHANGED <<pc, call, irp_of, unread, asked>>
  BY <1>1 DEF programs, work
<1>3. /\ wirp \in Irps /\ wframe = 2 /\ irp[wirp].frame = 2 /\ Held(wirp)
      /\ irp \in [Irps -> IrpType] /\ wdev \in Devices
  BY <1>1 DEF Inv, TypeOK, WorkerAt, Held
<1>4. events' \in Seq({"key", "other"}) /\ Len(events') <= MaxEvents
  BY <1>1, UnreadType DEF Inv
<1>5. CASE HasKey
  <2>1. Complete(wirp, "ok") /\ wpc' = "after"
    BY <1>5 DEF ProcessRead
  <2>2. OneList' /\ Refs' /\ OneResult'
    BY <1>1, <1>2, <1>3, <2>1, CompleteInv
  <2>3. /\ irp' \in [Irps -> IrpType] /\ irp'[wirp].frame = 0
        /\ file_event' \in [Files -> BOOLEAN] /\ ready_io' \in Seq(Programs)
    BY <1>3, <2>1, CompleteEffect DEF Inv
  <2>4. TypeOK'
    BY <1>1, <1>2, <1>4, <2>1, <2>3 DEF Inv, TypeOK
  <2>5. WorkerAt'
    BY <1>1, <1>3, <2>1, <2>3, IoAssumption DEF WorkerAt
  <2>6. Distinct(work_list)' /\ NoForgottenWork'
    BY <1>1, <1>2, <2>1 DEF Inv, NoForgottenWork
  <2> QED
    BY <2>2, <2>4, <2>5, <2>6 DEF Inv
<1>6. CASE ~HasKey
  <2>1. wpc' = "register" /\ UNCHANGED <<irp, file_event, ready_io>>
    BY <1>6 DEF ProcessRead, results
  <2>2. OneList' /\ Refs' /\ OneResult'
    BY <1>1, <2>1, SamePlaces DEF requests
  <2>3. TypeOK'
    BY <1>1, <1>2, <1>4, <2>1 DEF Inv, TypeOK
  <2>4. WorkerAt'
    BY <1>1, <1>3, <2>1, IoAssumption DEF WorkerAt
  <2>5. Distinct(work_list)' /\ NoForgottenWork'
    BY <1>1, <1>2, <2>1 DEF Inv, NoForgottenWork
  <2> QED
    BY <2>2, <2>3, <2>4, <2>5 DEF Inv
<1> QED
  BY <1>5, <1>6

\* Back in device::process_queued_ios, the worker lets the request go.
LEMMA AfterInv ==
    ASSUME Inv, After
    PROVE  Inv'
<1>1. /\ UNCHANGED <<on_cpu, wdev, programs, irps, work, host, results, halted>>
      /\ wpc = "after" /\ wirp' = Null /\ wframe' = 0 /\ wpc' = "take"
  BY DEF After, Working
<1>2. /\ UNCHANGED <<work_list, work_avail, events, wait_armed, irqs, file_event, ready_io>>
      /\ UNCHANGED <<pc, call, irp_of, unread, asked>>
  BY <1>1 DEF programs, work, host, results
<1> DEFINE i == wirp
<1>3. /\ i \in Irps /\ wframe \in {1, 2} /\ irp[i].frame \in {0, 2}
      /\ irp \in [Irps -> IrpType] /\ pending \in Seq(Irps) /\ wdev \in Devices
  BY <1>1 DEF Inv, TypeOK, WorkerAt
<1>4. \A j \in Irps : ~Held(j)' /\ (j # i => ~Held(j))
  BY <1>1, IoAssumption DEF Held
<1>5. WorkerAt'
  BY <1>1, <1>3 DEF WorkerAt
<1>6. Distinct(work_list)' /\ NoForgottenWork'
  BY <1>1, <1>2 DEF Inv, NoForgottenWork
<1>7. CASE irp[i].frame = 0
  <2>1. irp' = DecRef(i, irp) /\ pending' = pending
    BY <1>3, <1>7 DEF After
  <2>2. Held(i) /\ ~Listed(i) /\ irp[i].refs > 0
    <3>1. Held(i)
      BY <1>3, <1>7 DEF Held
    <3>2. ~Listed(i) /\ irp[i].refs > 0
      BY <1>3, <3>1 DEF Inv, OneList, Refs
    <3> QED
      BY <3>1, <3>2
  <2>3. /\ irp' \in [Irps -> IrpType] /\ irp'[i].refs = irp[i].refs - 1 /\ irp'[i].frame = 0
        /\ \A j \in Irps \ {i} : irp'[j] = irp[j]
    BY <1>3, <1>7, <2>1, <2>2, DecRefEffect DEF Inv
  <2>4. \A j \in Irps : Listed(j)' <=> Listed(j)
    BY <1>1, <2>1 DEF Listed
  <2>5. \A j \in Irps : Holder(j)' <=> Holder(j)
    BY <1>2 DEF Holder
  <2>6. TypeOK'
    BY <1>1, <1>2, <2>1, <2>3 DEF Inv, TypeOK
  <2>7. OneList'
    <3>1. \A j \in Irps : irp'[j].frame = irp[j].frame
      BY <1>7, <2>3
    <3> QED
      BY <1>1, <1>4, <1>7, <2>1, <2>4, <3>1 DEF Inv, OneList
  <2>8. Refs'
    <3>1. ASSUME NEW j \in Irps
          PROVE  irp'[j].refs = (IF Holder(j)' THEN 1 ELSE 0)
                                + (IF Listed(j)' \/ Held(j)' THEN 1 ELSE 0)
      <4>1. irp[j].refs = (IF Holder(j) THEN 1 ELSE 0)
                          + (IF Listed(j) \/ Held(j) THEN 1 ELSE 0)
        BY DEF Inv, Refs
      <4>2. CASE j = i
        BY <1>3, <1>4, <2>2, <2>3, <2>4, <2>5, <4>1, <4>2
      <4>3. CASE j # i
        BY <1>4, <2>3, <2>4, <2>5, <4>1, <4>3
      <4> QED
        BY <4>2, <4>3
    <3> QED
      BY <1>2, <3>1 DEF Inv, Refs
  <2>9. OneResult'
    <3>1. \A j \in Irps : /\ irp'[j].frame > 0 <=> irp[j].frame > 0
                          /\ irp'[j].frame > 0 => irp'[j].block = irp[j].block
      BY <1>7, <2>3
    <3>2. \A q : Carried(q)' <=> Carried(q)
      BY <3>1 DEF Carried
    <3> QED
      BY <1>2, <3>1, <3>2 DEF Inv, OneResult
  <2> QED
    BY <1>5, <1>6, <2>6, <2>7, <2>8, <2>9 DEF Inv
<1>8. CASE irp[i].frame = 2
  <2>1. /\ irp' = irp
        /\ pending' = IF wframe = 2 THEN Append(pending, i) ELSE pending
    BY <1>3, <1>8 DEF After
  <2>2. /\ wframe = 2 => ~Listed(i)
        /\ wframe # 2 => Listed(i)
    BY <1>3, <1>8 DEF Inv, OneList, Held
  <2>3. pending' \in Seq(Irps) /\ Distinct(pending')
    BY <1>3, <2>1, <2>2, AppendElement DEF Inv, OneList, Listed
  <2>4. ToSet(pending') = IF wframe = 2 THEN ToSet(pending) \cup {i} ELSE ToSet(pending)
    <3>1. ToSet(Append(pending, i)) = ToSet(pending) \cup {i}
      BY <1>3, AppendElement
    <3> QED
      BY <2>1, <3>1
  <2>5. \A j \in Irps : (Listed(j)' <=> Listed(j) \/ j = i) /\ (Listed(i) \/ Held(i))
    BY <1>1, <1>3, <1>8, <2>2, <2>4 DEF Listed, Held
  <2>6. TypeOK'
    BY <1>1, <1>2, <2>1, <2>3 DEF Inv, TypeOK
  <2>7. OneList'
    <3>1. ToSet(irps["console"]) \cap ToSet(pending') = {}
      BY <2>2, <2>4 DEF Inv, OneList, Listed
    <3>2. \A j \in Irps : irp'[j].frame > 0 => Listed(j)'
      BY <1>4, <2>1, <2>5 DEF Inv, OneList
    <3>3. \A j \in Irps : j \in ToSet(pending') => irp[j].frame = 2
      BY <1>8, <2>4 DEF Inv, OneList
    <3> QED
      BY <1>1, <1>4, <2>1, <2>3, <3>1, <3>2, <3>3 DEF Inv, OneList
  <2>8. Refs'
    BY <1>2, <1>4, <2>1, <2>5, RefsMoved
  <2>9. OneResult'
    BY <1>2, <2>1, ResultsKept DEF Inv, OneResult
  <2> QED
    BY <1>5, <1>6, <2>6, <2>7, <2>8, <2>9 DEF Inv
<1> QED
  BY <1>3, <1>7, <1>8

(***************************************************************************)
(* Steps of the programs that submit, release and collect                  *)
(***************************************************************************)
\* A request of the pool is nowhere, and is not the worker's.
LEMMA FreeIsNowhere ==
    ASSUME Inv, NEW i \in Irps, irp[i].refs = 0
    PROVE  ~Listed(i) /\ ~Held(i) /\ ~Holder(i) /\ irp[i].frame = 0 /\ wirp # i
<1>1. ~Listed(i) /\ ~Held(i) /\ ~Holder(i)
  BY DEF Inv, Refs
<1>2. irp[i].frame = 0
  <2>1. irp[i].frame \in 0 .. 2
    BY DEF Inv, TypeOK, IrpType
  <2>2. ~(irp[i].frame > 0)
    BY <1>1 DEF Inv, OneList
  <2> QED
    BY <2>1, <2>2
<1> QED
  BY <1>1, <1>2 DEF Held

\* A request is submitted with the references of its caller and of the queue.
LEMMA SubmitInv ==
    ASSUME Inv, NEW p \in Programs, NEW i \in Irps, Submit(p, i)
    PROVE  Inv'
<1> DEFINE b == IF call[p] = "async" THEN p ELSE Null
           l == IF call[p] = "async" THEN "release" ELSE "enter"
<1>1. /\ UNCHANGED <<call, unread, pending, worker, host, results, halted>>
      /\ pc[p] = "slow" /\ pc' = [pc EXCEPT ![p] = l] /\ irp[i].refs = 0
      /\ irp_of' = [irp_of EXCEPT ![p] = i]
      /\ asked' = [asked EXCEPT ![p] = asked[p] \/ call[p] = "async"]
      /\ QueueIo("stdio", i, irps)
  BY DEF Submit, Running, Goto
<1>2. UNCHANGED <<on_cpu, wpc, wdev, wirp, wframe, events, wait_armed, irqs, file_event, ready_io>>
  BY <1>1 DEF worker, host, results
<1>3. /\ irp' \in [Irps -> IrpType] /\ irp'[i].frame = 1 /\ irp'[i].refs = 2
      /\ irp'[i].block = b /\ \A j \in Irps \ {i} : irp'[j] = irp[j]
  <2> DEFINE r == [frame |-> 1, file |-> FileOf[p], status |-> "pending", refs |-> 2,
                   kind |-> IF call[p] = "control" THEN "control" ELSE "read",
                   block |-> b]
  <2>1. irp' = [irp EXCEPT ![i] = r] /\ irp \in [Irps -> IrpType] /\ FileOf[p] \in Files
    BY IoAssumption DEF Submit, Inv, TypeOK
  <2>2. r \in IrpType /\ r.frame = 1 /\ r.refs = 2 /\ r.block = b
    BY <2>1 DEF IrpType
  <2> HIDE DEF r
  <2> QED
    BY <2>1, <2>2
<1>4. ~Listed(i) /\ ~Held(i) /\ ~Holder(i) /\ irp[i].frame = 0 /\ wirp # i
  BY <1>1, FreeIsNowhere
<1>5. /\ pc' \in [Programs -> {"idle", "fast", "drain", "slow", "enter", "wait", "release"}]
      /\ pc'[p] = l /\ irp_of' \in [Programs -> Irps \cup {Null}] /\ irp_of'[p] = i
      /\ irp_of[p] = Null /\ i # Null
      /\ \A q \in Programs \ {p} : pc'[q] = pc[q] /\ irp_of'[q] = irp_of[q]
  BY <1>1, IoAssumption DEF Inv, TypeOK, Refs
<1>6. /\ asked' \in [Programs -> BOOLEAN]
      /\ asked'[p] <=> asked[p] \/ call[p] = "async"
      /\ \A q \in Programs \ {p} : asked'[q] <=> asked[q]
  BY <1>1 DEF Inv, TypeOK
<1>7. /\ irps' \in [Devices -> Seq(Irps)] /\ irps'["console"] = irps["console"]
      /\ ToSet(irps'["stdio"]) = ToSet(irps["stdio"]) \cup {i} /\ Distinct(irps'["stdio"])
      /\ work_list' \in Seq(Devices) /\ work_avail' \in BOOLEAN
  <2>1. "stdio" \in Devices /\ "console" \in Devices \ {"stdio"}
    BY DEF Devices
  <2>2. TypeOK /\ Distinct(work_list) /\ Distinct(irps["stdio"])
    BY DEF Inv, OneList
  <2>3. i \notin ToSet(irps["stdio"])
    BY <1>4 DEF Listed
  <2> QED
    BY <1>1, <2>1, <2>2, <2>3, QueueIoEffect
<1>8. /\ \A j \in Irps \ {i} : (Listed(j)' <=> Listed(j)) /\ (Held(j)' <=> Held(j))
      /\ Listed(i)' /\ ~Held(i)'
  BY <1>1, <1>2, <1>3, <1>4, <1>7 DEF Listed, Held
<1> HIDE DEF b, l
<1>9. TypeOK'
  BY <1>1, <1>2, <1>3, <1>5, <1>6, <1>7 DEF Inv, TypeOK
<1>10. OneList'
  BY <1>1, <1>3, <1>4, <1>7, <1>8 DEF Inv, OneList, Listed
<1>11. Refs'
  <2>1. /\ \A j \in Irps \ {i} : Holder(j)' <=> Holder(j)
        /\ Holder(i)'
    <3>1. ASSUME NEW j \in Irps \ {i} PROVE Holder(j)' <=> Holder(j)
      BY <1>5, IoAssumption DEF Holder
    <3> QED
      BY <1>5, <3>1 DEF Holder
  <2>2. ASSUME NEW j \in Irps
        PROVE  irp'[j].refs = (IF Holder(j)' THEN 1 ELSE 0)
                              + (IF Listed(j)' \/ Held(j)' THEN 1 ELSE 0)
    <3>1. CASE j = i
      BY <1>3, <1>8, <2>1, <3>1
    <3>2. CASE j # i
      BY <1>3, <1>8, <2>1, <3>2 DEF Inv, Refs
    <3> QED
      BY <3>1, <3>2
  <2>3. \A q, r \in Programs : irp_of'[q] = irp_of'[r] /\ irp_of'[q] # Null => q = r
    BY <1>4, <1>5 DEF Inv, Refs, Holder
  <2>4. \A q \in Programs : irp_of'[q] # Null <=> pc'[q] \in {"enter", "wait", "release"}
    BY <1>5 DEF Inv, Refs, l
  <2> QED
    BY <2>2, <2>3, <2>4 DEF Refs
<1>12. OneResult'
  <2>1. call[p] = "async" => ~asked[p]
    BY <1>1 DEF Inv, OneResult
  <2>2. \A q \in Programs : Carried(q)' <=> Carried(q) \/ q = b
    <3>1. ASSUME NEW q \in Programs, Carried(q)' PROVE Carried(q) \/ q = b
      BY <1>3, <3>1 DEF Carried
    <3>2. ASSUME NEW q \in Programs, Carried(q) \/ q = b PROVE Carried(q)'
      <4>1. CASE Carried(q)
        <5>1. PICK j \in Irps : irp[j].block = q /\ irp[j].frame > 0
          BY <4>1 DEF Carried
        <5> QED
          BY <1>3, <1>4, <5>1 DEF Carried
      <4>2. CASE q = b
        BY <1>3, <4>2 DEF Carried
      <4> QED
        BY <3>2, <4>1, <4>2
    <3> QED
      BY <3>1, <3>2
  <2>3. b \in {Null, p} /\ (b = p <=> call[p] = "async")
    BY IoAssumption DEF b
  <2>4. \A q \in Programs : /\ asked'[q] <=> Carried(q)' \/ q \in ToSet(ready_io)
                            /\ ~(Carried(q)' /\ q \in ToSet(ready_io))
    BY <1>6, <2>1, <2>2, <2>3, IoAssumption DEF Inv, OneResult
  <2>5. \A j, k \in Irps :
          irp'[j].frame > 0 /\ irp'[k].frame > 0 /\ irp'[j].block = irp'[k].block
            /\ irp'[j].block # Null => j = k
    <3>1. \A j \in Irps \ {i} : irp[j].frame > 0 => irp[j].block # b \/ b = Null
      BY <2>1, <2>3 DEF Inv, OneResult, Carried
    <3> QED
      BY <1>3, <3>1 DEF Inv, OneResult
  <2>6. \A q \in Programs :
          /\ call'[q] = "async" /\ pc'[q] \in {"fast", "drain", "slow"} => ~asked'[q]
          /\ pc'[q] = "drain" => unread'[q] > 0
    BY <1>1, <1>5, <1>6 DEF Inv, OneResult, l
  <2> QED
    BY <1>2, <2>4, <2>5, <2>6 DEF Inv, OneResult
<1>13. WorkerAt'
  BY <1>2, <1>3, <1>4, IoAssumption DEF Inv, WorkerAt, TypeOK
<1>14. Distinct(work_list)' /\ NoForgottenWork'
  BY <1>1, <1>2, QueuedWork DEF Devices
<1> QED
  BY <1>9, <1>10, <1>11, <1>12, <1>13, <1>14 DEF Inv

\* A program gives up its reference: the request keeps its place.
LEMMA ReleaseIrpInv ==
    ASSUME Inv, NEW p \in Programs, ReleaseIrp(p)
    PROVE  Inv'
<1> DEFINE i == irp_of[p]
<1>1. /\ UNCHANGED <<call, unread, asked, irps, pending, work, worker, host, results, halted>>
      /\ pc[p] = "release" /\ pc' = [pc EXCEPT ![p] = "idle"]
      /\ irp_of' = [irp_of EXCEPT ![p] = Null] /\ irp' = DecRef(i, irp)
  BY DEF ReleaseIrp, Running, Goto
<1>2. /\ UNCHANGED <<on_cpu, wpc, wdev, wirp, wframe, events, wait_armed, irqs>>
      /\ UNCHANGED <<file_event, ready_io, work_list, work_avail>>
  BY <1>1 DEF worker, host, results, work
<1>3. i \in Irps /\ i # Null /\ Holder(i)
  BY <1>1 DEF Inv, TypeOK, Refs, Holder
<1>4. /\ pc' \in [Programs -> {"idle", "fast", "drain", "slow", "enter", "wait", "release"}]
      /\ pc'[p] = "idle" /\ irp_of' \in [Programs -> Irps \cup {Null}] /\ irp_of'[p] = Null
      /\ \A q \in Programs \ {p} : pc'[q] = pc[q] /\ irp_of'[q] = irp_of[q]
  BY <1>1 DEF Inv, TypeOK
<1>5. irp[i].refs = 1 + (IF Listed(i) \/ Held(i) THEN 1 ELSE 0)
  BY <1>3 DEF Inv, Refs
<1>6. irp[i].refs = 1 => irp[i].frame = 0
  <2> HIDE DEF i
  <2>1. irp[i].frame \in 0 .. 2
    BY <1>3 DEF Inv, TypeOK, IrpType
  <2>2. irp[i].refs = 1 => ~(irp[i].frame > 0)
    BY <1>3, <1>5 DEF Inv, OneList
  <2> QED
    BY <2>1, <2>2
<1>7. /\ irp' \in [Irps -> IrpType] /\ irp'[i].refs = irp[i].refs - 1
      /\ irp'[i].frame = irp[i].frame
      /\ irp[i].frame > 0 => irp'[i].block = irp[i].block
      /\ \A j \in Irps \ {i} : irp'[j] = irp[j]
  <2>1. irp[i].refs > 0 /\ TypeOK
    BY <1>5 DEF Inv
  <2> HIDE DEF i
  <2> QED
    BY <1>1, <1>3, <1>6, <2>1, DecRefEffect
<1>8. \A j \in Irps : irp'[j].frame = irp[j].frame
  BY <1>7
<1>9. \A j \in Irps : (Listed(j)' <=> Listed(j)) /\ (Held(j)' <=> Held(j))
  BY <1>1, <1>2, <1>8 DEF Listed, Held
<1>10. TypeOK'
  BY <1>1, <1>2, <1>4, <1>7 DEF Inv, TypeOK
<1>11. OneList'
  BY <1>1, <1>8, <1>9 DEF Inv, OneList
<1>12. Refs'
  <2>1. \A j \in Irps : Holder(j)' <=> Holder(j) /\ j # i
    <3>1. ASSUME NEW j \in Irps, Holder(j)' PROVE Holder(j) /\ j # i
      <4>1. PICK q \in Programs : irp_of'[q] = j
        BY <3>1 DEF Holder
      <4>2. q # p /\ irp_of[q] = j
        BY <1>4, <4>1, IoAssumption
      <4> QED
        BY <1>3, <4>2 DEF Holder, Inv, Refs
    <3>2. ASSUME NEW j \in Irps, Holder(j), j # i PROVE Holder(j)'
      BY <1>4, <3>2 DEF Holder
    <3> QED
      BY <3>1, <3>2
  <2>2. ASSUME NEW j \in Irps
        PROVE  irp'[j].refs = (IF Holder(j)' THEN 1 ELSE 0)
                              + (IF Listed(j)' \/ Held(j)' THEN 1 ELSE 0)
    <3>1. CASE j = i
      <4> HIDE DEF i
      <4>1. ~Holder(j)'
        BY <1>3, <2>1, <3>1
      <4> QED
        BY <1>3, <1>5, <1>7, <1>9, <3>1, <4>1
    <3>2. CASE j # i
      BY <1>7, <1>9, <2>1, <3>2 DEF Inv, Refs
    <3> QED
      BY <3>1, <3>2
  <2>3. \A q, r \in Programs : irp_of'[q] = irp_of'[r] /\ irp_of'[q] # Null => q = r
    BY <1>4 DEF Inv, Refs
  <2>4. \A q \in Programs : irp_of'[q] # Null <=> pc'[q] \in {"enter", "wait", "release"}
    BY <1>4 DEF Inv, Refs
  <2> QED
    BY <2>2, <2>3, <2>4 DEF Refs
<1>13. OneResult'
  <2>1. \A j \in Irps : irp'[j].frame > 0 => irp'[j].block = irp[j].block
    BY <1>7
  <2>2. \A q : Carried(q)' <=> Carried(q)
    BY <1>8, <2>1 DEF Carried
  <2>3. \A q \in Programs : pc'[q] = pc[q] \/ pc'[q] = "idle"
    BY <1>4
  <2> QED
    BY <1>1, <1>2, <1>8, <2>1, <2>2, <2>3 DEF Inv, OneResult
<1>14. WorkerAt'
  BY <1>2, <1>8 DEF Inv, WorkerAt, TypeOK
<1>15. Distinct(work_list)' /\ NoForgottenWork'
  BY <1>1, <1>2 DEF Inv, NoForgottenWork
<1> QED
  BY <1>10, <1>11, <1>12, <1>13, <1>14, <1>15 DEF Inv

\* io_wait_queued_io hands out the oldest result.
LEMMA WaitQueuedIoInv ==
    ASSUME Inv, NEW p \in Programs, WaitQueuedIo(p)
    PROVE  Inv'
<1> DEFINE h == Head(ready_io)
<1>1. /\ UNCHANGED <<pc, call, irp_of, unread, requests, work, worker, host, file_event, halted>>
      /\ ready_io # << >> /\ ready_io' = Tail(ready_io)
      /\ asked' = [asked EXCEPT ![h] = FALSE]
  BY DEF WaitQueuedIo
<1>2. /\ UNCHANGED <<irp, irps, pending, work_list, work_avail, on_cpu, wpc, wdev, wirp, wframe>>
      /\ UNCHANGED <<events, wait_armed, irqs>>
  BY <1>1 DEF requests, work, worker, host
<1>3. /\ ready_io' \in Seq(Programs) /\ Distinct(ready_io')
      /\ ToSet(ready_io') = ToSet(ready_io) \ {h} /\ h \in ToSet(ready_io) /\ h \in Programs
  BY <1>1, PopFront, FrontInList DEF Inv, TypeOK, OneResult
<1> HIDE DEF h
<1>4. /\ asked' \in [Programs -> BOOLEAN] /\ ~asked'[h]
      /\ \A q \in Programs \ {h} : asked'[q] <=> asked[q]
  BY <1>1, <1>3 DEF Inv, TypeOK
<1>5. TypeOK'
  BY <1>1, <1>2, <1>3, <1>4 DEF Inv, TypeOK
<1>6. OneList' /\ WorkerAt' /\ Distinct(work_list)' /\ NoForgottenWork'
  BY <1>1, <1>2, Untouched
<1>7. Refs'
  BY <1>1, <1>2, RefsKept
<1>8. OneResult'
  <2>1. \A q : Carried(q)' <=> Carried(q)
    BY <1>2 DEF Carried
  <2>2. ~Carried(h)
    BY <1>3 DEF Inv, OneResult
  <2> QED
    BY <1>1, <1>2, <1>3, <1>4, <2>1, <2>2 DEF Inv, OneResult
<1> QED
  BY <1>5, <1>6, <1>7, <1>8 DEF Inv

(***************************************************************************)
(* The theorems                                                            *)
(***************************************************************************)
\* Nothing is submitted at the start.
LEMMA InitInv == Init => Inv
<1> SUFFICES ASSUME Init PROVE Inv
  OBVIOUS
<1>1. FreeIrp \in IrpType
  BY DEF FreeIrp, IrpType
<1>2. \A S : << >> \in Seq(S) /\ Len(<< >>) = 0
  BY EmptySeq
<1>3. /\ irps \in [Devices -> Seq(Irps)] /\ irps["stdio"] = << >> /\ irps["console"] = << >>
      /\ \A d \in Devices : irps[d] = << >>
  BY <1>2 DEF Init, Devices
<1>4. Distinct(<< >>) /\ ToSet(<< >>) = {}
  BY DEF Distinct, ToSet
<1>5. /\ irp \in [Irps -> IrpType]
      /\ \A i \in Irps : irp[i].frame = 0 /\ irp[i].refs = 0
  BY <1>1 DEF Init, FreeIrp
<1>6. TypeOK
  <2>1. /\ pc \in [Programs -> {"idle", "fast", "drain", "slow", "enter", "wait", "release"}]
        /\ call \in [Programs -> {"read", "async", "control"}]
        /\ irp_of \in [Programs -> Irps \cup {Null}]
        /\ unread \in [Programs -> 0 .. MaxEvents]
        /\ file_event \in [Files -> BOOLEAN] /\ asked \in [Programs -> BOOLEAN]
    BY IoAssumption DEF Init
  <2>2. Len(events) <= MaxEvents
    BY <1>2, IoAssumption DEF Init
  <2>3. /\ work_avail = FALSE /\ on_cpu = TRUE /\ wait_armed = FALSE /\ irqs = 0
        /\ wpc = "scan" /\ wdev = Null /\ wirp = Null /\ wframe = 0 /\ halted = "no"
    BY DEF Init
  <2>4. /\ pending \in Seq(Irps) /\ work_list \in Seq(Devices) /\ ready_io \in Seq(Programs)
        /\ events \in Seq({"key", "other"})
    BY <1>2 DEF Init
  <2>5. work_avail \in BOOLEAN /\ on_cpu \in BOOLEAN /\ wait_armed \in BOOLEAN
    BY <2>3
  <2>6. irqs \in Nat /\ wframe \in 0 .. 2
    BY <2>3
  <2> QED
    BY <1>3, <1>5, <2>1, <2>2, <2>3, <2>4, <2>5, <2>6, Zenon DEF TypeOK
<1>7. \A i \in Irps : ~Listed(i) /\ ~Held(i) /\ ~Holder(i)
  BY <1>3, <1>4, IoAssumption DEF Init, Listed, Held, Holder
<1>8. OneList
  BY <1>3, <1>4, <1>5, <1>7 DEF Init, OneList
<1>9. WorkerAt
  BY DEF Init, WorkerAt
<1>10. Refs
  BY <1>5, <1>7 DEF Init, Refs
<1>11. OneResult
  <2>1. \A q : ~Carried(q)
    BY <1>5 DEF Carried
  <2> QED
    BY <1>4, <1>5, <2>1 DEF Init, OneResult
<1>12. Distinct(work_list) /\ NoForgottenWork
  BY <1>3, <1>4 DEF Init, NoForgottenWork
<1> QED
  BY <1>6, <1>8, <1>9, <1>10, <1>11, <1>12 DEF Inv

\* Every step keeps the invariant.
LEMMA NextInv == Inv /\ [Next]_vars => Inv'
<1> SUFFICES ASSUME Inv, [Next]_vars PROVE Inv'
  OBVIOUS
<1>1. CASE UNCHANGED vars
  <2>1. /\ UNCHANGED <<programs, requests, work, worker, host, results, halted>>
    BY <1>1 DEF vars
  <2>2. /\ UNCHANGED <<irp, irps, pending, work_list, work_avail, file_event, ready_io, halted>>
        /\ UNCHANGED <<pc, call, irp_of, unread, asked, events, wait_armed, irqs>>
        /\ UNCHANGED <<on_cpu, wpc, wdev, wirp, wframe>>
    BY <2>1 DEF programs, requests, work, worker, host, results
  <2>3. TypeOK'
    BY <2>2 DEF Inv, TypeOK
  <2>4. OneList' /\ Refs' /\ OneResult'
    BY <2>1, <2>2, SamePlaces
  <2>5. WorkerAt' /\ Distinct(work_list)' /\ NoForgottenWork'
    BY <2>1, <2>2, Untouched
  <2> QED
    BY <2>3, <2>4, <2>5 DEF Inv
<1>2. ASSUME NEW p \in Programs, ProgramStep(p) PROVE Inv'
  BY <1>2, FastCountInv, FastReadInv, QuietProgramInv, SubmitInv, ReleaseIrpInv DEF ProgramStep
<1>3. ASSUME NEW p \in Programs, WaitQueuedIo(p) PROVE Inv'
  BY <1>3, WaitQueuedIoInv
<1>4. ASSUME NEW p \in Programs, NEW kind \in Calls, Begin(p, kind) PROVE Inv'
  BY <1>4, BeginInv
<1>5. ASSUME WorkerStep \/ WorkerPreempts PROVE Inv'
  BY <1>5, ScanInv, QuietWorkerInv, TakeIrpInv, ProcessStdioInv, ProcessReadInv, AfterInv
     DEF WorkerStep
<1>6. ASSUME (\E e \in {"key", "other"} : HostInput(e)) \/ WaitFires PROVE Inv'
  BY <1>6, HostInv
<1>7. ASSUME StdinIrq PROVE Inv'
  BY <1>7, StdinIrqInv
<1> QED
  BY <1>1, <1>2, <1>3, <1>4, <1>5, <1>6, <1>7, Zenon DEF Next

\* The invariant holds in every behaviour.
LEMMA Invariance == Spec => []Inv
<1> QED
  BY InitInv, NextInv, PTL DEF Spec

\* The positions of a request in one list.
At(tag, list, i) == {<<tag, k>> : k \in {j \in DOMAIN list : list[j] = i}}

\* It is at one position if it is in the list.
LEMMA AtOne ==
    ASSUME NEW tag, NEW list, NEW i, Distinct(list)
    PROVE  \/ i \notin ToSet(list) /\ At(tag, list, i) = {}
           \/ i \in ToSet(list) /\ \E x : At(tag, list, i) = {x}
<1>1. CASE i \in ToSet(list)
  <2>1. PICK k \in DOMAIN list : list[k] = i
    BY <1>1 DEF ToSet
  <2>2. {j \in DOMAIN list : list[j] = i} = {k}
    BY <2>1 DEF Distinct
  <2>3. At(tag, list, i) = {<<tag, k>>}
    BY <2>2 DEF At
  <2> QED
    BY <1>1, <2>3
<1>2. CASE i \notin ToSet(list)
  BY <1>2 DEF At, ToSet
<1> QED
  BY <1>1, <1>2

\* A request has at most one place, and one exactly when it is listed or held.
LEMMA OnePlace ==
    ASSUME Inv, NEW i \in Irps
    PROVE  \/ Places(i) = {} /\ ~Listed(i) /\ ~Held(i)
           \/ (\E x : Places(i) = {x}) /\ (Listed(i) \/ Held(i))
<1> DEFINE A == At("stdio", irps["stdio"], i)
           B == At("console", irps["console"], i)
           C == At("pending", pending, i)
           D == {<<"worker", k>> : k \in {j \in {0} : wirp = i /\ irp[i].frame \in {0, wframe}}}
<1>1. Places(i) = A \cup B \cup C \cup D
  BY DEF Places, At
<1>2. /\ \/ i \notin ToSet(irps["stdio"]) /\ A = {}
         \/ i \in ToSet(irps["stdio"]) /\ \E x : A = {x}
      /\ \/ i \notin ToSet(irps["console"]) /\ B = {}
         \/ i \in ToSet(irps["console"]) /\ \E x : B = {x}
      /\ \/ i \notin ToSet(pending) /\ C = {}
         \/ i \in ToSet(pending) /\ \E x : C = {x}
  <2>1. Distinct(irps["stdio"]) /\ Distinct(irps["console"]) /\ Distinct(pending)
    BY DEF Inv, OneList
  <2> QED
    BY <2>1, AtOne, Zenon
<1>3. \/ ~Held(i) /\ D = {}
      \/ Held(i) /\ D = {<<"worker", 0>>}
  BY DEF Held
<1>4. /\ ~(i \in ToSet(irps["stdio"]) /\ i \in ToSet(irps["console"]))
      /\ ~(i \in ToSet(irps["stdio"]) /\ i \in ToSet(pending))
      /\ ~(i \in ToSet(irps["console"]) /\ i \in ToSet(pending))
      /\ ~(Listed(i) /\ Held(i))
  BY DEF Inv, OneList
<1> HIDE DEF A, B, C, D
<1>5. CASE i \in ToSet(irps["stdio"])
  <2>1. Listed(i) /\ Places(i) = A /\ \E x : A = {x}
    BY <1>1, <1>2, <1>3, <1>4, <1>5 DEF Listed
  <2> QED
    BY <2>1
<1>6. CASE i \in ToSet(irps["console"])
  <2>1. Listed(i) /\ Places(i) = B /\ \E x : B = {x}
    BY <1>1, <1>2, <1>3, <1>4, <1>6 DEF Listed
  <2> QED
    BY <2>1
<1>7. CASE i \in ToSet(pending)
  <2>1. Listed(i) /\ Places(i) = C /\ \E x : C = {x}
    BY <1>1, <1>2, <1>3, <1>4, <1>7 DEF Listed
  <2> QED
    BY <2>1
<1>8. CASE ~Listed(i)
  <2>1. Places(i) = D
    BY <1>1, <1>2, <1>8 DEF Listed
  <2> QED
    BY <1>3, <1>8, <2>1
<1> QED
  BY <1>5, <1>6, <1>7, <1>8 DEF Listed

\* The requests are kept in order: well formed, each in one place at most,
\* and in one until it is completed, whatever the interrupts do meanwhile.
THEOREM RequestsKept == Spec => []IoInv
<1>1. Inv => IoInv
  <2> SUFFICES ASSUME Inv PROVE IoInv
    OBVIOUS
  <2>1. ASSUME NEW i \in Irps
        PROVE  /\ Cardinality(Places(i)) <= 1
               /\ irp[i].frame > 0 => Places(i) # {}
    <3>1. irp[i].frame > 0 => Listed(i) \/ Held(i)
      BY DEF Inv, OneList
    <3>2. CASE Places(i) = {} /\ ~Listed(i) /\ ~Held(i)
      <4>1. Cardinality(Places(i)) = 0
        BY <3>2, FS_EmptySet
      <4> QED
        BY <3>1, <3>2, <4>1
    <3>3. CASE \E x : Places(i) = {x}
      <4>1. PICK x : Places(i) = {x}
        BY <3>3
      <4>2. Cardinality(Places(i)) = 1
        BY <4>1, FS_Singleton
      <4> QED
        BY <4>1, <4>2
    <3> QED
      BY <3>2, <3>3, OnePlace
  <2>2. RequestInOnePlace
    BY <2>1 DEF RequestInOnePlace, Inv, OneList
  <2> QED
    BY <2>2 DEF IoInv, Inv
<1> QED
  BY <1>1, Invariance, PTL

\* process_queued_ios never leaves a device with requests off its list, and
\* never sleeps on a list that is not empty.
THEOREM WorkRemembered == Spec => []NoForgottenWork
<1>1. Inv => NoForgottenWork
  BY DEF Inv
<1> QED
  BY <1>1, Invariance, PTL

\* Every reference is counted: a request goes back to the pool when its caller
\* and the queue are both done with it, and no earlier.
THEOREM ReferencesCounted == Spec => []RefsBalanced
<1>1. Inv => RefsBalanced
  <2> SUFFICES ASSUME Inv, NEW i \in Irps
               PROVE  irp[i].refs = Cardinality({p \in Programs : irp_of[p] = i})
                                    + (IF Places(i) = {} THEN 0 ELSE 1)
    BY DEF RefsBalanced
  <2> DEFINE H == {p \in Programs : irp_of[p] = i}
  <2>1. Cardinality(H) = IF Holder(i) THEN 1 ELSE 0
    <3>1. CASE Holder(i)
      <4>1. PICK p \in Programs : irp_of[p] = i
        BY <3>1 DEF Holder
      <4>2. H = {p}
        BY <4>1, IoAssumption DEF Inv, Refs
      <4> HIDE DEF H
      <4>3. Cardinality(H) = 1
        BY <4>2, FS_Singleton
      <4> QED
        BY <3>1, <4>3
    <3>2. CASE ~Holder(i)
      <4>1. H = {}
        BY <3>2 DEF Holder
      <4> HIDE DEF H
      <4>2. Cardinality(H) = 0
        BY <4>1, FS_EmptySet
      <4> QED
        BY <3>2, <4>2
    <3> QED
      BY <3>1, <3>2
  <2>2. (IF Places(i) = {} THEN 0 ELSE 1) = (IF Listed(i) \/ Held(i) THEN 1 ELSE 0)
    <3>1. Places(i) = {} <=> ~(Listed(i) \/ Held(i))
      BY OnePlace
    <3> QED
      BY <3>1
  <2> HIDE DEF H
  <2>3. irp[i].refs = Cardinality(H) + (IF Places(i) = {} THEN 0 ELSE 1)
    BY <2>1, <2>2 DEF Inv, Refs
  <2> QED
    BY <2>3 DEF H
<1> QED
  BY <1>1, Invariance, PTL

\* Every asynchronous read is delivered exactly once: its block is in one
\* uncompleted request or once in the completion queue until it is collected.
THEOREM DeliveredOnce == Spec => []AsyncDeliveredOnce
<1>1. Inv => AsyncDeliveredOnce
  <2> SUFFICES ASSUME Inv, NEW p \in Programs
               PROVE  Cardinality({i \in Irps : irp[i].block = p /\ irp[i].frame > 0})
                        + Cardinality({k \in DOMAIN ready_io : ready_io[k] = p})
                      = IF asked[p] THEN 1 ELSE 0
    BY DEF AsyncDeliveredOnce
  <2> DEFINE R == {i \in Irps : irp[i].block = p /\ irp[i].frame > 0}
             Q == {k \in DOMAIN ready_io : ready_io[k] = p}
  <2>1. Cardinality(R) = IF Carried(p) THEN 1 ELSE 0
    <3>1. CASE Carried(p)
      <4>1. PICK i \in Irps : irp[i].block = p /\ irp[i].frame > 0
        BY <3>1 DEF Carried
      <4>2. R = {i}
        BY <4>1, IoAssumption DEF Inv, OneResult
      <4> HIDE DEF R
      <4>3. Cardinality(R) = 1
        BY <4>2, FS_Singleton
      <4> QED
        BY <3>1, <4>3
    <3>2. CASE ~Carried(p)
      <4>1. R = {}
        BY <3>2 DEF Carried
      <4> HIDE DEF R
      <4>2. Cardinality(R) = 0
        BY <4>1, FS_EmptySet
      <4> QED
        BY <3>2, <4>2
    <3> QED
      BY <3>1, <3>2
  <2>2. Cardinality(Q) = IF p \in ToSet(ready_io) THEN 1 ELSE 0
    <3>1. ready_io \in Seq(Programs) /\ Distinct(ready_io)
      BY DEF Inv, TypeOK, OneResult
    <3> QED
      BY <3>1, Occurrences DEF One
  <2> HIDE DEF R, Q
  <2>3. /\ asked[p] <=> Carried(p) \/ p \in ToSet(ready_io)
        /\ ~(Carried(p) /\ p \in ToSet(ready_io))
    BY DEF Inv, OneResult
  <2>4. Cardinality(R) + Cardinality(Q) = IF asked[p] THEN 1 ELSE 0
    BY <2>1, <2>2, <2>3
  <2> QED
    BY <2>4 DEF R, Q
<1> QED
  BY <1>1, Invariance, PTL

(***************************************************************************)
(* Synchronous calls                                                       *)
(***************************************************************************)
\* Each program has a file of its own and no asynchronous reads: a request of
\* a file is then the one its program waits for.
OwnFiles ==
    /\ \A p, q \in Programs : FileOf[p] = FileOf[q] => p = q
    /\ "async" \notin Calls

\* A request under way is that of a program in its wait, and the event of its
\* file is clear until it is completed.
WaitInv ==
    /\ \A i \in Irps : irp[i].frame > 0 =>
           \E p \in Programs : irp_of[p] = i /\ irp[i].file = FileOf[p]
    /\ \A i \in Irps : irp[i].refs > 0 /\ irp[i].frame = 0 => irp[i].status # "pending"
    /\ \A p \in Programs :
        /\ call[p] # "async"
        /\ pc[p] \in {"fast", "drain", "slow"} => ~file_event[FileOf[p]]
        /\ pc[p] \in {"enter", "wait"} /\ file_event[FileOf[p]] => irp[irp_of[p]].frame = 0
        /\ pc[p] = "release" => irp[irp_of[p]].frame = 0

\* A step that leaves the calls, the requests and the events alone.
LEMMA WaitKept ==
    ASSUME WaitInv, UNCHANGED <<irp, irp_of, file_event, pc, call>>
    PROVE  WaitInv'
  BY DEF WaitInv

\* A request that is completed wakes the program that waits for it.
LEMMA CompleteWait ==
    ASSUME OwnFiles, Inv, WaitInv, wirp \in Irps, irp[wirp].frame > 0,
           NEW s \in {"ok", "error"}, Complete(wirp, s), UNCHANGED <<pc, call, irp_of>>
    PROVE  WaitInv'
<1>1. /\ irp'[wirp].frame = 0 /\ irp'[wirp].status = s
      /\ \A j \in Irps \ {wirp} : irp'[j] = irp[j]
  BY CompleteEffect DEF Inv
<1>2. PICK p \in Programs : irp_of[p] = wirp /\ irp[wirp].file = FileOf[p]
  BY DEF WaitInv
<1>3. /\ file_event \in [Files -> BOOLEAN] /\ FileOf \in [Programs -> Files]
      /\ file_event' = [file_event EXCEPT ![FileOf[p]] = TRUE]
      /\ irp_of \in [Programs -> Irps \cup {Null}] /\ Null \notin Irps
  BY <1>2, IoAssumption DEF Inv, TypeOK, Complete
<1>4. pc[p] \in {"enter", "wait"}
  BY <1>2, IoAssumption DEF Inv, Refs, WaitInv
<1>5. \A q \in Programs \ {p} : /\ file_event'[FileOf[q]] = file_event[FileOf[q]]
                                /\ irp_of[q] # wirp
  BY <1>2, <1>3 DEF OwnFiles, Inv, Refs
<1>6. \A q \in Programs \ {p} :
        pc[q] \in {"enter", "wait", "release"} => irp'[irp_of[q]] = irp[irp_of[q]]
  <2>1. \A q \in Programs : pc[q] \in {"enter", "wait", "release"} => irp_of[q] \in Irps
    BY <1>3 DEF Inv, Refs
  <2> QED
    BY <1>1, <1>5, <2>1
<1>7. \A q \in Programs :
        /\ call'[q] # "async"
        /\ pc'[q] \in {"fast", "drain", "slow"} => ~file_event'[FileOf[q]]
        /\ pc'[q] \in {"enter", "wait"} /\ file_event'[FileOf[q]] => irp'[irp_of'[q]].frame = 0
        /\ pc'[q] = "release" => irp'[irp_of'[q]].frame = 0
  <2> SUFFICES ASSUME NEW q \in Programs
               PROVE  /\ call[q] # "async"
                      /\ pc[q] \in {"fast", "drain", "slow"} => ~file_event'[FileOf[q]]
                      /\ pc[q] \in {"enter", "wait"} /\ file_event'[FileOf[q]]
                           => irp'[irp_of[q]].frame = 0
                      /\ pc[q] = "release" => irp'[irp_of[q]].frame = 0
    OBVIOUS
  <2>1. CASE q = p
    BY <1>1, <1>2, <1>4, <2>1 DEF WaitInv
  <2>2. CASE q # p
    BY <1>5, <1>6, <2>2 DEF WaitInv
  <2> QED
    BY <2>1, <2>2
<1>8. \A i \in Irps : irp'[i].frame > 0 =>
        \E q \in Programs : irp_of'[q] = i /\ irp'[i].file = FileOf[q]
  BY <1>1 DEF WaitInv
<1>9. \A i \in Irps : irp'[i].refs > 0 /\ irp'[i].frame = 0 => irp'[i].status # "pending"
  BY <1>1 DEF WaitInv
<1> QED
  BY <1>7, <1>8, <1>9 DEF WaitInv

\* A reference to a completed request is dropped.
LEMMA DecRefWait ==
    ASSUME Inv, WaitInv, NEW i \in Irps, irp[i].frame = 0, irp[i].refs > 0,
           irp' = DecRef(i, irp)
    PROVE  /\ \A j \in Irps : irp'[j].frame = irp[j].frame
           /\ \A j \in Irps : irp'[j].frame > 0 => irp'[j].file = irp[j].file
           /\ \A j \in Irps : irp'[j].refs > 0 /\ irp'[j].frame = 0 => irp'[j].status # "pending"
<1>1. irp[i].refs \in 0 .. 2
  BY DEF Inv, TypeOK, IrpType
<1>2. /\ irp'[i].refs = irp[i].refs - 1 /\ irp'[i].frame = 0
      /\ irp[i].refs # 1 => irp'[i].status = irp[i].status
      /\ \A j \in Irps \ {i} : irp'[j] = irp[j]
  BY DecRefEffect DEF Inv
<1> QED
  BY <1>1, <1>2 DEF WaitInv

\* The steps of a program keep what it waits for.
LEMMA ProgramWait ==
    ASSUME OwnFiles, Inv, WaitInv, NEW p \in Programs,
           ProgramStep(p) \/ WaitQueuedIo(p) \/ \E kind \in Calls : Begin(p, kind)
    PROVE  WaitInv'
<1>0. /\ pc \in [Programs -> {"idle", "fast", "drain", "slow", "enter", "wait", "release"}]
      /\ call \in [Programs -> {"read", "async", "control"}]
      /\ irp_of \in [Programs -> Irps \cup {Null}] /\ irp \in [Irps -> IrpType]
      /\ file_event \in [Files -> BOOLEAN] /\ FileOf \in [Programs -> Files]
      /\ Null \notin Irps
  BY IoAssumption DEF Inv, TypeOK
<1>1. CASE WaitQueuedIo(p)
  BY <1>1, WaitKept DEF WaitQueuedIo, requests
<1>2. ASSUME NEW kind \in Calls, Begin(p, kind) PROVE WaitInv'
  <2>1. /\ kind # "async" /\ UNCHANGED <<irp_of, irp>>
        /\ pc' = [pc EXCEPT ![p] = IF kind = "control" THEN "slow" ELSE "fast"]
        /\ call' = [call EXCEPT ![p] = kind]
        /\ file_event' = [file_event EXCEPT ![FileOf[p]] = FALSE]
    BY <1>2 DEF OwnFiles, Begin, Goto, requests
  <2>2. /\ pc'[p] \in {"slow", "fast"} /\ call'[p] # "async" /\ ~file_event'[FileOf[p]]
        /\ \A q \in Programs \ {p} : /\ pc'[q] = pc[q] /\ call'[q] = call[q]
                                     /\ file_event'[FileOf[q]] = file_event[FileOf[q]]
    BY <1>0, <2>1 DEF OwnFiles
  <2> QED
    BY <2>1, <2>2 DEF WaitInv
<1>3. CASE FastCount(p) \/ FastRead(p) \/ NoMemory(p)
  <2>1. /\ UNCHANGED <<irp_of, irp, file_event, call>>
        /\ \E l \in {"slow", "drain", "idle", "fast"} : pc' = [pc EXCEPT ![p] = l]
        /\ pc[p] \in {"fast", "drain", "slow"}
    BY <1>3 DEF FastCount, FastRead, NoMemory, Running, Goto, requests, results
  <2>2. /\ pc'[p] \in {"slow", "drain", "idle", "fast"}
        /\ \A q \in Programs \ {p} : pc'[q] = pc[q]
    BY <1>0, <2>1
  <2> QED
    BY <2>1, <2>2 DEF WaitInv
<1>4. CASE EnterWait(p) \/ WaitReturns(p)
  <2>1. /\ UNCHANGED <<irp_of, irp, file_event, call>>
        /\ \/ pc' = pc
           \/ pc[p] = "enter" /\ pc' = [pc EXCEPT ![p] = "wait"]
           \/ pc[p] = "wait" /\ pc' = [pc EXCEPT ![p] = "release"] /\ file_event[FileOf[p]]
    BY <1>4 DEF EnterWait, WaitReturns, Running, Goto, requests, results
  <2>2. /\ \/ pc'[p] = pc[p]
           \/ pc[p] = "enter" /\ pc'[p] = "wait"
           \/ pc[p] = "wait" /\ pc'[p] = "release" /\ file_event[FileOf[p]]
        /\ \A q \in Programs \ {p} : pc'[q] = pc[q]
    BY <1>0, <2>1
  <2> QED
    BY <2>1, <2>2 DEF WaitInv
<1>5. ASSUME NEW i \in Irps, Submit(p, i) PROVE WaitInv'
  <2>1. /\ UNCHANGED <<call, file_event>> /\ pc[p] = "slow" /\ irp[i].refs = 0
        /\ pc' = [pc EXCEPT ![p] = "enter"] /\ irp_of' = [irp_of EXCEPT ![p] = i]
    BY <1>5 DEF Submit, Running, Goto, results, WaitInv
  <2>2. /\ irp'[i].frame = 1 /\ irp'[i].file = FileOf[p]
        /\ \A j \in Irps \ {i} : irp'[j] = irp[j]
    BY <1>0, <1>5 DEF Submit
  <2>3. ~Holder(i)
    BY <2>1, FreeIsNowhere
  <2>4. irp_of[p] = Null
    BY <2>1 DEF Inv, Refs
  <2>5. /\ pc'[p] = "enter" /\ irp_of'[p] = i /\ ~file_event'[FileOf[p]]
        /\ \A q \in Programs \ {p} :
             /\ pc'[q] = pc[q] /\ irp_of'[q] = irp_of[q] /\ irp_of[q] # i
             /\ pc[q] \in {"enter", "wait", "release"} => irp'[irp_of[q]] = irp[irp_of[q]]
    <3>1. /\ pc'[p] = "enter" /\ irp_of'[p] = i
          /\ \A q \in Programs \ {p} : pc'[q] = pc[q] /\ irp_of'[q] = irp_of[q]
      BY <1>0, <2>1
    <3>2. ~file_event'[FileOf[p]]
      BY <2>1 DEF WaitInv
    <3>3. \A q \in Programs \ {p} :
             /\ irp_of[q] # i
             /\ pc[q] \in {"enter", "wait", "release"} => irp'[irp_of[q]] = irp[irp_of[q]]
      BY <1>0, <2>2, <2>3 DEF Holder, Inv, Refs
    <3> QED
      BY <3>1, <3>2, <3>3
  <2>6. ASSUME NEW j \in Irps, irp'[j].frame > 0
        PROVE  \E q \in Programs : irp_of'[q] = j /\ irp'[j].file = FileOf[q]
    <3>1. CASE j = i
      BY <2>2, <2>5, <3>1
    <3>2. CASE j # i
      <4>1. PICK q \in Programs : irp_of[q] = j /\ irp[j].file = FileOf[q]
        BY <2>2, <2>6, <3>2 DEF WaitInv
      <4>2. q # p
        BY <1>0, <2>4, <4>1
      <4> QED
        BY <2>2, <2>5, <3>2, <4>1, <4>2
    <3> QED
      BY <3>1, <3>2
  <2>7. \A j \in Irps : irp'[j].refs > 0 /\ irp'[j].frame = 0 => irp'[j].status # "pending"
    BY <2>2 DEF WaitInv
  <2> QED
    BY <2>1, <2>5, <2>6, <2>7 DEF WaitInv
<1>6. CASE ReleaseIrp(p)
  <2> DEFINE i == irp_of[p]
  <2>1. /\ UNCHANGED <<call, file_event>> /\ pc[p] = "release" /\ irp' = DecRef(i, irp)
        /\ pc' = [pc EXCEPT ![p] = "idle"] /\ irp_of' = [irp_of EXCEPT ![p] = Null]
    BY <1>6 DEF ReleaseIrp, Running, Goto, results
  <2>2. i \in Irps /\ irp[i].frame = 0 /\ Holder(i)
    BY <1>0, <2>1 DEF Inv, Refs, WaitInv, Holder
  <2>3. irp[i].refs > 0
    <3> HIDE DEF i
    <3> QED
      BY <2>2 DEF Inv, Refs
  <2> HIDE DEF i
  <2>4. /\ \A j \in Irps : irp'[j].frame = irp[j].frame
        /\ \A j \in Irps : irp'[j].frame > 0 => irp'[j].file = irp[j].file
        /\ \A j \in Irps : irp'[j].refs > 0 /\ irp'[j].frame = 0 => irp'[j].status # "pending"
    BY <2>1, <2>2, <2>3, DecRefWait
  <2>5. /\ pc'[p] = "idle"
        /\ \A q \in Programs \ {p} :
             /\ pc'[q] = pc[q] /\ irp_of'[q] = irp_of[q]
             /\ pc[q] \in {"enter", "wait", "release"} => irp_of[q] \in Irps
    BY <1>0, <2>1 DEF Inv, Refs
  <2>6. ASSUME NEW j \in Irps, irp'[j].frame > 0
        PROVE  \E q \in Programs : irp_of'[q] = j /\ irp'[j].file = FileOf[q]
    <3>1. PICK q \in Programs : irp_of[q] = j /\ irp[j].file = FileOf[q]
      BY <2>4, <2>6 DEF WaitInv
    <3>2. q # p
      BY <2>2, <2>4, <2>6, <3>1 DEF i
    <3> QED
      BY <2>4, <2>5, <2>6, <3>1, <3>2
  <2> QED
    BY <2>1, <2>4, <2>5, <2>6 DEF WaitInv
<1> QED
  BY <1>1, <1>2, <1>3, <1>4, <1>5, <1>6 DEF ProgramStep

\* The worker's steps wake nobody but the program of the request.
LEMMA WorkerWait ==
    ASSUME OwnFiles, Inv, WaitInv, WorkerStep
    PROVE  WaitInv'
<1>1. UNCHANGED <<pc, call, irp_of>>
  BY DEF WorkerStep, Scan, Sleep, TakeIrp, ProcessStdio, UnregisterWait, ProcessRead,
         RegisterWait, After, programs
<1>2. CASE Scan \/ Sleep \/ TakeIrp \/ UnregisterWait \/ RegisterWait
  BY <1>1, <1>2, WaitKept DEF Scan, Sleep, TakeIrp, UnregisterWait, RegisterWait, requests, results
<1>3. CASE ProcessStdio
  <2>1. wirp \in Irps /\ irp[wirp].frame = 1 /\ irp \in [Irps -> IrpType]
    BY <1>3 DEF ProcessStdio, Working, Inv, TypeOK, WorkerAt
  <2>2. CASE irp[wirp].kind = "read"
    <3>1. irp' = [irp EXCEPT ![wirp].frame = 2] /\ file_event' = file_event
      BY <1>3, <2>2 DEF ProcessStdio, results
    <3>2. /\ irp'[wirp].frame = 2 /\ irp'[wirp].file = irp[wirp].file
          /\ \A j \in Irps \ {wirp} : irp'[j] = irp[j]
      BY <2>1, <3>1 DEF IrpType
    <3>3. \A j \in Irps : /\ irp'[j].frame = 0 <=> irp[j].frame = 0
                          /\ irp'[j].frame > 0 => irp[j].frame > 0 /\ irp'[j].file = irp[j].file
                          /\ irp'[j].frame = 0 => irp'[j] = irp[j]
      BY <2>1, <3>2
    <3>4. \A q \in Programs : pc[q] \in {"enter", "wait", "release"} => irp_of[q] \in Irps
      BY DEF Inv, TypeOK, Refs
    <3> QED
      BY <1>1, <3>1, <3>3, <3>4 DEF WaitInv
  <2>3. CASE irp[wirp].kind # "read"
    BY <1>1, <1>3, <2>1, <2>3, CompleteWait DEF ProcessStdio
  <2> QED
    BY <2>2, <2>3
<1>4. CASE ProcessRead
  <2>1. wirp \in Irps /\ irp[wirp].frame = 2
    BY <1>4 DEF ProcessRead, Working, Inv, TypeOK, WorkerAt
  <2>2. CASE HasKey
    BY <1>1, <1>4, <2>1, <2>2, CompleteWait DEF ProcessRead
  <2>3. CASE ~HasKey
    BY <1>1, <1>4, <2>3, WaitKept DEF ProcessRead, results
  <2> QED
    BY <2>2, <2>3
<1>5. CASE After
  <2>1. wirp \in Irps /\ wpc = "after" /\ file_event' = file_event
    BY <1>5 DEF After, Working, Inv, TypeOK, WorkerAt, results
  <2>2. CASE irp[wirp].frame = 0
    <3>1. irp' = DecRef(wirp, irp) /\ irp[wirp].refs > 0
      BY <1>5, <2>1, <2>2 DEF After, Inv, Refs, Held
    <3>2. /\ \A j \in Irps : irp'[j].frame = irp[j].frame
          /\ \A j \in Irps : irp'[j].frame > 0 => irp'[j].file = irp[j].file
          /\ \A j \in Irps : irp'[j].refs > 0 /\ irp'[j].frame = 0 => irp'[j].status # "pending"
      BY <2>1, <2>2, <3>1, DecRefWait
    <3>3. \A q \in Programs : pc[q] \in {"enter", "wait", "release"} => irp_of[q] \in Irps
      BY DEF Inv, TypeOK, Refs
    <3> QED
      BY <1>1, <2>1, <3>2, <3>3 DEF WaitInv
  <2>3. CASE irp[wirp].frame # 0
    BY <1>1, <1>5, <2>1, <2>3, WaitKept DEF After
  <2> QED
    BY <2>2, <2>3
<1> QED
  BY <1>2, <1>3, <1>4, <1>5 DEF WorkerStep

\* With a file for each program, a synchronous call returns only when its own
\* request is completed: the reset of the event at the start of the call is
\* enough, as nothing of an earlier call can set it again.
THEOREM WaitsForItsOwn == OwnFiles => (Spec => []WaitEndsCompleted)
<1> SUFFICES ASSUME OwnFiles PROVE Spec => []WaitEndsCompleted
  OBVIOUS
<1>1. Init => WaitInv
  <2> SUFFICES ASSUME Init PROVE WaitInv
    OBVIOUS
  <2>1. \A i \in Irps : irp[i].frame = 0 /\ irp[i].refs = 0
    BY DEF Init, FreeIrp
  <2> QED
    BY <2>1 DEF Init, WaitInv
<1>2. Inv /\ WaitInv /\ [Next]_vars => WaitInv'
  <2> SUFFICES ASSUME Inv, WaitInv, [Next]_vars PROVE WaitInv'
    OBVIOUS
  <2>1. CASE UNCHANGED vars
    BY <2>1, WaitKept DEF vars, programs, requests, results
  <2>2. CASE WorkerPreempts \/ (\E e \in {"key", "other"} : HostInput(e)) \/ WaitFires \/ StdinIrq
    BY <2>2, WaitKept DEF WorkerPreempts, HostInput, WaitFires, StdinIrq, programs, requests, results
  <2>3. CASE WorkerStep
    BY <2>3, WorkerWait
  <2>4. ASSUME NEW p \in Programs,
               ProgramStep(p) \/ WaitQueuedIo(p) \/ \E kind \in Calls : Begin(p, kind)
        PROVE  WaitInv'
    BY <2>4, ProgramWait
  <2> QED
    BY <2>1, <2>2, <2>3, <2>4, Zenon DEF Next
<1>3. Inv /\ WaitInv => WaitEndsCompleted
  <2> SUFFICES ASSUME Inv, WaitInv, NEW p \in Programs, pc[p] = "release"
               PROVE  irp[irp_of[p]].status # "pending"
    BY DEF WaitEndsCompleted
  <2>1. irp_of[p] \in Irps /\ Holder(irp_of[p]) /\ irp[irp_of[p]].frame = 0
    BY DEF Inv, TypeOK, Refs, Holder, WaitInv
  <2>2. irp[irp_of[p]].refs > 0
    <3> DEFINE i == irp_of[p]
    <3>1. i \in Irps /\ Holder(i)
      BY <2>1
    <3> HIDE DEF i
    <3>2. irp[i].refs > 0
      BY <3>1 DEF Inv, Refs
    <3> QED
      BY <3>2 DEF i
  <2> QED
    BY <2>1, <2>2 DEF WaitInv
<1> QED
  BY <1>1, <1>2, <1>3, Invariance, PTL DEF Spec

=============================================================================
