----------------------------- MODULE HostSerial -----------------------------
(***************************************************************************)
(* The serial driver of the emulator                                       *)
(* (src/src/os/drivers/serial/host_serial): reads and writes are requests  *)
(* that the IO worker gives to the host (ReadFile, WriteFile) and leaves   *)
(* pending; the host's completion raises an interrupt, whose handler       *)
(* queues the first pending request of that direction again, and the       *)
(* worker then answers it.  All requests of a direction share one          *)
(* irq_overlapped.  The list of devices and its event are module           *)
(* IoRequests' matter: here the worker wakes when a request is queued.     *)
(*                                                                         *)
(* Programs run while the worker sleeps; the host and the interrupts come  *)
(* between any two steps.  A control code is two calls of the host, each   *)
(* in an interrupt lock of its own: other programs run between them.       *)
(***************************************************************************)
EXTENDS Lists, FiniteSets

CONSTANTS Reads, Writes,   \* the requests programs make
          Callers,         \* the programs that make control calls
          Null,            \* nullptr
          Terms,           \* the termios that programs set
          MAXDWORD         \* the largest DWORD, above any timeout in ms

Requests == Reads \cup Writes
Flags == {"PARENB", "PARODD", "CSTOPB", "CCTS_OFLOW", "CRTS_IFLOW"}

Directions == {"rx", "tx"}
Dir(r) == IF r \in Reads THEN "rx" ELSE "tx"

ASSUME SerialAssumption ==
    /\ Reads \cap Writes = {} /\ Null \notin Requests \cup Terms /\ IsFiniteSet(Requests)
    /\ Terms \subseteq [flags : SUBSET Flags, size : 5..8, vmin : 0..255, vtime : 0..255]
    /\ MAXDWORD \in Nat /\ MAXDWORD > 25500

VARIABLES
    status,      \* per request: "idle", "busy", or how it completed
    answer,      \* per request: the request whose transfer it was answered with
    irps,        \* irps_ of the device
    pending,     \* pending_irps_
    wpc, wirp,   \* the worker: process_queued_ios
    overlapped,  \* per direction: rx_overlapped_, tx_overlapped_
    started,     \* per request: its transfers at the host
    irqs,        \* per direction: interrupts posted
    port,        \* the settings of the port: [dcb, timeouts]
    code,        \* per caller: the control call it is in
    kept,        \* per caller: its termios (TCSETS), or the DCB it has read
    overtaken,   \* history: the callers that a TCSETS came in between of
    set_term,    \* history: the termios of the TCSETS that set the port alone
    shared,      \* history: two requests of one direction were outstanding
    halted       \* kassert(irp) of requeue_pending_io failed

serial_vars ==
    <<status, answer, irps, pending, wpc, wirp, overlapped, started, irqs,
      port, code, kept, overtaken, set_term, shared, halted>>

settings == <<port, code, kept, overtaken, set_term>>

(***************************************************************************)
(* TCSETS and TCGETS, of a termios [flags, size, vmin, vtime]              *)
(***************************************************************************)
\* Fault: any timeout waits for the first byte.
SetTimeoutsFault(term) ==
    [interval |-> term.vtime * 100, multiplier |-> 0, constant |-> 0]

\* set_timeouts, in ms.
SetTimeouts(term) ==
    CASE term.vmin = 0 /\ term.vtime # 0 ->
            [interval |-> MAXDWORD, multiplier |-> MAXDWORD, constant |-> term.vtime * 100]
      [] term.vmin = 0 /\ term.vtime = 0 ->
            [interval |-> MAXDWORD, multiplier |-> 0, constant |-> 0]
      [] OTHER -> [interval |-> term.vtime * 100, multiplier |-> 0, constant |-> 0]

\* get_timeouts.
GetTimeouts(timeouts) ==
    IF timeouts.interval = MAXDWORD
    THEN [vmin |-> 0,
          vtime |-> IF timeouts.multiplier = MAXDWORD THEN timeouts.constant \div 100 ELSE 0]
    ELSE [vmin |-> 1, vtime |-> timeouts.interval \div 100]

\* set_parity, set_stopbits, set_bytesize and the flow control.  fOutxCtsFlow
\* has one bit and fRtsControl two: bit 29 of c_cflag leaves 0 in both.
SetDcb(term) ==
    [fParity |-> "PARENB" \in term.flags,
     Parity |-> IF "PARENB" \notin term.flags THEN 0
                ELSE IF "PARODD" \in term.flags THEN 1 ELSE 2,
     StopBits |-> IF "CSTOPB" \in term.flags THEN 2 ELSE 0,
     ByteSize |-> term.size, fOutxCtsFlow |-> 0, fRtsControl |-> 0]

\* get_parity, get_stopbits and the flow control.
GetFlags(dcb) ==
    {x \in Flags :
        \/ x = "PARENB" /\ dcb.fParity
        \/ x = "PARODD" /\ dcb.Parity = 1
        \/ x = "CSTOPB" /\ dcb.StopBits = 2
        \/ x = "CCTS_OFLOW" /\ dcb.fOutxCtsFlow # 0
        \/ x = "CRTS_IFLOW" /\ dcb.fRtsControl # 0}

\* The termios of a DCB and the timeouts.
GetTerm(dcb, timeouts) ==
    [flags |-> GetFlags(dcb), size |-> dcb.ByteSize,
     vmin |-> GetTimeouts(timeouts).vmin, vtime |-> GetTimeouts(timeouts).vtime]

\* The settings that programs give the port.
Dcbs == {SetDcb(term) : term \in Terms}

NoResult == [error |-> "io_pending", of |-> Null]

SerialInit ==
    /\ status = [r \in Requests |-> "idle"]
    /\ answer = [r \in Requests |-> Null]
    /\ irps = <<>> /\ pending = <<>>
    /\ wpc = "sleep" /\ wirp = Null
    /\ overlapped = [d \in Directions |-> NoResult]
    /\ started = [r \in Requests |-> 0]
    /\ irqs = [d \in Directions |-> 0]
    /\ code = [c \in Callers |-> "none"] /\ kept = [c \in Callers |-> Null]
    /\ overtaken = {} /\ set_term \in Terms
    /\ port = [dcb |-> SetDcb(set_term), timeouts |-> SetTimeouts(set_term)]
    /\ shared = FALSE /\ halted = FALSE

(***************************************************************************)
(* Programs and the host                                                   *)
(***************************************************************************)
requests == <<status, answer, irps, pending, wpc, wirp, overlapped, started, irqs,
              shared, halted>>

\* A program can make a host call.
Runs == ~halted /\ wpc = "sleep"

\* The other callers inside a control call.
Others(c) == {k \in Callers \ {c} : code[k] # "none"}

EndCall(c) ==
    /\ code' = [code EXCEPT ![c] = "none"]
    /\ kept' = [kept EXCEPT ![c] = Null]

\* fast_control, TCSETS: GetCommState and SetCommState.  The second writes
\* every field that is modelled, whatever the first has read; if one of them
\* fails, the call ends and has changed nothing.
TcsetsState(c, new) ==
    /\ Runs /\ code[c] = "none"
    /\ port' = [port EXCEPT !.dcb = SetDcb(new)]
    /\ code' = [code EXCEPT ![c] = "TCSETS"]
    /\ kept' = [kept EXCEPT ![c] = new]
    /\ overtaken' = Others(c)
    /\ set_term' = Null
    /\ UNCHANGED requests

\* TCSETS: SetCommTimeouts.
TcsetsTimeouts(c) ==
    /\ Runs /\ code[c] = "TCSETS"
    /\ port' = [port EXCEPT !.timeouts = SetTimeouts(kept[c])]
    /\ EndCall(c)
    /\ overtaken' = Others(c)
    /\ set_term' = IF c \in overtaken THEN Null ELSE kept[c]
    /\ UNCHANGED requests

\* TCGETS: GetCommState.
TcgetsState(c) ==
    /\ Runs /\ code[c] = "none"
    /\ code' = [code EXCEPT ![c] = "TCGETS"]
    /\ kept' = [kept EXCEPT ![c] = port.dcb]
    /\ UNCHANGED <<requests, port, overtaken, set_term>>

\* What a TCGETS that has read the DCB answers if it reads the timeouts now.
TcgetsAnswer(c) == GetTerm(kept[c], port.timeouts)

\* TCGETS: GetCommTimeouts.  The call returns TcgetsAnswer(c), or the error.
TcgetsTimeouts(c) ==
    /\ Runs /\ code[c] = "TCGETS"
    /\ EndCall(c)
    /\ overtaken' = overtaken \ {c}
    /\ UNCHANGED <<requests, port, set_term>>

\* TCSETS: SetCommTimeouts fails, and the DCB stays set.
TcsetsFails(c) ==
    /\ Runs /\ code[c] = "TCSETS"
    /\ EndCall(c)
    /\ overtaken' = overtaken \ {c}
    /\ UNCHANGED <<requests, port, set_term>>

ControlStep(c) ==
    \/ \E new \in Terms : TcsetsState(c, new)
    \/ TcsetsTimeouts(c) \/ TcsetsFails(c) \/ TcgetsState(c) \/ TcgetsTimeouts(c)

\* A program queues a read or a write.
Issue(r) ==
    /\ ~halted /\ wpc = "sleep" /\ status[r] # "busy"
    /\ status' = [status EXCEPT ![r] = "busy"]
    /\ answer' = [answer EXCEPT ![r] = Null]
    /\ irps' = Append(irps, r)
    /\ shared' = (shared \/ \E q \in Requests : Dir(q) = Dir(r) /\ status[q] = "busy")
    /\ UNCHANGED <<settings, pending, wpc, wirp, overlapped, started, irqs, halted>>

\* Fault: the completion of a read raises the interrupt of the writes.
PortIoCompletedFault(r, error) ==
    /\ ~halted /\ started[r] > 0
    /\ started' = [started EXCEPT ![r] = @ - 1]
    /\ overlapped' = [overlapped EXCEPT ![Dir(r)] = [error |-> error, of |-> r]]
    /\ irqs' = [irqs EXCEPT !["tx"] = @ + 1]
    /\ UNCHANGED <<settings, status, answer, irps, pending, wpc, wirp, shared, halted>>

\* port_io_completed, on a thread of the host.
PortIoCompleted(r, error) ==
    /\ ~halted /\ started[r] > 0
    /\ started' = [started EXCEPT ![r] = @ - 1]
    /\ overlapped' = [overlapped EXCEPT ![Dir(r)] = [error |-> error, of |-> r]]
    /\ irqs' = [irqs EXCEPT ![Dir(r)] = @ + 1]
    /\ UNCHANGED <<settings, status, answer, irps, pending, wpc, wirp, shared, halted>>

\* rx_irq_handler, tx_irq_handler: requeue_pending_io.
IrqHandler(d) ==
    LET Mine == {i \in DOMAIN pending : Dir(pending[i]) = d} IN
    /\ ~halted /\ irqs[d] > 0
    /\ irqs' = [irqs EXCEPT ![d] = @ - 1]
    /\ IF Mine # {}
       THEN /\ pending' = RemoveAt(pending, Min(Mine))
            /\ irps' = Append(irps, pending[Min(Mine)])
            /\ UNCHANGED halted
       ELSE halted' = TRUE /\ UNCHANGED <<irps, pending>>
    /\ UNCHANGED <<settings, status, answer, wpc, wirp, overlapped, started, shared>>

(***************************************************************************)
(* The worker: device::process_queued_ios                                  *)
(***************************************************************************)
Wake ==
    /\ ~halted /\ wpc = "sleep" /\ irps # <<>> /\ wpc' = "take"
    /\ UNCHANGED <<settings, status, answer, irps, pending, wirp, overlapped, started, irqs, shared, halted>>

\* The first request, or the end of the loop.
Take ==
    /\ ~halted /\ wpc = "take"
    /\ IF irps = <<>> THEN wpc' = "sleep" /\ UNCHANGED <<irps, wirp>>
       ELSE wpc' = "process" /\ wirp' = Head(irps) /\ irps' = Tail(irps)
    /\ UNCHANGED <<settings, status, answer, pending, overlapped, started, irqs, shared, halted>>

\* process_io: without a result it is a new request for the host, which stays
\* pending.
StartTransfer ==
    /\ ~halted /\ wpc = "process" /\ overlapped[Dir(wirp)] = NoResult
    /\ started' = [started EXCEPT ![wirp] = @ + 1]
    /\ wpc' = "pend"
    /\ UNCHANGED <<settings, status, answer, irps, pending, wirp, overlapped, irqs, shared, halted>>

\* The host refuses the transfer: the request completes with the error.
RefuseTransfer ==
    /\ ~halted /\ wpc = "process" /\ overlapped[Dir(wirp)] = NoResult
    /\ status' = [status EXCEPT ![wirp] = "io_error"]
    /\ wpc' = "take" /\ wirp' = Null
    /\ UNCHANGED <<settings, answer, irps, pending, overlapped, started, irqs, shared, halted>>

\* Fault: the result is left for the next request.
AnswerFault ==
    LET o == overlapped[Dir(wirp)] IN
    /\ ~halted /\ wpc = "process" /\ o # NoResult
    /\ status' = [status EXCEPT ![wirp] = o.error]
    /\ answer' = [answer EXCEPT ![wirp] = o.of]
    /\ wpc' = "take" /\ wirp' = Null
    /\ UNCHANGED <<settings, irps, pending, overlapped, started, irqs, shared, halted>>

\* With a result the request is answered, and the result is gone.
Answer ==
    LET o == overlapped[Dir(wirp)] IN
    /\ ~halted /\ wpc = "process" /\ o # NoResult
    /\ status' = [status EXCEPT ![wirp] = o.error]
    /\ answer' = [answer EXCEPT ![wirp] = o.of]
    /\ overlapped' = [overlapped EXCEPT ![Dir(wirp)] = NoResult]
    /\ wpc' = "take" /\ wirp' = Null
    /\ UNCHANGED <<settings, irps, pending, started, irqs, shared, halted>>

\* queue_pending_io.
QueuePendingIo ==
    /\ ~halted /\ wpc = "pend"
    /\ pending' = Append(pending, wirp)
    /\ wpc' = "take" /\ wirp' = Null
    /\ UNCHANGED <<settings, status, answer, irps, overlapped, started, irqs, shared, halted>>

WorkerStep == Wake \/ Take \/ StartTransfer \/ RefuseTransfer \/ Answer \/ QueuePendingIo

HostStep(r) == \E error \in {"success", "io_error"} : PortIoCompleted(r, error)

SerialNext ==
    \/ \E r \in Requests : Issue(r) \/ HostStep(r)
    \/ \E d \in Directions : IrqHandler(d)
    \/ \E c \in Callers : ControlStep(c)
    \/ WorkerStep

SerialSpec == SerialInit /\ [][SerialNext]_serial_vars

\* The worker runs before any program, interrupts are delivered, and the host
\* ends every transfer (reads end with data, an error or a timeout).
SerialFairSpec ==
    /\ SerialSpec
    /\ WF_serial_vars(WorkerStep)
    /\ \A d \in Directions : WF_serial_vars(IrqHandler(d))
    /\ \A r \in Requests : WF_serial_vars(HostStep(r))

(***************************************************************************)
(* Properties                                                              *)
(***************************************************************************)
SerialTypeOK ==
    /\ status \in [Requests -> {"idle", "busy", "success", "io_error"}]
    /\ answer \in [Requests -> Requests \cup {Null}]
    /\ irps \in Seq(Requests) /\ pending \in Seq(Requests)
    /\ wpc \in {"sleep", "take", "process", "pend"} /\ wirp \in Requests \cup {Null}
    /\ overlapped \in [Directions ->
           [error : {"io_pending", "success", "io_error"}, of : Requests \cup {Null}]]
    /\ started \in [Requests -> Nat] /\ irqs \in [Directions -> Nat]
    /\ code \in [Callers -> {"none", "TCSETS", "TCGETS"}]
    /\ kept \in [Callers -> Terms \cup Dcbs \cup {Null}]
    /\ overtaken \subseteq Callers /\ set_term \in Terms \cup {Null}
    /\ shared \in BOOLEAN /\ halted \in BOOLEAN

Waiting(d) == {r \in ToSet(pending) : Dir(r) = d}

\* The transfers of a direction at the host, numbered per request.
Transfers(d) == UNION {{r} \X (1 .. started[r]) : r \in {q \in Requests : Dir(q) = d}}

\* Every pending request has a transfer at the host or an interrupt on its way,
\* and no interrupt has more than one: also when requests of a direction share
\* the overlapped result, none waits for an interrupt that does not come.
WaitsBacked ==
    ~halted => \A d \in Directions :
        Cardinality(Waiting(d)) + (IF wpc = "pend" /\ Dir(wirp) = d THEN 1 ELSE 0)
        = Cardinality(Transfers(d)) + irqs[d]

\* The assertion of requeue_pending_io fails only for an interrupt that comes
\* before the worker has kept the request it has just started.
HaltsOnlyEarly == halted => wpc = "pend"

\* A request is in one place: queued, at the worker or pending, and only while
\* its program waits.
RequestOnce ==
    \A r \in Requests :
        Cardinality({i \in DOMAIN irps : irps[i] = r})
        + Cardinality({i \in DOMAIN pending : pending[i] = r})
        + (IF wirp = r THEN 1 ELSE 0)
        = (IF status[r] = "busy" THEN 1 ELSE 0)

\* The bookkeeping of the driver: each request in one place, each wait with an
\* interrupt to come, and the assertion out of reach once the request is kept.
SerialInv == SerialTypeOK /\ RequestOnce /\ WaitsBacked /\ HaltsOnlyEarly

\* Until two requests of a direction are outstanding, a request is answered
\* with the result of its own transfer, and no result is left for the next one.
AnswerIsOwn ==
    ~shared => \A r \in Requests :
        /\ status[r] = "success" => answer[r] = r
        /\ overlapped[Dir(r)].of = r => status[r] = "busy"

\* Until then, and unless the assertion fails, every request is answered.
RequestsAnswered ==
    \A r \in Requests : (status[r] = "busy") ~> (status[r] # "busy" \/ shared \/ halted)

\* A TCGETS that no TCSETS overtakes answers what the last TCSETS was given, if
\* that one made its two calls of the host without another's in between: except
\* the two flow control flags, which the fields of the DCB are too narrow to
\* take, an odd parity that is not enabled, and a VMIN above 1.  (Of calls that
\* overlap, or fail half way, the port keeps one's DCB and another's timeouts.)
ControlRoundTrip ==
    \A c \in Callers \ overtaken : code[c] = "TCGETS" /\ set_term # Null =>
        TcgetsAnswer(c) = [set_term EXCEPT
            !.flags = @ \ ({"CCTS_OFLOW", "CRTS_IFLOW"}
                           \cup IF "PARENB" \in @ THEN {} ELSE {"PARODD"}),
            !.vmin = IF @ = 0 THEN 0 ELSE 1]

=============================================================================
