---------------------------- MODULE MCHostSerial ----------------------------
(***************************************************************************)
(* The instance of HostSerial for TLC: terminal settings that take every   *)
(* branch of the conversions.                                              *)
(***************************************************************************)
EXTENDS HostSerial

CONSTANT Beside   \* the requests that are made beside control calls

Term(fs, n, min, time) == [flags |-> fs, size |-> n, vmin |-> min, vtime |-> time]

MCTerms == {Term({"PARENB", "PARODD", "CCTS_OFLOW"}, 5, 0, 0),
            Term({"PARENB", "CRTS_IFLOW"}, 6, 0, 255),
            Term({"PARODD", "CSTOPB"}, 7, 1, 0),
            Term({}, 8, 255, 255)}

\* A bound on the product of two parts that share no variable: a control call
\* begins, and the port has a mixed setting, only while no request outside
\* Beside has been made.  It holds back only steps that programs choose to take.
ControlBeside ==
    set_term' = Null \/ (\E c \in Callers : code'[c] # "none") =>
        {r \in Requests : status'[r] # "idle"} \subseteq Beside

=============================================================================
