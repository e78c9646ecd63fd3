SPECIFICATION SerialFairSpec
CONSTANTS
    Reads = {r1, r2}
    Writes = {w1}
    Callers = {p1, p2}
    Null = null
    Terms <- MCTerms
    MAXDWORD = 65535
    Beside = {r1}
ACTION_CONSTRAINT ControlBeside
CHECK_DEADLOCK FALSE
INVARIANTS
    SerialInv
    AnswerIsOwn
    ControlRoundTrip
PROPERTIES
    RequestsAnswered
