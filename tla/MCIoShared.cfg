SPECIFICATION Spec
CONSTANTS
    Programs = {p1, p2}
    Files = {f}
    FileOf <- SharedStdio
    Calls = {"read", "async", "control"}
    Irps = {i1, i2}
    Null = Null
    MaxEvents = 1
SYMMETRY Symmetry
INVARIANTS
    IoInv
    NoForgottenWork
    RefsBalanced
    AsyncDeliveredOnce
CHECK_DEADLOCK FALSE
