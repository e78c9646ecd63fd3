SPECIFICATION Spec
CONSTANTS
    Nodes <- MCNodes
    Heads <- MCHeads
    Null = Null
INVARIANTS
    ListInv
    QueriesAgree
PROPERTIES
    OperationsPlace
    ImplementsSequences
