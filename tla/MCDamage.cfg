CONSTANTS
    Block <- MCBlock
    Null = 0
    previous <- MCprevious
    num <- MCnum
    Witness = {0, 1}
    witness <- MCwitness
    Tx = {}
    transactions <- MCtransactions
    Requires <- MCNone
    Excludes <- MCNone
    Invalid = {}
    FailsLate = {}
    Missigned = {}
    Own = {}
    OutOfOrder = FALSE
    Recent = TRUE
    MinUndoHistory = 10
    MaxUndoHistory = 3
    MaxForkSize = 1024
    MaxBlockTxs = 1
    ReadAhead = 3
    Faults = {"damage", "wipe"}
    MaxFaults = 2
SPECIFICATION Spec
INVARIANTS
    OpenFailsOnlyOnBrokenFiles
