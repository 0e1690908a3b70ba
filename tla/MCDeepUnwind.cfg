CONSTANTS
    Block <- MCBlock
    Null = Null
    previous <- MCprevious
    num <- MCnum
    Witness = {"w1", "w2"}
    witness <- MCwitness
    Tx = {}
    transactions <- MCtransactions
    Requires <- MCNone
    Excludes <- MCNone
    Invalid <- MCTip
    FailsLate = {}
    Missigned = {}
    Own = {}
    OutOfOrder = FALSE
    Recent = TRUE
    MinUndoHistory = 10
    MaxUndoHistory = 10000
    MaxForkSize = 1024
    MaxBlockTxs = 1
    ReadAhead = 20
    Faults = {}
    MaxFaults = 0
SPECIFICATION Spec
INVARIANTS
    FailedPushIsUnwound
