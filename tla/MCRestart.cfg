CONSTANTS
    Block <- MCBlock
    Null = Null
    previous <- MCprevious
    num <- MCnum
    Witness = {"w1", "w2"}
    witness <- MCwitness
    Tx = {"t1"}
    transactions <- MCtransactions
    Requires <- MCNone
    Excludes <- MCNone
    Invalid = {"x5"}
    FailsLate = {}
    Missigned = {}
    Own = {}
    OutOfOrder = FALSE
    Recent = TRUE
    MinUndoHistory = 10
    MaxUndoHistory = 4
    MaxForkSize = 1024
    MaxBlockTxs = 1
    ReadAhead = 2
    Faults = {"crash", "wipe"}
    MaxFaults = 2
SPECIFICATION Spec
INVARIANTS
    DiskHoldsChain
    OpenFailsOnlyOnMixedForks
    IrreversibleIsDurable
    SavedStateStaysOnChain
PROPERTIES
    HandlersEnd
