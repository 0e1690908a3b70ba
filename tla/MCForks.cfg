CONSTANTS
    Block <- MCBlock
    Null = Null
    previous <- MCprevious
    num <- MCnum
    Witness = {"w1", "w2"}
    witness <- MCwitness
    Tx = {"t1", "t2", "t3"}
    transactions <- MCtransactions
    Requires <- MCRequires
    Excludes <- MCExcludes
    Invalid = {"x5", "m4"}
    FailsLate = {"l5"}
    Missigned = {"m4"}
    Own = {"o4"}
    OutOfOrder = FALSE
    Recent = TRUE
    MinUndoHistory = 10
    MaxUndoHistory = 10000
    MaxForkSize = 1024
    MaxBlockTxs = 1
    ReadAhead = 20
    Faults = {}
    MaxFaults = 0
SPECIFICATION Spec
INVARIANTS
    ForkDatabaseFollowsChain
    FailedPushIsUnwound
    SwitchCanPop
    OldBranchAppliesAgain
    UndoFollowsChain
    PendingSessionMatches
PROPERTIES
    NoTransactionIsLost
