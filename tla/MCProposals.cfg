CONSTANTS
    Account = {"a", "b"}
    Creations <- MCNested
    MaxProposals = 3
    MaxOperations = 1
    MaxTime = 2
    Operations <- MCOperations
    MaxNesting = 2
SPECIFICATION HSpec
INVARIANTS
    RunningProposalsAreApproved
    NoReentry
    ReviewFreezesApprovals
    IndexHasNoStrangers
PROPERTY ExecutionEnds
