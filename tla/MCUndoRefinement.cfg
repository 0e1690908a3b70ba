CONSTANTS
    Index = {bal}
    Value = {v1, v2}
    Absent = Absent
    MaxInstances = 2
    MaxSizes = {0, 2, 3}
    MaxSessions = 3
    MaxStack = 3
SPECIFICATION HSpec
CONSTRAINT StackBound
INVARIANTS
    UndoInv
    UndoNeverFails
PROPERTY ImplementsSnapshots
