SPECIFICATION Spec
CONSTANTS
    Trees <- AllTrees
    Modes <- ApplyOnly
    MaxDepth = 3
    MaxRegistered = 3
    MaxBytes = 3
INVARIANTS
    IdenticalCoalesce
CHECK_DEADLOCK FALSE
