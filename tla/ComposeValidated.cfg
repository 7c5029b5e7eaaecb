SPECIFICATION Spec
CONSTANTS
    Trees <- AllTrees
    Modes <- ValidateFirst
    MaxDepth = 3
    MaxRegistered = 3
    MaxBytes = 3
INVARIANTS
    AcceptedComposes
CHECK_DEADLOCK FALSE
