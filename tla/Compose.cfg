SPECIFICATION Spec
CONSTANTS
    Trees <- AllTrees
    Modes <- AllModes
    MaxDepth = 3
    MaxRegistered = 3
    MaxBytes = 3
INVARIANTS
  SelectsTheClosure
  ComposesTheUnion
  ValidatedCanBeApplied
CHECK_DEADLOCK FALSE
