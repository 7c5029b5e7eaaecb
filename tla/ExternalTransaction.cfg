SPECIFICATION Spec
CONSTANTS
  a = a
  b = b
  c = c
  v1 = v1
  v2 = v2
  Paths <- PathsVal
  Protected <- ProtectedVal
  Verifiers <- VerifiersVal
  Recipes <- ArchiveVal
  Feeds <- FeedsTwo
  InitDisks <- InitDisksVal
  UserSays = {0, 1}
  MaxRuns = 2
  MaxFaults = 1
  MaxEdits = 0
INVARIANTS
  InstallsTransactionally
CHECK_DEADLOCK FALSE
