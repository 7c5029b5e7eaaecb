SPECIFICATION Spec
CONSTANTS
  a = a
  b = b
  c = c
  v1 = v1
  v2 = v2
  Paths <- PathsVal
  Protected <- ProtectedVal
  Verifiers <- VerifiersVal
  Recipes <- RecipesVal
  Feeds <- FeedsVal
  InitDisks <- InitDisksVal
  UserSays = {0, 1}
  MaxRuns = 3
  MaxFaults = 1
  MaxEdits = 1
INVARIANTS
  FailureIsUndone
  OnlyVouchedFor
  ReceiptIsTrue
CHECK_DEADLOCK FALSE
