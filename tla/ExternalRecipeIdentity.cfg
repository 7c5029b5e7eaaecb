SPECIFICATION Spec
CONSTANTS
  a = a
  b = b
  c = c
  v1 = v1
  v2 = v2
  Paths <- PathsVal
  Protected <- ProtectedVal
  Verifiers <- VerifiersVal
  Recipes <- TemplatedVal
  Feeds <- FeedsTwo
  InitDisks <- InitDisksVal
  UserSays = {0, 1}
  MaxRuns = 2
  MaxFaults = 0
  MaxEdits = 0
INVARIANTS
  RecipeIdentityIsKept
CHECK_DEADLOCK FALSE
