SPECIFICATION PlanSpec
CONSTANTS
  Names = {1, 2}
  Lists <- ShortLists
  Tombstone = Tombstone  Undeclared = Undeclared
INVARIANTS TombstoneIsNoError
CHECK_DEADLOCK FALSE
