SPECIFICATION PlanSpec
CONSTANTS
  Names = {1, 2, 3, 4}
  Lists <- AllLists
  Tombstone = Tombstone  Undeclared = Undeclared
INVARIANTS
  OrdersDependenciesFirst
  CycleIsReported
  FirstOfAllOrders
CHECK_DEADLOCK FALSE
