CONSTANTS
  Documents <- MCDocuments
  Hosts <- MCHosts
  FirstHosts <- MCFirstHosts
  FirstSpecs <- MCFirstSpecs
  FirstRcs <- MCFirstRcs
  NoShell = NoShell
  Absent = Absent
  MaxRuns = 3
  MaxFaults = 1
  MaxEdits = 2
SPECIFICATION Spec
INVARIANTS
  NewShellsSeeSpec
PROPERTIES
  RecordedWasWritten
  BlockIsAllThatChanges
CHECK_DEADLOCK FALSE
