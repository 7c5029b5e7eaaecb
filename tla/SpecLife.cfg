SPECIFICATION Spec
CONSTANTS
    Texts <- AllTexts
    Documents <- AllDocuments
    Profiles <- AllProfiles
    Machines <- TwoMachines
    MaxCommands = 3
    MaxFaults = 1
INVARIANTS
  SnapshotIsFaithful
  ProfileIsAnOverlay
PROPERTIES
  EditIsFaithful
  MigrationIsFaithful
CHECK_DEADLOCK FALSE
