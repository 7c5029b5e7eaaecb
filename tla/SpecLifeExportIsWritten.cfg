SPECIFICATION Spec
CONSTANTS
    Texts <- AllTexts
    Documents <- AllDocuments
    Profiles <- AllProfiles
    Machines <- TwoMachines
    MaxCommands = 3
    MaxFaults = 1
PROPERTY ExportIsWritten
CHECK_DEADLOCK FALSE
