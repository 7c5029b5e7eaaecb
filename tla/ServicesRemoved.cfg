CONSTANTS
  Texts <- MCTexts
  NameOrder <- MCNameOrder
  Renamed <- MCRenamed
  Formulas = {"postgres"}
  UnitLabels = {"web", "other"}
  Base <- MCBase
  Sources <- MCSources
  Rendered <- MCRendered
  Absolute = {"job"}
  Declarations <- MCDeclarations
  Platforms = {"systemd"}
  FirstSpecs <- MCFirstSpecs
  FirstTemplates <- MCFirstTemplates
  MaxRuns = 2
  MaxFailures = 0
  MaxEdits = 1
SPECIFICATION ServicesSpec
PROPERTIES
  RemovedIsUnloaded
CHECK_DEADLOCK FALSE
