CONSTANTS
  Texts <- MCTexts
  NameOrder <- MCNameOrder
  Renamed <- MCRenamed
  Formulas = {"postgres"}
  UnitLabels = {"web", "other"}
  Base <- MCBase
  Sources <- MCSources
  Rendered <- MCRendered
  Absolute = {"job"}
  Declarations <- MCDeclarations
  Platforms = {"systemd", "darwin", "windows", "bare"}
  FirstSpecs <- MCFirstSpecs
  FirstTemplates <- MCFirstTemplates
  MaxRuns = 3
  MaxFailures = 1
  MaxEdits = 2
SPECIFICATION ServicesSpec
INVARIANTS
  ApplyIsTrue
PROPERTIES
  TouchesOnlyWhatIsDue
  AnswersAreTrue
CHECK_DEADLOCK FALSE
