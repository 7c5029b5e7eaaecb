SPECIFICATION Spec
CONSTANTS
  pg = pg  redis = redis  brew = brew
  Pkgs = {pg, redis}
  Managers = {brew}
  ManagerOf <- MCManagerOf
  BatchManagers = {brew}
  NoVersion = {}
  Services <- MCServices
  Requires <- MCRequires
  Watch <- MCWatch
  IfRunning <- MCIfRunning
  HealthCheck <- MCHealth
  FaultKinds = {"command", "versionQuery", "lockWrite", "lockRead", "record", "stop", "start", "clear", "crash"}
  MaxVersion = 2
  MaxProbes = 2
  MaxFaults = 3
INVARIANTS
  DoneIsTrue
PROPERTIES
  RecordSpansTheGap
  StopsAndStartsInOrder
  RestartsForAReason
CHECK_DEADLOCK FALSE
