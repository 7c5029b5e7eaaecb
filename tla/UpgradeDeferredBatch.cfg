SPECIFICATION Spec
CONSTANTS
  pg = pg  redis = redis  brew = brew
  Pkgs = {pg, redis}
  Managers = {brew}
  ManagerOf <- MCManagerOf
  BatchManagers = {brew}
  NoVersion = {}
  Services <- MCServices
  Requires <- MCRequires
  Watch <- MCWatch
  IfRunning <- MCIfRunning
  HealthCheck <- MCHealth
  FaultKinds = {}
  MaxVersion = 2
  MaxProbes = 2
  MaxFaults = 1
PROPERTIES
  DeferredIsNotUpgraded
CHECK_DEADLOCK FALSE
