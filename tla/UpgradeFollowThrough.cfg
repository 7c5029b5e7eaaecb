SPECIFICATION FairSpec
CONSTANTS
  pg = pg  redis = redis  brew = brew
  Pkgs = {pg, redis}
  Managers = {brew}
  ManagerOf <- MCManagerOf
  BatchManagers = {}
  NoVersion = {}
  Services <- MCServices
  Requires <- MCRequires
  Watch <- MCWatch
  IfRunning <- MCIfRunning
  HealthCheck <- MCHealth
  FaultKinds = {"lockRead", "stop", "start", "clear"}
  MaxVersion = 3
  MaxProbes = 2
  MaxFaults = 1
INVARIANTS
  FailureExitsNonZero
PROPERTIES
  DeferredIsNotUpgraded
  FollowsThrough
  RunEnds
CHECK_DEADLOCK FALSE
