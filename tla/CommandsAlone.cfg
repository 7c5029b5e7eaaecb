SPECIFICATION Spec
CONSTANTS
  apt = apt  brew = brew  a = a  b = b  p1 = p1  p2 = p2  None = None
  Ids = {a}  Managers = {apt, brew}  Versions = {"v1", "v2"}  Listers = {apt}
  Registry <- AptOnly  Fallback = {}  Available = {apt}
  Procs = {p1}  Targets = {"t1", "t2"}  Packages <- Offered
  Kinds = {"add", "remove", "apply", "forced", "upgrade"}
  Faults = {"crash", "edit", "install", "lockfile", "hand", "uninstall"}
  MaxCommands = 3  MaxFaults = 3
INVARIANTS
  ApplyIsTrue
PROPERTIES
  ApplyResumes
CHECK_DEADLOCK FALSE
