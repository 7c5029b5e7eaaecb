SPECIFICATION LiveSpec
CONSTANTS
  apt = apt  brew = brew  a = a  b = b  p1 = p1  p2 = p2  None = None
  Ids = {a}  Managers = {apt}  Versions = {"v1"}  Listers = {apt}
  Registry <- AptOnly  Fallback = {apt}  Available = {apt}
  Procs = {p1, p2}  Targets = {"t1"}  Packages <- PlainOnly
  Kinds = {"add", "adopt", "remove", "disown", "scan", "apply", "upgrade"}
  Faults = {"install", "uninstall", "crash", "lockfile", "specfile"}
  MaxCommands = 3  MaxFaults = 1
PROPERTIES CommandsEnd
CHECK_DEADLOCK FALSE
