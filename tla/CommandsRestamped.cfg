SPECIFICATION Spec
CONSTANTS
  apt = apt  brew = brew  a = a  b = b  p1 = p1  p2 = p2  None = None
  Ids = {a, b}  Managers = {apt}  Versions = {"v1"}  Listers = {apt}
  Registry <- AptOnly  Fallback = {apt}  Available = {apt}
  Procs = {p1}  Targets = {"t1", "t2"}  Packages <- PlainOnly
  Kinds = {"add", "apply"}
  Faults = {}
  MaxCommands = 3  MaxFaults = 0
PROPERTIES OtherTargetsAreSafe
CHECK_DEADLOCK FALSE
