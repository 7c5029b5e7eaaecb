SPECIFICATION Spec
CONSTANTS
  apt = apt  brew = brew  a = a  b = b  p1 = p1  p2 = p2  None = None
  Ids = {a, b}  Managers = {apt}  Versions = {"v1"}  Listers = {apt}
  Registry <- AptOnly  Fallback = {apt}  Available = {apt}
  Procs = {p1, p2}  Targets = {"t1"}  Packages <- PlainOnly
  Kinds = {"add"}
  Faults = {}
  MaxCommands = 2  MaxFaults = 0
INVARIANTS AddedIsRecorded
CHECK_DEADLOCK FALSE
