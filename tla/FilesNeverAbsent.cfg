SPECIFICATION Spec
CONSTANTS
  dir = dir  child = child  rc = rc  tpl = tpl  sdir = sdir  schild = schild
  s1 = s1  s2 = s2  stpl = stpl
  Targets = {dir, child, rc, tpl}
  Sources = {schild, s1, s2, stpl}
  Dir = dir  Child = child  SrcDir = sdir  SrcChild = schild
  Specs <- MCSpecs
  InitTrees <- MCInitTrees
  Slots = 3
  MaxRuns = 2  MaxAdopts = 1  MaxFaults = 1  MaxEdits = 1  MaxEvents = 2
INVARIANT
  NeverAbsent
CHECK_DEADLOCK FALSE
