SPECIFICATION FairSpec
CONSTANTS
  Procs = {p1, p2, p3}
  Inodes = {i1, i2, i3}
  NoInode = NoInode
  MaxFailures = 2
INVARIANTS
  MutualExclusion
  NoLeftoverSidecar
PROPERTIES
  RefinesMutex
  Progress
