CONSTANTS
  p1 = p1
  p2 = p2
  p3 = p3
  p4 = p4
  p5 = p5
  p6 = p6
  p7 = p7
  d1 = d1
  d2 = d2
  d3 = d3
  Paths = {p1, p2, p3, p4, p5, p6, p7}
  Dirs = {d1, d2, d3}
  NoPriority = NoPriority
  MaxPriority = 3
  MaxCycles = 3
  PathRank <- MC_PathRank
  ExtDirs <- MC_ExtDirs
  IsDir <- MC_IsDir
  DirFiles <- MC_DirFiles
  Kind <- MC_Kind
  Priority <- MC_Priority

SPECIFICATION Spec
\* The memory stops after its last shutdown; MaxCycles bounds the cycles.
CHECK_DEADLOCK FALSE

INVARIANT TypeOK
INVARIANT ModuleCallsNested
INVARIANT InitInPriorityOrder
