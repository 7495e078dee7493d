CONSTANTS
  p1 = p1
  p2 = p2
  d1 = d1
  A1 = A1
  A2 = A2
  Paths = {p1, p2}
  Dirs = {d1}
  NoPriority = NoPriority
  MaxPriority = 1
  MaxCycles = 2
  Agents = {A1, A2}
  Initiated = Initiated
  EmptyClass = EmptyClass
  MaxRegistrations = 4
  PathRank <- MC_PathRank
  ExtDirs <- MC_ExtDirs
  IsDir <- MC_IsDir
  DirFiles <- MC_DirFiles
  Kind <- MC_Kind
  Priority <- MC_Priority
  AgentOf <- MC_AgentOf

SPECIFICATION Spec
\* The memory stops after its last shutdown; MaxCycles bounds the cycles.
CHECK_DEADLOCK FALSE

INVARIANT ModuleAgentsSubscribed
