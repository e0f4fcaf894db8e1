SPECIFICATION Spec
CONSTANTS
  p1 = p1
  p2 = p2
  None = None
  TaskIds = {"a", "b", "c"}
  Roles = {"one", "two"}
  Branches = {"none", "topic"}
  Leases = {"lease"}
  Bodies = {"full", "partial"}
  CompleteBodies = {"full"}
  Procs = {p1, p2}
  Commands <- LanesCommands
  Boards <- LanesBoards
  Edits <- NoEdits
  MaxEdits = 0
  MaxFaults = 1
  MaxCrashes = 1
SYMMETRY Symmetric
INVARIANT OneTaskPerLane
INVARIANT DependenciesFirst
PROPERTY DoneReadIsFinal
