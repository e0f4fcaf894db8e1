SPECIFICATION Spec
CONSTANTS
  p1 = p1
  p2 = p2
  None = None
  TaskIds = {"a", "b", "c"}
  Roles = {"one", "two"}
  Branches = {"none", "topic"}
  Leases = {"lease"}
  Bodies = {"full", "partial"}
  CompleteBodies = {"full"}
  Procs = {p1, p2}
  Commands <- DoubledCommands
  Boards <- DoubledBoards
  Edits <- NoEdits
  MaxEdits = 0
  MaxFaults = 0
  MaxCrashes = 0
SYMMETRY Symmetric
PROPERTY ConcatenationRepaired
