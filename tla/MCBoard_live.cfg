SPECIFICATION LiveSpec
CONSTANTS
  p1 = p1
  p2 = p2
  None = None
  TaskIds = {"a", "b", "c"}
  Roles = {"one"}
  Branches = {"none", "topic"}
  Leases = {"lease"}
  Bodies = {"full", "partial"}
  CompleteBodies = {"full"}
  Procs = {p1, p2}
  Commands <- LiveCommands
  Boards <- LiveBoards
  Edits <- DropOrPaste
  MaxEdits = 1
  MaxFaults = 1
  MaxCrashes = 1
PROPERTY MovesComplete
