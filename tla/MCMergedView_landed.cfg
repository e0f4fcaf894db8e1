SPECIFICATION FairViewSpec
CONSTANTS
  r1 = r1
  r2 = r2
  None = None
  AuthorOf <- Author
  Subjects = {"other"}
  Checked = {"a"}
  LeavesHead = {"branch"}
  Attempts = 2
  ScanDepth = 3
  MaxFaults = 1
  Roles = {r1}
  Tasks = {"a"}
  Edits = {"a1", "a2"}
  MaxOthers = 1
  MaxCrashes = 1
  MaxTrouble = 2
PROPERTY LandedIsSeen
PROPERTY FalseClaimFound
PROPERTY LandingEnds
