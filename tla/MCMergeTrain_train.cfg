SPECIFICATION Spec
CONSTANTS
  r1 = r1
  r2 = r2
  None = None
  AuthorOf <- Author
  Subjects = {"other"}
  Checked = {"a"}
  LeavesHead = {"branch"}
  Attempts = 2
  MaxFaults = 1
  Roles = {r1, r2}
  Tasks = {"a", "b"}
  Edits = {"a1", "b1"}
  MaxCrashes = 1
  MaxTrouble = 1
SYMMETRY Symmetric
INVARIANT NothingLost
INVARIANT LandedBeforeDone
INVARIANT VerifiedBeforeLanding
INVARIANT OneTaskPerCommit
