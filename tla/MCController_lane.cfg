\* One lane, two assignments that alternate: crashes, failed commits, recovery.
SPECIFICATION Spec
CONSTANTS
    dev = dev
    lead = lead
    a = a
    b = b
    c = c
    x = x
    y = y
    op1 = op1
    op2 = op2
    None = None
    Roles = {dev}
    TeamLead = lead
    LeaseIDs = {a, b}
    RoleOf <- MCRoleOf
    TaskOf <- MCTaskOf
    ContinueAfter <- MCContinueAfter
    PlainOf <- MCPlainOf
    UnblockPasses = {}
    MaxFailedSessionRetries = 1
    Operators = {}
    Boards <- AnyBoard
    MaxLaunches = 4
    MaxCrashes = 1
    MaxFaults = 1
    MaxApprovals = 0
INVARIANTS TypeOK OwnCommitsAccepted
PROPERTIES AttemptCountRetained CompletedNotRerun
SYMMETRY Assignments
