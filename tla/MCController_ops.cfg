\* A lane and the Team Lead, whose coordination may block, and an operator.
SPECIFICATION Spec
CONSTANTS
    dev = dev
    lead = lead
    a = a
    b = b
    c = c
    x = x
    y = y
    op1 = op1
    op2 = op2
    None = None
    Roles = {dev, lead}
    TeamLead = lead
    LeaseIDs = {a, x, y}
    RoleOf <- MCRoleOf
    TaskOf <- MCTaskOf
    ContinueAfter <- MCContinueAfter
    PlainOf <- MCPlainOf
    UnblockPasses = {y}
    MaxFailedSessionRetries = 0
    Operators = {op1}
    Boards <- AnyBoard
    MaxLaunches = 2
    MaxCrashes = 1
    MaxFaults = 1
    MaxApprovals = 1
INVARIANTS NoLaunchOverHeldRole WorkerHoldsLease OneWorkerPerRole SessionOwnsLease
PROPERTY LeaseDiscipline
