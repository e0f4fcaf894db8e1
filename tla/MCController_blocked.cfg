\* A live approval of a blocked result.
SPECIFICATION FairSpec
CONSTANTS
    dev = dev
    lead = lead
    a = a
    b = b
    c = c
    x = x
    y = y
    op1 = op1
    op2 = op2
    None = None
    Roles = {lead}
    TeamLead = lead
    LeaseIDs = {x}
    RoleOf <- MCRoleOf
    TaskOf <- MCTaskOf
    ContinueAfter <- MCContinueAfter
    PlainOf <- MCPlainOf
    UnblockPasses = {}
    MaxFailedSessionRetries = 1
    Operators = {op1}
    Boards <- ConstantBoard
    MaxLaunches = 2
    MaxCrashes = 0
    MaxFaults = 0
    MaxApprovals = 1
PROPERTIES ApprovedRetryRuns
