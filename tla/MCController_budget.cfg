\* A lane whose board asks for a continuation for ever, and an operator.
SPECIFICATION FairSpec
CONSTANTS
    dev = dev
    lead = lead
    a = a
    b = b
    c = c
    x = x
    y = y
    op1 = op1
    op2 = op2
    None = None
    Roles = {dev}
    TeamLead = lead
    LeaseIDs = {a, c}
    RoleOf <- MCRoleOf
    TaskOf <- MCTaskOf
    ContinueAfter <- MCContinueAfter
    PlainOf <- MCPlainOf
    UnblockPasses = {}
    MaxFailedSessionRetries = 1
    Operators = {op1}
    Boards <- ContinuationBoard
    MaxLaunches = 4
    MaxCrashes = 0
    MaxFaults = 0
    MaxApprovals = 1
INVARIANTS AttemptBudget
PROPERTIES ApprovedFailureRuns EverySessionReported FailedRunRetried ContinuationRuns
