SPECIFICATION ServiceSpec
CONSTANTS
    Requests = {r1, r2}
    Employees = {rm}
    Keys = {k1}
    NoKey = none
    NoEmployee = none
    NoContent = none
    Payloads = {p}
    NoPayload = none
    Findings <- ReviewFindings
    Operations = {"create", "context", "review"}
    SharedRepository = FALSE
    MaxVersion = 3
    MaxTokens = 1
    MaxEvents = 0
SYMMETRY Symmetry
INVARIANTS
    PendingApprovalJustified
    OverrideCleared
