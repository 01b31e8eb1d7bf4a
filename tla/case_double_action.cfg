SPECIFICATION ServiceSpec
CONSTANTS
    Requests = {r1, r2}
    Employees = {rm}
    Keys = {k1, k2}
    NoKey = none
    NoEmployee = none
    NoContent = none
    Payloads = {p}
    NoPayload = none
    Findings <- ApprovalFindings
    Operations = {"create", "approve", "execute"}
    SharedRepository = TRUE
    MaxVersion = 4
    MaxTokens = 2
    MaxEvents = 0
INVARIANT OneActionPerCase
