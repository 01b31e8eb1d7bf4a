SPECIFICATION ServiceSpec
CONSTANTS
    Requests = {r1, r2}
    Employees = {rm}
    Keys = {k1, k2}
    NoKey = none
    NoEmployee = none
    NoContent = none
    Payloads = {p, q}
    NoPayload = none
    Findings <- ApprovalFindings
    Operations = {"create", "resume", "approve", "execute", "elsewhere"}
    SharedRepository = FALSE
    MaxVersion = 4
    MaxTokens = 2
    MaxEvents = 0
SYMMETRY Symmetry
INVARIANTS
    OneActionPerApproval
    ApprovalBacked
PROPERTY ResultsAndTokensKept
