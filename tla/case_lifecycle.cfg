SPECIFICATION ServiceSpec
CONSTANTS
    Requests = {r1}
    Employees = {rm}
    Keys = {k1}
    NoKey = none
    NoEmployee = none
    NoContent = none
    Payloads = {p, q}
    NoPayload = none
    Findings <- LifecycleFindings
    Operations = {"create", "message", "documents", "context", "resume",
                  "sales_analysis", "reject", "sales_reject", "review",
                  "approve", "sales_approve", "execute",
                  "sales_execute"}
    SharedRepository = FALSE
    MaxVersion = 5
    MaxTokens = 1
    MaxEvents = 1
SYMMETRY Symmetry
PROPERTY ActionOnlyOnPendingCase
