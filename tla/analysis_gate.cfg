SPECIFICATION Spec
CONSTANTS
    loan = loan
    cash = cash
    kyc = kyc
    handbook = handbook
    registration = registration
    revenue = revenue
    ubo = ubo
    Products = {loan, cash}
    Credit = {loan}
    Rules = {registration, revenue, ubo}
    Rule <- MCRule
    Fields <- MCFields
    Values <- MCValues
    Correctable = {"annual_revenue", "ubo_status"}
    ProductMatch = {"annual_revenue"}
    DocTypes = {"business_registration", "ubo_information"}
    DocStatuses = {"absent", "verified", "expired"}
    Cases <- MCCases
    Sources = {kyc, handbook}
    Until <- MCUntil
    Unknown = Unknown
    TopK = 2
    MaxLoops = 1
    MaxDay = 1
    MaxEdits = 1
    MaxCalls = 4
INVARIANTS
    AnalysisTypeOK
    ApprovalGrounded
    VerdictCurrent
    BlockNotLaundered
    WaitingIsAsked
CHECK_DEADLOCK FALSE
