SPECIFICATION CreditSpec
CONSTANTS
    Calls = {c1, c2}
    RequestIds = {cr1, cr2}
    Customers = {customer}
    NoCustomer = none
    Keys = {k1, k2}
    NoKey = none
    MaxRounds = 3
SYMMETRY Symmetry
INVARIANTS
    RoundsAlternate
    SubmittedOnce
    AcknowledgedTookEffect
PROPERTY DecisionsFinal
