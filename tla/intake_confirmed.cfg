SPECIFICATION Spec
CONSTANTS
    Requests = {r1, r2}
    Docs = {d1, d2}
    Claims <- MCClaims
    a = a
    b = b
    Values = {a, b}
    Forms <- MCForms
    None = none
    MaxVersion = 4
    MaxOverwritten = 3
    MaxRuns = 1
SYMMETRY Symmetry
INVARIANTS
    IntakeTypeOK
    CorrectionKept
    DocumentsCounted
    ConflictsSettled
    SnapshotAttested
CHECK_DEADLOCK FALSE
