SPECIFICATION Spec
CONSTANTS
    Requests = {q1, q2, q3}
    Specialists <- MCSpecialists
    Habits = {h1}
    Traffic = {"case", "personal"}
    MaxVersion = 3
    None = nil
SYMMETRY RequestSymmetry
INVARIANTS
    WorkspaceTypeOK
    OutcomeTold
    NotificationTrue
    ContextConsented
CHECK_DEADLOCK FALSE
