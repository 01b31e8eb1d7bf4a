SPECIFICATION PlaneSpec
CONSTANTS
    rule = rule
    note = note
    page = page
    Seeds = {rule}
    Contributions = {note}
    Uploads = {page}
    Slot <- MCSlot
    a = a
    b = b
    Texts = {a, b}
    SeedText = a
    Branches = {hn}
    Editors = {e1, e2}
    Bodies <- MCBodies
    Everywhere = everywhere
    None = none
    MaxVersion = 3
    MaxDay = 1
    MaxEdits = 3
    Sources = {prod, legal}
    Commands = {cli}
    Server = server
    Nobody = nobody
    AutoSeed = TRUE
    MaxRevision = 2
    MaxFileEdits = 1
    MaxRuns = 2
    MaxCalls = 2
INVARIANTS
    PlaneTypeOK
    NewestCurrent
    ConflictDisclosed
    PublishedWhole
    AnswerAccounted
CHECK_DEADLOCK FALSE
SYMMETRY Symmetry
