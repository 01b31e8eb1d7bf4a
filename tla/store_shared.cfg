\* One V2Repository for all requests: create_router(repository=...).
SPECIFICATION StoreSpec
CONSTANTS
    Requests = {r1, r2, r3}
    Contents = {a, b}
    NoContent = none
    SharedRepository = TRUE
    MaxVersion = 4
    MaxEvents = 4
SYMMETRY RequestSymmetry
INVARIANTS
    ChainIntact
PROPERTIES
    NoLostUpdate
    ImplementsLedger
