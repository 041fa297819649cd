SPECIFICATION Spec
CONSTANTS
    Rows <- MCRows
    Cells <- MCCells
    Planned <- MCPlanned
    SystemOf <- MCSystemOf
    Accesses <- MCAccesses
    Sync <- MCSync
    Maximum = 2
    Workers = 1
    BatchesPerWorker = 1
    MaxTasks = 3
    MaxEvents = 2
    MutatorCells = {"a"}
    ScoopCells <- MCScoop
    CowCells = {"b"}
    None = None
INVARIANTS
    GuardsExact
    ParkedIsBlocked
    ReservationsBacked
    WritesPublished
    NoWaitCycle
PROPERTY
    MutatorServed
CHECK_DEADLOCK FALSE
