SPECIFICATION Spec
CONSTANTS
    Rows <- BatchRows
    Cells <- MCCells
    Planned <- BatchPlanned
    SystemOf <- BatchSystemOf
    Accesses <- BatchAccesses
    Sync = {}
    Maximum = 2
    Workers = 1
    BatchesPerWorker = 1
    MaxTasks = 3
    MaxEvents = 1
    MutatorCells = {"a"}
    ScoopCells <- NoScoop
    CowCells = {}
    None = None
INVARIANT
    NoWaitCycle
CHECK_DEADLOCK FALSE
