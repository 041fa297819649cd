CONSTANTS
    Components = {"K", "L", "V", "M", "E", "R", "D"}
    Entities = {1, 2, 3}
    Tracked = {"K", "L", "V", "E", "R", "D"}
    Hashed = {"K", "L", "E", "R"}
    Universe = {"K", "V", "M"}
    InverseOf <- MCInverseOf
    Singletons = {}
    Anchored = "D"
    None = None
    Plans <- ChainPlans
    InitWorld <- MCInit
    Writes <- MCWrites
    MaxWrites = 2
SPECIFICATION Spec
INVARIANTS NoRowMissed
CHECK_DEADLOCK FALSE
