SPECIFICATION Spec
CONSTANTS
  Callers = {c1, c2}
  TakeCallers = {c2}
  Inserts = {i1, i2}
  PreemptInserts = {p1}
  Muts = {}
  DeferredMuts = {}
  NoCaller = NoCaller
  HasHooks = FALSE
  HasSettlePhase = FALSE
  HasViews = FALSE
  PreemptionBudget = 1
  MaxCommits = 0
  MaxGenerations = 4
  MaxCalls = 2
  MaxCancels = 1
SYMMETRY InsertSymmetry
INVARIANTS
  TargetMaterializes
  AcceptedInputsKept
  SingleFlight
PROPERTY
  EpochIsFrozen
CHECK_DEADLOCK FALSE
