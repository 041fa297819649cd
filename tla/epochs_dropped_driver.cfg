SPECIFICATION Spec
CONSTANTS
  Callers = {c1}
  TakeCallers = {}
  Inserts = {}
  PreemptInserts = {}
  Muts = {}
  DeferredMuts = {}
  NoCaller = NoCaller
  HasHooks = FALSE
  HasSettlePhase = FALSE
  HasViews = FALSE
  PreemptionBudget = 1
  MaxCommits = 0
  MaxGenerations = 3
  MaxCalls = 2
  MaxCancels = 1
INVARIANT
  DriverAlive
CHECK_DEADLOCK FALSE
