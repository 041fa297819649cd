SPECIFICATION Spec
CONSTANTS
  Callers = {c1, c2}
  TakeCallers = {c2}
  Inserts = {i1}
  PreemptInserts = {}
  Muts = {m1}
  DeferredMuts = {}
  NoCaller = NoCaller
  HasHooks = FALSE
  HasSettlePhase = FALSE
  HasViews = FALSE
  PreemptionBudget = 1
  MaxCommits = 2
  MaxGenerations = 4
  MaxCalls = 2
  MaxCancels = 0
INVARIANTS
  CleanIsFixpoint
  DriverAlive
  WaiterHasDriver
  MutatorHasWaker
