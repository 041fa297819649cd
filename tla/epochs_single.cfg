SPECIFICATION Spec
CONSTANTS
  Callers = {c1}
  TakeCallers = {}
  Inserts = {i1}
  PreemptInserts = {}
  Muts = {m1}
  DeferredMuts = {}
  NoCaller = NoCaller
  HasHooks = TRUE
  HasSettlePhase = TRUE
  HasViews = TRUE
  PreemptionBudget = 1
  MaxCommits = 3
  MaxGenerations = 8
  MaxCalls = 2
  MaxCancels = 0
INVARIANTS
  ReadYourWrites
  StartupFirst
  SettledIsFixpoint
PROPERTY
  HealedBeforeSettled
