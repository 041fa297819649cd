SPECIFICATION FairSpec
CONSTANTS
  Callers = {c1}
  TakeCallers = {}
  Inserts = {}
  PreemptInserts = {p1}
  Muts = {m1}
  DeferredMuts = {d1}
  NoCaller = NoCaller
  HasHooks = FALSE
  HasSettlePhase = TRUE
  HasViews = FALSE
  PreemptionBudget = 1
  MaxCommits = 1
  MaxGenerations = 9
  MaxCalls = 1
  MaxCancels = 0
PROPERTIES
  SettleReturns
  WritesLand
