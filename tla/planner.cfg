SPECIFICATION FairSpec
CONSTANTS
  w = w
  r = r
  x = x
  y = y
  e = e
  f = f
  Systems = {w, r}
  Entities = {e, f}
  Stores = {x, y}
  Reads <- MCReads
  Mutates <- MCMutates
  Emits <- MCEmits
  Delta = {w}
  Unbounded = {}
  Batched = {}
  NoMemo = NoMemo
  LogLimit = 1
  MaxRevision = 3
  MaxDisturbances = 1
INVARIANTS
  NoRowForgotten
PROPERTIES
  PhaseEndsClean
  PhaseEnds
