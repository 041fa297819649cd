SPECIFICATION Spec
CONSTANTS
  data = data
  out = out
  ref = ref
  refs = refs
  anchors = anchors
  single = single
  lint = lint
  link = link
  prune = prune
  reap = reap
  mark = mark
  None = None
  Components = {data, out, ref, refs, anchors, single}
  Entities = {1, 2, 3, 4, 5, 6}
  Tracked = {data, out, ref, refs}
  Hashed = {data, out, ref, refs, anchors}
  Universe = {data, out, ref}
  InverseOf <- MCInverseOf
  Singletons = {single}
  Anchored = anchors
  Systems = {lint, link, prune, reap, mark}
  PairBound = {link}
  SettleSystems = {reap, mark}
  Reads <- MCReads
  JoinEdge = ref
  Bodies <- MCBodies
  Inputs <- MCInputs
  Bound = {2}
  InitWorld <- MCInitWorld
  MaxInputs = 1
  MaxRuns = 6
INVARIANTS
  IndexesExact
  PairOutputsLive
  SingletonUnique
PROPERTIES
  MemoDescribesOutput
  
  SpawnsKeepIdentity
CHECK_DEADLOCK FALSE
