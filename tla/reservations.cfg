SPECIFICATION Spec
CONSTANTS
  Owners = {o1, o2, o3}
  c = c
  e = e
  f = f
  Components = {c}
  Entities = {e, f}
  Whole = Whole
  NoOwner = NoOwner
  Requests <- MCRequests
  MaxSlots = 3
  MaxGeneration = 1
INVARIANTS
  AdmittedNeverConflict
  IndexMatchesOracle
  CompletionsValid
  RetiredStaysRetired
PROPERTIES
  ImplementsRowLocks
