CONSTANTS
  d1 = d1  d2 = d2
  Deleters = {d1, d2}
  MaxRefs = 1
  MaxSources = 3
  MaxRules = 2
  MaxForms = 2
  MaxDeletes = 2
  MaxImports = 1
  MaxErrors = 1
SPECIFICATION Spec
INVARIANTS RefsKept Pruned
SYMMETRY DeleterSymmetry
CHECK_DEADLOCK FALSE
