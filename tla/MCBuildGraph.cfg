SPECIFICATION Spec
CONSTANTS
  root = root
  rules = rules
  final = final
  Task = {root, rules, final}
  Deps <- MCDeps
  ReviewTask = {rules}
  RunId = {r1, r2}
  NoRun = NoRun
  MaxRevision = 2
SYMMETRY RunSymmetry
CHECK_DEADLOCK FALSE
INVARIANTS
  TypeOK
  OneWriterPerTask
  NoLostRevision
  UsableIsFresh
  NoTaskLeftBlocked
PROPERTIES
  StaleNeedsNewRevision
  ImplementsPlan
