SPECIFICATION WBSpec
CONSTANTS
  root = root
  rules = rules
  scenes = scenes
  places = places
  Task = {root, rules, scenes}
  Deps <- Chain
  ReviewTask = {}
  RunId = {r1, r2}
  NoRun = NoRun
  MaxRevision = 2
  Root = root
  ModelTask = {rules, scenes}
  Openings = {TRUE}
  MaxCrashes = 0
CHECK_DEADLOCK FALSE
SYMMETRY RunSymmetry
PROPERTY StaleNeedsNewRevision
