SPECIFICATION BOSpec
CONSTANTS
  root = root
  rules = rules
  scenes = scenes
  Task = {root, rules, scenes}
  Deps <- Chain
  Place <- InOrder
  ReviewTask = {}
  RunId = {r1, r2}
  NoRun = NoRun
  MaxRevision = 2
  Root = root
  ModelTask = {rules, scenes}
  Openings = {TRUE, FALSE}
  MaxCrashes = 1
CHECK_DEADLOCK FALSE
SYMMETRY RunSymmetry
INVARIANTS
  FreshUnlessOpening
  ReadyAsPublished
  RunsAreOwned
PROPERTIES
  NoRevivalUnlessOpening
  RevisionsNeverGoBack
  StopsForOthers
  EachTaskOnce
