SPECIFICATION Spec
CONSTANTS
  p1 = p1
  p2 = p2
  p3 = p3
  t1 = t1
  t2 = t2
  t3 = t3
  h1 = h1
  h2 = h2
  Null = Null
  Players = {p1, p2}
  QuestionCount = 1
  SpeedPoints = {1}
  PlayerTasks = {t1, t2}
  HostTasks = {h1}
  SlowReveals = TRUE
  Faults = {"redis", "handler", "server"}
SYMMETRY Symmetry
INVARIANTS
  TypeOK
  ScoreNeverAhead
  CachesNeverAhead
