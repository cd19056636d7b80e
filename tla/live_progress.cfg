SPECIFICATION FairSpec
CONSTANTS
  p1 = p1
  p2 = p2
  p3 = p3
  t1 = t1
  t2 = t2
  t3 = t3
  h1 = h1
  h2 = h2
  Null = Null
  Players = {p1}
  QuestionCount = 2
  SpeedPoints = {1}
  PlayerTasks = {t1, t2}
  HostTasks = {h1}
  SlowReveals = FALSE
  Faults = {}
INVARIANTS
  ScoreMatchesAnswers
  QuestionIsTimed
PROPERTIES
  EveryQuestionCloses
