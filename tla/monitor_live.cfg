SPECIFICATION Spec
CONSTANTS
  a1 = a1
  q1 = q1
  t1 = t1
  Attempts = {a1}
  Quizzes = {q1}
  QuizOf <- OneQuiz
  Tabs = {t1}
  NoQuiz = NoQuiz
  NoAttempt = NoAttempt
  MaxFlags = 2
  MaxEvents = 2
  Faults = {"network", "realtime"}
INVARIANTS
  MonitorInv
  MonitorShowsAttempts
PROPERTIES
  MonitorKeepsFinished
