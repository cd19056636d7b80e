SPECIFICATION Spec
CONSTANTS
  r1 = r1
  r2 = r2
  r3 = r3
  a1 = a1
  a2 = a2
  a3 = a3
  q1 = q1
  q2 = q2
  s1 = s1
  s2 = s2
  Null = Null
  Students = {s1}
  Attempts = {a1, a2, a3}
  Questions = {q1, q2}
  Requests = {r1}
  Kind <- MCMixed
  Points <- MCOnePoint
  PerAttempt = 1
  MaxAttempts = 2
  PassingScore = 50
  Ops = {"start", "save", "violation", "unlock", "submit", "grade"}
  Drafts = {"right", "wrong"}
  Awards = {0, 2}
SYMMETRY Symmetry
INVARIANTS
  TypeOK
  ScoreMatchesAnswers
  PassedMatchesScore
  AttemptsWithinLimit
  AuditMatchesLock
