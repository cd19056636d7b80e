SPECIFICATION Spec
CONSTANTS
  r1 = r1
  r2 = r2
  r3 = r3
  a1 = a1
  a2 = a2
  a3 = a3
  q1 = q1
  q2 = q2
  s1 = s1
  s2 = s2
  Null = Null
  Students = {s1}
  Attempts = {a1}
  Questions = {q1, q2}
  Requests = {r1, r2}
  Kind <- MCCodeAndEssay
  Points <- MCOnePoint
  PerAttempt = 2
  MaxAttempts = 1
  PassingScore = 50
  Ops = {"start", "save", "submit", "grade", "fail"}
  Drafts = {"right"}
  Awards = {2}
SYMMETRY Symmetry
INVARIANTS
  GradedWhenFinished
  AutoOnlyAfterDeadline
PROPERTIES
  FrozenOnceSettled
