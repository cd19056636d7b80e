SPECIFICATION Spec
CONSTANTS
  c1 = c1
  MaxQuestions = 2
  Targets = {c1}
  MaxQuizzes = 2
  MaxPer = 2
  MaxRequests = 2
  PageSize = 1
  Found = {1}
  Faults = {"crash", "network"}
  MaxInputs = 2
  MaxEvents = 1
INVARIANTS
  StoreIsWhole
  PagesInv
  PoolSavedMeansSaved
  ReviewShowsSaved
CHECK_DEADLOCK FALSE
