SPECIFICATION FairSpec
CONSTANTS
  text = text
  choice = choice
  r1 = r1
  Questions = {text, choice}
  TextQuestions = {text}
  Reports = {r1}
  FullscreenRequired = TRUE
  MonitorActivity = TRUE
  MaxInputs = 2
  MaxUnlocks = 1
  MaxLoads = 2
  Faults = {"network", "realtime", "server"}
INVARIANTS
  PageInv
  SavedIsDraft
PROPERTIES
  DeadlineIsHandled
CHECK_DEADLOCK FALSE
