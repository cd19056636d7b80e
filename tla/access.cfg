SPECIFICATION Spec
CONSTANTS
  MaxAccounts = 4
  MaxEmails = 3
  MaxClasses = 2
  MaxTokens = 2
  MaxRequests = 2
  PageSize = 1
  Found = {1}
  Limits <- MCLimits
  Faults = {"crash", "network", "expiry"}
  Existing = 2
  Files <- MCFiles
  MaxInputs = 2
  MaxEvents = 1
INVARIANTS
  AccessInv
  ImportReportIsTrue
  ListIsFresh
  ClassPageShowsClass
CHECK_DEADLOCK FALSE
