SPECIFICATION FairSpec
CONSTANTS
  k1 = k1
  k2 = k2
  csv = csv
  tab1 = tab1
  tab2 = tab2
  sheets1 = sheets1
  sheets2 = sheets2
  m1 = m1
  m2 = m2
  m3 = m3
  Keys = {k1, k2}
  Files = {csv, tab1}
  Uploads = {csv}
  Spreadsheets = {sheets1}
  Tabs <- MCTabs
  Mappings = {m1, m2}
  Detected <- MCDetected
  Rows <- MCRows
  InBank = {}
  MaxSessions = 2
  MaxRequests = 2
  MaxInputs = 4
  Faults = {"network", "crash", "expiry"}
INVARIANTS
  ImportInv
  DuplicatesNeedOverlap
  PreviewIsSession
PROPERTIES
  ImportEnds
CHECK_DEADLOCK FALSE
