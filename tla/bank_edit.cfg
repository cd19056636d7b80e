SPECIFICATION Spec
CONSTANTS
  Languages = {"python", "css"}
  MaxOptions = 3
  MaxTestCases = 2
  Slots = 3
  FirstSlots = 2
  Filtered = {1, 2}
  Found = {2, 3}
  PageSize = 1
  MaxInputs = 2
  MaxElsewhere = 1
  Faults = {"network"}
INVARIANTS
  BankInv
  QuestionIsWhole
  FormFitsSchema
PROPERTIES
  DeletedStays
CHECK_DEADLOCK FALSE
