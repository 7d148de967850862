SPECIFICATION Spec
CONSTANTS
  k1 = k1  k2 = k2  Call = {k1, k2}  Length <- MCLength  Left <- MCLeft
  MaxCalls = 4  MaxEdits = 1  MaxFaults = 1  MaxCrashes = 1
CHECK_DEADLOCK FALSE
SYMMETRY Slots
INVARIANTS TypeOK FormRepaired SerialSaveDurable
PROPERTIES LoadedSaveKeeps ResetBringsDefault
