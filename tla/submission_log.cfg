\* Two tick processes, four rows, three crashes and as many repairs.
SPECIFICATION LogSpec
CONSTANTS
  Proc = {p1, p2}
  NoProc = NoProc
  MaxRows = 4
  MaxRepairs = 3
  MaxCrashes = 3
CHECK_DEADLOCK FALSE
INVARIANTS
  LogReadable
  AckedRowsSurvive
PROPERTIES
  RepairKeepsReading
