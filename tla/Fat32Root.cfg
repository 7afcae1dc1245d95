SPECIFICATION InPlaceSpec
CONSTANTS
  MaxCluster = 4
  Root = 2
  SlotsPerCluster = 2
  UnitsPerCluster = 2
  n1 = n1
  n2 = n2
  a = a
  b = b
  Name = {n1, n2}
  Unit = {a, b}
  Payload <- MCPayload
  Calls = {"write", "delete", "append", "write_at"}
  Faults = {}
  PowerFails = FALSE
  Absent = Absent
  Folder = Folder
  MaxOffset = 2
  MaxSize = 4
  EmptyAppends = TRUE
INVARIANTS RootKept

