SPECIFICATION FairSpec
CONSTANTS
  MaxCluster = 6
  Root = 2
  SlotsPerCluster = 1
  UnitsPerCluster = 2
  n1 = n1
  n2 = n2
  n3 = n3
  a = a
  b = b
  Name = {n1, n2, n3}
  Unit = {a, b}
  Payload <- MCPayload
  Calls = {"write", "delete", "rename"}
  Faults = {"kmalloc", "disk"}
  PowerFails = FALSE
  Absent = Absent
  Folder = Folder
INVARIANTS TypeOK NoOrphans
PROPERTIES ImplementsFileStore 
