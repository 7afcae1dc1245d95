SPECIFICATION FairSpec
CONSTANTS
  MaxCluster = 5
  Root = 2
  SlotsPerCluster = 2
  UnitsPerCluster = 2
  n1 = n1
  n2 = n2
  n3 = n3
  a = a
  b = b
  Name = {n1, n2, n3}
  Unit = {a, b}
  Payload <- MCCrashPayload
  Calls = {"write", "delete", "mkdir", "rename"}
  Faults = {"kmalloc", "disk"}
  PowerFails = TRUE
  Absent = Absent
  Folder = Folder
INVARIANTS NoCrossLinks ReachableAllocated  NoSlotBehindEnd
PROPERTIES ImplementsFileStore
