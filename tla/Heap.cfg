SPECIFICATION Spec
CONSTANTS
  KernelTask = {k1}
  Program = {p1}
  Sizes = {1, 4}
  Header = 2
  Align = 2
  Page = 8
  Limit = 26
INVARIANTS TypeOK Tiled NoFreeNeighbours InMappedMemory
PROPERTIES ImplementsAllocator InterruptsKept
