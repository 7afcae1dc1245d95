SPECIFICATION Spec
CONSTANTS
  Words = 2
  WordBits = 9
  Reserved <- MCReserved
  KernelFrames = 1
  Levels = 2
  s1 = s1
  s2 = s2
  Space = {s1, s2}
  NoSpace = NoSpace
  ImagePages = 1
  StackPages = 1
  HeapPages = 2
INVARIANTS TypeOK Exclusive FramesAccounted HeapMapped NullOnlyWhenFull
SYMMETRY Symmetry
CHECK_DEADLOCK FALSE
