SPECIFICATION Spec
CONSTANTS
  MaxPid = 7
  MaxSleep = 1
  Killable = {1, 2, 3, 5, 6, 7}
PROPERTIES DeadStayDead
