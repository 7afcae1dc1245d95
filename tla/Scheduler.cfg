SPECIFICATION FairSpec
CONSTANTS
  MaxPid = 7
  MaxSleep = 2
  Killable = {1, 2, 3, 5, 6, 7}
INVARIANTS TypeOK OneKeyboardOwner
PROPERTIES OnlyLiveRun SleepsItsTime ExecServed EveryoneRuns
