SPECIFICATION Spec
CONSTANTS
  MaxSockets = 2
  MaxTcpSockets = 2
  RxSize = 2
  Window = 2
  MaxSegment = 2
  Units <- MCUnits
  ConnectPolls = 1
  SendPolls = 2
  RecvPolls = 1
  ClosePolls = 1
  MaxPort = 2
  MaxQueue = 2
  MaxFaults = 1
INVARIANTS TypeOK StreamExact EndIsEnd SlotsFreed
PROPERTY Answered
