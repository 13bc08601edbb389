CONSTANTS
  SetupTimeout = 1
  DetailTimeout = 2
  DemandTimeout = 1
  StateBTimeout = 1
  TcpTimeout = 2
  OngoingTimeout = 1
  SetupTime = 1
  GracePeriod = 1
  MinTimeInEntry = 1
  EntryDuration = 5
  StopTimeout = 1
  Epoch = 100
  MaxOnItsWay = 0
  MaxB = 0
  NoStateB = {}
  OneStateB = {}
  LaterRequests = {}
  MaxTime = 8
  MaxPowers = {10, 30}
SPECIFICATION SmartSpec
CHECK_DEADLOCK FALSE
INVARIANTS
  TypeOK
  ScheduleFailIsDeserved
  PassIsEarned
