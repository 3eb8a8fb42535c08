SPECIFICATION FairSpec
CONSTANTS
  Sockets = {s1, s2}
  NoSocket = NoSocket
  MaxAttempts = 3
  MaxQueue = 1
  Setups <- MCSetups
  MaxLogs = 3
  MaxTimers = 2
INVARIANTS TypeOK ReconnectionPending OneConnection NoRecordLostWithFile DisabledIsDrained
PROPERTIES QueueDrains
CHECK_DEADLOCK FALSE
