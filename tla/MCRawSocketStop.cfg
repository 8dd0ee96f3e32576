SPECIFICATION SocketSpec
CONSTANTS
  MaxFaults = 0
  MaxChanges = 0
  MaxRuns = 1
INVARIANT StoppedCleanly
CHECK_DEADLOCK FALSE
