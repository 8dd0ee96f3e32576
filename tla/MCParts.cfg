SPECIFICATION PartsSpec
CONSTANTS
  Writers = {w1}
  Readers = {r1}
  Data <- MCData
  NoData = NoData
  Capacity = 2
  SLOT_SIZE = 5
  TIMESTAMP_SIZE = 2
  TicksPerMilli = 2
  MaxTime = 5
  MaxWrites = 3
  Frames <- MCFrames
  Leftovers <- MCLeftovers
  SIZE_T = 1048576
  BYTE = 4
  MaxLen = 6
  MaxFaults = 2
  MaxChanges = 2
  MaxRuns = 2
  Names = {lo, eth0, eth1}
  Addresses = {0, 1, 2}
  InitialSlots = 1
  MaxEdits = 2
  Callers = {main, T1, T2}
  level_ = 1
  Levels = {0, 1}
  MaxCalls = 2
  MaxSeconds = 1
  MaxLength = 3
  MaxBytes = 4
  Sizes = {1, 3}
  TTL = 2
  MaxMessages = 5
  MaxClock = 3
INVARIANTS
  TimestampsNonDecreasing LayersNest NoStaleBytes Completes SumsEveryByte
  DescriptorOwned FailsOnlyForCause  LinesAreCalls
  NothingVanishes OldestGiveWay
PROPERTIES ChangesOnlyPromisc AddressesReturned
CHECK_DEADLOCK FALSE
