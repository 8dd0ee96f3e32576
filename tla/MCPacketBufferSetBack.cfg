SPECIFICATION MCSetBackSpec
CONSTANTS
  Writers = {w1}
  Readers = {r1}
  Data <- MCData
  NoData = NoData
  Capacity = 2
  SLOT_SIZE = 5
  TIMESTAMP_SIZE = 2
  TicksPerMilli = 2
  MaxTime = 5
  MaxWrites = 3
INVARIANT TimestampsNonDecreasing
