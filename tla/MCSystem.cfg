SPECIFICATION SystemFairSpec
CONSTANTS
  T1 = T1
  T2 = T2
  Writers = {T1}
  Readers = {T2}
  Data <- MCData
  NoData = NoData
  Capacity = 1
  SLOT_SIZE = 3
  TIMESTAMP_SIZE = 2
  TicksPerMilli = 1
  MaxTime = 0
  BATCH_DRAIN = 2
  FRAME_BUF_SIZE = 1
  PIPELINE_BUF_SIZE = 1
  ETHERNET_MIN_SIZE = 1
  WireFrames <- MCKinds
  MaxFrames = 2
  MaxErrors = 0
  MAX_ATTEMPTS = 1
  MaxPolls = 1
  MaxSessions = 2
  MaxOther = 0
INVARIANT EndToEnd
PROPERTIES ImplementsDelivery   
