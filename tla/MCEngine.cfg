SPECIFICATION EngineSpec
CONSTANTS
  T1 = T1
  T2 = T2
  Writers = {T1}
  Readers = {T2}
  Data <- MCData
  NoData = NoData
  Capacity = 2
  SLOT_SIZE = 5
  TIMESTAMP_SIZE = 2
  TicksPerMilli = 1
  MaxTime = 0
  BATCH_DRAIN = 2
  FRAME_BUF_SIZE = 3
  PIPELINE_BUF_SIZE = 3
  ETHERNET_MIN_SIZE = 2
  WireFrames <- MCWireFrames
  MaxFrames = 3
  MaxErrors = 1
INVARIANTS EngineTypeOK NothingDropped ConservedInOrder
