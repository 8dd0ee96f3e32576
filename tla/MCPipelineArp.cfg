SPECIFICATION PipelineSpec
CONSTANTS
  Frames <- MCFramesZero
  Leftovers <- MCLeftovers
  SIZE_T = 1048576
  Dissected <- MCDissected
  local_ips = {1, 3}
  U32 = 3
  MaxTracked = 4
INVARIANT ArpRecordsHaveSender
CHECK_DEADLOCK FALSE
