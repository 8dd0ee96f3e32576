SPECIFICATION PipelineSpec
CONSTANTS
  Frames <- MCFrames
  Leftovers <- MCLeftovers
  SIZE_T = 1048576
  Dissected <- MCDissected
  local_ips = {1, 3}
  U32 = 3
  MaxTracked = 5
INVARIANTS FlowTypeOK OneDirection RetransmitsExact RecordTellsFlow
   RecordAccountsForFlow
CHECK_DEADLOCK FALSE
