SPECIFICATION DissectorSpec
CONSTANTS
  Frames <- MCFrames
  Leftovers <- MCLeftovers
  SIZE_T = 1048576
INVARIANT MalformedSkipped
CHECK_DEADLOCK FALSE
