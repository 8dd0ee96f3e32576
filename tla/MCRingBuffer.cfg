SPECIFICATION MCRingSpec
CONSTANTS
  Writers = {w1, w2}
  Readers = {r1, r2}
  Data <- MCData
  NoData = NoData
  Capacity = 2
  SLOT_SIZE = 2
  MaxWrites = 4
SYMMETRY ThreadSymmetry
INVARIANTS RingTypeOK Fifo NoLostWakeup
PROPERTY ImplementsQueue
