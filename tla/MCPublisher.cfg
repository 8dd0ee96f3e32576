SPECIFICATION PublisherFairSpec
CONSTANTS
  MAX_ATTEMPTS = 3
  MaxPolls = 2
  MaxMessages = 3
  MaxSessions = 3
  MaxOther = 1
INVARIANTS PublisherTypeOK ConnectionOwned AtMostOnce ConfirmedQueuedInOrder
PROPERTIES PublishReturns 
