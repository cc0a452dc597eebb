SPECIFICATION FairSpec
CONSTANTS
  Replicas = {r1}
  Slots = {s1, s2, s3}
  ChanBuffer = 1
  MaxBatchSize = 2
  Faults = {"call", "answer", "crash"}
  MaxSubmits = 2
INVARIANTS TypeOK OwnAnswer StoredInOrder NoRequestLost NeverBlocked
PROPERTIES SubmitReturns Promised
CHECK_DEADLOCK FALSE
