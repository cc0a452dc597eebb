SPECIFICATION Spec
CONSTANTS
  Replicas = {r1}
  Subjects <- TwoSubjects
  MaxPerUser = 2
  MaxRetries = 1
  Buffers = {b1}
  MaxSent = 2
  Faults = {"cut", "crash", "expiry"}
INVARIANTS TypeOK ListSound
CHECK_DEADLOCK FALSE
