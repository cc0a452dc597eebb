SPECIFICATION Spec
CONSTANTS
  Tokens = {t1, t2, t3}
  MaxSessions = 1
  Replicas = {r1}
  Lanes = {l1, l2}
  Faults = {}

INVARIANT ExchangedOnce
CHECK_DEADLOCK FALSE
