SPECIFICATION Spec
CONSTANTS
  Tokens = {t1, t2, t3}
  MaxSessions = 2
  Replicas = {r1, r2}
  Lanes = {l1}
  Faults = {"call", "timeout", "crash"}
INVARIANT TypeOK
INVARIANT SpentRefused
INVARIANT LogoutEnds
INVARIANT NeverStranded
PROPERTY RotatesApart
CHECK_DEADLOCK FALSE
