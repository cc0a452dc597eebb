SPECIFICATION Spec
CONSTANTS
  Accounts = {a1, a2}
  Emails = {e1, e2}
  Values = {v, w}
  Fields = {"username", "display_name"}
  Slots = {s1, s2}
  Faults = {"call", "crash"}
SYMMETRY Symmetry
INVARIANTS TypeOK IdentitiesUnique KeptApart
CHECK_DEADLOCK FALSE
