SPECIFICATION FairSpec
CONSTANTS
  Gateways = {g1, g2}
  Sockets = {s1}
  Clients = {h1}
  Users = {u1}
  Conversations = {c1}
  Prefixes = {"conversation"}
  Actions = {"join", "typing", "post", "patch", "delete", "seen", "create", "add"}
  Contents = {a}
  MaxMessages = 1
  MaxAtOnce = 2
  MaxLate = 0
  Faults = {"refusal"}
PROPERTIES Reaches EditsConverge
CHECK_DEADLOCK FALSE
