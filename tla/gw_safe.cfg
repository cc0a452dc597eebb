SPECIFICATION Spec
CONSTANTS
  Gateways = {g1}
  Sockets = {s1}
  Clients = {h1}
  Users = {u1}
  Conversations = {c1}
  Prefixes = {"conversation", "group"}
  Actions = {"join", "message", "patch", "remove", "drop"}
  Contents = {a}
  MaxMessages = 2
  MaxAtOnce = 2
  MaxLate = 1
  Faults = {"refusal", "timeout", "loss", "crash"}
SYMMETRY Symmetry
VIEW Essential
INVARIANTS TypeOK SenderOrder ShownStored LastRoomLeft
PROPERTY JoinsByMembers
CHECK_DEADLOCK FALSE
