SPECIFICATION Spec
CONSTANTS
  Users = {u1}
  Msgs = {m1}
  Contents = {a, b}
  Times = {t1, t2}
  Roles = {"member", "admin"}
  Replicas = {r1}
  Subjects <- AllSubjects
  AskedStatuses = {"delivered"}
  Storages = {"postgres", "memory"}
  Faults = {"call", "answer", "crash"}
  MaxInFlight = 2
SYMMETRY Symmetry
INVARIANTS TypeOK OneReceiptTime ListedSeenHasReader
PROPERTIES EditsAuthorised ActsByMembers DeletedFrozen
CHECK_DEADLOCK FALSE
