SPECIFICATION Spec
CONSTANTS
  Users = {u1, u2, u3}
  Convs = {c1}
  Replicas = {r1}
  Subjects <- AllSubjects
  Storage = "postgres"
  Faults = {"call", "answer", "crash"}
  MaxInFlight = 1
INVARIANT TypeOK
PROPERTY KeepsPromise
