SPECIFICATION Spec
CONSTANTS
  Users = {u1, u2}
  Convs = {c1}
  Replicas = {r1}
  Subjects <- AllSubjects
  Storage = "postgres"
  Faults = {}
  MaxInFlight = 2
SYMMETRY Symmetry
PROPERTY LastOwnerKept
