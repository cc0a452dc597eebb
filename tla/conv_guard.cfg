SPECIFICATION ObservedSpec
CONSTANTS
  Users = {u1, u2}
  Convs = {c1}
  Replicas = {r1, r2}
  Subjects <- AllSubjects
  Storage = "postgres"
  Faults = {"call", "crash"}
  MaxInFlight = 2
SYMMETRY Symmetry
INVARIANT CreationUndisturbed
PROPERTY GrantsAuthorised
