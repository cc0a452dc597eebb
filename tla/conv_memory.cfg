SPECIFICATION FairSpec
CONSTANTS
  Users = {u1, u2}
  Convs = {c1}
  Replicas = {r1}
  Subjects <- AllSubjects
  Storage = "memory"
  Faults = {}
  MaxInFlight = 2
INVARIANT DeletedDrains
PROPERTIES DeletedStaysEmpty GuardSoundAlone
