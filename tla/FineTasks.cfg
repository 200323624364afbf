\* Three fine tasks; monoids with and without an atomic update or write
SPECIFICATION Spec
CONSTANTS
  TeamSize = 3
  VLen = 32
  Jobs <- MCJobs
INVARIANTS
  TypeOK
  LockSound
  UpdateExclusive
  TableSound
  ResultRight
PROPERTIES
  ImplementsTermSum
  Terminates
