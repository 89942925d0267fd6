SPECIFICATION Spec
CONSTANTS
  Saver = {s1, s2, s3}
  Nobody = Nobody
INVARIANTS
  TypeOK
  WaitingIsQueued
  ServedIsFront
  ChangedIsWaiting
PROPERTY ChangedIsAutosaved
