SPECIFICATION Spec
CONSTANTS
  Releases <- ThreeReleases
  Absent = Absent
  Torn = Torn
  None = None
  Foreign = {dotlink}
  Relative = {dotlink}
  MaxReleases = 1
  MaxBackups = 2
  MaxAge = 0
  MaxBuilds = 1
  MaxMade = 3
  MaxTime = 1
  MaxFaults = 1
  MaxCrashes = 1
INVARIANTS TypeOK LinkedIsRegistered ActivationReversible RetentionHolds
PROPERTIES EndsWhole ActivePreserved ArchivedFirst
CHECK_DEADLOCK FALSE
