SPECIFICATION Spec
CONSTANTS
  p1 = p1
  p2 = p2
  v = v
  w = w
  s1 = s1
  s2 = s2
  Procs <- TwoProcs
  Names = {v}
  Seatings = {s1}
  Args = {NoArg}
  PreviewDefault = v
  ApplyDefault = v
  Absent = Absent
  Torn = Torn
  None = None
  NoArg = NoArg
  MaxBackups = 1
  MaxAge = 0
  FaultyKinds = {"apply", "restore"}
  Ties = {1, 2}
  MaxTime = 1
  MaxCommands = 2
  MaxPreviews = 1
  MaxFaults = 1
  MaxCrashes = 1
INVARIANTS TypeOK RestoreIsExact RetentionHolds
 
SYMMETRY ProcSymmetry
ACTION_CONSTRAINT PreviewsFirst
