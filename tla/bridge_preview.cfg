SPECIFICATION Spec
CONSTANTS
  p1 = p1
  p2 = p2
  v = v
  w = w
  s1 = s1
  s2 = s2
  Procs <- OneProc
  Names = {v}
  Seatings = {s1, s2}
  Args = {v}
  PreviewDefault = v
  ApplyDefault = v
  Absent = Absent
  Torn = Torn
  None = None
  NoArg = NoArg
  MaxBackups = 2
  MaxAge = 1
  FaultyKinds = {"apply"}
  Ties = {1, 2}
  MaxTime = 0
  MaxCommands = 1
  MaxPreviews = 1
  MaxFaults = 0
  MaxCrashes = 0
INVARIANTS PreviewedIsApplied
