SPECIFICATION SessionSpec
CONSTANTS
  p1 = p1
  v = v
  agent = agent
  task = task
  mine = mine
  mA = mA
  mB = mB
  mC = mC
  Procs <- OneProc
  Names = {v}
  Seatings <- OneSeating
  Args = {v}
  PreviewDefault = v
  ApplyDefault = v
  Absent = Absent
  Torn = Torn
  None = None
  NoArg = NoArg
  MaxBackups = 2
  MaxAge = 1
  FaultyKinds = {"apply"}
  Ties = {1, 2}
  MaxTime = 0
  MaxCommands = 2
  MaxPreviews = 1
  MaxFaults = 1
  MaxCrashes = 0
  Roles = {agent, task, mine}
  Models = {mA, mB, mC}
  Builtins = {agent}
  Categories = {task}
  MdRole = mine
  Offered = {mC}
  Imports <- OneImport
  Scenes <- SessionScenes
INVARIANTS NothingTorn UndoPossible PreviewBinds  
PROPERTIES ImplementsUndoable
ACTION_CONSTRAINT FirstName
