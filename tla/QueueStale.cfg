SPECIFICATION Spec
CONSTANTS
  p1 = p1
  p2 = p2
  x = x
  y = y
  reg = reg
  log = log
  Producers = {p1}
  Paths = {log}
  Removable = {}
  Contents = {x, y}
  Absent = Absent
  NoOp = NoOp
  Faults = {}
  MaxAttempts = 3
  Cap = 1
  MaxWrites = 3
  MaxStarts = 2
INVARIANTS LatestWriteWins
CHECK_DEADLOCK FALSE
