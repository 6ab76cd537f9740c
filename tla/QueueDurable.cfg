SPECIFICATION FairSpec
CONSTANTS
  p1 = p1
  p2 = p2
  x = x
  y = y
  reg = reg
  log = log
  Producers = {p1, p2}
  Paths = {log, reg}
  Removable = {reg}
  Contents = {x, y}
  Absent = Absent
  NoOp = NoOp
  Faults = {"insert", "file", "add", "commit", "bump", "bury", "delete", "kill"}
  MaxAttempts = 2
  Cap = 1
  MaxWrites = 2
  MaxStarts = 3
INVARIANTS TypeOK NoWriteLost BuriedAfterRestarts OneCarrier
PROPERTIES StopDrains SendersProceed
CHECK_DEADLOCK FALSE
