SPECIFICATION Spec
CONSTANTS
  a = a
  b = b
  c = c
  r1 = r1
  r2 = r2
  Agents = {a, b, c}
  Readers = {r1, r2}
  Owner <- TwoReadersOfA
  Leavers = {}
  Tasks = FALSE
  Founded = TRUE
  Founder = b
  NoReader = NoReader
  Nothing = Nothing
  MaxMembers = 2
  MailboxLimit = 2
  MaxMsgs = 4
  MaxJobs = 2
INVARIANTS MirrorIsExact DropsAccounted InOrder SendNeverBlocks
SYMMETRY SwapReaders
CHECK_DEADLOCK FALSE
