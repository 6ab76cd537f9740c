SPECIFICATION Spec
CONSTANTS
  a = a
  b = b
  c = c
  r1 = r1
  r2 = r2
  Agents = {a, b}
  Readers = {r1, r2}
  Owner <- TwoReadersOfA
  Leavers = {a, b}
  Tasks = TRUE
  Founded = FALSE
  Founder = b
  NoReader = NoReader
  Nothing = Nothing
  MaxMembers = 2
  MailboxLimit = 1
  MaxMsgs = 2
  MaxJobs = 1
INVARIANTS InPostOrder AtMostOnce PostsAreDurable NoSleepOnMail
SYMMETRY SwapReaders
CHECK_DEADLOCK FALSE
