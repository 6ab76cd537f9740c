SPECIFICATION FairSpec
CONSTANTS
  a = a
  b = b
  c = c
  r1 = r1
  r2 = r2
  Agents = {a, b, c}
  Links <- FanIn
  Readers = {r1}
  Owner <- OneReaderOfA
  NoReader = NoReader
  Nothing = Nothing
  Closed = Closed
  MaxMsgs = 2
INVARIANTS NoSleepOnMail NoSleepOnAnyMail
PROPERTY ReleaseEndsRead
CHECK_DEADLOCK FALSE
