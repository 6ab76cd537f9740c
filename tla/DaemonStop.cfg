SPECIFICATION FairSpec
CONSTANTS
  c1 = c1
  c2 = c2
  Clients = {c1, c2}
  Kinds = {"say", "stop"}
  MaxCalls = 2
  MaxFaults = 0

PROPERTY StopEnds
CHECK_DEADLOCK FALSE
