SPECIFICATION FairSpec
CONSTANTS
  c1 = c1
  c2 = c2
  Clients = {c1, c2}
  Kinds = {"say", "stop"}
  MaxCalls = 3
  MaxFaults = 1
INVARIANT OneDaemon
PROPERTIES SignalEnds CallsEnd
CHECK_DEADLOCK FALSE
