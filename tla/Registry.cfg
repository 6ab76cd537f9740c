SPECIFICATION FairSpec
CONSTANTS
  n1 = n1
  n2 = n2
  c1 = c1
  c2 = c2
  here = here
  there = there
  Names = {n1, n2}
  Clients = {c1, c2}
  Session <- TwoSessions
  Sweeper = Sweeper
  Uses <- NamesUsed
  Requests = {"renew", "unregister", "other"}
  MaxIds = 3
  MaxKeys = 3
  MaxCommands = 3
  MaxStarts = 1
INVARIANTS NameFindsAgent RegistrationSurvives KeyFits
PROPERTY LeasesEnd
CHECK_DEADLOCK FALSE
