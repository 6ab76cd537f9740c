SPECIFICATION SpecFromBoards
CONSTANTS
  boss1 = boss1
  boss2 = boss2
  hand1 = hand1
  hand2 = hand2
  c1 = c1
  c2 = c2
  c3 = c3
  h1 = h1
  h2 = h2
  s1 = s1
  Agents = {boss1, boss2, hand1, hand2}
  Supervisors = {boss1, boss2}
  Slugs = {s1}
  Conns = {c1, c2, c3, h1, h2}
  Caller <- TwoOfBoss1
  Nobody = Nobody
  Sweeper = Sweeper
  MaxStarts = 1
  MaxCommands = 3
INVARIANTS WorktreeBacksRow OpenWhileActive OwnerInRoom SupervisorGate ClaimHolds
SYMMETRY Swaps
CHECK_DEADLOCK FALSE
