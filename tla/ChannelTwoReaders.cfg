SPECIFICATION Spec
CONSTANTS
  a = a
  b = b
  c = c
  r1 = r1
  r2 = r2
  Agents = {a, b}
  Links <- OneWay
  Readers = {r1, r2}
  Owner <- TwoReadersOfA
  NoReader = NoReader
  Nothing = Nothing
  Closed = Closed
  MaxMsgs = 3
INVARIANTS TypeOK UnreadIsDurable AtMostOnce NothingVanishes InOrder SendNeverBlocks
PROPERTY ImplementsCourier
SYMMETRY SwapReaders
CHECK_DEADLOCK FALSE
