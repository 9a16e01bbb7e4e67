\* The documented use: one loop around next_event.
SPECIFICATION Spec
CONSTANTS
  o1 = o1  o2 = o2  c1 = c1  c2 = c2  c3 = c3
  None = None
  Callers <- OneCaller
  Conns <- TwoConns
  MaxSeq = 1
  MaxMissed = 3
  MaxSends = 1
  InflaterCanFail = FALSE
PROPERTY ClosedStaysClosed
