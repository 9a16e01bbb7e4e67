\* Two overlapping next_event calls, inflater creation may fail.
SPECIFICATION Spec
CONSTANTS
  o1 = o1  o2 = o2  c1 = c1  c2 = c2  c3 = c3
  None = None
  Callers <- TwoCallers
  Conns <- ThreeConns
  MaxSeq = 0
  MaxMissed = 2
  MaxSends = 1
  InflaterCanFail = TRUE
SYMMETRY Symmetry
INVARIANTS HeartbeatChainAlive UrlHasSession
PROPERTIES VerdictSound NoAttemptAfterClose
