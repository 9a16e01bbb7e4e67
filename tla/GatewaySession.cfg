\* One next_event loop, the documented use, against a gateway with sessions of
\* MaxSeq dispatches.
SPECIFICATION GFairSpec
CONSTANTS
  o1 = o1  c1 = c1  c2 = c2
  None = None
  Callers <- OneCaller
  Conns <- TwoConns
  MaxSeq = 3
  MaxMissed = 3
  MaxSends = 2
  InflaterCanFail = FALSE
INVARIANTS InflatedByOwnContext SequenceIsDelivered
PROPERTIES DeliveredInOrder SilenceIsNoticed CloseReleasesCallers DropIsRecovered
