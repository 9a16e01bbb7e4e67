\* Two receives, one send and two datagrams.
SPECIFICATION FairSpec
CONSTANTS
  c1 = c1  c2 = c2  s1 = s1
  Receives <- TwoReceives
  Sends <- OneSend
  MaxDatagrams = 2
  Error = Error  Canceled = Canceled  Closed = Closed  NotConnected = NotConnected
CHECK_DEADLOCK FALSE
INVARIANTS OneServesTheQueue AnsweredOnceInOrder
PROPERTIES CloseAnswersAll DatagramsAreDelivered
