\* Two websockets, two missed heartbeats.
SPECIFICATION FairSpec
CONSTANTS
  MaxWs = 2
  MaxMissed = 2
CHECK_DEADLOCK FALSE
INVARIANT ReadsOnCurrentWs
PROPERTIES ReconnectSettles CloseIsAnswered
