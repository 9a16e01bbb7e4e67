\* Three requests on an https connection.
SPECIFICATION FairSpec
CONSTANTS
  r1 = r1  r2 = r2  r3 = r3
  None = None
  Requests <- ThreeRequests
  Https = TRUE
CHECK_DEADLOCK FALSE
INVARIANTS OwnResponse
PROPERTIES CancelSticks IsSerialService
