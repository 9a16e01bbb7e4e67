\* Three requests on two routes; half-second ticks over a second.
SPECIFICATION FairClientSpec
CONSTANTS
  r1 = r1  r2 = r2  r3 = r3  kA = kA  kB = kB
  None = None
  Requests <- Reqs
  Routes <- Keys
  RouteOf <- ReqRoute
  TicksPerSecond = 2
  MaxTime = 2
CHECK_DEADLOCK FALSE
INVARIANTS ExactlyOnce OneAtATime StoppedWasNotSent AtMostTwice RetryIsOnFreshConnection
PROPERTIES NoSendAfterShutdown WithinLimit IsSerialService
