\* Two frames, two sender loops, two groups of two epochs.
SPECIFICATION FairMSpec
CONSTANTS
  f1 = f1  f2 = f2  l1 = l1  l2 = l2
  None = None  NoState = NoState
  Frames <- TwoFrames
  Loops <- TwoLoops
  MaxFailures = 2
  MaxGroups = 2
  MaxEpochs = 1
  Tids = {1}
  FramesInGroup = 1
CHECK_DEADLOCK FALSE
INVARIANTS PendingCountsFrames EncryptsInGroup
PROPERTIES FlushEnds
