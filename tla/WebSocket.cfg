\* Overlapping reads, sends, closes and cancel on one stream.
SPECIFICATION FairSpec
CONSTANTS
  r1 = r1  r2 = r2  r3 = r3  s1 = s1  s2 = s2  s3 = s3  x1 = x1  x2 = x2
  Reads <- ThreeReads
  Sends <- ThreeSends
  Closes <- TwoCloses
INVARIANTS StreamContract ReadsOnceInOrder WireInOrder StrandedOnlyAfterError
PROPERTIES SendCompletes CloseEndsReads
