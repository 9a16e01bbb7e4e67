SPECIFICATION WireSpec
CONSTANTS
  MaxTag = 20
  MaxOptions = 3
  MaxUploads = 2
  UploadLists <- MCUploadLists
  KeptIds <- MCKeptIds
  TRANSFORM_PADDING_BYTES = 8
  SizeWrap = 32
  MediaFrames <- MCMediaFrames
  Nonces = {1, 127, 128, 16384}
  Packets <- MCPackets
  Epochs = {0, 1}
  MaxNonce <- MCMaxNonce
  MaxManagers = 2
  NoncesPerGeneration = 2
  GENERATION_WRAP = 4
  MAX_GENERATION_GAP = 2
  MAX_MISSING_NONCES = 2
INVARIANTS
  ReadsBack
  RequestSaysWhatWasSet
  ReplayWindow
CHECK_DEADLOCK FALSE
