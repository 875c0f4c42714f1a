\* Any build (stores may pass each other) and a renegotiation in mid-stream.
SPECIFICATION FairSpec
CONSTANTS
  MaxFrames = 4
  MaxCaps = 2
  StoresInOrder = FALSE
INVARIANTS
  TypeOK
  InlineDetectionsAreCurrent
  BufferExclusion
  BitmapShowsDetections
PROPERTIES
  FlowErrorHasCause
  ChainReturns
  ReleaseCompletes
  WholeDetections
  DetectionsAdvance
  FrameAnalysedOnce
