\* All orders of the options of the region, a renegotiation in mid-stream,
\* and runs that throw.
SPECIFICATION FairSpec
CONSTANTS
  Networks <- MCNetworks
  Edges = {4}
  Sizes = {6}
  ImageSize = 12
  MaxOptions = 4
  MaxCaps = 2
  MaxRuns = 2
INVARIANTS
  EveryValueOnce
  DecodeFailsForCause
  RenderedWhole
  RegionAsAsked
PROPERTIES
  FrameRendered
