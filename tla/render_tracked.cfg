\* The detections of the tracker are rendered while a run replaces them.
SPECIFICATION Spec
CONSTANTS
  Networks <- MCNetworks
  Edges = {4}
  Sizes = {6}
  ImageSize = 12
  MaxOptions = 0
  MaxCaps = 1
  MaxRuns = 2
INVARIANTS
  TrackedRenderedWhole
