\* Two classes, one of them wanted.
SPECIFICATION Spec
CONSTANTS
  Detections <- MCDetections
  MaxDetections = 3
  ThNms = 50
  FilterClasses = {"car"}
  Region <- MCRegion
INVARIANT
  OnlyAllowedStays
