\* Every list of up to four detections out of ten.
SPECIFICATION FairSpec
CONSTANTS
  Detections <- MCDetections
  MaxDetections = 4
  ThNms = 50
  FilterClasses = {"car"}
  Region <- MCRegion
INVARIANTS
  TypeOK
  NoRivalsLeft
  BestOfClassSurvives
  SuppressedHasReason
  AllowedStays
PROPERTY
  Terminates
