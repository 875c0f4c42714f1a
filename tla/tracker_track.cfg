\* Items stay current and historical for a minute each.
SPECIFICATION Spec
CONSTANTS
  Detections <- MCDetections
  TimeThreshold = 60
  DoaThreshold = 2
  HistoryMinutes = 1
  ClockSteps <- MCClockSteps
  MaxFrame = 2
  MaxClock = 90
  MaxID = 3
INVARIANTS
  TypeOK
  OneItemForEachDetection
  CountsMatchLists
  MatchingIsStable
PROPERTY
  HistoryIsClosed
