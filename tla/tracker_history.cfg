\* The documented maximum of a day, with a clock in hours.
SPECIFICATION Spec
CONSTANTS
  Detections <- MCOneDetection
  TimeThreshold = 2
  DoaThreshold = 2
  HistoryMinutes = 1440
  ClockSteps = {3600}
  MaxFrame = 1
  MaxClock = 86400
  MaxID = 2
PROPERTY
  HistoryKept
