\* Both kinds of models; three frames, so that a late answer meets the next
\* frame and the one after it, and two changes of parameters one after another.
SPECIFICATION FairSpec
CONSTANTS
  MaxOpens = 2
  MaxRuns = 2
  Models <- MCModels
  Requests <- MCRequests
  InputTypes <- MCInputTypes
  OutputLists <- MCOutputLists
INVARIANTS
  TypeOK
  OwnResult
  WholeModelRuns
  ClosedAfterRelease
  ParamsReachDevice
  ChainFits
  FormatAsReported
PROPERTIES
  RunReturns
