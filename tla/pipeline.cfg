\* One signal, one foreign error and an hour of two minutes of two seconds.
SPECIFICATION FairPipelineSpec
CONSTANTS
  MaxFrames = 1
  MaxCaps = 1
  StoresInOrder = TRUE
  MaxSignals = 1
  MaxErrorMessages = 1
  MinutesPerHour = 2
  SecondsPerMinute = 2
  TicksPerSecond = 1
  MaxLate = 1
INVARIANTS
  NothingLeftRunning
PROPERTIES
  OneSplitAnHour
  SignalEndsProgram
  FlowErrorEndsProgram
  NoUseAfterRelease
