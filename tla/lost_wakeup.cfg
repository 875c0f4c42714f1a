\* The notification that nobody waits for yet.
SPECIFICATION FairSpec
CONSTANTS
  MaxFrames = 3
  MaxCaps = 1
  StoresInOrder = TRUE
PROPERTY
  PublishedFrameIsTaken
