\* READY to NULL before any CAPS event.
SPECIFICATION Spec
CONSTANTS
  MaxFrames = 2
  MaxCaps = 1
  StoresInOrder = TRUE
INVARIANT
  InferenceHasImage
