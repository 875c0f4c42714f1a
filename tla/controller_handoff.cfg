\* One CAPS event, stores visible in program order: the abstract view.
SPECIFICATION Spec
CONSTANTS
  MaxFrames = 5
  MaxCaps = 1
  StoresInOrder = TRUE
PROPERTIES
  MailboxSpec
