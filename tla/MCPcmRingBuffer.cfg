SPECIFICATION RingSpec
CONSTANTS
  PreRollCap = 2
  UtteranceCap = 4
  MaxPayload = 2
  MinWindow = 3
  MaxReceived = 8
  SilenceTicks = 2
  MaxClock = 6
INVARIANTS
  RingTypeOK
  UtteranceIsGapFree
PROPERTIES
  OnsetIsKept
  ImplementsStream
CHECK_DEADLOCK FALSE
