SPECIFICATION BridgeSpec
CONSTANTS
  PreRollCap = 1
  UtteranceCap = 4
  MaxPayload = 1
  MinWindow = 2
  MaxReceived = 5
  MinForced = 1
  SpeculativeEnabled = FALSE
  Tolerance = 1
  MinNewAudio = 1
  Outcomes = {"ok"}
  Novelties = {TRUE}
  MaxResets = 0
INVARIANTS
  TranscriptBeforeClose
CHECK_DEADLOCK FALSE
