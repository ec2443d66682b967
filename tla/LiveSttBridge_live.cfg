SPECIFICATION FairBridgeSpec
CONSTANTS
  PreRollCap = 1
  UtteranceCap = 4
  MaxPayload = 1
  MinWindow = 2
  MaxReceived = 4
  MinForced = 1
  SpeculativeEnabled = TRUE
  Tolerance = 1
  MinNewAudio = 1
  Outcomes = {"ok", "error", "raise"}
  Novelties = {TRUE}
  MaxResets = 0
PROPERTIES
  SpeechIsTaken
  StopClosesSocket
  WorkerEnds
CHECK_DEADLOCK FALSE
