SPECIFICATION BridgeSpec
CONSTANTS
  PreRollCap = 1
  UtteranceCap = 4
  MaxPayload = 1
  MinWindow = 2
  MaxReceived = 5
  MinForced = 1
  SpeculativeEnabled = TRUE
  Tolerance = 1
  MinNewAudio = 1
  Outcomes = {"ok", "empty", "error", "raise"}
  Novelties = {TRUE, FALSE}
  MaxResets = 1
INVARIANTS
  BridgeTypeOK
  AnsweredOnce
  AnswersInOrder
  StopTakesTheRest
  OneSpeculation
  SpeculationIsFresh
PROPERTIES
  ConfirmedTextGrows
CHECK_DEADLOCK FALSE
