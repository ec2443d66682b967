SPECIFICATION FairServerSpec
CONSTANTS
  r1 = r1
  r2 = r2
  Requests = {r1, r2}
  NoRequest = NoRequest
  Kinds = {"inference", "pcm", "load", "health"}
  Processors = 1
  DefaultVad = FALSE
  Hanging = {r1}
INVARIANTS
  EngineHasOneUser
  EngineIsLoaded
  ReadyMeansLoaded
  TextIsOwn
  PcmSettingsAreOwn
  TimingsAreOwn
PROPERTIES
  EveryRequestAnswered
  SignalEndsServer
CHECK_DEADLOCK FALSE
