SPECIFICATION FairFullSpec
CONSTANTS
  SamplesPerCs = 4
  VadWindow = 6
  MinSpeech = 8
  MinSilence = 4
  SpeechPad = 2
  SilenceAtMax = 6
  MergeGap = 10
  Overlap = 4
  Gap = 4
  Calls <- MCCalls
  MaxDecoders = 3
  MaxProcessors = 2
  ChunkFrames = 6
  DeltaMin = 1
  ShortTail = 2
  MaxTokens = 3
  TextCtx = 3
  AudioCtx = 3
  EntropyLen = 2
  Beg = 50
  IntSpan = 2048
INVARIANTS
  FullTypeOK
  TranscriptIsOrdered
  AudioIsHeard
  PromptIsOwn
  MappingInverts
PROPERTIES
  CallReturns
CHECK_DEADLOCK FALSE
