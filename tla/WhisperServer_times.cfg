SPECIFICATION ServerSpec
CONSTANTS
  r1 = r1
  r2 = r2
  Requests = {r1, r2}
  NoRequest = NoRequest
  Kinds = {"inference"}
  Processors = 1
  DefaultVad = FALSE
  Hanging = {}
INVARIANTS
  TimesAreOwn
SYMMETRY Alike
CHECK_DEADLOCK FALSE
