SPECIFICATION ServerSpec
CONSTANTS
  r1 = r1
  r2 = r2
  Requests = {r1, r2}
  NoRequest = NoRequest
  Kinds = {"inference"}
  Processors = 2
  DefaultVad = FALSE
  Hanging = {}
INVARIANTS
  ResultIsStored
SYMMETRY Alike
CHECK_DEADLOCK FALSE
