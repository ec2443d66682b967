SPECIFICATION Spec
CONSTANTS
  N_R0 <- MCN_R0
  N_SG <- MCN_SG
  NRA = 64
  NRB = 128
  N_MM_SG = 4
  N_MM_NK_TOTAL = 64
  NQPSG = 8
  NCPSG = 64
  VEC_NQPSG = 1
  VEC_NCPSG = 32
  Graphs <- MCGraphs
  Devices <- MCDevices
INVARIANTS
  MetalTypeOK
  NoRace
  ResultsAreSerial
  KernelIsOwn
  GridCovers
  LaunchFits
CHECK_DEADLOCK FALSE
