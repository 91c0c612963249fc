CONSTANTS
  Keys = {k1}
  Ids = {a, b}
  Ifaces = {i1}
  NULL = NULL
  Seqnos <- MC_Seqnos
  Delays <- MC_Delays
  RequestTimeout = 3
  InitTimes <- MC_InitLate
  MaxTime = 5
SPECIFICATION Spec
INVARIANT
  UnsatisfiedMeansOlder
