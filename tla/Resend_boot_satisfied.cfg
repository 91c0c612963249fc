CONSTANTS
  Keys = {k1}
  Ids = {a, b}
  Ifaces = {i1}
  NULL = NULL
  Seqnos <- MC_Seqnos
  Delays <- MC_Delays
  RequestTimeout = 3
  InitTimes <- MC_InitBoot
  MaxTime = 4
SPECIFICATION Spec
INVARIANT
  SatisfiedStaysSatisfied
