CONSTANTS
  Keys = {k1}
  Ids = {a, b}
  Ifaces = {i1}
  NULL = NULL
  Seqnos <- MC_SeqnosWrap
  Delays <- MC_Delays
  RequestTimeout = 3
  InitTimes <- MC_InitBoot
  MaxTime = 4
SPECIFICATION Spec
SYMMETRY MC_Symmetry
INVARIANTS
  TypeOK
  SatisfiedStaysSatisfiedPastTimeout
  NoResendOfSatisfied
  SeqnoHelpersAgree
