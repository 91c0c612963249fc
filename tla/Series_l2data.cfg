CONSTANTS
  Phys <- MC_Phys
  OwnPhy = 1
  PhyBands <- MC_Bands
  Widths <- MC_Widths
  Rate20 <- MC_Rate20
  Rate40 <- MC_Rate40
  SurveyDumps <- MC_SurveyDumps
  Stations = {s1}
  Dests = {d1}
SPECIFICATION Spec
INVARIANTS
  DumpMaxMatchesBands
  PublishedNoiseCurrent
  ProxiedDestinationsKept
  CommitKeepsFreshNeighbours
INVARIANT ProxyPathStoredWithinTwoSeries
