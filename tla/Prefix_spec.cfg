CONSTANTS
  Addrs <- MC_Addrs
  Plens1 <- MC_Plens1
  Plens2 <- MC_Plens2
  OobBytes <- MC_OobSame
  Builds = {TRUE, FALSE}
SPECIFICATION Spec
INVARIANT PrefixCmpMatchesSpec
