SPECIFICATION FairSpec
CONSTANTS
  Cmds = {c1, c2}
  Keys = {k1}
  NoKey = NoKey
  DescFields = {moniker}
  Addrs = {a1, a2}
  MaxFaults = 2
INVARIANTS StoreFollowsChain ForkIsReported
PROPERTIES EditKeepsOthers EditTakesEffect CommandReturns
CHECK_DEADLOCK FALSE
