\* One caller at a time and two gateways: the quota, and a post that falls back.
CONSTANTS
  Caller = {c1}
  Proxy = {p1, p2}
  ProbeInterval = 3
  Cooldown = 2
  MinInterval = 1
  MaxPerWindow = 3
  Window = 4
  MaxAborts = 0
  NoProxy = NoProxy
SPECIFICATION FairSpec
INVARIANTS GatewayQuota
PROPERTIES PostEnds
