\* Two callers that share a gateway, one disconnect.
CONSTANTS
  Caller = {c1, c2}
  Proxy = {p1}
  ProbeInterval = 2
  Cooldown = 2
  MinInterval = 1
  MaxPerWindow = 3
  Window = 3
  MaxAborts = 1
  NoProxy = NoProxy
SPECIFICATION FairSpec
INVARIANTS OverrunBounded BurstBounded LeakBounded
PROPERTIES DirectComesBack
