\* Endpoints, manual refreshes, the refresher, a route fetch and the shutdown.
CONSTANTS
  Task = {t1, t2}
  Reader = {r1, r2}
  MaxAge = 1
  FleetCacheMaxAge = 3
  MaxPeriodic = 2
  Cooldown = 1
  MaxMoves = 2
  Empty = Empty
  NoTask = NoTask
SPECIFICATION FairSpec
INVARIANTS OneRefresh
PROPERTIES SnapshotsKeepComing
