\* Two callers, two routes in room for one id, one revocation; lifetimes too short and long enough
\* for a call, stated in every way, with the clocks apart by less than the margin can pay
\* for and by more.
CONSTANTS
  Caller = {c1, c2}
  Route = {r1, r2}
  Lives = {2, 4}
  Said = {"expires_in", "expire_date", "nothing"}
  Skews <- MCSkews
  Hour = 6
  Day = 7
  Margin = 3
  Timeout = 1
  MaxHat = 1
  MaxRevoked = 1
  NoToken = NoToken
  NoRoute = NoRoute
SPECIFICATION FairSpec
INVARIANTS NoNeedlessFetch HatBounded RejectedOnce TokenOutlivesCall
PROPERTIES CallsEnd
