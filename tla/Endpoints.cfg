\* Endpoints that share nested fetchers, and the others one by one.
CONSTANTS
  Asked <- MCAsked
  None = None
  MaxAges = 2
SPECIFICATION FairSpec
INVARIANTS OutageNotCached
PROPERTIES FetchesEnd
\* the service stops when the bound on ages is used up
CHECK_DEADLOCK FALSE
