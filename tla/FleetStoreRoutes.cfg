\* Two spellings of one bus that moves, parks, vanishes and expires, with plate lookups.
CONSTANTS
  k1 = k1
  k2 = k2
  n1 = n1
  n2 = n2
  d1 = d1
  d2 = d2
  Kapino = {k1, k2}
  Name = {n1}
  Upper <- OneName
  Door = {d1}
  Clean <- OneDoor
  Place = {a, b}
  Plate = {p}
  Route = {r}
  Lookup = {l1}
  MaxTrail = 1
  Expiry = 2
  MaxKnown = 1
  EvictKnown = 1
  MaxWrites = 1
  MaxLost = 1
  NoBus = NoBus
  NoPlate = NoPlate
  NoRoute = NoRoute
SYMMETRY AlikeSpellings
SPECIFICATION Spec
INVARIANTS IndexesCurrent EverythingExpires
PROPERTIES RouteSurvives
