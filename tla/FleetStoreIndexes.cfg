\* Two buses, two plates, room for one mapping, two jobs for the table.
CONSTANTS
  k1 = k1
  k2 = k2
  n1 = n1
  n2 = n2
  d1 = d1
  d2 = d2
  Kapino = {k1, k2}
  Name = {n1, n2}
  Upper <- TwoNames
  Door = {d1, d2}
  Clean <- TwoDoors
  Place = {a}
  Plate = {p, q}
  Route = {}
  Lookup = {l1}
  MaxTrail = 1
  Expiry = 1
  MaxKnown = 1
  EvictKnown = 1
  MaxWrites = 2
  MaxLost = 1
  NoBus = NoBus
  NoPlate = NoPlate
  NoRoute = NoRoute
SYMMETRY AlikeBuses
SPECIFICATION Spec
PROPERTIES ImplementsWriteBehind
INVARIANTS IndexesCurrent
