\* One stop, one detail request, one batch at a time, one loss or restart.
CONSTANTS
  Code = {s1}
  Field <- MCField
  Request = {r1}
  MaxJobs = 1
  MaxLost = 1
  NoStop = NoStop
  Error = Error
SPECIFICATION Spec
CONSTRAINT NoRequestAfterLoss
INVARIANTS IndexAgrees
PROPERTIES FactsKept ImplementsWriteBehind
