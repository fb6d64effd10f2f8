SPECIFICATION FairSpec
CONSTANTS
  a1 = a1  a2 = a2  a3 = a3  e1 = e1  e2 = e2  e3 = e3  s1 = s1  s2 = s2
  Agents = {a1, a2, a3}
  Errors = {e1, e2, e3}
  NoError = NoError
  Signature <- ThreeErrors
INVARIANTS TypeOK OneFix NoMissedWakeUp
PROPERTIES WaiterReturns
