SPECIFICATION Spec
CONSTANTS
  d1 = d1
  d2 = d2
  d3 = d3
  r1 = r1
  r2 = r2
  Nobody = Nobody
  Delivery <- MCDeliveries
  Replica <- MCReplicas
  MAX_ATTEMPTS = 2
  BatchLimit = 2
  Fault <- MCFaults
  MaxFaults = 2
INVARIANTS TypeOK OneSender PostsCounted
PROPERTY EventuallySettled
