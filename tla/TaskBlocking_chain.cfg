SPECIFICATION Spec
CONSTANTS
  Requests = {r1}
  Lanes = {l1}
  None = None
  MaxEvents = 3
CHECK_DEADLOCK FALSE
PROPERTIES ChainRestores
