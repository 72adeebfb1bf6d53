SPECIFICATION Spec
CONSTANTS
  ann = ann
  bob = bob
  cat = cat
  one = one
  two = two
  NoUser = NoUser
  User <- MCPeople
  Uses <- MCUses
  Slots <- MCSlots
  MaxEdits = 4
INVARIANTS TypeOK Acyclic OnePrimary ColumnFollowsPrimary
SYMMETRY MCSymmetry
CHECK_DEADLOCK FALSE
