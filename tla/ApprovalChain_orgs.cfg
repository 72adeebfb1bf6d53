SPECIFICATION Spec
CONSTANTS
  ann = ann
  bob = bob
  cat = cat
  dan = dan
  NoUser = NoUser
  User <- MCFour
  Kinds <- MCTwoKinds
  Managers <- MCAboveAnn
  People <- MCPeople
  MaxChainDepth = 2
  createdAt <- MCCreatedAt
INVARIANTS ChainWellFormed WalkFollowsLine
PROPERTY DeactivationIsLocal
