SPECIFICATION Spec
CONSTANTS
  emp = emp
  lead = lead
  mgr = mgr
  boss = boss
  NoUser = NoUser
  NoSnapshot = NoSnapshot
  User <- MCUser
  Role <- MCRole
  Progress <- MCProgress
  deriveApprovalChain <- MCChain
  InitialProfile <- MCTeam
  InitialTask <- MCTasks
  Edit <- MCNone
  Reprofile <- MCSubmitterPromotion
  Deactivable <- MCUser
  Linked = FALSE
  MaxInFlight = 0
INVARIANT OpenCycleWaits
