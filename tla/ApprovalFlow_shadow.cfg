SPECIFICATION Spec
CONSTANTS
  emp = emp
  lead = lead
  mgr = mgr
  boss = boss
  NoUser = NoUser
  NoSnapshot = NoSnapshot
  User <- MCUser
  Role <- MCRole
  Progress <- MCProgress
  deriveApprovalChain <- MCChain
  InitialProfile <- MCTeam
  InitialTask <- MCTasks
  Edit <- MCFieldEdit
  Reprofile <- MCSubmitterPromotion
  Deactivable <- MCLeadOnly
  Linked = TRUE
  MaxInFlight = 1
INVARIANTS TypeOK SubmitterKeepsOut StageDiscipline
