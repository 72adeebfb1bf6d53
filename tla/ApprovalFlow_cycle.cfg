SPECIFICATION Spec
CONSTANTS
  emp = emp
  lead = lead
  mgr = mgr
  boss = boss
  NoUser = NoUser
  NoSnapshot = NoSnapshot
  User <- MCUser
  Role <- MCRole
  Progress <- MCProgress
  deriveApprovalChain <- MCChain
  InitialProfile <- MCTeam
  InitialTask <- MCTasks
  Edit <- MCOverwrite
  Reprofile <- MCHandover
  Deactivable <- MCLeadAndManager
  Linked = FALSE
  MaxInFlight = 1
INVARIANTS Decidable ApprovalEarned TerminalHasNoPending SnapshotLifecycle
PROPERTIES RestoresSubmittedState ImplementsCycle
