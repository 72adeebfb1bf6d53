---------------------------- MODULE ApprovalFlow ----------------------------
(***************************************************************************)
(* The approval cycle of one task.  The state is what the handlers of      *)
(* approvalController.js, taskController.updateTask, the user              *)
(* administration of userController.js and the shadow-task sync of         *)
(* dependencyService.js read and write: the task row, its                  *)
(* task_approval_flows rows, the users' authority, and the update requests *)
(* that have loaded the task and not yet written it.                       *)
(*                                                                         *)
(* submitForApproval and processApprovalAction hold the task's row lock    *)
(* from their first read to their commit, so each is one action (the users  *)
(* they read are those of that moment).                                     *)
(* updateTask takes no lock: loading (with every check) and writing are    *)
(* two actions, and anything may happen between them.                      *)
(***************************************************************************)
EXTENDS Integers, FiniteSets, FiniteSetsExt, ChainShape

CONSTANTS
  Role,          \* the roles in use, among those of the User model
  Progress,      \* percentages in use
  NoSnapshot,    \* customFields has no _approvalSnapshot
  deriveApprovalChain(_, _), \* approvalChainService: (profiles, submitter) -> chain
  InitialProfile, \* possible user tables at the start
  InitialTask,   \* possible tasks at the start, never submitted before
  Edit,          \* bodies of PUT /tasks/:id the editors send
  Reprofile,     \* [user, profile] changes made through PUT /users/:id
  Deactivable,   \* users whose status toggleUserStatus may flip
  Linked,        \* is the task the shadow of a dependency request?
  MaxInFlight    \* bound on concurrent update requests

Status == {"not_started", "working_on_it", "waiting_for_review", "done"}
Profile == [role : Role, isSuperAdmin : BOOLEAN, isActive : BOOLEAN]
ApprovalStatus ==
  {"none", "pending_approval", "approved", "rejected", "changes_requested"}
RowStatus == {"submitted", "pending", "approved", "rejected", "changes_requested",
              "skipped", "skipped_parallel", "cancelled_peer"}
(* override marks the row a super-admin override inserts (role            *)
(* 'super_admin_override' in the table).                                    *)
Row == [stage : Nat, userId : User, status : RowStatus, override : BOOLEAN]
Snapshot == [status : Status, progress : Progress]
Task == [status : Status, progress : Progress, approvalStatus : ApprovalStatus,
         snapshot : Snapshot \cup {NoSnapshot}]

(* A request body names the fields it sends. *)
Body == [fields : SUBSET {"status", "progress", "customFields"},
         status : Status, progress : Progress]
(* What a request that loaded the task is going to write. *)
Patch == [fields : SUBSET {"status", "progress", "customFields", "approvalStatus"},
          status : Status, progress : Progress]
Request == [by : User, patch : Patch]

ASSUME RoleAssumption == Role \subseteq {"member", "assistant_manager", "manager", "admin"}
ASSUME ProgressAssumption == Progress \subseteq 0..100 /\ {0, 100} \subseteq Progress
ASSUME SnapshotAssumption == NoSnapshot \notin Snapshot
ASSUME ChainAssumption ==
  \A profiles \in [User -> Profile], u \in User : IsChain(deriveApprovalChain(profiles, u), u)
ASSUME RequestAssumption ==
  /\ InitialProfile \subseteq [User -> Profile]
  /\ InitialTask \subseteq {t \in Task : t.approvalStatus = "none" /\ t.snapshot = NoSnapshot}
  /\ Edit \subseteq Body
  /\ Reprofile \subseteq [user : User, profile : Profile]
  /\ Deactivable \subseteq User
  /\ Linked \in BOOLEAN
  /\ MaxInFlight \in Nat

VARIABLES
  profile,   \* users: role, isSuperAdmin, isActive
  task,      \* the task row
  flow,      \* task_approval_flows rows of the task, by level
  inflight,  \* update requests between their load and their write
  atSubmit   \* history: status and progress when the cycle was submitted

vars == <<profile, task, flow, inflight, atSubmit>>

EmptyFlow == [l \in {} |-> {}]

TypeOK ==
  /\ profile \in [User -> Profile]
  /\ task \in Task
  /\ flow \in [0..(Cardinality(DOMAIN flow) - 1) -> Row]
  /\ inflight \subseteq Request
  /\ atSubmit \in Snapshot

Init ==
  /\ profile \in InitialProfile
  /\ task \in InitialTask
  /\ flow = EmptyFlow
  /\ inflight = {}
  /\ atSubmit = [status |-> task.status, progress |-> task.progress]

---------------------------------------------------------------------------
(* Reading the chain. *)

PendingLevels(f) == {l \in DOMAIN f : f[l].status = "pending"}
PendingStages(f) == {f[l].stage : l \in PendingLevels(f)}

(* findCurrentStageRows: the lowest stage that has a pending row. *)
currentStage(f) == Min(PendingStages(f))

MyPending(f, u) == {l \in PendingLevels(f) : f[l].userId = u}

(* computeApprovalCapabilities: a pending row of one's own, or super-admin *)
(* override; never the submitter.                                           *)
canAct_selfApproval(f, u) ==
  PendingLevels(f) # {} /\ (MyPending(f, u) # {} \/ profile[u].isSuperAdmin)

canAct(f, u) ==
  /\ PendingLevels(f) # {}
  /\ 0 \in DOMAIN f => f[0].userId # u
  /\ MyPending(f, u) # {} \/ profile[u].isSuperAdmin

isOverride(f, u) == MyPending(f, u) = {} /\ profile[u].isSuperAdmin

(* The actor's row: the pending one in the lowest stage, then lowest level. *)
lowestRow(f, L) ==
  CHOOSE l \in L : \A k \in L : f[l].stage < f[k].stage \/ (f[l].stage = f[k].stage /\ l <= k)

(* The chain with the row a super-admin override inserts at the current     *)
(* stage, one level above the highest.                                       *)
withOverrideRow(f, u) ==
  [l \in DOMAIN f \cup {Max(DOMAIN f) + 1} |->
     IF l \in DOMAIN f THEN f[l]
     ELSE [stage |-> currentStage(f), userId |-> u, status |-> "pending", override |-> TRUE]]

(* The chain processApprovalAction works on, and the level it acts at. *)
workingFlow(u) == IF isOverride(flow, u) THEN withOverrideRow(flow, u) ELSE flow
actorLevel(f, u) == lowestRow(f, MyPending(f, u))
isEarlyCompletion(f, a) == f[a].stage > currentStage(f)

---------------------------------------------------------------------------
(* The task fields that move with the approval state                        *)
(* (approvalLifecycleService).                                               *)

applyApprovalSubmittedState_writesLabel(t) ==
  [t EXCEPT !.status = "Waiting for Review", !.progress = 100,
            !.snapshot = [status |-> t.status, progress |-> t.progress]]

applyApprovalSubmittedState(t) ==
  [t EXCEPT !.status = "waiting_for_review", !.progress = 100,
            !.snapshot = [status |-> t.status, progress |-> t.progress]]

applyApprovalApprovedState_keepsSnapshot(t) ==
  [t EXCEPT !.status = "done", !.progress = 100]

applyApprovalApprovedState(t) ==
  [t EXCEPT !.status = "done", !.progress = 100, !.snapshot = NoSnapshot]

applyApprovalRestoredState_resetsProgress(t) ==
  [t EXCEPT !.status = IF t.snapshot = NoSnapshot THEN "not_started" ELSE t.snapshot.status,
            !.progress = 0, !.snapshot = NoSnapshot]

applyApprovalRestoredState(t) ==
  [t EXCEPT !.status = IF t.snapshot = NoSnapshot THEN "not_started" ELSE t.snapshot.status,
            !.progress = IF t.snapshot = NoSnapshot THEN 0 ELSE t.snapshot.progress,
            !.snapshot = NoSnapshot]

---------------------------------------------------------------------------
(* The rows after each decision of level a on chain f. *)

approveRows_keepsPeers(f, a, override) ==
  [l \in DOMAIN f |->
     IF l = a \/ (f[l].status = "pending" /\ f[l].stage < f[a].stage)
     THEN [f[l] EXCEPT !.status = "approved"] ELSE f[l]]

approveRows(f, a, override) ==
  [l \in DOMAIN f |->
     IF l = a THEN [f[l] EXCEPT !.status = "approved"]
     ELSE IF f[l].status # "pending" THEN f[l]
     ELSE IF f[l].stage < f[a].stage THEN [f[l] EXCEPT !.status = "approved"]
     ELSE IF f[l].stage = f[a].stage \/ override THEN [f[l] EXCEPT !.status = "skipped_parallel"]
     ELSE f[l]]

closeRows_ownStageOnly(f, a, disposition) ==
  [l \in DOMAIN f |->
     IF l = a THEN [f[l] EXCEPT !.status = disposition]
     ELSE IF f[l].status = "pending" /\ f[l].stage = f[a].stage
     THEN [f[l] EXCEPT !.status = "cancelled_peer"] ELSE f[l]]

closeRows(f, a, disposition) ==
  [l \in DOMAIN f |->
     IF l = a THEN [f[l] EXCEPT !.status = disposition]
     ELSE IF f[l].status = "pending" THEN [f[l] EXCEPT !.status = "cancelled_peer"]
     ELSE f[l]]

(* A rejection above stage 1 reopens its own stage and the one below. *)
bounceRows_keepsRejection(f) ==
  [l \in DOMAIN f |->
     CASE f[l].stage = currentStage(f) - 1 -> [f[l] EXCEPT !.status = "pending"]
       [] f[l].stage = currentStage(f)     -> [f[l] EXCEPT !.status = "cancelled_peer"]
       [] OTHER                            -> f[l]]

bounceRows_allTheWay(f) ==
  [l \in DOMAIN f |->
     IF f[l].stage <= currentStage(f) THEN [f[l] EXCEPT !.status = "pending"] ELSE f[l]]

bounceRows(f) ==
  [l \in DOMAIN f |->
     IF f[l].stage \in {currentStage(f) - 1, currentStage(f)}
     THEN [f[l] EXCEPT !.status = "pending"] ELSE f[l]]

isTerminalReject(f, a, u) ==
  \/ isEarlyCompletion(f, a)
  \/ profile[u].isSuperAdmin
  \/ currentStage(f) <= 1

---------------------------------------------------------------------------
(* POST /task-extras/:id/submit-approval *)
submitForApproval(u) ==
  LET chain == deriveApprovalChain(profile, u)
      autoApprove == DOMAIN chain = {0}
  IN
  /\ profile[u].isActive
  /\ task.approvalStatus # "pending_approval"
  /\ ~profile[u].isSuperAdmin
  /\ flow' = [l \in DOMAIN chain |->
                [stage |-> chain[l].stage, userId |-> chain[l].userId,
                 status |-> IF l = 0 THEN "submitted" ELSE "pending", override |-> FALSE]]
  /\ task' = IF autoApprove
             THEN [applyApprovalApprovedState(task) EXCEPT !.approvalStatus = "approved"]
             ELSE [applyApprovalSubmittedState(task) EXCEPT !.approvalStatus = "pending_approval"]
  /\ atSubmit' = [status |-> task.status, progress |-> task.progress]
  /\ UNCHANGED <<profile, inflight>>

(* The part processApprovalAction shares between its three actions. *)
mayProcess(u) ==
  /\ profile[u].isActive
  /\ task.approvalStatus = "pending_approval"
  /\ canAct(flow, u)

(* tasks.approve_completion and tasks.reject_completion: tiers 1 to 3. *)
hasApprovePermission(u) == profile[u].isSuperAdmin \/ profile[u].role # "member"

(* Completion by position in the chain rather than by what is still pending. *)
approveTask_completesAtTheTop(u) ==
  LET f == workingFlow(u)
      a == actorLevel(f, u)
  IN
  /\ mayProcess(u)
  /\ hasApprovePermission(u)
  /\ flow' = approveRows(f, a, isOverride(flow, u))
  /\ task' = IF \A l \in DOMAIN f : f[l].stage <= f[a].stage
             THEN [applyApprovalApprovedState(task) EXCEPT !.approvalStatus = "approved"]
             ELSE task
  /\ UNCHANGED <<profile, inflight, atSubmit>>

(* POST /task-extras/:id/approve *)
approveTask(u) ==
  LET f == workingFlow(u)
      a == actorLevel(f, u)
  IN
  /\ mayProcess(u)
  /\ hasApprovePermission(u)
  /\ flow' = approveRows(f, a, isOverride(flow, u))
  /\ task' = IF PendingLevels(flow') = {}
             THEN [applyApprovalApprovedState(task) EXCEPT !.approvalStatus = "approved"]
             ELSE task
  /\ UNCHANGED <<profile, inflight, atSubmit>>

(* POST /task-extras/:id/reject *)
rejectTask(u) ==
  LET f == workingFlow(u)
      a == actorLevel(f, u)
  IN
  /\ mayProcess(u)
  /\ hasApprovePermission(u)
  /\ \/ /\ isTerminalReject(f, a, u)
        /\ flow' = closeRows(f, a, "rejected")
        /\ task' = [applyApprovalRestoredState(task) EXCEPT !.approvalStatus = "rejected"]
     \/ /\ ~isTerminalReject(f, a, u)
        /\ flow' = bounceRows(f)
        /\ UNCHANGED task
  /\ UNCHANGED <<profile, inflight, atSubmit>>

(* POST /task-extras/:id/request-changes; no permission gate of its own. *)
requestChanges(u) ==
  LET f == workingFlow(u)
      a == actorLevel(f, u)
  IN
  /\ mayProcess(u)
  /\ flow' = closeRows(f, a, "changes_requested")
  /\ task' = [applyApprovalRestoredState(task) EXCEPT !.approvalStatus = "changes_requested"]
  /\ UNCHANGED <<profile, inflight, atSubmit>>

---------------------------------------------------------------------------
(* PUT /tasks/:id.  The body plus what the handler adds to it, computed on  *)
(* the copy of the task it loaded; a field equal to that copy is not         *)
(* written, and custom fields are replaced whole, without reserved keys.     *)

Sends(b, field) == field \in b.fields

nextStatus(t, b) == IF Sends(b, "status") THEN b.status ELSE t.status

(* Completion forces progress 100, whether or not the body sends progress. *)
nextProgress(t, b) ==
  IF nextStatus(t, b) = "done" THEN 100
  ELSE IF Sends(b, "progress") THEN b.progress ELSE t.progress

goingToDone(t, b) == nextStatus(t, b) = "done" /\ t.status # "done"

goingToFullProgress(t, b) ==
  /\ t.status # "done" /\ nextStatus(t, b) # "done"
  /\ t.progress # 100 /\ nextProgress(t, b) = 100

approvalGateForCompletion(t, u, b) ==
  \/ ~goingToDone(t, b) /\ ~goingToFullProgress(t, b)
  \/ profile[u].isSuperAdmin
  \/ t.approvalStatus = "approved"

updatePatch(t, b) ==
  [fields |-> {x \in {"status"} : nextStatus(t, b) # t.status}
              \cup {x \in {"progress"} : nextProgress(t, b) # t.progress}
              \cup (b.fields \cap {"customFields"}),
   status |-> nextStatus(t, b), progress |-> nextProgress(t, b)]

updateTaskLoad(u, b) ==
  /\ profile[u].isActive
  /\ Cardinality(inflight) < MaxInFlight
  /\ approvalGateForCompletion(task, u, b)
  /\ updatePatch(task, b).fields # {}
  /\ inflight' = inflight \cup {[by |-> u, patch |-> updatePatch(task, b)]}
  /\ UNCHANGED <<profile, task, flow, atSubmit>>

applyPatch(t, p) ==
  [status |-> IF "status" \in p.fields THEN p.status ELSE t.status,
   progress |-> IF "progress" \in p.fields THEN p.progress ELSE t.progress,
   approvalStatus |-> IF "approvalStatus" \in p.fields THEN "approved" ELSE t.approvalStatus,
   snapshot |-> IF "customFields" \in p.fields THEN NoSnapshot ELSE t.snapshot]

updateTaskWrite(r) ==
  /\ task' = applyPatch(task, r.patch)
  /\ inflight' = inflight \ {r}
  /\ UNCHANGED <<profile, flow, atSubmit>>

(* A dependency marked done completes its shadow task (the caller's read    *)
(* and write are the same pair of steps).                                    *)
syncPatch(t) ==
  [fields |-> {x \in {"status"} : t.status # "done"}
              \cup {x \in {"progress"} : t.progress # 100}
              \cup {x \in {"approvalStatus"} : t.approvalStatus # "approved"},
   status |-> "done", progress |-> 100]

syncExistingLinkedTaskDone(u) ==
  /\ Linked
  /\ profile[u].isActive
  /\ Cardinality(inflight) < MaxInFlight
  /\ syncPatch(task).fields # {}
  /\ inflight' = inflight \cup {[by |-> u, patch |-> syncPatch(task)]}
  /\ UNCHANGED <<profile, task, flow, atSubmit>>

---------------------------------------------------------------------------
(* User administration. *)

activeSuperAdminsBut(u) ==
  {v \in User \ {u} : profile[v].isSuperAdmin /\ profile[v].isActive}

(* assertNotLastTier1Change *)
notLastTier1Change(u) == profile[u].isSuperAdmin => activeSuperAdminsBut(u) # {}

(* canManageUser, scope 'full' *)
hasFullScope(a, u) ==
  \/ profile[a].isSuperAdmin
  \/ profile[a].role = "admin" /\ ~profile[u].isSuperAdmin

(* PUT /users/:id/toggle-status.  Deactivation is tier 1's and skips the     *)
(* user's pending approval rows.                                             *)
toggleUserStatus(a, u) ==
  /\ profile[a].isActive /\ a # u /\ hasFullScope(a, u)
  /\ profile[u].isActive => profile[a].isSuperAdmin /\ notLastTier1Change(u)
  /\ profile' = [profile EXCEPT ![u].isActive = ~@]
  /\ flow' = [l \in DOMAIN flow |->
                IF profile[u].isActive /\ flow[l].userId = u /\ flow[l].status = "pending"
                THEN [flow[l] EXCEPT !.status = "skipped"] ELSE flow[l]]
  /\ UNCHANGED <<task, inflight, atSubmit>>

(* PUT /users/:id with role, isSuperAdmin or isActive.  It leaves the        *)
(* approval rows alone.                                                      *)
updateUser(a, u, p) ==
  /\ profile[a].isActive /\ a # u /\ hasFullScope(a, u)
  /\ p # profile[u]
  /\ p.isSuperAdmin # profile[u].isSuperAdmin => profile[a].isSuperAdmin
  /\ ~p.isSuperAdmin \/ ~p.isActive => notLastTier1Change(u)
  /\ profile' = [profile EXCEPT ![u] = p]
  /\ UNCHANGED <<task, flow, inflight, atSubmit>>

---------------------------------------------------------------------------
Next ==
  \/ \E u \in User : submitForApproval(u)
  \/ \E u \in User : approveTask(u)
  \/ \E u \in User : rejectTask(u)
  \/ \E u \in User : requestChanges(u)
  \/ \E u \in User, b \in Edit : updateTaskLoad(u, b)
  \/ \E u \in User : syncExistingLinkedTaskDone(u)
  \/ \E r \in inflight : updateTaskWrite(r)
  \/ \E a \in User, u \in Deactivable : toggleUserStatus(a, u)
  \/ \E a \in User, r \in Reprofile : updateUser(a, r.user, r.profile)

Spec == Init /\ [][Next]_vars

---------------------------------------------------------------------------
(* Safety. *)

(* The submitter's row stays the record of the submission, and the          *)
(* submitter holds no approver row, even when promoted to super admin while  *)
(* the cycle is open or after bounces reopened stages: nobody decides on      *)
(* their own work (the self-approval guard of processApprovalAction).        *)
SubmitterKeepsOut ==
  DOMAIN flow # {} =>
    /\ flow[0].status = "submitted"
    /\ \A l \in DOMAIN flow \ {0} :
         flow[l].userId # flow[0].userId /\ flow[l].status # "submitted"

(* A parallel stage is any-of: once one member decided, no peer is left      *)
(* pending, and a stage that waits holds no decision of an earlier pass      *)
(* (peer skipping, early completion and bounce of processApprovalAction).    *)
StageDiscipline ==
  \A k, l \in DOMAIN flow :
    flow[k].stage = flow[l].stage /\ flow[k].status = "pending"
      => flow[l].status \in {"pending", "skipped"}

RowsAt(s) == {l \in DOMAIN flow \ {0} : flow[l].stage = s}
Stages == {flow[l].stage : l \in DOMAIN flow \ {0}}

StageSignedOff(s) == \E l \in RowsAt(s) : flow[l].status = "approved"
StageVacant(s) == \A l \in RowsAt(s) : flow[l].status = "skipped"
Overruled(s) ==
  \E l \in DOMAIN flow : flow[l].override /\ flow[l].status = "approved" /\ flow[l].stage < s

(* An approval is earned: every stage of the chain was signed off, except    *)
(* those all of whose members were deactivated and those a super admin       *)
(* overruled, and somebody did approve.  After any number of bounces, early   *)
(* sign-offs, overrides and deactivations.                                   *)
ApprovalEarned ==
  task.approvalStatus = "approved" /\ DOMAIN flow # {0} =>
    /\ \E l \in DOMAIN flow : flow[l].status = "approved"
    /\ \A s \in Stages : StageSignedOff(s) \/ StageVacant(s) \/ Overruled(s)

(* A closed cycle leaves no row waiting: "until then nothing in the chain     *)
(* sits in a stale 'pending' state" (approvalController.js:723).             *)
TerminalHasNoPending ==
  task.approvalStatus # "pending_approval" => PendingLevels(flow) = {}

(* Nothing but a deactivation can strand a task between "already pending"     *)
(* (409 on submit) and "no pending approval step found" (409 on every          *)
(* decision): otherwise an open cycle has a row that waits (approveTask's       *)
(* completion test, override, early completion and bounce).                   *)
Decidable ==
  task.approvalStatus = "pending_approval" =>
    PendingLevels(flow) # {} \/ \E l \in DOMAIN flow : flow[l].status = "skipped"

(* An open cycle waits for somebody: deactivating an approver lets the        *)
(* "next approver resolution advance past the deactivated approver"            *)
(* (userController.js:526).                                                   *)
OpenCycleWaits ==
  task.approvalStatus = "pending_approval" => PendingLevels(flow) # {}

(* The snapshot lives exactly as long as the cycle: "one cycle's snapshot,    *)
(* one consumer" (approvalLifecycleService.js:19).                           *)
SnapshotLifecycle ==
  task.snapshot # NoSnapshot <=> task.approvalStatus = "pending_approval"

(* A terminal rejection and a request for changes give the task the status    *)
(* and progress it was submitted with: "we restore it verbatim"               *)
(* (approvalLifecycleService.js:124), whatever happened while it waited.      *)
RestoresSubmittedState ==
  [][ task.approvalStatus = "pending_approval"
      /\ task'.approvalStatus \in {"rejected", "changes_requested"}
      => /\ task'.status = atSubmit.status
         /\ task'.progress = atSubmit.progress ]_vars

---------------------------------------------------------------------------
(* The cycle as a submitter sees it: see ApprovalCycle. *)

lastStage == IF Stages = {} THEN 0 ELSE Max(Stages)
waiting == task.approvalStatus = "pending_approval"

Cycle == INSTANCE ApprovalCycle WITH
  phase <- task.approvalStatus,
  stage <- IF ~waiting THEN 0
           ELSE IF PendingLevels(flow) = {} THEN lastStage + 1 ELSE currentStage(flow),
  last <- IF waiting THEN lastStage ELSE 0

(* The handlers implement the abstract cycle. *)
ImplementsCycle == Cycle!Spec
=============================================================================
