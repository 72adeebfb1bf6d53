------------------------- MODULE ApprovalFlow_proofs -------------------------
(***************************************************************************)
(* Theorems about ApprovalFlow, for every set of users, every derivation    *)
(* that satisfies IsChain, every edit and every administration action.      *)
(***************************************************************************)
EXTENDS ApprovalFlow, FiniteSetTheorems, NaturalsInduction, WellFoundedInduction, TLAPS

(* The least element of a set of naturals is one, and is least. *)
LEMMA MinOfNaturals ==
  ASSUME NEW S \in SUBSET Nat, S # {}
  PROVE  Min(S) \in S /\ \A y \in S : Min(S) <= y
<1>. DEFINE T == {0..k : k \in S}
<1>1. T \subseteq FiniteSubsetsOf(Nat) /\ T # {}
  <2>1. \A k \in S : 0..k \in SUBSET Nat /\ IsFiniteSet(0..k)
    BY FS_Interval
  <2>. QED
    BY <2>1 DEF FiniteSubsetsOf
<1>2. PICK x \in T : \A y \in T : <<y, x>> \notin StrictSubsetOrdering(Nat)
  BY <1>1, FS_StrictSubsetOrderingWellFounded, WFMin, Zenon
<1>3. PICK k \in S : x = 0..k
  OBVIOUS
<1>4. \A j \in S : ~(j < k)
  <2>. SUFFICES ASSUME NEW j \in S, j < k PROVE FALSE
    OBVIOUS
  <2>1. 0..j \subseteq Nat /\ 0..k \subseteq Nat /\ 0..j \subseteq 0..k /\ 0..j # 0..k
    <3>1. k \in 0..k /\ k \notin 0..j
      OBVIOUS
    <3>. QED
      BY <3>1
  <2>2. <<0..j, 0..k>> \in StrictSubsetOrdering(Nat)
    BY <2>1, Zenon DEF StrictSubsetOrdering
  <2>. QED
    BY <1>2, <1>3, <2>2
<1>5. \A y \in S : k <= y
  BY <1>4
<1>. QED
  BY <1>5 DEF Min

(* The highest level of a chain with levels 0 to n is n. *)
LEMMA MaxOfInterval ==
  ASSUME NEW n \in Nat
  PROVE  Max(0..n) = n
<1>1. n \in 0..n /\ \A y \in 0..n : n >= y
  OBVIOUS
<1>2. \A x \in 0..n : (\A y \in 0..n : x >= y) => x = n
  OBVIOUS
<1>. QED
  BY <1>1, <1>2 DEF Max

---------------------------------------------------------------------------
(* Type correctness. *)

(* The rows of a chain are numbered 0 to n; a task never submitted has none. *)
Levels(f) == \E n \in Nat \cup {-1} : f \in [0..n -> Row]

TypeInv ==
  /\ profile \in [User -> Profile]
  /\ task \in Task
  /\ Levels(flow)
  /\ inflight \subseteq Request
  /\ atSubmit \in Snapshot

LEMMA LevelsAreCounted ==
  ASSUME NEW f, Levels(f)
  PROVE  f \in [0..(Cardinality(DOMAIN f) - 1) -> Row]
<1>1. PICK n \in Nat \cup {-1} : f \in [0..n -> Row]
  BY DEF Levels
<1>2. Cardinality(0..n) = n + 1
  BY FS_Interval
<1>3. DOMAIN f = 0..n
  BY <1>1
<1>. QED
  BY <1>1, <1>2, <1>3

(* The current stage is the stage of a pending row. *)
LEMMA CurrentStage ==
  ASSUME NEW f, Levels(f), PendingLevels(f) # {}
  PROVE  /\ currentStage(f) \in Nat
         /\ \E l \in PendingLevels(f) : currentStage(f) = f[l].stage
         /\ \A l \in PendingLevels(f) : currentStage(f) <= f[l].stage
<1>1. PendingStages(f) \in SUBSET Nat /\ PendingStages(f) # {}
  BY DEF PendingStages, PendingLevels, Levels, Row
<1>2. currentStage(f) \in PendingStages(f) /\ \A y \in PendingStages(f) : currentStage(f) <= y
  BY <1>1, MinOfNaturals DEF currentStage
<1>. QED
  BY <1>1, <1>2 DEF PendingStages

(* The override row extends a chain by one level. *)
LEMMA OverrideRow ==
  ASSUME NEW f, NEW n \in Nat, f \in [0..n -> Row], PendingLevels(f) # {}, NEW u \in User
  PROVE  /\ withOverrideRow(f, u) \in [0..(n + 1) -> Row]
         /\ \A l \in 0..n : withOverrideRow(f, u)[l] = f[l]
         /\ withOverrideRow(f, u)[n + 1]
              = [stage |-> currentStage(f), userId |-> u, status |-> "pending", override |-> TRUE]
<1>1. Max(DOMAIN f) + 1 = n + 1 /\ DOMAIN f \cup {n + 1} = 0..(n + 1)
  BY MaxOfInterval
<1>2. currentStage(f) \in Nat
  BY CurrentStage DEF Levels
<1>3. [stage |-> currentStage(f), userId |-> u, status |-> "pending", override |-> TRUE] \in Row
  BY <1>2 DEF Row, RowStatus
<1>. QED
  BY <1>1, <1>3 DEF withOverrideRow

LEMMA WorkingFlowLevels ==
  ASSUME NEW u \in User, Levels(flow), PendingLevels(flow) # {}
  PROVE  Levels(workingFlow(u)) /\ DOMAIN flow \subseteq DOMAIN workingFlow(u)
<1>1. PICK n \in Nat : flow \in [0..n -> Row]
  BY DEF Levels, PendingLevels
<1>2. withOverrideRow(flow, u) \in [0..(n + 1) -> Row]
  BY <1>1, OverrideRow
<1>3. n + 1 \in Nat
  OBVIOUS
<1>4. \E m \in Nat : workingFlow(u) \in [0..m -> Row] /\ n <= m
  BY <1>1, <1>2, <1>3 DEF workingFlow
<1>. QED
  BY <1>1, <1>4 DEF Levels

LEMMA DecisionsKeepLevels ==
  ASSUME NEW f, Levels(f), NEW a, NEW override,
         NEW disposition \in {"rejected", "changes_requested"}
  PROVE  Levels(approveRows(f, a, override)) /\ Levels(closeRows(f, a, disposition))
         /\ Levels(bounceRows(f))
<1>1. PICK n \in Nat \cup {-1} : f \in [0..n -> Row]
  BY DEF Levels
<1>2. approveRows(f, a, override) \in [0..n -> Row]
  BY <1>1 DEF approveRows, Row, RowStatus
<1>3. closeRows(f, a, disposition) \in [0..n -> Row]
  BY <1>1 DEF closeRows, Row, RowStatus
<1>4. bounceRows(f) \in [0..n -> Row]
  BY <1>1 DEF bounceRows, Row, RowStatus
<1>. QED
  BY <1>2, <1>3, <1>4 DEF Levels

LEMMA LifecycleTypes ==
  ASSUME NEW t \in Task, NEW s \in ApprovalStatus
  PROVE  /\ [applyApprovalSubmittedState(t) EXCEPT !.approvalStatus = s] \in Task
         /\ [applyApprovalApprovedState(t) EXCEPT !.approvalStatus = s] \in Task
         /\ [applyApprovalRestoredState(t) EXCEPT !.approvalStatus = s] \in Task
<1>1. 0 \in Progress /\ 100 \in Progress
  BY ProgressAssumption
<1>. QED
  BY <1>1, ZenonT(60) DEF Task, Snapshot, Status, ApprovalStatus, applyApprovalSubmittedState,
     applyApprovalApprovedState, applyApprovalRestoredState

(* What the lifecycle helpers do to a well-typed task. *)
LEMMA LifecycleEffects ==
  ASSUME NEW t \in Task, NEW s \in ApprovalStatus
  PROVE  /\ LET g == [applyApprovalSubmittedState(t) EXCEPT !.approvalStatus = s]
            IN  g.approvalStatus = s
                /\ g.snapshot = [status |-> t.status, progress |-> t.progress]
         /\ LET g == [applyApprovalApprovedState(t) EXCEPT !.approvalStatus = s]
            IN  g.approvalStatus = s /\ g.snapshot = NoSnapshot
         /\ LET g == [applyApprovalRestoredState(t) EXCEPT !.approvalStatus = s]
            IN  /\ g.approvalStatus = s /\ g.snapshot = NoSnapshot
                /\ t.snapshot # NoSnapshot
                     => g.status = t.snapshot.status /\ g.progress = t.snapshot.progress
  BY DEF Task, applyApprovalSubmittedState, applyApprovalApprovedState,
     applyApprovalRestoredState

(* A pending cycle has a chain, so every decision acts on a well-typed one. *)
LEMMA MayProcess ==
  ASSUME NEW u \in User, mayProcess(u)
  PROVE  PendingLevels(flow) # {}
  BY DEF mayProcess, canAct

LEMMA InitTypeInv == Init => TypeInv
<1>. SUFFICES ASSUME Init PROVE TypeInv
  OBVIOUS
<1>1. EmptyFlow \in [0..(-1) -> Row]
  BY DEF EmptyFlow
<1>2. Levels(flow)
  BY <1>1 DEF Init, Levels
<1>3. task \in Task
  BY RequestAssumption DEF Init
<1>4. atSubmit \in Snapshot
  BY <1>3 DEF Init, Task, Snapshot
<1>. QED
  BY <1>2, <1>3, <1>4, RequestAssumption DEF Init, TypeInv

LEMMA NextTypeInv == TypeInv /\ [Next]_vars => TypeInv'
<1>. SUFFICES ASSUME TypeInv, [Next]_vars PROVE TypeInv'
  OBVIOUS
<1>. USE DEF TypeInv
<1>1. ASSUME NEW u \in User, submitForApproval(u) PROVE TypeInv'
  <2>. DEFINE chain == deriveApprovalChain(profile, u)
              n == Cardinality(DOMAIN chain) - 1
  <2>1. n \in Nat /\ chain \in [0..n -> [stage : Nat, userId : User]]
    BY ChainAssumption DEF IsChain
  <2>2. flow' \in [0..n -> Row]
    BY <1>1, <2>1 DEF submitForApproval, Row, RowStatus
  <2>3. Levels(flow')
    BY <2>1, <2>2 DEF Levels
  <2>4. task' \in Task
    BY <1>1, LifecycleTypes DEF submitForApproval, ApprovalStatus
  <2>5. atSubmit' \in Snapshot
    BY <1>1 DEF submitForApproval, Snapshot, Task
  <2>. QED
    BY <1>1, <2>3, <2>4, <2>5 DEF submitForApproval
<1>2. ASSUME NEW u \in User, approveTask(u) PROVE TypeInv'
  <2>1. Levels(workingFlow(u))
    BY <1>2, MayProcess, WorkingFlowLevels DEF approveTask
  <2>2. Levels(flow')
    BY <1>2, <2>1, DecisionsKeepLevels DEF approveTask
  <2>3. task' \in Task
    BY <1>2, LifecycleTypes DEF approveTask, ApprovalStatus
  <2>. QED
    BY <1>2, <2>2, <2>3 DEF approveTask
<1>3. ASSUME NEW u \in User, rejectTask(u) PROVE TypeInv'
  <2>1. Levels(workingFlow(u))
    BY <1>3, MayProcess, WorkingFlowLevels DEF rejectTask
  <2>2. Levels(flow')
    BY <1>3, <2>1, DecisionsKeepLevels DEF rejectTask
  <2>3. task' \in Task
    BY <1>3, LifecycleTypes DEF rejectTask, ApprovalStatus
  <2>. QED
    BY <1>3, <2>2, <2>3 DEF rejectTask
<1>4. ASSUME NEW u \in User, requestChanges(u) PROVE TypeInv'
  <2>1. Levels(workingFlow(u))
    BY <1>4, MayProcess, WorkingFlowLevels DEF requestChanges
  <2>2. Levels(flow')
    BY <1>4, <2>1, DecisionsKeepLevels DEF requestChanges
  <2>3. task' \in Task
    BY <1>4, LifecycleTypes DEF requestChanges, ApprovalStatus
  <2>. QED
    BY <1>4, <2>2, <2>3 DEF requestChanges
<1>5. ASSUME NEW u \in User, NEW b \in Edit, updateTaskLoad(u, b) PROVE TypeInv'
  <2>1. b \in Body /\ 100 \in Progress
    BY RequestAssumption, ProgressAssumption
  <2>2. updatePatch(task, b) \in Patch
    BY <2>1 DEF updatePatch, Patch, Body, Task, Status, nextStatus, nextProgress, Sends
  <2>3. inflight' \subseteq Request
    BY <1>5, <2>2 DEF updateTaskLoad, Request
  <2>. QED
    BY <1>5, <2>3 DEF updateTaskLoad
<1>6. ASSUME NEW u \in User, syncExistingLinkedTaskDone(u) PROVE TypeInv'
  <2>1. syncPatch(task) \in Patch
    BY ProgressAssumption DEF syncPatch, Patch, Status
  <2>2. inflight' \subseteq Request
    BY <1>6, <2>1 DEF syncExistingLinkedTaskDone, Request
  <2>. QED
    BY <1>6, <2>2 DEF syncExistingLinkedTaskDone
<1>7. ASSUME NEW r \in inflight, updateTaskWrite(r) PROVE TypeInv'
  <2>1. r.patch \in Patch
    BY DEF Request
  <2>2. task' \in Task
    BY <1>7, <2>1 DEF updateTaskWrite, applyPatch, Patch, Task, ApprovalStatus
  <2>. QED
    BY <1>7, <2>2 DEF updateTaskWrite
<1>8. ASSUME NEW a \in User, NEW u \in Deactivable, toggleUserStatus(a, u) PROVE TypeInv'
  <2>1. PICK n \in Nat \cup {-1} : flow \in [0..n -> Row]
    BY DEF Levels
  <2>2. flow' \in [0..n -> Row]
    BY <1>8, <2>1 DEF toggleUserStatus, Row, RowStatus
  <2>3. Levels(flow')
    BY <2>2 DEF Levels
  <2>4. profile' \in [User -> Profile]
    BY <1>8, RequestAssumption DEF toggleUserStatus, Profile
  <2>. QED
    BY <1>8, <2>3, <2>4 DEF toggleUserStatus
<1>9. ASSUME NEW a \in User, NEW r \in Reprofile, updateUser(a, r.user, r.profile) PROVE TypeInv'
  <2>1. r.user \in User /\ r.profile \in Profile
    BY RequestAssumption
  <2>. QED
    BY <1>9, <2>1 DEF updateUser
<1>10. CASE UNCHANGED vars
  BY <1>10 DEF vars
<1>. QED
  BY <1>1, <1>2, <1>3, <1>4, <1>5, <1>6, <1>7, <1>8, <1>9, <1>10 DEF Next

(* Every state of the approval cycle is well typed: the columns hold values  *)
(* of their enumerations and the levels of the chain are contiguous from 0,   *)
(* for every derivation and every interleaving (processApprovalAction,        *)
(* updateTask, toggleUserStatus, updateUser).                                 *)
THEOREM TypeCorrect == Spec => []TypeOK
<1>1. TypeInv => TypeOK
  BY LevelsAreCounted DEF TypeInv, TypeOK
<1>. QED
  BY <1>1, InitTypeInv, NextTypeInv, PTL DEF Spec

---------------------------------------------------------------------------
(* The chain keeps its shape: level 0 records the submitter, the reviewers   *)
(* stand above it, and no stage mixes waiting and decided rows.               *)

Submitted(f) ==
  DOMAIN f # {} =>
    /\ f[0].stage = 0 /\ f[0].status = "submitted"
    /\ \A l \in DOMAIN f \ {0} :
         f[l].stage >= 1 /\ f[l].userId # f[0].userId /\ f[l].status # "submitted"

ChainInv == TypeInv /\ Submitted(flow) /\ StageDiscipline

(* The row an override inserts is not the submitter's and is not at stage 0. *)
LEMMA WorkingFlowSubmitted ==
  ASSUME ChainInv, NEW u \in User, mayProcess(u)
  PROVE  Submitted(workingFlow(u))
<1>1. PendingLevels(flow) # {}
  BY MayProcess
<1>2. PICK n \in Nat : flow \in [0..n -> Row]
  BY <1>1 DEF ChainInv, TypeInv, Levels, PendingLevels
<1>3. CASE workingFlow(u) = flow
  BY <1>3 DEF ChainInv
<1>4. CASE workingFlow(u) = withOverrideRow(flow, u)
  <2>. DEFINE g == withOverrideRow(flow, u)
  <2>1. /\ g \in [0..(n + 1) -> Row]
        /\ \A l \in 0..n : g[l] = flow[l]
        /\ g[n + 1] = [stage |-> currentStage(flow), userId |-> u, status |-> "pending",
                       override |-> TRUE]
    BY <1>1, <1>2, OverrideRow
  <2>2. Submitted(flow) /\ DOMAIN flow = 0..n
    BY <1>2 DEF ChainInv
  <2>3. currentStage(flow) \in Nat /\ currentStage(flow) >= 1
    <3>1. PICK l \in PendingLevels(flow) : currentStage(flow) = flow[l].stage
      BY <1>1, CurrentStage DEF ChainInv, TypeInv
    <3>2. l \in 0..n /\ l # 0
      BY <2>2, <3>1 DEF Submitted, PendingLevels
    <3>. QED
      BY <1>1, <2>2, <3>1, <3>2, CurrentStage DEF Submitted, ChainInv, TypeInv
  <2>4. flow[0].userId # u
    BY <1>2 DEF mayProcess, canAct
  <2>5. g[0] = flow[0] /\ DOMAIN g = 0..(n + 1)
    BY <2>1
  <2>6. \A l \in 1..n : g[l].stage >= 1 /\ g[l].userId # g[0].userId /\ g[l].status # "submitted"
    BY <2>1, <2>2, <2>5, SMTT(30) DEF Submitted
  <2>7. g[n + 1].stage >= 1 /\ g[n + 1].userId # g[0].userId /\ g[n + 1].status # "submitted"
    BY <2>1, <2>3, <2>4, <2>5
  <2>8. \A l \in 0..(n + 1) \ {0} : l \in 1..n \/ l = n + 1
    OBVIOUS
  <2>9. g[0].stage = 0 /\ g[0].status = "submitted"
    BY <2>2, <2>5 DEF Submitted
  <2>. QED
    BY <1>4, <2>5, <2>6, <2>7, <2>8, <2>9 DEF Submitted
<1>. QED
  BY <1>3, <1>4 DEF workingFlow

(* Among some rows of a chain one is lowest: by stage, then by level. *)
LEMMA LowestRow ==
  ASSUME NEW f, Levels(f), NEW L, L \subseteq DOMAIN f, L # {}
  PROVE  /\ lowestRow(f, L) \in L
         /\ \A k \in L : \/ f[lowestRow(f, L)].stage < f[k].stage
                         \/ f[lowestRow(f, L)].stage = f[k].stage /\ lowestRow(f, L) <= k
<1>. DEFINE S == {f[l].stage : l \in L}
            M == {l \in L : f[l].stage = Min(S)}
<1>1. L \subseteq Nat /\ \A l \in L : f[l].stage \in Nat
  BY DEF Levels, Row
<1>2. Min(S) \in S /\ \A s \in S : Min(S) <= s
  <2>1. S \in SUBSET Nat /\ S # {}
    BY <1>1
  <2>. QED
    BY <2>1, MinOfNaturals
<1>3. M \subseteq Nat /\ M # {}
  BY <1>1, <1>2
<1>4. Min(M) \in M /\ \A l \in M : Min(M) <= l
  BY <1>3, MinOfNaturals
<1>5. ASSUME NEW k \in L
      PROVE  f[Min(M)].stage < f[k].stage \/ (f[Min(M)].stage = f[k].stage /\ Min(M) <= k)
  <2>1. f[Min(M)].stage = Min(S) /\ Min(S) <= f[k].stage /\ Min(S) \in Nat
    BY <1>1, <1>2, <1>4
  <2>2. f[k].stage = Min(S) => Min(M) <= k
    BY <1>4
  <2>. HIDE DEF S, M
  <2>. QED
    BY <1>1, <2>1, <2>2
<1>6. Min(M) \in L
  BY <1>4
<1>. QED
  BY <1>5, <1>6 DEF lowestRow

(* Whoever may act has a pending row to act with. *)
LEMMA ActorLevel ==
  ASSUME ChainInv, NEW u \in User, mayProcess(u)
  PROVE  actorLevel(workingFlow(u), u) \in MyPending(workingFlow(u), u)
<1>1. PICK n \in Nat : flow \in [0..n -> Row]
  BY MayProcess DEF ChainInv, TypeInv, Levels, PendingLevels
<1>2. MyPending(workingFlow(u), u) # {}
  <2>1. CASE isOverride(flow, u)
    <3>1. n + 1 \in MyPending(withOverrideRow(flow, u), u)
      <4>. DEFINE g == withOverrideRow(flow, u)
      <4>1. g \in [0..(n + 1) -> Row] /\ g[n + 1].status = "pending" /\ g[n + 1].userId = u
        <5>1. PendingLevels(flow) # {}
          BY MayProcess
        <5>2. g \in [0..(n + 1) -> Row]
              /\ g[n + 1] = [stage |-> currentStage(flow), userId |-> u, status |-> "pending",
                             override |-> TRUE]
          BY <1>1, <5>1, OverrideRow
        <5>. QED
          BY <5>2
      <4>. QED
        BY <4>1 DEF MyPending, PendingLevels
    <3>. QED
      BY <2>1, <3>1 DEF workingFlow
  <2>2. CASE ~isOverride(flow, u)
    BY <2>2 DEF workingFlow, isOverride, mayProcess, canAct
  <2>. QED
    BY <2>1, <2>2
<1>3. Levels(workingFlow(u))
  BY MayProcess, WorkingFlowLevels DEF ChainInv, TypeInv
<1>. QED
  BY <1>2, <1>3, LowestRow DEF actorLevel, MyPending, PendingLevels

(* StageDiscipline of any chain. *)
Discipline(f) ==
  \A k, l \in DOMAIN f :
    f[k].stage = f[l].stage /\ f[k].status = "pending" => f[l].status \in {"pending", "skipped"}

(* An approval decides its stage as a whole and everything below it; an      *)
(* override decides everything.                                              *)
LEMMA ApproveKeepsChain ==
  ASSUME ChainInv, NEW u \in User, mayProcess(u)
  PROVE  LET f == workingFlow(u)
             g == approveRows(f, actorLevel(f, u), isOverride(flow, u))
         IN  Submitted(g) /\ Discipline(g)
<1>. DEFINE f == workingFlow(u)
            a == actorLevel(f, u)
            g == approveRows(f, a, isOverride(flow, u))
<1>1. Submitted(f) /\ a \in DOMAIN f /\ f[a].status = "pending" /\ Levels(f)
  BY WorkingFlowSubmitted, ActorLevel, MayProcess, WorkingFlowLevels
     DEF MyPending, PendingLevels, ChainInv, TypeInv
<1>2. a # 0
  BY <1>1 DEF Submitted
<1>3. PICK n \in Nat : f \in [0..n -> Row]
  BY <1>1 DEF Levels
<1>4. DOMAIN g = DOMAIN f
      /\ \A l \in DOMAIN f : g[l].stage = f[l].stage /\ g[l].userId = f[l].userId
                             /\ (g[l].status # f[l].status
                                 => l = a \/ f[l].status = "pending")
                             /\ (g[l].status = "submitted" => f[l].status = "submitted")
  BY <1>3 DEF approveRows, Row
<1>5. Submitted(g)
  BY <1>1, <1>2, <1>3, <1>4 DEF Submitted
<1>6. Discipline(g)
  <2>1. CASE isOverride(flow, u)
    <3>1. \A l \in DOMAIN g : g[l].status # "pending"
      BY <1>3, <1>1, <2>1 DEF approveRows, Row
    <3>. QED
      BY <3>1 DEF Discipline
  <2>2. CASE ~isOverride(flow, u)
    <3>1. f = flow
      BY <2>2 DEF workingFlow
    <3>2. \A l \in DOMAIN f : g[l].status = "pending"
            => f[l].status = "pending" /\ f[l].stage > f[a].stage
      BY <1>1, <1>3, <2>2 DEF approveRows, Row
    <3>3. \A l \in DOMAIN f : f[l].stage > f[a].stage => g[l].status = f[l].status
      BY <1>1, <1>3, <2>2 DEF approveRows, Row
    <3>. QED
      BY <1>4, <3>1, <3>2, <3>3 DEF ChainInv, StageDiscipline, Discipline
  <2>. QED
    BY <2>1, <2>2
<1>. QED
  BY <1>5, <1>6

(* Closing the cycle leaves nothing pending. *)
LEMMA CloseKeepsChain ==
  ASSUME ChainInv, NEW u \in User, mayProcess(u),
         NEW disposition \in {"rejected", "changes_requested"}
  PROVE  LET f == workingFlow(u)
             g == closeRows(f, actorLevel(f, u), disposition)
         IN  Submitted(g) /\ PendingLevels(g) = {}
<1>. DEFINE f == workingFlow(u)
            a == actorLevel(f, u)
            g == closeRows(f, a, disposition)
<1>1. Submitted(f) /\ a \in DOMAIN f /\ f[a].status = "pending" /\ Levels(f)
  BY WorkingFlowSubmitted, ActorLevel, MayProcess, WorkingFlowLevels
     DEF MyPending, PendingLevels, ChainInv, TypeInv
<1>2. a # 0
  BY <1>1 DEF Submitted
<1>3. PICK n \in Nat : f \in [0..n -> Row]
  BY <1>1 DEF Levels
<1>4. DOMAIN g = DOMAIN f
      /\ \A l \in DOMAIN f : g[l].stage = f[l].stage /\ g[l].userId = f[l].userId
                             /\ g[l].status # "pending"
                             /\ (g[l].status # f[l].status
                                 => l = a \/ f[l].status = "pending")
                             /\ (g[l].status = "submitted" => f[l].status = "submitted")
  BY <1>3 DEF closeRows, Row
<1>. QED
  BY <1>1, <1>2, <1>3, <1>4 DEF Submitted, PendingLevels

(* A bounce reopens two whole stages, both above the submitter's. *)
LEMMA BounceKeepsChain ==
  ASSUME ChainInv, NEW u \in User, mayProcess(u),
         ~isTerminalReject(workingFlow(u), actorLevel(workingFlow(u), u), u)
  PROVE  /\ workingFlow(u) = flow
         /\ Submitted(bounceRows(flow)) /\ Discipline(bounceRows(flow))
<1>1. workingFlow(u) = flow /\ ~(currentStage(flow) <= 1)
  BY DEF isTerminalReject, workingFlow, isOverride
<1>2. PICK n \in Nat : flow \in [0..n -> Row]
  BY MayProcess DEF ChainInv, TypeInv, Levels, PendingLevels
<1>3. currentStage(flow) \in Nat
  BY MayProcess, CurrentStage DEF ChainInv, TypeInv
<1>. DEFINE g == bounceRows(flow)
            reopened == {l \in 0..n : flow[l].stage \in {currentStage(flow) - 1, currentStage(flow)}}
<1>4. /\ DOMAIN g = 0..n
      /\ \A l \in 0..n : g[l].stage = flow[l].stage /\ g[l].userId = flow[l].userId
      /\ \A l \in reopened : g[l].status = "pending"
      /\ \A l \in 0..n \ reopened : g[l].status = flow[l].status
  BY <1>2 DEF bounceRows, Row
<1>5. 0 \notin reopened
  <2>1. flow[0].stage = 0 /\ currentStage(flow) - 1 # 0 /\ currentStage(flow) # 0
    BY <1>1, <1>2, <1>3 DEF ChainInv, Submitted
  <2>. QED
    BY <2>1
<1>6. Submitted(g)
  BY <1>2, <1>4, <1>5 DEF ChainInv, Submitted
<1>7. Discipline(g)
  BY <1>2, <1>4 DEF ChainInv, StageDiscipline, Discipline
<1>. QED
  BY <1>1, <1>6, <1>7

LEMMA InitChainInv == Init => ChainInv
<1>. SUFFICES ASSUME Init PROVE ChainInv
  OBVIOUS
<1>1. DOMAIN flow = {}
  BY DEF Init, EmptyFlow
<1>. QED
  BY <1>1, InitTypeInv DEF ChainInv, Submitted, StageDiscipline

LEMMA NextChainInv == ChainInv /\ [Next]_vars => ChainInv'
<1>. SUFFICES ASSUME ChainInv, [Next]_vars PROVE Submitted(flow') /\ Discipline(flow')
  BY NextTypeInv DEF ChainInv, Submitted, StageDiscipline, Discipline
<1>. USE DEF ChainInv
<1>1. ASSUME NEW u \in User, submitForApproval(u) PROVE Submitted(flow') /\ Discipline(flow')
  <2>. DEFINE chain == deriveApprovalChain(profile, u)
              n == Cardinality(DOMAIN chain) - 1
  <2>1. /\ n \in Nat /\ chain \in [0..n -> [stage : Nat, userId : User]]
        /\ chain[0] = [stage |-> 0, userId |-> u]
        /\ \A l \in 1..n : chain[l].stage \in 1..n /\ chain[l].userId # u
    BY ChainAssumption DEF IsChain, TypeInv
  <2>2. /\ DOMAIN flow' = 0..n
        /\ \A l \in 0..n :
             flow'[l] = [stage |-> chain[l].stage, userId |-> chain[l].userId,
                         status |-> IF l = 0 THEN "submitted" ELSE "pending", override |-> FALSE]
    BY <1>1, <2>1 DEF submitForApproval
  <2>3. flow'[0].stage = 0 /\ flow'[0].status = "submitted" /\ flow'[0].userId = u
    BY <2>1, <2>2
  <2>4. \A l \in 0..n \ {0} :
          flow'[l].stage >= 1 /\ flow'[l].userId # u /\ flow'[l].status = "pending"
    BY <2>1, <2>2
  <2>5. Submitted(flow')
    BY <2>2, <2>3, <2>4 DEF Submitted
  <2>6. Discipline(flow')
    BY <2>2, <2>3, <2>4 DEF Discipline
  <2>. QED
    BY <2>5, <2>6
<1>2. ASSUME NEW u \in User, approveTask(u) PROVE Submitted(flow') /\ Discipline(flow')
  BY <1>2, ApproveKeepsChain DEF approveTask
<1>3. ASSUME NEW u \in User, rejectTask(u) PROVE Submitted(flow') /\ Discipline(flow')
  <2>1. CASE isTerminalReject(workingFlow(u), actorLevel(workingFlow(u), u), u)
    <3>1. Submitted(flow') /\ PendingLevels(flow') = {}
      BY <1>3, <2>1, CloseKeepsChain DEF rejectTask
    <3>. QED
      BY <3>1 DEF Discipline, PendingLevels
  <2>2. CASE ~isTerminalReject(workingFlow(u), actorLevel(workingFlow(u), u), u)
    BY <1>3, <2>2, BounceKeepsChain DEF rejectTask
  <2>. QED
    BY <2>1, <2>2
<1>4. ASSUME NEW u \in User, requestChanges(u) PROVE Submitted(flow') /\ Discipline(flow')
  <2>1. Submitted(flow') /\ PendingLevels(flow') = {}
    BY <1>4, CloseKeepsChain DEF requestChanges
  <2>. QED
    BY <2>1 DEF Discipline, PendingLevels
<1>5. ASSUME NEW a \in User, NEW u \in Deactivable, toggleUserStatus(a, u)
      PROVE  Submitted(flow') /\ Discipline(flow')
  <2>1. PICK n \in Nat \cup {-1} : flow \in [0..n -> Row]
    BY DEF TypeInv, Levels
  <2>2. DOMAIN flow' = DOMAIN flow
        /\ \A l \in DOMAIN flow :
             /\ flow'[l].stage = flow[l].stage /\ flow'[l].userId = flow[l].userId
             /\ \/ flow'[l].status = flow[l].status
                \/ flow[l].status = "pending" /\ flow'[l].status = "skipped"
    BY <1>5, <2>1 DEF toggleUserStatus, Row
  <2>3. Submitted(flow')
    BY <2>1, <2>2 DEF Submitted
  <2>4. Discipline(flow')
    BY <2>2 DEF StageDiscipline, Discipline
  <2>. QED
    BY <2>3, <2>4
<1>6. CASE UNCHANGED flow
  BY <1>6 DEF StageDiscipline, Discipline
<1>. QED
  BY <1>1, <1>2, <1>3, <1>4, <1>5, <1>6
     DEF Next, vars, updateTaskLoad, syncExistingLinkedTaskDone, updateTaskWrite, updateUser

(* Nobody ever decides on their own submission: also for a submitter promoted *)
(* to super admin, and whatever overrides, bounces, deactivations and stale    *)
(* updates happened (the self-approval guard, approvalController.js:468).      *)
THEOREM SubmitterKeptOut == Spec => []SubmitterKeepsOut
<1>1. ChainInv => SubmitterKeepsOut
  BY DEF ChainInv, Submitted, SubmitterKeepsOut
<1>. QED
  BY <1>1, InitChainInv, NextChainInv, PTL DEF Spec

(* A stage is decided as a whole: no approver is left waiting beside a peer's  *)
(* decision and no decision of an earlier pass survives a bounce.              *)
THEOREM StagesDisciplined == Spec => []StageDiscipline
<1>1. ChainInv => StageDiscipline
  BY DEF ChainInv
<1>. QED
  BY <1>1, InitChainInv, NextChainInv, PTL DEF Spec

---------------------------------------------------------------------------
(* Closed cycles have nothing pending.  On a task that is no shadow of a      *)
(* dependency, only the locked handlers write approvalStatus.                 *)

ClosedInv ==
  /\ ChainInv
  /\ TerminalHasNoPending
  /\ \A r \in inflight : "approvalStatus" \notin r.patch.fields

LEMMA NextClosedInv == ~Linked /\ ClosedInv /\ [Next]_vars => ClosedInv'
<1>. SUFFICES ASSUME ~Linked, ClosedInv, [Next]_vars
              PROVE  /\ TerminalHasNoPending'
                     /\ (\A r \in inflight : "approvalStatus" \notin r.patch.fields)'
  BY NextChainInv DEF ClosedInv
<1>. USE DEF ClosedInv
<1>0. task \in Task
  BY DEF ChainInv, TypeInv
<1>1. ASSUME NEW u \in User, submitForApproval(u) PROVE TerminalHasNoPending'
  <2>. DEFINE chain == deriveApprovalChain(profile, u)
  <2>1. CASE DOMAIN chain = {0}
    BY <1>1, <2>1 DEF submitForApproval, TerminalHasNoPending, PendingLevels
  <2>2. CASE DOMAIN chain # {0}
    <3>1. task'.approvalStatus = "pending_approval"
      BY <1>0, <1>1, <2>2 DEF submitForApproval, applyApprovalSubmittedState, Task
    <3>. QED
      BY <3>1 DEF TerminalHasNoPending
  <2>. QED
    BY <2>1, <2>2
<1>2. ASSUME NEW u \in User, approveTask(u) PROVE TerminalHasNoPending'
  BY <1>2 DEF approveTask, mayProcess, TerminalHasNoPending
<1>3. ASSUME NEW u \in User, rejectTask(u) PROVE TerminalHasNoPending'
  <2>1. CASE isTerminalReject(workingFlow(u), actorLevel(workingFlow(u), u), u)
    <3>1. PendingLevels(flow') = {}
      BY <1>3, <2>1, CloseKeepsChain DEF rejectTask
    <3>. QED
      BY <3>1 DEF TerminalHasNoPending
  <2>2. CASE ~isTerminalReject(workingFlow(u), actorLevel(workingFlow(u), u), u)
    BY <1>3, <2>2 DEF rejectTask, mayProcess, TerminalHasNoPending
  <2>. QED
    BY <2>1, <2>2
<1>4. ASSUME NEW u \in User, requestChanges(u) PROVE TerminalHasNoPending'
  <2>1. PendingLevels(flow') = {}
    BY <1>4, CloseKeepsChain DEF requestChanges
  <2>. QED
    BY <2>1 DEF TerminalHasNoPending
<1>5. ASSUME NEW u \in User, NEW b \in Edit, updateTaskLoad(u, b) PROVE ClosedInv'
  <2>1. b \in Body
    BY RequestAssumption
  <2>2. "approvalStatus" \notin updatePatch(task, b).fields
    BY <2>1 DEF updatePatch, Body
  <2>. QED
    BY <1>5, <2>2, NextChainInv DEF updateTaskLoad, TerminalHasNoPending
<1>6. ASSUME NEW r \in inflight, updateTaskWrite(r) PROVE ClosedInv'
  <2>1. task'.approvalStatus = task.approvalStatus
    BY <1>6 DEF updateTaskWrite, applyPatch
  <2>. QED
    BY <1>6, <2>1, NextChainInv DEF updateTaskWrite, TerminalHasNoPending
<1>7. ASSUME NEW a \in User, NEW u \in Deactivable, toggleUserStatus(a, u)
      PROVE  TerminalHasNoPending'
  <2>1. PICK n \in Nat \cup {-1} : flow \in [0..n -> Row]
    BY DEF ChainInv, TypeInv, Levels
  <2>2. PendingLevels(flow') \subseteq PendingLevels(flow)
    BY <1>7, <2>1 DEF toggleUserStatus, PendingLevels, Row
  <2>. QED
    BY <1>7, <2>2 DEF toggleUserStatus, TerminalHasNoPending
<1>8. CASE UNCHANGED <<task, flow, inflight>>
  BY <1>8 DEF TerminalHasNoPending
<1>9. ASSUME NEW u \in User, syncExistingLinkedTaskDone(u) PROVE FALSE
  BY <1>9 DEF syncExistingLinkedTaskDone
<1>. QED
  BY <1>1, <1>2, <1>3, <1>4, <1>5, <1>6, <1>7, <1>8, <1>9
     DEF Next, vars, submitForApproval, approveTask, rejectTask, requestChanges,
         toggleUserStatus, updateUser

(* Once a cycle ended no row of its chain waits any more, on every task that  *)
(* is not the shadow of a dependency (approvalController.js:723): the sync of    *)
(* a shadow approves the task and leaves the rows.                            *)
THEOREM ClosedCyclesAreSettled ==
  ASSUME ~Linked
  PROVE  Spec => []TerminalHasNoPending
<1>1. Init => ClosedInv
  BY InitChainInv DEF Init, ClosedInv, TerminalHasNoPending, PendingLevels, EmptyFlow
<1>2. ClosedInv => TerminalHasNoPending
  BY DEF ClosedInv
<1>3. ClosedInv /\ [Next]_vars => ClosedInv'
  BY NextClosedInv
<1>. QED
  BY <1>1, <1>2, <1>3, PTL DEF Spec

---------------------------------------------------------------------------
(* An approval rests on every stage.  While the cycle is open every stage     *)
(* waits, is signed off or was vacated, and somebody has been skipped if       *)
(* nobody waits; an override's approval ends the cycle, so the open cycle needs *)
(* no case for it.                                                          *)

SameStage(f, k, l) == f[k].stage = f[l].stage
Vacated(f, l) == \A k \in DOMAIN f \ {0} : SameStage(f, k, l) => f[k].status = "skipped"

Covered(f) ==
  \A l \in DOMAIN f \ {0} :
    \/ \E k \in DOMAIN f \ {0} : SameStage(f, k, l) /\ f[k].status \in {"pending", "approved"}
    \/ Vacated(f, l)

Earned(f) ==
  /\ \E l \in DOMAIN f : f[l].status = "approved"
  /\ \A l \in DOMAIN f \ {0} :
       \/ \E k \in DOMAIN f \ {0} : SameStage(f, k, l) /\ f[k].status = "approved"
       \/ Vacated(f, l)
       \/ \E k \in DOMAIN f :
            f[k].override /\ f[k].status = "approved" /\ f[k].stage < f[l].stage

Waits(f) == PendingLevels(f) # {} \/ \E l \in DOMAIN f : f[l].status = "skipped"

EarnedInv ==
  /\ ClosedInv
  /\ task.approvalStatus = "pending_approval" => Covered(flow) /\ Waits(flow)
  /\ task.approvalStatus = "approved" /\ DOMAIN flow # {0} => Earned(flow)

(* An approval covers its stage and those below; an override's also overrules   *)
(* those above.                                                              *)
LEMMA ApproveCovers ==
  ASSUME ChainInv, Covered(flow), NEW u \in User, mayProcess(u)
  PROVE  LET f == workingFlow(u)
             g == approveRows(f, actorLevel(f, u), isOverride(flow, u))
         IN  /\ PendingLevels(g) # {} => Covered(g)
             /\ PendingLevels(g) = {} => Earned(g)
<1>. DEFINE f == workingFlow(u)
            a == actorLevel(f, u)
            g == approveRows(f, a, isOverride(flow, u))
<1>1. Submitted(f) /\ a \in DOMAIN f /\ f[a].status = "pending" /\ f[a].userId = u /\ Levels(f)
  BY WorkingFlowSubmitted, ActorLevel, MayProcess, WorkingFlowLevels
     DEF MyPending, PendingLevels, ChainInv, TypeInv
<1>2. a # 0
  BY <1>1 DEF Submitted
<1>3. PICK n \in Nat : f \in [0..n -> Row]
  BY <1>1 DEF Levels
<1>4. /\ DOMAIN g = DOMAIN f
      /\ g[a].status = "approved"
      /\ \A l \in DOMAIN f : /\ g[l].stage = f[l].stage /\ g[l].override = f[l].override
                             /\ f[l].status # "pending" => g[l].status = f[l].status
  BY <1>1, <1>3 DEF approveRows, Row
<1>5. CASE ~isOverride(flow, u)
  <2>1. f = flow
    BY <1>5 DEF workingFlow
  <2>2. \A l \in DOMAIN f : f[l].status = "pending" =>
          \/ g[l].status \in {"pending", "approved"}
          \/ f[l].stage = f[a].stage
    BY <1>1, <1>3, <1>5 DEF approveRows, Row
  <2>3. Covered(g)
    <3>. SUFFICES ASSUME NEW l \in DOMAIN f \ {0}
                  PROVE  \/ \E k \in DOMAIN f \ {0} :
                              SameStage(g, k, l) /\ g[k].status \in {"pending", "approved"}
                         \/ Vacated(g, l)
      BY <1>4 DEF Covered
    <3>1. CASE Vacated(f, l)
      BY <1>4, <3>1 DEF Vacated, SameStage
    <3>2. CASE \E k \in DOMAIN f \ {0} : SameStage(f, k, l) /\ f[k].status \in {"pending", "approved"}
      <4>1. PICK k \in DOMAIN f \ {0} : SameStage(f, k, l) /\ f[k].status \in {"pending", "approved"}
        BY <3>2
      <4>2. CASE g[k].status \in {"pending", "approved"}
        BY <1>4, <4>1, <4>2 DEF SameStage
      <4>3. CASE f[k].stage = f[a].stage
        BY <1>1, <1>2, <1>4, <4>1, <4>3 DEF SameStage
      <4>. QED
        BY <1>4, <2>2, <4>1, <4>2, <4>3
    <3>. QED
      BY <2>1, <3>1, <3>2 DEF Covered
  <2>4. PendingLevels(g) = {} => Earned(g)
    BY <1>1, <1>4, <2>3 DEF Covered, Earned, PendingLevels
  <2>. QED
    BY <2>3, <2>4
<1>6. CASE isOverride(flow, u)
  <2>1. PICK m \in Nat : flow \in [0..m -> Row]
    BY MayProcess DEF ChainInv, TypeInv, Levels, PendingLevels
  <2>2. /\ f \in [0..(m + 1) -> Row]
        /\ \A l \in 0..m : f[l] = flow[l]
        /\ f[m + 1] = [stage |-> currentStage(flow), userId |-> u, status |-> "pending",
                       override |-> TRUE]
    BY <1>6, <2>1, MayProcess, OverrideRow DEF workingFlow
  <2>3. a = m + 1
    BY <1>1, <1>6, <2>1, <2>2 DEF isOverride, MyPending, PendingLevels
  <2>4. /\ DOMAIN f = 0..(m + 1) /\ DOMAIN flow = 0..m
        /\ f[a].override /\ f[a].stage = currentStage(flow)
    BY <2>1, <2>2, <2>3
  <2>5. PendingLevels(g) = {}
    BY <1>1, <1>3, <1>4, <1>6 DEF approveRows, Row, PendingLevels
  <2>6. \A k \in PendingLevels(flow) : currentStage(flow) <= flow[k].stage
    BY MayProcess, CurrentStage DEF ChainInv, TypeInv
  <2>7. ASSUME NEW l \in 1..m
        PROVE  \/ \E k \in DOMAIN f \ {0} : SameStage(g, k, l) /\ g[k].status = "approved"
               \/ Vacated(g, l)
               \/ \E k \in DOMAIN f :
                    g[k].override /\ g[k].status = "approved" /\ g[k].stage < g[l].stage
    <3>0. l \in DOMAIN flow \ {0} /\ l \in DOMAIN f /\ g[l].stage = flow[l].stage
      BY <1>4, <2>2, <2>4
    <3>1. CASE flow[l].stage = currentStage(flow)
      BY <1>2, <1>4, <2>3, <2>4, <3>0, <3>1 DEF SameStage
    <3>2. CASE flow[l].stage # currentStage(flow)
      <4>1. CASE Vacated(flow, l)
        <5>1. ASSUME NEW k \in DOMAIN f \ {0}, SameStage(g, k, l) PROVE g[k].status = "skipped"
          <6>1. k # m + 1
            BY <1>4, <2>3, <2>4, <3>0, <3>2, <5>1 DEF SameStage
          <6>2. k \in DOMAIN flow \ {0} /\ f[k] = flow[k] /\ SameStage(flow, k, l)
            BY <1>4, <2>2, <2>4, <3>0, <5>1, <6>1 DEF SameStage
          <6>. QED
            BY <1>4, <4>1, <5>1, <6>2 DEF Vacated
        <5>. QED
          BY <1>4, <5>1 DEF Vacated
      <4>2. ASSUME NEW k \in DOMAIN flow \ {0}, SameStage(flow, k, l), flow[k].status = "approved"
            PROVE  k \in DOMAIN f \ {0} /\ SameStage(g, k, l) /\ g[k].status = "approved"
        BY <1>4, <2>2, <2>4, <3>0, <4>2 DEF SameStage
      <4>3. ASSUME NEW k \in DOMAIN flow \ {0}, SameStage(flow, k, l), flow[k].status = "pending"
            PROVE  g[a].override /\ g[a].status = "approved" /\ g[a].stage < g[l].stage
        <5>1. currentStage(flow) <= flow[l].stage
          BY <2>6, <4>3 DEF PendingLevels, SameStage
        <5>2. currentStage(flow) \in Nat /\ flow[l].stage \in Nat
          BY <2>1, MayProcess, CurrentStage DEF ChainInv, TypeInv, Row
        <5>. QED
          BY <1>1, <1>4, <2>4, <3>0, <3>2, <5>1, <5>2
      <4>. QED
        BY <1>1, <3>0, <4>1, <4>2, <4>3 DEF Covered
    <3>. QED
      BY <3>1, <3>2
  <2>8. \E k \in DOMAIN f \ {0} : SameStage(g, k, m + 1) /\ g[k].status = "approved"
    BY <1>1, <1>2, <1>4, <2>3 DEF SameStage
  <2>9. \A l \in DOMAIN f \ {0} : l \in 1..m \/ l = m + 1
    BY <2>4
  <2>10. Earned(g)
    BY <1>1, <1>4, <2>7, <2>8, <2>9 DEF Earned
  <2>. QED
    BY <2>5, <2>10
<1>. QED
  BY <1>5, <1>6

(* A bounce reopens whole stages. *)
LEMMA BounceCovers ==
  ASSUME ChainInv, Covered(flow), NEW u \in User, mayProcess(u),
         ~isTerminalReject(workingFlow(u), actorLevel(workingFlow(u), u), u)
  PROVE  Covered(bounceRows(flow)) /\ Waits(bounceRows(flow))
<1>. DEFINE g == bounceRows(flow)
            reopened == {l \in DOMAIN flow :
                           flow[l].stage \in {currentStage(flow) - 1, currentStage(flow)}}
<1>1. PICK n \in Nat : flow \in [0..n -> Row]
  BY MayProcess DEF ChainInv, TypeInv, Levels, PendingLevels
<1>2. /\ DOMAIN g = DOMAIN flow
      /\ \A l \in DOMAIN flow : g[l].stage = flow[l].stage
      /\ \A l \in reopened : g[l].status = "pending"
      /\ \A l \in DOMAIN flow \ reopened : g[l] = flow[l]
  BY <1>1 DEF bounceRows, Row
<1>3. PICK p \in PendingLevels(flow) : currentStage(flow) = flow[p].stage
  BY MayProcess, CurrentStage DEF ChainInv, TypeInv
<1>4. p \in PendingLevels(g)
  BY <1>2, <1>3 DEF PendingLevels
<1>5. ASSUME NEW l \in DOMAIN flow \ {0}
      PROVE  \/ \E k \in DOMAIN flow \ {0} :
                  SameStage(g, k, l) /\ g[k].status \in {"pending", "approved"}
             \/ Vacated(g, l)
  <2>1. CASE l \in reopened
    BY <1>2, <2>1 DEF SameStage
  <2>2. CASE l \notin reopened
    <3>1. \A k \in DOMAIN flow : SameStage(flow, k, l) => g[k] = flow[k]
      BY <1>2, <2>2 DEF SameStage
    <3>2. g[l] = flow[l]
      BY <1>2, <2>2
    <3>. QED
      BY <1>2, <3>1, <3>2 DEF Covered, SameStage, Vacated
  <2>. QED
    BY <2>1, <2>2
<1>. QED
  BY <1>2, <1>4, <1>5 DEF Covered, Waits

(* A deactivation leaves a stage with its other reviewers, or vacates it. *)
LEMMA DeactivationCovers ==
  ASSUME ChainInv, Covered(flow), Waits(flow),
         NEW a \in User, NEW u \in Deactivable, toggleUserStatus(a, u)
  PROVE  Covered(flow') /\ Waits(flow')
<1>1. PICK n \in Nat \cup {-1} : flow \in [0..n -> Row]
  BY DEF ChainInv, TypeInv, Levels
<1>2. /\ DOMAIN flow' = DOMAIN flow
      /\ \A l \in DOMAIN flow :
           /\ flow'[l].stage = flow[l].stage
           /\ flow[l].status # "pending" => flow'[l].status = flow[l].status
           /\ flow[l].status = "pending" => flow'[l].status \in {"pending", "skipped"}
  BY <1>1 DEF toggleUserStatus, Row
<1>3. ASSUME NEW l \in DOMAIN flow \ {0}
      PROVE  \/ \E k \in DOMAIN flow \ {0} :
                  SameStage(flow', k, l) /\ flow'[k].status \in {"pending", "approved"}
             \/ Vacated(flow', l)
  <2>1. CASE Vacated(flow, l)
    BY <1>2, <2>1 DEF Vacated, SameStage
  <2>2. ASSUME NEW k \in DOMAIN flow \ {0}, SameStage(flow, k, l), flow[k].status = "approved"
        PROVE  SameStage(flow', k, l) /\ flow'[k].status = "approved"
    BY <1>2, <2>2 DEF SameStage
  <2>3. ASSUME NEW k \in DOMAIN flow \ {0}, SameStage(flow, k, l), flow[k].status = "pending",
               ~Vacated(flow', l)
        PROVE  \E j \in DOMAIN flow \ {0} : SameStage(flow', j, l) /\ flow'[j].status = "pending"
    <3>1. PICK j \in DOMAIN flow \ {0} : SameStage(flow', j, l) /\ flow'[j].status # "skipped"
      BY <1>2, <2>3 DEF Vacated
    <3>2. flow[j].stage = flow[k].stage
      BY <1>2, <2>3, <3>1 DEF SameStage
    <3>3. flow[j].status \in {"pending", "skipped"}
      BY <2>3, <3>2 DEF ChainInv, StageDiscipline
    <3>. QED
      BY <1>2, <3>1, <3>3
  <2>. QED
    BY <2>1, <2>2, <2>3 DEF Covered
<1>4. Waits(flow')
  BY <1>2 DEF Waits, PendingLevels
<1>. QED
  BY <1>2, <1>3, <1>4 DEF Covered

(* Every reviewer of a new chain waits. *)
LEMMA SubmissionCovers ==
  ASSUME ChainInv, NEW u \in User, submitForApproval(u)
  PROVE  /\ Covered(flow')
         /\ DOMAIN flow' # {0} => Waits(flow')
         /\ task'.approvalStatus = IF DOMAIN flow' = {0} THEN "approved" ELSE "pending_approval"
<1>. DEFINE chain == deriveApprovalChain(profile, u)
            n == Cardinality(DOMAIN chain) - 1
<1>1. n \in Nat /\ chain \in [0..n -> [stage : Nat, userId : User]]
  BY ChainAssumption DEF IsChain, ChainInv, TypeInv
<1>2. /\ DOMAIN flow' = 0..n /\ DOMAIN chain = 0..n
      /\ \A l \in 0..n : l # 0 => flow'[l].status = "pending"
  BY <1>1 DEF submitForApproval
<1>3. Covered(flow')
  BY <1>2 DEF Covered, SameStage
<1>4. DOMAIN flow' # {0} => Waits(flow')
  BY <1>1, <1>2 DEF Waits, PendingLevels
<1>5. task \in Task
  BY DEF ChainInv, TypeInv
<1>6. task'.approvalStatus = IF DOMAIN flow' = {0} THEN "approved" ELSE "pending_approval"
  BY <1>2, <1>5, LifecycleEffects DEF submitForApproval, ApprovalStatus
<1>. QED
  BY <1>3, <1>4, <1>6

LEMMA NextEarnedInv == ~Linked /\ EarnedInv /\ [Next]_vars => EarnedInv'
<1>. SUFFICES ASSUME ~Linked, EarnedInv, [Next]_vars
              PROVE  /\ task'.approvalStatus = "pending_approval" => Covered(flow') /\ Waits(flow')
                     /\ task'.approvalStatus = "approved" /\ DOMAIN flow' # {0} => Earned(flow')
  BY NextClosedInv DEF EarnedInv, Covered, Waits, Earned, SameStage, Vacated, PendingLevels
<1>. USE DEF EarnedInv
<1>0. ChainInv /\ task \in Task
  BY DEF ClosedInv, ChainInv, TypeInv
<1>. DEFINE Goal == /\ task'.approvalStatus = "pending_approval" => Covered(flow') /\ Waits(flow')
                    /\ task'.approvalStatus = "approved" /\ DOMAIN flow' # {0} => Earned(flow')
<1>1. ASSUME NEW u \in User, submitForApproval(u) PROVE Goal
  BY <1>0, <1>1, SubmissionCovers
<1>2. ASSUME NEW u \in User, approveTask(u) PROVE Goal
  <2>1. mayProcess(u) /\ task.approvalStatus = "pending_approval"
    BY <1>2 DEF approveTask, mayProcess
  <2>2. /\ PendingLevels(flow') # {} => Covered(flow')
        /\ PendingLevels(flow') = {} => Earned(flow')
    BY <1>0, <1>2, <2>1, ApproveCovers DEF approveTask
  <2>3. task'.approvalStatus
          = IF PendingLevels(flow') = {} THEN "approved" ELSE "pending_approval"
    BY <1>0, <1>2, <2>1, LifecycleEffects DEF approveTask, ApprovalStatus
  <2>. QED
    BY <2>2, <2>3 DEF Waits
<1>3. ASSUME NEW u \in User, rejectTask(u) PROVE Goal
  <2>1. mayProcess(u) /\ task.approvalStatus = "pending_approval"
    BY <1>3 DEF rejectTask, mayProcess
  <2>2. CASE isTerminalReject(workingFlow(u), actorLevel(workingFlow(u), u), u)
    <3>1. task' = [applyApprovalRestoredState(task) EXCEPT !.approvalStatus = "rejected"]
      BY <1>3, <2>2 DEF rejectTask
    <3>2. "rejected" \in ApprovalStatus
      BY DEF ApprovalStatus
    <3>3. task'.approvalStatus = "rejected"
      BY <1>0, <3>1, <3>2, LifecycleEffects
    <3>. QED
      BY <3>3
  <2>3. CASE ~isTerminalReject(workingFlow(u), actorLevel(workingFlow(u), u), u)
    <3>1. flow' = bounceRows(flow) /\ task' = task
      BY <1>0, <1>3, <2>1, <2>3, BounceKeepsChain DEF rejectTask
    <3>. QED
      BY <1>0, <2>1, <2>3, <3>1, BounceCovers
  <2>. QED
    BY <2>2, <2>3
<1>4. ASSUME NEW u \in User, requestChanges(u) PROVE Goal
  <2>1. task' = [applyApprovalRestoredState(task) EXCEPT !.approvalStatus = "changes_requested"]
    BY <1>4 DEF requestChanges
  <2>2. "changes_requested" \in ApprovalStatus
    BY DEF ApprovalStatus
  <2>3. task'.approvalStatus = "changes_requested"
    BY <1>0, <2>1, <2>2, LifecycleEffects
  <2>. QED
    BY <2>3
<1>5. ASSUME NEW r \in inflight, updateTaskWrite(r) PROVE Goal
  <2>1. task'.approvalStatus = task.approvalStatus /\ flow' = flow
    BY <1>5 DEF updateTaskWrite, applyPatch, ClosedInv
  <2>. QED
    BY <2>1
<1>6. ASSUME NEW a \in User, NEW u \in Deactivable, toggleUserStatus(a, u) PROVE Goal
  <2>1. task' = task
    BY <1>6 DEF toggleUserStatus
  <2>2. CASE task.approvalStatus = "pending_approval"
    BY <1>0, <1>6, <2>1, <2>2, DeactivationCovers
  <2>3. CASE task.approvalStatus # "pending_approval"
    <3>1. PICK n \in Nat \cup {-1} : flow \in [0..n -> Row]
      BY <1>0 DEF ChainInv, TypeInv, Levels
    <3>2. \A l \in DOMAIN flow : flow[l].status # "pending"
      BY <2>3 DEF ClosedInv, TerminalHasNoPending, PendingLevels
    <3>3. flow' = flow
      BY <1>6, <3>1, <3>2 DEF toggleUserStatus
    <3>. QED
      BY <2>1, <3>3
  <2>. QED
    BY <2>2, <2>3
<1>7. CASE UNCHANGED <<task, flow>>
  BY <1>7
<1>8. ASSUME NEW u \in User, syncExistingLinkedTaskDone(u) PROVE FALSE
  BY <1>8 DEF syncExistingLinkedTaskDone
<1>. QED
  BY <1>1, <1>2, <1>3, <1>4, <1>5, <1>6, <1>7, <1>8
     DEF Next, vars, updateTaskLoad, updateUser

LEMMA InitEarnedInv == Init => EarnedInv
<1>. SUFFICES ASSUME Init PROVE EarnedInv
  OBVIOUS
<1>1. ClosedInv
  BY InitChainInv DEF Init, ClosedInv, TerminalHasNoPending, PendingLevels, EmptyFlow
<1>2. task.approvalStatus = "none"
  BY RequestAssumption DEF Init
<1>. QED
  BY <1>1, <1>2 DEF EarnedInv

(* No approval without its stages: through any number of bounces, early       *)
(* sign-offs, overrides, deactivations and racing updates, an approved task    *)
(* that is no dependency's shadow was signed off at every stage, or the stage   *)
(* was vacated or overruled (processApprovalAction).                            *)
THEOREM ApprovalIsEarned ==
  ASSUME ~Linked
  PROVE  Spec => []ApprovalEarned
<1>1. EarnedInv => ApprovalEarned
  <2>. SUFFICES ASSUME EarnedInv, task.approvalStatus = "approved", DOMAIN flow # {0}
                PROVE  /\ \E l \in DOMAIN flow : flow[l].status = "approved"
                       /\ \A s \in Stages : StageSignedOff(s) \/ StageVacant(s) \/ Overruled(s)
    BY DEF ApprovalEarned
  <2>1. Earned(flow)
    BY DEF EarnedInv
  <2>2. ASSUME NEW l \in DOMAIN flow \ {0}
        PROVE  LET s == flow[l].stage IN StageSignedOff(s) \/ StageVacant(s) \/ Overruled(s)
    BY <2>1 DEF Earned, SameStage, Vacated, StageSignedOff, StageVacant, Overruled, RowsAt
  <2>. QED
    BY <2>1, <2>2 DEF Earned, Stages
<1>2. EarnedInv /\ [Next]_vars => EarnedInv'
  BY NextEarnedInv
<1>. QED
  BY <1>1, <1>2, InitEarnedInv, PTL DEF Spec

(* Only a deactivation strands a cycle: an open one has a row that waits, or   *)
(* one that was skipped (submitForApproval's 409 and processApprovalAction's    *)
(* 'no pending step').                                                       *)
THEOREM CyclesAreDecidable ==
  ASSUME ~Linked
  PROVE  Spec => []Decidable
<1>1. EarnedInv => Decidable
  BY DEF EarnedInv, Waits, Decidable
<1>2. EarnedInv /\ [Next]_vars => EarnedInv'
  BY NextEarnedInv
<1>. QED
  BY <1>1, <1>2, InitEarnedInv, PTL DEF Spec

---------------------------------------------------------------------------
(* The snapshot.  Without shadow sync and without updates that send custom   *)
(* fields, the snapshot of an open cycle is the submitted state.             *)

SnapshotKept == ~Linked /\ \A b \in Edit : "customFields" \notin b.fields

SnapshotInv ==
  /\ TypeInv
  /\ task.snapshot = IF task.approvalStatus = "pending_approval" THEN atSubmit ELSE NoSnapshot
  /\ \A r \in inflight : r.patch.fields \cap {"approvalStatus", "customFields"} = {}

LEMMA NextSnapshotInv == SnapshotKept /\ SnapshotInv /\ [Next]_vars => SnapshotInv'
<1>. SUFFICES ASSUME SnapshotKept, SnapshotInv, [Next]_vars
              PROVE  SnapshotInv'
  OBVIOUS
<1>. USE DEF SnapshotInv
<1>0. TypeInv' /\ task \in Task
  BY NextTypeInv DEF TypeInv
<1>1. ASSUME NEW u \in User, submitForApproval(u) PROVE SnapshotInv'
  BY <1>0, <1>1, LifecycleEffects DEF submitForApproval, ApprovalStatus
<1>2. ASSUME NEW u \in User, approveTask(u) PROVE SnapshotInv'
  <2>1. /\ UNCHANGED <<inflight, atSubmit>>
        /\ task' = task \/ task' = [applyApprovalApprovedState(task) EXCEPT !.approvalStatus = "approved"]
    BY <1>2 DEF approveTask
  <2>2. CASE task' = [applyApprovalApprovedState(task) EXCEPT !.approvalStatus = "approved"]
    <3>1. task'.approvalStatus = "approved" /\ task'.snapshot = NoSnapshot
      <4>1. "approved" \in ApprovalStatus
        BY DEF ApprovalStatus
      <4>. QED
        BY <1>0, <2>2, <4>1, LifecycleEffects, ZenonT(60)
    <3>. QED
      BY <1>0, <2>1, <3>1
  <2>. QED
    BY <1>0, <2>1, <2>2
<1>3. ASSUME NEW u \in User, rejectTask(u) PROVE SnapshotInv'
  <2>1. /\ UNCHANGED <<inflight, atSubmit>>
        /\ task' = task \/ task' = [applyApprovalRestoredState(task) EXCEPT !.approvalStatus = "rejected"]
    BY <1>3 DEF rejectTask
  <2>2. CASE task' = [applyApprovalRestoredState(task) EXCEPT !.approvalStatus = "rejected"]
    <3>1. task'.approvalStatus = "rejected" /\ task'.snapshot = NoSnapshot
      <4>1. "rejected" \in ApprovalStatus
        BY DEF ApprovalStatus
      <4>. QED
        BY <1>0, <2>2, <4>1, LifecycleEffects, ZenonT(60)
    <3>. QED
      BY <1>0, <2>1, <3>1
  <2>. QED
    BY <1>0, <2>1, <2>2
<1>4. ASSUME NEW u \in User, requestChanges(u) PROVE SnapshotInv'
  <2>1. /\ UNCHANGED <<inflight, atSubmit>>
        /\ task' = [applyApprovalRestoredState(task) EXCEPT !.approvalStatus = "changes_requested"]
    BY <1>4 DEF requestChanges
  <2>2. CASE task' = [applyApprovalRestoredState(task) EXCEPT !.approvalStatus = "changes_requested"]
    <3>1. task'.approvalStatus = "changes_requested" /\ task'.snapshot = NoSnapshot
      <4>1. "changes_requested" \in ApprovalStatus
        BY DEF ApprovalStatus
      <4>. QED
        BY <1>0, <2>2, <4>1, LifecycleEffects, ZenonT(60)
    <3>. QED
      BY <1>0, <2>1, <3>1
  <2>. QED
    BY <1>0, <2>1, <2>2
<1>5. ASSUME NEW u \in User, NEW b \in Edit, updateTaskLoad(u, b) PROVE SnapshotInv'
  <2>1. updatePatch(task, b).fields \cap {"approvalStatus", "customFields"} = {}
    BY RequestAssumption DEF updatePatch, Body, SnapshotKept
  <2>. QED
    BY <1>0, <1>5, <2>1 DEF updateTaskLoad
<1>6. ASSUME NEW r \in inflight, updateTaskWrite(r) PROVE SnapshotInv'
  <2>1. task'.approvalStatus = task.approvalStatus /\ task'.snapshot = task.snapshot
    BY <1>6 DEF updateTaskWrite, applyPatch
  <2>. QED
    BY <1>0, <1>6, <2>1 DEF updateTaskWrite
<1>7. CASE UNCHANGED <<task, inflight, atSubmit>>
  BY <1>0, <1>7
<1>8. ASSUME NEW u \in User, syncExistingLinkedTaskDone(u) PROVE FALSE
  BY <1>8 DEF syncExistingLinkedTaskDone, SnapshotKept
<1>. QED
  BY <1>1, <1>2, <1>3, <1>4, <1>5, <1>6, <1>7, <1>8
     DEF Next, vars, toggleUserStatus, updateUser

LEMMA InitSnapshotInv == Init => SnapshotInv
  BY InitTypeInv, RequestAssumption DEF Init, SnapshotInv

(* The snapshot lives exactly as long as the cycle, under SnapshotKept        *)
(* (approvalLifecycleService.js:19).                                         *)
THEOREM SnapshotLivesWithCycle ==
  ASSUME SnapshotKept
  PROVE  Spec => []SnapshotLifecycle
<1>1. SnapshotInv => SnapshotLifecycle
  BY SnapshotAssumption DEF SnapshotInv, SnapshotLifecycle, TypeInv
<1>2. SnapshotInv /\ [Next]_vars => SnapshotInv'
  BY NextSnapshotInv
<1>. QED
  BY <1>1, <1>2, InitSnapshotInv, PTL DEF Spec

(* Rejecting or requesting changes gives back the status and progress of the  *)
(* submission, whatever was edited meanwhile (applyApprovalRestoredState); a    *)
(* custom-field edit drops the snapshot, and is excluded.                      *)
THEOREM SubmittedStateRestored ==
  ASSUME SnapshotKept
  PROVE  Spec => RestoresSubmittedState
<1>. DEFINE restores ==
       task.approvalStatus = "pending_approval"
         /\ task'.approvalStatus \in {"rejected", "changes_requested"}
       => task'.status = atSubmit.status /\ task'.progress = atSubmit.progress
<1>1. SnapshotInv /\ [Next]_vars => [restores]_vars
  <2>. SUFFICES ASSUME SnapshotInv, Next PROVE restores
    OBVIOUS
  <2>. USE DEF SnapshotInv
  <2>0. /\ task \in Task /\ {"rejected", "changes_requested"} \subseteq ApprovalStatus
        /\ atSubmit # NoSnapshot
    BY SnapshotAssumption DEF TypeInv, ApprovalStatus
  <2>1. ASSUME NEW u \in User, rejectTask(u) PROVE restores
    <3>1. task' = task \/ task' = [applyApprovalRestoredState(task) EXCEPT !.approvalStatus = "rejected"]
      BY <2>1 DEF rejectTask
    <3>2. task.approvalStatus = "pending_approval" => task.snapshot # NoSnapshot
      BY <2>0
    <3>3. CASE task' = [applyApprovalRestoredState(task) EXCEPT !.approvalStatus = "rejected"]
      <4>1. task.snapshot # NoSnapshot
              => task'.status = task.snapshot.status /\ task'.progress = task.snapshot.progress
        BY <2>0, <3>3, LifecycleEffects, ZenonT(60)
      <4>. QED
        BY <3>2, <4>1
    <3>. QED
      BY <3>1, <3>3
  <2>2. ASSUME NEW u \in User, requestChanges(u) PROVE restores
    <3>1. task' = [applyApprovalRestoredState(task) EXCEPT !.approvalStatus = "changes_requested"]
      BY <2>2 DEF requestChanges
    <3>2. task.approvalStatus = "pending_approval" => task.snapshot # NoSnapshot
      BY <2>0
    <3>3. CASE task' = [applyApprovalRestoredState(task) EXCEPT !.approvalStatus = "changes_requested"]
      <4>1. task.snapshot # NoSnapshot
              => task'.status = task.snapshot.status /\ task'.progress = task.snapshot.progress
        BY <2>0, <3>3, LifecycleEffects, ZenonT(60)
      <4>. QED
        BY <3>2, <4>1
    <3>. QED
      BY <3>1, <3>3
  <2>3. ASSUME NEW u \in User, approveTask(u) PROVE restores
    BY <2>0, <2>3, LifecycleEffects DEF approveTask, ApprovalStatus
  <2>4. ASSUME NEW u \in User, submitForApproval(u) PROVE restores
    BY <2>4 DEF submitForApproval
  <2>5. ASSUME NEW r \in inflight, updateTaskWrite(r) PROVE restores
    BY <2>5 DEF updateTaskWrite, applyPatch
  <2>6. CASE UNCHANGED task
    BY <2>6
  <2>. QED
    BY <2>1, <2>2, <2>3, <2>4, <2>5, <2>6
       DEF Next, updateTaskLoad, syncExistingLinkedTaskDone, toggleUserStatus, updateUser
<1>2. SnapshotInv /\ [Next]_vars => SnapshotInv'
  BY NextSnapshotInv
<1>. QED
  BY <1>1, <1>2, InitSnapshotInv, PTL DEF Spec, RestoresSubmittedState
---------------------------------------------------------------------------
(* The handlers implement the abstract ApprovalCycle on a task that is no       *)
(* dependency's shadow.                                                      *)

(* The refinement mapping of ApprovalFlow, for any task row and chain. *)
StagesOf(f) == {f[l].stage : l \in DOMAIN f \ {0}}
LastStage(f) == IF StagesOf(f) = {} THEN 0 ELSE Max(StagesOf(f))
StageOf(t, f) ==
  IF t.approvalStatus # "pending_approval" THEN 0
  ELSE IF PendingLevels(f) = {} THEN LastStage(f) + 1 ELSE currentStage(f)
LastOf(t, f) == IF t.approvalStatus = "pending_approval" THEN LastStage(f) ELSE 0

(* What each step of the abstract cycle asks of the concrete one. *)
LEMMA MapsToSubmit ==
  ASSUME task.approvalStatus # "pending_approval", task'.approvalStatus = "pending_approval",
         StageOf(task', flow') = 1, LastOf(task', flow') \in Nat \ {0}
  PROVE  Cycle!Submit
  BY DEF Cycle!Submit, Cycle!Open, StageOf, LastOf, LastStage, StagesOf, waiting, lastStage, Stages

LEMMA MapsToAutoApprove ==
  ASSUME task.approvalStatus # "pending_approval", task'.approvalStatus = "approved"
  PROVE  Cycle!AutoApprove
  BY DEF Cycle!AutoApprove, Cycle!Open, waiting

LEMMA MapsToSignOff ==
  ASSUME task.approvalStatus = "pending_approval", task'.approvalStatus = task.approvalStatus,
         StageOf(task', flow') \in (StageOf(task, flow) + 1)..LastOf(task, flow),
         LastOf(task', flow') = LastOf(task, flow)
  PROVE  Cycle!SignOff
  BY DEF Cycle!SignOff, Cycle!Open, StageOf, LastOf, LastStage, StagesOf, waiting, lastStage, Stages

LEMMA MapsToConclude ==
  ASSUME task.approvalStatus = "pending_approval",
         task'.approvalStatus \in {"approved", "rejected", "changes_requested"},
         StageOf(task, flow) <= LastOf(task, flow)
  PROVE  Cycle!Conclude
  BY DEF Cycle!Conclude, Cycle!Open, StageOf, LastOf, LastStage, StagesOf, waiting, lastStage, Stages

LEMMA MapsToSendBack ==
  ASSUME task.approvalStatus = "pending_approval", task'.approvalStatus = task.approvalStatus,
         StageOf(task, flow) \in 2..LastOf(task, flow),
         StageOf(task', flow') = StageOf(task, flow) - 1,
         LastOf(task', flow') = LastOf(task, flow)
  PROVE  Cycle!SendBack
  BY DEF Cycle!SendBack, Cycle!Open, StageOf, LastOf, LastStage, StagesOf, waiting, lastStage, Stages

LEMMA MapsToVacate ==
  ASSUME task.approvalStatus = "pending_approval", task'.approvalStatus = task.approvalStatus,
         StageOf(task', flow') \in (StageOf(task, flow) + 1)..(LastOf(task, flow) + 1),
         LastOf(task', flow') = LastOf(task, flow)
  PROVE  Cycle!Vacate
  BY DEF Cycle!Vacate, Cycle!Open, StageOf, LastOf, LastStage, StagesOf, waiting, lastStage, Stages

LEMMA MapsToStutter ==
  ASSUME task'.approvalStatus = task.approvalStatus,
         StageOf(task', flow') = StageOf(task, flow),
         LastOf(task', flow') = LastOf(task, flow)
  PROVE  UNCHANGED Cycle!cycleVars
  BY DEF Cycle!cycleVars, StageOf, LastOf, LastStage, StagesOf, waiting, lastStage, Stages

---------------------------------------------------------------------------
(* The stages of an open cycle are 1 to some last one, whatever happens to its  *)
(* rows.                                                                    *)

Staged(f) == \E m \in Nat \ {0} : StagesOf(f) = 1..m

StagedInv ==
  /\ ClosedInv
  /\ task.approvalStatus = "pending_approval" => Staged(flow)

(* The last of the stages 1 to m is m. *)
LEMMA LastOfInterval ==
  ASSUME NEW f, NEW m \in Nat \ {0}, StagesOf(f) = 1..m
  PROVE  LastStage(f) = m
<1>1. m \in 1..m /\ \A y \in 1..m : m >= y
  OBVIOUS
<1>2. \A x \in 1..m : (\A y \in 1..m : x >= y) => x = m
  OBVIOUS
<1>3. Max(1..m) = m
  BY <1>1, <1>2 DEF Max
<1>. QED
  BY <1>1, <1>3 DEF LastStage

(* A set of naturals from 1 up without gaps is an interval. *)
LEMMA DownwardClosed ==
  ASSUME NEW n \in Nat, NEW S \in SUBSET (1..n), S # {},
         \A x \in S : \A y \in 1..x : y \in S
  PROVE  \E m \in Nat \ {0} : S = 1..m
<1>. DEFINE T == {n - x : x \in S}
<1>1. T \in SUBSET Nat /\ T # {}
  <2>1. ASSUME NEW x \in S PROVE n - x \in Nat
    <3>1. x \in 1..n
      OBVIOUS
    <3>. QED
      BY <3>1
  <2>2. T \subseteq Nat
    BY <2>1, Zenon
  <2>3. T # {}
    BY Zenon
  <2>. QED
    BY <2>2, <2>3
<1>2. Min(T) \in T /\ \A y \in T : Min(T) <= y
  BY <1>1, MinOfNaturals
<1>3. PICK m \in S : Min(T) = n - m
  BY <1>2
<1>4. \A x \in S : x <= m
  <2>. SUFFICES ASSUME NEW x \in S PROVE x <= m
    OBVIOUS
  <2>1. n - x \in T
    OBVIOUS
  <2>2. n - m <= n - x
    BY <1>2, <1>3, <2>1
  <2>. QED
    BY <2>2
<1>5. m \in Nat \ {0}
  OBVIOUS
<1>6. S \subseteq 1..m
  BY <1>4, <1>5
<1>7. \A y \in 1..m : y \in S
  OBVIOUS
<1>. QED
  BY <1>5, <1>6, <1>7

(* Where an open cycle stands when a row waits: at one of its stages. *)
LEMMA StandsAtStage ==
  ASSUME NEW f, Levels(f), Submitted(f), PendingLevels(f) # {}, NEW m \in Nat \ {0}, StagesOf(f) = 1..m
  PROVE  /\ currentStage(f) \in 1..m
         /\ \A l \in PendingLevels(f) : currentStage(f) <= f[l].stage
         /\ \E l \in PendingLevels(f) : currentStage(f) = f[l].stage
<1>1. PICK l \in PendingLevels(f) : currentStage(f) = f[l].stage
  BY CurrentStage
<1>2. l \in DOMAIN f \ {0}
  BY <1>1 DEF PendingLevels, Submitted
<1>. QED
  BY <1>1, <1>2, CurrentStage DEF StagesOf

(* An override's row stands at a stage of the chain. *)
LEMMA WorkingFlowStages ==
  ASSUME ChainInv, NEW u \in User, mayProcess(u)
  PROVE  StagesOf(workingFlow(u)) = StagesOf(flow)
<1>1. PICK n \in Nat : flow \in [0..n -> Row]
  BY MayProcess DEF ChainInv, TypeInv, Levels, PendingLevels
<1>2. CASE workingFlow(u) = flow
  BY <1>2
<1>3. CASE workingFlow(u) = withOverrideRow(flow, u)
  <2>. DEFINE g == withOverrideRow(flow, u)
  <2>1. /\ g \in [0..(n + 1) -> Row]
        /\ \A l \in 0..n : g[l] = flow[l]
        /\ g[n + 1] = [stage |-> currentStage(flow), userId |-> u, status |-> "pending",
                       override |-> TRUE]
    BY <1>1, MayProcess, OverrideRow
  <2>2. DOMAIN g \ {0} = (DOMAIN flow \ {0}) \cup {n + 1} /\ DOMAIN flow = 0..n
    BY <1>1, <2>1
  <2>3. g[n + 1].stage = currentStage(flow) /\ \A l \in DOMAIN flow : g[l].stage = flow[l].stage
    BY <2>1, <2>2
  <2>4. PICK l \in PendingLevels(flow) : currentStage(flow) = flow[l].stage
    BY MayProcess, CurrentStage DEF ChainInv, TypeInv
  <2>5. l \in DOMAIN flow \ {0}
    BY <2>4 DEF PendingLevels, ChainInv, Submitted
  <2>6. StagesOf(g) = StagesOf(flow)
    BY <2>2, <2>3, <2>4, <2>5 DEF StagesOf
  <2>. QED
    BY <1>3, <2>6
<1>. QED
  BY <1>2, <1>3 DEF workingFlow

(* Decisions and deactivations change no stage. *)
LEMMA DecisionsKeepStages ==
  ASSUME NEW f, Levels(f), NEW a, NEW override, NEW disposition
  PROVE  /\ StagesOf(approveRows(f, a, override)) = StagesOf(f)
         /\ StagesOf(closeRows(f, a, disposition)) = StagesOf(f)
         /\ StagesOf(bounceRows(f)) = StagesOf(f)
<1>1. PICK n \in Nat \cup {-1} : f \in [0..n -> Row]
  BY DEF Levels
<1>2. /\ DOMAIN approveRows(f, a, override) = DOMAIN f
      /\ \A l \in DOMAIN f : approveRows(f, a, override)[l].stage = f[l].stage
  BY <1>1 DEF approveRows, Row
<1>3. /\ DOMAIN closeRows(f, a, disposition) = DOMAIN f
      /\ \A l \in DOMAIN f : closeRows(f, a, disposition)[l].stage = f[l].stage
  BY <1>1 DEF closeRows, Row
<1>4. /\ DOMAIN bounceRows(f) = DOMAIN f
      /\ \A l \in DOMAIN f : bounceRows(f)[l].stage = f[l].stage
  BY <1>1 DEF bounceRows, Row
<1>. QED
  BY <1>2, <1>3, <1>4 DEF StagesOf

LEMMA DeactivationKeepsStages ==
  ASSUME Levels(flow), NEW a \in User, NEW u \in Deactivable, toggleUserStatus(a, u)
  PROVE  /\ StagesOf(flow') = StagesOf(flow)
         /\ DOMAIN flow' = DOMAIN flow
         /\ \A l \in DOMAIN flow : flow'[l].stage = flow[l].stage
         /\ PendingLevels(flow') \subseteq PendingLevels(flow)
<1>1. PICK n \in Nat \cup {-1} : flow \in [0..n -> Row]
  BY DEF Levels
<1>2. /\ DOMAIN flow' = DOMAIN flow
      /\ \A l \in DOMAIN flow : flow'[l].stage = flow[l].stage
      /\ PendingLevels(flow') \subseteq PendingLevels(flow)
  BY <1>1 DEF toggleUserStatus, Row, PendingLevels
<1>. QED
  BY <1>2 DEF StagesOf

---------------------------------------------------------------------------
(* Every open cycle has its stages, and every step maps to one of the         *)
(* abstract cycle's or to a stutter.                                         *)

(* Where an open cycle with a row that waits stands. *)
LEMMA OpenStage ==
  ASSUME StagedInv, task.approvalStatus = "pending_approval", PendingLevels(flow) # {}
  PROVE  \E m \in Nat \ {0} :
           /\ StagesOf(flow) = 1..m
           /\ LastOf(task, flow) = m
           /\ StageOf(task, flow) = currentStage(flow)
           /\ currentStage(flow) \in 1..m
<1>1. PICK m \in Nat \ {0} : StagesOf(flow) = 1..m
  BY DEF StagedInv, Staged
<1>2. LastStage(flow) = m
  BY <1>1, LastOfInterval
<1>3. currentStage(flow) \in 1..m
  BY <1>1, StandsAtStage DEF StagedInv, ClosedInv, ChainInv, TypeInv
<1>. QED
  BY <1>1, <1>2, <1>3 DEF LastOf, StageOf

(* The stages of a fresh chain are the chain's, which IsChain makes an        *)
(* interval.                                                                *)
LEMMA SubmissionStages ==
  ASSUME StagedInv, NEW u \in User, submitForApproval(u)
  PROVE  \/ task'.approvalStatus = "approved"
         \/ /\ task'.approvalStatus = "pending_approval"
            /\ Staged(flow')
            /\ StageOf(task', flow') = 1
            /\ LastOf(task', flow') \in Nat \ {0}
<1>. DEFINE chain == deriveApprovalChain(profile, u)
            n == Cardinality(DOMAIN chain) - 1
            S == {chain[l].stage : l \in 1..n}
<1>1. task \in Task /\ profile \in [User -> Profile]
  BY DEF StagedInv, ClosedInv, ChainInv, TypeInv
<1>2. /\ n \in Nat /\ chain \in [0..n -> [stage : Nat, userId : User]]
      /\ \A l \in 1..n : chain[l].stage \in 1..n
      /\ \A l \in 1..n : \A s \in 1..chain[l].stage : \E k \in 1..n : chain[k].stage = s
  BY <1>1, ChainAssumption DEF IsChain
<1>3. CASE DOMAIN chain = {0}
  <2>1. task' = [applyApprovalApprovedState(task) EXCEPT !.approvalStatus = "approved"]
    BY <1>3 DEF submitForApproval
  <2>2. "approved" \in ApprovalStatus
    BY DEF ApprovalStatus
  <2>. QED
    BY <1>1, <2>1, <2>2, LifecycleEffects
<1>4. CASE DOMAIN chain # {0}
  <2>1. task' = [applyApprovalSubmittedState(task) EXCEPT !.approvalStatus = "pending_approval"]
    BY <1>4 DEF submitForApproval
  <2>2. "pending_approval" \in ApprovalStatus
    BY DEF ApprovalStatus
  <2>3. task'.approvalStatus = "pending_approval"
    BY <1>1, <2>1, <2>2, LifecycleEffects
  <2>4. n # 0
    <3>1. DOMAIN chain = 0..n /\ 0..0 = {0}
      BY <1>2
    <3>. HIDE DEF n, chain
    <3>. QED
      BY <1>4, <3>1
  <2>5. /\ DOMAIN flow' = 0..n
        /\ \A l \in 0..n : flow'[l].stage = chain[l].stage
        /\ \A l \in 1..n : flow'[l].status = "pending"
        /\ flow'[0].status = "submitted"
    BY <1>2 DEF submitForApproval
  <2>6. DOMAIN flow' \ {0} = 1..n /\ PendingLevels(flow') = 1..n
    BY <1>2, <2>5 DEF PendingLevels
  <2>7. StagesOf(flow') = S /\ PendingStages(flow') = S
    BY <2>5, <2>6 DEF StagesOf, PendingStages
  <2>8. S \in SUBSET (1..n) /\ S # {} /\ \A x \in S : \A y \in 1..x : y \in S
    <3>1. PICK k : k = n
      OBVIOUS
    <3>2. /\ k \in Nat \ {0}
          /\ S = {chain[l].stage : l \in 1..k}
          /\ \A l \in 1..k : chain[l].stage \in 1..k
          /\ \A l \in 1..k : \A s \in 1..chain[l].stage : \E j \in 1..k : chain[j].stage = s
      BY <1>2, <2>4, <3>1
    <3>3. S \in SUBSET (1..k) /\ \A x \in S : \A y \in 1..x : y \in S
      <4>. HIDE DEF n, chain
      <4>. QED
        BY <3>2, ZenonT(60)
    <3>4. 1 \in 1..k
      BY <3>2
    <3>5. chain[1].stage \in S
      BY <3>2, <3>4
    <3>. QED
      BY <3>1, <3>3, <3>5
  <2>9. PICK m \in Nat \ {0} : S = 1..m
    <3>. HIDE DEF S, n
    <3>. QED
      BY <1>2, <2>8, DownwardClosed
  <2>10. Min(1..m) = 1
    <3>1. Min(1..m) \in 1..m /\ \A y \in 1..m : Min(1..m) <= y
      BY MinOfNaturals, SMTT(30)
    <3>. QED
      BY <3>1
  <2>11. currentStage(flow') = 1
    BY <2>7, <2>9, <2>10 DEF currentStage
  <2>12. LastStage(flow') = m
    BY <2>7, <2>9, LastOfInterval
  <2>. QED
    BY <2>3, <2>4, <2>6, <2>7, <2>9, <2>11, <2>12 DEF Staged, StageOf, LastOf
<1>. QED
  BY <1>3, <1>4

(* A decision leaves the stages as they were. *)
LEMMA DecisionStages ==
  ASSUME StagedInv, NEW u \in User, approveTask(u) \/ rejectTask(u) \/ requestChanges(u)
  PROVE  StagesOf(flow') = StagesOf(flow)
<1>1. mayProcess(u) /\ ChainInv
  BY DEF approveTask, rejectTask, requestChanges, StagedInv, ClosedInv
<1>2. Levels(workingFlow(u)) /\ StagesOf(workingFlow(u)) = StagesOf(flow)
  BY <1>1, MayProcess, WorkingFlowLevels, WorkingFlowStages DEF ChainInv, TypeInv
<1>3. \/ \E a, o : flow' = approveRows(workingFlow(u), a, o)
      \/ \E a, d : flow' = closeRows(workingFlow(u), a, d)
      \/ flow' = bounceRows(workingFlow(u))
  BY DEF approveTask, rejectTask, requestChanges
<1>. QED
  BY <1>2, <1>3, DecisionsKeepStages

(* Submission gives an open cycle its stages and nothing takes them away. *)
LEMMA NextStagedInv == ~Linked /\ StagedInv /\ [Next]_vars => StagedInv'
<1>. SUFFICES ASSUME ~Linked, StagedInv, [Next]_vars,
                     task'.approvalStatus = "pending_approval"
              PROVE  Staged(flow')
  BY NextClosedInv DEF StagedInv, Staged, StagesOf
<1>0. task \in Task /\ Levels(flow)
  BY DEF StagedInv, ClosedInv, ChainInv, TypeInv
<1>1. ASSUME NEW u \in User, submitForApproval(u) PROVE Staged(flow')
  BY <1>1, SubmissionStages
<1>2. ASSUME NEW u \in User, approveTask(u) \/ rejectTask(u) \/ requestChanges(u)
      PROVE  Staged(flow')
  <2>1. task.approvalStatus = "pending_approval"
    BY <1>2 DEF approveTask, rejectTask, requestChanges, mayProcess
  <2>. QED
    BY <1>2, <2>1, DecisionStages DEF StagedInv, Staged
<1>3. ASSUME NEW a \in User, NEW u \in Deactivable, toggleUserStatus(a, u) PROVE Staged(flow')
  <2>1. StagesOf(flow') = StagesOf(flow)
    BY <1>0, <1>3, DeactivationKeepsStages
  <2>. QED
    BY <1>3, <2>1 DEF toggleUserStatus, StagedInv, Staged
<1>4. ASSUME NEW r \in inflight, updateTaskWrite(r) PROVE Staged(flow')
  <2>1. task'.approvalStatus = task.approvalStatus
    BY <1>4 DEF updateTaskWrite, applyPatch, StagedInv, ClosedInv
  <2>. QED
    BY <1>4, <2>1 DEF updateTaskWrite, StagedInv, Staged
<1>5. CASE UNCHANGED <<task, flow>>
  BY <1>5 DEF StagedInv, Staged
<1>. QED
  BY <1>1, <1>2, <1>3, <1>4, <1>5
     DEF Next, vars, updateTaskLoad, syncExistingLinkedTaskDone, updateUser

(* The last decision closes the cycle; any other approval moves it up. *)
LEMMA ApproveImplements ==
  ASSUME StagedInv, NEW u \in User, approveTask(u)
  PROVE  Cycle!Conclude \/ Cycle!SignOff
<1>. DEFINE f == workingFlow(u)
            a == actorLevel(f, u)
<1>1. /\ mayProcess(u) /\ ChainInv /\ task \in Task
      /\ task.approvalStatus = "pending_approval" /\ PendingLevels(flow) # {}
  BY MayProcess DEF approveTask, mayProcess, StagedInv, ClosedInv, ChainInv, TypeInv
<1>2. PICK m \in Nat \ {0} : /\ StagesOf(flow) = 1..m
                             /\ LastOf(task, flow) = m
                             /\ StageOf(task, flow) = currentStage(flow)
                             /\ currentStage(flow) \in 1..m
  BY <1>1, OpenStage
<1>3. CASE PendingLevels(flow') = {}
  <2>1. task' = [applyApprovalApprovedState(task) EXCEPT !.approvalStatus = "approved"]
    BY <1>3 DEF approveTask
  <2>2. "approved" \in ApprovalStatus
    BY DEF ApprovalStatus
  <2>3. task'.approvalStatus = "approved"
    BY <1>1, <2>1, <2>2, LifecycleEffects
  <2>. QED
    BY <1>1, <1>2, <2>3, MapsToConclude
<1>4. CASE PendingLevels(flow') # {}
  <2>1. task' = task
    BY <1>4 DEF approveTask
  <2>2. StagesOf(flow') = 1..m
    BY <1>2, DecisionStages
  <2>3. LastOf(task', flow') = m
    BY <1>1, <2>1, <2>2, LastOfInterval DEF LastOf
  <2>4. /\ Levels(f) /\ a \in DOMAIN f /\ f[a].status = "pending"
        /\ Levels(flow') /\ Submitted(flow')
    BY <1>1, ActorLevel, MayProcess, WorkingFlowLevels, DecisionsKeepLevels, ApproveKeepsChain
       DEF MyPending, PendingLevels, ChainInv, TypeInv, approveTask
  <2>5. PICK n \in Nat : f \in [0..n -> Row]
    BY <2>4 DEF Levels
  <2>6. ~isOverride(flow, u)
    <3>. SUFFICES ASSUME isOverride(flow, u) PROVE FALSE
      OBVIOUS
    <3>1. \A l \in DOMAIN f : approveRows(f, a, TRUE)[l].status # "pending"
      BY <2>4, <2>5 DEF approveRows, Row
    <3>2. flow' = approveRows(f, a, TRUE) /\ DOMAIN approveRows(f, a, TRUE) = DOMAIN f
      BY DEF approveTask, approveRows, isOverride
    <3>. QED
      BY <1>4, <3>1, <3>2 DEF PendingLevels
  <2>7. f = flow
    BY <2>6 DEF workingFlow
  <2>8. /\ DOMAIN flow' = DOMAIN f
        /\ \A l \in DOMAIN f : flow'[l].status = "pending"
             => flow'[l].stage > f[a].stage
    BY <2>4, <2>5, <2>6 DEF approveRows, Row, approveTask
  <2>9. currentStage(flow) <= f[a].stage
    BY <1>1, <2>4, <2>7, CurrentStage DEF PendingLevels, ChainInv, TypeInv
  <2>10. /\ currentStage(flow') \in 1..m
         /\ \E l \in PendingLevels(flow') : currentStage(flow') = flow'[l].stage
    BY <1>4, <2>2, <2>4, StandsAtStage
  <2>11. currentStage(flow') > f[a].stage /\ f[a].stage \in Nat
    BY <2>4, <2>5, <2>8, <2>10 DEF PendingLevels, Row
  <2>12. currentStage(flow') \in (currentStage(flow) + 1)..m
    BY <1>2, <2>9, <2>10, <2>11
  <2>13. StageOf(task', flow') = currentStage(flow')
    BY <1>1, <1>4, <2>1 DEF StageOf
  <2>. QED
    BY <1>1, <1>2, <2>1, <2>3, <2>12, <2>13, MapsToSignOff
<1>. QED
  BY <1>3, <1>4

(* A rejection closes the cycle or sends it back by exactly one stage. *)
LEMMA RejectImplements ==
  ASSUME StagedInv, NEW u \in User, rejectTask(u) \/ requestChanges(u)
  PROVE  Cycle!Conclude \/ Cycle!SendBack
<1>. DEFINE f == workingFlow(u)
            a == actorLevel(f, u)
<1>1. /\ mayProcess(u) /\ ChainInv /\ task \in Task
      /\ task.approvalStatus = "pending_approval" /\ PendingLevels(flow) # {}
  BY MayProcess DEF rejectTask, requestChanges, mayProcess, StagedInv, ClosedInv, ChainInv, TypeInv
<1>2. PICK m \in Nat \ {0} : /\ StagesOf(flow) = 1..m
                             /\ LastOf(task, flow) = m
                             /\ StageOf(task, flow) = currentStage(flow)
                             /\ currentStage(flow) \in 1..m
  BY <1>1, OpenStage
<1>3. CASE \E s \in {"rejected", "changes_requested"} :
             task' = [applyApprovalRestoredState(task) EXCEPT !.approvalStatus = s]
  <2>1. PICK s \in {"rejected", "changes_requested"} :
             task' = [applyApprovalRestoredState(task) EXCEPT !.approvalStatus = s]
    BY <1>3
  <2>2. s \in ApprovalStatus
    BY DEF ApprovalStatus
  <2>3. task'.approvalStatus = s
    BY <1>1, <2>1, <2>2, LifecycleEffects
  <2>. QED
    BY <1>1, <1>2, <2>3, MapsToConclude
<1>4. CASE rejectTask(u) /\ ~isTerminalReject(f, a, u)
  <2>1. task' = task /\ flow' = bounceRows(f) /\ f = flow /\ currentStage(flow) \in 2..m
    BY <1>1, <1>2, <1>4, BounceKeepsChain DEF rejectTask, isTerminalReject
  <2>2. StagesOf(flow') = 1..m
    BY <1>2, DecisionStages
  <2>3. LastOf(task', flow') = m
    BY <1>1, <2>1, <2>2, LastOfInterval DEF LastOf
  <2>4. PICK n \in Nat : flow \in [0..n -> Row]
    BY <1>1 DEF ChainInv, TypeInv, Levels, PendingLevels
  <2>5. /\ DOMAIN flow' = DOMAIN flow
        /\ \A l \in DOMAIN flow : flow'[l].stage = flow[l].stage
        /\ \A l \in DOMAIN flow :
             IF flow[l].stage \in {currentStage(flow) - 1, currentStage(flow)}
             THEN flow'[l].status = "pending" ELSE flow'[l] = flow[l]
    BY <2>1, <2>4 DEF bounceRows, Row
  <2>6. currentStage(flow) - 1 \in StagesOf(flow)
    BY <1>2, <2>1
  <2>7. PICK l \in DOMAIN flow \ {0} : flow[l].stage = currentStage(flow) - 1
    BY <2>6 DEF StagesOf
  <2>8. l \in PendingLevels(flow') /\ flow'[l].stage = currentStage(flow) - 1
    BY <2>5, <2>7 DEF PendingLevels
  <2>9. \A k \in PendingLevels(flow) : currentStage(flow) <= flow[k].stage
    BY <1>1, CurrentStage DEF ChainInv, TypeInv
  <2>10. \A k \in PendingLevels(flow') : flow'[k].stage >= currentStage(flow) - 1
    <3>. SUFFICES ASSUME NEW k \in PendingLevels(flow')
                  PROVE  flow'[k].stage >= currentStage(flow) - 1
      OBVIOUS
    <3>1. k \in DOMAIN flow /\ flow'[k].status = "pending" /\ flow'[k].stage = flow[k].stage
      BY <2>5 DEF PendingLevels
    <3>2. flow[k].stage \in Nat
      BY <2>4, <3>1 DEF Row
    <3>3. CASE flow[k].stage \in {currentStage(flow) - 1, currentStage(flow)}
      BY <1>2, <3>1, <3>2, <3>3
    <3>4. CASE flow[k].stage \notin {currentStage(flow) - 1, currentStage(flow)}
      <4>1. k \in PendingLevels(flow)
        BY <2>5, <3>1, <3>4 DEF PendingLevels
      <4>. QED
        BY <1>2, <2>9, <3>1, <3>2, <4>1
    <3>. QED
      BY <3>3, <3>4
  <2>11. Levels(flow') /\ Submitted(flow')
    BY <1>1, <2>1, DecisionsKeepLevels, BounceKeepsChain, <1>4 DEF ChainInv, TypeInv
  <2>12. /\ currentStage(flow') \in 1..m
         /\ \A k \in PendingLevels(flow') : currentStage(flow') <= flow'[k].stage
         /\ \E k \in PendingLevels(flow') : currentStage(flow') = flow'[k].stage
    BY <2>2, <2>8, <2>11, StandsAtStage
  <2>13. currentStage(flow') <= currentStage(flow) - 1
    BY <2>8, <2>12
  <2>14. currentStage(flow') >= currentStage(flow) - 1
    BY <2>10, <2>12
  <2>15. currentStage(flow') = currentStage(flow) - 1
    BY <1>2, <2>12, <2>13, <2>14
  <2>16. StageOf(task', flow') = currentStage(flow')
    BY <1>1, <2>1, <2>8 DEF StageOf
  <2>. QED
    BY <1>1, <1>2, <2>1, <2>3, <2>15, <2>16, MapsToSendBack
<1>. QED
  BY <1>3, <1>4 DEF rejectTask, requestChanges

(* A deactivation moves an open cycle past the stages it empties, or nowhere. *)
LEMMA DeactivationImplements ==
  ASSUME StagedInv, NEW a \in User, NEW u \in Deactivable, toggleUserStatus(a, u)
  PROVE  Cycle!Vacate \/ UNCHANGED Cycle!cycleVars
<1>1. Levels(flow) /\ Submitted(flow) /\ ChainInv /\ task' = task
  BY DEF StagedInv, ClosedInv, ChainInv, TypeInv, toggleUserStatus
<1>2. /\ StagesOf(flow') = StagesOf(flow)
      /\ DOMAIN flow' = DOMAIN flow
      /\ \A l \in DOMAIN flow : flow'[l].stage = flow[l].stage
      /\ PendingLevels(flow') \subseteq PendingLevels(flow)
  BY <1>1, DeactivationKeepsStages
<1>3. LastStage(flow') = LastStage(flow) /\ LastOf(task', flow') = LastOf(task, flow)
  BY <1>1, <1>2 DEF LastStage, LastOf
<1>4. CASE task.approvalStatus # "pending_approval" \/ PendingLevels(flow) = {}
  <2>1. StageOf(task', flow') = StageOf(task, flow)
    BY <1>1, <1>2, <1>3, <1>4 DEF StageOf
  <2>. QED
    BY <1>1, <1>3, <2>1, MapsToStutter
<1>5. CASE task.approvalStatus = "pending_approval" /\ PendingLevels(flow) # {}
  <2>1. PICK m \in Nat \ {0} : /\ StagesOf(flow) = 1..m
                               /\ LastOf(task, flow) = m
                               /\ StageOf(task, flow) = currentStage(flow)
                               /\ currentStage(flow) \in 1..m
    BY <1>5, OpenStage
  <2>2. CASE PendingLevels(flow') = {}
    <3>1. StageOf(task', flow') = m + 1
      BY <1>1, <1>3, <1>5, <2>1, <2>2 DEF StageOf, LastOf
    <3>. QED
      BY <1>1, <1>3, <1>5, <2>1, <3>1, MapsToVacate
  <2>3. CASE PendingLevels(flow') # {}
    <3>1. Levels(flow') /\ Submitted(flow')
      <4>1. [Next]_vars
        BY DEF Next
      <4>. QED
        BY <4>1, <1>1, NextChainInv DEF ChainInv, TypeInv, Levels, Submitted
    <3>2. /\ currentStage(flow') \in 1..m
          /\ \E l \in PendingLevels(flow') : currentStage(flow') = flow'[l].stage
      BY <1>2, <2>1, <2>3, <3>1, StandsAtStage
    <3>3. PICK l \in PendingLevels(flow') : currentStage(flow') = flow'[l].stage
      BY <3>2
    <3>4. l \in PendingLevels(flow) /\ flow'[l].stage = flow[l].stage
      BY <1>2, <3>3 DEF PendingLevels
    <3>5. currentStage(flow) <= currentStage(flow')
      BY <1>1, <1>5, <3>3, <3>4, CurrentStage
    <3>6. StageOf(task', flow') = currentStage(flow')
      BY <1>1, <1>5, <2>3 DEF StageOf
    <3>7. CASE currentStage(flow') = currentStage(flow)
      BY <1>1, <1>3, <2>1, <3>6, <3>7, MapsToStutter
    <3>8. CASE currentStage(flow') # currentStage(flow)
      <4>1. currentStage(flow') \in (currentStage(flow) + 1)..(m + 1)
        BY <2>1, <3>2, <3>5, <3>8
      <4>. QED
        BY <1>1, <1>3, <1>5, <2>1, <3>6, <4>1, MapsToVacate
    <3>. QED
      BY <3>7, <3>8
  <2>. QED
    BY <2>2, <2>3
<1>. QED
  BY <1>4, <1>5

(* Every step of the handlers is a step of the abstract cycle or none. *)
LEMMA NextImplements == ~Linked /\ StagedInv /\ [Next]_vars => [Cycle!CycleNext]_(Cycle!cycleVars)
<1>. SUFFICES ASSUME ~Linked, StagedInv, [Next]_vars
              PROVE  Cycle!CycleNext \/ UNCHANGED Cycle!cycleVars
  OBVIOUS
<1>1. ASSUME NEW u \in User, submitForApproval(u) PROVE Cycle!Submit \/ Cycle!AutoApprove
  <2>1. task.approvalStatus # "pending_approval"
    BY <1>1 DEF submitForApproval
  <2>. QED
    BY <1>1, <2>1, SubmissionStages, MapsToSubmit, MapsToAutoApprove
<1>2. ASSUME NEW u \in User, approveTask(u) PROVE Cycle!Conclude \/ Cycle!SignOff
  BY <1>2, ApproveImplements
<1>3. ASSUME NEW u \in User, rejectTask(u) \/ requestChanges(u)
      PROVE  Cycle!Conclude \/ Cycle!SendBack
  BY <1>3, RejectImplements
<1>4. ASSUME NEW a \in User, NEW u \in Deactivable, toggleUserStatus(a, u)
      PROVE  Cycle!Vacate \/ UNCHANGED Cycle!cycleVars
  BY <1>4, DeactivationImplements
<1>5. ASSUME NEW r \in inflight, updateTaskWrite(r) PROVE UNCHANGED Cycle!cycleVars
  <2>1. task'.approvalStatus = task.approvalStatus /\ flow' = flow
    BY <1>5 DEF updateTaskWrite, applyPatch, StagedInv, ClosedInv
  <2>2. StageOf(task', flow') = StageOf(task, flow) /\ LastOf(task', flow') = LastOf(task, flow)
    BY <2>1 DEF StageOf, LastOf
  <2>. QED
    BY <2>1, <2>2, MapsToStutter
<1>6. CASE UNCHANGED <<task, flow>>
  BY <1>6, MapsToStutter
<1>. QED
  BY <1>1, <1>2, <1>3, <1>4, <1>5, <1>6
     DEF Next, vars, updateTaskLoad, syncExistingLinkedTaskDone, updateUser, Cycle!CycleNext

(* The handlers of approvalController.js, with every concurrent update of the *)
(* task, every override, early sign-off and deactivation, take the task through *)
(* the abstract cycle: an open cycle stands at one of its stages, goes up by     *)
(* sign-offs, down by one stage per rejection, and closes only from there.      *)
THEOREM HandlersImplementCycle ==
  ASSUME ~Linked
  PROVE  Spec => ImplementsCycle
<1>1. Init => Cycle!CycleInit
  <2>. SUFFICES ASSUME Init PROVE Cycle!CycleInit
    OBVIOUS
  <2>1. task.approvalStatus = "none"
    BY RequestAssumption DEF Init
  <2>. QED
    BY <2>1 DEF Cycle!CycleInit, waiting
<1>2. Init => StagedInv
  <2>. SUFFICES ASSUME Init PROVE StagedInv
    OBVIOUS
  <2>1. task.approvalStatus = "none"
    BY RequestAssumption DEF Init
  <2>2. ClosedInv
    BY InitChainInv DEF Init, ClosedInv, TerminalHasNoPending, PendingLevels, EmptyFlow
  <2>. QED
    BY <2>1, <2>2 DEF StagedInv
<1>3. StagedInv /\ [Next]_vars => StagedInv'
  BY NextStagedInv
<1>4. StagedInv /\ [Next]_vars => [Cycle!CycleNext]_(Cycle!cycleVars)
  BY NextImplements
<1>. QED
  BY <1>1, <1>2, <1>3, <1>4, PTL DEF Spec, ImplementsCycle, Cycle!Spec
=============================================================================
