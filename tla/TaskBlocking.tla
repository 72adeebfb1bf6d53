---------------------------- MODULE TaskBlocking ----------------------------
(***************************************************************************)
(* One parent task, the dependency requests on it, one task link (the legacy  *)
(* TaskDependency) and the shadow tasks of the requests:                      *)
(* dependencyRequestController.js, dependencyController.js and                *)
(* dependencyService.js, and everybody else who writes the status of one of     *)
(* these tasks.  No task is deleted for good.                                *)
(*                                                                         *)
(* A lane is one HTTP request, or the background chain of a completed blocker,  *)
(* somewhere between two of its statements.  No statement runs in a             *)
(* transaction with another, except that a shadow is created together with the   *)
(* request's linkedTaskId.  A lane works on the rows it has loaded and writes    *)
(* only the columns it changes; customFields is one column.                    *)
(***************************************************************************)
EXTENDS Integers, Sequences

CONSTANTS
  Requests,      \* dependency requests that may be made
  Lanes,         \* handlers that may be at work at once
  None,
  MaxEvents      \* bound on the operations and crashes of a behaviour

Blocking == {"pending", "accepted", "working_on_it", "rejected"}
Withdrawn == {"rejected", "cancelled"}
Closed == {"done", "cancelled"}
TaskStatus == {"not_started", "working_on_it", "stuck", "done"}

ASSUME TaskBlockingConstants ==
  /\ MaxEvents \in Nat
  /\ None \notin Requests \cup Blocking \cup Closed \cup TaskStatus

VARIABLES
  parent,      \* the task: status, archived, customFields.blockedByDependency,
               \* customFields.statusBeforeDependencyBlock
  request,     \* dependency_requests
  shadow,      \* the shadow tasks made for each request, in order
  link, open,  \* the task link, and whether its blocker is not done
  lane,
  events,
  disturbed,   \* history: requests with two handlers at once, or one cut short
  unsettled,   \* history: a change whose recomputation was cut short or overlapped
  before       \* history: the status in which the parent was last locked, or locked again and
               \* captured anew; None if that is unclear

vars == <<parent, request, shadow, link, open, lane, events, disturbed, unsettled, before>>

Parent == [status : TaskStatus, archived : BOOLEAN, flag : BOOLEAN,
           captured : (TaskStatus \ {"stuck"}) \cup {None}]
Request == [status : Blocking \cup Closed \cup {None}, archived : BOOLEAN, linked : Nat]
Shadow == [status : TaskStatus, archived : BOOLEAN,
           byUser : SUBSET {"status", "archived"}]   \* history: columns a user wrote last

Advance == {"accepted", "working_on_it", "done", "rejected"}
Op == Advance \cup {"cancelled", "create", "archive", "cascade", "lock", "unlock", "chain", "edit"}
Recomputing == Advance \cup {"cancelled", "create", "archive"}

Lane == [at : {"idle", "save", "blocked", "task", "lock", "write", "sync", "cascade"},
         op : Op, on : Requests \cup {None}, linked : Nat, blocked : BOOLEAN,
         task : Parent, todo : SUBSET Requests, alone : BOOLEAN]

TypeOK ==
  /\ parent \in Parent
  /\ request \in [Requests -> Request]
  /\ shadow \in [Requests -> Seq(Shadow)]
  /\ link \in {"none", "active", "archived"} /\ open \in BOOLEAN
  /\ lane \in [Lanes -> Lane]
  /\ events \in 0..MaxEvents
  /\ disturbed \subseteq Requests /\ unsettled \in BOOLEAN /\ before \in TaskStatus \cup {None}

NoTask == [status |-> "not_started", archived |-> FALSE, flag |-> FALSE, captured |-> None]
Idle == [at |-> "idle", op |-> "edit", on |-> None, linked |-> 0, blocked |-> FALSE,
         task |-> NoTask, todo |-> {}, alone |-> FALSE]

Init ==
  /\ \E s \in {"not_started", "working_on_it"} : parent = [NoTask EXCEPT !.status = s]
  /\ request = [r \in Requests |-> [status |-> None, archived |-> FALSE, linked |-> 0]]
  /\ shadow = [r \in Requests |-> << >>]
  /\ link = "none" /\ open = TRUE
  /\ lane = [l \in Lanes |-> Idle]
  /\ events = 0
  /\ disturbed = {} /\ unsettled = FALSE /\ before = None

---------------------------------------------------------------------------
blocking(r) == request[r].status \in Blocking /\ ~request[r].archived

isTaskBlocked == (link = "active" /\ open) \/ \E r \in Requests : blocking(r)

idle(l) == lane[l].at = "idle"
at(l, a) == lane[l].at = a
others(l) == {k \in Lanes \ {l} : ~idle(k)}

(* A bound. *)
spend == events < MaxEvents /\ events' = events + 1

(* A handler starts; the history notes whom it overlaps. *)
begin(l, c) ==
  /\ spend
  /\ idle(l)
  /\ lane' = [k \in Lanes |-> IF k = l THEN [c EXCEPT !.alone = (others(l) = {})]
                              ELSE IF idle(k) THEN lane[k] ELSE [lane[k] EXCEPT !.alone = FALSE]]
  /\ disturbed' = disturbed \cup {r \in Requests : r = c.on /\ \E k \in others(l) : lane[k].on = r}
  /\ unsettled' = (unsettled \/ others(l) # {})

(* A change under the handlers at work, or one that nobody recomputes. *)
interfere(unnoticed) ==
  /\ lane' = [k \in Lanes |-> IF idle(k) THEN lane[k] ELSE [lane[k] EXCEPT !.alone = FALSE]]
  /\ unsettled' = (unsettled \/ unnoticed \/ \E k \in Lanes : ~idle(k))

to(l, c) == lane' = [lane EXCEPT ![l] = c]
finish(l) == to(l, Idle)

(* A recomputation that nobody disturbed settles what went wrong before it. *)
settled(l) == unsettled' = (unsettled /\ ~(lane[l].alone /\ lane[l].op \in Recomputing))

---------------------------------------------------------------------------
STATUS_TRANSITIONS_reopens(s) ==
  CASE s = "pending" -> {"accepted", "working_on_it", "rejected"}
    [] s = "accepted" -> {"working_on_it", "rejected"}
    [] s \in {"working_on_it", "done"} -> {"done", "rejected"}
    [] OTHER -> {}

(* The middleware has loaded the row, and the checks have passed on it. *)
STATUS_TRANSITIONS(s) ==
  CASE s = "pending" -> {"accepted", "working_on_it", "rejected"}
    [] s = "accepted" -> {"working_on_it", "rejected"}
    [] s = "working_on_it" -> {"done", "rejected"}
    [] OTHER -> {}

loadRequest(l, r, op) ==
  begin(l, [Idle EXCEPT !.at = "save", !.op = op, !.on = r, !.linked = request[r].linked])

updateStatus(l, r, s) ==
  /\ s \in STATUS_TRANSITIONS(request[r].status)
  /\ loadRequest(l, r, s)
  /\ UNCHANGED <<parent, request, shadow, link, open, before>>

cancelDependency(l, r) ==
  /\ request[r].status \in Blocking
  /\ loadRequest(l, r, "cancelled")
  /\ UNCHANGED <<parent, request, shadow, link, open, before>>

archiveDependency(l, r) ==
  /\ request[r].status # None /\ ~request[r].archived
  /\ loadRequest(l, r, "archive")
  /\ UNCHANGED <<parent, request, shadow, link, open, before>>

createDependencyRequest(l, r) ==
  /\ request[r].status = None
  /\ \A k \in Lanes : lane[k].on # r
  /\ ~parent.archived /\ parent.status # "done"
  /\ loadRequest(l, r, "create")
  /\ UNCHANGED <<parent, request, shadow, link, open, before>>

save_archiveOnly(l) ==
  /\ at(l, "save") /\ lane[l].on # None
  /\ request' = [request EXCEPT ![lane[l].on] =
       IF lane[l].op = "archive" THEN [@ EXCEPT !.archived = TRUE]
       ELSE [@ EXCEPT !.status = IF lane[l].op = "create" THEN "pending" ELSE lane[l].op]]
  /\ to(l, IF lane[l].op = "archive" THEN Idle ELSE [lane[l] EXCEPT !.at = "blocked"])
  /\ UNCHANGED <<parent, shadow, link, open, events, disturbed, unsettled, before>>

(* The row is written.  A save writes the status whatever the row says by now. *)
save(l) ==
  LET c == lane[l]
      row == CASE c.op = "create" -> [request[c.on] EXCEPT !.status = "pending"]
               [] c.op = "archive" -> [request[c.on] EXCEPT !.archived = TRUE]
               [] OTHER -> [request[c.on] EXCEPT !.status = c.op]
  IN
  /\ at(l, "save") /\ c.on # None
  /\ request' = [request EXCEPT ![c.on] = row]
  /\ to(l, [c EXCEPT !.at = "blocked"])
  /\ UNCHANGED <<parent, shadow, link, open, events, disturbed, unsettled, before>>

---------------------------------------------------------------------------
(* recomputeParentBlockState and its kin: read the blockers, load the task,  *)
(* load it again to lock it, write it.                                      *)

afterBlockState(c) ==
  IF c.op \in Advance \cup {"cancelled"} THEN [c EXCEPT !.at = "sync", !.task = NoTask, !.blocked = FALSE]
  ELSE Idle

readBlocked(l) ==
  LET c == lane[l] IN
  /\ at(l, "blocked")
  /\ \/ c.op = "chain" /\ to(l, IF isTaskBlocked THEN Idle ELSE [c EXCEPT !.at = "write"])
     \/ c.op = "unlock" /\ to(l, IF isTaskBlocked THEN Idle ELSE [c EXCEPT !.at = "task"])
     \/ c.op \notin {"chain", "unlock"} /\ to(l, [c EXCEPT !.at = "task", !.blocked = isTaskBlocked])
  /\ UNCHANGED <<parent, request, shadow, link, open, events, disturbed, unsettled, before>>

loadTask(l) ==
  LET c == lane[l] IN
  /\ at(l, "task")
  /\ \/ /\ c.blocked /\ ~parent.flag
        /\ to(l, [c EXCEPT !.at = "lock"])
        /\ UNCHANGED unsettled
     \/ /\ ~c.blocked /\ parent.flag
        /\ to(l, [c EXCEPT !.at = "write", !.task = parent])
        /\ UNCHANGED unsettled
     \/ /\ c.blocked = parent.flag
        /\ to(l, afterBlockState(c))
        /\ settled(l)
  /\ UNCHANGED <<parent, request, shadow, link, open, events, disturbed, before>>

lockTaskAsDependencyBlocked(l) ==
  LET c == lane[l] IN
  /\ at(l, "lock")
  /\ IF parent.status = "done" THEN to(l, afterBlockState(c)) /\ settled(l)
     ELSE to(l, [c EXCEPT !.at = "write", !.blocked = TRUE, !.task = parent]) /\ UNCHANGED unsettled
  /\ UNCHANGED <<parent, request, shadow, link, open, events, disturbed, before>>

(* The status is written only if it differs from the one loaded. *)
written(c, status, flag, captured) ==
  [parent EXCEPT !.status = IF status = c.task.status THEN @ ELSE status,
                 !.flag = flag, !.captured = captured]

lockedParent_capturesStuck(c) ==
  written(c, "stuck", TRUE, IF c.task.captured = None THEN c.task.status ELSE c.task.captured)

lockedParent(c) ==
  written(c, "stuck", TRUE,
          IF c.task.captured = None /\ c.task.status # "stuck" THEN c.task.status ELSE c.task.captured)

buildUnblockUpdates_startsOver(c) ==
  written(c, IF c.task.status # "stuck" THEN c.task.status ELSE "not_started", FALSE, None)

buildUnblockUpdates(c) ==
  written(c, IF c.task.status # "stuck" THEN c.task.status
             ELSE IF c.task.captured = None THEN "not_started" ELSE c.task.captured,
          FALSE, None)

(* A done parent loses the flag only, and so does one unlocked by removing a link. *)
unblockedParent(c) ==
  IF c.op = "unlock" \/ (c.op # "chain" /\ c.task.status = "done")
  THEN written(c, c.task.status, FALSE, c.task.captured)
  ELSE buildUnblockUpdates(c)

writeTask(l) ==
  LET c == lane[l] IN
  /\ at(l, "write") /\ c.op # "edit"
  /\ parent' = IF c.blocked THEN lockedParent(c) ELSE unblockedParent(c)
  /\ before' = IF c.blocked /\ (~parent.flag \/ parent'.captured # parent.captured)
               THEN IF parent.captured = None /\ ~unsettled THEN parent.status ELSE None
               ELSE before
  /\ to(l, afterBlockState(c))
  /\ settled(l)
  /\ UNCHANGED <<request, shadow, link, open, events, disturbed>>

---------------------------------------------------------------------------
(* syncLinkedTaskFromDependency, on the handler's own copy of the request. *)

depStatusToTaskStatus(s) == IF s = "accepted" THEN "not_started" ELSE s

newTask(s) == [status |-> depStatusToTaskStatus(s), archived |-> FALSE, byUser |-> {}]

materializeDependencyTask_unlinked(r, s) ==
  /\ shadow' = [shadow EXCEPT ![r] = Append(@, newTask(s))]
  /\ UNCHANGED request

materializeDependencyTask(r, s) ==
  /\ shadow' = [shadow EXCEPT ![r] = Append(@, newTask(s))]
  /\ request' = [request EXCEPT ![r].linked = Len(shadow[r]) + 1]

syncExistingLinkedTask_leavesWithdrawn(r, i, s) ==
  LET task == shadow[r][i]
      new == IF s \in Withdrawn \cup {"accepted"} \/ (s = "working_on_it" /\ task.status = "done") THEN task
             ELSE [task EXCEPT !.status = s, !.byUser = task.byUser \ {"status"}]
  IN  shadow' = [shadow EXCEPT ![r][i] = new] /\ UNCHANGED request

syncExistingLinkedTask(r, i, s) ==
  LET task == shadow[r][i]
      new == IF s \in Withdrawn THEN [task EXCEPT !.archived = TRUE, !.byUser = task.byUser \ {"archived"}]
             ELSE IF s = "accepted" \/ (s = "working_on_it" /\ task.status = "done") THEN task
             ELSE [task EXCEPT !.status = s, !.byUser = task.byUser \ {"status"}]
  IN  shadow' = [shadow EXCEPT ![r][i] = new] /\ UNCHANGED request

syncLinkedTaskFromDependency(l) ==
  LET c == lane[l] IN
  /\ at(l, "sync")
  /\ \/ c.linked # 0 /\ syncExistingLinkedTask(c.on, c.linked, c.op)
     \/ c.linked = 0 /\ c.op \notin Withdrawn /\ materializeDependencyTask(c.on, c.op)
     \/ c.linked = 0 /\ c.op \in Withdrawn /\ UNCHANGED <<shadow, request>>
  /\ finish(l)
  /\ UNCHANGED <<parent, link, open, events, disturbed, unsettled, before>>

---------------------------------------------------------------------------
(* The task link. *)

linkOp(l, op, copy, a) ==
  /\ begin(l, [Idle EXCEPT !.at = a, !.op = op, !.task = copy])
  /\ UNCHANGED <<parent, request, shadow, before>>

(* createDependency, and restoring an archived one: lock if the blocker is open. *)
createDependency(l) ==
  /\ link # "active"
  /\ link = "none" => parent.status # "done"
  /\ link' = "active"
  /\ IF open THEN linkOp(l, "lock", NoTask, "lock")
     ELSE /\ spend
          /\ interfere(FALSE)
          /\ UNCHANGED <<parent, request, shadow, disturbed, before>>
  /\ UNCHANGED open

(* removeDependency and archiveDependency: unlockTaskIfUnblocked. *)
removeDependency(l, to_) ==
  /\ link = "active"
  /\ link' = to_
  /\ linkOp(l, "unlock", NoTask, "blocked")
  /\ UNCHANGED open

(* The blocker is completed by PUT /tasks/:id, the only caller of               *)
(* processTaskCompletion, which runs on without being awaited.  It loads the      *)
(* blocked task without its customFields.                                      *)
processTaskCompletion(l) ==
  /\ open /\ open' = FALSE
  /\ link # "none" /\ parent.status # "done"
  /\ linkOp(l, "chain", [NoTask EXCEPT !.status = parent.status], "blocked")
  /\ UNCHANGED link

(* The chain leaves a done task alone, flag and all.  And whoever else completes the  *)
(* blocker runs none: its final approval, a workflow, an automation, a drag into      *)
(* another group, its own request if it is a shadow.                              *)
completeBlocker ==
  /\ open /\ open' = FALSE
  /\ spend
  /\ interfere(link = "active" /\ parent.flag)
  /\ UNCHANGED <<parent, request, shadow, link, disturbed, before>>

(* Nothing locks the blocked task again. *)
reopenBlocker ==
  /\ ~open /\ open' = TRUE
  /\ spend
  /\ interfere(link = "active")
  /\ UNCHANGED <<parent, request, shadow, link, disturbed, before>>

---------------------------------------------------------------------------
updateTask_unchecked(l, s) ==
  /\ s # parent.status
  /\ begin(l, [Idle EXCEPT !.at = "write", !.op = "edit", !.task = [NoTask EXCEPT !.status = s]])
  /\ UNCHANGED <<parent, request, shadow, link, open, before>>

(* taskController.updateTask on the parent: a status is accepted while the task  *)
(* is not blocked, and written later.                                          *)
updateTask(l, s) ==
  /\ ~isTaskBlocked /\ s # parent.status
  /\ begin(l, [Idle EXCEPT !.at = "write", !.op = "edit", !.task = [NoTask EXCEPT !.status = s]])
  /\ UNCHANGED <<parent, request, shadow, link, open, before>>

writeStatus(l) ==
  /\ at(l, "write") /\ lane[l].op = "edit"
  /\ parent' = [parent EXCEPT !.status = lane[l].task.status]
  /\ finish(l)
  /\ UNCHANGED <<request, shadow, link, open, events, disturbed, unsettled, before>>

(* Those who write the parent's status and ask nothing about blockers: an approval  *)
(* that submits it, completes it or gives it back the status of its snapshot, a       *)
(* workflow, an automation, a drag into a group.  "working_on_it" stands for every    *)
(* label of the board.  Nobody locks a blocked task that so comes back from done.      *)
writeStatusUnasked(s) ==
  /\ spend
  /\ s # parent.status
  /\ parent' = [parent EXCEPT !.status = s]
  /\ interfere(parent.status = "done")
  /\ UNCHANGED <<request, shadow, link, open, disturbed, before>>

(* updateTask with custom fields: the column is replaced by the client's copy, here   *)
(* one from before the task was locked.                                          *)
updateCustomFields ==
  /\ spend
  /\ parent.flag \/ parent.captured # None
  /\ parent' = [parent EXCEPT !.flag = FALSE, !.captured = None]
  /\ interfere(parent.flag)
  /\ UNCHANGED <<request, shadow, link, open, disturbed, before>>

(* Archiving the parent cancels its requests, one by one; the block state and   *)
(* the shadows are left as they are.                                          *)
archiveParent(l) ==
  /\ ~parent.archived
  /\ parent' = [parent EXCEPT !.archived = TRUE]
  /\ begin(l, [Idle EXCEPT !.at = "cascade", !.op = "cascade", !.todo = {r \in Requests : blocking(r)}])
  /\ UNCHANGED <<request, shadow, link, open, before>>

cascadeCancel(l) ==
  LET c == lane[l] IN
  /\ at(l, "cascade")
  /\ \/ /\ c.todo = {}
        /\ finish(l)
        /\ UNCHANGED <<request, disturbed, unsettled>>
     \/ \E r \in c.todo :
          /\ request' = [request EXCEPT ![r].status = "cancelled"]
          /\ disturbed' = disturbed \cup {r}
          /\ unsettled' = TRUE
          /\ to(l, [c EXCEPT !.todo = @ \ {r}])
  /\ UNCHANGED <<parent, shadow, link, open, events, before>>

restoreParent ==
  /\ spend
  /\ parent.archived
  /\ parent' = [parent EXCEPT !.archived = FALSE]
  /\ UNCHANGED <<request, shadow, link, open, lane, disturbed, unsettled, before>>

(* The other ways to archive it, a member's DELETE and the bulk update, cancel nothing. *)
archiveOnly ==
  /\ spend
  /\ ~parent.archived
  /\ parent' = [parent EXCEPT !.archived = TRUE]
  /\ UNCHANGED <<request, shadow, link, open, lane, disturbed, unsettled, before>>

(* Users move, archive and restore a shadow like any task; its request does not follow. *)
editShadow(r, i) ==
  LET task == shadow[r][i]
      moved(s) == [task EXCEPT !.status = s, !.byUser = task.byUser \cup {"status"}]
      toggled == [task EXCEPT !.archived = ~task.archived, !.byUser = task.byUser \cup {"archived"}]
  IN
  /\ spend
  /\ \/ \E s \in TaskStatus \ {task.status} : shadow' = [shadow EXCEPT ![r][i] = moved(s)]
     \/ shadow' = [shadow EXCEPT ![r][i] = toggled]
  /\ UNCHANGED <<parent, request, link, open, lane, disturbed, unsettled, before>>

(* The process stops, or a statement throws. *)
crash(l) ==
  /\ spend
  /\ ~idle(l)
  /\ finish(l)
  /\ disturbed' = disturbed \cup {r \in Requests : r = lane[l].on}
  /\ unsettled' = TRUE
  /\ UNCHANGED <<parent, request, shadow, link, open, before>>

Next ==
  \/ \E l \in Lanes :
       \/ \E r \in Requests :
            \/ \E s \in Advance : updateStatus(l, r, s)
            \/ cancelDependency(l, r)
            \/ archiveDependency(l, r)
            \/ createDependencyRequest(l, r)
       \/ save(l)
       \/ readBlocked(l)
       \/ loadTask(l)
       \/ lockTaskAsDependencyBlocked(l)
       \/ writeTask(l)
       \/ syncLinkedTaskFromDependency(l)
       \/ createDependency(l)
       \/ \E s \in {"none", "archived"} : removeDependency(l, s)
       \/ processTaskCompletion(l)
       \/ \E s \in TaskStatus : updateTask(l, s)
       \/ writeStatus(l)
       \/ archiveParent(l)
       \/ cascadeCancel(l)
       \/ crash(l)
  \/ completeBlocker
  \/ reopenBlocker
  \/ \E s \in TaskStatus : writeStatusUnasked(s)
  \/ updateCustomFields
  \/ restoreParent
  \/ archiveOnly
  \/ \E r \in Requests : \E i \in DOMAIN shadow[r] : editShadow(r, i)

Spec == Init /\ [][Next]_vars
---------------------------------------------------------------------------
(* "the parent task's blocked state is computed from the set of active rows"      *)
(* (DependencyRequest.js:8).  It is not read through: the flag is a copy, which the      *)
(* handlers of the requests and links recompute.  At rest a task that is not done is     *)
(* flagged exactly while something blocks it, unless the last change was one of those     *)
(* that recompute nothing or went wrong: the blocker completed or reopened without the    *)
(* chain, a done task brought back unasked, the column overwritten from a client's copy,  *)
(* an archived parent's requests, handlers that overlapped or stopped.  After these the    *)
(* flag may be wrong for ever; one recomputation on its own puts it right whatever it was. *)
BlockTruth ==
  (\A l \in Lanes : idle(l)) /\ ~unsettled /\ parent.status # "done"
    => parent.flag = isTaskBlocked

(* "materialize ONE Task on the parent's board", "they never create a second one"       *)
(* (dependencyService.js:411): a request whose handlers did not overlap has at most one *)
(* shadow, whatever happens on the other requests.  Overlapping ones make two.          *)
OneShadow == \A r \in Requests \ disturbed : Len(shadow[r]) <= 1

(* "make the assignee's board reflect the dep work" (dependencyRequestController.js:360): *)
(* between its handlers a request under way has its shadow, a withdrawn one has none     *)
(* on the board, and a finished one a finished shadow, in every column that no user has   *)
(* written since the request's last synchronisation wrote it.                           *)
ShadowTruth ==
  \A r \in Requests \ disturbed : (\A l \in Lanes : lane[l].on # r) =>
    LET q == request[r]  task == shadow[r][q.linked] IN
    /\ q.status \in {"accepted", "working_on_it", "done"} => q.linked # 0
    /\ q.linked # 0 =>
         /\ "archived" \notin task.byUser => task.archived = (q.status \in Withdrawn)
         /\ q.status = "done" /\ "status" \notin task.byUser => task.status = "done"

(* done and cancelled are terminal (STATUS_TRANSITIONS), as long as no two handlers of   *)
(* the request overlap.                                                               *)
ClosedStays ==
  [][\A r \in Requests \ disturbed' :
       request[r].status \in Closed => request'[r].status = request[r].status]_vars

(* "Becoming unblocked. Don't touch a task that has been independently marked done"     *)
(* (dependencyService.js:360): blocking and unblocking do not reopen a done task, unless  *)
(* it was completed under a handler that had loaded it.                              *)
DoneStays ==
  [][parent.status = "done" /\ parent'.status # "done"
       => \/ unsettled
          \/ \E l \in Lanes : writeStatus(l)
          \/ \E s \in TaskStatus : writeStatusUnasked(s)]_vars

(* "Prevent status changes on tasks blocked by dependencies" (taskController.js:1783).      *)
(* Only updateTask prevents them: a decision on an approval, a workflow, an automation or a  *)
(* drag moves a blocked task all the same.  Nobody else does: no edit, and none of the    *)
(* recomputations, takes a blocked task out of stuck, unless one was let through before    *)
(* the block and written after it.                                                   *)
HeldAtStuck ==
  [][isTaskBlocked /\ parent.status = "stuck" /\ parent'.status # "stuck"
       => unsettled \/ \E s \in TaskStatus : writeStatusUnasked(s)]_vars

(* "on unblock, restores the captured pre-block status" (dependencyService.js:341): the   *)
(* recomputation gives a stuck task back the status it was locked in; only one that was   *)
(* stuck before it was locked starts over.                                             *)
RestoresStatus ==
  [][parent.flag /\ ~parent'.flag /\ parent.status = "stuck" /\ before # None /\ ~unsettled
     /\ (\E l \in Lanes : lane[l].op \in Recomputing /\ writeTask(l))
       => parent'.status = IF before = "stuck" THEN "not_started" ELSE before]_vars

(* "so the captured statusBeforeDependencyBlock is restored consistently with the        *)
(* DependencyRequest path" (dependencyService.js:121): whoever takes a task out of its     *)
(* block puts back the status that was captured.                                      *)
ChainRestores ==
  [][parent.flag /\ ~parent'.flag /\ parent'.status # parent.status /\ parent.captured # None
       => parent'.status = parent.captured]_vars
=============================================================================
