# Verification of the Aniston task manager

TLA+ models of the core logic of the server under `server/`, the TLC runs that
check them and the theorems that TLAPS proves about them. Paths below are relative to the repository.

## 1. The system

An Express API over PostgreSQL (Sequelize), run as one or several replicas, each with its own cron jobs; a
React client and an Electron shell talk to it. The API's handlers are asynchronous: every `await` is a place where
another request, another replica or a crash can come in between, unless a transaction holds a row lock. Most
handlers take none.

| Component | State it keeps | Operations | What is hard | What makes it correct |
|---|---|---|---|---|
| Approval cycle (`controllers/approvalController.js`, `services/approvalLifecycleService.js`, `approvalCapabilityService.js`) | `tasks.approvalStatus`, status, progress, the snapshot in `customFields`; `task_approval_flows` rows (level, stage, status) | submit, approve, reject (bounce or terminal), request changes, super-admin override, early completion | long sequences of decisions on parallel any-of stages; roles that change while a cycle is open; writers that know nothing of the cycle | an approval rests on every stage; nobody decides on their own work; a cycle never gets stuck; a closed cycle leaves nothing waiting; a rejection gives back what was submitted |
| Task update (`controllers/taskController.js`) | `tasks` | PUT with status, progress, custom fields behind the completion gate | load, check, write without a lock | nobody completes a task around the chain |
| Chain derivation (`services/approvalChainService.js`) | reads users and relations | walk, final stage, fallback | cycles, depth cap, deactivated people in the line | chains are well formed; the walk is the reporting line; a deactivation moves only one person |
| Org chart (`services/hierarchyService.js`, `controllers/managerRelationController.js`) | `users.managerId` and `manager_relations` | set and remove the manager, add, update, remove a relation, sync, demotion | the same fact stored twice; statement-by-statement writes; check before transaction | no cycles, one primary manager, both records agree, as far as requests that lock nothing can keep it |
| User administration (`controllers/userController.js`, `config/tiers.js`) | role, super-admin flag, active flag | update, toggle status | effects on open cycles; last super admin | an open cycle survives a deactivation |
| Reminders (`services/reminderService.js`, `jobs/deadlineReminderJob.js`) | `task_reminders` | set specs, reschedule, cancel; the minute job claims, sends, re-arms | several replicas, restarts, editors at the same time | a one-time reminder at most once per person, never due for ever |
| Outbound webhooks (`services/webhookService.js`, `jobs/webhookRetryJob.js`, `jobs/cronLock.js`) | `webhook_deliveries` | dispatch, retry, back off, give up | failure after the POST, crash before the record, overlapping passes | one sender at a time, attempts counted, every delivery ends |
| Dependency requests (`controllers/dependencyRequestController.js`, `controllers/dependencyController.js`, `services/dependencyService.js`) | request status, block flag and captured status of the parent, the shadow tasks, the older task links | create, accept, work, complete, reject, cancel, archive; lock and unlock the parent; sync the shadow | three rows without a transaction; every handler recomputes what another is recomputing | the parent's flag says whether something blocks it; no edit moves it meanwhile; it gets its status back; one shadow per request, telling its state |
| Recurring tasks (`services/recurringTaskService.js`, `controllers/recurringTemplateController.js`, the generation job) | templates, instances, `lastGeneratedDate`, `nextRunAt` | cron pass with backfill, generate now, seed, edit, pause, archive | workers on stale copies of one row, crash between two writes | no occurrence skipped unless by a seed or a new schedule, one task ahead, a template that fell behind catches up |
| Workflow engine (`services/workflowEngine.js`, `jobs/workflowWaitJob.js`) | the graph, runs under idempotency keys, persisted waits, each process's key cache | trigger, walk, wait, resume | the run row is written after the actions; a wait row is deleted after the resumed walk; the author may leave meanwhile | a walk visits exactly what its branches lead to; every repetition comes from another process or a cut resume; waits are not lost |
| Due-date extensions (`controllers/dueDateExtensionController.js`) | extension status, due date | request, approve, reject | two reviewers, two writes | a rejected extension moves no date |
| Everything else | | | CRUD, I/O, external services | see section 7 |

The components meet in the database and through calls. A submission calls the chain derivation, which reads the
org chart. User administration skips approval rows. A task update cancels or reschedules reminders and dispatches webhooks. The
dependency service completes shadow tasks that may be in an approval cycle.

## 2. The modules

| Module | Models | Uses |
|---|---|---|
| `ReportingLine` | resolving somebody's manager, in the two orders the two services use, and the cycle check | |
| `ApprovalChain` | `deriveApprovalChain` as an operator on an organisation | `ReportingLine` |
| `Organisation` | an organisation in which accounts are deactivated and reactivated, and what the derivation promises on it | `ApprovalChain` |
| `ChainShape` | `IsChain`, what the approval cycle asks of a chain and the derivation delivers | |
| `ApprovalCycle` | abstract: an open cycle at one of its stages; one step up, one step down, conclude, vacate | |
| `ApprovalFlow` | approval cycle, task update, user administration, shadow sync on one task | `ChainShape`; refines `ApprovalCycle` |
| `Hierarchy` | every write to the org chart | `ReportingLine` |
| `TaskBlocking` | dependency requests, task link and shadow tasks of one parent task | |
| `RecurringTemplate` | one recurring template and its instances | |
| `WorkflowEngine` | one published workflow on several processes, its waits and the cron pass that resumes them | |
| `Reminder` | the user-set reminders of one task on several replicas | |
| `WebhookDelivery` | deliveries to one webhook, dispatch and retry | |
| `<M>_proofs` | theorems about `<M>`; those of `ApprovalFlow` include the refinement, those of `ApprovalChain` are about `Organisation` too | `<M>` |
| `MC<M>` | the instances TLC checks | `<M>` |

### ApprovalFlow

State: `profile` (role, super-admin, active of each user), `task` (status, progress, approvalStatus, snapshot), `flow`
(level -> row), `inflight` (update requests that have loaded the task and not written it), `atSubmit` (history).

- `submitForApproval`, `approveTask`, `rejectTask`, `requestChanges`: each handler runs in a transaction that holds
  `SELECT ... FOR UPDATE` on the task from its first read to its commit, so each is one action. The action is the whole handler:
  capability check, actor row (or the row that an override inserts), row updates of peers and lower stages, task
  fields and approval status. The users are read outside the transaction in the code; here they are those of the commit.
- `updateTaskLoad` / `updateTaskWrite`: `updateTask` takes no lock. Loading, with the gate and every computed field, is one action, the write
  another. `updatePatch` holds what Sequelize will write: the fields that differ from the loaded copy. A custom-field edit replaces the
  JSON column and strips reserved keys, and with them `_approvalSnapshot`.
- `syncExistingLinkedTaskDone`: same pair of steps for the shadow task of a dependency.
- `toggleUserStatus`, `updateUser`: one action each, with the last-tier-1 guard; only the first touches approval rows.
- The derivation is a CONSTANT operator, assumed to give a chain as described by `IsChain`. The instances use the real one of `ApprovalChain`
  (`deriveChainFor`), and TLC evaluates the assumption on it; `AssumptionDelivered` proves that it holds of every organisation, so the theorems about
  the cycle rest on nothing that the derivation does not keep.

Task groups and boards can rename status labels; the model uses the default statuses.

### ApprovalChain and ReportingLine

`walkManagerChain` is the climb as a recursive function bounded by `MAX_CHAIN_DEPTH`; `climb` is the loop's body, with its
early exits in the order of the code. `collectFinalStageMembers` lists the three buckets as the code fills them: the one listing in the order
`precedes`. `Organisation` puts a small state machine around it: any organisation at the start, then deactivations and reactivations.
`deriveChainFor` joins the profiles of `ApprovalFlow` with a place in the chart, the form in which a submission calls it.

### Hierarchy

`org[u]` holds the column and the relation rows in creation order, with their primary flag and type. A request is in flight from its check to its last
statement, and any number of them interleave: nothing in the code serialises them. `hierarchyService`'s functions check first (`checkSetPrimaryManager`)
and then write in one transaction (`setPrimaryManager`); the relation endpoints run statement by statement
(`clearPrimaries`, `writeColumn`, `createRow`, `flagRow`, `destroyRow`, `promoteNext`), sync and the demotion load and then write (`mirrorColumn`, `moveReports`), and `fail` may end a
request before any statement. A PUT without `isPrimary: true` checks nothing (`unsetPrimaryRelation`); any PUT may change the row's type (`retyped`).
`wouldCreateCycle` climbs by the primary rows as the code does, any of them when there are several; it is stated as a closure instead of a loop, and the climb is one read of the chart.

Four history variables say what has gone on, so that the properties can say what they are worth: `stale`, the requests in flight whose climb another write has
changed; `overtaken`, the users placed by such a request; `overlapped`, the users whose records were changed by another request while one about them was
running; `drifted`, the users moved without a check (promoted by `removeRelation`, or moved by a demotion) and not placed by a check since.

### TaskBlocking

One parent task. `request` are the rows of `dependency_requests`, `shadow` the shadow tasks made for each, `link` and `open` one link of the
older kind and whether its blocker is unfinished. A `lane` is a handler, or the background chain of a completed blocker, between two of its
statements, with the rows it has loaded: save the request (`save`), recompute whether the parent is blocked (`readBlocked`), load the parent
(`loadTask`), lock it (`lockTaskAsDependencyBlocked`) or unlock it (`writeTask`), sync the shadow (`syncLinkedTaskFromDependency`). `crash` ends a lane
anywhere. A write sets only the columns that the loaded copy lets it change, and `customFields` is one column. `updateTask` on the
parent is check, load and write like any other edit.

The other writers of these rows are single statements:

- `processTaskCompletion` is the chain that PUT `/tasks/:id` starts when it completes the blocker, and nobody else does (`taskController.js:2500`). `completeBlocker` is everybody else: the
  final approval, `change_status` of a workflow or an automation, a drag into a group with a mapped status, the shadow sync when the blocker is a shadow.
- `writeStatusUnasked` are those who write the parent's own status without asking about blockers: submission, approval, rejection and request for changes (the snapshot's status comes
  back), workflows, automations, drags.
- `updateCustomFields` replaces the JSON column by the client's copy. `archiveOnly` is a member's DELETE or the bulk update, which cancel no requests; `archiveParent` the archiving that does.
- `editShadow` is a user who moves, archives or restores a shadow; `byUser` remembers which columns were last written so.

`disturbed` remembers which requests had two handlers at once or a handler cut short; `unsettled` that the parent's flag may be wrong: handlers overlapped or were cut short, or one of the
writers above changed what the flag is about without recomputing it. A recomputation that ran alone clears it. The code takes no lock, so most of its promises are for what happens
otherwise. `before` remembers the status in which the parent was last captured: a second lock of a task that somebody has taken out of stuck captures anew.

### RecurringTemplate

Dates are day numbers. Two workers, the cron pass and one request at a time, each load the row once and work on that copy: `generateInstance` for
each day of the backlog (one transaction; the unique index makes a repeat a no-op), then `markGenerated`, `recomputeNextRunAt`,
`closeTemplate`. `updateTemplate`, `togglePause`, `archiveTemplate` write the row and then `reschedule` and
`seedNextUpcomingInstance` run. `block` is an archived board or a deactivated assignee, `refuse` the preflight failure with its
notification, `stop` a process that stops between two statements. `forgone` is a history variable: the days without a task that a seed has jumped over
(`jumped`), or that belong to a schedule adopted when `lastGeneratedDate`, or a running pass, had gone past them. An edit that leaves the days unchanged adds nothing to it; the seed it triggers does, when
there is a backlog.

### WorkflowEngine

A walk is `executeWorkflow`: `queued` edges, visited nodes, the actor's authority as captured when it began. `Visit` takes one edge and
does what the node does: `Acts`, `Throws`, `Waits` (persist a row, or sleep in memory: `clamped` is the set of waits a walk slept through), `Refused`, `Passes` a condition. The queue is a set: rows
come back from the database without an order, and no property depends on one. `Record` writes the run row under its key. `tick`, `resumeFromWait`,
`destroyWait` and `tickEnds` are one pass of the cron job under its lock. Each process has its own key cache (`lru`), lost with `Crash`.
`sent` counts comments and messages left by each node, the actions that are not idempotent.

### Reminder

One task; each user-set spec has at most one row. Time is what the code compares: `upcoming` says which specs' moments
lie ahead, `due` whether a row's `scheduledFor` has passed. Each replica's `processReminders` is a small program counter:
select, check the task, claim by a conditional UPDATE, load recipients, send, re-arm. `fault` is a failed statement, a restart, or
the loss of the detached `cancelReminders`. `instanceUpdate` is the ORM's instance update, which writes the attributes
that differ from the instance as it was loaded; that is external code, modelled from its documented behaviour
in the version `server/package.json` names (Sequelize 6).

### WebhookDelivery

A sender is the dispatch of one delivery or a replica's retry pass; both run `sendAndRecord`: `post`, then
`recordSuccess` and `touchWebhook` in one `try`, or `scheduleRetryOrFail`; of a refused POST that is inside the `try` as well, so when its second write
throws, the `catch` runs it again (`"refused"`, `"failure"`). `lock` is the advisory lock of `withCronLock`, held
while the pass runs and released with its transaction. `stop` is a process stopping, or a statement failing outside the `try`, which
ends the dispatch or the pass in the same way.

## 3. The runs

| Run | Question | Result |
|---|---|---|
| `approval_cycle` | A member, an assistant manager, a manager and a super admin; decisions, overrides, deactivations of the lead and the manager, the manager promoted to super admin, the boss demoted, one racing update. `ApprovalEarned`, `Decidable`, `TerminalHasNoPending`, `SnapshotLifecycle`, `RestoresSubmittedState`, `ImplementsCycle` | holds (85,608 states) |
| `approval_shadow` | plus the shadow sync, custom-field edits and a submitter who becomes super admin. `TypeOK`, `SubmitterKeepsOut`, `StageDiscipline` | holds (70,368) |
| `approval_stranded` | `OpenCycleWaits`: an open cycle has somebody to wait for | **violated**: when a new super admin deactivates everybody in the final stage |
| `chain_orgs` | Every organisation of four people, with cycles and self-management, depth cap 2. `ChainWellFormed`, `WalkFollowsLine`, `DeactivationIsLocal` | holds (65,536) |
| `hierarchy_edits` | Three people, four requests, two at a time, each stopping after any statement. `TypeOK`, `Acyclic`, `OnePrimary`, `ColumnFollowsPrimary` | holds (1,019,786 up to symmetry) |
| `blocking_lanes` | Two requests, two handlers at once, five operations or crashes, among them those that ask nothing about blockers. `TypeOK`, `BlockTruth`, `OneShadow`, `ShadowTruth`, `HeldAtStuck`, `ClosedStays`, `RestoresStatus` | holds (2,243,547 up to symmetry) |
| `blocking_chain` | `ChainRestores`: the chain of a completed blocker restores the captured status | **violated**: it loads the task without `customFields` |
| `recurring_template` | Three schedules, a cron pass and a request on stale copies, two edits, pauses, blocks or restarts. `TypeOK`, `NoGap`, `OneUpcoming`, `CatchesUp` | holds (1,129,478) |
| `workflow_replicas` | Three graphs, two processes, two walks beside the cron passes, three events, faults or crashes. `TypeOK`, `WithinReach`, `FullWalk`, `RepeatsTraced`, `AuthorGone`, `Settles` | holds (407,040) |
| `workflow_resume` | `ViewKept`: a resumed walk sees the task as the trigger did | **violated**: the stored context has ids only |
| `reminder_replicas` | Two replicas, a one-shot and a recurring reminder, every edit, one fault. `TypeOK`, `SentAtMostOnce` (of the one-shot), `DueIsHandled` | holds (544,880) |
| `webhook_senders` | Three deliveries in batches of two, two attempts, two replicas, every kind of fault, two faults. `TypeOK`, `OneSender`, `PostsCounted`, `EventuallySettled` | holds (222,172) |

Each violated run checks a sentence of a comment of the repository; `PROJECT.json` quotes it under
`findings`, with the line of code that differs: a deactivation skips the user's pending rows and concludes nothing; `processTaskCompletion` names the columns it loads
and `customFields`, which holds the captured status, is not one of them; `sanitizeContext` drops the task, on which every later node of the walk relies.
The existing test of the chain (`server/__tests__/services/dependencyService.autoUnblock.test.js:59-75`) gives the helper a task that has `customFields`, so it passes.

`Hierarchy` starts from an organisation of `Uses`, a set of super admins and the endpoints in use. Two kinds are checked: every operation among equals, and every
operation but sync below or beside a super admin. Without sync more can be said: a second primary row then needs two requests on one user (`OnePrimary`). Each of the exemptions `overtaken`,
`overlapped` and `drifted` is necessary: without any one of them the run is violated, by the histories section 4 describes.

**Bounds.** Four users are the fewest with two sequential stages and a final stage of two, so bounce, early completion, parallel
peers and override all happen. `MaxInFlight` 1 is enough for a load-write race against the handlers, which are atomic.
The update of `approval_cycle` overwrites both columns the cycle owns. Three people make every shape of the
chart a cycle check can get wrong (loop of two, of three, chain, fork); two slots make every race of two requests, and four requests reach a chart of three placed people and a race on it. The chain is checked where `MAX_CHAIN_DEPTH` cuts it. Two requests are the fewest where one still blocks while the other
is closed; two lanes make every race of two handlers, and five events reach create, work, done on one request with two to spare for the other, or for users, approvals and archiving in between
(`blocking_chain` needs one request, one lane and three events). In `recurring_template`, `LastDay` 3 and `BACKFILL_CAP` 2
instead of 31 let a backlog be longer than the cap; the schedules are every other day, daily with an end the calendar outlasts, and a start still to come; two
events give pause and resume, or an edit under a running pass or in a backlog. In `workflow_replicas`, one key is one event that both processes may
get; three wait ids suffice for what the three graphs persist; `Rejoining` has an action that needs the author before the wait and behind it, so a resumed walk meets it; `BATCH_SIZE` 1 makes the passes queue. Two replicas and one fault in `Reminder`: a third
replica can only lose one more claim. `2` in `send` bounds the history variable one above what
`SentAtMostOnce` allows. `MAX_ATTEMPTS` 2 instead of 5 keeps the first attempt and the last apart, and three deliveries do not fit into a batch of two (`BatchLimit`, 50 in the code).

**Symmetry** is used in `hierarchy_edits` and `blocking_lanes`, where no liveness is checked and nobody is distinguished: people and slots in the first (the super admins are part of the
initial state, and every choice of one is an initial state), requests and lanes in the second.

**Deadlock** is checked in every run but those of `Hierarchy`, `TaskBlocking` and `WorkflowEngine`: with their requests or events used up, everybody may really be done. In
`RecurringTemplate` the minute tick without a candidate is a step (`idleTick`).

**Fairness.** The approval, chain, hierarchy and blocking models have none: requests come from people. `Reminder`
assumes that some replica's job goes on (node-cron fires every minute, and a pass waits for the database only), not each of them. `WebhookDelivery` assumes weak
fairness of a sender (the POST is cut after ten seconds), of a pass's next row, of some replica's tick, and of
time passing. `RecurringTemplate` assumes that the cron ticks and that a worker which is not stopped takes its next
statement, including the reschedule and the seed that follow an edit. `WorkflowEngine` assumes the same of each walk and each pass, of some replica's
tick and of time. Nothing is assumed of users, events, faults, or a webhook or template being switched on.

## 4. The properties that took the most thought

- `ApprovalEarned`: for an approved task every stage was signed off, emptied by deactivation, or overruled by a
  higher override, whatever bounces and early completions came before.
- `ImplementsCycle`: refinement. The stage of the abstract cycle is the lowest stage with a pending row, or one past the last when everyone has left.
- `StageDiscipline`: no row is pending beside a decision in its stage; the decisions of an earlier pass are gone when a stage waits again.
- `Decidable`: nothing but a deactivation leads to a state that refuses both a submission and every decision.
- `RestoresSubmittedState`, `SnapshotLifecycle`: relate the rejection to the state at submission across other writers.
- `DeactivationIsLocal`, `WalkFollowsLine`: two independent characterisations of the climb.
- `Acyclic`: whatever was cleared, half written, removed or typed before, the climb that checks a reassignment leaves no loop that a later write could close, other than by the unchecked writes, two requests on one user and overtaken climbs. `ColumnFollowsPrimary`, `OnePrimary`: relate the two records of a manager after any prefix of any edits.
- `BlockTruth`: the flag of the parent says what `isTaskBlocked` would, after any recomputation that ran alone, however wrong the flag was before; `RestoresStatus`: the status a task was locked in comes back; `HeldAtStuck`: nobody who asks about blockers moves it before; `OneShadow`, `ShadowTruth`: request and shadow tell the same in what no user has touched; `ClosedStays`.
- `NoGap`: no occurrence up to `lastGeneratedDate` is missing, but those a seed or a new schedule passed; `OneUpcoming`: pausing and resuming does not pile up tasks; `CatchesUp`: a due template in force gets the instance of every day that no seed took from the backfill.
- `WithinReach`, `FullWalk`: what a walk visits is the closure of the branches it took, computed independently, no more and, when it is over, no less; `RepeatsTraced`: the engine does repeat comments and messages, and every repetition is traced to a process of its own that got the event or a resumption of its own that was cut short; `AuthorGone`; `Settles`: every wait of a published workflow is resumed.
- `SentAtMostOnce` (of one-time reminders), `DueIsHandled`; `OneSender`, `PostsCounted`, `EventuallySettled`.

What the conditions in these properties stand for, as the code reads (no standing run checks these):

Approval and org chart:

- `TerminalHasNoPending` and `SnapshotLifecycle` fail for the shadow task of a dependency: `_syncExistingLinkedTask` approves it without touching its open chain.
- A custom-field edit drops the snapshot (`taskController.js:1669`), so a rejection falls back to `not_started` and 0 although it should restore "verbatim" (`approvalLifecycleService.js:124`).
- The completion gate is checked on the loaded copy and the write comes later (`taskController.js:2203`): a task approved when loaded and resubmitted meanwhile is completed around the chain.
- Pending rows may belong to deactivated accounts: a bounce sets a skipped row back to pending, and PUT `/users/:id` deactivates without skipping.
- "cycles are also blocked at write time" (`hierarchyService.js:96`) is not so. Two reassignments at once make a cycle: `canEditHierarchy` reads before the transaction (`hierarchyService.js:517-531`), and the transaction checks nothing again (`overtaken`). And `removeRelation` promotes the oldest remaining relation, which was checked in another chart, without a check (`managerRelationController.js:199-207`, `drifted`).
- "keep User.managerId and manager_relations consistent" (`hierarchyService.js:12`) holds of one request on a user at a time. Two on one user leave the column with one manager and the primary flag with another, or two primary rows (`overlapped`); a failure inside a promotion, and a demotion, which moves the reports' column without their rows (`userController.js:327-331`), leave the records apart (`drifted`), and a sync then adds a second primary row.
- PUT with `isPrimary` false or absent asks for no authorisation (`managerRelationController.js:131`): it may take the primary flag from a row, and the column stays.
- After `removePrimaryManager` the approval chain may still find a manager through another relation row, which `hierarchyService` no longer does.

Blocking:

- Two requests closed at once can leave the parent locked with no blocker, or unlocked and flagged: each handler recomputes on what it read.
- Two handlers on one request can bring a done or cancelled request back and make a second shadow: the transition is checked on the copy the middleware loaded. A process that stops between the save and the sync leaves the shadow behind for good.
- A blocker completed by its final approval (`approvalController.js:831-855`), a workflow (`workflowEngine.js:748-751`), an automation (`automationService.js:98-103`), a drag into a group with a mapped status (`taskController.js:3029-3064`, `3585-3626`) or the shadow sync (`dependencyService.js:597-607`) runs no `processTaskCompletion`, which only `taskController.js:2500` calls: the parent keeps its flag with no blocker until something else recomputes it. A blocker that is reopened never locks again; one that completes while the parent is done leaves the flag.
- "Prevent status changes on tasks blocked by dependencies" (`taskController.js:1783`) is true of PUT `/tasks/:id` only. A rejection or a request for changes gives a blocked task the status of its snapshot (`approvalController.js:834-853`, `approvalLifecycleService.js:132-147`), an approval completes it, and workflows, automations and drags write its status, none of them with a look at its blockers; a done task that so comes back while it is blocked is not locked again.
- A custom-field edit replaces the column and drops `blockedByDependency` and the captured status with it: only keys that begin with `_` are reserved (`taskController.js:1669-1698`).
- Archiving a parent by PUT cancels its requests without recomputing anything or touching their shadows (`taskController.js:2628-2660`); a member's DELETE (`:2852`) and the bulk update (`:3427`) archive it and cancel nothing.
- Users move, archive and restore a shadow like any task and its request does not follow; a withdrawn request leaves a restored shadow on the board.
- "If the user manually deleted the shadow task ... don't resurrect" (`dependencyService.js:545-546`): deleting it for good sets `linkedTaskId` to null (`ON DELETE SET NULL`, `server.js:2457-2459`), so the next sync makes another. Permanent deletion is not in the model.
- `unlockTaskIfUnblocked` clears the flag and leaves status and captured value; a task that was set to stuck by hand restarts as `not_started`; a lock may overwrite a completion that came in between.
- The branch of `updateTask` that lets an admin force a blocked task (`taskController.js:1864-1889`) is not reached: `isTaskBlocked` refuses at 1785.

Recurring tasks:

- "walk forward ... and generate each missing eligible occurrence" (`recurringTaskService.js:1035-1045`) does not survive a seed. A resumption, or a PATCH that names any schedule field, changed or not (`recurringTemplateController.js:738-769`; the due time alone is enough), seeds the next occurrence and moves `lastGeneratedDate` past the whole backlog (`:959-962`); the walk starts after it and never comes back (`jumped`).
- A change to a denser schedule leaves the new days before `lastGeneratedDate` without instance. Days missed before the end date are not made up after it.
- A pass on a stale copy may set `lastGeneratedDate` back (`:1104` says "Forward-only — never regress"), and one whose schedule was edited may write `nextRunAt` null after the edit computed it: the template is not picked up any more. `CatchesUp` is about templates that were left alone (`InForce`).
- A stop between an edit and its reschedule leaves `nextRunAt` as it was.
- `notifyPreflightFailureOnce` clears `nextRunAt` to stop rechecking "until the operator intervenes", but `recomputeNextRunAt` (`:1113`) sets it again in the same pass.
- An instance is committed before its notification, memberships and reminders; a stop in between loses them.

Workflows:

- Multi-replica idempotency "via the DB partial unique index" (`workflowEngine.js:204`, `411-415`) and "a duplicate trigger fire never reaches this dispatch the second time" (`:809-813`) hold of the record and not of the actions: the run row whose key is unique is written when the walk is over, so each process that receives an event acts, and so does a process that restarts. The key names neither the new status nor the node, so two status changes of a task within a minute count as one event.
- A wait row is deleted after the resumed walk: a stop in between repeats all that is behind the wait. "Run `fn` exactly once across all replicas for a given job name + tick" (`cronLock.js:58`): the lock is held while the job runs, so replicas one after the other run the same tick.
- A node behind two branches that rejoin around a long wait runs twice, and a cycle through two long waits has no end (`WaitLoop`), although `workflowValidationService.js:202` relies on the walker to halt repeats.
- The author's permissions are read when a walk begins; one that sleeps in memory goes on after the author left (`outlived`).
- A wait that cannot be persisted falls back to five minutes in memory; `attemptCount` is written and never read; the waits of an unpublished workflow are dropped.

Reminders and webhooks:

- Re-arming a recurring reminder does not clear `sentAt` (`reminderService.js:997`: the instance was loaded with `sentAt` null, so nothing is written), so it fires once instead of "until done" (`TaskReminder.js:14-18`, `28-30`, `103`; `reminderService.js:969-972`). `SentAtMostOnce` is about one-time reminders, so it holds with this defect and without it.
- A reminder moved to a later moment between selection and claim is sent at once, and a sent reminder is not armed by choosing it again.
- A dispatch that stops leaves its delivery `pending`; the retry query (`webhookService.js:163`) takes `failed` rows only, so it is never sent. `EventuallySettled` is about the others.
- A delivery the receiver acknowledged becomes `failed` when `hook.update` throws after it.

## 5. What is proved

Every theorem holds for all values of the constants that satisfy the named ASSUMEs of the module; what it needs beyond them is in the last column.

### ApprovalFlow_proofs

| Theorem | Says | Assumes |
|---|---|---|
| `TypeCorrect` | `TypeOK` | |
| `SubmitterKeptOut` | the submitter never holds a row | |
| `StagesDisciplined` | `StageDiscipline` | |
| `ClosedCyclesAreSettled` | `TerminalHasNoPending` | no shadow task (`~Linked`) |
| `ApprovalIsEarned` | `ApprovalEarned` | no shadow task |
| `CyclesAreDecidable` | `Decidable` | no shadow task |
| `SnapshotLivesWithCycle`, `SubmittedStateRestored` | `SnapshotLifecycle`, `RestoresSubmittedState` | no shadow task, no custom-field edit (`SnapshotKept`) |
| `HandlersImplementCycle` | `ImplementsCycle`: the handlers implement `ApprovalCycle` | no shadow task |

The extra assumptions are necessary: the shadow sync approves a task around its chain, and a custom-field edit drops the snapshot (section 4).

The argument is a tower of invariants, each inductive on top of the one below. `ChainInv` is `TypeInv`, that the submitter holds no row, and
`StageDiscipline`; `ActorLevel` and `LowestRow` find the row a decision is about. `ClosedInv` adds that no request in flight writes `approvalStatus`, which is why
the racing update cannot reopen or close a cycle. `EarnedInv` adds that in an open cycle every stage waits, is signed off or was vacated, and that
something waits for somebody unless a deactivation took it. `ApprovalEarned` alone is not inductive: it says nothing of the open cycle an approval ends.
`SnapshotInv` adds that the snapshot of an open cycle is what was submitted.

The refinement rests on `StagedInv`, which adds that the stages of an open cycle are 1 to some m; it comes from the contiguity in `IsChain` and is kept because
decisions and deactivations change no row's stage. One lemma `MapsTo...` gives each abstract step what it needs;
`SubmissionStages`, `ApproveImplements`, `RejectImplements` and `DeactivationImplements` show which step a handler takes, and everything else stutters.
`Min` and `Max` are CHOOSE expressions, so their existence is proved from well-foundedness and from facts about finite sets.

### ApprovalChain_proofs

| Theorem | Says | Assumes |
|---|---|---|
| `ChainsWellFormed` | `ChainWellFormed` | |
| `WalkIsClimb` | `WalkFollowsLine` | |
| `DeactivationStaysLocal` | `DeactivationIsLocal` | |
| `AssumptionDelivered` | what `ApprovalFlow` assumes of its derivation (`IsChain`), of `deriveChainFor` for every profile and place in the chart | |

They hold for any finite set of users, any `MAX_CHAIN_DEPTH` and any chart, with cycles and self-management. The climb is a function defined by recursion on the depth.
`LoopExists` and `FilterExists` show by hand that such a function exists, and induction over the climb is the least element of a set of naturals (`LeastNatural`, `Induction`), stated
about sets, since the library's induction theorems take an operator. `AlongWalk` and `AlongTwoWalks` carry a fact along one climb, or along two side by side:
`WalkSound` (who is on a line, once, and not the submitter), `WalkOnClimb` (the walk is always on a climb, and when it ends the climb is the longest) and
`WalksSideBySide` (the climbs before and after a deactivation differ in one person until the anchor). `Listing` shows that a finite set with a total
order (`PrecedesOrder`) has one listing in that order, so the `CHOOSE` of the final stage has a value.

### Hierarchy_proofs

| Theorem | Says | Assumes |
|---|---|---|
| `NoCycle` | `Acyclic` | |
| `AtMostOnePrimary` | `OnePrimary` | |
| `RecordsAgree` | `ColumnFollowsPrimary` | |
| `TypeCorrect` | `TypeOK`: no flag is left without its relation row, and no row names nobody | |

They hold for any set of users, any `Uses` and any number of requests at once, each of which may stop after any statement. What the code cannot keep is in the properties, as the
histories `overtaken`, `overlapped` and `drifted`, and not in an assumption.

`ChartInv` joins the three with `Midway(r)`, what a request in flight still knows. `Written(r)`: the flags it has cleared and the column it has written, as long as nobody else has written about
its employee. `Climbed(r)`: its check, as a set of users closed under going up, with the new manager in it and the employee not; writes that take a manager away keep such a set closed, and one
that gives somebody another manager puts the request among the `stale`. Each step disturbs of the others at most what its histories record (`OthersMidway`). At the write
(`CheckedPlacement`), a loop of people outside the exempt ones would be a set closed under managers; what it has in common with the checked set was closed before the write, which `Acyclic`
excludes. No property is inductive alone: the climb reads the primary row and the loop is one of the column, so `Acyclic` needs `ColumnFollowsPrimary`, and that needs to know which flags were cleared before the column
was written.

### TaskBlocking_proofs

| Theorem | Says | Assumes |
|---|---|---|
| `TypeCorrect` | `TypeOK` | |
| `FlagTells` | `BlockTruth` | |
| `OneShadowEach` | `OneShadow` | |
| `ShadowsTrue` | `ShadowTruth` | |
| `ClosedForGood` | `ClosedStays` | |
| `DoneIsKept` | `DoneStays`: blocking and unblocking do not reopen a done task | |
| `StuckIsHeld` | `HeldAtStuck` | |
| `StatusIsRestored` | `RestoresStatus` | |

The conditions in the properties (`unsettled`, `disturbed`, `byUser`) are history variables that every path of section 2 sets, not assumptions on what happens.

`TypeInv` ties each lane's place to what it holds (`Fits`). `RequestInv` is what the one handler of an undisturbed request knows of its row (`Undisturbed`, `Handled`,
`Settled`, `Allowed`): the copy it loaded is still true. `BlockInv` is the same for the parent (`Flagged`, `Knows`): an undisturbed recomputation's answer is
still the answer when it writes the flag, and whatever the flag was before, it is right afterwards. `RestoreInv` says that a flagged task has captured the status it was locked in and that a handler at its last write holds
that value in its copy. A task that was taken out of stuck while blocked and locked again is captured anew; what comes back is the status of the last capture, and `before` follows it. These invariants talk about handlers in the middle, the properties about those at rest; that is why the properties are not inductive.

### RecurringTemplate_proofs

| Theorem | Says | Assumes |
|---|---|---|
| `TypeCorrect` | `TypeOK` | |
| `NothingSkipped` | `NoGap` | |
| `OneAhead` | `OneUpcoming` | |
| `StaysWithin` | `WithinSchedule`: under one schedule only its occurrences are generated | |

`TypeInv` includes that schedule changes are counted by events. `ServeInv` says what each worker holds (`Serves`): the backlog it walks up lies behind the day it began,
and only the cron pass can be on a schedule changed since. `GapInv` joins `NoGap` with `Tracks`: a walk leaves no hole behind it, or `jumped` holds what it leaves when it moves
`lastGeneratedDate`, because it is a seed's or its schedule was changed under it. A stale copy may move `lastGeneratedDate` back; the proof shows that this makes no gap, then or later.
`AheadInv` bounds the instances ahead that the present schedule does not ask for by the number of edits (`Astray`).

### WorkflowEngine_proofs

| Theorem | Says | Assumes |
|---|---|---|
| `TypeCorrect` | `TypeOK` | |
| `StaysWithin` | `WithinReach` | |
| `WalksFully` | `FullWalk` | |
| `AuthorStaysGone` | `AuthorGone` | |
| `RepeatsAreCounted` | `RepeatsTraced` | |

`SoundInv` is a statement about each walk (`Sound(w)`): the visited nodes and the queue are between them the closure of the branches taken so far, so an empty queue leaves
the whole closure visited. `ActorInv` says that a walk which holds the author's authority after the author left was in progress when he did (`outlived`). Both are for every graph, with
cycles and rejoining branches.

`RepeatsTraced` counts, and the count alone is not inductive: a comment that is still to come is nowhere in `sent`. `OnceInv` is a ledger. Each node has an allowance for
each event, at least what it has `sent` and at most `quota`. If node n is behind m (m is the trigger or a long wait, and n is reached from it without another long
wait), the allowance of m is at least that of n plus what may still take the event from m to n (`Open`): the rows at m that no pass has taken up, and the walks led by m that have
not visited n. A visit spends an open entry and raises the allowance of n; a further process hearing the event, or a crash that leaves a row whose resume had begun, raises `quota`, and the
allowances upstream with it. Two sources of one node could each spend on it, which `Unrepeated` excludes. Three facts make an entry count once:
`Distinct` (one wait, one row), `Headed` (every edge a walk has still to follow is behind one of the nodes that lead it) and `AllGrounded` (what is behind a
source, and behind that, does not come back to it). That processes, walks and wait ids are finitely many is an ASSUME of the module.

### Reminder_proofs and WebhookDelivery_proofs

| Theorem | Says | Assumes |
|---|---|---|
| Reminder `TypeCorrect` | `TypeOK` | |
| `ClaimExcludes` | `ClaimIsExclusive`: who sends holds the claim alone, without the cron lock | |
| `NoDuplicateReminder` | `SentAtMostOnce`, of one-time reminders | |
| Webhook `TypeCorrect` | `TypeOK`; no attempt above `MAX_ATTEMPTS` | |
| `SingleSender` | `OneSender` | |
| `PostsAreCounted` | `PostsCounted` | |

For reminders the key fact is that nothing clears `sentAt` of a one-time reminder, whatever handler writes the row (`InstanceUpdate`); with it a row that is unsent has been heard by nobody
(`UnsentIsUnheard`) and those still to be called are the ones not called (`ToBeCalled`). For webhooks: a working pass holds the lock
(`PassHoldsLock`), meets a delivery only after its first dispatch ended (`PassComesAfter`), has only rows queued that can still be attempted and are not being attempted (`QueueIsOpen`), and counts from the row as it is (`AttemptNumbers`);
`CountInv` adds up the posts.

## 6. What is only model-checked

- Liveness: `DueIsHandled`, `EventuallySettled`, `CatchesUp`, `Settles`. The proof system has no rules for fairness.
- The statements of the three violated runs, which are false.

Every other property of a run is a theorem for all values of the constants, under the assumptions of section 5.

## 7. What is not modelled

`PROJECT.json` gives the reason for each component. In short: CRUD on single rows, filtering queries, the permission matrix, sessions, calls to
external services, document collaboration (done by Yjs), the web client and packaging. They hold most of the repository's lines.
A due-date extension is approved or rejected without a look at its status, so a model would show the absence of a guard and nothing else.

Inside the modelled components:

- Notifications, activity entries, e-mail and broadcasts, except where a property is about them.
- Approval: the chain is derived before the submission's transaction begins; a user changed in between is not seen. The race of two tier-1 users who demote each other.
- Org chart: the narrower scopes in which managers may edit (`canEditHierarchy`); a chart that changes under the climb of one check.
- Task blocking: who may do what, edits of title and assignee, permanent deletion, auto-assignment, `startDate`. The chain of a completed blocker loads the blocked task in the step that completes it.
- Recurring tasks: reassignment of open instances, escalation of missed ones, the older `Task.recurrence` job, what follows the commit of an instance.
- Workflows: several workflows on one event and their order, expiry and eviction in the key cache, the chain depth, edits of a published graph, a grant read between its check and the
  action, test runs, conditions that throw, a `destroy` of a wait that fails while the process lives on.
- Reminders: the automatic 2-day and 2-hour rows, the job's cron lock (the model shows it is not needed), two detached calls of one task that overtake each other between statements.
- Webhooks: choice of subscribers, signing, administration.

## 8. Plan

Done: all modules of section 2. What is left, in order:

1. Split the derivation from the commit of a submission, and check what a deactivation in between leads to.
2. The last-tier-1 guard and due-date extensions, as check-then-act models of two requests.
3. The detached reschedules of reminders as steps of their own.
4. The retry queue of the calendar sync, with the shape of `WebhookDelivery`.
5. Several workflows on one event.
6. The proofs of what items 1 to 5 add.
