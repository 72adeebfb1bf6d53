------------------------------ MODULE Reminder ------------------------------
(***************************************************************************)
(* The user-set reminders of one task: the task_reminders rows that          *)
(* applyReminderSpecs and rescheduleReminders write while several replicas    *)
(* run processReminders (reminderService.js).                                *)
(*                                                                         *)
(* Time is reduced to what the code compares: whether a moment has passed.    *)
(* An archived task is treated like a done one.  The cron lock is left out:    *)
(* the claim alone must suffice "even if the lock somehow fails"               *)
(* (deadlineReminderJob.js:33).  Nothing below takes a lock, so every await     *)
(* of processReminders ends a step.  applyReminderSpecs and                    *)
(* rescheduleReminders read the unsent rows and then write them; a claim        *)
(* between the two leaves the row as sent as a claim just before the read.      *)
(***************************************************************************)
EXTENDS Naturals

CONSTANTS
  Reminder,    \* specs a user may set, by specKey
  Recurring,   \* 'interval' and 'daily_times'
  DueBound,    \* 'offset' and 'at_due': relative to the due date
  User,        \* possible assignees
  Replica,
  MaxFaults    \* bound on failed statements and restarts

ASSUME ReminderConstants ==
  /\ Reminder # {} /\ Recurring \cup DueBound \subseteq Reminder
  /\ Recurring \cap DueBound = {}
  /\ MaxFaults \in Nat

VARIABLES
  done,        \* the task is completed
  assignees,   \* who is assigned to it
  cancelling,  \* a cancelReminders started by a completion is still to run
  upcoming,    \* specs whose own moment lies ahead, under the current due date
  rows,        \* task_reminders
  worker,      \* processReminders on each replica
  calls,       \* history: sendNotification calls per row and user
  faults

vars == <<done, assignees, cancelling, upcoming, rows, worker, calls, faults>>

(* due: scheduledFor has passed.  A spec without a row yet is as good as a     *)
(* cancelled row: applyReminderSpecs creates or reactivates it alike.           *)
Row == [due : BOOLEAN, sentAt : BOOLEAN, cancelled : BOOLEAN]
NoRow == [due |-> FALSE, sentAt |-> FALSE, cancelled |-> TRUE]

(* row and to matter from loadTask to the end of a row; the loop then resets them. *)
Worker == [pc : {"idle", "next", "skip", "claim", "recipients", "send", "rearm"},
           batch : SUBSET Reminder, row : Reminder, to : SUBSET User]
Idle == [pc |-> "idle", batch |-> {}, row |-> CHOOSE r \in Reminder : TRUE, to |-> {}]

TypeOK ==
  /\ done \in BOOLEAN /\ cancelling \in BOOLEAN
  /\ assignees \subseteq User
  /\ upcoming \subseteq Reminder \ Recurring
  /\ rows \in [Reminder -> Row]
  /\ worker \in [Replica -> Worker]
  /\ calls \in [Reminder \X User -> 0..2]
  /\ faults \in 0..MaxFaults

Active(r) == ~rows[r].sentAt /\ ~rows[r].cancelled

Init ==
  /\ done = FALSE /\ cancelling = FALSE
  /\ assignees = User
  /\ upcoming = Reminder \ Recurring
  /\ rows = [r \in Reminder |-> NoRow]
  /\ worker = [w \in Replica |-> Idle]
  /\ calls = [ru \in Reminder \X User |-> 0]
  /\ faults = 0

---------------------------------------------------------------------------
(* The task's editors. *)

applyReminderSpecs_alsoSent(S) ==
  /\ ~done
  /\ rows' = [r \in Reminder |->
                IF r \notin S THEN [rows[r] EXCEPT !.cancelled = TRUE]
                ELSE IF r \in upcoming \cup Recurring THEN [NoRow EXCEPT !.cancelled = FALSE]
                ELSE rows[r]]
  /\ UNCHANGED <<done, assignees, cancelling, upcoming, worker, calls, faults>>

(* PUT /tasks/:id with reminders S.  Rows no longer asked for are cancelled;   *)
(* an asked-for row that is unsent is scheduled anew, if its moment lies ahead. *)
applyReminderSpecs(S) ==
  /\ ~done
  /\ rows' = [r \in Reminder |->
                IF rows[r].sentAt THEN rows[r]
                ELSE IF r \notin S THEN [rows[r] EXCEPT !.cancelled = TRUE]
                ELSE IF r \in upcoming \cup Recurring THEN [NoRow EXCEPT !.cancelled = FALSE]
                ELSE rows[r]]
  /\ UNCHANGED <<done, assignees, cancelling, upcoming, worker, calls, faults>>

(* PUT /tasks/:id with a due date (or none) that puts the moments A ahead:      *)
(* rescheduleReminders.                                                       *)
changeDueDate(A) ==
  /\ ~done
  /\ upcoming' = (upcoming \ DueBound) \cup A
  /\ rows' = [r \in Reminder |->
                IF r \notin DueBound \/ ~Active(r) THEN rows[r]
                ELSE IF r \in A THEN [rows[r] EXCEPT !.due = FALSE]
                ELSE [rows[r] EXCEPT !.cancelled = TRUE]]
  /\ UNCHANGED <<done, assignees, cancelling, worker, calls, faults>>

(* Completion by PUT starts cancelReminders and does not wait for it; the       *)
(* approval chain completes the task without it.                               *)
complete(byUpdate) ==
  /\ ~done
  /\ done' = TRUE
  /\ cancelling' = (cancelling \/ byUpdate)
  /\ UNCHANGED <<assignees, upcoming, rows, worker, calls, faults>>

cancelReminders ==
  /\ cancelling
  /\ cancelling' = FALSE
  /\ rows' = [r \in Reminder |->
                IF Active(r) THEN [rows[r] EXCEPT !.cancelled = TRUE] ELSE rows[r]]
  /\ UNCHANGED <<done, assignees, upcoming, worker, calls, faults>>

reopen ==
  /\ done /\ done' = FALSE
  /\ UNCHANGED <<assignees, cancelling, upcoming, rows, worker, calls, faults>>

assign(S) ==
  /\ assignees' = S
  /\ UNCHANGED <<done, cancelling, upcoming, rows, worker, calls, faults>>

(* The clock reaches a spec's moment, or the next fire of a recurring row. *)
pass(r) ==
  /\ r \in upcoming \/ (r \in Recurring /\ Active(r) /\ ~rows[r].due)
  /\ upcoming' = upcoming \ {r}
  /\ rows' = [rows EXCEPT ![r].due = TRUE]
  /\ UNCHANGED <<done, assignees, cancelling, worker, calls, faults>>

---------------------------------------------------------------------------
(* processReminders on replica w. *)

(* Sequelize saves the attributes whose value differs from the loaded          *)
(* instance; findAll loaded a due row with sentAt null and cancelled false.     *)
Loaded == [due |-> TRUE, sentAt |-> FALSE, cancelled |-> FALSE]

instanceUpdate_changesOnly(row, values) ==
  [f \in {g \in DOMAIN row : values[g] # Loaded[g]} |-> values[f]]

instanceUpdate(row, values) ==
  [f \in DOMAIN row |-> IF values[f] = Loaded[f] THEN row[f] ELSE values[f]]

Cancelled == [Loaded EXCEPT !.cancelled = TRUE]
Rearmed == [Loaded EXCEPT !.due = FALSE, !.sentAt = FALSE]

at(w, pc) == worker[w].pc = pc
goto(w, pc) == worker' = [worker EXCEPT ![w].pc = pc]
nextRow(w) == worker' = [worker EXCEPT ![w] = [Idle EXCEPT !.pc = "next", !.batch = worker[w].batch]]
editorsUnchanged == UNCHANGED <<done, assignees, cancelling, upcoming>>

findPending(w) ==
  /\ at(w, "idle")
  /\ \E r \in Reminder : Active(r) /\ rows[r].due
  /\ worker' = [worker EXCEPT ![w] = [Idle EXCEPT !.pc = "next",
                  !.batch = {r \in Reminder : Active(r) /\ rows[r].due}]]
  /\ editorsUnchanged /\ UNCHANGED <<rows, calls, faults>>

loadTask(w) ==
  /\ at(w, "next")
  /\ \/ \E r \in worker[w].batch :
          worker' = [worker EXCEPT ![w].pc = IF done THEN "skip" ELSE "claim",
                                   ![w].batch = @ \ {r}, ![w].row = r]
     \/ worker[w].batch = {} /\ worker' = [worker EXCEPT ![w] = Idle]
  /\ editorsUnchanged /\ UNCHANGED <<rows, calls, faults>>

skipDone_keepsRow(w) ==
  /\ at(w, "skip")
  /\ nextRow(w)
  /\ editorsUnchanged /\ UNCHANGED <<rows, calls, faults>>

skipDone(w) ==
  /\ at(w, "skip")
  /\ rows' = [rows EXCEPT ![worker[w].row] = instanceUpdate(@, Cancelled)]
  /\ nextRow(w)
  /\ editorsUnchanged /\ UNCHANGED <<calls, faults>>

(* UPDATE ... SET sentAt WHERE id, sentAt IS NULL AND NOT cancelled *)
claim(w) ==
  LET r == worker[w].row IN
  /\ at(w, "claim")
  /\ \/ Active(r) /\ rows' = [rows EXCEPT ![r].sentAt = TRUE] /\ goto(w, "recipients")
     \/ ~Active(r) /\ UNCHANGED rows /\ nextRow(w)
  /\ editorsUnchanged /\ UNCHANGED <<calls, faults>>

loadRecipients(w) ==
  /\ at(w, "recipients")
  /\ \/ /\ assignees # {}
        /\ worker' = [worker EXCEPT ![w].pc = "send", ![w].to = assignees]
        /\ UNCHANGED rows
     \/ /\ assignees = {}
        /\ rows' = [rows EXCEPT ![worker[w].row] = instanceUpdate(@, Cancelled)]
        /\ nextRow(w)
  /\ editorsUnchanged /\ UNCHANGED <<calls, faults>>

(* One recipient: sendNotification, or passed over when over budget, which         *)
(* counts as a call here.  2 calls are a bound.                                  *)
send(w, u) ==
  LET r == worker[w].row IN
  /\ at(w, "send") /\ u \in worker[w].to
  /\ worker' = [worker EXCEPT ![w].to = @ \ {u}]
  /\ calls' = [calls EXCEPT ![<<r, u>>] = IF @ < 2 THEN @ + 1 ELSE @]
  /\ editorsUnchanged /\ UNCHANGED <<rows, faults>>

allSent(w) ==
  /\ at(w, "send") /\ worker[w].to = {}
  /\ IF worker[w].row \in Recurring THEN goto(w, "rearm") ELSE nextRow(w)
  /\ editorsUnchanged /\ UNCHANGED <<rows, calls, faults>>

rearm(w) ==
  /\ at(w, "rearm")
  /\ rows' = [rows EXCEPT ![worker[w].row] =
                instanceUpdate(@, IF done THEN Cancelled ELSE Rearmed)]
  /\ nextRow(w)
  /\ editorsUnchanged /\ UNCHANGED <<calls, faults>>

---------------------------------------------------------------------------
(* A statement fails and the loop goes on with the next row, or the replica      *)
(* restarts.  A detached cancelReminders that is lost is one that never runs.     *)
fault ==
  /\ faults < MaxFaults
  /\ faults' = faults + 1
  /\ \E w \in Replica :
       /\ ~at(w, "idle")
       /\ nextRow(w) \/ worker' = [worker EXCEPT ![w] = Idle]
  /\ editorsUnchanged /\ UNCHANGED <<rows, calls>>

step(w) ==
  \/ findPending(w) \/ loadTask(w) \/ skipDone(w) \/ claim(w)
  \/ loadRecipients(w) \/ (\E u \in User : send(w, u)) \/ allSent(w) \/ rearm(w)

Next ==
  \/ \E S \in SUBSET Reminder : applyReminderSpecs(S)
  \/ \E A \in SUBSET DueBound : changeDueDate(A)
  \/ \E byUpdate \in BOOLEAN : complete(byUpdate)
  \/ cancelReminders
  \/ reopen
  \/ \E S \in SUBSET User : assign(S)
  \/ \E r \in Reminder : pass(r)
  \/ \E w \in Replica : step(w)
  \/ fault

(* node-cron fires every minute and processReminders awaits only the database:   *)
(* the job goes on somewhere, though perhaps not on every replica.               *)
Fairness == WF_vars(\E w \in Replica : step(w))

Spec == Init /\ [][Next]_vars /\ Fairness

---------------------------------------------------------------------------
Claimed(w) == worker[w].pc \in {"recipients", "send", "rearm"}

(* "Only the worker whose UPDATE returns affectedCount=1 proceeds to send"         *)
(* (reminderService.js:885): whoever is sending holds the claim, alone.           *)
ClaimIsExclusive ==
  \A w \in Replica : Claimed(w) =>
    /\ rows[worker[w].row].sentAt
    /\ \A v \in Replica \ {w} : Claimed(v) => worker[v].row # worker[w].row

(* "a reminder is sent at most once" (deadlineReminderJob.js:34): whatever fails,  *)
(* whoever restarts and however the task is edited, a recipient is called once    *)
(* at most for a reminder that has one moment.  A recurring one is meant to be    *)
(* sent again at each of its moments, so nothing is claimed of it here.           *)
SentAtMostOnce == \A r \in Reminder \ Recurring, u \in User : calls[<<r, u>>] <= 1

(* A due reminder does not stay due: it is sent, cancelled or moved away          *)
(* ("overflow drains on the next minute tick", processReminders).               *)
DueIsHandled ==
  \A r \in Reminder : (Active(r) /\ rows[r].due) ~> ~(Active(r) /\ rows[r].due)
=============================================================================
