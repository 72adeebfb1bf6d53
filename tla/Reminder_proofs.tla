--------------------------- MODULE Reminder_proofs ---------------------------
(***************************************************************************)
(* Theorems about Reminder, for any reminders, users, replicas and faults.     *)
(***************************************************************************)
EXTENDS Reminder, TLAPS

(* The row of a one-time reminder that is not marked as sent has reached nobody. *)
UnsentIsUnheard ==
  \A r \in Reminder \ Recurring : ~rows[r].sentAt => \A u \in User : calls[<<r, u>>] = 0

(* Who holds a claim on one has not called those still to be called. *)
ToBeCalled ==
  \A w \in Replica : worker[w].row \notin Recurring =>
    /\ at(w, "recipients") => \A u \in User : calls[<<worker[w].row, u>>] = 0
    /\ at(w, "send") => \A u \in worker[w].to : calls[<<worker[w].row, u>>] = 0

Claims == ClaimIsExclusive /\ UnsentIsUnheard /\ ToBeCalled /\ SentAtMostOnce

Inv == TypeOK /\ Claims

---------------------------------------------------------------------------
(* An instance update can set a column but not set it back to what was loaded:     *)
(* sentAt stays as it is in the database.                                       *)
LEMMA InstanceUpdate ==
  ASSUME NEW row \in Row, NEW values \in {Cancelled, Rearmed}
  PROVE  instanceUpdate(row, values) \in Row /\ instanceUpdate(row, values).sentAt = row.sentAt
<1>1. DOMAIN row = {"due", "sentAt", "cancelled"}
  BY DEF Row
<1>2. values \in Row /\ Loaded \in Row /\ values.sentAt = Loaded.sentAt
  BY DEF Cancelled, Rearmed, Loaded, Row
<1>3. instanceUpdate(row, values) =
        [due |-> IF values.due = Loaded.due THEN row.due ELSE values.due,
         sentAt |-> row.sentAt,
         cancelled |-> IF values.cancelled = Loaded.cancelled THEN row.cancelled ELSE values.cancelled]
  BY <1>1, <1>2 DEF instanceUpdate
<1>. QED
  BY <1>2, <1>3 DEF Row

(* A replica at rest is well typed. *)
LEMMA IdleType == Idle \in Worker /\ Idle.pc = "idle"
BY ReminderConstants DEF Idle, Worker

(* What setting one column of a row does to its mark. *)
LEMMA RowUpdates ==
  ASSUME NEW x \in Row
  PROVE  /\ [x EXCEPT !.due = TRUE] \in Row /\ [x EXCEPT !.due = TRUE].sentAt = x.sentAt
         /\ [x EXCEPT !.sentAt = TRUE] \in Row /\ [x EXCEPT !.sentAt = TRUE].sentAt
BY DEF Row

(* Changing the row of one reminder changes no other. *)
LEMMA OneRow ==
  ASSUME TypeOK, NEW r \in Reminder, NEW x \in Row, rows' = [rows EXCEPT ![r] = x]
  PROVE  rows' \in [Reminder -> Row] /\ rows'[r] = x /\ \A q \in Reminder \ {r} : rows'[q] = rows[q]
BY DEF TypeOK

(* A step of one replica leaves the others where they are. *)
LEMMA OneWorker ==
  ASSUME TypeOK, NEW w \in Replica, NEW x \in Worker, worker' = [worker EXCEPT ![w] = x]
  PROVE  worker' \in [Replica -> Worker] /\ worker'[w] = x
         /\ \A v \in Replica \ {w} : worker'[v] = worker[v]
BY DEF TypeOK

(* The claims are safe in a step that sends nothing, claims nothing and neither    *)
(* marks a row nor clears the mark.                                             *)
LEMMA ClaimsKept ==
  ASSUME Inv,
         \A r \in Reminder : rows'[r].sentAt = rows[r].sentAt,
         UNCHANGED calls,
         \A v \in Replica : worker'[v] = worker[v] \/ ~Claimed(v)'
  PROVE  Claims'
<1>. USE DEF Inv, Claims
<1>1. \A v \in Replica : worker[v].row \in Reminder
  BY DEF TypeOK, Worker
<1>2. ClaimIsExclusive'
  BY <1>1 DEF ClaimIsExclusive, Claimed
<1>3. UnsentIsUnheard' /\ SentAtMostOnce'
  BY DEF UnsentIsUnheard, SentAtMostOnce
<1>4. ToBeCalled'
  BY <1>1 DEF ToBeCalled, at, Claimed
<1>. QED
  BY <1>2, <1>3, <1>4

---------------------------------------------------------------------------
(* Initially nothing is marked, claimed or called. *)
LEMMA InitInv == Init => Inv
<1>. SUFFICES ASSUME Init PROVE Inv
  OBVIOUS
<1>1. TypeOK
  <2>1. rows \in [Reminder -> Row]
    BY DEF Init, NoRow, Row
  <2>2. worker \in [Replica -> Worker]
    BY IdleType DEF Init
  <2>3. calls \in [Reminder \X User -> 0..2] /\ faults \in 0..MaxFaults
    BY ReminderConstants DEF Init
  <2>. QED
    BY <2>1, <2>2, <2>3 DEF Init, TypeOK
<1>2. \A w \in Replica : worker[w].pc = "idle"
  BY IdleType DEF Init
<1>. QED
  BY <1>1, <1>2 DEF Init, Inv, Claims, ClaimIsExclusive, Claimed, UnsentIsUnheard, ToBeCalled,
                    SentAtMostOnce, at

(* The editors' steps. *)
LEMMA EditorsInv ==
  ASSUME Inv, UNCHANGED worker,
         \/ \E S \in SUBSET Reminder : applyReminderSpecs(S)
         \/ \E A \in SUBSET DueBound : changeDueDate(A)
         \/ \E byUpdate \in BOOLEAN : complete(byUpdate)
         \/ cancelReminders
         \/ reopen
         \/ \E S \in SUBSET User : assign(S)
         \/ \E r \in Reminder : pass(r)
  PROVE  Inv'
<1>. USE DEF Inv
<1>1. UNCHANGED <<worker, calls, faults>>
  BY DEF applyReminderSpecs, changeDueDate, complete, cancelReminders, reopen, assign, pass
<1>2. done' \in BOOLEAN /\ cancelling' \in BOOLEAN /\ assignees' \subseteq User
  BY DEF applyReminderSpecs, changeDueDate, complete, cancelReminders, reopen, assign, pass, TypeOK
<1>3. upcoming' \subseteq Reminder \ Recurring
  BY ReminderConstants
     DEF applyReminderSpecs, changeDueDate, complete, cancelReminders, reopen, assign, pass, TypeOK
<1>. DEFINE MarksKept ==
       rows' \in [Reminder -> Row] /\ \A r \in Reminder : rows'[r].sentAt = rows[r].sentAt
<1>4. MarksKept
  <2>1. ASSUME NEW S, applyReminderSpecs(S) PROVE MarksKept
    BY <2>1 DEF applyReminderSpecs, TypeOK, Row, NoRow
  <2>2. ASSUME NEW A, changeDueDate(A) PROVE MarksKept
    BY <2>2 DEF changeDueDate, TypeOK, Row
  <2>3. CASE cancelReminders
    BY <2>3 DEF cancelReminders, TypeOK, Row
  <2>4. ASSUME NEW r \in Reminder, pass(r) PROVE MarksKept
    <3>1. rows[r] \in Row /\ rows' = [rows EXCEPT ![r] = [rows[r] EXCEPT !.due = TRUE]]
      BY <2>4 DEF pass, TypeOK
    <3>. QED
      BY <3>1, RowUpdates, OneRow
  <2>5. CASE UNCHANGED rows
    BY <2>5 DEF TypeOK
  <2>. QED
    BY <2>1, <2>2, <2>3, <2>4, <2>5 DEF complete, reopen, assign
<1>5. TypeOK'
  BY <1>1, <1>2, <1>3, <1>4 DEF TypeOK
<1>. QED
  BY <1>1, <1>4, <1>5, ClaimsKept

(* The steps of a replica that neither claim, call, nor go on with a claim.       *)
LEMMA UnclaimedInv ==
  ASSUME Inv, NEW w \in Replica,
         \/ findPending(w) \/ loadTask(w) \/ skipDone(w) \/ rearm(w)
         \/ claim(w) /\ ~Active(worker[w].row)
         \/ loadRecipients(w) /\ assignees = {}
         \/ allSent(w) /\ worker[w].row \notin Recurring
  PROVE  Inv'
<1>. USE DEF Inv
<1>. DEFINE r == worker[w].row
<1>1. UNCHANGED <<done, assignees, cancelling, upcoming, calls, faults>>
  BY DEF findPending, loadTask, skipDone, rearm, claim, loadRecipients, allSent, editorsUnchanged
<1>2. r \in Reminder /\ worker[w].batch \subseteq Reminder /\ worker[w] \in Worker
  BY DEF TypeOK, Worker
<1>3. PICK x \in Worker : worker' = [worker EXCEPT ![w] = x] /\ x.pc \in {"idle", "next", "skip", "claim"}
  <2>1. \A b \in SUBSET Reminder : [Idle EXCEPT !.pc = "next", !.batch = b] \in Worker
                                   /\ [Idle EXCEPT !.pc = "next", !.batch = b].pc = "next"
    BY IdleType DEF Worker
  <2>2. CASE findPending(w)
    <3>1. {q \in Reminder : Active(q) /\ rows[q].due} \in SUBSET Reminder
      OBVIOUS
    <3>. QED
      BY <2>1, <2>2, <3>1 DEF findPending
  <2>3. CASE nextRow(w)
    BY <1>2, <2>1, <2>3 DEF nextRow
  <2>4. CASE loadTask(w)
    <3>1. ASSUME NEW q \in worker[w].batch,
                 worker' = [worker EXCEPT ![w].pc = IF done THEN "skip" ELSE "claim",
                                          ![w].batch = @ \ {q}, ![w].row = q]
          PROVE  \E x \in Worker : worker' = [worker EXCEPT ![w] = x]
                                   /\ x.pc \in {"idle", "next", "skip", "claim"}
      <4>. DEFINE x == [pc |-> IF done THEN "skip" ELSE "claim", batch |-> worker[w].batch \ {q},
                        row |-> q, to |-> worker[w].to]
      <4>1. x \in Worker
        BY <1>2 DEF Worker
      <4>2. worker' = [worker EXCEPT ![w] = x]
        BY <1>2, <3>1 DEF TypeOK, Worker
      <4>. QED
        BY <4>1, <4>2
    <3>2. CASE worker' = [worker EXCEPT ![w] = Idle]
      BY <3>2, IdleType
    <3>. QED
      BY <2>4, <3>1, <3>2 DEF loadTask
  <2>. QED
    BY <2>2, <2>3, <2>4 DEF skipDone, rearm, claim, loadRecipients, allSent
<1>4. rows' \in [Reminder -> Row] /\ \A q \in Reminder : rows'[q].sentAt = rows[q].sentAt
  <2>1. ASSUME NEW values \in {Cancelled, Rearmed},
               rows' = [rows EXCEPT ![r] = instanceUpdate(@, values)]
        PROVE  rows' \in [Reminder -> Row] /\ \A q \in Reminder : rows'[q].sentAt = rows[q].sentAt
    <3>1. rows[r] \in Row
      BY <1>2 DEF TypeOK
    <3>2. instanceUpdate(rows[r], values) \in Row
          /\ instanceUpdate(rows[r], values).sentAt = rows[r].sentAt
      BY <3>1, InstanceUpdate
    <3>. QED
      BY <1>2, <2>1, <3>2, OneRow
  <2>2. CASE UNCHANGED rows
    BY <2>2 DEF TypeOK
  <2>. QED
    BY <2>1, <2>2 DEF findPending, loadTask, skipDone, rearm, claim, loadRecipients, allSent
<1>5. /\ worker' \in [Replica -> Worker]
      /\ \A v \in Replica : worker'[v] = worker[v] \/ ~Claimed(v)'
  BY <1>3, OneWorker DEF Claimed
<1>6. TypeOK'
  BY <1>1, <1>4, <1>5 DEF TypeOK
<1>. QED
  BY <1>1, <1>4, <1>5, <1>6, ClaimsKept

(* The claiming UPDATE finds its row unsent: nobody else holds it. *)
LEMMA ClaimInv ==
  ASSUME Inv, NEW w \in Replica, claim(w), Active(worker[w].row)
  PROVE  Inv'
<1>. USE DEF Inv, Claims
<1>0. PICK r \in Reminder : r = worker[w].row
  BY DEF TypeOK, Worker
<1>1. /\ UNCHANGED <<done, assignees, cancelling, upcoming, calls, faults>>
      /\ rows' = [rows EXCEPT ![r].sentAt = TRUE] /\ ~rows[r].sentAt
      /\ goto(w, "recipients")
  BY <1>0 DEF claim, editorsUnchanged, Active
<1>2. rows' \in [Reminder -> Row] /\ rows'[r].sentAt
      /\ \A q \in Reminder \ {r} : rows'[q].sentAt = rows[q].sentAt
  <2>1. rows[r] \in Row /\ rows' = [rows EXCEPT ![r] = [rows[r] EXCEPT !.sentAt = TRUE]]
    BY <1>1 DEF TypeOK
  <2>. QED
    BY <2>1, RowUpdates, OneRow
<1>3. /\ worker' \in [Replica -> Worker]
      /\ worker'[w].pc = "recipients" /\ worker'[w].row = r
      /\ \A v \in Replica \ {w} : worker'[v] = worker[v]
  BY <1>0, <1>1 DEF goto, TypeOK, Worker
<1>4. TypeOK'
  BY <1>1, <1>2, <1>3 DEF TypeOK
<1>5. \A v \in Replica : worker[v].row \in Reminder /\ (Claimed(v) => worker[v].row # r)
  BY <1>1 DEF TypeOK, Worker, ClaimIsExclusive
<1>6. ClaimIsExclusive'
  BY <1>2, <1>3, <1>5 DEF ClaimIsExclusive, Claimed
<1>7. r \notin Recurring => \A u \in User : calls[<<r, u>>] = 0
  BY <1>1 DEF UnsentIsUnheard
<1>8. UnsentIsUnheard' /\ SentAtMostOnce'
  BY <1>1, <1>2 DEF UnsentIsUnheard, SentAtMostOnce
<1>9. ToBeCalled'
  BY <1>1, <1>3, <1>7 DEF ToBeCalled, at
<1>. QED
  BY <1>4, <1>6, <1>8, <1>9

(* A claimant loads its recipients, or turns to re-arming. *)
LEMMA ClaimedInv ==
  ASSUME Inv, NEW w \in Replica,
         \/ loadRecipients(w) /\ assignees # {}
         \/ allSent(w) /\ worker[w].row \in Recurring
  PROVE  Inv'
<1>. USE DEF Inv, Claims
<1>1. /\ UNCHANGED <<done, assignees, cancelling, upcoming, rows, calls, faults>>
      /\ Claimed(w)
  BY DEF loadRecipients, allSent, editorsUnchanged, Claimed, at
<1>2. /\ worker' \in [Replica -> Worker]
      /\ worker'[w].row = worker[w].row
      /\ \/ at(w, "recipients") /\ worker'[w].pc = "send" /\ worker'[w].to \subseteq User
         \/ worker'[w].pc = "rearm"
      /\ \A v \in Replica \ {w} : worker'[v] = worker[v]
  <2>1. worker \in [Replica -> Worker] /\ worker[w] \in Worker /\ assignees \subseteq User
    BY DEF TypeOK
  <2>2. CASE /\ at(w, "recipients")
             /\ worker' = [worker EXCEPT ![w].pc = "send", ![w].to = assignees]
    BY <2>1, <2>2 DEF Worker
  <2>3. CASE goto(w, "rearm")
    BY <2>1, <2>3 DEF goto, Worker
  <2>. QED
    BY <2>2, <2>3 DEF loadRecipients, allSent
<1>3. TypeOK'
  BY <1>1, <1>2 DEF TypeOK
<1>4. ClaimIsExclusive'
  BY <1>1, <1>2 DEF ClaimIsExclusive, Claimed
<1>5. UnsentIsUnheard' /\ SentAtMostOnce'
  BY <1>1 DEF UnsentIsUnheard, SentAtMostOnce
<1>6. ToBeCalled'
  BY <1>1, <1>2 DEF ToBeCalled, at
<1>. QED
  BY <1>3, <1>4, <1>5, <1>6

(* The claimant calls one recipient: its row is marked and nobody else has it. *)
LEMMA SendInv ==
  ASSUME Inv, NEW w \in Replica, NEW u \in User, send(w, u)
  PROVE  Inv'
<1>. USE DEF Inv, Claims
<1>0. PICK r \in Reminder : r = worker[w].row
  BY DEF TypeOK, Worker
<1>1. /\ UNCHANGED <<done, assignees, cancelling, upcoming, rows, faults>>
      /\ Claimed(w) /\ at(w, "send") /\ u \in worker[w].to
      /\ <<r, u>> \in Reminder \X User
      /\ r \notin Recurring => calls[<<r, u>>] = 0
      /\ rows[r].sentAt
  BY <1>0 DEF send, editorsUnchanged, Claimed, at, ToBeCalled, ClaimIsExclusive
<1>2. calls' = [calls EXCEPT ![<<r, u>>] = IF @ < 2 THEN @ + 1 ELSE @]
  BY <1>0 DEF send
<1>3. /\ calls' \in [Reminder \X User -> 0..2]
      /\ r \notin Recurring => calls'[<<r, u>>] = 1
      /\ \A ru \in (Reminder \X User) \ {<<r, u>>} : calls'[ru] = calls[ru]
  BY <1>1, <1>2 DEF TypeOK
<1>4. /\ worker' \in [Replica -> Worker]
      /\ worker'[w].pc = "send" /\ worker'[w].row = r /\ worker'[w].to = worker[w].to \ {u}
      /\ \A v \in Replica \ {w} : worker'[v] = worker[v]
  BY <1>0, <1>1, SMTT(30) DEF send, at, TypeOK, Worker
<1>5. TypeOK'
  BY <1>1, <1>3, <1>4 DEF TypeOK
<1>6. ClaimIsExclusive'
  BY <1>0, <1>1, <1>4 DEF ClaimIsExclusive, Claimed
<1>7. SentAtMostOnce'
  <2>1. ASSUME NEW q \in Reminder \ Recurring, NEW v \in User
        PROVE  calls'[<<q, v>>] <= 1
    <3>1. CASE <<q, v>> = <<r, u>>
      BY <1>3, <3>1
    <3>2. CASE <<q, v>> # <<r, u>>
      BY <1>3, <3>2 DEF SentAtMostOnce
    <3>. QED
      BY <3>1, <3>2
  <2>. QED
    BY <2>1 DEF SentAtMostOnce
<1>8. UnsentIsUnheard'
  <2>1. ASSUME NEW q \in Reminder \ Recurring, ~rows'[q].sentAt, NEW v \in User
        PROVE  calls'[<<q, v>>] = 0
    BY <1>1, <1>3, <2>1 DEF UnsentIsUnheard
  <2>. QED
    BY <2>1 DEF UnsentIsUnheard
<1>9. ToBeCalled'
  <2>1. \A v \in Replica : worker[v].row \in Reminder /\ worker[v].to \subseteq User
    BY DEF TypeOK, Worker
  <2>2. \A v \in Replica \ {w} : Claimed(v) => worker[v].row # r
    BY <1>0, <1>1 DEF ClaimIsExclusive
  <2>3. ASSUME NEW v \in Replica \ {w}, worker'[v].row \notin Recurring
        PROVE  /\ at(v, "recipients")' => \A x \in User : calls'[<<worker'[v].row, x>>] = 0
               /\ at(v, "send")' => \A x \in worker'[v].to : calls'[<<worker'[v].row, x>>] = 0
    <3>1. worker'[v] = worker[v] /\ worker[v].row \in Reminder
      BY <1>4, <2>1
    <3>2. CASE at(v, "recipients") \/ at(v, "send")
      <4>1. worker[v].row # r
        BY <2>2, <3>2 DEF Claimed, at
      <4>2. \A x \in User : calls'[<<worker[v].row, x>>] = calls[<<worker[v].row, x>>]
        BY <1>3, <3>1, <4>1
      <4>. QED
        BY <2>1, <2>3, <3>1, <4>2 DEF ToBeCalled, at
    <3>. QED
      BY <3>1, <3>2 DEF at
  <2>4. r \notin Recurring => \A x \in worker'[w].to : calls'[<<r, x>>] = 0
    BY <1>0, <1>1, <1>3, <1>4, <2>1 DEF ToBeCalled
  <2>. QED
    BY <1>4, <2>3, <2>4 DEF ToBeCalled, at
<1>. QED
  BY <1>5, <1>6, <1>7, <1>8, <1>9

(* A failed statement or a restart gives up a claim, never a mark. *)
LEMMA FaultInv ==
  ASSUME Inv, fault
  PROVE  Inv'
<1>. USE DEF Inv
<1>1. /\ UNCHANGED <<done, assignees, cancelling, upcoming, rows, calls>>
      /\ faults' \in 0..MaxFaults
  BY ReminderConstants DEF fault, editorsUnchanged, TypeOK
<1>2. PICK w \in Replica : nextRow(w) \/ worker' = [worker EXCEPT ![w] = Idle]
  BY DEF fault
<1>3. /\ [Idle EXCEPT !.pc = "next", !.batch = worker[w].batch] \in Worker
      /\ [Idle EXCEPT !.pc = "next", !.batch = worker[w].batch].pc = "next"
  BY IdleType DEF Worker, TypeOK
<1>4. PICK x \in Worker : worker' = [worker EXCEPT ![w] = x] /\ x.pc \in {"idle", "next"}
  BY <1>2, <1>3, IdleType DEF nextRow
<1>5. /\ worker' \in [Replica -> Worker]
      /\ \A v \in Replica : worker'[v] = worker[v] \/ ~Claimed(v)'
  BY <1>4, OneWorker DEF Claimed
<1>6. TypeOK'
  BY <1>1, <1>5 DEF TypeOK
<1>. QED
  BY <1>1, <1>5, <1>6, ClaimsKept DEF TypeOK

(* The invariant is inductive. *)
LEMMA NextInv ==
  ASSUME Inv, [Next]_vars
  PROVE  Inv'
<1>1. CASE UNCHANGED vars
  BY <1>1 DEF vars, Inv, TypeOK, Claims, ClaimIsExclusive, Claimed, UnsentIsUnheard, ToBeCalled,
              SentAtMostOnce, at
<1>2. ASSUME NEW w \in Replica, step(w) PROVE Inv'
  <2>1. CASE claim(w)
    BY <2>1, ClaimInv, UnclaimedInv
  <2>2. CASE loadRecipients(w)
    BY <2>2, ClaimedInv, UnclaimedInv
  <2>3. CASE allSent(w)
    BY <2>3, ClaimedInv, UnclaimedInv
  <2>. QED
    BY <1>2, <2>1, <2>2, <2>3, UnclaimedInv, SendInv DEF step
<1>3. CASE fault
  BY <1>3, FaultInv
<1>4. CASE Next /\ ~fault /\ ~\E w \in Replica : step(w)
  BY <1>4, EditorsInv
     DEF Next, applyReminderSpecs, changeDueDate, complete, cancelReminders, reopen, assign, pass
<1>. QED
  BY <1>1, <1>2, <1>3, <1>4 DEF Next

(* Hence it holds throughout. *)
LEMMA InvAlways == Spec => []Inv
BY InitInv, NextInv, PTL DEF Spec

---------------------------------------------------------------------------
(* The variables keep their types, the batch of a replica and the row it works on  *)
(* included.                                                                   *)
THEOREM TypeCorrect == Spec => []TypeOK
<1>1. Inv => TypeOK
  BY DEF Inv
<1>. QED
  BY <1>1, InvAlways, PTL

(* Whoever sends holds the claim, alone, whatever the editors do meanwhile and     *)
(* however many replicas run processReminders without the cron lock.             *)
THEOREM ClaimExcludes == Spec => []ClaimIsExclusive
<1>1. Inv => ClaimIsExclusive
  BY DEF Inv, Claims
<1>. QED
  BY <1>1, InvAlways, PTL

(* No recipient is called twice for a reminder that has one moment, whatever fails,   *)
(* restarts or is edited; the argument uses nothing about the recurring rows.       *)
THEOREM NoDuplicateReminder == Spec => []SentAtMostOnce
<1>1. Inv => SentAtMostOnce
  BY DEF Inv, Claims
<1>. QED
  BY <1>1, InvAlways, PTL
=============================================================================
