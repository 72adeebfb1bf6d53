--------------------------- MODULE WebhookDelivery ---------------------------
(***************************************************************************)
(* Deliveries of task events to one webhook: webhookService's dispatch in the  *)
(* API process and the retry job on several replicas, which withCronLock lets   *)
(* run one at a time.  A sender works on one delivery, statement by statement:   *)
(* POST, record the outcome in webhook_deliveries, touch the webhook.           *)
(* Clock times are reduced to whether nextRetryAt has passed.                   *)
(***************************************************************************)
EXTENDS Naturals, FiniteSetsExt

CONSTANTS
  Delivery,     \* events dispatched to the webhook
  Replica,      \* replicas running the retry job
  Nobody,
  MAX_ATTEMPTS,
  BatchLimit,   \* rows a retry pass loads
  Fault,        \* faults that may happen
  MaxFaults     \* bound on their number

FaultKind == {"dispatcherStops", "replicaStops", "recordFails", "hookUpdateFails"}

ASSUME WebhookConstants ==
  /\ Delivery # {} /\ Delivery \cap Replica = {} /\ Nobody \notin Delivery \cup Replica
  /\ MAX_ATTEMPTS \in Nat \ {0} /\ BatchLimit \in Nat \ {0}
  /\ Fault \subseteq FaultKind /\ MaxFaults \in Nat

(* The dispatch of a delivery is a sender of its own. *)
Sender == Delivery \cup Replica

VARIABLES
  isActive,   \* the webhook and its API key
  row,        \* webhook_deliveries
  sender,     \* who sends what, and how far
  lock,       \* holder of the job's advisory lock
  posts,      \* history: POSTs per delivery
  faults

vars == <<isActive, row, sender, lock, posts, faults>>

(* elapsed: nextRetryAt has passed. *)
Row == [status : {"none", "pending", "success", "failed", "dead"},
        attempts : 0..MAX_ATTEMPTS, elapsed : BOOLEAN]

Pc == {"idle", "next", "post", "success", "touch", "refused", "failure", "stopped"}
Work == [pc : Pc, on : Delivery, attemptNum : 0..MAX_ATTEMPTS, queue : SUBSET Delivery]
Start(d) == [pc |-> "idle", on |-> d, attemptNum |-> 0, queue |-> {}]
IdleReplica == Start(CHOOSE d \in Delivery : TRUE)

TypeOK ==
  /\ isActive \in BOOLEAN
  /\ row \in [Delivery -> Row]
  /\ sender \in [Sender -> Work]
  /\ lock \in Replica \cup {Nobody}
  /\ posts \in [Delivery -> Nat]
  /\ faults \in 0..MaxFaults

Init ==
  /\ isActive = TRUE
  /\ row = [d \in Delivery |-> [status |-> "none", attempts |-> 0, elapsed |-> FALSE]]
  /\ sender = [s \in Sender |-> IF s \in Delivery THEN Start(s) ELSE IdleReplica]
  /\ lock = Nobody
  /\ posts = [d \in Delivery |-> 0]
  /\ faults = 0

at(s, pc) == sender[s].pc = pc
goto(s, pc) == sender' = [sender EXCEPT ![s].pc = pc]

(* After its delivery, a dispatch is over and a retry pass takes the next. *)
doneWith(s) == goto(s, IF s \in Delivery THEN "stopped" ELSE "next")

---------------------------------------------------------------------------
(* dispatch: an event happens while the webhook is active; its row is created. *)
deliver(d) ==
  /\ isActive /\ at(d, "idle")
  /\ row' = [row EXCEPT ![d].status = "pending"]
  /\ sender' = [sender EXCEPT ![d].pc = "post", ![d].attemptNum = 1]
  /\ UNCHANGED <<isActive, lock, posts, faults>>

due_pendingToo == {d \in Delivery : row[d].status = "pending" \/
                     (row[d].status = "failed" /\ row[d].elapsed)}
due == {d \in Delivery : row[d].status = "failed" /\ row[d].elapsed
                           /\ row[d].attempts < MAX_ATTEMPTS}

(* The cron tick on replica w, when it gets the lock: load a batch. *)
retryFailedDeliveries(w) ==
  /\ at(w, "idle") /\ lock = Nobody
  /\ isActive /\ due # {}
  /\ \E batch \in SUBSET due :
       /\ Cardinality(batch) = Min({BatchLimit, Cardinality(due)})
       /\ sender' = [sender EXCEPT ![w].pc = "next", ![w].queue = batch]
  /\ lock' = w
  /\ UNCHANGED <<isActive, row, posts, faults>>

takeNext(w) ==
  /\ at(w, "next")
  /\ \/ /\ \E d \in sender[w].queue :
             sender' = [sender EXCEPT ![w] = [pc |-> "post", on |-> d,
                          attemptNum |-> row[d].attempts + 1, queue |-> @.queue \ {d}]]
        /\ UNCHANGED lock
     \/ /\ sender[w].queue = {}
        /\ sender' = [sender EXCEPT ![w] = IdleReplica]
        /\ lock' = Nobody
  /\ UNCHANGED <<isActive, row, posts, faults>>

(* fetch: answered 2xx, answered otherwise, or it throws (no answer, timeout). *)
post(s) ==
  LET d == sender[s].on IN
  /\ at(s, "post")
  /\ posts' = [posts EXCEPT ![d] = @ + 1]
  /\ goto(s, "success") \/ goto(s, "refused") \/ goto(s, "failure")
  /\ UNCHANGED <<isActive, row, lock, faults>>

recordSuccess_countsAgain(s) ==
  /\ at(s, "success")
  /\ row' = [row EXCEPT ![sender[s].on] =
               [status |-> "success", attempts |-> sender[s].attemptNum + 1, elapsed |-> FALSE]]
  /\ goto(s, "touch")
  /\ UNCHANGED <<isActive, lock, posts, faults>>

(* delivery.update and then hook.update after a 2xx; when either throws, the      *)
(* catch records a failure.                                                     *)
recordSuccess(s) ==
  /\ at(s, "success")
  /\ \/ /\ row' = [row EXCEPT ![sender[s].on] =
                [status |-> "success", attempts |-> sender[s].attemptNum, elapsed |-> FALSE]]
        /\ goto(s, "touch")
        /\ UNCHANGED faults
     \/ /\ "recordFails" \in Fault /\ faults < MaxFaults
        /\ faults' = faults + 1
        /\ goto(s, "failure")
        /\ UNCHANGED row
  /\ UNCHANGED <<isActive, lock, posts>>

touchWebhook(s) ==
  /\ at(s, "touch")
  /\ \/ doneWith(s) /\ UNCHANGED faults
     \/ /\ "hookUpdateFails" \in Fault /\ faults < MaxFaults
        /\ faults' = faults + 1
        /\ goto(s, "failure")
  /\ UNCHANGED <<isActive, row, lock, posts>>

Failed(s) == at(s, "refused") \/ at(s, "failure")

scheduleRetryOrFail_forgetsAttempt(s) ==
  /\ Failed(s)
  /\ row' = [row EXCEPT ![sender[s].on].status = "failed", ![sender[s].on].elapsed = FALSE]
  /\ doneWith(s)
  /\ UNCHANGED <<isActive, lock, posts, faults>>

(* Dead one attempt late: never retried and never settled. *)
scheduleRetryOrFail_offByOne(s) ==
  /\ Failed(s)
  /\ row' = [row EXCEPT ![sender[s].on] =
               [status |-> IF sender[s].attemptNum > MAX_ATTEMPTS THEN "dead" ELSE "failed",
                attempts |-> sender[s].attemptNum, elapsed |-> FALSE]]
  /\ doneWith(s)
  /\ UNCHANGED <<isActive, lock, posts, faults>>

(* delivery.update and then hook.update.  After an answer they run inside the try:  *)
(* when the second throws, the catch runs both again; in the catch it ends the     *)
(* dispatch or the pass like stop.                                              *)
scheduleRetryOrFail(s) ==
  /\ Failed(s)
  /\ row' = [row EXCEPT ![sender[s].on] =
               [status |-> IF sender[s].attemptNum >= MAX_ATTEMPTS THEN "dead" ELSE "failed",
                attempts |-> sender[s].attemptNum, elapsed |-> FALSE]]
  /\ \/ doneWith(s) /\ UNCHANGED faults
     \/ /\ at(s, "refused") /\ "hookUpdateFails" \in Fault /\ faults < MaxFaults
        /\ faults' = faults + 1
        /\ goto(s, "failure")
  /\ UNCHANGED <<isActive, lock, posts>>

---------------------------------------------------------------------------
(* nextRetryAt passes; it is at least 30 s ahead, which outlasts the statements    *)
(* of a sender that is about to record the same failure again.                   *)
elapse(d) ==
  /\ row[d].status = "failed" /\ ~row[d].elapsed
  /\ ~\E s \in Sender : sender[s].on = d /\ at(s, "failure")
  /\ row' = [row EXCEPT ![d].elapsed = TRUE]
  /\ UNCHANGED <<isActive, sender, lock, posts, faults>>

toggleWebhook ==
  /\ isActive' = ~isActive
  /\ UNCHANGED <<row, sender, lock, posts, faults>>

(* A process stops; the advisory lock goes with its transaction.  A statement     *)
(* that fails outside the try ends the dispatch or the retry pass the same way.  *)
stop(s) ==
  /\ faults < MaxFaults
  /\ faults' = faults + 1
  /\ ~at(s, "idle") /\ ~at(s, "stopped")
  /\ \/ s \in Delivery /\ "dispatcherStops" \in Fault /\ goto(s, "stopped") /\ UNCHANGED lock
     \/ /\ s \in Replica /\ "replicaStops" \in Fault
        /\ sender' = [sender EXCEPT ![s] = IdleReplica]
        /\ lock' = Nobody
  /\ UNCHANGED <<isActive, row, posts>>

send(s) == post(s) \/ recordSuccess(s) \/ touchWebhook(s) \/ scheduleRetryOrFail(s)

Next ==
  \/ \E d \in Delivery : deliver(d)
  \/ \E w \in Replica : retryFailedDeliveries(w)
  \/ \E w \in Replica : takeNext(w)
  \/ \E s \in Sender : send(s)
  \/ \E d \in Delivery : elapse(d)
  \/ toggleWebhook
  \/ \E s \in Sender : stop(s)

(* fetch is cut after 10 s, every other await is a database call, the job runs   *)
(* every five minutes on each replica, and time passes.                         *)
Fairness ==
  /\ \A s \in Sender : WF_vars(send(s))
  /\ \A w \in Replica : WF_vars(takeNext(w))
  /\ WF_vars(\E w \in Replica : retryFailedDeliveries(w))
  /\ \A d \in Delivery : WF_vars(elapse(d))

Spec == Init /\ [][Next]_vars /\ Fairness

---------------------------------------------------------------------------
Sending(s, d) ==
  sender[s].on = d /\ sender[s].pc \in {"post", "success", "touch", "refused", "failure"}

(* "duplicate ticks across replicas would otherwise each attempt the same          *)
(* deliveries" (webhookRetryJob.js:10), and a retry pass never meets the dispatch:   *)
(* one sender per delivery at any time.                                          *)
OneSender ==
  \A d \in Delivery : Cardinality({s \in Sender : Sending(s, d)}) <= 1

Outstanding(d) == {s \in Sender : Sending(s, d) /\ ~at(s, "post") /\ ~at(s, "touch")}

(* The recorded attempts are the POSTs made, up to the one whose outcome is not     *)
(* recorded yet and one for every fault, a stopped process or a failed statement:   *)
(* the receiver gets an event at most MAX_ATTEMPTS + 1 times, and once more per     *)
(* fault.                                                                       *)
PostsCounted ==
  \A d \in Delivery : posts[d] <= row[d].attempts + Cardinality(Outstanding(d)) + faults

Settled(d) == row[d].status \in {"success", "dead"}

(* The dispatch stopped before it recorded an outcome: status stays pending.    *)
Abandoned(d) == row[d].status = "pending" /\ at(d, "stopped")

(* Every delivery ends as success or dead, once the webhook stays active and      *)
(* whichever retry passes stop (retryFailedDeliveries), except those abandoned    *)
(* by their dispatch.                                                          *)
EventuallySettled ==
  <>[]isActive =>
    \A d \in Delivery : row[d].status # "none" ~> Settled(d) \/ Abandoned(d)
==============================================================================
