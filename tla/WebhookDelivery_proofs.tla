----------------------- MODULE WebhookDelivery_proofs -----------------------
(***************************************************************************)
(* Theorems about WebhookDelivery, for any deliveries, replicas, attempts,    *)
(* batch size and faults.                                                   *)
(***************************************************************************)
EXTENDS WebhookDelivery, FiniteSetTheorems, TLAPS

Busy(s) == sender[s].pc \in {"post", "success", "touch", "refused", "failure"}

(* The lock names the replica that runs a pass; only a pass has a queue. *)
PassHoldsLock ==
  \A w \in Replica : lock # w => at(w, "idle") /\ sender[w].queue = {}

(* A dispatch works on its own delivery and never runs a pass. *)
DispatchKeepsTo ==
  \A d \in Delivery : sender[d].on = d /\ sender[d].queue = {} /\ ~at(d, "next")

(* A pass works on deliveries whose dispatch is over: a failure recorded by a      *)
(* dispatch that is about to record it again is not due yet.                     *)
PassComesAfter ==
  /\ \A d \in Delivery : row[d].status = "failed" =>
       at(d, "stopped") \/ (at(d, "failure") /\ ~row[d].elapsed)
  /\ \A w \in Replica : \A d \in sender[w].queue : at(d, "stopped")
  /\ \A w \in Replica : Busy(w) => at(sender[w].on, "stopped")
  /\ \A w \in Replica : ~at(w, "stopped")

(* What is queued can still be attempted, and is not being attempted. *)
QueueIsOpen ==
  \A w \in Replica : \A d \in sender[w].queue :
    row[d].attempts < MAX_ATTEMPTS /\ (Busy(w) => sender[w].on # d)

(* Which attempt a sender is at. *)
AttemptNumbers ==
  /\ \A d \in Delivery : at(d, "idle") => row[d].attempts = 0
  /\ \A s \in Sender :
       /\ at(s, "post") \/ at(s, "success")
            => sender[s].attemptNum = row[sender[s].on].attempts + 1
       /\ at(s, "touch") => sender[s].attemptNum = row[sender[s].on].attempts
       /\ Failed(s)
            => sender[s].attemptNum - row[sender[s].on].attempts \in {0, 1}

Inv ==
  /\ TypeOK
  /\ PassHoldsLock
  /\ DispatchKeepsTo
  /\ PassComesAfter
  /\ QueueIsOpen
  /\ AttemptNumbers

(* The dispatches and the replicas are different senders. *)
LEMMA Senders ==
  /\ \A d \in Delivery : d \in Sender /\ d \notin Replica
  /\ \A w \in Replica : w \in Sender /\ w \notin Delivery
  /\ \A s \in Sender : s \in Delivery \/ s \in Replica
  /\ Nobody \notin Replica
BY WebhookConstants DEF Sender

(* The types of the fields. *)
LEMMA Types ==
  ASSUME TypeOK
  PROVE  /\ \A s \in Sender :
              /\ sender[s].pc \in Pc /\ sender[s].on \in Delivery
              /\ sender[s].attemptNum \in 0..MAX_ATTEMPTS
              /\ sender[s].queue \subseteq Delivery
         /\ \A d \in Delivery : row[d].attempts \in 0..MAX_ATTEMPTS
BY DEF TypeOK, Work, Row

(* One sender per delivery, without counting: two passes do not run at once     *)
(* and a pass does not meet the dispatch.                                     *)
LEMMA UniqueSender ==
  ASSUME Inv, NEW s \in Sender, NEW t \in Sender, Busy(s), Busy(t),
         sender[s].on = sender[t].on
  PROVE  s = t
<1>1. CASE s \in Replica /\ t \in Replica
  BY <1>1 DEF Inv, PassHoldsLock, Busy, at
<1>2. CASE s \in Delivery /\ t \in Delivery
  BY <1>2 DEF Inv, DispatchKeepsTo
<1>3. ASSUME NEW d \in Delivery, NEW w \in Replica, Busy(d), Busy(w),
             sender[d].on = sender[w].on
      PROVE  FALSE
  BY <1>3 DEF Inv, DispatchKeepsTo, PassComesAfter, Busy, at
<1>. QED
  BY <1>1, <1>2, <1>3 DEF Sender

(* Initially nobody sends and no row exists. *)
LEMMA InitInv == Init => Inv
<1>. SUFFICES ASSUME Init PROVE Inv
  OBVIOUS
<1>1. (CHOOSE d \in Delivery : TRUE) \in Delivery
  BY WebhookConstants
<1>2. \A d \in Delivery : Start(d) \in Work
  BY WebhookConstants DEF Start, Work, Pc
<1>3. TypeOK
  BY <1>1, <1>2, WebhookConstants DEF Init, TypeOK, Row, Sender, IdleReplica
<1>. QED
  BY <1>3, WebhookConstants
     DEF Init, Inv, PassHoldsLock, DispatchKeepsTo, PassComesAfter, QueueIsOpen,
         AttemptNumbers, Failed, Start, IdleReplica, Sender, Busy, at

---------------------------------------------------------------------------
(* The parts of the invariant after each step. *)

(* A dispatch starts. *)
LEMMA DeliverInv ==
  ASSUME Inv, NEW d \in Delivery, deliver(d)
  PROVE  Inv'
<1>. USE DEF Inv
<1>1. /\ d \in Sender /\ sender[d].pc = "idle"
      /\ row[d] \in Row /\ sender[d] \in Work /\ 1 \in 0..MAX_ATTEMPTS
  BY WebhookConstants DEF deliver, Sender, at, TypeOK
<1>2. /\ sender' \in [Sender -> Work]
      /\ sender'[d] = [pc |-> "post", on |-> d, attemptNum |-> 1, queue |-> {}]
      /\ \A s \in Sender \ {d} : sender'[s] = sender[s]
  BY <1>1 DEF deliver, TypeOK, Work, Pc, DispatchKeepsTo
<1>3. /\ row' \in [Delivery -> Row]
      /\ row[d].attempts = 0 /\ row'[d].status = "pending"
      /\ \A e \in Delivery : row'[e].attempts = row[e].attempts
      /\ \A e \in Delivery \ {d} : row'[e] = row[e]
  BY <1>1 DEF deliver, TypeOK, Row, AttemptNumbers, Failed, at
<1>4. UNCHANGED <<isActive, lock, posts, faults>>
  BY DEF deliver
<1>5. TypeOK'
  BY <1>2, <1>3, <1>4 DEF TypeOK
<1>6. PassHoldsLock' /\ DispatchKeepsTo'
  BY <1>1, <1>2, <1>4, Senders DEF PassHoldsLock, DispatchKeepsTo, at
<1>7. PassComesAfter'
  BY <1>1, <1>2, <1>3, Senders, Types DEF PassComesAfter, at, Busy
<1>8. QueueIsOpen'
  BY <1>1, <1>2, <1>3, Senders, Types DEF QueueIsOpen, Busy
<1>9. AttemptNumbers'
  BY <1>1, <1>2, <1>3, Senders, Types DEF AttemptNumbers, Failed, at
<1>. QED
  BY <1>5, <1>6, <1>7, <1>8, <1>9

(* A pass starts with a batch of failed deliveries, whose dispatches are over. *)
LEMMA RetryInv ==
  ASSUME Inv, NEW w \in Replica, retryFailedDeliveries(w)
  PROVE  Inv'
<1>. USE DEF Inv
<1>1. PICK batch \in SUBSET due :
        sender' = [sender EXCEPT ![w].pc = "next", ![w].queue = batch]
  BY DEF retryFailedDeliveries
<1>2. /\ lock' = w /\ lock = Nobody /\ at(w, "idle")
      /\ UNCHANGED <<isActive, row, posts, faults>>
  BY DEF retryFailedDeliveries
<1>3. batch \subseteq Delivery /\ w \in Sender /\ sender[w] \in Work
  BY <1>1, Senders DEF due, TypeOK
<1>4. /\ sender' \in [Sender -> Work]
      /\ sender'[w].pc = "next" /\ sender'[w].queue = batch /\ ~Busy(w)'
      /\ \A s \in Sender \ {w} : sender'[s] = sender[s]
  BY <1>1, <1>3 DEF TypeOK, Work, Pc, Busy
<1>5. batch \subseteq Delivery
      /\ \A d \in batch : row[d].attempts < MAX_ATTEMPTS /\ at(d, "stopped")
  BY <1>1 DEF due, PassComesAfter
<1>6. TypeOK'
  BY <1>2, <1>4 DEF TypeOK
<1>7. PassHoldsLock' /\ DispatchKeepsTo'
  BY <1>2, <1>4, Senders DEF PassHoldsLock, DispatchKeepsTo, at
<1>8. PassComesAfter'
  BY <1>2, <1>4, <1>5, Senders, Types DEF PassComesAfter, at, Busy
<1>9. QueueIsOpen' /\ AttemptNumbers'
  BY <1>2, <1>4, <1>5, Senders, Types DEF QueueIsOpen, AttemptNumbers, Failed, at, Busy
<1>. QED
  BY <1>6, <1>7, <1>8, <1>9

(* A pass takes its next delivery, or ends and releases the lock. *)
LEMMA TakeNextInv ==
  ASSUME Inv, NEW w \in Replica, takeNext(w)
  PROVE  Inv'
<1>. USE DEF Inv
<1>0. at(w, "next") /\ UNCHANGED <<isActive, row, posts, faults>>
  BY DEF takeNext
<1>1. ASSUME NEW d \in sender[w].queue, UNCHANGED lock,
             sender' = [sender EXCEPT ![w] = [pc |-> "post", on |-> d,
                          attemptNum |-> row[d].attempts + 1, queue |-> @.queue \ {d}]]
      PROVE  Inv'
  <2>1. d \in Delivery /\ row[d].attempts < MAX_ATTEMPTS /\ at(d, "stopped")
    BY DEF TypeOK, Work, Sender, QueueIsOpen, PassComesAfter
  <2>2. row[d].attempts + 1 \in 0..MAX_ATTEMPTS
    BY <2>1, WebhookConstants DEF TypeOK, Row
  <2>3. /\ sender' \in [Sender -> Work]
        /\ sender'[w] = [pc |-> "post", on |-> d, attemptNum |-> row[d].attempts + 1,
                         queue |-> sender[w].queue \ {d}]
        /\ \A s \in Sender \ {w} : sender'[s] = sender[s]
    BY <1>1, <2>1, <2>2 DEF TypeOK, Work, Pc, Sender
  <2>4. TypeOK'
    BY <1>0, <1>1, <2>3 DEF TypeOK
  <2>5. PassHoldsLock' /\ DispatchKeepsTo'
    BY <1>0, <1>1, <2>3, Senders DEF PassHoldsLock, DispatchKeepsTo, at
  <2>6. PassComesAfter'
    BY <1>0, <2>1, <2>3, Senders, Types DEF PassComesAfter, at, Busy
  <2>7. QueueIsOpen'
    BY <1>0, <2>1, <2>3 DEF QueueIsOpen, Sender, Busy
  <2>8. AttemptNumbers'
    BY <1>0, <2>1, <2>3, WebhookConstants DEF AttemptNumbers, Failed, Sender, at
  <2>. QED
    BY <2>4, <2>5, <2>6, <2>7, <2>8
<1>2. ASSUME sender' = [sender EXCEPT ![w] = IdleReplica], lock' = Nobody
      PROVE  Inv'
  <2>1. /\ sender' \in [Sender -> Work]
        /\ sender'[w].pc = "idle" /\ sender'[w].queue = {}
        /\ \A s \in Sender \ {w} : sender'[s] = sender[s]
    BY <1>2, WebhookConstants DEF TypeOK, Work, Pc, Sender, IdleReplica, Start
  <2>2. TypeOK'
    BY <1>0, <1>2, <2>1 DEF TypeOK
  <2>3. PassHoldsLock' /\ DispatchKeepsTo'
    BY <1>0, <1>2, <2>1, Senders DEF PassHoldsLock, DispatchKeepsTo, at
  <2>4. PassComesAfter' /\ QueueIsOpen' /\ AttemptNumbers'
    BY <1>0, <2>1, Senders, Types DEF PassComesAfter, QueueIsOpen, AttemptNumbers, Failed, at, Busy
  <2>. QED
    BY <2>2, <2>3, <2>4
<1>. QED
  BY <1>1, <1>2 DEF takeNext

(* What a step of a sender s finds: nobody else is concerned with its delivery. *)
LEMMA WorksAlone ==
  ASSUME Inv, NEW s \in Sender, Busy(s)
  PROVE  LET d == sender[s].on IN
         /\ d \in Delivery /\ ~at(d, "idle")
         /\ \A t \in Sender \ {s} : Busy(t) => sender[t].on # d
         /\ \A w \in Replica : d \notin sender[w].queue
         /\ s \in Delivery => s = d
         /\ s \in Replica => at(d, "stopped") /\ lock = s
<1>. DEFINE d == sender[s].on
<1>. USE DEF Inv
<1>1. d \in Delivery
  BY Types
<1>2. \A t \in Sender \ {s} : Busy(t) => sender[t].on # d
  BY UniqueSender
<1>3. s \in Delivery => s = d
  BY DEF DispatchKeepsTo
<1>4. s \in Replica => at(d, "stopped") /\ lock = s
  BY DEF PassComesAfter, PassHoldsLock, Busy, at
<1>5. ~at(d, "idle")
  BY <1>3, <1>4, Senders DEF Busy, at
<1>6. \A w \in Replica : d \notin sender[w].queue
  <2>1. CASE s \in Delivery
    BY <2>1, <1>3 DEF PassComesAfter, Busy, at
  <2>2. CASE s \in Replica
    BY <2>2, <1>4 DEF PassHoldsLock, QueueIsOpen
  <2>. QED
    BY <2>1, <2>2, Senders
<1>. QED
  BY <1>1, <1>2, <1>3, <1>4, <1>5, <1>6

(* A sender that moves on keeps its work. *)
LEMMA Moves ==
  ASSUME TypeOK, NEW s \in Sender, NEW p \in Pc, goto(s, p)
  PROVE  /\ sender' \in [Sender -> Work]
         /\ sender'[s].pc = p /\ sender'[s].on = sender[s].on
         /\ sender'[s].attemptNum = sender[s].attemptNum /\ sender'[s].queue = sender[s].queue
         /\ \A t \in Sender \ {s} : sender'[t] = sender[t]
<1>1. sender[s] \in Work /\ sender' = [sender EXCEPT ![s].pc = p]
  BY DEF TypeOK, goto
<1>. QED
  BY <1>1 DEF TypeOK, Work

(* The POST is answered or fails. *)
LEMMA PostInv ==
  ASSUME Inv, NEW s \in Sender, post(s)
  PROVE  Inv'
<1>. USE DEF Inv
<1>1. /\ at(s, "post") /\ Busy(s)
      /\ UNCHANGED <<isActive, row, lock, faults>>
  BY DEF post, at, Busy
<1>2. PICK p \in {"success", "refused", "failure"} : goto(s, p)
  BY DEF post
<1>3. /\ sender' \in [Sender -> Work]
      /\ sender'[s].pc = p /\ sender'[s].on = sender[s].on
      /\ sender'[s].attemptNum = sender[s].attemptNum /\ sender'[s].queue = sender[s].queue
      /\ \A t \in Sender \ {s} : sender'[t] = sender[t]
  BY <1>2, Moves DEF Pc
<1>4. TypeOK'
  <2>1. posts' \in [Delivery -> Nat]
    BY Types DEF post, TypeOK
  <2>. QED
    BY <1>1, <1>3, <2>1 DEF TypeOK
<1>5. PassHoldsLock' /\ DispatchKeepsTo'
  BY <1>1, <1>3, Senders DEF PassHoldsLock, DispatchKeepsTo, at
<1>6. PassComesAfter'
  BY <1>1, <1>3, Senders, Types DEF PassComesAfter, at, Busy
<1>7. QueueIsOpen'
  BY <1>1, <1>3, Senders DEF QueueIsOpen, Busy
<1>8. AttemptNumbers'
  <2>1. row[sender[s].on].attempts \in Nat
    BY Types
  <2>. QED
    BY <1>1, <1>3, <2>1, Senders DEF AttemptNumbers, Failed, at
<1>. QED
  BY <1>4, <1>5, <1>6, <1>7, <1>8

(* The success is recorded, or recording it fails. *)
LEMMA RecordSuccessInv ==
  ASSUME Inv, NEW s \in Sender, recordSuccess(s)
  PROVE  Inv'
<1>. USE DEF Inv
<1>. DEFINE d == sender[s].on
<1>1. /\ at(s, "success") /\ Busy(s)
      /\ UNCHANGED <<isActive, lock, posts>>
      /\ faults' \in 0..MaxFaults
  BY WebhookConstants DEF recordSuccess, at, Busy, TypeOK
<1>2. /\ d \in Delivery /\ ~at(d, "idle")
      /\ \A t \in Sender \ {s} : Busy(t) => sender[t].on # d
      /\ \A w \in Replica : d \notin sender[w].queue
  BY <1>1, WorksAlone
<1>3. ASSUME goto(s, "touch"),
             row' = [row EXCEPT ![d] = [status |-> "success", attempts |-> sender[s].attemptNum,
                                        elapsed |-> FALSE]]
      PROVE  Inv'
  <2>1. /\ row' \in [Delivery -> Row]
        /\ row'[d].status = "success" /\ row'[d].attempts = sender[s].attemptNum
        /\ \A e \in Delivery \ {d} : row'[e] = row[e]
    BY <1>2, <1>3, Types DEF TypeOK, Row
  <2>2. /\ sender' \in [Sender -> Work]
        /\ sender'[s].pc = "touch" /\ sender'[s].on = d
        /\ sender'[s].attemptNum = sender[s].attemptNum /\ sender'[s].queue = sender[s].queue
        /\ \A t \in Sender \ {s} : sender'[t] = sender[t]
    BY <1>3, Moves DEF Pc
  <2>3. TypeOK'
    BY <1>1, <2>1, <2>2 DEF TypeOK
  <2>4. PassHoldsLock' /\ DispatchKeepsTo'
    BY <1>1, <2>2, Senders DEF PassHoldsLock, DispatchKeepsTo, at
  <2>5. PassComesAfter'
    BY <1>1, <2>1, <2>2, Senders, Types DEF PassComesAfter, at, Busy
  <2>6. QueueIsOpen'
    BY <1>1, <1>2, <2>1, <2>2, Senders, Types DEF QueueIsOpen, Busy
  <2>7. AttemptNumbers'
    BY <1>1, <1>2, <2>1, <2>2, Senders, Types DEF AttemptNumbers, Failed, at, Busy
  <2>. QED
    BY <2>3, <2>4, <2>5, <2>6, <2>7
<1>4. ASSUME goto(s, "failure"), UNCHANGED row
      PROVE  Inv'
  <2>2. /\ sender' \in [Sender -> Work]
        /\ sender'[s].pc = "failure" /\ sender'[s].on = d
        /\ sender'[s].attemptNum = sender[s].attemptNum /\ sender'[s].queue = sender[s].queue
        /\ \A t \in Sender \ {s} : sender'[t] = sender[t]
    BY <1>4, Moves DEF Pc
  <2>3. TypeOK'
    BY <1>1, <1>4, <2>2 DEF TypeOK
  <2>4. PassHoldsLock' /\ DispatchKeepsTo'
    BY <1>1, <2>2, Senders DEF PassHoldsLock, DispatchKeepsTo, at
  <2>5. PassComesAfter' /\ QueueIsOpen'
    BY <1>1, <1>4, <2>2, Senders, Types DEF PassComesAfter, QueueIsOpen, at, Busy
  <2>6. row[d].attempts \in Nat
    BY <1>2, Types
  <2>7. AttemptNumbers'
    BY <1>1, <1>4, <2>2, <2>6, Senders DEF AttemptNumbers, Failed, at
  <2>. QED
    BY <2>3, <2>4, <2>5, <2>7
<1>. QED
  BY <1>3, <1>4 DEF recordSuccess

(* The webhook is updated, or that fails and counts as a failure. *)
LEMMA TouchInv ==
  ASSUME Inv, NEW s \in Sender, touchWebhook(s)
  PROVE  Inv'
<1>. USE DEF Inv
<1>1. /\ at(s, "touch") /\ Busy(s)
      /\ UNCHANGED <<isActive, row, lock, posts>>
      /\ faults' \in 0..MaxFaults
  BY WebhookConstants DEF touchWebhook, at, Busy, TypeOK
<1>2. PICK p \in {"failure", IF s \in Delivery THEN "stopped" ELSE "next"} : goto(s, p)
  BY DEF touchWebhook, doneWith
<1>3. /\ sender' \in [Sender -> Work]
      /\ sender'[s].pc = p /\ sender'[s].on = sender[s].on
      /\ sender'[s].attemptNum = sender[s].attemptNum /\ sender'[s].queue = sender[s].queue
      /\ \A t \in Sender \ {s} : sender'[t] = sender[t]
  BY <1>2, Moves DEF Pc
<1>4. TypeOK'
  BY <1>1, <1>3 DEF TypeOK
<1>5. PassHoldsLock' /\ DispatchKeepsTo'
  BY <1>1, <1>2, <1>3, Senders DEF PassHoldsLock, DispatchKeepsTo, at
<1>6. PassComesAfter'
  BY <1>1, <1>2, <1>3, Senders, Types DEF PassComesAfter, at, Busy
<1>7. QueueIsOpen'
  BY <1>1, <1>3, Senders DEF QueueIsOpen, Busy
<1>8. AttemptNumbers'
  <2>1. row[sender[s].on].attempts \in Nat
    BY Types
  <2>. QED
    BY <1>1, <1>2, <1>3, <2>1, Senders DEF AttemptNumbers, Failed, at
<1>. QED
  BY <1>4, <1>5, <1>6, <1>7, <1>8

(* A failure is recorded: the row may be taken by the next pass. *)
LEMMA ScheduleInv ==
  ASSUME Inv, NEW s \in Sender, scheduleRetryOrFail(s)
  PROVE  Inv'
<1>. USE DEF Inv
<1>. DEFINE d == sender[s].on
<1>1. /\ Failed(s) /\ Busy(s)
      /\ UNCHANGED <<isActive, lock, posts>>
      /\ faults' \in 0..MaxFaults
  BY WebhookConstants DEF scheduleRetryOrFail, Failed, at, Busy, TypeOK
<1>0. PICK p \in Pc : /\ goto(s, p)
                      /\ p \in {"failure", IF s \in Delivery THEN "stopped" ELSE "next"}
  BY DEF scheduleRetryOrFail, doneWith, Pc
<1>2. /\ d \in Delivery /\ ~at(d, "idle")
      /\ \A t \in Sender \ {s} : Busy(t) => sender[t].on # d
      /\ \A w \in Replica : d \notin sender[w].queue
      /\ s \in Delivery => s = d
      /\ s \in Replica => at(d, "stopped")
  BY <1>1, WorksAlone
<1>3. PICK st \in {"dead", "failed"} :
        row' = [row EXCEPT ![d] = [status |-> st, attempts |-> sender[s].attemptNum,
                                   elapsed |-> FALSE]]
  BY DEF scheduleRetryOrFail
<1>4. /\ row' \in [Delivery -> Row]
      /\ row'[d].attempts = sender[s].attemptNum
      /\ \A e \in Delivery \ {d} : row'[e] = row[e]
      /\ ~row'[d].elapsed
  BY <1>2, <1>3, Types DEF TypeOK, Row
<1>5. /\ sender' \in [Sender -> Work]
      /\ sender'[s].pc = p /\ sender'[s].on = d
      /\ sender'[s].attemptNum = sender[s].attemptNum /\ sender'[s].queue = sender[s].queue
      /\ \A t \in Sender \ {s} : sender'[t] = sender[t]
  BY <1>0, Moves
<1>6. TypeOK'
  BY <1>1, <1>4, <1>5 DEF TypeOK
<1>7. PassHoldsLock' /\ DispatchKeepsTo'
  BY <1>0, <1>1, <1>2, <1>5, Senders DEF PassHoldsLock, DispatchKeepsTo, Failed, at
<1>8. PassComesAfter'
  BY <1>0, <1>1, <1>2, <1>4, <1>5, Senders, Types DEF PassComesAfter, at, Busy
<1>9. QueueIsOpen'
  BY <1>0, <1>1, <1>2, <1>4, <1>5, Senders, Types DEF QueueIsOpen, Busy
<1>10. AttemptNumbers'
  BY <1>0, <1>1, <1>2, <1>4, <1>5, Senders, Types DEF AttemptNumbers, Failed, at, Busy
<1>. QED
  BY <1>6, <1>7, <1>8, <1>9, <1>10

(* Time passes. *)
LEMMA ElapseInv ==
  ASSUME Inv, NEW d \in Delivery, elapse(d)
  PROVE  Inv'
<1>. USE DEF Inv
<1>1. UNCHANGED <<isActive, sender, lock, posts, faults>>
  BY DEF elapse
<1>2. /\ row' \in [Delivery -> Row]
      /\ \A e \in Delivery : row'[e].attempts = row[e].attempts /\ row'[e].status = row[e].status
      /\ \A e \in Delivery \ {d} : row'[e] = row[e]
  BY DEF elapse, TypeOK, Row
<1>0. ~at(d, "failure")
  BY Senders DEF elapse, DispatchKeepsTo
<1>3. TypeOK'
  BY <1>1, <1>2 DEF TypeOK
<1>4. PassHoldsLock' /\ DispatchKeepsTo'
  BY <1>1 DEF PassHoldsLock, DispatchKeepsTo, at
<1>5. PassComesAfter' /\ QueueIsOpen'
  BY <1>0, <1>1, <1>2, Senders, Types DEF PassComesAfter, QueueIsOpen, at, Busy
<1>6. AttemptNumbers'
  BY <1>1, <1>2, Types DEF AttemptNumbers, Failed, at
<1>. QED
  BY <1>3, <1>4, <1>5, <1>6

(* A dispatch or a pass ends early; the lock goes with the pass. *)
LEMMA StopInv ==
  ASSUME Inv, NEW s \in Sender, stop(s)
  PROVE  Inv'
<1>. USE DEF Inv
<1>1. /\ faults' \in 0..MaxFaults
      /\ ~at(s, "idle") /\ ~at(s, "stopped")
      /\ UNCHANGED <<isActive, row, posts>>
  BY WebhookConstants DEF stop, TypeOK
<1>2. ASSUME s \in Delivery, goto(s, "stopped"), UNCHANGED lock
      PROVE  Inv'
  <2>1. /\ sender' \in [Sender -> Work]
        /\ sender'[s].pc = "stopped" /\ sender'[s].on = sender[s].on
        /\ sender'[s].queue = sender[s].queue
        /\ \A t \in Sender \ {s} : sender'[t] = sender[t]
    BY <1>2, Moves DEF Pc
  <2>2. TypeOK'
    BY <1>1, <1>2, <2>1 DEF TypeOK
  <2>3. PassHoldsLock' /\ DispatchKeepsTo'
    BY <1>1, <1>2, <2>1, Senders DEF PassHoldsLock, DispatchKeepsTo, at
  <2>4. PassComesAfter' /\ QueueIsOpen' /\ AttemptNumbers'
    BY <1>1, <1>2, <2>1, Senders, Types
       DEF PassComesAfter, QueueIsOpen, AttemptNumbers, Failed, at, Busy
  <2>. QED
    BY <2>2, <2>3, <2>4
<1>3. ASSUME s \in Replica, sender' = [sender EXCEPT ![s] = IdleReplica], lock' = Nobody
      PROVE  Inv'
  <2>1. /\ sender' \in [Sender -> Work]
        /\ sender'[s].pc = "idle" /\ sender'[s].queue = {}
        /\ \A t \in Sender \ {s} : sender'[t] = sender[t]
    BY <1>3, WebhookConstants DEF TypeOK, Work, Pc, Sender, IdleReplica, Start
  <2>2. TypeOK'
    BY <1>1, <1>3, <2>1 DEF TypeOK
  <2>3. lock = s
    BY <1>1, <1>3 DEF PassHoldsLock
  <2>4. PassHoldsLock' /\ DispatchKeepsTo'
    BY <1>3, <2>1, <2>3, Senders DEF PassHoldsLock, DispatchKeepsTo, at
  <2>5. PassComesAfter' /\ QueueIsOpen' /\ AttemptNumbers'
    BY <1>1, <1>3, <2>1, Senders, Types
       DEF PassComesAfter, QueueIsOpen, AttemptNumbers, Failed, at, Busy
  <2>. QED
    BY <2>2, <2>4, <2>5
<1>. QED
  BY <1>2, <1>3 DEF stop

(* The invariant is inductive. *)
LEMMA NextInv ==
  ASSUME Inv, [Next]_vars
  PROVE  Inv'
<1>1. CASE toggleWebhook
  BY <1>1 DEF toggleWebhook, Inv, TypeOK, PassHoldsLock, DispatchKeepsTo, PassComesAfter,
              QueueIsOpen, AttemptNumbers, Failed, at, Busy
<1>2. CASE UNCHANGED vars
  BY <1>2 DEF vars, Inv, TypeOK, PassHoldsLock, DispatchKeepsTo, PassComesAfter,
              QueueIsOpen, AttemptNumbers, Failed, at, Busy
<1>. QED
  BY <1>1, <1>2, DeliverInv, RetryInv, TakeNextInv, PostInv, RecordSuccessInv, TouchInv,
     ScheduleInv, ElapseInv, StopInv DEF Next, send

(* Hence it holds throughout. *)
LEMMA InvAlways == Spec => []Inv
BY InitInv, NextInv, PTL DEF Spec

---------------------------------------------------------------------------
(* Every variable keeps its type: in particular no attempt is numbered above    *)
(* MAX_ATTEMPTS (scheduleRetryOrFail's cap against the batch the pass loaded).   *)
THEOREM TypeCorrect == Spec => []TypeOK
<1>1. Inv => TypeOK
  BY DEF Inv
<1>. QED
  BY <1>1, InvAlways, PTL

(* A set without two members has at most one. *)
LEMMA AtMostOne ==
  ASSUME NEW S, \A x, y \in S : x = y
  PROVE  /\ Cardinality(S) \in Nat /\ Cardinality(S) <= 1
         /\ S # {} => Cardinality(S) = 1
<1>1. CASE S = {}
  BY <1>1, FS_EmptySet
<1>2. ASSUME NEW x \in S PROVE Cardinality(S) = 1
  <2>1. S = {x}
    BY <1>2
  <2>. QED
    BY <2>1, FS_Singleton
<1>. QED
  BY <1>1, <1>2

(* At any time one sender at most works on a delivery: retry passes of several   *)
(* replicas do not overlap, and a pass does not meet the dispatch.               *)
THEOREM SingleSender == Spec => []OneSender
<1>1. Inv => OneSender
  <2>. SUFFICES ASSUME Inv, NEW d \in Delivery
                PROVE  Cardinality({s \in Sender : Sending(s, d)}) <= 1
    BY DEF OneSender
  <2>1. \A s, t \in {u \in Sender : Sending(u, d)} : s = t
    BY UniqueSender DEF Sending, Busy
  <2>. QED
    BY <2>1, AtMostOne
<1>. QED
  BY <1>1, InvAlways, PTL

---------------------------------------------------------------------------
(* Sender s has made a POST for d that the row does not count yet. *)
Owes(s, d) ==
  /\ sender[s].on = d
  /\ at(s, "success") \/ Failed(s)
  /\ sender[s].attemptNum = row[d].attempts + 1
Owed(d) == \E s \in Sender : Owes(s, d)

(* A delivery is posted as often as its row says, once more while a sender owes  *)
(* it an outcome, and once more for each fault.                                 *)
CountInv ==
  \A d \in Delivery :
    /\ posts[d] <= row[d].attempts + faults + 1
    /\ ~Owed(d) => posts[d] <= row[d].attempts + faults

(* What every step does to the counts of the deliveries it is not about: the    *)
(* debts and the attempts stay, so the bound does.                              *)
LEMMA CountKept ==
  ASSUME TypeOK, TypeOK', CountInv, NEW d \in Delivery,
         posts'[d] = posts[d], row'[d].attempts = row[d].attempts, faults <= faults',
         Owed(d) => Owed(d)' \/ faults < faults'
  PROVE  /\ posts'[d] <= row'[d].attempts + faults' + 1
         /\ ~Owed(d)' => posts'[d] <= row'[d].attempts + faults'
<1>1. /\ posts[d] \in Nat /\ row[d].attempts \in Nat /\ faults \in Nat /\ faults' \in Nat
  BY Types, WebhookConstants DEF TypeOK
<1>. QED
  BY <1>1 DEF CountInv

(* The count is inductive, given the invariant before and after the step. *)
LEMMA CountNext ==
  ASSUME Inv, Inv', CountInv, [Next]_vars
  PROVE  CountInv'
<1>. USE DEF Inv
<1>0. /\ \A d \in Delivery : posts[d] \in Nat /\ row[d].attempts \in Nat
      /\ faults \in Nat /\ TypeOK /\ TypeOK'
  BY Types, WebhookConstants DEF TypeOK
<1>1. ASSUME NEW d \in Delivery, deliver(d) PROVE CountInv'
  <2>1. /\ at(d, "idle") /\ d \in Sender /\ UNCHANGED <<posts, faults>>
        /\ \A s \in Sender \ {d} : sender'[s] = sender[s]
        /\ \A e \in Delivery : row'[e].attempts = row[e].attempts
    BY <1>1, Senders DEF deliver, TypeOK, Row
  <2>2. \A e \in Delivery : Owed(e) => Owed(e)'
    BY <2>1 DEF Owed, Owes, Failed, at
  <2>. QED
    BY <1>0, <2>1, <2>2, CountKept DEF CountInv
<1>2. ASSUME NEW w \in Replica, retryFailedDeliveries(w) \/ takeNext(w) PROVE CountInv'
  <2>1. /\ at(w, "idle") \/ at(w, "next")
        /\ w \in Sender /\ UNCHANGED <<posts, faults, row>>
        /\ \A s \in Sender \ {w} : sender'[s] = sender[s]
    BY <1>2, Senders DEF retryFailedDeliveries, takeNext, TypeOK
  <2>2. \A e \in Delivery : Owed(e) => Owed(e)'
    BY <2>1 DEF Owed, Owes, Failed, at
  <2>. QED
    BY <1>0, <2>1, <2>2, CountKept DEF CountInv
<1>3. ASSUME NEW s \in Sender, post(s) PROVE CountInv'
  <2>0. PICK d \in Delivery : sender[s].on = d
    BY Types
  <2>1. /\ at(s, "post") /\ Busy(s) /\ UNCHANGED <<row, faults>>
        /\ posts' = [posts EXCEPT ![d] = @ + 1]
    BY <1>3, <2>0 DEF post, at, Busy
  <2>2. PICK p \in {"success", "refused", "failure"} : goto(s, p)
    BY <1>3 DEF post
  <2>3. /\ sender'[s].pc = p /\ sender'[s].on = d
        /\ sender'[s].attemptNum = sender[s].attemptNum
        /\ \A t \in Sender \ {s} : sender'[t] = sender[t]
    BY <2>0, <2>2, Moves DEF Pc
  <2>4. \A t \in Sender \ {s} : Busy(t) => sender[t].on # d
    BY <2>0, <2>1, WorksAlone
  <2>5. ~Owed(d)
    BY <2>0, <2>1, <2>4 DEF Owed, Owes, Failed, at, Busy
  <2>6. Owed(d)'
    BY <2>0, <2>1, <2>2, <2>3 DEF AttemptNumbers, Failed, Owed, Owes, Failed, at
  <2>7. posts'[d] <= row'[d].attempts + faults' + 1
    BY <1>0, <2>1, <2>4, <2>5 DEF CountInv, TypeOK
  <2>8. ASSUME NEW e \in Delivery \ {d}
        PROVE  /\ posts'[e] <= row'[e].attempts + faults' + 1
               /\ ~Owed(e)' => posts'[e] <= row'[e].attempts + faults'
    <3>1. Owed(e) => Owed(e)'
      BY <2>1, <2>3 DEF Owed, Owes, Failed, at
    <3>2. posts'[e] = posts[e]
      BY <2>1 DEF TypeOK
    <3>. QED
      BY <1>0, <2>1, <3>1, <3>2, CountKept
  <2>. QED
    BY <2>6, <2>7, <2>8 DEF CountInv
<1>4. ASSUME NEW s \in Sender, recordSuccess(s) \/ scheduleRetryOrFail(s) PROVE CountInv'
  <2>. DEFINE d == sender[s].on
  <2>1. /\ Busy(s) /\ UNCHANGED posts /\ faults' \in Nat /\ faults <= faults'
        /\ at(s, "success") \/ Failed(s)
    BY <1>0, <1>4 DEF recordSuccess, scheduleRetryOrFail, Failed, at, Busy
  <2>2. d \in Delivery /\ \A t \in Sender \ {s} : Busy(t) => sender[t].on # d
    BY <2>1, WorksAlone
  <2>3. PICK p \in Pc : goto(s, p)
    BY <1>4 DEF recordSuccess, scheduleRetryOrFail, doneWith, Pc
  <2>4. /\ sender'[s].pc = p /\ sender'[s].on = d
        /\ sender'[s].attemptNum = sender[s].attemptNum
        /\ \A t \in Sender \ {s} : sender'[t] = sender[t]
    BY <2>3, Moves
  <2>5. CASE row' = row /\ goto(s, "failure")
    <3>1. sender'[s].pc = "failure"
      BY <2>5, Moves DEF Pc
    <3>2. \A e \in Delivery : Owed(e) => Owed(e)'
      BY <2>5, <2>4, <3>1 DEF Owed, Owes, Failed, at
    <3>. QED
      BY <1>0, <2>1, <2>5, <3>2, CountKept DEF CountInv
  <2>6. CASE /\ row'[d].attempts = sender[s].attemptNum
             /\ \A e \in Delivery \ {d} : row'[e] = row[e]
    <3>1. sender[s].attemptNum - row[d].attempts \in {0, 1} /\ sender[s].attemptNum \in Nat
      BY <1>0, <2>1, <2>2, Types DEF AttemptNumbers
    <3>2. Owed(d) => sender[s].attemptNum = row[d].attempts + 1
      BY <2>2 DEF Owed, Owes, Failed, at, Busy
    <3>3. posts'[d] <= row'[d].attempts + faults'
      BY <1>0, <2>1, <2>2, <2>6, <3>1, <3>2 DEF CountInv
    <3>4. posts'[d] <= row'[d].attempts + faults' + 1
      BY <1>0, <2>1, <2>2, <2>6, <3>1, <3>3
    <3>5. ASSUME NEW e \in Delivery \ {d}
          PROVE  /\ posts'[e] <= row'[e].attempts + faults' + 1
                 /\ ~Owed(e)' => posts'[e] <= row'[e].attempts + faults'
      <4>1. Owed(e) => Owed(e)'
        BY <2>4, <2>6 DEF Owed, Owes, Failed, at
      <4>. QED
        BY <1>0, <2>1, <2>6, <4>1, CountKept
    <3>. QED
      BY <3>3, <3>4, <3>5 DEF CountInv
  <2>7. \/ row' = row /\ goto(s, "failure")
        \/ \E st : row' = [row EXCEPT ![d] = [status |-> st, attempts |-> sender[s].attemptNum,
                                              elapsed |-> FALSE]]
    BY <1>4 DEF recordSuccess, scheduleRetryOrFail
  <2>8. CASE \E st : row' = [row EXCEPT ![d] = [status |-> st, attempts |-> sender[s].attemptNum,
                                              elapsed |-> FALSE]]
    BY <2>2, <2>6, <2>8 DEF TypeOK
  <2>. QED
    BY <2>5, <2>7, <2>8
<1>5. ASSUME NEW s \in Sender, touchWebhook(s) PROVE CountInv'
  <2>1. /\ at(s, "touch") /\ UNCHANGED <<posts, row>> /\ faults <= faults'
    BY <1>0, <1>5 DEF touchWebhook
  <2>2. \A t \in Sender \ {s} : sender'[t] = sender[t]
    BY <1>5 DEF touchWebhook, doneWith, goto, TypeOK
  <2>3. \A e \in Delivery : Owed(e) => Owed(e)'
    BY <2>1, <2>2 DEF Owed, Owes, Failed, at
  <2>. QED
    BY <1>0, <2>1, <2>3, CountKept DEF CountInv
<1>6. ASSUME NEW d \in Delivery, elapse(d) PROVE CountInv'
  <2>1. /\ UNCHANGED <<posts, faults, sender>>
        /\ \A e \in Delivery : row'[e].attempts = row[e].attempts
    BY <1>6 DEF elapse, TypeOK, Row
  <2>2. \A e \in Delivery : Owed(e) => Owed(e)'
    BY <2>1 DEF Owed, Owes, Failed, at
  <2>. QED
    BY <1>0, <2>1, <2>2, CountKept DEF CountInv
<1>7. ASSUME NEW s \in Sender, stop(s) PROVE CountInv'
  <2>1. UNCHANGED <<posts, row>> /\ faults < faults' /\ faults <= faults'
    BY <1>0, <1>7 DEF stop
  <2>. QED
    BY <1>0, <2>1, CountKept DEF CountInv
<1>8. CASE toggleWebhook \/ UNCHANGED vars
  BY <1>8 DEF toggleWebhook, vars, CountInv, Owed, Owes, Failed, at
<1>. QED
  BY <1>1, <1>2, <1>3, <1>4, <1>5, <1>6, <1>7, <1>8 DEF Next, send

(* The receiver gets an event as often as the row counts attempts, plus the one    *)
(* outcome not recorded yet, plus one for each fault, a stop or a failed          *)
(* statement: with TypeCorrect, at most MAX_ATTEMPTS + 1 times when nothing fails.                                *)
THEOREM PostsAreCounted == Spec => []PostsCounted
<1>1. Init => CountInv
  BY WebhookConstants DEF Init, CountInv
<1>2. Inv /\ CountInv => PostsCounted
  <2>. SUFFICES ASSUME Inv, CountInv, NEW d \in Delivery
                PROVE  posts[d] <= row[d].attempts + Cardinality(Outstanding(d)) + faults
    BY DEF PostsCounted
  <2>1. posts[d] \in Nat /\ row[d].attempts \in Nat /\ faults \in Nat
    BY Types, WebhookConstants DEF Inv, TypeOK
  <2>2. \A s, t \in Outstanding(d) : s = t
    BY UniqueSender DEF Outstanding, Sending, Busy
  <2>3. /\ Cardinality(Outstanding(d)) \in Nat
        /\ Outstanding(d) # {} => Cardinality(Outstanding(d)) = 1
    BY <2>2, AtMostOne
  <2>4. Owed(d) => Outstanding(d) # {}
    BY DEF Owed, Owes, Failed, Outstanding, Sending, at
  <2>. QED
    BY <2>1, <2>3, <2>4 DEF CountInv
<1>. QED
  BY <1>1, <1>2, CountNext, InvAlways, PTL DEF Spec
=============================================================================
