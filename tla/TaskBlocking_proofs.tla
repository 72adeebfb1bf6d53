------------------------ MODULE TaskBlocking_proofs ------------------------
(***************************************************************************)
(* Theorems about TaskBlocking, for every set of requests, any number of       *)
(* handlers at once and any number of operations and crashes.                 *)
(***************************************************************************)
EXTENDS TaskBlocking, TLAPS

Syncing == Advance \cup {"cancelled"}

\* What a handler is doing fits where it is: a request's handlers and nobody else hold a
\* request, only those that write a status synchronise the shadow, and a link's handlers know
\* whether they lock or unlock.
Fits(c) ==
  /\ c.at = "idle" => c.on = None
  /\ c.at \in {"save", "sync"} => c.on \in Requests
  /\ c.at = "sync" => c.op \in Syncing
  /\ c.at # "idle" => (c.on # None <=> c.op \in Recomputing)
  /\ c.at \in {"blocked", "task", "lock"} => c.op \in Recomputing \cup {"lock", "unlock", "chain"}
  /\ c.at = "cascade" => c.op = "cascade"
  /\ c.op = "chain" => c.at \in {"idle", "blocked", "write"}
  /\ c.op = "unlock" => c.at \in {"idle", "blocked", "task", "write"}
  /\ c.op = "lock" => c.at \in {"idle", "lock", "write"}
  /\ c.op = "edit" => c.at \in {"idle", "write"}
  /\ c.op = "cascade" => c.at \in {"idle", "cascade"}
  /\ c.op \in {"unlock", "chain", "edit"} => ~c.blocked

TypeInv == TypeOK /\ \A l \in Lanes : Fits(lane[l])

-----------------------------------------------------------------------------
\* Types

\* A slot without a handler is well typed.
LEMMA IdleFits == NoTask \in Parent /\ Idle \in Lane /\ Fits(Idle) /\ Idle.at = "idle" /\ Idle.on = None
                  /\ ~Idle.alone
<1>1. NoTask \in Parent
  BY DEF NoTask, Parent, TaskStatus
<1> HIDE DEF NoTask
<1>2. Idle \in Lane
  BY <1>1 DEF Idle, Lane, Op
<1>3. QED
  BY <1>1, <1>2 DEF Idle, Fits

\* Noting an overlap changes nothing else of a handler.
LEMMA Noted ==
  ASSUME NEW c \in Lane, Fits(c), NEW x \in BOOLEAN, NEW d, d = [c EXCEPT !.alone = x]
  PROVE  /\ d \in Lane /\ Fits(d) /\ d.alone = x
         /\ \A f \in {"at", "op", "on", "linked", "blocked", "task", "todo"} : d[f] = c[f]
<1>1. /\ d \in Lane /\ d.alone = x
      /\ \A f \in {"at", "op", "on", "linked", "blocked", "task", "todo"} : d[f] = c[f]
  BY DEF Lane
<1>2. QED
  BY <1>1 DEF Fits

\* One handler moves on.
LEMMA OneLane ==
  ASSUME TypeInv, NEW l \in Lanes, NEW c \in Lane, Fits(c), to(l, c)
  PROVE  /\ (lane \in [Lanes -> Lane])' /\ \A k \in Lanes : Fits(lane'[k])
         /\ lane'[l] = c /\ \A k \in Lanes \ {l} : lane'[k] = lane[k]
BY DEF TypeInv, TypeOK, to

\* One handler starts.
LEMMA Begun ==
  ASSUME TypeInv, NEW l \in Lanes, NEW c \in Lane, Fits(c), begin(l, c)
  PROVE  /\ (lane \in [Lanes -> Lane])' /\ \A k \in Lanes : Fits(lane'[k])
         /\ (events \in 0..MaxEvents)' /\ (disturbed \subseteq Requests)' /\ (unsettled \in BOOLEAN)'
         /\ lane'[l].alone = (others(l) = {})
         /\ \A f \in {"at", "op", "on", "linked", "blocked", "task", "todo"} :
              lane'[l][f] = c[f] /\ \A k \in Lanes \ {l} : lane'[k][f] = lane[k][f]
         /\ \A k \in Lanes \ {l} : lane'[k].at # "idle" => ~lane'[k].alone
<1>1. /\ lane \in [Lanes -> Lane] /\ disturbed \subseteq Requests /\ unsettled \in BOOLEAN
      /\ events \in 0..MaxEvents /\ \A k \in Lanes : Fits(lane[k])
  BY DEF TypeInv, TypeOK
<1>2. lane' = [k \in Lanes |-> IF k = l THEN [c EXCEPT !.alone = (others(l) = {})]
                               ELSE IF idle(k) THEN lane[k] ELSE [lane[k] EXCEPT !.alone = FALSE]]
  BY DEF begin
<1>3. /\ lane'[l] = [c EXCEPT !.alone = (others(l) = {})]
      /\ \A k \in Lanes \ {l} :
           lane'[k] = IF idle(k) THEN lane[k] ELSE [lane[k] EXCEPT !.alone = FALSE]
  BY <1>2
<1>4. /\ lane'[l] \in Lane /\ Fits(lane'[l]) /\ lane'[l].alone = (others(l) = {})
      /\ \A f \in {"at", "op", "on", "linked", "blocked", "task", "todo"} : lane'[l][f] = c[f]
  <2> DEFINE x == others(l) = {}
  <2>1. x \in BOOLEAN
    OBVIOUS
  <2>2. lane'[l] = [c EXCEPT !.alone = x]
    BY <1>3
  <2> HIDE DEF x
  <2>3. lane'[l] \in Lane /\ Fits(lane'[l]) /\ lane'[l].alone = x
        /\ \A f \in {"at", "op", "on", "linked", "blocked", "task", "todo"} : lane'[l][f] = c[f]
    BY <2>1, <2>2, Noted
  <2>4. QED
    BY <2>3 DEF x
<1>5. ASSUME NEW k \in Lanes \ {l}
      PROVE  /\ lane'[k] \in Lane /\ Fits(lane'[k]) /\ (lane'[k].at # "idle" => ~lane'[k].alone)
             /\ \A f \in {"at", "op", "on", "linked", "blocked", "task", "todo"} :
                  lane'[k][f] = lane[k][f]
  <2>1. CASE idle(k)
    BY <1>1, <1>3, <2>1 DEF idle
  <2>2. CASE ~idle(k)
    <3>1. lane[k] \in Lane /\ Fits(lane[k]) /\ lane'[k] = [lane[k] EXCEPT !.alone = FALSE]
      BY <1>1, <1>3, <2>2
    <3>2. QED
      BY <3>1, Noted
  <2>3. QED
    BY <2>1, <2>2
<1>6. lane' \in [Lanes -> Lane]
  BY <1>2, <1>4, <1>5
<1>7. (events \in 0..MaxEvents)' /\ (disturbed \subseteq Requests)' /\ (unsettled \in BOOLEAN)'
  BY <1>1, TaskBlockingConstants DEF begin, spend
<1>8. QED
  BY <1>4, <1>5, <1>6, <1>7

\* What happens under the handlers leaves them where they are.
LEMMA Interfered ==
  ASSUME TypeInv, NEW u \in BOOLEAN, interfere(u)
  PROVE  /\ (lane \in [Lanes -> Lane])' /\ \A k \in Lanes : Fits(lane'[k])
         /\ (unsettled \in BOOLEAN)'
         /\ \A k \in Lanes : /\ lane'[k].at # "idle" => ~lane'[k].alone
                             /\ \A f \in {"at", "op", "on", "linked", "blocked", "task", "todo"} :
                                  lane'[k][f] = lane[k][f]
<1>1. lane \in [Lanes -> Lane] /\ unsettled \in BOOLEAN /\ \A k \in Lanes : Fits(lane[k])
  BY DEF TypeInv, TypeOK
<1>2. lane' = [k \in Lanes |-> IF idle(k) THEN lane[k] ELSE [lane[k] EXCEPT !.alone = FALSE]]
  BY DEF interfere
<1>3. ASSUME NEW k \in Lanes
      PROVE  /\ lane'[k] \in Lane /\ Fits(lane'[k]) /\ (lane'[k].at # "idle" => ~lane'[k].alone)
             /\ \A f \in {"at", "op", "on", "linked", "blocked", "task", "todo"} :
                  lane'[k][f] = lane[k][f]
  <2>1. CASE idle(k)
    BY <1>1, <1>2, <2>1 DEF idle
  <2>2. CASE ~idle(k)
    <3>1. lane[k] \in Lane /\ Fits(lane[k]) /\ lane'[k] = [lane[k] EXCEPT !.alone = FALSE]
      BY <1>1, <1>2, <2>2
    <3>2. QED
      BY <3>1, Noted
  <2>3. QED
    BY <2>1, <2>2
<1>4. lane' \in [Lanes -> Lane]
  BY <1>2, <1>3
<1>5. QED
  BY <1>1, <1>3, <1>4 DEF interfere


\* A request's handler starts with the row as it is.
LEMMA Loaded ==
  ASSUME TypeInv, NEW l \in Lanes, NEW r \in Requests, NEW op \in Recomputing, loadRequest(l, r, op)
  PROVE  /\ begin(l, [Idle EXCEPT !.at = "save", !.op = op, !.on = r, !.linked = request[r].linked])
         /\ [Idle EXCEPT !.at = "save", !.op = op, !.on = r, !.linked = request[r].linked] \in Lane
         /\ Fits([Idle EXCEPT !.at = "save", !.op = op, !.on = r, !.linked = request[r].linked])
         /\ (lane \in [Lanes -> Lane])' /\ \A k \in Lanes : Fits(lane'[k])
         /\ (events \in 0..MaxEvents)' /\ (disturbed \subseteq Requests)' /\ (unsettled \in BOOLEAN)'
         /\ lane'[l].at = "save" /\ lane'[l].op = op /\ lane'[l].on = r
         /\ lane'[l].linked = request[r].linked
<1> DEFINE c == [Idle EXCEPT !.at = "save", !.op = op, !.on = r, !.linked = request[r].linked]
<1>1. request[r].linked \in Nat /\ r # None /\ op \in Op
  BY TaskBlockingConstants DEF TypeInv, TypeOK, Request, Recomputing, Op
<1>2. /\ c \in Lane /\ c.at = "save" /\ c.op = op /\ c.on = r /\ c.linked = request[r].linked
  BY <1>1, IdleFits DEF Lane
<1>3. begin(l, c)
  BY DEF loadRequest
<1> HIDE DEF c
<1>4. Fits(c)
  BY <1>1, <1>2 DEF Fits, Recomputing, Advance
<1>5. /\ (lane \in [Lanes -> Lane])' /\ \A k \in Lanes : Fits(lane'[k])
      /\ (events \in 0..MaxEvents)' /\ (disturbed \subseteq Requests)' /\ (unsettled \in BOOLEAN)'
      /\ \A f \in {"at", "op", "on", "linked", "blocked", "task", "todo"} : lane'[l][f] = c[f]
  BY <1>2, <1>3, <1>4, Begun
<1>6. QED
  BY <1>2, <1>3, <1>4, <1>5 DEF c

\* Where a handler goes once the block state is up to date.
LEMMA AfterBlock ==
  ASSUME NEW c \in Lane, Fits(c), c.at \in {"task", "lock", "write"}, c.op # "edit",
         NEW d, d = afterBlockState(c)
  PROVE  /\ d \in Lane /\ Fits(d)
         /\ c.op \in Syncing => /\ d.at = "sync" /\ d.op = c.op /\ d.on = c.on
                                /\ d.linked = c.linked /\ d.alone = c.alone
         /\ c.op \notin Syncing => d = Idle
<1>1. CASE c.op \in Syncing
  <2>1. d = [c EXCEPT !.at = "sync", !.task = NoTask, !.blocked = FALSE]
    BY <1>1 DEF afterBlockState, Syncing
  <2>2. /\ d \in Lane /\ d.at = "sync" /\ d.op = c.op /\ d.on = c.on
        /\ d.linked = c.linked /\ d.alone = c.alone /\ d.blocked = FALSE
    BY <2>1, IdleFits DEF Lane
  <2>3. c.on \in Requests /\ c.on # None
    BY <1>1, TaskBlockingConstants DEF Fits, Syncing, Recomputing, Lane
  <2>4. QED
    BY <1>1, <2>2, <2>3 DEF Fits, Syncing, Advance, Recomputing
<1>2. CASE c.op \notin Syncing
  BY <1>2, IdleFits DEF afterBlockState, Syncing
<1>3. QED
  BY <1>1, <1>2

\* What a write of the task changes.
LEMMA Written ==
  ASSUME parent \in Parent, NEW c, NEW s \in TaskStatus, NEW f \in BOOLEAN,
         NEW v \in (TaskStatus \ {"stuck"}) \cup {None}, NEW p, p = written(c, s, f, v)
  PROVE  /\ p \in Parent /\ p.archived = parent.archived /\ p.flag = f /\ p.captured = v
         /\ p.status = IF s = c.task.status THEN parent.status ELSE s
<1> DEFINE x == IF s = c.task.status THEN parent.status ELSE s
<1>1. p = [parent EXCEPT !.status = x, !.flag = f, !.captured = v]
  BY DEF written
<1>2. x \in TaskStatus
  BY DEF Parent
<1> HIDE DEF x
<1>3. QED
  BY <1>1, <1>2 DEF Parent, x

\* Locking puts a task at stuck, whatever was loaded.
LEMMA Locked ==
  ASSUME parent \in Parent, NEW c \in Lane, NEW p, p = lockedParent(c)
  PROVE  /\ p \in Parent /\ p.archived = parent.archived /\ p.flag
         /\ p.status = IF c.task.status = "stuck" THEN parent.status ELSE "stuck"
<1>1. c.task \in Parent
  BY DEF Lane
<1> DEFINE v == IF c.task.captured = None /\ c.task.status # "stuck"
                THEN c.task.status ELSE c.task.captured
<1>2. v \in (TaskStatus \ {"stuck"}) \cup {None} /\ "stuck" \in TaskStatus
  BY <1>1 DEF Parent, TaskStatus
<1> DEFINE x == IF c.task.status = "stuck" THEN parent.status ELSE "stuck"
<1>3. p = [parent EXCEPT !.status = x, !.flag = TRUE, !.captured = v]
  BY DEF lockedParent, written
<1>4. x \in TaskStatus
  BY <1>2 DEF Parent
<1> HIDE DEF v, x
<1>5. QED
  BY <1>2, <1>3, <1>4 DEF Parent, x

\* Unlocking takes the flag away, and the status only from stuck.
LEMMA Unlocked ==
  ASSUME parent \in Parent, NEW c \in Lane, NEW p, p = unblockedParent(c)
  PROVE  /\ p \in Parent /\ p.archived = parent.archived /\ ~p.flag
         /\ c.task.status # "stuck" => p.status = parent.status
<1>1. c.task \in Parent /\ c.task.status \in TaskStatus
      /\ c.task.captured \in (TaskStatus \ {"stuck"}) \cup {None}
  BY DEF Lane, Parent
<1> DEFINE f == FALSE
<1>2. CASE c.op = "unlock" \/ (c.op # "chain" /\ c.task.status = "done")
  <2> DEFINE s == c.task.status  v == c.task.captured
  <2>1. p = written(c, s, f, v) /\ f \in BOOLEAN /\ ~f
    BY <1>2 DEF unblockedParent
  <2>2. s \in TaskStatus /\ v \in (TaskStatus \ {"stuck"}) \cup {None}
    BY <1>1
  <2> HIDE DEF f, s, v
  <2>3. /\ p \in Parent /\ p.archived = parent.archived /\ p.flag = f
        /\ p.status = IF s = c.task.status THEN parent.status ELSE s
    BY <2>1, <2>2, Written
  <2>4. QED
    BY <2>1, <2>3 DEF s
<1>3. CASE ~(c.op = "unlock" \/ (c.op # "chain" /\ c.task.status = "done"))
  <2> DEFINE s == IF c.task.status # "stuck" THEN c.task.status
                  ELSE IF c.task.captured = None THEN "not_started" ELSE c.task.captured
  <2>1. p = written(c, s, f, None) /\ f \in BOOLEAN /\ ~f
    BY <1>3 DEF unblockedParent, buildUnblockUpdates
  <2>2. s \in TaskStatus /\ None \in (TaskStatus \ {"stuck"}) \cup {None}
    BY <1>1 DEF TaskStatus
  <2>3. c.task.status # "stuck" => s = c.task.status
    OBVIOUS
  <2> HIDE DEF s, f
  <2>4. QED
    BY <2>1, <2>2, <2>3, Written
<1>4. QED
  BY <1>2, <1>3

\* A handler of a request that starts keeps the types.
LEMMA RequestTypes ==
  ASSUME TypeInv, NEW l \in Lanes, NEW r \in Requests,
         \/ \E s \in Advance : updateStatus(l, r, s)
         \/ cancelDependency(l, r) \/ archiveDependency(l, r) \/ createDependencyRequest(l, r)
  PROVE  TypeInv'
<1>1. PICK op \in Recomputing : loadRequest(l, r, op)
  BY DEF updateStatus, cancelDependency, archiveDependency, createDependencyRequest, Recomputing
<1>2. UNCHANGED <<parent, request, shadow, link, open, before>>
  BY DEF updateStatus, cancelDependency, archiveDependency, createDependencyRequest
<1>3. /\ (lane \in [Lanes -> Lane])' /\ \A k \in Lanes : Fits(lane'[k])
      /\ (events \in 0..MaxEvents)' /\ (disturbed \subseteq Requests)' /\ (unsettled \in BOOLEAN)'
  BY <1>1, Loaded
<1>4. QED
  BY <1>2, <1>3 DEF TypeInv, TypeOK

\* Writing a request or its shadow keeps the types.
LEMMA SaveTypes ==
  ASSUME TypeInv, NEW l \in Lanes,
         save(l) \/ syncLinkedTaskFromDependency(l) \/ cascadeCancel(l) \/ crash(l)
  PROVE  TypeInv'
<1>1. /\ TypeOK /\ lane \in [Lanes -> Lane] /\ lane[l] \in Lane /\ Fits(lane[l])
      /\ request \in [Requests -> Request] /\ shadow \in [Requests -> Seq(Shadow)]
  BY DEF TypeInv, TypeOK
<1>2. CASE save(l)
  <2> DEFINE c == lane[l]
             row == CASE c.op = "create" -> [request[c.on] EXCEPT !.status = "pending"]
                      [] c.op = "archive" -> [request[c.on] EXCEPT !.archived = TRUE]
                      [] OTHER -> [request[c.on] EXCEPT !.status = c.op]
  <2>1. /\ c.at = "save" /\ request' = [request EXCEPT ![c.on] = row]
        /\ to(l, [c EXCEPT !.at = "blocked"])
        /\ UNCHANGED <<parent, shadow, link, open, events, disturbed, unsettled, before>>
    BY <1>2 DEF save, at
  <2>2. c.on \in Requests /\ c.op \in Recomputing /\ c.on # None
    BY <1>1, <2>1, TaskBlockingConstants DEF Fits
  <2>3. row \in Request
    <3>1. request[c.on] \in Request
      BY <1>1, <2>2
    <3>2. CASE c.op = "create"
      BY <3>1, <3>2 DEF Request, Blocking
    <3>3. CASE c.op = "archive"
      BY <3>1, <3>3 DEF Request
    <3>4. CASE c.op \notin {"create", "archive"}
      <4>1. c.op \in Blocking \cup Closed \cup {None}
        BY <2>2, <3>4 DEF Recomputing, Advance, Blocking, Closed
      <4>2. QED
        BY <3>1, <3>4, <4>1 DEF Request
    <3>5. QED
      BY <3>2, <3>3, <3>4
  <2> HIDE DEF row
  <2>4. request' \in [Requests -> Request]
    BY <1>1, <2>1, <2>2, <2>3
  <2>5. [c EXCEPT !.at = "blocked"] \in Lane /\ Fits([c EXCEPT !.at = "blocked"])
    BY <1>1, <2>2 DEF Lane, Fits, Recomputing, Advance
  <2>6. QED
    BY <1>1, <2>1, <2>4, <2>5, OneLane DEF TypeInv, TypeOK
<1>3. CASE syncLinkedTaskFromDependency(l)
  <2> DEFINE c == lane[l]
  <2>1. /\ c.at = "sync" /\ to(l, Idle)
        /\ UNCHANGED <<parent, link, open, events, disturbed, unsettled, before>>
    BY <1>3 DEF syncLinkedTaskFromDependency, at, finish
  <2>2. c.on \in Requests /\ c.op \in Syncing /\ c.linked \in Nat
    BY <1>1, <2>1 DEF Fits, Lane
  <2>3. /\ (lane \in [Lanes -> Lane])' /\ \A k \in Lanes : Fits(lane'[k])
    BY <2>1, IdleFits, OneLane
  <2>4. request' \in [Requests -> Request] /\ shadow' \in [Requests -> Seq(Shadow)]
    <3>1. CASE syncExistingLinkedTask(c.on, c.linked, c.op)
      <4> DEFINE i == c.linked  old == shadow[c.on]
                 new == IF c.op \in Withdrawn
                        THEN [old[i] EXCEPT !.archived = TRUE, !.byUser = old[i].byUser \ {"archived"}]
                        ELSE IF c.op = "accepted" \/ (c.op = "working_on_it" /\ old[i].status = "done")
                             THEN old[i]
                             ELSE [old[i] EXCEPT !.status = c.op, !.byUser = old[i].byUser \ {"status"}]
      <4>1. shadow' = [shadow EXCEPT ![c.on] = [old EXCEPT ![i] = new]] /\ request' = request
        BY <1>1, <2>2, <3>1 DEF syncExistingLinkedTask
      <4>2. old \in Seq(Shadow)
        BY <1>1, <2>2
      <4>3. i \in DOMAIN old => new \in Shadow
        <5>1. ASSUME i \in DOMAIN old PROVE old[i] \in Shadow
          BY <4>2, <5>1
        <5>2. CASE c.op \in Withdrawn
          BY <5>1, <5>2 DEF Shadow
        <5>3. CASE c.op \notin Withdrawn
          <6>1. c.op \in {"accepted", "working_on_it", "done"}
            BY <2>2, <5>3 DEF Syncing, Advance, Withdrawn
          <6>2. QED
            BY <5>1, <5>3, <6>1 DEF Shadow, TaskStatus
        <5>4. QED
          BY <5>2, <5>3
      <4> HIDE DEF new, i, old
      <4>4. [old EXCEPT ![i] = new] \in Seq(Shadow)
        <5> DEFINE n == Len(old)
        <5>1. n \in Nat /\ old \in [1..n -> Shadow]
          BY <4>2
        <5> HIDE DEF n
        <5>2. [old EXCEPT ![i] = new] \in [1..n -> Shadow]
          BY <4>3, <5>1
        <5>3. QED
          BY <5>1, <5>2
      <4>5. QED
        BY <1>1, <2>2, <4>1, <4>4
    <3>2. CASE c.op \notin Withdrawn /\ materializeDependencyTask(c.on, c.op)
      <4> DEFINE task == newTask(c.op)
                 n == Len(shadow[c.on]) + 1
      <4>1. /\ shadow' = [shadow EXCEPT ![c.on] = Append(shadow[c.on], task)]
            /\ request' = [request EXCEPT ![c.on] = [request[c.on] EXCEPT !.linked = n]]
        BY <1>1, <2>2, <3>2 DEF materializeDependencyTask
      <4>2. c.op \in {"accepted", "working_on_it", "done"}
        BY <2>2, <3>2 DEF Syncing, Advance, Withdrawn
      <4>3. task \in Shadow
        BY <4>2 DEF Shadow, TaskStatus, newTask, depStatusToTaskStatus
      <4>4. shadow[c.on] \in Seq(Shadow) /\ request[c.on] \in Request /\ n \in Nat
        BY <1>1, <2>2
      <4> HIDE DEF task, n
      <4>5. Append(shadow[c.on], task) \in Seq(Shadow) /\ [request[c.on] EXCEPT !.linked = n] \in Request
        BY <4>3, <4>4 DEF Request
      <4>6. QED
        BY <1>1, <2>2, <4>1, <4>5
    <3>3. QED
      BY <1>1, <1>3, <3>1, <3>2 DEF syncLinkedTaskFromDependency
  <2>5. QED
    BY <1>1, <2>1, <2>3, <2>4 DEF TypeInv, TypeOK
<1>4. CASE cascadeCancel(l)
  <2> DEFINE c == lane[l]
  <2>1. c.at = "cascade" /\ UNCHANGED <<parent, shadow, link, open, events, before>>
    BY <1>4 DEF cascadeCancel, at
  <2>2. CASE finish(l) /\ UNCHANGED <<request, disturbed, unsettled>>
    BY <1>1, <2>1, <2>2, IdleFits, OneLane DEF finish, TypeInv, TypeOK
  <2>3. ASSUME NEW r \in c.todo, request' = [request EXCEPT ![r].status = "cancelled"],
               disturbed' = disturbed \cup {r}, unsettled' = TRUE, to(l, [c EXCEPT !.todo = @ \ {r}])
        PROVE  TypeInv'
    <3>1. r \in Requests
      BY <1>1 DEF Lane
    <3>2. request' \in [Requests -> Request]
      BY <1>1, <2>3, <3>1 DEF Request, Closed
    <3> DEFINE rest == c.todo \ {r}
               d == [c EXCEPT !.todo = rest]
    <3>3. d \in Lane /\ Fits(d)
      <4>1. c \in Lane /\ Fits(c) /\ rest \in SUBSET Requests
        BY <1>1 DEF Lane
      <4> HIDE DEF rest
      <4>2. d \in Lane
        BY <4>1 DEF Lane
      <4>3. \A f \in DOMAIN c \ {"todo"} : d[f] = c[f]
        OBVIOUS
      <4>4. Fits(d)
        BY <4>1, <4>3 DEF Lane, Fits
      <4>5. QED
        BY <4>2, <4>4
    <3>4. QED
      BY <1>1, <2>1, <2>3, <3>1, <3>2, <3>3, OneLane DEF TypeInv, TypeOK
  <2>4. QED
    BY <1>4, <2>2, <2>3 DEF cascadeCancel
<1>5. CASE crash(l)
  <2>1. (lane \in [Lanes -> Lane])' /\ \A k \in Lanes : Fits(lane'[k])
    BY <1>5, IdleFits, OneLane DEF crash, finish
  <2>2. (events \in 0..MaxEvents)' /\ (disturbed \subseteq Requests)' /\ (unsettled \in BOOLEAN)'
    BY <1>1, <1>5, TaskBlockingConstants DEF crash, spend, TypeOK
  <2>3. QED
    BY <1>1, <1>5, <2>1, <2>2 DEF crash, TypeInv, TypeOK
<1>6. QED
  BY <1>2, <1>3, <1>4, <1>5

\* How a handler moves through the recomputation: to the next statement, or out of it.
BlockMove(l, d) ==
  LET c == lane[l] IN
  \/ /\ d \in Lane /\ Fits(d)
     /\ d.op = c.op /\ d.on = c.on /\ d.linked = c.linked /\ d.alone = c.alone
     /\ \/ c.at = "blocked" /\ d.at = "task" /\ c.op # "chain" /\ d.blocked = isTaskBlocked
        \/ c.at = "blocked" /\ d.at = "write" /\ c.op = "chain" /\ ~isTaskBlocked /\ d.task = c.task
        \/ c.at = "task" /\ d.at = "lock" /\ c.blocked /\ ~parent.flag
        \/ c.at = "task" /\ d.at = "write" /\ ~c.blocked /\ parent.flag /\ d.task = parent /\ ~d.blocked
        \/ c.at = "lock" /\ d.at = "write" /\ d.task = parent /\ d.blocked /\ parent.status # "done"
  \/ /\ d = Idle /\ c.at = "blocked" /\ c.op \in {"chain", "unlock"} /\ isTaskBlocked
  \/ /\ d = afterBlockState(c)
     /\ \/ c.at = "task" /\ c.blocked = parent.flag
        \/ c.at = "lock" /\ parent.status = "done"

\* The statements that read make such a move.
LEMMA BlockMoves ==
  ASSUME TypeInv, NEW l \in Lanes, readBlocked(l) \/ loadTask(l) \/ lockTaskAsDependencyBlocked(l)
  PROVE  /\ \E d : BlockMove(l, d) /\ to(l, d)
         /\ UNCHANGED <<parent, request, shadow, link, open, events, disturbed, before>>
<1>1. lane[l] \in Lane /\ Fits(lane[l]) /\ parent \in Parent
  BY DEF TypeInv, TypeOK
<1> DEFINE c == lane[l]  b == isTaskBlocked
<1>2. isTaskBlocked \in BOOLEAN
  BY DEF isTaskBlocked
<1>3. CASE readBlocked(l)
  <2>1. c.at = "blocked"
    BY <1>3 DEF readBlocked, at
  <2>2. CASE isTaskBlocked /\ c.op \in {"chain", "unlock"} /\ to(l, Idle)
    BY <1>3, <2>1, <2>2 DEF BlockMove, readBlocked
  <2>3. CASE ~isTaskBlocked /\ c.op = "chain" /\ to(l, [c EXCEPT !.at = "write"])
    <3> DEFINE d == [c EXCEPT !.at = "write"]
    <3>1. /\ d \in Lane /\ d.at = "write" /\ d.op = c.op /\ d.on = c.on /\ d.linked = c.linked
          /\ d.alone = c.alone /\ d.task = c.task /\ d.blocked = c.blocked
      BY <1>1 DEF Lane
    <3> HIDE DEF d
    <3>2. Fits(d)
      BY <1>1, <2>1, <2>3, <3>1 DEF Fits
    <3>3. BlockMove(l, d)
      BY <2>1, <2>3, <3>1, <3>2 DEF BlockMove
    <3>4. QED
      BY <1>3, <2>3, <3>3 DEF readBlocked, d
  <2>4. CASE ~isTaskBlocked /\ c.op = "unlock" /\ to(l, [c EXCEPT !.at = "task"])
    <3> DEFINE d == [c EXCEPT !.at = "task"]
    <3>1. /\ d \in Lane /\ d.at = "task" /\ d.op = c.op /\ d.on = c.on /\ d.linked = c.linked
          /\ d.alone = c.alone /\ d.blocked = c.blocked /\ c.blocked \in BOOLEAN
      BY <1>1 DEF Lane
    <3> HIDE DEF d
    <3>2. Fits(d) /\ ~c.blocked
      BY <1>1, <2>1, <2>4, <3>1 DEF Fits
    <3>3. d.blocked = isTaskBlocked
      BY <1>2, <2>4, <3>1, <3>2
    <3>4. BlockMove(l, d)
      BY <2>1, <2>4, <3>1, <3>2, <3>3 DEF BlockMove
    <3>5. QED
      BY <1>3, <2>4, <3>4 DEF readBlocked, d
  <2>5. CASE c.op \notin {"chain", "unlock"} /\ to(l, [c EXCEPT !.at = "task", !.blocked = b])
    <3> DEFINE d == [c EXCEPT !.at = "task", !.blocked = b]
    <3>1. /\ d \in Lane /\ d.at = "task" /\ d.op = c.op /\ d.on = c.on /\ d.linked = c.linked
          /\ d.alone = c.alone /\ d.blocked = b
      BY <1>1, <1>2 DEF Lane
    <3> HIDE DEF d
    <3>2. Fits(d)
      BY <1>1, <2>1, <2>5, <3>1 DEF Fits
    <3>3. BlockMove(l, d)
      BY <2>1, <2>5, <3>1, <3>2 DEF BlockMove
    <3>4. QED
      BY <1>3, <2>5, <3>3 DEF readBlocked, d
  <2>6. QED
    BY <1>3, <2>2, <2>3, <2>4, <2>5 DEF readBlocked
<1>4. CASE loadTask(l)
  <2>1. c.at = "task"
    BY <1>4 DEF loadTask, at
  <2>2. CASE c.blocked /\ ~parent.flag /\ to(l, [c EXCEPT !.at = "lock"])
    <3> DEFINE d == [c EXCEPT !.at = "lock"]
    <3>1. /\ d \in Lane /\ d.at = "lock" /\ d.op = c.op /\ d.on = c.on /\ d.linked = c.linked
          /\ d.alone = c.alone /\ d.blocked = c.blocked
      BY <1>1 DEF Lane
    <3> HIDE DEF d
    <3>2. Fits(d)
      BY <1>1, <2>1, <2>2, <3>1 DEF Fits
    <3>3. BlockMove(l, d)
      BY <2>1, <2>2, <3>1, <3>2 DEF BlockMove
    <3>4. QED
      BY <1>4, <2>2, <3>3 DEF loadTask, d
  <2>3. CASE ~c.blocked /\ parent.flag /\ to(l, [c EXCEPT !.at = "write", !.task = parent])
    <3> DEFINE d == [c EXCEPT !.at = "write", !.task = parent]
    <3>1. /\ d \in Lane /\ d.at = "write" /\ d.op = c.op /\ d.on = c.on /\ d.linked = c.linked
          /\ d.alone = c.alone /\ d.task = parent /\ d.blocked = c.blocked
      BY <1>1 DEF Lane
    <3> HIDE DEF d
    <3>2. Fits(d)
      BY <1>1, <2>1, <3>1 DEF Fits
    <3>3. BlockMove(l, d)
      BY <2>1, <2>3, <3>1, <3>2 DEF BlockMove
    <3>4. QED
      BY <1>4, <2>3, <3>3 DEF loadTask, d
  <2>4. CASE c.blocked = parent.flag /\ to(l, afterBlockState(c))
    BY <1>4, <2>1, <2>4 DEF BlockMove, loadTask
  <2>5. QED
    BY <1>4, <2>2, <2>3, <2>4 DEF loadTask
<1>5. CASE lockTaskAsDependencyBlocked(l)
  <2>1. c.at = "lock"
    BY <1>5 DEF lockTaskAsDependencyBlocked, at
  <2>2. CASE parent.status = "done" /\ to(l, afterBlockState(c))
    BY <1>5, <2>1, <2>2 DEF BlockMove, lockTaskAsDependencyBlocked
  <2>3. CASE parent.status # "done" /\ to(l, [c EXCEPT !.at = "write", !.blocked = TRUE, !.task = parent])
    <3> DEFINE d == [c EXCEPT !.at = "write", !.blocked = TRUE, !.task = parent]
    <3>1. /\ d \in Lane /\ d.at = "write" /\ d.op = c.op /\ d.on = c.on /\ d.linked = c.linked
          /\ d.alone = c.alone /\ d.task = parent /\ d.blocked
      BY <1>1 DEF Lane
    <3> HIDE DEF d
    <3>2. Fits(d)
      BY <1>1, <2>1, <3>1 DEF Fits
    <3>3. BlockMove(l, d)
      BY <2>1, <2>3, <3>1, <3>2 DEF BlockMove
    <3>4. QED
      BY <1>5, <2>3, <3>3 DEF lockTaskAsDependencyBlocked, d
  <2>4. QED
    BY <1>5, <2>2, <2>3 DEF lockTaskAsDependencyBlocked
<1>6. QED
  BY <1>3, <1>4, <1>5

\* The recomputation keeps the types.
LEMMA BlockTypes ==
  ASSUME TypeInv, NEW l \in Lanes,
         \/ readBlocked(l) \/ loadTask(l) \/ lockTaskAsDependencyBlocked(l)
         \/ writeTask(l) \/ writeStatus(l)
  PROVE  TypeInv'
<1>1. lane[l] \in Lane /\ Fits(lane[l]) /\ parent \in Parent /\ TypeOK
  BY DEF TypeInv, TypeOK
<1>2. CASE readBlocked(l) \/ loadTask(l) \/ lockTaskAsDependencyBlocked(l)
  <2>1. PICK d : BlockMove(l, d) /\ to(l, d)
    BY <1>2, BlockMoves
  <2>2. d \in Lane /\ Fits(d)
    <3>1. CASE d = afterBlockState(lane[l]) /\ lane[l].at \in {"task", "lock"}
      <4>1. lane[l].op # "edit"
        BY <1>1, <3>1 DEF Fits
      <4>2. QED
        BY <1>1, <3>1, <4>1, AfterBlock
    <3>2. QED
      BY <2>1, <3>1, IdleFits DEF BlockMove
  <2>3. (lane \in [Lanes -> Lane])' /\ \A k \in Lanes : Fits(lane'[k])
    BY <2>1, <2>2, OneLane
  <2>4. UNCHANGED <<parent, request, shadow, link, open, events, disturbed, before>>
    BY <1>2, BlockMoves
  <2>5. unsettled' \in BOOLEAN
    BY <1>1, <1>2 DEF readBlocked, loadTask, lockTaskAsDependencyBlocked, settled, TypeOK
  <2>6. QED
    BY <1>1, <2>3, <2>4, <2>5 DEF TypeInv, TypeOK
<1>3. CASE writeTask(l)
  <2> DEFINE c == lane[l]
  <2>1. /\ c.at = "write" /\ c.op # "edit" /\ to(l, afterBlockState(c)) /\ settled(l)
        /\ parent' = (IF c.blocked THEN lockedParent(c) ELSE unblockedParent(c))
        /\ UNCHANGED <<request, shadow, link, open, events, disturbed>>
    BY <1>3 DEF writeTask, at
  <2>2. parent' \in Parent
    BY <1>1, <2>1, Locked, Unlocked
  <2>3. (lane \in [Lanes -> Lane])' /\ \A k \in Lanes : Fits(lane'[k])
    BY <1>1, <2>1, AfterBlock, OneLane
  <2>4. before' \in TaskStatus \cup {None} /\ unsettled' \in BOOLEAN
    BY <1>1, <1>3 DEF writeTask, settled, TypeOK, Parent
  <2>5. QED
    BY <1>1, <2>1, <2>2, <2>3, <2>4 DEF TypeInv, TypeOK
<1>4. CASE writeStatus(l)
  <2>1. parent' \in Parent
    BY <1>1, <1>4 DEF writeStatus, Parent, Lane
  <2>2. (lane \in [Lanes -> Lane])' /\ \A k \in Lanes : Fits(lane'[k])
    BY <1>4, IdleFits, OneLane DEF writeStatus, finish
  <2>3. QED
    BY <1>1, <1>4, <2>1, <2>2 DEF TypeInv, TypeOK, writeStatus
<1>5. QED
  BY <1>2, <1>3, <1>4

\* What a link's handler and an edit start with.
Starting(a, op, copy) == [Idle EXCEPT !.at = a, !.op = op, !.task = copy]

\* It is well typed, and on no request.
LEMMA StartingFits ==
  ASSUME NEW copy \in Parent, NEW op, NEW a,
         \/ op = "lock" /\ a = "lock"
         \/ op = "unlock" /\ a = "blocked"
         \/ op = "chain" /\ a = "blocked"
         \/ op = "edit" /\ a = "write",
         NEW c, c = Starting(a, op, copy)
  PROVE  /\ c \in Lane /\ Fits(c) /\ c.at = a /\ c.op = op /\ c.task = copy /\ c.on = None
         /\ ~c.blocked
<1>1. op \in Op /\ a \in {"idle", "save", "blocked", "task", "lock", "write", "sync", "cascade"}
  BY DEF Op
<1>2. c \in Lane /\ c.at = a /\ c.op = op /\ c.task = copy /\ c.on = None /\ c.blocked = Idle.blocked
  BY <1>1, IdleFits DEF Lane, Starting
<1>3. ~Idle.blocked
  BY DEF Idle
<1>4. Fits(c)
  BY <1>2, <1>3 DEF Fits, Recomputing, Advance
<1>5. QED
  BY <1>2, <1>3, <1>4

\* The task link and its blocker keep the types.
LEMMA LinkTypes ==
  ASSUME TypeInv,
         \/ \E l \in Lanes : \/ createDependency(l)
                             \/ \E s \in {"none", "archived"} : removeDependency(l, s)
                             \/ processTaskCompletion(l)
         \/ completeBlocker \/ reopenBlocker
  PROVE  TypeInv'
<1>1. TypeOK /\ parent \in Parent
  BY DEF TypeInv, TypeOK
<1>2. ASSUME NEW u \in BOOLEAN, spend, interfere(u), link' \in {"none", "active", "archived"},
             open' \in BOOLEAN, UNCHANGED <<parent, request, shadow, disturbed, before>>
      PROVE  TypeInv'
  <2>1. (lane \in [Lanes -> Lane])' /\ (\A k \in Lanes : Fits(lane'[k])) /\ (unsettled \in BOOLEAN)'
    BY <1>2, Interfered
  <2>2. (events \in 0..MaxEvents)'
    BY <1>1, <1>2, TaskBlockingConstants DEF spend, TypeOK
  <2>3. QED
    BY <1>1, <1>2, <2>1, <2>2 DEF TypeInv, TypeOK
<1>3. ASSUME NEW l \in Lanes, NEW copy \in Parent, NEW op, NEW a,
             \/ op = "lock" /\ a = "lock"
             \/ op = "unlock" /\ a = "blocked"
             \/ op = "chain" /\ a = "blocked",
             linkOp(l, op, copy, a), link' \in {"none", "active", "archived"}, open' \in BOOLEAN
      PROVE  TypeInv'
  <2>1. begin(l, Starting(a, op, copy)) /\ UNCHANGED <<parent, request, shadow, before>>
    BY <1>3 DEF linkOp, Starting
  <2>2. Starting(a, op, copy) \in Lane /\ Fits(Starting(a, op, copy))
    BY <1>3, StartingFits
  <2>3. /\ (lane \in [Lanes -> Lane])' /\ \A k \in Lanes : Fits(lane'[k])
        /\ (events \in 0..MaxEvents)' /\ (disturbed \subseteq Requests)' /\ (unsettled \in BOOLEAN)'
    BY <2>1, <2>2, Begun
  <2>4. QED
    BY <1>1, <1>3, <2>1, <2>3 DEF TypeInv, TypeOK
<1>4. ASSUME NEW l \in Lanes, createDependency(l) PROVE TypeInv'
  <2>1. link' = "active" /\ open' = open /\ open \in BOOLEAN
    BY <1>1, <1>4 DEF createDependency, TypeOK
  <2>2. CASE linkOp(l, "lock", NoTask, "lock")
    BY <1>3, <2>1, <2>2, IdleFits
  <2>3. CASE spend /\ interfere(FALSE) /\ UNCHANGED <<parent, request, shadow, disturbed, before>>
    BY <1>2, <2>1, <2>3
  <2>4. QED
    BY <1>4, <2>2, <2>3 DEF createDependency
<1>5. ASSUME NEW l \in Lanes, NEW s \in {"none", "archived"}, removeDependency(l, s) PROVE TypeInv'
  <2>1. link' = s /\ open' = open /\ open \in BOOLEAN /\ linkOp(l, "unlock", NoTask, "blocked")
    BY <1>1, <1>5 DEF removeDependency, TypeOK
  <2>2. QED
    BY <1>3, <2>1, IdleFits
<1>6. ASSUME NEW l \in Lanes, processTaskCompletion(l) PROVE TypeInv'
  <2>1. open' = FALSE /\ link' = link /\ link \in {"none", "active", "archived"}
        /\ linkOp(l, "chain", [NoTask EXCEPT !.status = parent.status], "blocked")
    BY <1>1, <1>6 DEF processTaskCompletion, TypeOK
  <2>2. [NoTask EXCEPT !.status = parent.status] \in Parent
    BY <1>1, IdleFits DEF Parent
  <2>3. QED
    BY <1>3, <2>1, <2>2
<1>7. ASSUME reopenBlocker PROVE TypeInv'
  <2>1. /\ open' = TRUE /\ link' = link /\ link \in {"none", "active", "archived"} /\ spend
        /\ interfere(link = "active") /\ UNCHANGED <<parent, request, shadow, disturbed, before>>
    BY <1>1, <1>7 DEF reopenBlocker, TypeOK
  <2>2. QED
    BY <1>2, <2>1
<1>8. ASSUME completeBlocker PROVE TypeInv'
  <2> DEFINE u == link = "active" /\ parent.flag
  <2>1. /\ open' = FALSE /\ link' = link /\ link \in {"none", "active", "archived"} /\ spend
        /\ interfere(u) /\ UNCHANGED <<parent, request, shadow, disturbed, before>>
    BY <1>1, <1>8 DEF completeBlocker, TypeOK
  <2>2. u \in BOOLEAN
    BY <1>1 DEF Parent
  <2> HIDE DEF u
  <2>3. QED
    BY <1>2, <2>1, <2>2
<1>9. QED
  BY <1>4, <1>5, <1>6, <1>7, <1>8

\* Edits of the task itself keep the types.
LEMMA TaskTypes ==
  ASSUME TypeInv,
         \/ \E l \in Lanes : (\E s \in TaskStatus : updateTask(l, s)) \/ archiveParent(l)
         \/ \E s \in TaskStatus : writeStatusUnasked(s)
         \/ updateCustomFields \/ restoreParent \/ archiveOnly
  PROVE  TypeInv'
<1>1. TypeOK /\ parent \in Parent
  BY DEF TypeInv, TypeOK
<1>2. ASSUME NEW l \in Lanes, NEW s \in TaskStatus, updateTask(l, s) PROVE TypeInv'
  <2> DEFINE copy == [NoTask EXCEPT !.status = s]
  <2>1. copy \in Parent
    BY IdleFits DEF Parent
  <2>2. begin(l, Starting("write", "edit", copy))
        /\ UNCHANGED <<parent, request, shadow, link, open, before>>
    BY <1>2 DEF updateTask, Starting
  <2> HIDE DEF copy
  <2>3. Starting("write", "edit", copy) \in Lane /\ Fits(Starting("write", "edit", copy))
    BY <2>1, StartingFits
  <2>4. /\ (lane \in [Lanes -> Lane])' /\ \A k \in Lanes : Fits(lane'[k])
        /\ (events \in 0..MaxEvents)' /\ (disturbed \subseteq Requests)' /\ (unsettled \in BOOLEAN)'
    BY <2>2, <2>3, Begun
  <2>5. QED
    BY <1>1, <2>2, <2>4 DEF TypeInv, TypeOK
<1>3. ASSUME NEW l \in Lanes, archiveParent(l) PROVE TypeInv'
  <2> DEFINE todo == {r \in Requests : blocking(r)}
             c == [Idle EXCEPT !.at = "cascade", !.op = "cascade", !.todo = todo]
  <2>1. begin(l, c) /\ UNCHANGED <<request, shadow, link, open, before>>
    BY <1>3 DEF archiveParent
  <2>2. c \in Lane /\ c.at = "cascade" /\ c.op = "cascade" /\ c.on = None
    BY IdleFits DEF Lane, Op
  <2> HIDE DEF c
  <2>3. Fits(c)
    BY <2>2 DEF Fits, Recomputing, Advance
  <2>4. /\ (lane \in [Lanes -> Lane])' /\ \A k \in Lanes : Fits(lane'[k])
        /\ (events \in 0..MaxEvents)' /\ (disturbed \subseteq Requests)' /\ (unsettled \in BOOLEAN)'
    BY <2>1, <2>2, <2>3, Begun
  <2>5. parent' \in Parent
    BY <1>1, <1>3 DEF archiveParent, Parent
  <2>6. QED
    BY <1>1, <2>1, <2>4, <2>5 DEF TypeInv, TypeOK
<1>4. ASSUME NEW u \in BOOLEAN, interfere(u), spend, parent' \in Parent,
             UNCHANGED <<request, shadow, link, open, disturbed, before>>
      PROVE  TypeInv'
  <2>1. (lane \in [Lanes -> Lane])' /\ (\A k \in Lanes : Fits(lane'[k])) /\ (unsettled \in BOOLEAN)'
    BY <1>4, Interfered
  <2>2. (events \in 0..MaxEvents)'
    BY <1>1, <1>4, TaskBlockingConstants DEF spend, TypeOK
  <2>3. QED
    BY <1>1, <1>4, <2>1, <2>2 DEF TypeInv, TypeOK
<1>5. ASSUME NEW s \in TaskStatus, writeStatusUnasked(s) PROVE TypeInv'
  <2> DEFINE u == parent.status = "done"
  <2>1. /\ interfere(u) /\ spend /\ parent' = [parent EXCEPT !.status = s]
        /\ UNCHANGED <<request, shadow, link, open, disturbed, before>>
    BY <1>5 DEF writeStatusUnasked
  <2>2. parent' \in Parent /\ u \in BOOLEAN
    BY <1>1, <2>1 DEF Parent
  <2> HIDE DEF u
  <2>3. QED
    BY <1>4, <2>1, <2>2
<1>6. ASSUME updateCustomFields PROVE TypeInv'
  <2>1. /\ interfere(parent.flag) /\ spend
        /\ parent' = [parent EXCEPT !.flag = FALSE, !.captured = None]
        /\ UNCHANGED <<request, shadow, link, open, disturbed, before>>
    BY <1>6 DEF updateCustomFields
  <2>2. parent' \in Parent /\ parent.flag \in BOOLEAN
    BY <1>1, <2>1 DEF Parent
  <2>3. QED
    BY <1>4, <2>1, <2>2
<1>7. ASSUME restoreParent \/ archiveOnly PROVE TypeInv'
  <2>1. parent' \in Parent
    BY <1>1, <1>7 DEF restoreParent, archiveOnly, Parent
  <2>2. QED
    BY <1>1, <1>7, <2>1, TaskBlockingConstants
    DEF TypeInv, TypeOK, restoreParent, archiveOnly, spend
<1>8. QED
  BY <1>2, <1>3, <1>5, <1>6, <1>7

\* A user's hand on a shadow changes one column and notes it.
LEMMA Edited ==
  ASSUME TypeInv, NEW r \in Requests, NEW i \in DOMAIN shadow[r], editShadow(r, i)
  PROVE  /\ shadow' \in [Requests -> Seq(Shadow)] /\ \A x \in Requests \ {r} : shadow'[x] = shadow[x]
         /\ Len(shadow'[r]) = Len(shadow[r])
         /\ LET old == shadow[r][i]  new == shadow'[r][i] IN
              /\ \/ "status" \in new.byUser /\ new.archived = old.archived
                    /\ ("archived" \in new.byUser <=> "archived" \in old.byUser)
                 \/ "archived" \in new.byUser /\ new.status = old.status
                    /\ ("status" \in new.byUser <=> "status" \in old.byUser)
         /\ (events \in 0..MaxEvents)'
         /\ UNCHANGED <<parent, request, link, open, lane, disturbed, unsettled, before>>
<1> DEFINE s == shadow[r]  old == s[i]
<1>1. shadow \in [Requests -> Seq(Shadow)] /\ s \in Seq(Shadow) /\ old \in Shadow
  <2>1. shadow \in [Requests -> Seq(Shadow)]
    BY DEF TypeInv, TypeOK
  <2>2. QED
    BY <2>1
<1>2. PICK new \in Shadow :
        /\ shadow' = [shadow EXCEPT ![r] = [s EXCEPT ![i] = new]]
        /\ \/ "status" \in new.byUser /\ new.archived = old.archived
              /\ ("archived" \in new.byUser <=> "archived" \in old.byUser)
           \/ "archived" \in new.byUser /\ new.status = old.status
              /\ ("status" \in new.byUser <=> "status" \in old.byUser)
  <2> DEFINE moved(t) == [old EXCEPT !.status = t, !.byUser = old.byUser \cup {"status"}]
             toggled == [old EXCEPT !.archived = ~old.archived, !.byUser = old.byUser \cup {"archived"}]
  <2>1. \E new : /\ shadow' = [shadow EXCEPT ![r] = [s EXCEPT ![i] = new]]
                 /\ new = toggled \/ \E t \in TaskStatus : new = moved(t)
    BY <1>1 DEF editShadow
  <2>2. PICK new : /\ shadow' = [shadow EXCEPT ![r] = [s EXCEPT ![i] = new]]
                   /\ new = toggled \/ \E t \in TaskStatus : new = moved(t)
    BY <2>1
  <2> HIDE DEF old
  <2>3. CASE new = toggled
    <3>1. new \in Shadow /\ "archived" \in new.byUser /\ new.status = old.status
          /\ ("status" \in new.byUser <=> "status" \in old.byUser)
      BY <1>1, <2>3 DEF Shadow
    <3>2. QED
      BY <2>2, <3>1
  <2>4. ASSUME NEW t \in TaskStatus, new = moved(t) PROVE new \in Shadow /\ "status" \in new.byUser
          /\ new.archived = old.archived /\ ("archived" \in new.byUser <=> "archived" \in old.byUser)
    BY <1>1, <2>4 DEF Shadow
  <2>5. QED
    BY <2>2, <2>3, <2>4
<1> DEFINE n == Len(s)
<1>3. n \in Nat /\ s \in [1..n -> Shadow] /\ i \in 1..n
  BY <1>1
<1>4. shadow'[r] = [s EXCEPT ![i] = new] /\ \A x \in Requests \ {r} : shadow'[x] = shadow[x]
  BY <1>1, <1>2
<1> HIDE DEF n
<1>5. [s EXCEPT ![i] = new] \in [1..n -> Shadow] /\ [s EXCEPT ![i] = new][i] = new
  BY <1>2, <1>3
<1>6. [s EXCEPT ![i] = new] \in Seq(Shadow) /\ Len([s EXCEPT ![i] = new]) = n
  BY <1>3, <1>5
<1>7. shadow' \in [Requests -> Seq(Shadow)]
  <2> DEFINE v == [s EXCEPT ![i] = new]
  <2>1. v \in Seq(Shadow) /\ shadow' = [shadow EXCEPT ![r] = v]
    BY <1>2, <1>6
  <2> HIDE DEF v
  <2>2. QED
    BY <1>1, <2>1
<1>8. (events \in 0..MaxEvents)'
  <2>1. spend
    BY DEF editShadow
  <2>2. QED
    BY <2>1, TaskBlockingConstants DEF spend, TypeInv, TypeOK
<1>9. UNCHANGED <<parent, request, link, open, lane, disturbed, unsettled, before>>
  BY DEF editShadow
<1>10. QED
  BY <1>2, <1>4, <1>5, <1>6, <1>7, <1>8, <1>9 DEF n

\* Initial states are well typed.
LEMMA TypeInit == Init => TypeInv
<1> SUFFICES ASSUME Init PROVE TypeInv
  OBVIOUS
<1>1. \A l \in Lanes : lane[l] \in Lane /\ Fits(lane[l])
  BY IdleFits DEF Init
<1>2. lane \in [Lanes -> Lane]
  BY <1>1 DEF Init
<1>3. parent \in Parent
  BY IdleFits DEF Init, Parent, TaskStatus
<1>4. request \in [Requests -> Request] /\ shadow \in [Requests -> Seq(Shadow)]
  BY DEF Init, Request
<1>5. /\ link = "none" /\ open = TRUE /\ events \in 0..MaxEvents /\ disturbed = {}
      /\ unsettled = FALSE /\ before = None
  BY TaskBlockingConstants DEF Init
<1>6. QED
  BY <1>1, <1>2, <1>3, <1>4, <1>5 DEF TypeInv, TypeOK

\* Every step keeps the types.
LEMMA TypeStep == TypeInv /\ [Next]_vars => TypeInv'
<1> SUFFICES ASSUME TypeInv, [Next]_vars PROVE TypeInv'
  OBVIOUS
<1>1. ASSUME NEW r \in Requests, NEW i \in DOMAIN shadow[r], editShadow(r, i) PROVE TypeInv'
  BY <1>1, Edited DEF TypeInv, TypeOK
<1>2. CASE Next
  BY <1>1, <1>2, RequestTypes, SaveTypes, BlockTypes, LinkTypes, TaskTypes DEF Next
<1>3. CASE UNCHANGED vars
  BY <1>3 DEF vars, TypeInv, TypeOK
<1>4. QED
  BY <1>2, <1>3

\* Every reachable state is well typed; in particular a captured status is never "stuck".
THEOREM TypeCorrect == Spec => []TypeOK
<1>1. TypeInv => TypeOK
  BY DEF TypeInv
<1>2. QED
  BY <1>1, TypeInit, TypeStep, PTL DEF Spec

-----------------------------------------------------------------------------
\* The shadow fits the status of its request, where no user has changed it since.
Settled(r) ==
  LET q == request[r]  task == shadow[r][q.linked] IN
  /\ q.status \in {"accepted", "working_on_it", "done"} => q.linked # 0
  /\ q.linked # 0 => /\ "archived" \notin task.byUser => task.archived = (q.status \in Withdrawn)
                     /\ q.status = "done" /\ "status" \notin task.byUser => task.status = "done"

\* What the checks of the handler let through.
Allowed(r, op) ==
  \/ op = "archive"
  \/ op = "create" /\ request[r].status = None
  \/ op = "cancelled" /\ request[r].status \in Blocking
  \/ op \in Advance /\ op \in STATUS_TRANSITIONS(request[r].status)

\* A handler of an undisturbed request: its copy of linkedTaskId is true, what it is about to
\* save was allowed, and what it saved still stands.
Handled(r, l) ==
  LET c == lane[l]  q == request[r] IN
  /\ c.linked = q.linked
  /\ \A k \in Lanes \ {l} : lane[k].on # r
  /\ c.at = "save" => Settled(r) /\ Allowed(r, c.op)
  /\ c.at # "save" /\ c.op \notin Syncing => Settled(r)
  /\ c.at # "save" /\ c.op \in Syncing =>
       /\ q.status = c.op
       /\ q.linked # 0 /\ shadow[r][q.linked].archived /\ "archived" \notin shadow[r][q.linked].byUser
            => q.status \in Withdrawn

Undisturbed(r) ==
  /\ Len(shadow[r]) = request[r].linked /\ request[r].linked <= 1
  /\ request[r].status = None => request[r].linked = 0
  /\ (\A l \in Lanes : lane[l].on # r) => Settled(r)
  /\ \A l \in Lanes : lane[l].on = r => Handled(r, l)

RequestInv == \A r \in Requests \ disturbed : Undisturbed(r)

\* What a step does to a handler as far as an undisturbed request can tell: the handler stays with
\* its request, has nothing to do with it, or leaves it when there is no shadow to bring up to date.
Carries(r, l) ==
  LET c == lane[l] IN
  \/ /\ lane'[l].on = c.on /\ lane'[l].op = c.op /\ lane'[l].linked = c.linked
     /\ lane'[l].at = c.at \/ (c.at # "save" /\ lane'[l].at # "save")
  \/ c.on # r /\ lane'[l].on # r
  \/ c.on = r /\ c.at # "save" /\ c.op \notin Syncing /\ lane'[l].on # r

\* A request whose row and shadow are left alone stays as it is while its handlers go on.
LEMMA Carried ==
  ASSUME NEW r \in Requests, Undisturbed(r), request'[r] = request[r], shadow'[r] = shadow[r],
         \A l \in Lanes : Carries(r, l)
  PROVE  Undisturbed(r)'
<1>1. Settled(r)' = Settled(r) /\ \A op : Allowed(r, op)' = Allowed(r, op)
  BY DEF Settled, Allowed, STATUS_TRANSITIONS
<1>2. (\A l \in Lanes : lane'[l].on # r) => Settled(r)
  <2> SUFFICES ASSUME \A l \in Lanes : lane'[l].on # r PROVE Settled(r)
    OBVIOUS
  <2>1. CASE \A l \in Lanes : lane[l].on # r
    BY <2>1 DEF Undisturbed
  <2>2. ASSUME NEW l \in Lanes, lane[l].on = r PROVE Settled(r)
    <3>1. lane[l].at # "save" /\ lane[l].op \notin Syncing
      BY <2>2 DEF Carries
    <3>2. QED
      BY <2>2, <3>1 DEF Undisturbed, Handled
  <2>3. QED
    BY <2>1, <2>2
<1>3. ASSUME NEW l \in Lanes, lane'[l].on = r PROVE Handled(r, l)'
  <2>1. /\ lane[l].on = r /\ lane'[l].op = lane[l].op /\ lane'[l].linked = lane[l].linked
        /\ lane'[l].at = lane[l].at \/ (lane[l].at # "save" /\ lane'[l].at # "save")
    BY <1>3 DEF Carries
  <2>2. Handled(r, l)
    BY <2>1 DEF Undisturbed
  <2>3. \A k \in Lanes \ {l} : lane'[k].on # r
    BY <2>2 DEF Handled, Carries
  <2>4. QED
    BY <1>1, <2>1, <2>2, <2>3 DEF Handled
<1>4. QED
  BY <1>1, <1>2, <1>3 DEF Undisturbed

\* Only a request that is under way is moved on.
LEMMA MovesOn ==
  ASSUME NEW s, NEW op \in STATUS_TRANSITIONS(s)
  PROVE  s \in {"pending", "accepted", "working_on_it"} /\ op \in {"accepted", "working_on_it", "done", "rejected"}
BY DEF STATUS_TRANSITIONS

\* A handler that starts on a request finds it settled, unless another is at work on it.
LEMMA LoadRequests ==
  ASSUME TypeInv, RequestInv, NEW l \in Lanes, NEW r \in Requests, NEW op \in Recomputing,
         loadRequest(l, r, op), Allowed(r, op), UNCHANGED <<request, shadow>>
  PROVE  RequestInv'
<1> DEFINE c == [Idle EXCEPT !.at = "save", !.op = op, !.on = r, !.linked = request[r].linked]
<1>1. begin(l, c) /\ c \in Lane /\ Fits(c)
  BY Loaded
<1>2. lane'[l].at = "save" /\ lane'[l].op = op /\ lane'[l].on = r /\ lane'[l].linked = request[r].linked
  <2> HIDE DEF c
  <2>1. QED
    BY Loaded, ZenonT(60)
<1>3. c.on = r
  BY <1>1, IdleFits DEF Lane
<1> HIDE DEF c
<1>4. \A k \in Lanes \ {l} : \A f \in {"at", "op", "on", "linked"} : lane'[k][f] = lane[k][f]
  BY <1>1, Begun
<1>5. idle(l) /\ lane[l].on = None /\ None # r /\ None \notin Requests
  BY <1>1, TaskBlockingConstants DEF begin, TypeInv, Fits, idle
<1>6. disturbed \subseteq disturbed'
      /\ (r \notin disturbed' => \A k \in Lanes \ {l} : ~idle(k) => lane[k].on # r)
  BY <1>1, <1>3 DEF begin, others
<1>7. ASSUME NEW x \in Requests \ disturbed', x # r PROVE Undisturbed(x)'
  <2>1. \A k \in Lanes : Carries(x, k)
    BY <1>2, <1>4, <1>5, <1>7 DEF Carries
  <2>2. Undisturbed(x)
    BY <1>6, <1>7 DEF RequestInv
  <2>3. QED
    BY <2>1, <2>2, Carried
<1>8. ASSUME r \notin disturbed' PROVE Undisturbed(r)'
  <2>1. \A k \in Lanes : lane[k].on # r
    BY <1>5, <1>6, <1>8 DEF TypeInv, Fits, idle
  <2>2. Undisturbed(r) /\ Settled(r)
    BY <1>6, <1>8, <2>1 DEF RequestInv, Undisturbed
  <2>3. Settled(r)' /\ Allowed(r, op)'
    BY <2>2 DEF Settled, Allowed, STATUS_TRANSITIONS
  <2>4. Handled(r, l)'
    BY <1>2, <1>4, <2>1, <2>3 DEF Handled
  <2>5. \A k \in Lanes \ {l} : lane'[k].on # r
    BY <1>4, <2>1
  <2>6. QED
    BY <1>2, <2>2, <2>4, <2>5 DEF Undisturbed
<1>9. QED
  BY <1>7, <1>8 DEF RequestInv

\* Saving the row of an undisturbed request: the shadow is then behind, but not withdrawn.
LEMMA SaveRequests ==
  ASSUME TypeInv, RequestInv, NEW l \in Lanes, NEW r, r = lane[l].on, save(l)
  PROVE  RequestInv'
<1> DEFINE c == lane[l]
           row == CASE c.op = "create" -> [request[r] EXCEPT !.status = "pending"]
                    [] c.op = "archive" -> [request[r] EXCEPT !.archived = TRUE]
                    [] OTHER -> [request[r] EXCEPT !.status = c.op]
<1>1. /\ c.at = "save" /\ request' = [request EXCEPT ![r] = row]
      /\ to(l, [c EXCEPT !.at = "blocked"]) /\ shadow' = shadow /\ disturbed' = disturbed
  BY DEF save, at
<1>2. /\ lane \in [Lanes -> Lane] /\ c \in Lane /\ Fits(c) /\ request \in [Requests -> Request]
      /\ shadow \in [Requests -> Seq(Shadow)]
  BY DEF TypeInv, TypeOK
<1>3. r \in Requests /\ c.op \in Recomputing /\ request[r] \in Request
  BY <1>1, <1>2, TaskBlockingConstants DEF Fits
<1>4. /\ lane'[l].at = "blocked" /\ lane'[l].on = r /\ lane'[l].op = c.op
      /\ lane'[l].linked = c.linked /\ \A k \in Lanes \ {l} : lane'[k] = lane[k]
  BY <1>1, <1>2 DEF to, Lane
<1>5. ASSUME NEW x \in Requests \ disturbed', x # r PROVE Undisturbed(x)'
  <2>1. Undisturbed(x) /\ request'[x] = request[x] /\ shadow'[x] = shadow[x]
    BY <1>1, <1>2, <1>5 DEF RequestInv
  <2>2. \A k \in Lanes : Carries(x, k)
    BY <1>4, <1>5 DEF Carries
  <2>3. QED
    BY <2>1, <2>2, Carried
<1>6. ASSUME r \notin disturbed' PROVE Undisturbed(r)'
  <2>1. Undisturbed(r) /\ Handled(r, l)
    BY <1>1, <1>3, <1>6 DEF RequestInv, Undisturbed
  <2>2. /\ c.linked = request[r].linked /\ (\A k \in Lanes \ {l} : lane[k].on # r)
        /\ Settled(r) /\ Allowed(r, c.op)
    BY <1>1, <2>1 DEF Handled
  <2>3. request'[r] = row
    BY <1>1, <1>2, <1>3
  <2>4. /\ row.linked = request[r].linked
        /\ row.status = (IF c.op = "create" THEN "pending" ELSE IF c.op = "archive"
                         THEN request[r].status ELSE c.op)
    BY <1>3 DEF Request
  <2> HIDE DEF row
  <2>5. "create" \notin Syncing /\ "archive" \notin Syncing
        /\ (c.op \notin Syncing => c.op \in {"create", "archive"})
    BY <1>3 DEF Syncing, Advance, Recomputing
  <2>6. Len(shadow[r]) = request[r].linked /\ request[r].linked <= 1
        /\ (request[r].status = None => request[r].linked = 0)
    BY <2>1 DEF Undisturbed
  <2>7. row.status = None => row.linked = 0
    BY <1>3, <2>4, <2>5, <2>6, TaskBlockingConstants DEF Recomputing, Advance, Blocking, Closed
  <2>8. CASE c.op = "create"
    <3>1. request[r].status = None
      BY <2>2, <2>8 DEF Allowed, Advance
    <3>2. row.linked = 0 /\ row.status = "pending"
      BY <2>4, <2>6, <2>8, <3>1
    <3>3. Settled(r)'
      BY <2>3, <3>2 DEF Settled
    <3>4. Handled(r, l)'
      BY <1>4, <2>2, <2>3, <2>4, <2>5, <2>8, <3>3 DEF Handled
    <3>5. QED
      BY <1>1, <1>4, <2>2, <2>3, <2>4, <2>6, <2>7, <3>4 DEF Undisturbed
  <2>9. CASE c.op = "archive"
    <3>1. row.status = request[r].status
      BY <2>4, <2>9
    <3>2. Settled(r)'
      BY <1>1, <2>2, <2>3, <2>4, <3>1 DEF Settled
    <3>3. Handled(r, l)'
      BY <1>4, <2>2, <2>3, <2>4, <2>5, <2>9, <3>2 DEF Handled
    <3>4. QED
      BY <1>1, <1>4, <2>2, <2>3, <2>4, <2>6, <2>7, <3>3 DEF Undisturbed
  <2>10. CASE c.op \in Syncing
    <3>1. row.status = c.op
      BY <2>4, <2>5, <2>10
    <3>2. ASSUME request[r].linked # 0, shadow[r][request[r].linked].archived,
                 "archived" \notin shadow[r][request[r].linked].byUser
          PROVE  c.op \in Withdrawn
      <4>1. request[r].status \in Withdrawn
        BY <2>2, <3>2 DEF Settled
      <4>2. c.op \in Advance => c.op \in STATUS_TRANSITIONS(request[r].status)
        BY <2>2 DEF Allowed, Advance
      <4>3. c.op \notin Advance
        BY <4>1, <4>2, MovesOn DEF Withdrawn
      <4>4. QED
        BY <2>10, <4>3 DEF Syncing, Withdrawn
    <3>3. Handled(r, l)'
      BY <1>1, <1>4, <2>2, <2>3, <2>4, <2>10, <3>1, <3>2 DEF Handled
    <3>4. QED
      BY <1>1, <1>4, <2>2, <2>3, <2>4, <2>6, <2>7, <3>3 DEF Undisturbed
  <2>11. QED
    BY <2>5, <2>8, <2>9, <2>10
<1>7. QED
  BY <1>3, <1>5, <1>6 DEF RequestInv

\* The last statement brings the shadow to the status that was saved, or makes it.
LEMMA SyncRequests ==
  ASSUME TypeInv, RequestInv, NEW l \in Lanes, NEW r, r = lane[l].on,
         syncLinkedTaskFromDependency(l)
  PROVE  RequestInv'
<1> DEFINE c == lane[l]
<1>1. c.at = "sync" /\ to(l, Idle) /\ disturbed' = disturbed
  BY DEF syncLinkedTaskFromDependency, at, finish
<1>2. /\ lane \in [Lanes -> Lane] /\ c \in Lane /\ Fits(c) /\ request \in [Requests -> Request]
      /\ shadow \in [Requests -> Seq(Shadow)]
  BY DEF TypeInv, TypeOK
<1>3. r \in Requests /\ c.op \in Syncing /\ request[r] \in Request /\ shadow[r] \in Seq(Shadow)
      /\ None \notin Requests
  BY <1>1, <1>2, TaskBlockingConstants DEF Fits
<1>4. lane'[l] = Idle /\ lane'[l].on = None /\ \A k \in Lanes \ {l} : lane'[k] = lane[k]
  BY <1>1, <1>2, IdleFits DEF to
<1>5. \/ c.linked # 0 /\ syncExistingLinkedTask(r, c.linked, c.op)
      \/ c.linked = 0 /\ c.op \notin Withdrawn /\ materializeDependencyTask(r, c.op)
      \/ c.linked = 0 /\ c.op \in Withdrawn /\ UNCHANGED <<shadow, request>>
  BY DEF syncLinkedTaskFromDependency
<1>6. ASSUME NEW x \in Requests \ disturbed', x # r PROVE Undisturbed(x)'
  <2>1. request'[x] = request[x] /\ shadow'[x] = shadow[x]
    BY <1>2, <1>3, <1>5, <1>6 DEF syncExistingLinkedTask, materializeDependencyTask
  <2>2. \A k \in Lanes : Carries(x, k)
    BY <1>3, <1>4, <1>6 DEF Carries
  <2>3. Undisturbed(x)
    BY <1>1, <1>6 DEF RequestInv
  <2>4. QED
    BY <2>1, <2>2, <2>3, Carried
<1>7. ASSUME r \notin disturbed' PROVE Undisturbed(r)'
  <2>1. Undisturbed(r) /\ Handled(r, l)
    BY <1>1, <1>3, <1>7 DEF RequestInv, Undisturbed
  <2>2. /\ c.linked = request[r].linked /\ (\A k \in Lanes \ {l} : lane[k].on # r)
        /\ request[r].status = c.op
        /\ (request[r].linked # 0 /\ shadow[r][request[r].linked].archived
              /\ "archived" \notin shadow[r][request[r].linked].byUser
              => request[r].status \in Withdrawn)
    BY <1>1, <1>3, <2>1 DEF Handled
  <2>3. \A k \in Lanes : lane'[k].on # r
    BY <1>3, <1>4, <2>2
  <2>4. Len(shadow[r]) = request[r].linked /\ request[r].linked <= 1 /\ request[r].linked \in Nat
    BY <1>3, <2>1 DEF Undisturbed, Request
  <2>5. c.op # None
    BY <1>3, TaskBlockingConstants DEF Syncing, Advance, Blocking, Closed
  <2>6. SUFFICES /\ Len(shadow'[r]) = request'[r].linked /\ request'[r].linked <= 1
                 /\ request'[r].status = c.op /\ Settled(r)'
    BY <2>3, <2>5 DEF Undisturbed
  <2>7. CASE c.linked # 0 /\ syncExistingLinkedTask(r, c.linked, c.op)
    <3> DEFINE old == shadow[r][1]
               new == IF c.op \in Withdrawn
                      THEN [old EXCEPT !.archived = TRUE, !.byUser = old.byUser \ {"archived"}]
                      ELSE IF c.op = "accepted" \/ (c.op = "working_on_it" /\ old.status = "done")
                           THEN old
                           ELSE [old EXCEPT !.status = c.op, !.byUser = old.byUser \ {"status"}]
    <3>1. c.linked = 1 /\ Len(shadow[r]) = 1
      BY <2>2, <2>4, <2>7
    <3>2. shadow' = [shadow EXCEPT ![r] = [shadow[r] EXCEPT ![1] = new]] /\ request' = request
      BY <1>2, <1>3, <2>7, <3>1 DEF syncExistingLinkedTask
    <3>3. old \in Shadow
      BY <1>3, <3>1
    <3> HIDE DEF old
    <3>4. /\ c.op \in Withdrawn => new.archived
          /\ c.op \notin Withdrawn => /\ new.archived = old.archived
                                      /\ "archived" \in new.byUser <=> "archived" \in old.byUser
          /\ c.op = "done" => new.status = "done"
          /\ new.archived \in BOOLEAN
      BY <3>3 DEF Shadow, Withdrawn
    <3>5. old.archived /\ "archived" \notin old.byUser => c.op \in Withdrawn
      BY <2>2, <3>1 DEF old
    <3> HIDE DEF new
    <3>6. /\ shadow'[r] = [shadow[r] EXCEPT ![1] = new] /\ shadow'[r][1] = new
          /\ Len(shadow'[r]) = Len(shadow[r])
      <4>1. shadow'[r] = [shadow[r] EXCEPT ![1] = new]
        BY <1>2, <1>3, <3>2
      <4>2. QED
        BY <1>3, <3>1, <4>1
    <3>7. "archived" \notin shadow'[r][1].byUser => shadow'[r][1].archived = (c.op \in Withdrawn)
      <4>1. CASE c.op \in Withdrawn
        BY <3>4, <3>6, <4>1
      <4>2. CASE c.op \notin Withdrawn
        <5>1. "archived" \notin new.byUser => ~new.archived
          BY <3>4, <3>5, <4>2
        <5>2. (c.op \in Withdrawn) = FALSE
          BY <4>2
        <5>3. QED
          BY <3>4, <3>6, <5>1, <5>2
      <4>3. QED
        BY <4>1, <4>2
    <3>8. c.op = "done" => shadow'[r][1].status = "done"
      BY <3>4, <3>6
    <3>9. request'[r].linked = 1 /\ request'[r].status = c.op
      BY <2>2, <2>4, <3>1, <3>2
    <3>10. Settled(r)'
      BY <3>7, <3>8, <3>9 DEF Settled
    <3>11. QED
      BY <3>1, <3>6, <3>9, <3>10
  <2>8. CASE c.linked = 0 /\ c.op \notin Withdrawn /\ materializeDependencyTask(r, c.op)
    <3> DEFINE task == newTask(c.op)
    <3>1. /\ shadow' = [shadow EXCEPT ![r] = Append(shadow[r], task)] /\ Len(shadow[r]) = 0
          /\ request' = [request EXCEPT ![r] = [request[r] EXCEPT !.linked = Len(shadow[r]) + 1]]
      BY <1>2, <1>3, <2>2, <2>4, <2>8 DEF materializeDependencyTask
    <3>2. task.archived = (c.op \in Withdrawn) /\ (c.op = "done" => task.status = "done")
      <4>1. (c.op \in Withdrawn) = FALSE
        BY <2>8
      <4>2. task.archived = FALSE /\ (c.op = "done" => task.status = "done")
        BY DEF newTask, depStatusToTaskStatus
      <4>3. QED
        BY <4>1, <4>2
    <3> HIDE DEF task
    <3>3. shadow'[r] = Append(shadow[r], task) /\ Len(shadow'[r]) = 1 /\ shadow'[r][1] = task
      BY <1>2, <1>3, <3>1
    <3>4. request'[r].linked = 1 /\ request'[r].status = c.op
      BY <1>2, <1>3, <2>2, <3>1 DEF Request
    <3>5. Settled(r)'
      BY <3>2, <3>3, <3>4 DEF Settled
    <3>6. QED
      BY <3>3, <3>4, <3>5
  <2>9. CASE c.linked = 0 /\ c.op \in Withdrawn /\ UNCHANGED <<shadow, request>>
    BY <2>2, <2>4, <2>9 DEF Settled, Withdrawn
  <2>10. QED
    BY <1>5, <2>7, <2>8, <2>9
<1>8. QED
  BY <1>3, <1>6, <1>7 DEF RequestInv

\* A user's change of a shadow is noted where the request looks.
LEMMA EditRequests ==
  ASSUME TypeInv, RequestInv, NEW r \in Requests, NEW i \in DOMAIN shadow[r], editShadow(r, i)
  PROVE  RequestInv'
<1>1. /\ \A x \in Requests \ {r} : shadow'[x] = shadow[x]
      /\ UNCHANGED <<request, lane, disturbed>>
  BY Edited
<1>2. ASSUME NEW x \in Requests \ disturbed', x # r PROVE Undisturbed(x)'
  <2>1. Undisturbed(x) /\ request'[x] = request[x] /\ shadow'[x] = shadow[x]
    BY <1>1, <1>2 DEF RequestInv
  <2>2. \A k \in Lanes : Carries(x, k)
    BY <1>1 DEF Carries
  <2>3. QED
    BY <2>1, <2>2, Carried
<1>3. ASSUME r \notin disturbed' PROVE Undisturbed(r)'
  <2>1. Undisturbed(r) /\ request[r] \in Request /\ shadow[r] \in Seq(Shadow)
    BY <1>1, <1>3 DEF RequestInv, TypeInv, TypeOK
  <2>2. request[r].linked = 1 /\ i = 1
    BY <2>1 DEF Undisturbed, Request
  <2>3. /\ Len(shadow'[r]) = Len(shadow[r])
        /\ \/ "status" \in shadow'[r][1].byUser /\ shadow'[r][1].archived = shadow[r][1].archived
              /\ ("archived" \in shadow'[r][1].byUser <=> "archived" \in shadow[r][1].byUser)
           \/ "archived" \in shadow'[r][1].byUser /\ shadow'[r][1].status = shadow[r][1].status
              /\ ("status" \in shadow'[r][1].byUser <=> "status" \in shadow[r][1].byUser)
    BY <2>2, Edited
  <2>4. Settled(r) => Settled(r)'
    BY <1>1, <2>2, <2>3 DEF Settled
  <2>5. \A op : Allowed(r, op)' = Allowed(r, op)
    BY <1>1 DEF Allowed, STATUS_TRANSITIONS
  <2>6. ASSUME NEW l \in Lanes, Handled(r, l) PROVE Handled(r, l)'
    BY <1>1, <2>2, <2>3, <2>4, <2>5, <2>6 DEF Handled
  <2>7. QED
    BY <1>1, <2>1, <2>3, <2>4, <2>6 DEF Undisturbed
<1>4. QED
  BY <1>2, <1>3 DEF RequestInv

\* Steps that leave the rows and the shadows alone.
LEMMA CarriedAll ==
  ASSUME RequestInv, UNCHANGED <<request, shadow>>, disturbed \subseteq disturbed',
         \A r \in Requests \ disturbed', l \in Lanes : Carries(r, l)
  PROVE  RequestInv'
<1> SUFFICES ASSUME NEW r \in Requests \ disturbed' PROVE Undisturbed(r)'
  BY DEF RequestInv
<1>1. Undisturbed(r) /\ request'[r] = request[r] /\ shadow'[r] = shadow[r]
  BY DEF RequestInv
<1>2. QED
  BY <1>1, Carried

\* A handler that starts on no request carries every request.
LEMMA BeginCarries ==
  ASSUME TypeInv, NEW l \in Lanes, NEW c \in Lane, Fits(c), c.on = None, begin(l, c)
  PROVE  disturbed \subseteq disturbed' /\ \A r \in Requests, k \in Lanes : Carries(r, k)
<1>1. /\ lane'[l].on = None /\ lane[l].on = None /\ None \notin Requests
      /\ \A k \in Lanes \ {l} : \A f \in {"at", "op", "on", "linked"} : lane'[k][f] = lane[k][f]
  <2>1. lane'[l].on = c.on
    BY Begun
  <2>2. \A k \in Lanes \ {l} : \A f \in {"at", "op", "on", "linked"} : lane'[k][f] = lane[k][f]
    BY Begun
  <2>3. lane[l].on = None
    BY DEF begin, TypeInv, Fits, idle
  <2>4. QED
    BY <2>1, <2>2, <2>3, TaskBlockingConstants
<1>2. \A r \in Requests, k \in Lanes : Carries(r, k)
  BY <1>1 DEF Carries
<1>3. QED
  BY <1>2 DEF begin

\* A handler in the recomputation carries every request.
LEMMA BlockCarries ==
  ASSUME TypeInv, NEW l \in Lanes, NEW d, to(l, d),
         BlockMove(l, d) \/ (lane[l].at = "write" /\ lane[l].op # "edit" /\ d = afterBlockState(lane[l]))
  PROVE  \A r \in Requests, k \in Lanes : Carries(r, k)
<1> DEFINE c == lane[l]
<1>1. c \in Lane /\ Fits(c) /\ lane \in [Lanes -> Lane] /\ None \notin Requests
  BY TaskBlockingConstants DEF TypeInv, TypeOK
<1>2. lane'[l] = d /\ \A k \in Lanes \ {l} : lane'[k] = lane[k]
  BY <1>1 DEF to
<1>3. ASSUME NEW r \in Requests PROVE Carries(r, l)
  <2>1. CASE d = afterBlockState(c) /\ c.at \in {"task", "lock", "write"} /\ c.op # "edit"
    <3>1. CASE c.op \in Syncing
      <4>1. d.at = "sync" /\ d.op = c.op /\ d.on = c.on /\ d.linked = c.linked
        BY <1>1, <2>1, <3>1, AfterBlock
      <4>2. QED
        BY <1>2, <2>1, <4>1 DEF Carries
    <3>2. CASE c.op \notin Syncing
      <4>1. d = Idle
        BY <1>1, <2>1, <3>2, AfterBlock
      <4>2. QED
        BY <1>1, <1>2, <2>1, <3>2, <4>1, IdleFits DEF Carries
    <3>3. QED
      BY <3>1, <3>2
  <2>2. CASE d = Idle /\ c.at = "blocked" /\ c.op \in {"chain", "unlock"}
    <3>1. c.on = None
      BY <1>1, <2>2 DEF Fits, Recomputing, Advance
    <3>2. QED
      BY <1>1, <1>2, <2>2, <3>1, IdleFits DEF Carries
  <2>3. CASE /\ d.op = c.op /\ d.on = c.on /\ d.linked = c.linked
             /\ c.at \in {"blocked", "task", "lock"} /\ d.at \in {"task", "lock", "write"}
    BY <1>2, <2>3 DEF Carries
  <2>4. c.at \in {"task", "lock"} => c.op # "edit"
    BY <1>1 DEF Fits
  <2>5. QED
    BY <2>1, <2>2, <2>3, <2>4 DEF BlockMove
<1>4. QED
  BY <1>2, <1>3 DEF Carries

\* Every step keeps the requests that nobody disturbs in order.
LEMMA RequestStep == TypeInv /\ RequestInv /\ [Next]_vars => RequestInv'
<1> SUFFICES ASSUME TypeInv, RequestInv, [Next]_vars PROVE RequestInv'
  OBVIOUS
<1>1. /\ lane \in [Lanes -> Lane] /\ (\A k \in Lanes : Fits(lane[k])) /\ parent \in Parent
      /\ None \notin Requests
  BY TaskBlockingConstants DEF TypeInv, TypeOK
<1>2. ASSUME NEW l \in Lanes, NEW r \in Requests,
             \/ \E s \in Advance : updateStatus(l, r, s)
             \/ cancelDependency(l, r) \/ archiveDependency(l, r) \/ createDependencyRequest(l, r)
      PROVE  RequestInv'
  <2>1. PICK op \in Recomputing : loadRequest(l, r, op) /\ Allowed(r, op)
    BY <1>2 DEF updateStatus, cancelDependency, archiveDependency, createDependencyRequest,
                Recomputing, Allowed
  <2>2. UNCHANGED <<request, shadow>>
    BY <1>2 DEF updateStatus, cancelDependency, archiveDependency, createDependencyRequest
  <2>3. QED
    BY <2>1, <2>2, LoadRequests
<1>3. ASSUME NEW l \in Lanes, readBlocked(l) \/ loadTask(l) \/ lockTaskAsDependencyBlocked(l)
      PROVE  RequestInv'
  BY <1>3, BlockMoves, BlockCarries, CarriedAll
<1>4. ASSUME NEW l \in Lanes, writeTask(l) PROVE RequestInv'
  <2>1. /\ lane[l].at = "write" /\ lane[l].op # "edit" /\ to(l, afterBlockState(lane[l]))
        /\ UNCHANGED <<request, shadow, disturbed>>
    BY <1>4 DEF writeTask, at
  <2>2. QED
    BY <2>1, BlockCarries, CarriedAll
<1>5. ASSUME NEW l \in Lanes, to(l, Idle), lane[l].on = None, UNCHANGED <<request, shadow, disturbed>>
      PROVE  RequestInv'
  <2>1. lane'[l].on = None /\ \A k \in Lanes \ {l} : lane'[k] = lane[k]
    BY <1>1, <1>5, IdleFits DEF to
  <2>2. \A r \in Requests, k \in Lanes : Carries(r, k)
    BY <1>1, <1>5, <2>1 DEF Carries
  <2>3. QED
    BY <1>5, <2>2, CarriedAll
<1>6. ASSUME NEW l \in Lanes, writeStatus(l) PROVE RequestInv'
  <2>1. lane[l].on = None
    BY <1>1, <1>6 DEF writeStatus, at, Fits, Recomputing, Advance
  <2>2. QED
    BY <1>5, <1>6, <2>1 DEF writeStatus, finish
<1>7. ASSUME NEW l \in Lanes, NEW c \in Lane, Fits(c), c.on = None, begin(l, c), UNCHANGED <<request, shadow>>
      PROVE  RequestInv'
  BY <1>7, BeginCarries, CarriedAll
<1>8. ASSUME NEW u \in BOOLEAN, interfere(u), UNCHANGED <<request, shadow, disturbed>>
      PROVE  RequestInv'
  <2>1. \A r \in Requests, k \in Lanes : Carries(r, k)
    BY <1>8, Interfered DEF Carries
  <2>2. QED
    BY <1>8, <2>1, CarriedAll
<1>9. ASSUME NEW l \in Lanes, NEW copy \in Parent, NEW op, NEW a,
             \/ op = "lock" /\ a = "lock"
             \/ op = "unlock" /\ a = "blocked"
             \/ op = "chain" /\ a = "blocked"
             \/ op = "edit" /\ a = "write",
             begin(l, Starting(a, op, copy)), UNCHANGED <<request, shadow>>
      PROVE  RequestInv'
  <2>1. Starting(a, op, copy) \in Lane /\ Fits(Starting(a, op, copy)) /\ Starting(a, op, copy).on = None
    BY <1>9, StartingFits
  <2>2. QED
    BY <1>7, <1>9, <2>1
<1>10. ASSUME NEW l \in Lanes,
              createDependency(l) \/ (\E s \in {"none", "archived"} : removeDependency(l, s))
              \/ processTaskCompletion(l)
       PROVE  RequestInv'
  <2>1. NoTask \in Parent /\ [NoTask EXCEPT !.status = parent.status] \in Parent /\ parent.flag \in BOOLEAN
    BY <1>1, IdleFits DEF Parent
  <2>2. UNCHANGED <<request, shadow>>
    BY <1>10 DEF createDependency, removeDependency, processTaskCompletion, linkOp
  <2>3. \/ linkOp(l, "lock", NoTask, "lock") \/ linkOp(l, "unlock", NoTask, "blocked")
        \/ linkOp(l, "chain", [NoTask EXCEPT !.status = parent.status], "blocked")
        \/ (interfere(FALSE) /\ disturbed' = disturbed)
    BY <1>10 DEF createDependency, removeDependency, processTaskCompletion
  <2>4. CASE linkOp(l, "lock", NoTask, "lock")
    BY <1>9, <2>1, <2>2, <2>4 DEF linkOp, Starting
  <2>5. CASE linkOp(l, "unlock", NoTask, "blocked")
    BY <1>9, <2>1, <2>2, <2>5 DEF linkOp, Starting
  <2>6. CASE linkOp(l, "chain", [NoTask EXCEPT !.status = parent.status], "blocked")
    BY <1>9, <2>1, <2>2, <2>6 DEF linkOp, Starting
  <2>7. CASE interfere(FALSE) /\ disturbed' = disturbed
    BY <1>8, <2>2, <2>7
  <2>8. QED
    BY <2>3, <2>4, <2>5, <2>6, <2>7
<1>11. ASSUME \/ completeBlocker \/ reopenBlocker
              \/ \E s \in TaskStatus : writeStatusUnasked(s)
              \/ updateCustomFields
       PROVE  RequestInv'
  <2>1. PICK u \in BOOLEAN : interfere(u) /\ UNCHANGED <<request, shadow, disturbed>>
    <3>1. parent.flag \in BOOLEAN
      BY <1>1 DEF Parent
    <3>2. CASE completeBlocker
      BY <3>1, <3>2 DEF completeBlocker
    <3>3. CASE reopenBlocker
      BY <3>3 DEF reopenBlocker
    <3>4. CASE \E s \in TaskStatus : writeStatusUnasked(s)
      BY <3>4 DEF writeStatusUnasked
    <3>5. CASE updateCustomFields
      BY <3>1, <3>5 DEF updateCustomFields
    <3>6. QED
      BY <1>11, <3>2, <3>3, <3>4, <3>5
  <2>2. QED
    BY <1>8, <2>1
<1>12. ASSUME NEW l \in Lanes, NEW s \in TaskStatus, updateTask(l, s) PROVE RequestInv'
  <2>1. [NoTask EXCEPT !.status = s] \in Parent
    BY IdleFits DEF Parent
  <2>2. begin(l, Starting("write", "edit", [NoTask EXCEPT !.status = s]))
        /\ UNCHANGED <<request, shadow>>
    BY <1>12 DEF updateTask, Starting
  <2>3. QED
    BY <1>9, <2>1, <2>2
<1>13. ASSUME NEW l \in Lanes, archiveParent(l) PROVE RequestInv'
  <2> DEFINE todo == {r \in Requests : blocking(r)}
             c == [Idle EXCEPT !.at = "cascade", !.op = "cascade", !.todo = todo]
  <2>1. begin(l, c) /\ UNCHANGED <<request, shadow>>
    BY <1>13 DEF archiveParent
  <2>2. c \in Lane /\ c.at = "cascade" /\ c.op = "cascade" /\ c.on = None
    BY IdleFits DEF Lane, Op
  <2> HIDE DEF c
  <2>3. Fits(c)
    BY <2>2 DEF Fits, Recomputing, Advance
  <2>4. QED
    BY <1>7, <2>1, <2>2, <2>3
<1>14. ASSUME NEW l \in Lanes, cascadeCancel(l) PROVE RequestInv'
  <2>1. lane[l].at = "cascade" /\ lane[l].on = None /\ shadow' = shadow
    BY <1>1, <1>14 DEF cascadeCancel, at, Fits, Recomputing, Advance
  <2>2. CASE finish(l) /\ UNCHANGED <<request, disturbed>>
    BY <1>5, <2>1, <2>2 DEF finish
  <2>3. ASSUME NEW x \in lane[l].todo, request' = [request EXCEPT ![x].status = "cancelled"],
               disturbed' = disturbed \cup {x}, to(l, [lane[l] EXCEPT !.todo = @ \ {x}])
        PROVE  RequestInv'
    <3> SUFFICES ASSUME NEW r \in Requests \ disturbed' PROVE Undisturbed(r)'
      BY DEF RequestInv
    <3>1. /\ Undisturbed(r) /\ request'[r] = request[r] /\ shadow'[r] = shadow[r]
      BY <2>1, <2>3 DEF RequestInv, TypeInv, TypeOK
    <3>2. \A k \in Lanes : Carries(r, k)
      BY <1>1, <2>3 DEF Carries, to, Lane
    <3>3. QED
      BY <3>1, <3>2, Carried
  <2>4. QED
    BY <1>14, <2>2, <2>3 DEF cascadeCancel
<1>15. ASSUME NEW l \in Lanes, crash(l) PROVE RequestInv'
  <2>1. /\ to(l, Idle) /\ UNCHANGED <<request, shadow>>
        /\ disturbed' = disturbed \cup {r \in Requests : r = lane[l].on}
    BY <1>15 DEF crash, finish
  <2>2. lane'[l].on = None /\ \A k \in Lanes \ {l} : lane'[k] = lane[k]
    BY <1>1, <2>1, IdleFits DEF to
  <2>3. \A r \in Requests \ disturbed', k \in Lanes : Carries(r, k)
    BY <1>1, <2>1, <2>2 DEF Carries
  <2>4. QED
    BY <2>1, <2>3, CarriedAll
<1>16. ASSUME UNCHANGED <<request, shadow, lane, disturbed>> PROVE RequestInv'
  BY <1>16, CarriedAll DEF Carries
<1>17. CASE restoreParent \/ archiveOnly \/ UNCHANGED vars
  BY <1>16, <1>17 DEF restoreParent, archiveOnly, vars
<1>18. QED
  BY <1>2, <1>3, <1>4, <1>6, <1>10, <1>11, <1>12, <1>13, <1>14, <1>15, <1>17,
     SaveRequests, SyncRequests, EditRequests DEF Next

\* Reachable states have their undisturbed requests in order.
LEMMA RequestCorrect == Spec => [](TypeInv /\ RequestInv)
<1>1. Init => RequestInv
  <2> SUFFICES ASSUME Init, NEW r \in Requests PROVE Undisturbed(r)
    BY DEF RequestInv
  <2>1. request[r].status = None /\ request[r].linked = 0 /\ shadow[r] = << >>
    BY DEF Init
  <2>2. \A l \in Lanes : lane[l].on # r
    BY IdleFits, TaskBlockingConstants DEF Init
  <2>3. Settled(r)
    BY <2>1, TaskBlockingConstants DEF Settled, Blocking, Closed
  <2>4. QED
    BY <2>1, <2>2, <2>3 DEF Undisturbed
<1>2. QED
  BY <1>1, TypeInit, TypeStep, RequestStep, PTL DEF Spec

\* A request gets one shadow task, however often it is moved on, as long as its own handlers do
\* not overlap or die half way (_materializeDependencyTask).
THEOREM OneShadowEach == Spec => []OneShadow
<1>1. RequestInv => OneShadow
  BY DEF RequestInv, Undisturbed, OneShadow
<1>2. QED
  BY <1>1, RequestCorrect, PTL

\* Between its handlers the shadow says what the request says (syncLinkedTaskFromDependency).
THEOREM ShadowsTrue == Spec => []ShadowTruth
<1>1. RequestInv => ShadowTruth
  BY DEF RequestInv, Undisturbed, ShadowTruth, Settled
<1>2. QED
  BY <1>1, RequestCorrect, PTL

\* What is closed stays closed: no handler of an undisturbed request saves over done or cancelled
\* (canTransitionRequest, and the middleware's copy of the row).
THEOREM ClosedForGood == Spec => ClosedStays
<1>1. TypeInv /\ RequestInv /\ [Next]_vars =>
        [\A r \in Requests \ disturbed' :
           request[r].status \in Closed => request'[r].status = request[r].status]_vars
  <2> SUFFICES ASSUME TypeInv, RequestInv, Next, NEW r \in Requests \ disturbed',
                      request[r].status \in Closed
               PROVE  request'[r].status = request[r].status
    OBVIOUS
  <2>1. request \in [Requests -> Request] /\ \A k \in Lanes : lane[k] \in Lane /\ Fits(lane[k])
    BY DEF TypeInv, TypeOK
  <2>2. ASSUME NEW l \in Lanes, save(l) PROVE request'[r].status = request[r].status
    <3> DEFINE c == lane[l]
    <3>1. CASE c.on # r
      BY <2>1, <2>2, <3>1 DEF save
    <3>2. CASE c.on = r
      <4>1. c.at = "save" /\ r \notin disturbed
        BY <2>2 DEF save, at
      <4>2. Allowed(r, c.op)
        BY <3>2, <4>1 DEF RequestInv, Undisturbed, Handled
      <4>3. request[r].status \notin Blocking \cup {None, "pending", "accepted", "working_on_it"}
        BY TaskBlockingConstants DEF Closed, Blocking
      <4>4. c.op = "archive"
        BY <4>2, <4>3, MovesOn DEF Allowed
      <4>5. request' = [request EXCEPT ![r] = [request[r] EXCEPT !.archived = TRUE]]
        BY <2>2, <3>2, <4>4 DEF save
      <4>6. QED
        BY <2>1, <4>5 DEF Request
    <3>3. QED
      BY <3>1, <3>2
  <2>3. ASSUME NEW l \in Lanes, syncLinkedTaskFromDependency(l)
        PROVE  request'[r].status = request[r].status
    <3>1. \/ request' = request
          \/ \E x, n : request' = [request EXCEPT ![x].linked = n]
      BY <2>3 DEF syncLinkedTaskFromDependency, syncExistingLinkedTask, materializeDependencyTask
    <3>2. QED
      BY <2>1, <3>1 DEF Request
  <2>4. ASSUME NEW l \in Lanes, cascadeCancel(l) PROVE request'[r].status = request[r].status
    BY <2>1, <2>4 DEF cascadeCancel
  <2>5. ASSUME NEW l \in Lanes,
               \/ \E x \in Requests : \/ \E s \in Advance : updateStatus(l, x, s)
                                      \/ cancelDependency(l, x) \/ archiveDependency(l, x)
                                      \/ createDependencyRequest(l, x)
               \/ readBlocked(l) \/ loadTask(l) \/ lockTaskAsDependencyBlocked(l) \/ writeTask(l)
               \/ createDependency(l) \/ (\E s \in {"none", "archived"} : removeDependency(l, s))
               \/ processTaskCompletion(l) \/ (\E s \in TaskStatus : updateTask(l, s))
               \/ writeStatus(l) \/ archiveParent(l) \/ crash(l)
        PROVE  request' = request
    BY <2>5 DEF updateStatus, cancelDependency, archiveDependency, createDependencyRequest,
       readBlocked, loadTask, lockTaskAsDependencyBlocked, writeTask, createDependency,
       removeDependency, processTaskCompletion, linkOp, updateTask, writeStatus, archiveParent, crash
  <2>6. ASSUME \/ completeBlocker \/ reopenBlocker \/ (\E s \in TaskStatus : writeStatusUnasked(s))
               \/ updateCustomFields \/ restoreParent \/ archiveOnly
               \/ \E x \in Requests : \E i \in DOMAIN shadow[x] : editShadow(x, i)
        PROVE  request' = request
    BY <2>6 DEF completeBlocker, reopenBlocker, writeStatusUnasked, updateCustomFields,
       restoreParent, archiveOnly, editShadow
  <2>7. QED
    BY <2>2, <2>3, <2>4, <2>5, <2>6 DEF Next
<1>2. QED
  BY <1>1, RequestCorrect, PTL DEF Spec, ClosedStays

-----------------------------------------------------------------------------
\* The flag fits the blockers: it is never up without one, and up whenever a task that is not
\* done has one.
Flagged ==
  /\ parent.flag => isTaskBlocked
  /\ isTaskBlocked /\ parent.status # "done" => parent.flag

\* What a handler that nobody overlaps knows of the blockers and the task.
Knows(l) ==
  LET c == lane[l] IN
  /\ ~unsettled /\ (c.at \in {"save", "sync", "cascade"} \/ c.op = "edit") => Flagged
  /\ ~unsettled /\ c.op \in {"unlock", "chain"} /\ c.at = "blocked"
       => (isTaskBlocked /\ parent.status # "done" => parent.flag)
  /\ c.at = "task" => c.blocked = isTaskBlocked
  /\ c.at = "lock" => isTaskBlocked
  /\ c.at = "write" /\ c.op # "edit" => /\ c.blocked = isTaskBlocked
                                        /\ c.task.status = parent.status
                                        /\ c.blocked => parent.status # "done"
  /\ c.op = "chain" => c.task.status = parent.status /\ parent.status # "done"
  /\ c.op = "edit" => ~isTaskBlocked

BlockInv ==
  /\ \A l, k \in Lanes : lane[l].alone /\ ~idle(l) /\ k # l => idle(k)
  /\ ~unsettled => \A l \in Lanes : idle(l) \/ lane[l].alone
  /\ ~unsettled /\ (\A l \in Lanes : idle(l)) => Flagged
  /\ \A l \in Lanes : lane[l].alone /\ ~idle(l) => Knows(l)

\* Whether the task is blocked, and whether its flag fits, depends on these alone.
LEMMA SameBlockers ==
  ASSUME UNCHANGED <<link, open>>,
         \A r \in Requests : /\ request'[r].status = request[r].status
                             /\ request'[r].archived = request[r].archived
  PROVE  /\ isTaskBlocked' = isTaskBlocked
         /\ parent'.flag = parent.flag /\ parent'.status = parent.status => Flagged' = Flagged
<1>1. \A r \in Requests : blocking(r)' = blocking(r)
  BY DEF blocking
<1>2. isTaskBlocked' = isTaskBlocked
  BY <1>1 DEF isTaskBlocked
<1>3. QED
  BY <1>2 DEF Flagged

\* One handler moves on: nobody else is alone, so only what it knows itself is at stake.
LEMMA MoveBlocks ==
  ASSUME TypeInv, BlockInv, NEW l \in Lanes, ~idle(l), NEW d, to(l, d),
         d.alone = lane[l].alone \/ d.at = "idle",
         ~unsettled' => lane[l].alone,
         d.at # "idle" /\ lane[l].alone => Knows(l)',
         d.at = "idle" /\ lane[l].alone /\ ~unsettled' => Flagged'
  PROVE  BlockInv'
<1>1. lane'[l] = d /\ \A k \in Lanes \ {l} : lane'[k] = lane[k]
  BY DEF to, TypeInv, TypeOK
<1>2. \A a, k \in Lanes : lane[a].alone /\ ~idle(a) /\ k # a => idle(k)
  BY DEF BlockInv
<1>3. ASSUME NEW a \in Lanes, NEW k \in Lanes, lane'[a].alone, ~idle(a)', k # a PROVE idle(k)'
  BY <1>1, <1>2, <1>3 DEF idle
<1>4. ASSUME ~unsettled', NEW a \in Lanes PROVE idle(a)' \/ lane'[a].alone
  BY <1>1, <1>2, <1>4 DEF idle
<1>5. ASSUME ~unsettled', \A a \in Lanes : idle(a)' PROVE Flagged'
  BY <1>1, <1>5 DEF idle
<1>6. ASSUME NEW a \in Lanes, lane'[a].alone, ~idle(a)' PROVE Knows(a)'
  BY <1>1, <1>2, <1>6 DEF idle
<1>7. QED
  BY <1>3, <1>4, <1>5, <1>6 DEF BlockInv

\* A handler starts: when it is alone, everybody was idle and what was settled still is.
LEMMA BeginBlocks ==
  ASSUME TypeInv, BlockInv, NEW l \in Lanes, NEW c \in Lane, Fits(c), c.at # "idle", begin(l, c),
         (\A k \in Lanes : idle(k)) /\ (~unsettled' => ~unsettled /\ Flagged) => Knows(l)'
  PROVE  BlockInv'
<1>1. /\ lane'[l].alone = (others(l) = {}) /\ lane'[l].at = c.at
      /\ \A k \in Lanes \ {l} : lane'[k].at = lane[k].at /\ (lane'[k].at # "idle" => ~lane'[k].alone)
  <2>1. lane'[l].alone = (others(l) = {}) /\ lane'[l].at = c.at
    BY Begun
  <2>2. \A k \in Lanes \ {l} : lane'[k].at = lane[k].at
    BY Begun
  <2>3. \A k \in Lanes \ {l} : lane'[k].at # "idle" => ~lane'[k].alone
    BY Begun
  <2>4. QED
    BY <2>1, <2>2, <2>3
<1>2. idle(l) /\ (~unsettled' => ~unsettled /\ others(l) = {})
  BY DEF begin
<1>3. others(l) = {} => \A k \in Lanes : idle(k)
  BY <1>2 DEF others
<1>4. others(l) = {} => Knows(l)'
  BY <1>2, <1>3 DEF BlockInv
<1>5. ASSUME NEW a \in Lanes, NEW k \in Lanes, lane'[a].alone, ~idle(a)', k # a PROVE idle(k)'
  <2>1. a = l
    BY <1>1, <1>5 DEF idle
  <2>2. idle(k)
    BY <1>1, <1>3, <1>5, <2>1
  <2>3. QED
    BY <1>1, <1>5, <2>1, <2>2 DEF idle
<1>6. ASSUME ~unsettled', NEW a \in Lanes PROVE idle(a)' \/ lane'[a].alone
  <2>1. others(l) = {}
    BY <1>2, <1>6
  <2>2. CASE a = l
    BY <1>1, <2>1, <2>2
  <2>3. CASE a # l
    BY <1>1, <1>3, <2>1, <2>3 DEF idle
  <2>4. QED
    BY <2>2, <2>3
<1>7. ~(\A a \in Lanes : idle(a)')
  BY <1>1 DEF idle
<1>8. ASSUME NEW a \in Lanes, lane'[a].alone, ~idle(a)' PROVE Knows(a)'
  <2>1. a = l
    BY <1>1, <1>8 DEF idle
  <2>2. others(l) = {}
    BY <1>1, <1>8, <2>1
  <2>3. QED
    BY <1>4, <2>1, <2>2
<1>9. QED
  BY <1>5, <1>6, <1>7, <1>8 DEF BlockInv

\* What happens under handlers at work takes their knowledge away; at rest it has to fit.
LEMMA InterfereBlocks ==
  ASSUME TypeInv, BlockInv, NEW u \in BOOLEAN, interfere(u), ~u /\ Flagged => Flagged'
  PROVE  BlockInv'
<1>1. \A k \in Lanes : /\ lane'[k].at = lane[k].at
                       /\ lane'[k].at # "idle" => ~lane'[k].alone
  <2>1. \A k \in Lanes : lane'[k].at = lane[k].at
    BY Interfered
  <2>2. \A k \in Lanes : lane'[k].at # "idle" => ~lane'[k].alone
    BY Interfered
  <2>3. QED
    BY <2>1, <2>2
<1>2. ~unsettled' => ~unsettled /\ ~u /\ \A k \in Lanes : idle(k)
  BY DEF interfere
<1>3. ~unsettled' => Flagged' /\ \A k \in Lanes : idle(k)'
  BY <1>1, <1>2 DEF BlockInv, idle
<1>4. \A k \in Lanes : ~(lane'[k].alone /\ ~idle(k)')
  BY <1>1 DEF idle
<1>5. QED
  BY <1>3, <1>4 DEF BlockInv

\* The recomputation knows what it needs to.
LEMMA ReadBlocks ==
  ASSUME TypeInv, BlockInv, NEW l \in Lanes,
         readBlocked(l) \/ loadTask(l) \/ lockTaskAsDependencyBlocked(l)
  PROVE  BlockInv'
<1> DEFINE c == lane[l]
<1>1. PICK d : BlockMove(l, d) /\ to(l, d)
  BY BlockMoves
<1>2. UNCHANGED <<parent, request, shadow, link, open, events, disturbed, before>>
  BY BlockMoves
<1>3. /\ c \in Lane /\ Fits(c) /\ lane \in [Lanes -> Lane] /\ ~idle(l) /\ parent \in Parent
      /\ isTaskBlocked \in BOOLEAN /\ lane'[l] = d
  BY <1>1 DEF TypeInv, TypeOK, readBlocked, loadTask, lockTaskAsDependencyBlocked, at, idle,
     isTaskBlocked, to
<1>4. /\ ~unsettled' => c.alone
      /\ c.at = "blocked" => unsettled' = unsettled
  <2>1. ~unsettled => c.alone
    BY <1>3 DEF BlockInv
  <2>2. unsettled' = unsettled \/ settled(l)
    BY DEF readBlocked, loadTask, lockTaskAsDependencyBlocked
  <2>3. c.at = "blocked" => unsettled' = unsettled
    BY DEF readBlocked, loadTask, lockTaskAsDependencyBlocked, at
  <2>4. QED
    BY <2>1, <2>2, <2>3 DEF settled
<1>5. isTaskBlocked' = isTaskBlocked /\ Flagged' = Flagged
  BY <1>2, SameBlockers
<1>6. c.alone => Knows(l)
  BY <1>3 DEF BlockInv
<1>7. CASE /\ d \in Lane /\ Fits(d) /\ d.op = c.op /\ d.alone = c.alone
           /\ \/ c.at = "blocked" /\ d.at = "task" /\ c.op # "chain" /\ d.blocked = isTaskBlocked
              \/ c.at = "blocked" /\ d.at = "write" /\ c.op = "chain" /\ ~isTaskBlocked /\ d.task = c.task
              \/ c.at = "task" /\ d.at = "lock" /\ c.blocked /\ ~parent.flag
              \/ c.at = "task" /\ d.at = "write" /\ ~c.blocked /\ d.task = parent /\ ~d.blocked
              \/ c.at = "lock" /\ d.at = "write" /\ d.task = parent /\ d.blocked /\ parent.status # "done"
  <2>1. d.op # "edit"
    BY <1>3, <1>7 DEF Fits
  <2>2. ASSUME c.alone PROVE Knows(l)'
    <3>1. Knows(l)
      BY <1>6, <2>2
    <3>2. CASE c.at = "blocked" /\ d.at = "task" /\ c.op # "chain" /\ d.blocked = isTaskBlocked
      BY <1>3, <1>5, <1>7, <2>1, <3>2 DEF Knows
    <3>3. CASE c.at = "blocked" /\ d.at = "write" /\ c.op = "chain" /\ ~isTaskBlocked /\ d.task = c.task
      <4>1. d.blocked = isTaskBlocked
        BY <1>3, <1>7, <3>3 DEF Fits, Lane
      <4>2. d.task.status = parent.status /\ parent.status # "done"
        BY <3>1, <3>3 DEF Knows
      <4>3. QED
        BY <1>2, <1>3, <1>5, <1>7, <2>1, <3>3, <4>1, <4>2 DEF Knows
    <3>4. CASE c.at = "task" /\ d.at = "lock" /\ c.blocked
      <4>1. isTaskBlocked /\ c.op # "chain"
        BY <1>3, <3>1, <3>4 DEF Knows, Fits
      <4>2. QED
        BY <1>3, <1>5, <1>7, <2>1, <3>4, <4>1 DEF Knows
    <3>5. CASE c.at = "task" /\ d.at = "write" /\ ~c.blocked /\ d.task = parent /\ ~d.blocked
      <4>1. ~isTaskBlocked /\ c.op # "chain" /\ d.blocked = isTaskBlocked
        BY <1>3, <1>7, <3>1, <3>5 DEF Knows, Fits, Lane
      <4>2. QED
        BY <1>2, <1>3, <1>5, <1>7, <2>1, <3>5, <4>1 DEF Knows
    <3>6. CASE c.at = "lock" /\ d.at = "write" /\ d.task = parent /\ d.blocked /\ parent.status # "done"
      <4>1. isTaskBlocked /\ c.op # "chain" /\ d.blocked = isTaskBlocked
        BY <1>3, <1>7, <3>1, <3>6 DEF Knows, Fits, Lane
      <4>2. QED
        BY <1>2, <1>3, <1>5, <1>7, <2>1, <3>6, <4>1 DEF Knows
    <3>7. QED
      BY <1>7, <3>2, <3>3, <3>4, <3>5, <3>6
  <2>3. d.at # "idle"
    BY <1>7
  <2>4. QED
    BY <1>1, <1>3, <1>4, <1>7, <2>2, <2>3, MoveBlocks
<1>8. CASE d = Idle /\ c.at = "blocked" /\ c.op \in {"chain", "unlock"} /\ isTaskBlocked
  <2>1. c.alone /\ ~unsettled' => Flagged'
    BY <1>4, <1>5, <1>6, <1>8 DEF Knows, Flagged
  <2>2. QED
    BY <1>1, <1>3, <1>4, <1>8, <2>1, IdleFits, MoveBlocks
<1>9. CASE /\ d = afterBlockState(c)
           /\ \/ c.at = "task" /\ c.blocked = parent.flag
              \/ c.at = "lock" /\ parent.status = "done"
  <2>1. c.alone => Flagged'
    BY <1>5, <1>6, <1>9 DEF Knows, Flagged
  <2>2. c.op # "edit" /\ c.at \in {"task", "lock"}
    BY <1>3, <1>9 DEF Fits
  <2>3. CASE c.op \in Syncing
    <3>1. d.at = "sync" /\ d.op = c.op /\ d.alone = c.alone
      BY <1>3, <1>9, <2>2, <2>3, AfterBlock
    <3>2. c.alone => Knows(l)'
      BY <1>3, <2>1, <2>3, <3>1 DEF Knows, Syncing, Advance
    <3>3. QED
      BY <1>1, <1>3, <1>4, <3>1, <3>2, MoveBlocks
  <2>4. CASE c.op \notin Syncing
    <3>1. d = Idle
      BY <1>3, <1>9, <2>2, <2>4, AfterBlock
    <3>2. QED
      BY <1>1, <1>3, <1>4, <2>1, <3>1, IdleFits, MoveBlocks
  <2>5. QED
    BY <2>3, <2>4
<1>10. QED
  BY <1>1, <1>7, <1>8, <1>9 DEF BlockMove

\* Writing the task settles it, when nobody came in between.
LEMMA WriteBlocks ==
  ASSUME TypeInv, BlockInv, NEW l \in Lanes, writeTask(l)
  PROVE  /\ BlockInv'
         /\ ~unsettled => /\ parent.status = "done" => parent'.status = "done"
                          /\ isTaskBlocked /\ parent.status = "stuck" => parent'.status = "stuck"
<1> DEFINE c == lane[l]
<1>1. /\ c.at = "write" /\ c.op # "edit" /\ to(l, afterBlockState(c)) /\ settled(l)
      /\ parent' = (IF c.blocked THEN lockedParent(c) ELSE unblockedParent(c))
      /\ UNCHANGED <<request, shadow, link, open>>
  BY DEF writeTask, at
<1>2. /\ c \in Lane /\ Fits(c) /\ lane \in [Lanes -> Lane] /\ ~idle(l) /\ parent \in Parent
      /\ isTaskBlocked \in BOOLEAN /\ c.blocked \in BOOLEAN
  BY <1>1 DEF TypeInv, TypeOK, idle, isTaskBlocked, Lane
<1>3. ~unsettled => c.alone
  BY <1>2 DEF BlockInv
<1>4. ~unsettled' => c.alone
  BY <1>1, <1>3 DEF settled
<1>5. isTaskBlocked' = isTaskBlocked
  BY <1>1, SameBlockers
<1>6. ASSUME c.alone
      PROVE  /\ Flagged'
             /\ parent.status = "done" => parent'.status = "done"
             /\ isTaskBlocked /\ parent.status = "stuck" => parent'.status = "stuck"
  <2>1. /\ c.blocked = isTaskBlocked /\ c.task.status = parent.status
        /\ c.blocked => parent.status # "done"
    BY <1>1, <1>2, <1>6 DEF BlockInv, Knows
  <2>2. CASE c.blocked
    <3>1. parent'.flag /\ parent'.status = IF c.task.status = "stuck" THEN parent.status ELSE "stuck"
      BY <1>1, <1>2, <2>2, Locked
    <3>2. QED
      BY <1>5, <2>1, <2>2, <3>1 DEF Flagged
  <2>3. CASE ~c.blocked
    <3>1. ~parent'.flag /\ (c.task.status # "stuck" => parent'.status = parent.status)
      BY <1>1, <1>2, <2>3, Unlocked
    <3>2. QED
      BY <1>5, <2>1, <2>3, <3>1 DEF Flagged
  <2>4. QED
    BY <2>2, <2>3
<1>7. BlockInv'
  <2> DEFINE d == afterBlockState(c)
  <2>1. lane'[l] = d
    BY <1>1, <1>2 DEF to
  <2>2. CASE c.op \in Syncing
    <3>1. d.at = "sync" /\ d.op = c.op /\ d.alone = c.alone
      BY <1>1, <1>2, <2>2, AfterBlock
    <3> HIDE DEF d
    <3>2. c.alone => Knows(l)'
      BY <1>6, <2>1, <2>2, <3>1 DEF Knows, Syncing, Advance
    <3>3. QED
      BY <1>1, <1>2, <1>4, <3>1, <3>2, MoveBlocks DEF d
  <2>3. CASE c.op \notin Syncing
    <3>1. d = Idle
      BY <1>1, <1>2, <2>3, AfterBlock
    <3>2. QED
      BY <1>1, <1>2, <1>4, <1>6, <3>1, IdleFits, MoveBlocks
  <2>4. QED
    BY <2>2, <2>3
<1>8. QED
  BY <1>3, <1>6, <1>7

\* Writing a request, its shadow or the task's status leaves the flag as it fits, or is noted.
LEMMA SaveBlocks ==
  ASSUME TypeInv, BlockInv, NEW l \in Lanes,
         \/ save(l) \/ syncLinkedTaskFromDependency(l) \/ writeStatus(l) \/ cascadeCancel(l)
         \/ crash(l)
  PROVE  BlockInv'
<1> DEFINE c == lane[l]
<1>1. /\ c \in Lane /\ Fits(c) /\ lane \in [Lanes -> Lane] /\ ~idle(l)
      /\ isTaskBlocked \in BOOLEAN /\ request \in [Requests -> Request]
  BY DEF TypeInv, TypeOK, idle, isTaskBlocked, save, syncLinkedTaskFromDependency, writeStatus,
     cascadeCancel, crash, at
<1>2. (~unsettled => c.alone) /\ (c.alone => Knows(l))
  BY <1>1 DEF BlockInv
<1>3. CASE save(l)
  <2> DEFINE d == [c EXCEPT !.at = "blocked"]
  <2>1. c.at = "save" /\ to(l, d) /\ unsettled' = unsettled
    BY <1>3 DEF save, at
  <2>2. d.at = "blocked" /\ d.op = c.op /\ d.alone = c.alone /\ c.op \in Recomputing
    BY <1>1, <2>1, TaskBlockingConstants DEF Lane, Fits
  <2> HIDE DEF d
  <2>3. lane'[l] = d
    BY <1>1, <2>1 DEF to
  <2>4. Knows(l)'
    BY <2>2, <2>3 DEF Knows, Recomputing, Advance
  <2>5. QED
    BY <1>1, <1>2, <2>1, <2>2, <2>4, MoveBlocks
<1>4. CASE syncLinkedTaskFromDependency(l)
  <2>1. /\ c.at = "sync" /\ to(l, Idle) /\ UNCHANGED <<parent, link, open, unsettled>>
        /\ \/ request' = request
           \/ \E x, n : request' = [request EXCEPT ![x].linked = n]
    BY <1>4 DEF syncLinkedTaskFromDependency, syncExistingLinkedTask, materializeDependencyTask,
       finish, at
  <2>2. \A r \in Requests : /\ request'[r].status = request[r].status
                            /\ request'[r].archived = request[r].archived
    BY <1>1, <2>1 DEF Request
  <2>3. Flagged' = Flagged
    BY <2>1, <2>2, SameBlockers
  <2>4. c.alone /\ ~unsettled' => Flagged'
    BY <1>2, <2>1, <2>3 DEF Knows, Flagged
  <2>5. QED
    BY <1>1, <1>2, <2>1, <2>4, IdleFits, MoveBlocks
<1>5. CASE writeStatus(l)
  <2>1. /\ c.op = "edit" /\ to(l, Idle) /\ UNCHANGED <<request, link, open, unsettled>>
        /\ parent' = [parent EXCEPT !.status = c.task.status] /\ parent \in Parent
    BY <1>5 DEF writeStatus, finish, TypeInv, TypeOK
  <2>2. isTaskBlocked' = isTaskBlocked /\ parent'.flag = parent.flag
    BY <2>1, SameBlockers DEF Parent
  <2>3. c.alone /\ ~unsettled' => Flagged'
    BY <1>2, <2>1, <2>2 DEF Knows, Flagged
  <2>4. QED
    BY <1>1, <1>2, <2>1, <2>3, IdleFits, MoveBlocks
<1>6. CASE cascadeCancel(l) /\ c.todo = {} /\ finish(l)
  <2>1. c.at = "cascade" /\ to(l, Idle) /\ UNCHANGED <<parent, request, link, open, unsettled>>
    BY <1>6 DEF cascadeCancel, finish, at
  <2>2. Flagged' = Flagged
    BY <2>1, SameBlockers
  <2>3. c.alone /\ ~unsettled' => Flagged'
    BY <1>2, <2>1, <2>2 DEF Knows, Flagged
  <2>4. QED
    BY <1>1, <1>2, <2>1, <2>3, IdleFits, MoveBlocks
<1>7. ASSUME cascadeCancel(l), NEW r \in c.todo, to(l, [c EXCEPT !.todo = @ \ {r}]), unsettled'
      PROVE  BlockInv'
  <2> DEFINE d == [c EXCEPT !.todo = @ \ {r}]
  <2>1. c.at = "cascade" /\ to(l, d) /\ d.at = c.at /\ d.op = c.op /\ d.alone = c.alone
    BY <1>1, <1>7 DEF cascadeCancel, at, Lane
  <2> HIDE DEF d
  <2>2. lane'[l] = d /\ d.op = "cascade"
    BY <1>1, <2>1 DEF to, Fits
  <2>3. Knows(l)'
    BY <1>7, <2>1, <2>2 DEF Knows
  <2>4. QED
    BY <1>1, <1>7, <2>1, <2>3, MoveBlocks
<1>8. CASE crash(l)
  <2>1. to(l, Idle) /\ unsettled'
    BY <1>8 DEF crash, finish
  <2>2. QED
    BY <1>1, <2>1, IdleFits, MoveBlocks
<1>9. QED
  BY <1>3, <1>4, <1>5, <1>6, <1>7, <1>8 DEF cascadeCancel

\* A handler of a request starts.
LEMMA LoadBlocks ==
  ASSUME TypeInv, BlockInv, NEW l \in Lanes, NEW r \in Requests,
         \/ \E s \in Advance : updateStatus(l, r, s)
         \/ cancelDependency(l, r) \/ archiveDependency(l, r) \/ createDependencyRequest(l, r)
  PROVE  BlockInv'
<1>1. PICK op \in Recomputing : loadRequest(l, r, op)
  BY DEF updateStatus, cancelDependency, archiveDependency, createDependencyRequest, Recomputing
<1>2. UNCHANGED <<parent, request, link, open>>
  BY DEF updateStatus, cancelDependency, archiveDependency, createDependencyRequest
<1> DEFINE c == [Idle EXCEPT !.at = "save", !.op = op, !.on = r, !.linked = request[r].linked]
<1>3. c \in Lane /\ Fits(c) /\ begin(l, c)
  BY <1>1, Loaded
<1>4. lane'[l].at = "save" /\ lane'[l].op = op
  BY <1>1, Loaded, ZenonT(60)
<1>5. c.at = "save"
  BY IdleFits DEF Lane
<1> HIDE DEF c
<1>6. Flagged' = Flagged
  BY <1>2, SameBlockers
<1>7. (~unsettled' => ~unsettled /\ Flagged) => Knows(l)'
  BY <1>4, <1>6 DEF Knows, Recomputing, Advance
<1>8. QED
  BY <1>3, <1>5, <1>7, BeginBlocks

\* A link's handler, or an edit, starts.
LEMMA StartBlocks ==
  ASSUME TypeInv, BlockInv, NEW l \in Lanes, NEW copy \in Parent, NEW op, NEW a,
         \/ op = "lock" /\ a = "lock" /\ isTaskBlocked'
         \/ op = "unlock" /\ a = "blocked" /\ (isTaskBlocked' => isTaskBlocked)
         \/ op = "chain" /\ a = "blocked" /\ (isTaskBlocked' => isTaskBlocked)
            /\ copy.status = parent.status /\ parent.status # "done"
         \/ op = "edit" /\ a = "write" /\ ~isTaskBlocked /\ ~isTaskBlocked',
         begin(l, Starting(a, op, copy)), parent' = parent
  PROVE  BlockInv'
<1> DEFINE c == Starting(a, op, copy)
<1>1. /\ c \in Lane /\ Fits(c) /\ c.at = a /\ c.op = op /\ c.task = copy /\ begin(l, c)
      /\ c.at # "idle"
  BY StartingFits
<1> HIDE DEF c
<1>2. lane'[l].at = a /\ lane'[l].op = op /\ lane'[l].task = copy
  BY <1>1, Begun
<1>3. ASSUME ~unsettled' => ~unsettled /\ Flagged PROVE Knows(l)'
  <2>1. CASE op = "lock" /\ a = "lock" /\ isTaskBlocked'
    BY <1>2, <2>1 DEF Knows
  <2>2. CASE op = "unlock" /\ a = "blocked" /\ (isTaskBlocked' => isTaskBlocked)
    BY <1>2, <1>3, <2>2 DEF Knows, Flagged
  <2>3. CASE /\ op = "chain" /\ a = "blocked" /\ (isTaskBlocked' => isTaskBlocked)
             /\ copy.status = parent.status /\ parent.status # "done"
    BY <1>2, <1>3, <2>3 DEF Knows, Flagged
  <2>4. CASE op = "edit" /\ a = "write" /\ ~isTaskBlocked /\ ~isTaskBlocked'
    BY <1>2, <1>3, <2>4 DEF Knows, Flagged
  <2>5. QED
    BY <2>1, <2>2, <2>3, <2>4
<1>4. QED
  BY <1>1, <1>3, BeginBlocks

\* The task link and its blocker.
LEMMA LinkBlocks ==
  ASSUME TypeInv, BlockInv,
         \/ \E l \in Lanes : \/ createDependency(l)
                             \/ \E s \in {"none", "archived"} : removeDependency(l, s)
                             \/ processTaskCompletion(l)
         \/ completeBlocker \/ reopenBlocker
  PROVE  BlockInv'
<1>1. parent \in Parent /\ open \in BOOLEAN
  BY DEF TypeInv, TypeOK
<1>2. request' = request => \A r \in Requests : blocking(r)' = blocking(r)
  BY DEF blocking
<1>3. ASSUME NEW l \in Lanes, createDependency(l) PROVE BlockInv'
  <2>1. link # "active" /\ link' = "active" /\ open' = open
    BY <1>3 DEF createDependency
  <2>2. CASE open /\ linkOp(l, "lock", NoTask, "lock")
    <3>1. begin(l, Starting("lock", "lock", NoTask)) /\ parent' = parent
      BY <2>2 DEF linkOp, Starting
    <3>2. isTaskBlocked'
      BY <2>1, <2>2 DEF isTaskBlocked
    <3>3. QED
      BY <3>1, <3>2, IdleFits, StartBlocks
  <2>3. CASE ~open /\ interfere(FALSE) /\ UNCHANGED <<parent, request>>
    <3>1. Flagged' = Flagged
      BY <1>2, <2>1, <2>3 DEF Flagged, isTaskBlocked
    <3>2. QED
      BY <2>3, <3>1, InterfereBlocks
  <2>4. QED
    BY <1>3, <2>2, <2>3 DEF createDependency
<1>4. ASSUME NEW l \in Lanes, NEW s \in {"none", "archived"}, removeDependency(l, s) PROVE BlockInv'
  <2>1. link = "active" /\ link' = s /\ linkOp(l, "unlock", NoTask, "blocked")
    BY <1>4 DEF removeDependency
  <2>2. begin(l, Starting("blocked", "unlock", NoTask)) /\ parent' = parent /\ request' = request
    BY <2>1 DEF linkOp, Starting
  <2>3. isTaskBlocked' => isTaskBlocked
    BY <1>2, <2>1, <2>2 DEF isTaskBlocked
  <2>4. QED
    BY <2>2, <2>3, IdleFits, StartBlocks
<1>5. ASSUME NEW l \in Lanes, processTaskCompletion(l) PROVE BlockInv'
  <2> DEFINE copy == [NoTask EXCEPT !.status = parent.status]
  <2>1. copy \in Parent /\ copy.status = parent.status
    BY <1>1, IdleFits DEF Parent
  <2>2. /\ open' = FALSE /\ link' = link /\ parent.status # "done"
        /\ begin(l, Starting("blocked", "chain", copy)) /\ parent' = parent /\ request' = request
    BY <1>5 DEF processTaskCompletion, linkOp, Starting
  <2> HIDE DEF copy
  <2>3. isTaskBlocked' => isTaskBlocked
    BY <1>2, <2>2 DEF isTaskBlocked
  <2>4. QED
    BY <2>1, <2>2, <2>3, StartBlocks
<1>6. ASSUME reopenBlocker PROVE BlockInv'
  <2>1. link' = link /\ interfere(link = "active") /\ UNCHANGED <<parent, request>>
    BY <1>6 DEF reopenBlocker
  <2>2. link # "active" => Flagged' = Flagged
    BY <1>2, <2>1 DEF isTaskBlocked, Flagged
  <2>3. PICK u \in BOOLEAN : u = (link = "active")
    OBVIOUS
  <2>4. interfere(u)
    BY <2>1, <2>3 DEF interfere
  <2>5. ~u /\ Flagged => Flagged'
    BY <2>2, <2>3
  <2>6. QED
    BY <2>4, <2>5, InterfereBlocks
<1>7. ASSUME completeBlocker PROVE BlockInv'
  <2> DEFINE u == link = "active" /\ parent.flag
  <2>1. /\ open' = FALSE /\ link' = link /\ interfere(u) /\ UNCHANGED <<parent, request>>
    BY <1>7 DEF completeBlocker
  <2>2. (isTaskBlocked' => isTaskBlocked) /\ (link # "active" => isTaskBlocked' = isTaskBlocked)
    BY <1>2, <2>1 DEF isTaskBlocked
  <2>3. u \in BOOLEAN /\ (~u /\ Flagged => Flagged')
    BY <1>1, <2>1, <2>2 DEF Flagged, Parent
  <2> HIDE DEF u
  <2>4. QED
    BY <2>1, <2>3, InterfereBlocks
<1>8. QED
  BY <1>3, <1>4, <1>5, <1>6, <1>7

\* Edits of the task itself.
LEMMA TaskBlocks ==
  ASSUME TypeInv, BlockInv,
         \/ \E l \in Lanes : (\E s \in TaskStatus : updateTask(l, s)) \/ archiveParent(l)
         \/ \E s \in TaskStatus : writeStatusUnasked(s)
         \/ updateCustomFields \/ restoreParent \/ archiveOnly
  PROVE  BlockInv'
<1>1. parent \in Parent
  BY DEF TypeInv, TypeOK
<1>2. UNCHANGED <<request, link, open>>
  BY DEF updateTask, archiveParent, writeStatusUnasked, updateCustomFields, restoreParent, archiveOnly
<1>3. isTaskBlocked' = isTaskBlocked
  BY <1>2, SameBlockers
<1>4. ASSUME NEW l \in Lanes, NEW s \in TaskStatus, updateTask(l, s) PROVE BlockInv'
  <2> DEFINE copy == [NoTask EXCEPT !.status = s]
  <2>1. copy \in Parent
    BY IdleFits DEF Parent
  <2>2. begin(l, Starting("write", "edit", copy)) /\ parent' = parent /\ ~isTaskBlocked
    BY <1>4 DEF updateTask, Starting
  <2> HIDE DEF copy
  <2>3. QED
    BY <1>3, <2>1, <2>2, StartBlocks
<1>5. ASSUME NEW l \in Lanes, archiveParent(l) PROVE BlockInv'
  <2> DEFINE todo == {r \in Requests : blocking(r)}
             c == [Idle EXCEPT !.at = "cascade", !.op = "cascade", !.todo = todo]
  <2>1. begin(l, c) /\ parent' = [parent EXCEPT !.archived = TRUE]
    BY <1>5 DEF archiveParent
  <2>2. c \in Lane /\ c.at = "cascade" /\ c.op = "cascade" /\ c.on = None
    BY IdleFits DEF Lane, Op
  <2> HIDE DEF c
  <2>3. Fits(c) /\ c.at # "idle"
    BY <2>2 DEF Fits, Recomputing, Advance
  <2>4. lane'[l].at = "cascade" /\ lane'[l].op = "cascade"
    BY <2>1, <2>2, <2>3, Begun
  <2>5. Flagged' = Flagged
    BY <1>1, <1>3, <2>1 DEF Flagged, Parent
  <2>6. (~unsettled' => ~unsettled /\ Flagged) => Knows(l)'
    BY <2>4, <2>5 DEF Knows
  <2>7. QED
    BY <2>1, <2>2, <2>3, <2>6, BeginBlocks
<1>6. ASSUME NEW s \in TaskStatus, writeStatusUnasked(s) PROVE BlockInv'
  <2> DEFINE u == parent.status = "done"
  <2>1. parent' = [parent EXCEPT !.status = s] /\ interfere(u)
    BY <1>6 DEF writeStatusUnasked
  <2>2. u \in BOOLEAN /\ (~u /\ Flagged => Flagged')
    BY <1>1, <1>3, <2>1 DEF Flagged, Parent
  <2> HIDE DEF u
  <2>3. QED
    BY <2>1, <2>2, InterfereBlocks
<1>7. ASSUME updateCustomFields PROVE BlockInv'
  <2>1. parent' = [parent EXCEPT !.flag = FALSE, !.captured = None] /\ interfere(parent.flag)
    BY <1>7 DEF updateCustomFields
  <2>2. parent.flag \in BOOLEAN /\ (~parent.flag /\ Flagged => Flagged')
    BY <1>1, <1>3, <2>1 DEF Flagged, Parent
  <2>3. QED
    BY <2>1, <2>2, InterfereBlocks
<1>8. CASE restoreParent \/ archiveOnly
  <2>1. /\ \E b \in BOOLEAN : parent' = [parent EXCEPT !.archived = b]
        /\ UNCHANGED <<lane, unsettled>>
    BY <1>8 DEF restoreParent, archiveOnly
  <2>2. parent'.status = parent.status /\ parent'.flag = parent.flag
    BY <1>1, <2>1 DEF Parent
  <2>3. Flagged' = Flagged
    BY <1>3, <2>2 DEF Flagged
  <2>4. ASSUME NEW l \in Lanes, Knows(l) PROVE Knows(l)'
    BY <1>3, <2>1, <2>2, <2>3, <2>4 DEF Knows
  <2>5. QED
    BY <2>1, <2>3, <2>4 DEF BlockInv, idle
<1>9. QED
  BY <1>4, <1>5, <1>6, <1>7, <1>8

\* Every step keeps what is known of the blockers.
LEMMA BlockStep == TypeInv /\ BlockInv /\ [Next]_vars => BlockInv'
<1> SUFFICES ASSUME TypeInv, BlockInv, [Next]_vars PROVE BlockInv'
  OBVIOUS
<1>1. CASE UNCHANGED <<parent, request, link, open, lane, unsettled>>
  <2>1. UNCHANGED <<parent, request, link, open, lane, unsettled>>
    BY <1>1
  <2>2. Flagged' = Flagged /\ isTaskBlocked' = isTaskBlocked
    BY <2>1, SameBlockers
  <2>3. ASSUME NEW l \in Lanes, Knows(l) PROVE Knows(l)'
    BY <2>1, <2>2, <2>3 DEF Knows
  <2>4. QED
    BY <2>1, <2>2, <2>3 DEF BlockInv, idle
<1>2. CASE UNCHANGED vars
  BY <1>1, <1>2 DEF vars
<1>3. ASSUME NEW r \in Requests, NEW i \in DOMAIN shadow[r], editShadow(r, i) PROVE BlockInv'
  BY <1>1, <1>3 DEF editShadow
<1>4. CASE Next
  BY <1>3, <1>4, LoadBlocks, SaveBlocks, ReadBlocks, WriteBlocks, LinkBlocks, TaskBlocks DEF Next
<1>5. QED
  BY <1>2, <1>4

\* Both invariants hold throughout.
LEMMA BlockCorrect == Spec => [](TypeInv /\ BlockInv)
<1>1. Init => BlockInv
  <2> SUFFICES ASSUME Init PROVE BlockInv
    OBVIOUS
  <2>1. \A l \in Lanes : idle(l)
    BY IdleFits DEF Init, idle
  <2>2. ~isTaskBlocked
    BY TaskBlockingConstants DEF Init, isTaskBlocked, blocking
  <2>3. ~parent.flag
    BY DEF Init, NoTask
  <2>4. QED
    BY <2>1, <2>2, <2>3 DEF BlockInv, Flagged
<1>2. QED
  BY <1>1, TypeInit, TypeStep, BlockStep, PTL DEF Spec

\* At rest, and unless the last change was one that nobody recomputes or that went wrong, a task
\* that is not done is flagged exactly while something blocks it, whatever came before.
THEOREM FlagTells == Spec => []BlockTruth
<1>1. TypeInv /\ BlockInv => BlockTruth
  <2> SUFFICES ASSUME TypeInv, BlockInv, \A l \in Lanes : idle(l), ~unsettled, parent.status # "done"
               PROVE  parent.flag = isTaskBlocked
    BY DEF BlockTruth
  <2>1. Flagged
    BY DEF BlockInv
  <2>2. parent.flag \in BOOLEAN /\ isTaskBlocked \in BOOLEAN
    BY DEF TypeInv, TypeOK, Parent, isTaskBlocked
  <2>3. QED
    BY <2>1, <2>2 DEF Flagged
<1>2. QED
  BY <1>1, BlockCorrect, PTL

\* Who changes the status: the write of a recomputation, an edit, or one who asks nothing.
LEMMA WhoWrites ==
  ASSUME TypeInv, [Next]_vars, parent'.status # parent.status
  PROVE  \/ \E l \in Lanes : writeTask(l) \/ writeStatus(l)
         \/ \E s \in TaskStatus : writeStatusUnasked(s)
<1>1. parent \in Parent
  BY DEF TypeInv, TypeOK
<1>2. ~UNCHANGED vars
  BY DEF vars
<1>3. ASSUME NEW l \in Lanes,
             \/ \E x \in Requests : \/ \E s \in Advance : updateStatus(l, x, s)
                                    \/ cancelDependency(l, x) \/ archiveDependency(l, x)
                                    \/ createDependencyRequest(l, x)
             \/ save(l) \/ readBlocked(l) \/ loadTask(l) \/ lockTaskAsDependencyBlocked(l)
             \/ syncLinkedTaskFromDependency(l)
             \/ createDependency(l) \/ (\E s \in {"none", "archived"} : removeDependency(l, s))
             \/ processTaskCompletion(l) \/ (\E s \in TaskStatus : updateTask(l, s))
             \/ cascadeCancel(l) \/ crash(l)
      PROVE  parent' = parent
  BY <1>3 DEF updateStatus, cancelDependency, archiveDependency, createDependencyRequest, save,
     readBlocked, loadTask, lockTaskAsDependencyBlocked, syncLinkedTaskFromDependency,
     createDependency, removeDependency, processTaskCompletion, linkOp, updateTask, cascadeCancel,
     crash
<1>4. ASSUME (\E l \in Lanes : archiveParent(l)) \/ updateCustomFields \/ restoreParent \/ archiveOnly
      PROVE  parent'.status = parent.status
  BY <1>1, <1>4 DEF archiveParent, updateCustomFields, restoreParent, archiveOnly, Parent
<1>5. ASSUME \/ completeBlocker \/ reopenBlocker
             \/ \E x \in Requests : \E i \in DOMAIN shadow[x] : editShadow(x, i)
      PROVE  parent' = parent
  BY <1>5 DEF completeBlocker, reopenBlocker, editShadow
<1>6. QED
  BY <1>2, <1>3, <1>4, <1>5 DEF Next

\* Blocking and unblocking reopen no done task, unless it was completed under a handler.
THEOREM DoneIsKept == Spec => DoneStays
<1>1. TypeInv /\ BlockInv /\ [Next]_vars =>
        [parent.status = "done" /\ parent'.status # "done"
           => \/ unsettled
              \/ \E l \in Lanes : writeStatus(l)
              \/ \E s \in TaskStatus : writeStatusUnasked(s)]_vars
  <2> SUFFICES ASSUME TypeInv, BlockInv, [Next]_vars, parent.status = "done",
                      parent'.status # "done", ~unsettled
               PROVE  \/ \E l \in Lanes : writeStatus(l)
                      \/ \E s \in TaskStatus : writeStatusUnasked(s)
    OBVIOUS
  <2>1. \A l \in Lanes : ~writeTask(l)
    BY WriteBlocks
  <2>2. QED
    BY <2>1, WhoWrites
<1>2. QED
  BY <1>1, BlockCorrect, PTL DEF Spec, DoneStays

\* Neither an edit nor a recomputation takes a blocked task out of stuck, unless an edit was let
\* through before the block; those who ask nothing about blockers do.
THEOREM StuckIsHeld == Spec => HeldAtStuck
<1>1. TypeInv /\ BlockInv /\ [Next]_vars =>
        [isTaskBlocked /\ parent.status = "stuck" /\ parent'.status # "stuck"
           => unsettled \/ \E s \in TaskStatus : writeStatusUnasked(s)]_vars
  <2> SUFFICES ASSUME TypeInv, BlockInv, [Next]_vars, isTaskBlocked, parent.status = "stuck",
                      parent'.status # "stuck", ~unsettled
               PROVE  \E s \in TaskStatus : writeStatusUnasked(s)
    OBVIOUS
  <2>1. \A l \in Lanes : ~writeTask(l)
    BY WriteBlocks
  <2>2. ASSUME NEW l \in Lanes, writeStatus(l) PROVE FALSE
    <3>1. ~idle(l) /\ lane[l].op = "edit"
      BY <2>2 DEF writeStatus, at, idle
    <3>2. QED
      BY <3>1 DEF BlockInv, Knows
  <2>3. QED
    BY <2>1, <2>2, WhoWrites
<1>2. QED
  BY <1>1, BlockCorrect, PTL DEF Spec, HeldAtStuck

-----------------------------------------------------------------------------
\* A lone handler about to write has the captured status as it is (the background chain has
\* loaded none, an edit needs none).
HoldsCopy(l) ==
  lane[l].alone /\ lane[l].at = "write" /\ lane[l].op \notin {"edit", "chain"}
    => lane[l].task.captured = parent.captured

\* While the task is flagged, what is captured is the status it was locked in.
RestoreInv ==
  /\ parent.flag /\ before # None => parent.captured = IF before = "stuck" THEN None ELSE before
  /\ \A l \in Lanes : HoldsCopy(l)

\* A handler that starts writes only later, and ends the solitude of the others.
LEMMA BeginHolds ==
  ASSUME TypeInv, NEW l \in Lanes, NEW c \in Lane, Fits(c), begin(l, c),
         c.at # "write" \/ c.op = "edit"
  PROVE  \A k \in Lanes : HoldsCopy(k)'
<1>1. lane'[l].at = c.at /\ lane'[l].op = c.op
  BY Begun
<1>2. \A k \in Lanes \ {l} : lane'[k].at # "idle" => ~lane'[k].alone
  BY Begun
<1>3. QED
  BY <1>1, <1>2 DEF HoldsCopy

\* What happens under the handlers leaves none of them alone.
LEMMA InterfereHolds ==
  ASSUME TypeInv, NEW u \in BOOLEAN, interfere(u)
  PROVE  \A k \in Lanes : HoldsCopy(k)'
<1>1. \A k \in Lanes : lane'[k].at # "idle" => ~lane'[k].alone
  BY Interfered
<1>2. QED
  BY <1>1 DEF HoldsCopy

\* A handler that moves on to a write has just loaded the task.
LEMMA MoveHolds ==
  ASSUME TypeInv, \A k \in Lanes : HoldsCopy(k), NEW l \in Lanes, NEW d, to(l, d),
         d.at = "write" => d.op = "chain" \/ d.task = parent, UNCHANGED parent
  PROVE  \A k \in Lanes : HoldsCopy(k)'
<1>1. lane'[l] = d /\ \A k \in Lanes \ {l} : lane'[k] = lane[k]
  BY DEF to, TypeInv, TypeOK
<1>2. QED
  BY <1>1 DEF HoldsCopy

\* A handler that starts leaves the captured status and what is known of it.
LEMMA LoadRestores ==
  ASSUME TypeInv, RestoreInv, NEW l \in Lanes,
         \/ \E r \in Requests : \/ \E s \in Advance : updateStatus(l, r, s)
                                \/ cancelDependency(l, r) \/ archiveDependency(l, r)
                                \/ createDependencyRequest(l, r)
         \/ \E s \in TaskStatus : updateTask(l, s)
         \/ archiveParent(l)
  PROVE  RestoreInv'
<1>1. ASSUME NEW r \in Requests, NEW op \in Recomputing, loadRequest(l, r, op), UNCHANGED <<parent, before>>
      PROVE  RestoreInv'
  <2> DEFINE c == [Idle EXCEPT !.at = "save", !.op = op, !.on = r, !.linked = request[r].linked]
  <2>1. begin(l, c) /\ c \in Lane /\ Fits(c)
    BY <1>1, Loaded
  <2>2. c.at = "save"
    BY IdleFits DEF Lane
  <2> HIDE DEF c
  <2>3. \A k \in Lanes : HoldsCopy(k)'
    BY <2>1, <2>2, BeginHolds
  <2>4. QED
    BY <1>1, <2>3 DEF RestoreInv
<1>2. ASSUME NEW s \in TaskStatus, updateTask(l, s) PROVE RestoreInv'
  <2> DEFINE copy == [NoTask EXCEPT !.status = s]
  <2>1. copy \in Parent
    BY IdleFits DEF Parent
  <2>2. begin(l, Starting("write", "edit", copy)) /\ UNCHANGED <<parent, before>>
    BY <1>2 DEF updateTask, Starting
  <2> HIDE DEF copy
  <2>3. /\ Starting("write", "edit", copy) \in Lane /\ Fits(Starting("write", "edit", copy))
        /\ Starting("write", "edit", copy).op = "edit"
    BY <2>1, StartingFits
  <2>4. \A k \in Lanes : HoldsCopy(k)'
    BY <2>2, <2>3, BeginHolds
  <2>5. QED
    BY <2>2, <2>4 DEF RestoreInv
<1>3. ASSUME archiveParent(l) PROVE RestoreInv'
  <2> DEFINE todo == {r \in Requests : blocking(r)}
             c == [Idle EXCEPT !.at = "cascade", !.op = "cascade", !.todo = todo]
  <2>1. begin(l, c) /\ before' = before /\ parent' = [parent EXCEPT !.archived = TRUE]
    BY <1>3 DEF archiveParent
  <2>2. c \in Lane /\ c.at = "cascade" /\ c.op = "cascade" /\ c.on = None
    BY IdleFits DEF Lane, Op
  <2> HIDE DEF c
  <2>3. Fits(c)
    BY <2>2 DEF Fits, Recomputing, Advance
  <2>4. \A k \in Lanes : HoldsCopy(k)'
    BY <2>1, <2>2, <2>3, BeginHolds
  <2>5. parent'.flag = parent.flag /\ parent'.captured = parent.captured
    BY <2>1 DEF TypeInv, TypeOK, Parent
  <2>6. QED
    BY <2>1, <2>4, <2>5 DEF RestoreInv
<1>4. \A s \in Advance \cup {"cancelled", "archive", "create"} : s \in Recomputing
  BY DEF Recomputing
<1>5. QED
  BY <1>1, <1>2, <1>3, <1>4
     DEF updateStatus, cancelDependency, archiveDependency, createDependencyRequest

\* So does the task link, whoever its operation starts.
LEMMA LinkRestores ==
  ASSUME TypeInv, RestoreInv,
         \/ \E l \in Lanes : \/ createDependency(l)
                             \/ \E s \in {"none", "archived"} : removeDependency(l, s)
                             \/ processTaskCompletion(l)
         \/ completeBlocker \/ reopenBlocker
  PROVE  RestoreInv'
<1>1. ASSUME NEW u \in BOOLEAN, interfere(u), UNCHANGED <<parent, before>> PROVE RestoreInv'
  <2>1. \A k \in Lanes : HoldsCopy(k)'
    BY <1>1, InterfereHolds
  <2>2. QED
    BY <1>1, <2>1 DEF RestoreInv
<1>2. ASSUME NEW l \in Lanes, NEW copy \in Parent, NEW op, NEW a,
             \/ op = "lock" /\ a = "lock"
             \/ op = "unlock" /\ a = "blocked"
             \/ op = "chain" /\ a = "blocked",
             linkOp(l, op, copy, a)
      PROVE  RestoreInv'
  <2>1. begin(l, Starting(a, op, copy)) /\ UNCHANGED <<parent, before>>
    BY <1>2 DEF linkOp, Starting
  <2>2. /\ Starting(a, op, copy) \in Lane /\ Fits(Starting(a, op, copy))
        /\ Starting(a, op, copy).at # "write"
    BY <1>2, StartingFits
  <2>3. \A k \in Lanes : HoldsCopy(k)'
    BY <2>1, <2>2, BeginHolds
  <2>4. QED
    BY <2>1, <2>3 DEF RestoreInv
<1>3. ASSUME NEW l \in Lanes, createDependency(l) PROVE RestoreInv'
  BY <1>1, <1>2, <1>3, IdleFits DEF createDependency
<1>4. ASSUME NEW l \in Lanes, NEW s \in {"none", "archived"}, removeDependency(l, s) PROVE RestoreInv'
  BY <1>2, <1>4, IdleFits DEF removeDependency
<1>5. ASSUME NEW l \in Lanes, processTaskCompletion(l) PROVE RestoreInv'
  <2>1. [NoTask EXCEPT !.status = parent.status] \in Parent
    BY IdleFits DEF TypeInv, TypeOK, Parent
  <2>2. QED
    BY <1>2, <1>5, <2>1 DEF processTaskCompletion
<1>6. ASSUME reopenBlocker PROVE RestoreInv'
  BY <1>1, <1>6 DEF reopenBlocker
<1>7. ASSUME completeBlocker PROVE RestoreInv'
  <2>1. parent.flag \in BOOLEAN
    BY DEF TypeInv, TypeOK, Parent
  <2>2. QED
    BY <1>1, <1>7, <2>1 DEF completeBlocker
<1>8. QED
  BY <1>3, <1>4, <1>5, <1>6, <1>7

\* So do the statements of a handler that read, write a row other than the task, or write its
\* status; and one that ends.
LEMMA MoveRestores ==
  ASSUME TypeInv, RestoreInv, NEW l \in Lanes,
         \/ save(l) \/ readBlocked(l) \/ loadTask(l) \/ lockTaskAsDependencyBlocked(l)
         \/ syncLinkedTaskFromDependency(l) \/ writeStatus(l) \/ cascadeCancel(l) \/ crash(l)
  PROVE  RestoreInv'
<1>1. lane[l] \in Lane /\ Fits(lane[l]) /\ lane \in [Lanes -> Lane] /\ parent \in Parent
  BY DEF TypeInv, TypeOK
<1>2. ASSUME NEW d, to(l, d), d.at = "write" => d.op = "chain" \/ d.task = parent,
             UNCHANGED <<parent, before>>
      PROVE  RestoreInv'
  <2>1. \A k \in Lanes : HoldsCopy(k)'
    BY <1>2, MoveHolds DEF RestoreInv
  <2>2. QED
    BY <1>2, <2>1 DEF RestoreInv
<1>3. CASE save(l)
  <2> DEFINE d == [lane[l] EXCEPT !.at = "blocked"]
  <2>1. to(l, d) /\ UNCHANGED <<parent, before>>
    BY <1>3 DEF save
  <2>2. d.at = "blocked"
    BY <1>1 DEF Lane
  <2> HIDE DEF d
  <2>3. QED
    BY <1>2, <2>1, <2>2
<1>4. CASE readBlocked(l) \/ loadTask(l) \/ lockTaskAsDependencyBlocked(l)
  <2>1. PICK d : BlockMove(l, d) /\ to(l, d)
    BY <1>4, BlockMoves
  <2>2. UNCHANGED <<parent, before>>
    BY <1>4, BlockMoves
  <2>3. d.at = "write" => d.op = "chain" \/ d.task = parent
    <3>1. CASE d = afterBlockState(lane[l]) /\ lane[l].at \in {"task", "lock"}
      <4>1. lane[l].op # "edit"
        BY <1>1, <3>1 DEF Fits
      <4>2. d.at # "write"
        BY <1>1, <3>1, <4>1, AfterBlock, IdleFits
      <4>3. QED
        BY <4>2
    <3>2. QED
      BY <2>1, <3>1, IdleFits DEF BlockMove
  <2>4. QED
    BY <1>2, <2>1, <2>2, <2>3
<1>5. CASE syncLinkedTaskFromDependency(l) \/ crash(l)
  <2>1. to(l, Idle) /\ UNCHANGED <<parent, before>>
    BY <1>5 DEF syncLinkedTaskFromDependency, crash, finish
  <2>2. QED
    BY <1>2, <2>1, IdleFits
<1>6. CASE writeStatus(l)
  <2>1. to(l, Idle) /\ before' = before /\ parent' = [parent EXCEPT !.status = lane[l].task.status]
    BY <1>6 DEF writeStatus, finish
  <2>2. parent'.flag = parent.flag /\ parent'.captured = parent.captured
    BY <1>1, <2>1 DEF Parent
  <2>3. lane'[l] = Idle /\ \A k \in Lanes \ {l} : lane'[k] = lane[k]
    BY <1>1, <2>1 DEF to
  <2>4. \A k \in Lanes : HoldsCopy(k)'
    BY <2>2, <2>3, IdleFits DEF HoldsCopy, RestoreInv
  <2>5. QED
    BY <2>1, <2>2, <2>4 DEF RestoreInv
<1>7. CASE cascadeCancel(l)
  <2>1. lane[l].at = "cascade" /\ UNCHANGED <<parent, before>>
    BY <1>7 DEF cascadeCancel, at
  <2>2. CASE to(l, Idle)
    BY <1>2, <2>1, <2>2, IdleFits
  <2>3. ASSUME NEW r, to(l, [lane[l] EXCEPT !.todo = @ \ {r}]) PROVE RestoreInv'
    <3> DEFINE d == [lane[l] EXCEPT !.todo = @ \ {r}]
    <3>1. d.at = "cascade"
      BY <1>1, <2>1 DEF Lane
    <3> HIDE DEF d
    <3>2. QED
      BY <1>2, <2>1, <2>3, <3>1 DEF d
  <2>4. QED
    BY <1>7, <2>2, <2>3 DEF cascadeCancel, finish
<1>8. QED
  BY <1>3, <1>4, <1>5, <1>6, <1>7

\* Writing the task: a lock captures the status it finds unless one is captured already, and
\* the history follows; an unlock clears the flag.  A lone one that finds the task at stuck
\* gives back what was captured.
LEMMA WriteRestores ==
  ASSUME TypeInv, BlockInv, RestoreInv, NEW l \in Lanes, writeTask(l)
  PROVE  /\ RestoreInv'
         /\ ~unsettled /\ parent.flag /\ ~parent'.flag /\ parent.status = "stuck" /\ before # None
            /\ lane[l].op \notin {"chain", "unlock"}
              => parent'.status = IF before = "stuck" THEN "not_started" ELSE before
<1> DEFINE c == lane[l]
<1>1. /\ c.at = "write" /\ c.op # "edit" /\ to(l, afterBlockState(c))
      /\ parent' = (IF c.blocked THEN lockedParent(c) ELSE unblockedParent(c))
      /\ before' = IF c.blocked /\ (~parent.flag \/ parent'.captured # parent.captured)
                   THEN IF parent.captured = None /\ ~unsettled THEN parent.status ELSE None
                   ELSE before
  BY DEF writeTask, at
<1>2. /\ c \in Lane /\ Fits(c) /\ lane \in [Lanes -> Lane] /\ ~idle(l) /\ parent \in Parent
      /\ c.task \in Parent /\ before \in TaskStatus \cup {None}
  BY <1>1 DEF TypeInv, TypeOK, idle, Lane
<1>3. ~unsettled => c.alone
  BY <1>2 DEF BlockInv
<1>4. ASSUME c.alone, c.op # "chain"
      PROVE  c.task.captured = parent.captured /\ c.task.status = parent.status
  BY <1>1, <1>2, <1>4 DEF RestoreInv, HoldsCopy, BlockInv, Knows
<1>5. lane'[l] = afterBlockState(c) /\ \A k \in Lanes \ {l} : lane'[k] = lane[k]
  BY <1>1, <1>2 DEF to
<1>6. \A k \in Lanes : HoldsCopy(k)'
  <2>1. lane'[l].at # "write"
    BY <1>1, <1>2, <1>5, AfterBlock, IdleFits
  <2>2. ASSUME NEW k \in Lanes \ {l} PROVE ~(lane'[k].alone /\ lane'[k].at = "write")
    BY <1>2, <1>5, <2>2 DEF BlockInv, idle
  <2>3. QED
    BY <2>1, <2>2 DEF HoldsCopy
<1>7. CASE c.blocked
  <2> DEFINE v == IF c.task.captured = None /\ c.task.status # "stuck"
                  THEN c.task.status ELSE c.task.captured
             x == IF c.task.status = "stuck" THEN parent.status ELSE "stuck"
  <2>1. parent' = [parent EXCEPT !.status = x, !.flag = TRUE, !.captured = v]
    BY <1>1, <1>7 DEF lockedParent, written
  <2>2. parent'.captured = v /\ parent'.flag
    BY <1>2, <2>1 DEF Parent
  <2>3. c.op # "chain"
    BY <1>2, <1>7 DEF Fits
  <2>4. ASSUME before' # None
        PROVE  parent'.captured = IF before' = "stuck" THEN None ELSE before'
    <3>1. CASE ~parent.flag \/ parent'.captured # parent.captured
      <4>1. before' = parent.status /\ parent.captured = None /\ ~unsettled
        BY <1>1, <1>7, <2>4, <3>1
      <4>2. c.task.captured = None /\ c.task.status = parent.status
        BY <1>3, <1>4, <2>3, <4>1
      <4>3. QED
        BY <2>2, <4>1, <4>2
    <3>2. CASE parent.flag /\ parent'.captured = parent.captured
      BY <1>1, <2>4, <3>2 DEF RestoreInv
    <3>3. QED
      BY <3>1, <3>2
  <2>5. QED
    BY <1>6, <2>2, <2>4 DEF RestoreInv
<1>8. CASE ~c.blocked
  <2>1. ~parent'.flag
    BY <1>1, <1>2, <1>8, Unlocked
  <2>2. ASSUME ~unsettled, parent.flag, parent.status = "stuck", before # None,
               c.op \notin {"chain", "unlock"}
        PROVE  parent'.status = IF before = "stuck" THEN "not_started" ELSE before
    <3>1. c.task.captured = parent.captured /\ c.task.status = "stuck"
      BY <1>3, <1>4, <2>2
    <3> DEFINE s == IF c.task.captured = None THEN "not_started" ELSE c.task.captured
    <3>2. parent' = written(c, s, FALSE, None)
      BY <1>1, <1>8, <2>2, <3>1 DEF unblockedParent, buildUnblockUpdates
    <3>3. s \in TaskStatus /\ s # "stuck"
      BY <1>2 DEF Parent, TaskStatus
    <3> HIDE DEF s
    <3>4. parent'.status = s
      BY <1>2, <3>1, <3>2, <3>3 DEF written, Parent
    <3>5. parent.captured = IF before = "stuck" THEN None ELSE before
      BY <2>2 DEF RestoreInv
    <3>6. QED
      BY <2>2, <3>1, <3>4, <3>5 DEF s
  <2>3. QED
    BY <1>6, <2>1, <2>2 DEF RestoreInv
<1>9. QED
  BY <1>7, <1>8

\* Who writes the task and asks nothing leaves the captured status, or takes the flag with it.
LEMMA TaskRestores ==
  ASSUME TypeInv, RestoreInv,
         \/ \E s \in TaskStatus : writeStatusUnasked(s)
         \/ updateCustomFields \/ restoreParent \/ archiveOnly
  PROVE  RestoreInv'
<1>1. parent \in Parent /\ before' = before
  BY DEF TypeInv, TypeOK, writeStatusUnasked, updateCustomFields, restoreParent, archiveOnly
<1>2. ~parent'.flag \/ (parent'.flag = parent.flag /\ parent'.captured = parent.captured)
  BY <1>1 DEF writeStatusUnasked, updateCustomFields, restoreParent, archiveOnly, Parent
<1>3. \A k \in Lanes : HoldsCopy(k)'
  <2>1. CASE \E s \in TaskStatus : writeStatusUnasked(s)
    BY <2>1, InterfereHolds DEF writeStatusUnasked
  <2>2. CASE updateCustomFields
    BY <1>1, <2>2, InterfereHolds DEF updateCustomFields, Parent
  <2>3. CASE restoreParent \/ archiveOnly
    BY <1>1, <2>3 DEF restoreParent, archiveOnly, RestoreInv, HoldsCopy, Parent
  <2>4. QED
    BY <2>1, <2>2, <2>3
<1>4. QED
  BY <1>1, <1>2, <1>3 DEF RestoreInv

\* Every step keeps what was captured true to the lock.
LEMMA RestoreStep == TypeInv /\ BlockInv /\ RestoreInv /\ [Next]_vars => RestoreInv'
<1> SUFFICES ASSUME TypeInv, BlockInv, RestoreInv, [Next]_vars PROVE RestoreInv'
  OBVIOUS
<1>1. CASE UNCHANGED <<parent, lane, before>>
  BY <1>1 DEF RestoreInv, HoldsCopy
<1>2. ASSUME NEW r \in Requests, NEW i \in DOMAIN shadow[r], editShadow(r, i) PROVE RestoreInv'
  BY <1>1, <1>2 DEF editShadow
<1>3. CASE Next
  BY <1>2, <1>3, LoadRestores, MoveRestores, WriteRestores, LinkRestores, TaskRestores DEF Next
<1>4. CASE UNCHANGED vars
  BY <1>1, <1>4 DEF vars
<1>5. QED
  BY <1>3, <1>4

\* The recomputation gives a stuck task back the status it was locked in, whoever locked it
\* first and however often it was locked again.
THEOREM StatusIsRestored == Spec => RestoresStatus
<1>1. Init => RestoreInv
  <2> SUFFICES ASSUME Init PROVE RestoreInv
    OBVIOUS
  <2>1. before = None /\ \A l \in Lanes : lane[l].at = "idle"
    BY IdleFits DEF Init
  <2>2. QED
    BY <2>1 DEF RestoreInv, HoldsCopy
<1>2. TypeInv /\ BlockInv /\ RestoreInv /\ [Next]_vars =>
        [parent.flag /\ ~parent'.flag /\ parent.status = "stuck" /\ before # None /\ ~unsettled
         /\ (\E l \in Lanes : lane[l].op \in Recomputing /\ writeTask(l))
           => parent'.status = IF before = "stuck" THEN "not_started" ELSE before]_vars
  <2> SUFFICES ASSUME TypeInv, BlockInv, RestoreInv, parent.flag, ~parent'.flag,
                      parent.status = "stuck", before # None, ~unsettled,
                      NEW l \in Lanes, lane[l].op \in Recomputing, writeTask(l)
               PROVE  parent'.status = IF before = "stuck" THEN "not_started" ELSE before
    OBVIOUS
  <2>1. lane[l].op \notin {"chain", "unlock"}
    BY DEF Recomputing, Advance
  <2>2. QED
    BY <2>1, WriteRestores
<1>3. QED
  BY <1>1, <1>2, RestoreStep, BlockCorrect, PTL DEF Spec, RestoresStatus
=============================================================================
