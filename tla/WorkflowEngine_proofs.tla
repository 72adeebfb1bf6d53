----------------------- MODULE WorkflowEngine_proofs -----------------------
(***************************************************************************)
(* Theorems about WorkflowEngine, for every set of graphs, keys, processes and *)
(* wait rows, every batch size and any number of events, faults and crashes.  *)
(***************************************************************************)
EXTENDS WorkflowEngine, FiniteSetTheorems, TLAPS

\* A walk that is in progress belongs to a key, and a resume to a row of its pass.
WalkHasKey == \A s \in Slots : walk[s].at # "idle" => walk[s].key \in Keys
PassHasRow == \A r \in Replicas : pass[r].at = "resume" => pass[r].ids # <<>>

TypeInv == TypeOK /\ WalkHasKey /\ PassHasRow

-----------------------------------------------------------------------------
\* Data

\* Queueing a node changes what is visited, what is to follow and, for a legacy edge, the mark.
LEMMA Queued ==
  ASSUME graph \in Graphs, NEW w \in Walk, NEW n \in Node
  PROVE  /\ queued(w, n) \in Walk
         /\ queued(w, n).visited = w.visited \cup {n}
         /\ queued(w, n).todo =
              {e \in w.todo \cup outgoing(graph, n, w.value) : e.to \notin w.visited \cup {n}}
         /\ queued(w, n).skipped = (w.skipped \/ hasLegacyEdge(graph, n))
         /\ \A f \in {"at", "on", "key", "from", "resume", "value", "actor", "failed", "clamped"} :
              queued(w, n)[f] = w[f]
<1> DEFINE seen == w.visited \cup {n}
           todo == {e \in w.todo \cup outgoing(graph, n, w.value) : e.to \notin seen}
           mark == w.skipped \/ hasLegacyEdge(graph, n)
<1>1. queued(w, n) = [w EXCEPT !.visited = seen, !.todo = todo, !.skipped = mark]
  BY DEF queued
<1>2. outgoing(graph, n, w.value) \subseteq graph.edges
  BY DEF outgoing
<1>3. /\ seen \in SUBSET Node /\ todo \in SUBSET graph.edges /\ mark \in BOOLEAN
  BY <1>2 DEF Walk, hasLegacyEdge
<1> HIDE DEF seen, todo, mark
<1>4. QED
  BY <1>1, <1>3 DEF Walk, seen, todo, mark

\* Pausing at a node only takes the edges to it away.
LEMMA Paused ==
  ASSUME NEW w \in Walk, NEW n \in Node
  PROVE  /\ paused(w, n) \in Walk
         /\ paused(w, n).visited = w.visited \cup {n}
         /\ paused(w, n).todo = {e \in w.todo : e.to # n}
         /\ paused(w, n).skipped
         /\ \A f \in {"at", "on", "key", "from", "resume", "value", "actor", "failed", "clamped"} :
              paused(w, n)[f] = w[f]
<1> DEFINE todo == {e \in w.todo : e.to # n}
<1>1. paused(w, n) = [w EXCEPT !.visited = w.visited \cup {n}, !.todo = todo, !.skipped = TRUE]
  BY DEF paused
<1>2. todo \in SUBSET graph.edges /\ w.visited \cup {n} \in SUBSET Node
  BY DEF Walk
<1> HIDE DEF todo
<1>3. QED
  BY <1>1, <1>2 DEF Walk, todo

\* Deleting a row leaves a sequence of the others.
LEMMA Destroyed ==
  ASSUME due \in Seq(Wait), NEW i
  PROVE  destroyed(i) \in Seq(Wait)
<1>1. CASE \E j \in DOMAIN due : due[j].id = i
  <2> DEFINE k == CHOOSE j \in DOMAIN due : due[j].id = i
  <2>1. k \in 1..Len(due) /\ Len(due) \in Nat
    BY <1>1
  <2> DEFINE rest == [m \in 1..(Len(due) - 1) |-> due[IF m < k THEN m ELSE m + 1]]
  <2>2. destroyed(i) = rest
    BY <1>1 DEF destroyed
  <2>3. Len(due) - 1 \in Nat
    BY <2>1
  <2>4. \A m \in 1..(Len(due) - 1) : due[IF m < k THEN m ELSE m + 1] \in Wait
    BY <2>1
  <2> HIDE DEF k
  <2>5. rest \in [1..(Len(due) - 1) -> Wait]
    BY <2>4
  <2>6. rest \in Seq(Wait)
    BY <2>3, <2>5
  <2>7. QED
    BY <2>2, <2>6
<1>2. CASE ~ \E j \in DOMAIN due : due[j].id = i
  BY <1>2 DEF destroyed
<1>3. QED
  BY <1>1, <1>2

-----------------------------------------------------------------------------
\* Steps of a walk

\* The walk w goes to v by visiting n and following its edges, or by pausing there.
Passed(w, v, n) ==
  /\ v.todo = {e \in w.todo \cup outgoing(graph, n, w.value) : e.to \notin w.visited \cup {n}}
  /\ v.clamped = w.clamped \cup (IF graph.kind[n] = "wait" THEN {n} ELSE {})
  /\ graph.kind[n] \in Privileged /\ ~v.skipped => w.actor

Stopped(w, v, n) ==
  /\ v.todo = {e \in w.todo : e.to # n}
  /\ graph.kind[n] = "wait" /\ v.skipped /\ v.clamped = w.clamped

Visiting(w, v, n) ==
  /\ v \in Walk
  /\ v.visited = w.visited \cup {n}
  /\ \A f \in {"at", "on", "key", "from", "resume", "value", "actor"} : v[f] = w[f]
  /\ w.skipped => v.skipped
  /\ Passed(w, v, n) \/ Stopped(w, v, n)

\* What each kind of visit does to the walk.
LEMMA VisitKinds ==
  ASSUME graph \in Graphs, walk \in [Slots -> Walk], NEW s \in Slots, NEW n \in Node,
         \/ /\ checkActionPermission(walk[s].actor, graph.kind[n])
            /\ Acts(s, n) \/ Throws(s, n) \/ Waits(s, n) \/ Passes(s, n)
         \/ ~checkActionPermission(walk[s].actor, graph.kind[n]) /\ Refused(s, n)
  PROVE  \E v : walk' = [walk EXCEPT ![s] = v] /\ Visiting(walk[s], v, n)
<1> DEFINE w == walk[s]  q == queued(w, n)
<1>1. w \in Walk
  OBVIOUS
<1>2. /\ q \in Walk /\ q.visited = w.visited \cup {n}
      /\ q.todo = {e \in w.todo \cup outgoing(graph, n, w.value) : e.to \notin w.visited \cup {n}}
      /\ w.skipped => q.skipped
      /\ \A f \in {"at", "on", "key", "from", "resume", "value", "actor", "failed", "clamped"} :
           q[f] = w[f]
  BY <1>1, Queued
<1>3. CASE walk' = [walk EXCEPT ![s] = q] /\ graph.kind[n] # "wait"
           /\ (graph.kind[n] \in Privileged => w.actor)
  <2>1. Passed(w, q, n)
    BY <1>2, <1>3 DEF Passed
  <2>2. QED
    BY <1>2, <1>3, <2>1 DEF Visiting
<1>4. ASSUME NEW v, v = [q EXCEPT !.failed = TRUE] \/ v = [q EXCEPT !.skipped = TRUE],
             walk' = [walk EXCEPT ![s] = v], graph.kind[n] # "wait",
             graph.kind[n] \in Privileged => w.actor \/ v = [q EXCEPT !.skipped = TRUE]
      PROVE  \E x : walk' = [walk EXCEPT ![s] = x] /\ Visiting(walk[s], x, n)
  <2>1. v \in Walk /\ v.visited = q.visited /\ v.todo = q.todo /\ (q.skipped => v.skipped)
        /\ (\A f \in {"at", "on", "key", "from", "resume", "value", "actor"} : v[f] = q[f])
        /\ v.clamped = q.clamped /\ (v = [q EXCEPT !.skipped = TRUE] => v.skipped)
    <3>1. CASE v = [q EXCEPT !.failed = TRUE]
      <4>1. v.skipped = q.skipped
        BY <1>2, <3>1 DEF Walk
      <4>2. v = [q EXCEPT !.skipped = TRUE] => v.skipped
        BY <1>2 DEF Walk
      <4>3. QED
        BY <1>2, <3>1, <4>1, <4>2 DEF Walk
    <3>2. CASE v = [q EXCEPT !.skipped = TRUE]
      BY <1>2, <3>2 DEF Walk
    <3>3. QED
      BY <1>4, <3>1, <3>2
  <2>2. Passed(w, v, n)
    BY <1>2, <1>4, <2>1 DEF Passed
  <2>3. Visiting(w, v, n)
    BY <1>2, <2>1, <2>2 DEF Visiting
  <2>4. QED
    BY <1>4, <2>3
<1>5. ASSUME NEW v, v = clampedAt(w, n),
             walk' = [walk EXCEPT ![s] = v], graph.kind[n] = "wait"
      PROVE  \E x : walk' = [walk EXCEPT ![s] = x] /\ Visiting(walk[s], x, n)
  <2>1. v \in Walk /\ v.visited = q.visited /\ v.todo = q.todo /\ (q.skipped => v.skipped)
        /\ (\A f \in {"at", "on", "key", "from", "resume", "value", "actor"} : v[f] = q[f])
        /\ v.clamped = w.clamped \cup {n}
    <3>1. q.clamped = w.clamped /\ v = [q EXCEPT !.clamped = q.clamped \cup {n}]
      BY <1>2, <1>5 DEF clampedAt
    <3>2. q.clamped \cup {n} \in SUBSET Node
      BY <1>2 DEF Walk
    <3>3. QED
      BY <1>2, <3>1, <3>2 DEF Walk
  <2>2. Passed(w, v, n)
    BY <1>2, <1>5, <2>1 DEF Passed, Privileged
  <2>3. Visiting(w, v, n)
    BY <1>2, <2>1, <2>2 DEF Visiting
  <2>4. QED
    BY <1>5, <2>3
<1>6. CASE walk' = [walk EXCEPT ![s] = paused(w, n)] /\ graph.kind[n] = "wait"
  <2>1. Visiting(w, paused(w, n), n)
    BY <1>1, <1>6, Paused DEF Visiting, Stopped
  <2>2. QED
    BY <1>6, <2>1
<1> DEFINE permitted == checkActionPermission(w.actor, graph.kind[n])
           goal == \E x : walk' = [walk EXCEPT ![s] = x] /\ Visiting(walk[s], x, n)
<1> HIDE DEF q, goal
<1>7. ASSUME permitted PROVE graph.kind[n] \in Privileged => w.actor
  BY <1>7 DEF checkActionPermission
<1>8. CASE permitted /\ Acts(s, n)
  BY <1>3, <1>7, <1>8 DEF Acts, q, goal
<1>9. CASE permitted /\ Throws(s, n)
  <2>1. walk' = [walk EXCEPT ![s] = [q EXCEPT !.failed = TRUE]] /\ graph.kind[n] # "wait"
    BY <1>9 DEF Throws, Privileged, q
  <2>2. QED
    BY <1>4, <1>7, <1>9, <2>1 DEF goal
<1>10. CASE permitted /\ Waits(s, n)
  <2>1. graph.kind[n] = "wait"
    BY <1>10 DEF Waits
  <2>2. CASE walk' = [walk EXCEPT ![s] = paused(w, n)]
    BY <1>6, <2>1, <2>2 DEF goal
  <2>3. CASE walk' = [walk EXCEPT ![s] = clampedAt(w, n)]
    BY <1>5, <2>1, <2>3 DEF goal
  <2>4. QED
    BY <1>10, <2>2, <2>3 DEF Waits
<1>11. CASE permitted /\ Passes(s, n)
  BY <1>3, <1>11 DEF Passes, Conditions, Privileged, q, goal
<1>12. CASE ~permitted /\ Refused(s, n)
  <2>1. walk' = [walk EXCEPT ![s] = [q EXCEPT !.skipped = TRUE]] /\ graph.kind[n] # "wait"
    BY <1>12 DEF Refused, q, checkActionPermission, Privileged
  <2>2. QED
    BY <1>4, <2>1 DEF goal
<1>13. QED
  BY <1>8, <1>9, <1>10, <1>11, <1>12 DEF goal

\* What the visit of n leaves behind: a comment or message, nothing, or the row of a wait.
Leaves(s, n) ==
  \/ /\ asleep' = asleep
     /\ \/ sent' = sent
        \/ graph.kind[n] \in Outward /\ sent' = [sent EXCEPT ![n][walk[s].key] = @ + 1]
  \/ /\ graph.kind[n] = "wait" /\ sent' = sent
     /\ walk' = [walk EXCEPT ![s] = paused(@, n)]
     /\ \E i \in WaitIds \ inUse :
          asleep' = asleep \cup {[id |-> i, node |-> n, key |-> walk[s].key,
                                  value |-> sanitizeContext(walk[s].value)]}

\* A step of a walk visits the node some edge leads to.
LEMMA VisitStep ==
  ASSUME TypeOK, NEW s \in Slots, Visit(s)
  PROVE  \E v, e : /\ walk' = [walk EXCEPT ![s] = v]
                   /\ e \in walk[s].todo /\ e.to \in Node
                   /\ Visiting(walk[s], v, e.to) /\ Leaves(s, e.to)
<1>1. PICK e \in walk[s].todo :
        IF checkActionPermission(walk[s].actor, graph.kind[e.to])
        THEN Acts(s, e.to) \/ Throws(s, e.to) \/ Waits(s, e.to) \/ Passes(s, e.to)
        ELSE Refused(s, e.to)
  BY DEF Visit
<1>2. graph \in Graphs /\ walk \in [Slots -> Walk]
  BY DEF TypeOK
<1>3. e \in graph.edges
  BY <1>2 DEF Walk
<1>4. e.to \in Node
  BY <1>2, <1>3, WorkflowConstants DEF Node
<1>5. \E v : walk' = [walk EXCEPT ![s] = v] /\ Visiting(walk[s], v, e.to)
  BY <1>1, <1>2, <1>4, VisitKinds
<1>6. Leaves(s, e.to)
  <2>1. CASE Acts(s, e.to)
    BY <2>1 DEF Acts, Leaves, Outward
  <2>2. CASE Throws(s, e.to) \/ Passes(s, e.to) \/ Refused(s, e.to)
    BY <2>2 DEF Throws, Passes, Refused, Leaves
  <2>3. CASE Waits(s, e.to)
    BY <2>3 DEF Waits, Leaves
  <2>4. QED
    BY <1>1, <2>1, <2>2, <2>3
<1>7. QED
  BY <1>4, <1>5, <1>6

\* What a step of a walk leaves behind is well typed.
LEMMA VisitOthers ==
  ASSUME TypeInv, NEW s \in Slots, Visit(s)
  PROVE  /\ (asleep \subseteq Wait)' /\ (sent \in [Node -> [Keys -> Nat]])'
         /\ (events \in 0..MaxEvents)'
<1>1. PICK e \in walk[s].todo :
        Acts(s, e.to) \/ Throws(s, e.to) \/ Waits(s, e.to) \/ Passes(s, e.to) \/ Refused(s, e.to)
  BY DEF Visit
<1>2. /\ graph' = graph /\ Node' = Node /\ Wait' = Wait
  BY DEF Visit, Node, Wait
<1>3. /\ graph \in Graphs /\ walk[s] \in Walk /\ walk[s].key \in Keys /\ MaxEvents \in Nat
      /\ asleep \subseteq Wait /\ sent \in [Node -> [Keys -> Nat]] /\ events \in 0..MaxEvents
  BY WorkflowConstants DEF TypeInv, TypeOK, WalkHasKey, Visit
<1>4. e.to \in Node
  BY <1>3, WorkflowConstants DEF Walk, Node
<1>5. CASE Acts(s, e.to)
  <2>1. sent' \in [Node -> [Keys -> Nat]]
    <3>1. CASE sent' = sent
      BY <1>3, <3>1
    <3>2. CASE sent' = [sent EXCEPT ![e.to][walk[s].key] = @ + 1]
      BY <1>3, <1>4, <3>2
    <3>3. QED
      BY <1>5, <3>1, <3>2 DEF Acts
  <2>2. QED
    BY <1>2, <1>3, <1>5, <2>1 DEF Acts
<1>6. CASE Throws(s, e.to)
  BY <1>2, <1>3, <1>6 DEF Throws, Event
<1>7. CASE Waits(s, e.to)
  <2>1. asleep' \subseteq Wait
    <3>1. CASE asleep' = asleep
      BY <1>3, <3>1
    <3>2. ASSUME NEW i \in WaitIds,
                 asleep' = asleep \cup {[id |-> i, node |-> e.to, key |-> walk[s].key,
                                         value |-> sanitizeContext(walk[s].value)]}
          PROVE  asleep' \subseteq Wait
      <4>1. [id |-> i, node |-> e.to, key |-> walk[s].key,
             value |-> sanitizeContext(walk[s].value)] \in Wait
        BY <1>3, <1>4 DEF Wait, sanitizeContext
      <4>2. QED
        BY <1>3, <3>2, <4>1
    <3>3. QED
      BY <1>7, <3>1, <3>2 DEF Waits
  <2>2. (events \in 0..MaxEvents)'
    BY <1>3, <1>7 DEF Waits, Event
  <2>3. QED
    BY <1>2, <1>3, <1>7, <2>1, <2>2 DEF Waits
<1>8. CASE Passes(s, e.to) \/ Refused(s, e.to)
  BY <1>2, <1>3, <1>8 DEF Passes, Refused
<1>9. QED
  BY <1>1, <1>5, <1>6, <1>7, <1>8

-----------------------------------------------------------------------------
\* Types

\* A walk written to one slot keeps the walks well typed and keyed.
LEMMA OneWalk ==
  ASSUME walk \in [Slots -> Walk], NEW s \in Slots, NEW v \in Walk,
         walk' = [walk EXCEPT ![s] = v], Walk' = Walk, WalkHasKey,
         v.at # "idle" => v.key \in Keys
  PROVE  /\ (walk \in [Slots -> Walk])' /\ WalkHasKey'
         /\ walk'[s] = v /\ \A t \in Slots \ {s} : walk'[t] = walk[t]
BY DEF WalkHasKey, Slots

\* What a call of the engine starts is a walk, and so is an idle slot.
LEMMA Called ==
  ASSUME NEW r \in Replicas, NEW k \in Keys, NEW n \in Node, NEW i \in WaitIds \cup {None},
         NEW x \in {"match", "other", "none"}
  PROVE  called(r, k, n, i, x) \in Walk /\ called(r, k, n, i, x).key = k
         /\ called(r, k, n, i, x).at = "begin"
BY DEF called, Walk

\* A slot without a walk is well typed.
LEMMA IdleIsWalk == ASSUME graph \in Graphs PROVE Idle \in Walk /\ Idle.at = "idle"
BY WorkflowConstants DEF Idle, Walk, Node

\* Beginning, visiting and recording keep the types.
LEMMA WalkTypes ==
  ASSUME TypeInv, NEW s \in Slots, Begin(s) \/ Visit(s) \/ Record(s)
  PROVE  TypeInv'
<1>1. /\ graph' = graph /\ Node' = Node /\ Walk' = Walk /\ Wait' = Wait
      /\ UNCHANGED <<published, author, lru, due, pass, lock, heard, quota>>
  BY DEF Begin, Visit, Record, Node, Walk, Wait
<1>2. /\ TypeOK /\ WalkHasKey /\ PassHasRow /\ graph \in Graphs
      /\ walk \in [Slots -> Walk] /\ walk[s] \in Walk
  BY DEF TypeInv, TypeOK
<1>3. PassHasRow'
  BY <1>1, <1>2 DEF PassHasRow
<1>4. CASE Begin(s)
  <2> DEFINE q == queued(walk[s], walk[s].from)
             v == [q EXCEPT !.at = "walk", !.actor = author]
  <2>1. walk' = [walk EXCEPT ![s] = v]
    BY <1>4 DEF Begin
  <2>2. walk[s].from \in Node
    BY <1>2 DEF Walk
  <2>3. q \in Walk /\ q.key = walk[s].key
    BY <1>2, <2>2, Queued
  <2> HIDE DEF q
  <2>4. v \in Walk /\ v.key = walk[s].key
    BY <1>2, <2>3 DEF Walk, TypeOK
  <2>5. walk[s].key \in Keys
    BY <1>2, <1>4 DEF Begin, WalkHasKey
  <2> HIDE DEF v
  <2>6. (walk \in [Slots -> Walk])' /\ WalkHasKey'
    BY <1>1, <1>2, <2>1, <2>4, <2>5, OneWalk
  <2>7. QED
    BY <1>1, <1>2, <1>3, <1>4, <2>6 DEF TypeInv, TypeOK, Begin
<1>5. CASE Visit(s)
  <2>1. PICK v, e : walk' = [walk EXCEPT ![s] = v] /\ Visiting(walk[s], v, e.to)
    BY <1>2, <1>5, VisitStep
  <2>2. v \in Walk /\ v.key = walk[s].key
    BY <2>1 DEF Visiting
  <2>3. walk[s].key \in Keys
    BY <1>2, <1>5 DEF Visit, WalkHasKey
  <2>4. (walk \in [Slots -> Walk])' /\ WalkHasKey'
    BY <1>1, <1>2, <2>1, <2>2, <2>3, OneWalk
  <2>5. /\ (asleep \subseteq Wait)' /\ (sent \in [Node -> [Keys -> Nat]])'
        /\ (events \in 0..MaxEvents)'
    BY <1>5, VisitOthers
  <2>6. runs' = runs /\ outlived' = outlived
    BY <1>5 DEF Visit, Acts, Throws, Waits, Passes, Refused
  <2>7. QED
    BY <1>1, <1>2, <1>3, <2>4, <2>5, <2>6 DEF TypeInv, TypeOK
<1>6. CASE Record(s)
  <2>1. walk' = [walk EXCEPT ![s] = Idle]
    BY <1>6 DEF Record
  <2>2. (walk \in [Slots -> Walk])' /\ WalkHasKey'
    BY <1>1, <1>2, <2>1, OneWalk, IdleIsWalk
  <2>3. runs' \in [Keys -> {"none", "ok", "partial", "error"}]
    BY <1>2, <1>6 DEF Record, TypeOK, Status
  <2>4. outlived' \subseteq Slots
    BY <1>2, <1>6 DEF Record, TypeOK
  <2>5. UNCHANGED <<asleep, sent, events>>
    BY <1>6 DEF Record
  <2>6. QED
    BY <1>1, <1>2, <1>3, <2>2, <2>3, <2>4, <2>5 DEF TypeInv, TypeOK
<1>7. QED
  BY <1>4, <1>5, <1>6

\* Events and switches keep the types.
LEMMA EventTypes ==
  ASSUME TypeInv,
         \/ \E s \in Walkers, r \in Replicas, k \in Keys, x \in Values : processWorkflows(s, r, k, x)
         \/ updateWorkflow \/ AuthorChanges \/ Matures
  PROVE  TypeInv'
<1>1. /\ graph' = graph /\ Node' = Node /\ Walk' = Walk /\ Wait' = Wait
      /\ UNCHANGED <<runs, pass, lock, sent>>
  BY DEF processWorkflows, updateWorkflow, AuthorChanges, Matures, Node, Walk, Wait
<1>2. /\ TypeOK /\ WalkHasKey /\ PassHasRow /\ graph \in Graphs
      /\ walk \in [Slots -> Walk] /\ MaxEvents \in Nat
  BY WorkflowConstants DEF TypeInv, TypeOK
<1>3. PassHasRow'
  BY <1>1, <1>2 DEF PassHasRow
<1>4. ASSUME NEW s \in Walkers, NEW r \in Replicas, NEW k \in Keys, NEW x \in Values,
             processWorkflows(s, r, k, x)
      PROVE  TypeInv'
  <2> DEFINE v == called(r, k, Start, None, x)
  <2>1. Start \in Node /\ x \in {"match", "other", "none"} /\ s \in Slots
    BY <1>2, WorkflowConstants DEF Node, Slots
  <2>2. v \in Walk /\ v.key = k
    BY <2>1, Called
  <2>3. walk' = [walk EXCEPT ![s] = v]
    BY <1>4 DEF processWorkflows
  <2> HIDE DEF v
  <2>4. (walk \in [Slots -> Walk])' /\ WalkHasKey'
    BY <1>1, <1>2, <2>1, <2>2, <2>3, OneWalk
  <2>5. lru' \in [Replicas -> SUBSET Keys] /\ heard' \in [Replicas -> SUBSET Keys]
    BY <1>2, <1>4 DEF processWorkflows, TypeOK
  <2>6. quota' \in [Keys -> Nat]
    BY <1>2, <1>4 DEF processWorkflows, TypeOK
  <2>7. events' \in 0..MaxEvents
    BY <1>2, <1>4 DEF processWorkflows, TypeOK, Event
  <2>8. UNCHANGED <<published, author, asleep, due, outlived>>
    BY <1>4 DEF processWorkflows
  <2>9. QED
    BY <1>1, <1>2, <1>3, <2>4, <2>5, <2>6, <2>7, <2>8 DEF TypeInv, TypeOK
<1>5. CASE updateWorkflow
  BY <1>1, <1>2, <1>3, <1>5 DEF updateWorkflow, Event, TypeInv, TypeOK, WalkHasKey
<1>6. CASE AuthorChanges
  <2>1. outlived' \subseteq Slots
    BY <1>2, <1>6 DEF AuthorChanges, TypeOK
  <2>2. author' \in BOOLEAN /\ events' \in 0..MaxEvents
    BY <1>2, <1>6 DEF AuthorChanges, TypeOK, Event
  <2>3. UNCHANGED <<published, walk, lru, asleep, due, heard, quota>>
    BY <1>6 DEF AuthorChanges
  <2>4. QED
    BY <1>1, <1>2, <1>3, <2>1, <2>2, <2>3 DEF TypeInv, TypeOK, WalkHasKey
<1>7. CASE Matures
  <2>1. PICK w \in asleep : asleep' = asleep \ {w} /\ due' = Append(due, w)
    BY <1>7 DEF Matures
  <2>2. asleep' \subseteq Wait /\ due' \in Seq(Wait)
    BY <1>2, <2>1 DEF TypeOK
  <2>3. UNCHANGED <<published, author, walk, lru, events, heard, quota, outlived>>
    BY <1>7 DEF Matures
  <2>4. QED
    BY <1>1, <1>2, <1>3, <2>2, <2>3 DEF TypeInv, TypeOK, WalkHasKey
<1>8. QED
  BY <1>4, <1>5, <1>6, <1>7

\* The steps of a cron pass keep the types, and its lock its holder.
LEMMA PassTypes ==
  ASSUME TypeInv, NEW r \in Replicas,
         tick(r) \/ resumeFromWait(r) \/ destroyWait(r) \/ tickEnds(r)
  PROVE  TypeInv'
<1>1. /\ graph' = graph /\ Node' = Node /\ Walk' = Walk /\ Wait' = Wait
      /\ UNCHANGED <<published, author, lru, runs, asleep, sent, heard, quota, outlived>>
  BY DEF tick, resumeFromWait, destroyWait, tickEnds, Node, Walk, Wait
<1>2. /\ TypeOK /\ WalkHasKey /\ PassHasRow /\ graph \in Graphs /\ r \in Slots
      /\ walk \in [Slots -> Walk] /\ MaxEvents \in Nat /\ due \in Seq(Wait)
      /\ pass \in [Replicas -> Pass] /\ pass[r].ids \in Seq(WaitIds)
      /\ events \in 0..MaxEvents /\ None \notin Replicas /\ lock \in Replicas \cup {None}
      /\ \A t \in Replicas : pass[t].at # "idle" <=> lock = t
  BY WorkflowConstants DEF TypeInv, TypeOK, Slots, Pass
<1>3. ASSUME NEW p \in Pass, pass' = [pass EXCEPT ![r] = p],
             p.at # "idle" <=> lock' = r, p.at = "resume" => p.ids # <<>>,
             lock' = lock \/ (lock = None /\ lock' = r) \/ (lock = r /\ lock' = None),
             (walk \in [Slots -> Walk])', WalkHasKey', (due \in Seq(Wait))',
             (events \in 0..MaxEvents)'
      PROVE  TypeInv'
  <2>1. (pass \in [Replicas -> Pass])' /\ PassHasRow'
    BY <1>2, <1>3 DEF PassHasRow, Pass
  <2>2. (\A t \in Replicas : pass[t].at # "idle" <=> lock = t)'
    BY <1>2, <1>3
  <2>3. QED
    BY <1>1, <1>2, <1>3, <2>1, <2>2 DEF TypeInv, TypeOK
<1>4. CASE tick(r)
  <2> DEFINE n == IF Len(due) < BATCH_SIZE THEN Len(due) ELSE BATCH_SIZE
             ids == [i \in 1..n |-> due[i].id]
             p == [at |-> "load", ids |-> ids]
  <2>1. pass' = [pass EXCEPT ![r] = p] /\ lock = None /\ lock' = r
        /\ UNCHANGED <<walk, due, events>>
    BY <1>4 DEF tick, withCronLock
  <2>2. n \in Nat /\ n <= Len(due)
    BY <1>2, WorkflowConstants
  <2>3. \A i \in 1..n : due[i].id \in WaitIds
    <3>1. \A i \in 1..n : i \in DOMAIN due
      BY <1>2, <2>2
    <3>2. \A i \in DOMAIN due : due[i] \in Wait
      BY <1>2
    <3>3. \A w \in Wait : w.id \in WaitIds
      BY DEF Wait
    <3>4. QED
      BY <3>1, <3>2, <3>3
  <2> HIDE DEF n
  <2>4. ids \in Seq(WaitIds)
    BY <2>2, <2>3
  <2> HIDE DEF ids
  <2>5. p \in Pass /\ p.at = "load"
    BY <2>4 DEF Pass
  <2> HIDE DEF p
  <2>6. QED
    BY <1>1, <1>2, <1>3, <2>1, <2>5 DEF WalkHasKey
<1>5. CASE resumeFromWait(r)
  <2> DEFINE ids == pass[r].ids  p == [pass[r] EXCEPT !.ids = Tail(@)]
             q == [pass[r] EXCEPT !.at = "resume"]
  <2>1. /\ pass[r].at = "load" /\ ids # <<>> /\ ids \in Seq(WaitIds) /\ Head(ids) \in WaitIds
        /\ Tail(ids) \in Seq(WaitIds) /\ pass[r] \in Pass /\ lock = r /\ lock' = lock
    BY <1>2, <1>5 DEF resumeFromWait
  <2>2. p \in Pass /\ p.at = "load"
    BY <2>1 DEF Pass
  <2>3. q \in Pass /\ q.at = "resume" /\ q.ids = ids
    BY <2>1 DEF Pass
  <2>4. NextId(r) = [pass EXCEPT ![r] = p]
    BY <1>2 DEF NextId
  <2>5. \/ pass' = NextId(r) /\ walk' = walk /\ (due' = due \/ due' = destroyed(Head(ids)))
           /\ (events' = events \/ Event)
        \/ /\ pass' = [pass EXCEPT ![r].at = "resume"] /\ due' = due /\ events' = events
           /\ \E w \in {due[j] : j \in DOMAIN due} :
                walk' = [walk EXCEPT ![r] = called(r, w.key, w.node, Head(ids), w.value)]
    BY <1>5 DEF resumeFromWait
  <2>6. ASSUME pass' = NextId(r), walk' = walk, due' = due \/ due' = destroyed(Head(ids)),
               events' = events \/ Event
        PROVE  TypeInv'
    <3>1. due' \in Seq(Wait)
      BY <1>2, <2>6, Destroyed
    <3>2. events' \in 0..MaxEvents
      BY <1>2, <2>6 DEF Event
    <3> HIDE DEF p
    <3>3. QED
      BY <1>1, <1>2, <1>3, <2>1, <2>2, <2>4, <2>6, <3>1, <3>2 DEF WalkHasKey
  <2>7. ASSUME pass' = [pass EXCEPT ![r].at = "resume"], due' = due, events' = events,
               NEW w \in {due[j] : j \in DOMAIN due},
               walk' = [walk EXCEPT ![r] = called(r, w.key, w.node, Head(ids), w.value)]
        PROVE  TypeInv'
    <3>1. w \in Wait
      BY <1>2
    <3>2. w.key \in Keys /\ w.node \in Node /\ w.value \in {"match", "other", "none"}
      BY <3>1 DEF Wait
    <3>3. called(r, w.key, w.node, Head(ids), w.value) \in Walk
          /\ called(r, w.key, w.node, Head(ids), w.value).key \in Keys
      BY <2>1, <3>2, Called
    <3>4. (walk \in [Slots -> Walk])' /\ WalkHasKey'
      BY <1>1, <1>2, <2>7, <3>3, OneWalk
    <3>5. pass' = [pass EXCEPT ![r] = q]
      BY <1>2, <2>7
    <3> HIDE DEF q, ids
    <3>6. QED
      BY <1>1, <1>2, <1>3, <2>1, <2>3, <2>7, <3>4, <3>5
  <2>8. QED
    BY <2>5, <2>6, <2>7
<1>6. CASE destroyWait(r)
  <2> DEFINE p == [at |-> "load", ids |-> Tail(pass[r].ids)]
  <2>1. /\ pass[r].at = "resume" /\ pass[r].ids # <<>>
        /\ pass' = [pass EXCEPT ![r] = p] /\ UNCHANGED <<walk, lock, events>>
        /\ due' = destroyed(Head(pass[r].ids))
    BY <1>2, <1>6 DEF destroyWait, PassHasRow
  <2>2. Tail(pass[r].ids) \in Seq(WaitIds)
    BY <1>2, <2>1
  <2>3. p \in Pass /\ p.at = "load"
    BY <2>2 DEF Pass
  <2>4. due' \in Seq(Wait)
    BY <1>2, <2>1, Destroyed
  <2> HIDE DEF p
  <2>5. QED
    BY <1>1, <1>2, <1>3, <2>1, <2>3, <2>4 DEF WalkHasKey
<1>7. CASE tickEnds(r)
  <2>1. NoPass \in Pass /\ NoPass.at = "idle"
    BY DEF NoPass, Pass
  <2>2. /\ pass[r].at = "load" /\ pass' = [pass EXCEPT ![r] = NoPass] /\ lock' = None
        /\ UNCHANGED <<walk, due, events>>
    BY <1>7 DEF tickEnds
  <2>3. QED
    BY <1>1, <1>2, <1>3, <2>1, <2>2 DEF WalkHasKey
<1>8. QED
  BY <1>4, <1>5, <1>6, <1>7

\* A crash keeps the types: what dies leaves idle slots and a free lock.
LEMMA CrashTypes ==
  ASSUME TypeInv, NEW r \in Replicas, Crash(r)
  PROVE  TypeInv'
<1>1. /\ graph' = graph /\ Node' = Node /\ Walk' = Walk /\ Wait' = Wait
      /\ UNCHANGED <<published, author, runs, asleep, due, sent>>
  BY DEF Crash, Node, Walk, Wait
<1>2. /\ TypeOK /\ WalkHasKey /\ PassHasRow /\ graph \in Graphs
      /\ walk \in [Slots -> Walk] /\ MaxEvents \in Nat
  BY WorkflowConstants DEF TypeInv, TypeOK
<1>3. (walk \in [Slots -> Walk])' /\ WalkHasKey'
  <2> DEFINE gone == {s \in Slots : walk[s].on = r}
  <2>1. walk' = [s \in Slots |-> IF s \in gone THEN Idle ELSE walk[s]]
    BY DEF Crash
  <2>2. Idle \in Walk /\ Idle.at = "idle"
    BY <1>2, IdleIsWalk
  <2> HIDE DEF gone
  <2>3. QED
    BY <1>1, <1>2, <2>1, <2>2 DEF WalkHasKey
<1>4. quota' \in [Keys -> Nat]
  <2>1. \E cut : quota' = [k \in Keys |-> IF k \in cut THEN quota[k] + 1 ELSE quota[k]]
    BY DEF Crash
  <2>2. quota \in [Keys -> Nat]
    BY <1>2 DEF TypeOK
  <2>3. QED
    BY <2>1, <2>2
<1>5. outlived' \subseteq Slots /\ events' \in 0..MaxEvents
  BY <1>2 DEF Crash, Event, TypeOK
<1>6. lru' \in [Replicas -> SUBSET Keys] /\ heard' \in [Replicas -> SUBSET Keys]
  BY <1>2 DEF Crash, TypeOK
<1>7. NoPass \in Pass /\ NoPass.at = "idle"
  BY DEF NoPass, Pass
<1>8. /\ pass' = [pass EXCEPT ![r] = NoPass] /\ lock' = IF lock = r THEN None ELSE lock
      /\ pass \in [Replicas -> Pass] /\ lock \in Replicas \cup {None}
      /\ \A t \in Replicas : pass[t].at # "idle" <=> lock = t
  BY <1>2 DEF Crash, TypeOK
<1>9. (pass \in [Replicas -> Pass] /\ lock \in Replicas \cup {None})' /\ PassHasRow'
      /\ (\A t \in Replicas : pass[t].at # "idle" <=> lock = t)'
  BY <1>2, <1>7, <1>8, WorkflowConstants DEF PassHasRow
<1>10. QED
  BY <1>1, <1>2, <1>3, <1>4, <1>5, <1>6, <1>9 DEF TypeInv, TypeOK

\* Initial states are well typed.
LEMMA TypeInit == Init => TypeInv
<1> SUFFICES ASSUME Init PROVE TypeInv
  OBVIOUS
<1>1. /\ graph \in Graphs /\ published = TRUE /\ author = TRUE
      /\ walk = [s \in Slots |-> Idle]
      /\ lru = [r \in Replicas |-> {}] /\ runs = [k \in Keys |-> "none"]
      /\ asleep = {} /\ due = <<>>
      /\ pass = [r \in Replicas |-> NoPass] /\ lock = None
      /\ sent = [n \in Node |-> [k \in Keys |-> 0]] /\ events = 0
      /\ heard = [r \in Replicas |-> {}] /\ quota = [k \in Keys |-> 0] /\ outlived = {}
  BY DEF Init
<1>2. Idle \in Walk /\ Idle.at = "idle"
  BY <1>1, IdleIsWalk
<1>3. NoPass \in Pass /\ NoPass.at = "idle"
  BY DEF NoPass, Pass
<1>4. walk \in [Slots -> Walk] /\ WalkHasKey
  BY <1>1, <1>2 DEF WalkHasKey
<1>5. /\ pass \in [Replicas -> Pass] /\ PassHasRow
      /\ \A r \in Replicas : pass[r].at # "idle" <=> lock = r
  BY <1>1, <1>3, WorkflowConstants DEF PassHasRow
<1>6. due \in Seq(Wait) /\ events \in 0..MaxEvents
  BY <1>1, WorkflowConstants
<1>7. sent \in [Node -> [Keys -> Nat]] /\ quota \in [Keys -> Nat]
  BY <1>1
<1>8. QED
  BY <1>1, <1>4, <1>5, <1>6, <1>7 DEF TypeInv, TypeOK

\* Every step keeps the types.
LEMMA TypeStep == TypeInv /\ [Next]_vars => TypeInv'
<1> SUFFICES ASSUME TypeInv, [Next]_vars PROVE TypeInv'
  OBVIOUS
<1>1. CASE Next
  BY <1>1, WalkTypes, EventTypes, PassTypes, CrashTypes DEF Next
<1>2. CASE UNCHANGED vars
  <2>1. Node' = Node /\ Walk' = Walk /\ Wait' = Wait
    BY <1>2 DEF vars, Node, Walk, Wait
  <2>2. QED
    BY <1>2, <2>1 DEF vars, TypeInv, TypeOK, WalkHasKey, PassHasRow
<1>3. QED
  BY <1>1, <1>2

\* Every reachable state is well typed, and a cron pass is under way on the process that holds
\* its lock and on no other (withCronLock).
THEOREM TypeCorrect == Spec => []TypeOK
<1>1. TypeInv => TypeOK
  BY DEF TypeInv
<1>2. QED
  BY <1>1, TypeInit, TypeStep, PTL DEF Spec

-----------------------------------------------------------------------------
\* Where a walk gets to

\* The branch filter of the walk is the one the reference states.
LEMMA FollowedEdges ==
  ASSUME graph \in Graphs, NEW x \in {"match", "other", "none"}, NEW e \in graph.edges,
         NEW from, NEW c
  PROVE  /\ e \in Followed(from, x, c) <=>
              /\ e \in outgoing(graph, e.from, x)
              /\ e.from = from \/ graph.kind[e.from] # "wait" \/ e.from \in c
         /\ \A n : e \in outgoing(graph, n, x) => e.from = n
<1>1. e.branch \in Branches
  BY WorkflowConstants
<1>2. CASE graph.kind[e.from] \notin Conditions
  BY <1>1, <1>2 DEF Followed, outgoing
<1>3. CASE graph.kind[e.from] \in Conditions
  <2>1. /\ "equals" \in DOMAIN Satisfies /\ Satisfies["equals"] = {"match"}
        /\ Satisfies["not_equals"] = {"other", "none"} /\ Satisfies["is_set"] = {"match", "other"}
    BY DEF Satisfies
  <2>2. Against(graph.kind[e.from], x)
          = IF evaluateCondition(graph.kind[e.from], x) THEN "false" ELSE "true"
    <3>1. CASE graph.kind[e.from] = "equals"
      BY <2>1, <3>1 DEF Against, evaluateCondition
    <3>2. CASE graph.kind[e.from] = "not_equals"
      BY <2>1, <3>2 DEF Against, evaluateCondition
    <3>3. CASE graph.kind[e.from] = "is_set"
      BY <2>1, <3>3 DEF Against, evaluateCondition
    <3>4. QED
      BY <1>3, <3>1, <3>2, <3>3 DEF Conditions
  <2>3. QED
    BY <1>1, <1>3, <2>2 DEF Followed, outgoing, Branches
<1>4. QED
  BY <1>2, <1>3

\* An edge from a node that was reached leads to another.
LEMMA ReachGrows ==
  ASSUME NEW from, NEW x, NEW c, NEW e \in Followed(from, x, c),
         e.from \in Reach(from, x, c), e.to \in Node
  PROVE  e.to \in Reach(from, x, c)
BY DEF Reach, Along, Closed

\* A wait that could not be persisted lets more be reached, not less.
LEMMA ReachMonotone ==
  ASSUME NEW from, NEW x, NEW c, NEW d, c \subseteq d
  PROVE  /\ Followed(from, x, c) \subseteq Followed(from, x, d)
         /\ Reach(from, x, c) \subseteq Reach(from, x, d)
<1>1. Followed(from, x, c) \subseteq Followed(from, x, d)
  BY DEF Followed
<1>2. Closed(Followed(from, x, d), from) \subseteq Closed(Followed(from, x, c), from)
  BY <1>1 DEF Closed
<1>3. QED
  BY <1>1, <1>2 DEF Reach, Along

\* The inductive invariant of a walk: what it visited is reachable, what it has still to follow
\* leads on from there, no edge of a visited node is lost but those out of a wait that paused, and
\* a walk that marks nothing was stopped and refused nowhere.
Sound(w) ==
  /\ w.at = "begin" => w.todo = {} /\ w.visited = {} /\ w.clamped = {}
  /\ w.at = "walk" =>
       /\ w.from \in w.visited /\ w.visited \subseteq Reach(w.from, w.value, w.clamped)
       /\ \A e \in w.todo : e \in Followed(w.from, w.value, w.clamped) /\ e.from \in w.visited
       /\ w.clamped \subseteq w.visited
       /\ \A e \in Followed(w.from, w.value, w.clamped) :
            e.from \in w.visited => e.to \in w.visited \/ e \in w.todo
       /\ ~w.skipped =>
            \A n \in w.visited \ {w.from} : /\ graph.kind[n] = "wait" => n \in w.clamped
                                            /\ graph.kind[n] \in Privileged => w.actor

SoundInv == \A s \in Slots : Sound(walk[s])

\* A visit keeps a walk sound: it goes along a followed edge from a visited node.
LEMMA VisitSound ==
  ASSUME graph \in Graphs, NEW w \in Walk, NEW v, NEW e \in w.todo, e.to \in Node,
         w.at = "walk", Sound(w), Visiting(w, v, e.to)
  PROVE  Sound(v)
<1> DEFINE n == e.to  F(c) == Followed(w.from, w.value, c)
<1>1. /\ v \in Walk /\ v.visited = w.visited \cup {n} /\ (w.skipped => v.skipped)
      /\ v.at = "walk" /\ v.from = w.from /\ v.value = w.value /\ v.actor = w.actor
      /\ Passed(w, v, n) \/ Stopped(w, v, n)
  BY DEF Visiting
<1>2. /\ w.from \in w.visited /\ w.visited \subseteq Reach(w.from, w.value, w.clamped)
      /\ \A d \in w.todo : d \in F(w.clamped) /\ d.from \in w.visited
      /\ w.clamped \subseteq w.visited
      /\ \A d \in F(w.clamped) : d.from \in w.visited => d.to \in w.visited \/ d \in w.todo
      /\ ~w.skipped => \A m \in w.visited \ {w.from} : /\ graph.kind[m] = "wait" => m \in w.clamped
                                                      /\ graph.kind[m] \in Privileged => w.actor
  BY DEF Sound
<1>3. /\ w.value \in {"match", "other", "none"}
      /\ w.clamped \subseteq v.clamped /\ v.clamped \subseteq w.clamped \cup {n}
  BY <1>1 DEF Walk, Passed, Stopped
<1>4. F(w.clamped) \subseteq F(v.clamped)
      /\ Reach(w.from, w.value, w.clamped) \subseteq Reach(w.from, w.value, v.clamped)
  BY <1>3, ReachMonotone
<1>5. n \in Reach(w.from, w.value, w.clamped)
  BY <1>2, ReachGrows
<1>6. v.visited \subseteq Reach(w.from, w.value, v.clamped) /\ v.clamped \subseteq v.visited
  BY <1>1, <1>2, <1>3, <1>4, <1>5
<1>7. \A d \in outgoing(graph, n, w.value) :
        /\ d.from = n /\ d \in graph.edges
        /\ n = w.from \/ graph.kind[n] # "wait" \/ n \in v.clamped => d \in F(v.clamped)
  <2> TAKE d \in outgoing(graph, n, w.value)
  <2>1. d.from = n /\ d \in graph.edges
    BY DEF outgoing
  <2>2. QED
    BY <1>3, <2>1, FollowedEdges
<1>8. \A d \in v.todo : d \in F(v.clamped) /\ d.from \in v.visited
  <2>1. CASE Passed(w, v, n)
    BY <1>1, <1>2, <1>4, <1>7, <2>1 DEF Passed
  <2>2. CASE Stopped(w, v, n)
    BY <1>1, <1>2, <1>4, <2>2 DEF Stopped
  <2>3. QED
    BY <1>1, <2>1, <2>2
<1>9. ASSUME NEW d \in F(v.clamped), d.from \in v.visited
      PROVE  d.to \in v.visited \/ d \in v.todo
  <2>1. /\ d \in graph.edges /\ d \in outgoing(graph, d.from, w.value)
        /\ d.from = w.from \/ graph.kind[d.from] # "wait" \/ d.from \in v.clamped
    <3>1. d \in graph.edges
      BY DEF Followed
    <3>2. QED
      BY <1>3, <3>1, FollowedEdges
  <2>2. CASE d.from \in w.visited
    <3>1. CASE d.from = n
      <4>1. CASE Passed(w, v, n)
        BY <1>1, <2>1, <3>1, <4>1 DEF Passed
      <4>2. CASE Stopped(w, v, n)
        <5>1. d \in F(w.clamped)
          BY <1>3, <1>9, <4>2 DEF Stopped
        <5>2. d.to \in w.visited \/ d \in w.todo
          BY <1>2, <2>2, <5>1
        <5>3. QED
          BY <1>1, <4>2, <5>2 DEF Stopped
      <4>3. QED
        BY <1>1, <4>1, <4>2
    <3>2. CASE d.from # n
      <4>1. d.from = w.from \/ graph.kind[d.from] # "wait" \/ d.from \in w.clamped
        BY <1>3, <2>1, <3>2
      <4>2. d \in F(w.clamped)
        BY <1>3, <2>1, <4>1, FollowedEdges
      <4>3. d.to \in w.visited \/ d \in w.todo
        BY <1>2, <2>2, <4>2
      <4>4. QED
        BY <1>1, <4>3 DEF Passed, Stopped
    <3>3. QED
      BY <3>1, <3>2
  <2>3. CASE d.from \notin w.visited
    <3>1. d.from = n /\ n # w.from
      BY <1>1, <1>2, <1>9, <2>3
    <3>2. Passed(w, v, n)
      <4>1. ASSUME Stopped(w, v, n) PROVE FALSE
        <5>1. graph.kind[n] = "wait" /\ n \notin w.clamped /\ v.clamped = w.clamped
          BY <1>2, <2>3, <3>1, <4>1 DEF Stopped
        <5>2. QED
          BY <2>1, <3>1, <5>1
      <4>2. QED
        BY <1>1, <4>1
    <3>3. QED
      BY <1>1, <2>1, <3>1, <3>2 DEF Passed
  <2>4. QED
    BY <2>2, <2>3
<1>10. ASSUME ~v.skipped, NEW m \in v.visited \ {v.from}
       PROVE  /\ graph.kind[m] = "wait" => m \in v.clamped
              /\ graph.kind[m] \in Privileged => v.actor
  <2>1. Passed(w, v, n) /\ ~w.skipped
    BY <1>1, <1>10 DEF Stopped
  <2>2. CASE m \in w.visited
    <3>1. m \in w.visited \ {w.from}
      BY <1>1, <1>10, <2>2
    <3>2. /\ graph.kind[m] = "wait" => m \in w.clamped
          /\ graph.kind[m] \in Privileged => w.actor
      BY <2>1, <3>1, w.at = "walk", Sound(w) DEF Sound
    <3>3. QED
      BY <1>1, <1>3, <3>2
  <2>3. CASE m = n
    BY <1>1, <1>10, <2>1, <2>3 DEF Passed
  <2>4. QED
    BY <1>1, <1>10, <2>2, <2>3
<1>11. QED
  BY <1>1, <1>2, <1>6, <1>8, <1>9, <1>10 DEF Sound

\* A walk that begins is sound: it has visited the node it starts from.
LEMMA BeginSound ==
  ASSUME graph \in Graphs, NEW w \in Walk, w.at = "begin", Sound(w), NEW a \in BOOLEAN
  PROVE  Sound([queued(w, w.from) EXCEPT !.at = "walk", !.actor = a])
<1> DEFINE q == queued(w, w.from)
           v == [q EXCEPT !.at = "walk", !.actor = a]
<1>1. w.from \in Node /\ w.todo = {} /\ w.visited = {} /\ w.value \in {"match", "other", "none"}
      /\ w.clamped = {}
  BY DEF Sound, Walk
<1>2. /\ q \in Walk /\ q.visited = {w.from} /\ q.from = w.from /\ q.value = w.value
      /\ q.todo = {e \in outgoing(graph, w.from, w.value) : e.to # w.from} /\ q.clamped = {}
  BY <1>1, Queued
<1> HIDE DEF q
<1>3. /\ v.at = "walk" /\ v.visited = {w.from} /\ v.from = w.from /\ v.value = w.value
      /\ v.todo = {e \in outgoing(graph, w.from, w.value) : e.to # w.from}
      /\ v.clamped = {}
  BY <1>2 DEF Walk
<1> HIDE DEF v
<1>4. w.from \in Reach(w.from, w.value, v.clamped)
  BY <1>1 DEF Reach, Along, Closed
<1>5. \A e \in v.todo : e \in Followed(w.from, w.value, v.clamped) /\ e.from \in v.visited
  <2> TAKE e \in v.todo
  <2>1. e \in graph.edges /\ e.from = w.from
    BY <1>3 DEF outgoing
  <2>2. QED
    BY <1>1, <1>3, <2>1, FollowedEdges
<1>6. \A e \in Followed(w.from, w.value, v.clamped) :
        e.from \in v.visited => e.to \in v.visited \/ e \in v.todo
  <2> TAKE e \in Followed(w.from, w.value, v.clamped)
  <2>1. e \in graph.edges
    BY DEF Followed
  <2>2. QED
    BY <1>1, <1>3, <2>1, FollowedEdges
<1>7. Sound(v)
  BY <1>3, <1>4, <1>5, <1>6 DEF Sound
<1>8. QED
  BY <1>7 DEF v, q

\* The graph never changes, so that a walk left alone stays sound.
LEMMA SoundKept == ASSUME graph' = graph PROVE \A w : Sound(w)' <=> Sound(w)
<1>1. \A from, x, c : Followed(from, x, c)' = Followed(from, x, c)
  BY DEF Followed
<1>2. \A F, from : Along(F, from)' = Along(F, from)
  BY DEF Along, Closed, Node
<1>3. \A from, x, c : Reach(from, x, c)' = Reach(from, x, c)
  BY <1>1, <1>2 DEF Reach
<1>4. QED
  BY <1>1, <1>3 DEF Sound

\* Every step keeps every walk sound.
LEMMA SoundStep == TypeInv /\ SoundInv /\ [Next]_vars => SoundInv'
<1> SUFFICES ASSUME TypeInv, SoundInv, [Next]_vars PROVE SoundInv'
  OBVIOUS
<1>1. /\ graph \in Graphs /\ walk \in [Slots -> Walk] /\ TypeOK
  BY DEF TypeInv, TypeOK
<1>2. graph' = graph
  BY DEF Next, vars, Begin, Visit, Record, processWorkflows, updateWorkflow, AuthorChanges,
         Matures, tick, resumeFromWait, destroyWait, tickEnds, Crash
<1>3. ASSUME NEW s \in Slots, NEW v, Sound(v), walk' = [walk EXCEPT ![s] = v]
      PROVE  SoundInv'
  <2>1. \A t \in Slots : Sound(walk'[t])
    BY <1>1, <1>3 DEF SoundInv
  <2>2. QED
    BY <1>2, <2>1, SoundKept DEF SoundInv, Slots
<1>4. ASSUME walk' = walk PROVE SoundInv'
  BY <1>2, <1>4, SoundKept DEF SoundInv
<1>5. \A on, key, from, resume, x : Sound(called(on, key, from, resume, x))
  BY DEF called, Sound
<1>6. Sound(Idle)
  BY DEF Idle, Sound
<1>7. ASSUME NEW s \in Slots, Begin(s) PROVE SoundInv'
  <2>1. walk' = [walk EXCEPT ![s] = [queued(walk[s], walk[s].from) EXCEPT
                                       !.at = "walk", !.actor = author]]
    BY <1>7 DEF Begin
  <2>2. author \in BOOLEAN /\ walk[s] \in Walk /\ walk[s].at = "begin" /\ Sound(walk[s])
    BY <1>1, <1>7 DEF TypeOK, Begin, SoundInv
  <2>3. QED
    BY <1>1, <1>3, <2>1, <2>2, BeginSound
<1>8. ASSUME NEW s \in Slots, Visit(s) PROVE SoundInv'
  <2>1. PICK v, e : /\ walk' = [walk EXCEPT ![s] = v] /\ e \in walk[s].todo /\ e.to \in Node
                    /\ Visiting(walk[s], v, e.to)
    BY <1>1, <1>8, VisitStep
  <2>2. walk[s] \in Walk /\ walk[s].at = "walk" /\ Sound(walk[s])
    BY <1>1, <1>8 DEF Visit, SoundInv
  <2>3. Sound(v)
    BY <1>1, <2>1, <2>2, VisitSound
  <2>4. QED
    BY <1>3, <2>1, <2>3
<1>9. ASSUME NEW s \in Slots, Record(s) PROVE SoundInv'
  BY <1>3, <1>6, <1>9 DEF Record
<1>10. ASSUME NEW s \in Walkers, NEW r \in Replicas, NEW k \in Keys, NEW x \in Values,
              processWorkflows(s, r, k, x)
       PROVE  SoundInv'
  <2>1. s \in Slots /\ walk' = [walk EXCEPT ![s] = called(r, k, Start, None, x)]
    BY <1>10 DEF processWorkflows, Slots
  <2>2. QED
    BY <1>3, <1>5, <2>1
<1>11. ASSUME updateWorkflow \/ AuthorChanges \/ Matures PROVE SoundInv'
  BY <1>4, <1>11 DEF updateWorkflow, AuthorChanges, Matures
<1>12. ASSUME NEW r \in Replicas, tick(r) \/ destroyWait(r) \/ tickEnds(r) PROVE SoundInv'
  BY <1>4, <1>12 DEF tick, destroyWait, tickEnds
<1>13. ASSUME NEW r \in Replicas, resumeFromWait(r) PROVE SoundInv'
  <2>1. \/ walk' = walk
        \/ \E w : walk' = [walk EXCEPT ![r] = called(r, w.key, w.node, Head(pass[r].ids), w.value)]
    BY <1>13 DEF resumeFromWait
  <2>2. r \in Slots
    BY DEF Slots
  <2>3. QED
    BY <1>3, <1>4, <1>5, <2>1, <2>2
<1>14. ASSUME NEW r \in Replicas, Crash(r) PROVE SoundInv'
  <2>1. \A s \in Slots : walk'[s] = Idle \/ walk'[s] = walk[s]
    BY <1>14 DEF Crash
  <2>2. \A s \in Slots : Sound(walk'[s])
    BY <1>6, <2>1 DEF SoundInv
  <2>3. QED
    BY <1>2, <2>2, SoundKept DEF SoundInv, Slots
<1>15. CASE UNCHANGED vars
  BY <1>4, <1>15 DEF vars
<1>16. QED
  BY <1>7, <1>8, <1>9, <1>10, <1>11, <1>12, <1>13, <1>14, <1>15 DEF Next

\* Reachable states have sound walks.
LEMMA SoundCorrect == Spec => [](TypeInv /\ SoundInv)
<1>1. Init => SoundInv
  <2> SUFFICES ASSUME Init, NEW s \in Slots PROVE Sound(walk[s])
    BY DEF SoundInv
  <2>1. walk[s] = Idle
    BY DEF Init
  <2>2. Idle.at = "idle"
    BY DEF Idle
  <2>3. QED
    BY <2>1, <2>2 DEF Sound
<1>2. QED
  BY <1>1, TypeInit, TypeStep, SoundStep, PTL DEF Spec

\* A walk visits only what the branches followed lead to: never past an unresumed long wait and
\* never into the branch a condition decided against (the queue of executeWorkflow).
THEOREM StaysWithin == Spec => []WithinReach
<1>1. SoundInv => WithinReach
  BY DEF SoundInv, Sound, WithinReach
<1>2. QED
  BY <1>1, SoundCorrect, PTL

\* A walk that is over has visited everything it should have, whatever was refused or failed on
\* the way, and one recorded "ok" stopped at no wait and was refused nothing.
THEOREM WalksFully == Spec => []FullWalk
<1>1. TypeInv /\ SoundInv => FullWalk
  <2> SUFFICES ASSUME TypeInv, SoundInv, NEW s \in Slots,
                      walk[s].at = "walk", walk[s].todo = {}
               PROVE  /\ Reach(walk[s].from, walk[s].value, walk[s].clamped) \subseteq walk[s].visited
                      /\ Status(walk[s]) = "ok" =>
                           \A n \in walk[s].visited \ {walk[s].from} :
                             /\ graph.kind[n] = "wait" => n \in walk[s].clamped
                             /\ graph.kind[n] \in Privileged => walk[s].actor
    BY DEF FullWalk
  <2> DEFINE w == walk[s]
  <2>1. w \in Walk /\ Sound(w)
    BY DEF TypeInv, TypeOK, SoundInv
  <2>2. Reach(w.from, w.value, w.clamped) \subseteq w.visited
    <3>1. w.visited \in Closed(Followed(w.from, w.value, w.clamped), w.from)
      BY <2>1 DEF Sound, Closed, Walk
    <3>2. QED
      BY <3>1 DEF Reach, Along
  <2>3. Status(w) = "ok" => ~w.skipped
    BY DEF Status
  <2>4. QED
    BY <2>1, <2>2, <2>3 DEF Sound
<1>2. QED
  BY <1>1, SoundCorrect, PTL

-----------------------------------------------------------------------------
\* Acting for the author

\* A walk that acts for an author who is gone had resolved him before he left.
ActorInv == \A s \in Slots : walk[s].at = "walk" /\ walk[s].actor /\ ~author => s \in outlived

\* Every step keeps it: only the change of the author's row takes him away, and it counts the
\* walks in progress; a walk that begins reads the row.
LEMMA ActorStep == TypeInv /\ ActorInv /\ [Next]_vars => ActorInv'
<1> SUFFICES ASSUME TypeInv, ActorInv, [Next]_vars PROVE ActorInv'
  OBVIOUS
<1>1. /\ graph \in Graphs /\ walk \in [Slots -> Walk] /\ TypeOK /\ author \in BOOLEAN
  BY DEF TypeInv, TypeOK
<1>2. ASSUME NEW s \in Slots, NEW v, walk' = [walk EXCEPT ![s] = v], author' = author,
             outlived' = outlived,
             v.at = "walk" /\ v.actor => author \/ (walk[s].at = "walk" /\ walk[s].actor)
      PROVE  ActorInv'
  BY <1>1, <1>2 DEF ActorInv, Slots
<1>3. ASSUME walk' = walk, author' = author, outlived' = outlived PROVE ActorInv'
  BY <1>3 DEF ActorInv, Slots
<1>4. \A on, key, from, resume, x : called(on, key, from, resume, x).at = "begin"
  BY DEF called
<1>5. Idle.at = "idle"
  BY DEF Idle
<1>6. ASSUME NEW s \in Slots, Begin(s) PROVE ActorInv'
  <2> DEFINE q == queued(walk[s], walk[s].from)
             v == [q EXCEPT !.at = "walk", !.actor = author]
  <2>1. walk' = [walk EXCEPT ![s] = v] /\ author' = author /\ outlived' = outlived
    BY <1>6 DEF Begin
  <2>2. q \in Walk
    BY <1>1, Queued DEF Walk
  <2>3. v.actor = author
    BY <2>2 DEF Walk
  <2> HIDE DEF v
  <2>4. QED
    BY <1>2, <2>1, <2>3
<1>7. ASSUME NEW s \in Slots, Visit(s) PROVE ActorInv'
  <2>1. PICK v, e : walk' = [walk EXCEPT ![s] = v] /\ Visiting(walk[s], v, e.to)
    BY <1>1, <1>7, VisitStep
  <2>2. v.at = walk[s].at /\ v.actor = walk[s].actor /\ author' = author /\ outlived' = outlived
    BY <1>7, <2>1 DEF Visiting, Visit
  <2>3. QED
    BY <1>2, <2>1, <2>2
<1>8. ASSUME NEW s \in Slots, Record(s) PROVE ActorInv'
  <2>1. walk' = [walk EXCEPT ![s] = Idle] /\ author' = author /\ outlived' = outlived \ {s}
    BY <1>8 DEF Record
  <2>2. QED
    BY <1>1, <1>5, <2>1 DEF ActorInv, Slots
<1>9. ASSUME NEW s \in Walkers, NEW r \in Replicas, NEW k \in Keys, NEW x \in Values,
             processWorkflows(s, r, k, x)
      PROVE  ActorInv'
  <2>1. /\ s \in Slots /\ walk' = [walk EXCEPT ![s] = called(r, k, Start, None, x)]
        /\ author' = author /\ outlived' = outlived
    BY <1>9 DEF processWorkflows, Slots
  <2>2. QED
    BY <1>2, <1>4, <2>1
<1>10. ASSUME AuthorChanges PROVE ActorInv'
  <2>1. /\ walk' = walk /\ author' = ~author
        /\ outlived' = IF author THEN {s \in Slots : walk[s].at = "walk"} ELSE outlived
    BY <1>10 DEF AuthorChanges
  <2>2. QED
    BY <1>1, <2>1 DEF ActorInv, Slots
<1>11. ASSUME updateWorkflow \/ Matures PROVE ActorInv'
  BY <1>3, <1>11 DEF updateWorkflow, Matures
<1>12. ASSUME NEW r \in Replicas, tick(r) \/ destroyWait(r) \/ tickEnds(r) PROVE ActorInv'
  BY <1>3, <1>12 DEF tick, destroyWait, tickEnds
<1>13. ASSUME NEW r \in Replicas, resumeFromWait(r) PROVE ActorInv'
  <2>1. /\ \/ walk' = walk
           \/ \E w : walk' = [walk EXCEPT ![r] = called(r, w.key, w.node, Head(pass[r].ids), w.value)]
        /\ author' = author /\ outlived' = outlived
    BY <1>13 DEF resumeFromWait
  <2>2. r \in Slots
    BY DEF Slots
  <2>3. QED
    BY <1>2, <1>3, <1>4, <2>1, <2>2
<1>14. ASSUME NEW r \in Replicas, Crash(r) PROVE ActorInv'
  <2> DEFINE gone == {s \in Slots : walk[s].on = r}
  <2>1. /\ author' = author /\ outlived' = outlived \ gone
        /\ walk' = [s \in Slots |-> IF s \in gone THEN Idle ELSE walk[s]]
    BY <1>14 DEF Crash
  <2> HIDE DEF gone
  <2>2. QED
    BY <1>1, <1>5, <2>1 DEF ActorInv, Slots
<1>15. CASE UNCHANGED vars
  BY <1>3, <1>15 DEF vars
<1>16. QED
  BY <1>6, <1>7, <1>8, <1>9, <1>10, <1>11, <1>12, <1>13, <1>14, <1>15 DEF Next

\* Only a walk of Visit grows, and it acts for the author only when it had resolved him.
LEMMA VisitsActed ==
  ASSUME TypeInv, [Next]_vars, NEW s \in Slots, NEW n \in Node,
         walk[s].at = "walk", n \in walk'[s].visited \ walk[s].visited,
         graph.kind[n] \in Privileged, ~walk'[s].skipped
  PROVE  walk[s].actor
<1>1. /\ graph \in Graphs /\ walk \in [Slots -> Walk] /\ TypeOK
  BY DEF TypeInv, TypeOK
<1>2. walk'[s] # walk[s] /\ walk'[s].visited # {}
  OBVIOUS
<1>3. \A on, key, from, resume, x : called(on, key, from, resume, x).visited = {}
  BY DEF called
<1>4. Idle.visited = {}
  BY DEF Idle
<1>5. PICK t \in Slots : Begin(t) \/ Visit(t)
  <2>1. ASSUME NEW t \in Slots, Record(t) PROVE FALSE
    BY <1>1, <1>2, <1>4, <2>1 DEF Record
  <2>2. ASSUME NEW t \in Walkers, NEW r \in Replicas, NEW k \in Keys, NEW x \in Values,
               processWorkflows(t, r, k, x)
        PROVE  FALSE
    BY <1>1, <1>2, <1>3, <2>2 DEF processWorkflows
  <2>3. ~(updateWorkflow \/ AuthorChanges \/ Matures)
    BY <1>2 DEF updateWorkflow, AuthorChanges, Matures
  <2>4. ASSUME NEW r \in Replicas, tick(r) \/ destroyWait(r) \/ tickEnds(r) PROVE FALSE
    BY <1>2, <2>4 DEF tick, destroyWait, tickEnds
  <2>5. ASSUME NEW r \in Replicas, resumeFromWait(r) PROVE FALSE
    <3>1. \/ walk' = walk
          \/ \E w : walk' = [walk EXCEPT ![r] = called(r, w.key, w.node, Head(pass[r].ids), w.value)]
      BY <2>5 DEF resumeFromWait
    <3>2. QED
      BY <1>1, <1>2, <1>3, <3>1
  <2>6. ASSUME NEW r \in Replicas, Crash(r) PROVE FALSE
    BY <1>1, <1>2, <1>4, <2>6 DEF Crash
  <2>7. ~ UNCHANGED vars
    BY <1>2 DEF vars
  <2>8. QED
    BY <2>1, <2>2, <2>3, <2>4, <2>5, <2>6, <2>7 DEF Next
<1>6. ~Begin(t)
  BY <1>1, <1>2 DEF Begin
<1>7. PICK v, e : /\ walk' = [walk EXCEPT ![t] = v] /\ Visiting(walk[t], v, e.to)
  BY <1>1, <1>5, <1>6, VisitStep
<1>8. t = s /\ v = walk'[s] /\ n = e.to
  BY <1>1, <1>2, <1>7 DEF Visiting
<1>9. QED
  BY <1>7, <1>8 DEF Visiting, Passed, Stopped, Privileged

\* Nothing is written in the name of an author who left, except by a walk that had resolved him
\* before (resolveExecutionActor is called once, when the walk or its resume begins).
THEOREM AuthorStaysGone == Spec => AuthorGone
<1>1. Init => ActorInv
  BY DEF Init, ActorInv, Idle
<1>2. TypeInv /\ ActorInv /\ [Next]_vars =>
        [\A s \in Slots, n \in Node :
           /\ ~author /\ n \in walk'[s].visited \ walk[s].visited
           /\ walk[s].at = "walk" /\ graph.kind[n] \in Privileged
           /\ ~walk'[s].skipped
           => s \in outlived]_vars
  BY VisitsActed DEF ActorInv
<1>3. QED
  BY <1>1, <1>2, TypeInit, TypeStep, ActorStep, PTL DEF Spec, AuthorGone

-----------------------------------------------------------------------------
\* Repetition: the ledger of what the walks and the rows may still come to

Rows == asleep \cup {due[i] : i \in DOMAIN due}

\* The row a cron pass is at work on.
Held(i) == \E r \in Replicas : pass[r].at = "resume" /\ Head(pass[r].ids) = i

\* Where the edges a walk follows come from: its first node, and the waits it slept through.
Heads(w) == {w.from} \cup w.clamped

\* A row has an id of its own, and one that no pass has read before it came due.
Distinct ==
  /\ \A i, j \in DOMAIN due : due[i].id = due[j].id => i = j
  /\ \A w \in asleep :
       /\ \A i \in DOMAIN due : due[i].id # w.id
       /\ \A r \in Replicas : \A i \in DOMAIN pass[r].ids : pass[r].ids[i] # w.id
       /\ \A v \in asleep : v.id = w.id => v = w

\* Walks are led by the trigger and by waits, and each edge they have still to follow leads to a
\* node not visited that is behind one of these.
Led(w) ==
  /\ w.at # "idle" => Heads(w) \subseteq Source
  /\ w.at = "walk" =>
       \A e \in w.todo : e.to \notin w.visited /\ \E h \in Heads(w) : e.to \in Segment(h)

Headed ==
  /\ \A w \in Rows : graph.kind[w.node] = "wait"
  /\ \A s \in Slots : Led(walk[s])

\* Node n is visited in walks that m leads, and is not the trigger.
Behind(m, n) == m \in Source /\ n \in Node /\ n # m /\ n # Start /\ n \in Segment(m)

\* The nodes behind m, behind those, and so on, are not m again.
Grounded(m) ==
  \E D \in SUBSET Node : /\ m \notin D /\ \A n \in Node : Behind(m, n) => n \in D
                         /\ \A l \in D, n \in Node : Behind(l, n) => n \in D

AllGrounded ==
  /\ \A w \in Rows : Grounded(w.node)
  /\ \A s \in Slots : walk[s].at # "idle" => \A h \in Heads(walk[s]) : Grounded(h)

\* What may still take the event of key k from m to n: the rows at m that no pass has taken up,
\* and the walks that m leads and that have not visited n.
RowsAt(m, k) == {i \in WaitIds : /\ ~Held(i)
                                 /\ \E w \in Rows : w.id = i /\ w.node = m /\ w.key = k}

WalksTo(m, n, k) == {s \in Slots : /\ walk[s].at # "idle" /\ walk[s].key = k
                                   /\ m \in Heads(walk[s]) /\ n \notin walk[s].visited}

Open(m, n, k) == Cardinality(RowsAt(m, k)) + Cardinality(WalksTo(m, n, k))

\* The visits of each node for each key are within an allowance: no more than the key's quota,
\* and enough at m for what n was visited and for what may still take the event from m to n.
Ledger(allowed) ==
  /\ allowed \in [Node -> [Keys -> Nat]]
  /\ \A n \in Node, k \in Keys : sent[n][k] <= allowed[n][k] /\ allowed[n][k] <= quota[k]
  /\ \A m, n \in Node, k \in Keys :
       Behind(m, n) => allowed[n][k] + Open(m, n, k) <= allowed[m][k]

OnceInv ==
  /\ lru = heard /\ Distinct /\ Headed
  /\ Unrepeated => AllGrounded /\ \E allowed \in [Node -> [Keys -> Nat]] : Ledger(allowed)

-----------------------------------------------------------------------------
\* Counting

\* A set that loses an element has one less, and one that gains at most an element one more.
LEMMA Counting ==
  ASSUME NEW S, IsFiniteSet(S)
  PROVE  /\ Cardinality(S) \in Nat
         /\ \A T \in SUBSET S : IsFiniteSet(T) /\ Cardinality(T) <= Cardinality(S)
         /\ \A x : \A T \in SUBSET (S \cup {x}) :
              IsFiniteSet(T) /\ Cardinality(T) <= Cardinality(S) + 1
         /\ \A x \in S : \A T \in SUBSET (S \ {x}) :
              IsFiniteSet(T) /\ Cardinality(T) + 1 <= Cardinality(S)
<1>1. Cardinality(S) \in Nat
  BY FS_CardinalityType
<1>2. ASSUME NEW T \in SUBSET S PROVE IsFiniteSet(T) /\ Cardinality(T) <= Cardinality(S)
  BY FS_Subset
<1>3. ASSUME NEW x, NEW T \in SUBSET (S \cup {x})
      PROVE  IsFiniteSet(T) /\ Cardinality(T) <= Cardinality(S) + 1
  <2> DEFINE U == S \cup {x}
  <2>1. IsFiniteSet(U) /\ Cardinality(U) <= Cardinality(S) + 1
    BY <1>1, FS_AddElement
  <2>2. T \in SUBSET U
    OBVIOUS
  <2> HIDE DEF U
  <2>3. IsFiniteSet(T) /\ Cardinality(T) <= Cardinality(U)
    BY <2>1, <2>2, FS_Subset
  <2>4. Cardinality(T) \in Nat /\ Cardinality(U) \in Nat
    BY <2>1, <2>3, FS_CardinalityType
  <2>5. QED
    BY <1>1, <2>1, <2>3, <2>4
<1>4. ASSUME NEW x \in S, NEW T \in SUBSET (S \ {x})
      PROVE  IsFiniteSet(T) /\ Cardinality(T) + 1 <= Cardinality(S)
  <2> DEFINE U == S \ {x}
  <2>1. IsFiniteSet(U) /\ Cardinality(U) = Cardinality(S) - 1
    BY FS_RemoveElement
  <2>2. T \in SUBSET U
    OBVIOUS
  <2> HIDE DEF U
  <2>3. IsFiniteSet(T) /\ Cardinality(T) <= Cardinality(U)
    BY <2>1, <2>2, FS_Subset
  <2>4. Cardinality(T) \in Nat
    BY <2>3, FS_CardinalityType
  <2>5. QED
    BY <1>1, <2>1, <2>3, <2>4
<1>5. QED
  BY <1>1, <1>2, <1>3, <1>4

\* What a change of the rows at m and of the walks it leads makes of their number.
LEMMA OpenCounts ==
  ASSUME NEW m, NEW n, NEW k
  PROVE  /\ Open(m, n, k) \in Nat /\ Open(m, n, k)' \in Nat
         /\ RowsAt(m, k)' \subseteq RowsAt(m, k) /\ WalksTo(m, n, k)' \subseteq WalksTo(m, n, k)
              => Open(m, n, k)' <= Open(m, n, k)
         /\ \A i : RowsAt(m, k)' \subseteq RowsAt(m, k) \cup {i}
                   /\ WalksTo(m, n, k)' \subseteq WalksTo(m, n, k)
              => Open(m, n, k)' <= Open(m, n, k) + 1
         /\ \A s : RowsAt(m, k)' \subseteq RowsAt(m, k)
                   /\ WalksTo(m, n, k)' \subseteq WalksTo(m, n, k) \cup {s}
              => Open(m, n, k)' <= Open(m, n, k) + 1
         /\ \A s \in WalksTo(m, n, k) :
              RowsAt(m, k)' \subseteq RowsAt(m, k)
              /\ WalksTo(m, n, k)' \subseteq WalksTo(m, n, k) \ {s}
              => Open(m, n, k)' + 1 <= Open(m, n, k)
         /\ \A s : \A i \in RowsAt(m, k) :
              RowsAt(m, k)' \subseteq RowsAt(m, k) \ {i}
              /\ WalksTo(m, n, k)' \subseteq WalksTo(m, n, k) \cup {s}
              => Open(m, n, k)' <= Open(m, n, k)
<1> DEFINE R == RowsAt(m, k)  W == WalksTo(m, n, k)
<1>1. IsFiniteSet(WaitIds) /\ IsFiniteSet(Slots)
  BY WorkflowConstants, FS_Union DEF Slots
<1>2. R \in SUBSET WaitIds /\ R' \in SUBSET WaitIds /\ W \in SUBSET Slots /\ W' \in SUBSET Slots
  BY DEF RowsAt, WalksTo
<1>3. Open(m, n, k) = Cardinality(R) + Cardinality(W)
      /\ Open(m, n, k)' = Cardinality(R') + Cardinality(W')
  BY DEF Open
<1> HIDE DEF R, W
<1>4. IsFiniteSet(R) /\ IsFiniteSet(R') /\ IsFiniteSet(W) /\ IsFiniteSet(W')
  BY <1>1, <1>2, Counting
<1>5. /\ Cardinality(R) \in Nat /\ Cardinality(R') \in Nat
      /\ Cardinality(W) \in Nat /\ Cardinality(W') \in Nat
  BY <1>4, Counting
<1>6. /\ R' \subseteq R => Cardinality(R') <= Cardinality(R)
      /\ W' \subseteq W => Cardinality(W') <= Cardinality(W)
  BY <1>4, Counting
<1>7. /\ \A i : R' \subseteq R \cup {i} => Cardinality(R') <= Cardinality(R) + 1
      /\ \A s : W' \subseteq W \cup {s} => Cardinality(W') <= Cardinality(W) + 1
  BY <1>4, Counting
<1>8. /\ \A i \in R : R' \subseteq R \ {i} => Cardinality(R') + 1 <= Cardinality(R)
      /\ \A s \in W : W' \subseteq W \ {s} => Cardinality(W') + 1 <= Cardinality(W)
  BY <1>4, Counting
<1>9. QED
  BY <1>3, <1>5, <1>6, <1>7, <1>8 DEF R, W

-----------------------------------------------------------------------------
\* What does not change, and what a step of the rows does

\* The graph never changes, and nothing said of it alone.
LEMMA Fixed ==
  ASSUME graph' = graph
  PROVE  /\ Node' = Node /\ Source' = Source /\ (Unrepeated' <=> Unrepeated)
         /\ \A m : Segment(m)' = Segment(m) /\ (Grounded(m)' <=> Grounded(m))
         /\ \A m, n : Behind(m, n)' <=> Behind(m, n)
<1>1. Node' = Node
  BY DEF Node
<1>2. Source' = Source
  BY <1>1 DEF Source
<1>3. \A F, from : Along(F, from)' = Along(F, from)
  BY <1>1 DEF Along, Closed
<1>4. \A m : Segment(m)' = Segment(m)
  BY <1>3 DEF Segment
<1>5. \A m, n : Behind(m, n)' <=> Behind(m, n)
  BY <1>1, <1>2, <1>4 DEF Behind
<1>6. \A m : Grounded(m)' <=> Grounded(m)
  BY <1>1, <1>5 DEF Grounded
<1>7. Unrepeated' <=> Unrepeated
  BY <1>1, <1>2, <1>4 DEF Unrepeated
<1>8. QED
  BY <1>1, <1>2, <1>4, <1>5, <1>6, <1>7

\* No step touches the graph.
LEMMA GraphFixed == [Next]_vars => graph' = graph
BY DEF Next, vars, Begin, Visit, Record, processWorkflows, updateWorkflow, AuthorChanges,
       Matures, tick, resumeFromWait, destroyWait, tickEnds, Crash

\* Deleting a row leaves the others, each once.
LEMMA DestroyedRows ==
  ASSUME due \in Seq(Wait), \A i, j \in DOMAIN due : due[i].id = due[j].id => i = j, NEW i
  PROVE  /\ \A m \in DOMAIN destroyed(i) :
              \E j \in DOMAIN due : due[j] = destroyed(i)[m] /\ due[j].id # i
         /\ \A j \in DOMAIN due :
              due[j].id # i => \E m \in DOMAIN destroyed(i) : destroyed(i)[m] = due[j]
         /\ \A l, m \in DOMAIN destroyed(i) : destroyed(i)[l].id = destroyed(i)[m].id => l = m
<1> DEFINE d == destroyed(i)
<1> HIDE DEF d
<1>1. CASE \E j \in DOMAIN due : due[j].id = i
  <2> DEFINE k == CHOOSE j \in DOMAIN due : due[j].id = i
             past(m) == IF m < k THEN m ELSE m + 1
  <2>1. k \in DOMAIN due /\ due[k].id = i
    BY <1>1
  <2> HIDE DEF k
  <2>2. DOMAIN due = 1..Len(due) /\ Len(due) \in Nat
    OBVIOUS
  <2>3. d = [m \in 1..(Len(due) - 1) |-> due[past(m)]]
    BY <1>1 DEF destroyed, k, d
  <2>4. /\ \A m \in 1..(Len(due) - 1) : past(m) \in DOMAIN due \ {k}
        /\ \A l, m \in 1..(Len(due) - 1) : past(l) = past(m) => l = m
        /\ \A j \in DOMAIN due \ {k} : \E m \in 1..(Len(due) - 1) : past(m) = j
    <3>1. ASSUME NEW j \in DOMAIN due \ {k} PROVE \E m \in 1..(Len(due) - 1) : past(m) = j
      <4>1. CASE j < k
        BY <2>1, <2>2, <4>1
      <4>2. CASE ~(j < k)
        <5>1. j - 1 \in 1..(Len(due) - 1) /\ past(j - 1) = j
          BY <2>1, <2>2, <4>2
        <5>2. QED
          BY <5>1
      <4>3. QED
        BY <4>1, <4>2
    <3>2. QED
      BY <2>1, <2>2, <3>1
  <2> HIDE DEF past
  <2>5. DOMAIN d = 1..(Len(due) - 1) /\ \A m \in DOMAIN d : d[m] = due[past(m)]
    BY <2>3
  <2>6. \A j \in DOMAIN due : due[j].id = i <=> j = k
    BY <2>1
  <2>7. ASSUME NEW m \in DOMAIN d PROVE \E j \in DOMAIN due : due[j] = d[m] /\ due[j].id # i
    <3>1. past(m) \in DOMAIN due /\ past(m) # k /\ d[m] = due[past(m)]
      BY <2>4, <2>5
    <3>2. QED
      BY <2>6, <3>1
  <2>8. ASSUME NEW j \in DOMAIN due, due[j].id # i PROVE \E m \in DOMAIN d : d[m] = due[j]
    <3>1. PICK m \in 1..(Len(due) - 1) : past(m) = j
      BY <2>4, <2>6, <2>8
    <3>2. QED
      BY <2>5, <3>1
  <2>9. \A l, m \in DOMAIN d : d[l].id = d[m].id => l = m
    BY <2>4, <2>5
  <2>10. QED
    BY <2>7, <2>8, <2>9 DEF d
<1>2. CASE ~ \E j \in DOMAIN due : due[j].id = i
  BY <1>2 DEF destroyed
<1>3. QED
  BY <1>1, <1>2

\* Rows stay distinct while they are only deleted and passes only go on.
LEMMA DistinctKept ==
  ASSUME TypeOK, Distinct, asleep' \subseteq asleep, due' = due \/ \E i : due' = destroyed(i),
         \A r \in Replicas : \A i \in DOMAIN pass'[r].ids :
           \E j \in DOMAIN pass[r].ids : pass[r].ids[j] = pass'[r].ids[i]
  PROVE  Distinct'
<1>1. /\ \A i, j \in DOMAIN due' : due'[i].id = due'[j].id => i = j
      /\ \A i \in DOMAIN due' : \E j \in DOMAIN due : due[j] = due'[i]
  <2>1. CASE due' = due
    BY <2>1 DEF Distinct
  <2>2. ASSUME NEW i, due' = destroyed(i)
        PROVE  /\ \A l, j \in DOMAIN due' : due'[l].id = due'[j].id => l = j
               /\ \A l \in DOMAIN due' : \E j \in DOMAIN due : due[j] = due'[l]
    BY <2>2, DestroyedRows DEF TypeOK, Distinct
  <2>3. QED
    BY <2>1, <2>2
<1>2. \A w \in asleep' : \A i \in DOMAIN due' : due'[i].id # w.id
  BY <1>1 DEF Distinct
<1>3. \A w \in asleep' : \A r \in Replicas : \A i \in DOMAIN pass'[r].ids : pass'[r].ids[i] # w.id
  BY DEF Distinct
<1>4. QED
  BY <1>1, <1>2, <1>3 DEF Distinct

\* Every step keeps the rows distinct: a new one takes an id not in use, a pass reads what is due.
LEMMA DistinctStep == TypeInv /\ Distinct /\ [Next]_vars => Distinct'
<1> SUFFICES ASSUME TypeInv, Distinct, [Next]_vars PROVE Distinct'
  OBVIOUS
<1>1. TypeOK /\ due \in Seq(Wait) /\ asleep \subseteq Wait /\ pass \in [Replicas -> Pass] /\ PassHasRow
      /\ \A r \in Replicas : pass[r].ids \in Seq(WaitIds)
  BY DEF TypeInv, TypeOK, Pass
<1>2. ASSUME asleep' = asleep, due' = due, pass' = pass PROVE Distinct'
  BY <1>2 DEF Distinct
<1>3. ASSUME NEW r \in Replicas, NEW p, pass' = [pass EXCEPT ![r] = p],
             (p.ids = Tail(pass[r].ids) /\ pass[r].ids # <<>>) \/ p.ids = pass[r].ids \/ p.ids = <<>>,
             asleep' = asleep, due' = due \/ \E i : due' = destroyed(i)
      PROVE  Distinct'
  <2>1. \A i \in DOMAIN p.ids : \E j \in DOMAIN pass[r].ids : pass[r].ids[j] = p.ids[i]
    <3>1. CASE p.ids = Tail(pass[r].ids) /\ pass[r].ids # <<>>
      <4> TAKE i \in DOMAIN p.ids
      <4>1. i + 1 \in DOMAIN pass[r].ids /\ p.ids[i] = pass[r].ids[i + 1]
        BY <1>1, <3>1
      <4>2. QED
        BY <4>1
    <3>2. CASE p.ids = pass[r].ids
      BY <3>2
    <3>3. CASE p.ids = <<>>
      BY <3>3
    <3>4. QED
      BY <1>3, <3>1, <3>2, <3>3
  <2>2. \A q \in Replicas : \A i \in DOMAIN pass'[q].ids :
          \E j \in DOMAIN pass[q].ids : pass[q].ids[j] = pass'[q].ids[i]
    BY <1>1, <1>3, <2>1
  <2>3. QED
    BY <1>1, <1>3, <2>2, DistinctKept
<1>4. ASSUME NEW s \in Slots, Visit(s) PROVE Distinct'
  <2>1. due' = due /\ pass' = pass
    BY <1>4 DEF Visit
  <2>2. PICK n : Leaves(s, n)
    BY <1>1, <1>4, VisitStep
  <2>3. CASE asleep' = asleep
    BY <1>2, <2>1, <2>3
  <2>4. ASSUME NEW i \in WaitIds \ inUse, NEW w, w.id = i, asleep' = asleep \cup {w}
        PROVE  Distinct'
    <3>1. /\ \A v \in asleep : v.id # i
          /\ \A j \in DOMAIN due : due[j].id # i
          /\ \A r \in Replicas : \A j \in DOMAIN pass[r].ids : pass[r].ids[j] # i
      BY <2>4 DEF inUse
    <3>2. QED
      BY <2>1, <2>4, <3>1 DEF Distinct
  <2>5. QED
    BY <2>2, <2>3, <2>4 DEF Leaves
<1>5. CASE Matures
  <2>1. PICK w \in asleep : asleep' = asleep \ {w} /\ due' = Append(due, w) /\ pass' = pass
    BY <1>5 DEF Matures
  <2>2. /\ Len(due) \in Nat /\ DOMAIN due' = 1..(Len(due) + 1) /\ DOMAIN due = 1..Len(due)
        /\ \A i \in DOMAIN due : due'[i] = due[i]
        /\ due'[Len(due) + 1] = w
    BY <1>1, <2>1
  <2>3. \A i \in DOMAIN due' : i \in DOMAIN due \/ i = Len(due) + 1
    BY <2>2
  <2>4. \A v \in asleep' : v.id # w.id
    BY <2>1 DEF Distinct
  <2>5. \A i \in DOMAIN due : due[i].id # w.id
    BY DEF Distinct
  <2>6. \A i, j \in DOMAIN due' : due'[i].id = due'[j].id => i = j
    BY <2>2, <2>3, <2>5 DEF Distinct
  <2>7. \A v \in asleep' : \A i \in DOMAIN due' : due'[i].id # v.id
    BY <2>1, <2>2, <2>3, <2>4 DEF Distinct
  <2>8. QED
    BY <2>1, <2>6, <2>7 DEF Distinct
<1>6. ASSUME NEW r \in Replicas, tick(r) PROVE Distinct'
  <2> DEFINE n == IF Len(due) < BATCH_SIZE THEN Len(due) ELSE BATCH_SIZE
             p == [at |-> "load", ids |-> [i \in 1..n |-> due[i].id]]
  <2>1. pass' = [pass EXCEPT ![r] = p] /\ UNCHANGED <<asleep, due>>
    BY <1>6 DEF tick
  <2>2. n \in Nat /\ n <= Len(due) /\ DOMAIN due = 1..Len(due) /\ Len(due) \in Nat
    BY <1>1, WorkflowConstants
  <2> HIDE DEF n
  <2>3. \A i \in DOMAIN p.ids : i \in DOMAIN due /\ p.ids[i] = due[i].id
    BY <2>2
  <2> HIDE DEF p
  <2>4. \A w \in asleep : \A q \in Replicas : \A i \in DOMAIN pass'[q].ids : pass'[q].ids[i] # w.id
    BY <1>1, <2>1, <2>3 DEF Distinct
  <2>5. QED
    BY <2>1, <2>4 DEF Distinct
<1>7. ASSUME NEW r \in Replicas, resumeFromWait(r) PROVE Distinct'
  <2>1. /\ asleep' = asleep
        /\ due' = due \/ \E i : due' = destroyed(i)
        /\ pass' = NextId(r) \/ pass' = [pass EXCEPT ![r].at = "resume"]
        /\ pass[r].ids # <<>>
    BY <1>7 DEF resumeFromWait
  <2>2. CASE pass' = NextId(r)
    <3> DEFINE p == [pass[r] EXCEPT !.ids = Tail(@)]
    <3>1. pass' = [pass EXCEPT ![r] = p] /\ p.ids = Tail(pass[r].ids)
      <4>1. pass[r] \in Pass
        BY <1>1
      <4>2. p.ids = Tail(pass[r].ids)
        BY <4>1 DEF Pass
      <4>3. QED
        BY <1>1, <2>2, <4>2 DEF NextId
    <3> HIDE DEF p
    <3>2. QED
      BY <1>3, <2>1, <3>1
  <2>3. CASE pass' = [pass EXCEPT ![r].at = "resume"]
    <3> DEFINE p == [pass[r] EXCEPT !.at = "resume"]
    <3>1. pass' = [pass EXCEPT ![r] = p] /\ p.ids = pass[r].ids
      <4>1. pass[r] \in Pass
        BY <1>1
      <4>2. p.ids = pass[r].ids
        BY <4>1 DEF Pass
      <4>3. QED
        BY <1>1, <2>3, <4>2
    <3> HIDE DEF p
    <3>2. QED
      BY <1>3, <2>1, <3>1
  <2>4. QED
    BY <2>1, <2>2, <2>3
<1>8. ASSUME NEW r \in Replicas, destroyWait(r) PROVE Distinct'
  BY <1>1, <1>3, <1>8 DEF destroyWait, PassHasRow
<1>9. ASSUME NEW r \in Replicas, tickEnds(r) \/ Crash(r) PROVE Distinct'
  BY <1>3, <1>9 DEF tickEnds, Crash, NoPass
<1>10. ASSUME NEW s \in Slots, Begin(s) \/ Record(s) PROVE Distinct'
  BY <1>2, <1>10 DEF Begin, Record
<1>11. ASSUME NEW s \in Walkers, NEW r \in Replicas, NEW k \in Keys, NEW x \in Values,
              processWorkflows(s, r, k, x)
       PROVE  Distinct'
  BY <1>2, <1>11 DEF processWorkflows
<1>12. CASE updateWorkflow \/ AuthorChanges \/ UNCHANGED vars
  BY <1>2, <1>12 DEF updateWorkflow, AuthorChanges, vars
<1>13. QED
  BY <1>4, <1>5, <1>6, <1>7, <1>8, <1>9, <1>10, <1>11, <1>12 DEF Next

\* Nothing but a visit adds a row.
LEMMA RowsOnlyGo ==
  ASSUME TypeInv, Distinct, [Next]_vars, \A s \in Slots : ~Visit(s)
  PROVE  Rows' \subseteq Rows
<1>1. TypeOK /\ due \in Seq(Wait)
  BY DEF TypeInv, TypeOK
<1>2. ASSUME asleep' = asleep, due' = due PROVE Rows' \subseteq Rows
  BY <1>2 DEF Rows
<1>3. ASSUME NEW i, asleep' = asleep, due' = destroyed(i) PROVE Rows' \subseteq Rows
  BY <1>1, <1>3, DestroyedRows DEF Rows, Distinct
<1>4. CASE Matures
  <2>1. PICK w \in asleep : asleep' = asleep \ {w} /\ due' = Append(due, w)
    BY <1>4 DEF Matures
  <2>2. \A i \in DOMAIN due' : due'[i] = w \/ \E j \in DOMAIN due : due'[i] = due[j]
    BY <1>1, <2>1
  <2>3. QED
    BY <2>1, <2>2 DEF Rows
<1>5. ASSUME NEW r \in Replicas, resumeFromWait(r) \/ destroyWait(r) PROVE Rows' \subseteq Rows
  <2>1. asleep' = asleep /\ (due' = due \/ \E i : due' = destroyed(i))
    BY <1>5 DEF resumeFromWait, destroyWait
  <2>2. QED
    BY <1>2, <1>3, <2>1
<1>6. ASSUME NEW s \in Slots, Begin(s) \/ Record(s) PROVE Rows' \subseteq Rows
  BY <1>2, <1>6 DEF Begin, Record
<1>7. ASSUME NEW s \in Walkers, NEW r \in Replicas, NEW k \in Keys, NEW x \in Values,
             processWorkflows(s, r, k, x)
      PROVE  Rows' \subseteq Rows
  BY <1>2, <1>7 DEF processWorkflows
<1>8. ASSUME NEW r \in Replicas, tick(r) \/ tickEnds(r) \/ Crash(r) PROVE Rows' \subseteq Rows
  BY <1>2, <1>8 DEF tick, tickEnds, Crash
<1>9. CASE updateWorkflow \/ AuthorChanges \/ UNCHANGED vars
  BY <1>2, <1>9 DEF updateWorkflow, AuthorChanges, vars
<1>10. QED
  BY <1>4, <1>5, <1>6, <1>7, <1>8, <1>9 DEF Next

\* An edge out of a node of a segment that is no wait, or out of the segment's first node, stays
\* in the segment.
LEMMA SegmentGrows ==
  ASSUME NEW h, NEW e \in graph.edges, e.to \in Node,
         \/ e.from = h /\ h \in Node
         \/ e.from \in Segment(h) /\ graph.kind[e.from] # "wait"
  PROVE  e.to \in Segment(h)
BY DEF Segment, Along, Closed

\* A visit follows an edge of a segment, and what it queues stays there or begins a new one.
LEMMA VisitLed ==
  ASSUME graph \in Graphs, NEW w \in Walk, NEW v, NEW e \in w.todo, e.to \in Node,
         w.at = "walk", Sound(w), Led(w), Visiting(w, v, e.to)
  PROVE  Led(v) /\ Heads(v) \subseteq Heads(w) \cup {e.to}
         /\ Heads(v) \subseteq Heads(w) \cup {n \in Node : graph.kind[n] = "wait"}
<1> DEFINE n == e.to
<1>1. /\ v \in Walk /\ v.visited = w.visited \cup {n} /\ v.at = "walk" /\ v.from = w.from
      /\ Passed(w, v, n) \/ Stopped(w, v, n)
  BY DEF Visiting
<1>2. /\ Heads(w) \subseteq Source /\ n \notin w.visited
      /\ \A d \in w.todo : d.to \notin w.visited /\ \E h \in Heads(w) : d.to \in Segment(h)
  BY DEF Led
<1>3. /\ Heads(v) \subseteq Heads(w) \cup {n}
      /\ Heads(v) \subseteq Heads(w) \cup {m \in Node : graph.kind[m] = "wait"}
      /\ Heads(w) \subseteq Heads(v)
      /\ Passed(w, v, n) /\ graph.kind[n] = "wait" => n \in Heads(v)
  BY <1>1 DEF Passed, Stopped, Heads
<1>4. Heads(v) \subseteq Source
  BY <1>2, <1>3 DEF Source
<1>5. ASSUME NEW d \in v.todo PROVE d.to \notin v.visited /\ \E h \in Heads(v) : d.to \in Segment(h)
  <2>1. CASE d \in w.todo
    BY <1>1, <1>2, <1>3, <2>1 DEF Passed, Stopped
  <2>2. CASE d \notin w.todo
    <3>1. /\ Passed(w, v, n) /\ d \in outgoing(graph, n, w.value)
          /\ d.to \notin v.visited
      BY <1>1, <2>2 DEF Passed, Stopped
    <3>2. d \in graph.edges /\ d.from = n /\ d.to \in Node
      BY <3>1, WorkflowConstants DEF outgoing, Node
    <3>3. PICK h \in Heads(w) : n \in Segment(h)
      BY <1>2
    <3>4. CASE graph.kind[n] = "wait"
      <4>1. d.to \in Segment(n)
        BY <3>2, SegmentGrows
      <4>2. QED
        BY <1>3, <3>1, <3>4, <4>1
    <3>5. CASE graph.kind[n] # "wait"
      BY <1>3, <3>1, <3>2, <3>3, <3>5, SegmentGrows
    <3>6. QED
      BY <3>4, <3>5
  <2>3. QED
    BY <2>1, <2>2
<1>6. QED
  BY <1>1, <1>3, <1>4, <1>5 DEF Led

\* A walk that begins is led by its first node.
LEMMA BeginLed ==
  ASSUME graph \in Graphs, NEW w \in Walk, w.at = "begin", Sound(w), Led(w), NEW a \in BOOLEAN,
         NEW v, v = [queued(w, w.from) EXCEPT !.at = "walk", !.actor = a]
  PROVE  Led(v) /\ Heads(v) = Heads(w) /\ v.key = w.key /\ v.at = "walk"
<1> DEFINE q == queued(w, w.from)
<1>1. w.from \in Node /\ w.todo = {} /\ w.visited = {} /\ w.clamped = {}
  BY DEF Sound, Walk
<1>2. /\ q \in Walk /\ q.visited = {w.from} /\ q.from = w.from /\ q.clamped = {} /\ q.key = w.key
      /\ q.todo = {e \in outgoing(graph, w.from, w.value) : e.to # w.from}
  BY <1>1, Queued
<1> HIDE DEF q
<1>3. /\ v.visited = {w.from} /\ v.from = w.from /\ v.clamped = {} /\ v.key = w.key
      /\ v.at = "walk" /\ v.todo = {e \in outgoing(graph, w.from, w.value) : e.to # w.from}
  <2>1. v = [q EXCEPT !.at = "walk", !.actor = a]
    BY DEF q
  <2>2. QED
    BY <1>2, <2>1 DEF Walk
<1>4. Heads(v) = Heads(w) /\ Heads(v) \subseteq Source
  BY <1>1, <1>3 DEF Heads, Led
<1>5. ASSUME NEW e \in v.todo
      PROVE  e.to \notin v.visited /\ \E h \in Heads(v) : e.to \in Segment(h)
  <2>1. e \in graph.edges /\ e.from = w.from /\ e.to \in Node /\ e.to # w.from
    BY <1>3, WorkflowConstants DEF outgoing, Node
  <2>2. e.to \in Segment(w.from)
    BY <1>1, <2>1, SegmentGrows
  <2>3. QED
    BY <1>3, <2>1, <2>2 DEF Heads
<1>6. QED
  BY <1>3, <1>4, <1>5 DEF Led

\* Every step keeps the walks led and the rows at waits.
LEMMA HeadedStep == TypeInv /\ SoundInv /\ Distinct /\ Headed /\ [Next]_vars => Headed'
<1> SUFFICES ASSUME TypeInv, SoundInv, Distinct, Headed, [Next]_vars PROVE Headed'
  OBVIOUS
<1>1. /\ graph \in Graphs /\ walk \in [Slots -> Walk] /\ TypeOK /\ graph' = graph
      /\ \A s \in Slots : Led(walk[s]) /\ Sound(walk[s])
      /\ \A w \in Rows : graph.kind[w.node] = "wait"
  BY GraphFixed DEF TypeInv, TypeOK, Headed, SoundInv
<1>2. \A w : Led(w)' <=> Led(w)
  BY <1>1, Fixed DEF Led, Heads
<1>3. \A w \in Rows' : graph.kind[w.node] = "wait"
  <2>1. CASE \A s \in Slots : ~Visit(s)
    BY <1>1, <2>1, RowsOnlyGo
  <2>2. ASSUME NEW s \in Slots, Visit(s) PROVE \A w \in Rows' : graph.kind[w.node] = "wait"
    <3>1. due' = due
      BY <2>2 DEF Visit
    <3>2. PICK n : Leaves(s, n)
      BY <1>1, <2>2, VisitStep
    <3>3. \A w \in asleep' : w \in asleep \/ graph.kind[w.node] = "wait"
      BY <3>2 DEF Leaves
    <3>4. QED
      BY <1>1, <3>1, <3>3 DEF Rows
  <2>3. QED
    BY <2>1, <2>2
<1>4. ASSUME NEW s \in Slots, NEW v, Led(v), walk' = [walk EXCEPT ![s] = v] PROVE Headed'
  <2>1. \A t \in Slots : Led(walk'[t])
    BY <1>1, <1>4
  <2>2. QED
    BY <1>1, <1>2, <1>3, <2>1 DEF Headed, Slots
<1>5. ASSUME walk' = walk PROVE Headed'
  BY <1>1, <1>2, <1>3, <1>5 DEF Headed, Slots
<1>6. ASSUME NEW r, NEW k, NEW n \in Source, NEW i, NEW x PROVE Led(called(r, k, n, i, x))
  BY DEF Led, called, Heads
<1>7. Led(Idle)
  BY DEF Led, Idle
<1>8. ASSUME NEW s \in Slots, Begin(s) PROVE Headed'
  <2>1. walk' = [walk EXCEPT ![s] = [queued(walk[s], walk[s].from) EXCEPT
                                       !.at = "walk", !.actor = author]]
    BY <1>8 DEF Begin
  <2>2. author \in BOOLEAN /\ walk[s] \in Walk /\ walk[s].at = "begin"
    BY <1>1, <1>8 DEF TypeOK, Begin
  <2>3. QED
    BY <1>1, <1>4, <2>1, <2>2, BeginLed
<1>9. ASSUME NEW s \in Slots, Visit(s) PROVE Headed'
  <2>1. PICK v, e : /\ walk' = [walk EXCEPT ![s] = v] /\ e \in walk[s].todo /\ e.to \in Node
                    /\ Visiting(walk[s], v, e.to)
    BY <1>1, <1>9, VisitStep
  <2>2. walk[s] \in Walk /\ walk[s].at = "walk"
    BY <1>1, <1>9 DEF Visit
  <2>3. Led(v)
    BY <1>1, <2>1, <2>2, VisitLed
  <2>4. QED
    BY <1>4, <2>1, <2>3
<1>10. ASSUME NEW s \in Slots, Record(s) PROVE Headed'
  BY <1>4, <1>7, <1>10 DEF Record
<1>11. ASSUME NEW s \in Walkers, NEW r \in Replicas, NEW k \in Keys, NEW x \in Values,
              processWorkflows(s, r, k, x)
       PROVE  Headed'
  <2>1. s \in Slots /\ walk' = [walk EXCEPT ![s] = called(r, k, Start, None, x)]
    BY <1>11 DEF processWorkflows, Slots
  <2>2. Start \in Source
    BY DEF Source
  <2>3. QED
    BY <1>4, <1>6, <2>1, <2>2
<1>12. ASSUME NEW r \in Replicas, resumeFromWait(r) PROVE Headed'
  <2>1. \/ walk' = walk
        \/ \E w \in {due[j] : j \in DOMAIN due} :
             walk' = [walk EXCEPT ![r] = called(r, w.key, w.node, Head(pass[r].ids), w.value)]
    BY <1>12 DEF resumeFromWait
  <2>2. \A w \in {due[j] : j \in DOMAIN due} : w.node \in Source
    <3>1. \A j \in DOMAIN due : due[j] \in Wait
      BY <1>1 DEF TypeOK
    <3>2. QED
      BY <1>1, <3>1 DEF Rows, Source, Wait
  <2>3. r \in Slots
    BY DEF Slots
  <2>4. QED
    BY <1>4, <1>5, <1>6, <2>1, <2>2, <2>3
<1>13. ASSUME NEW r \in Replicas, Crash(r) PROVE Headed'
  <2>1. \A s \in Slots : walk'[s] = Idle \/ walk'[s] = walk[s]
    BY <1>13 DEF Crash
  <2>2. \A s \in Slots : Led(walk'[s])
    BY <1>1, <1>7, <2>1
  <2>3. QED
    BY <1>1, <1>2, <1>3, <2>2 DEF Headed, Slots
<1>14. ASSUME NEW r \in Replicas, tick(r) \/ destroyWait(r) \/ tickEnds(r) PROVE Headed'
  BY <1>5, <1>14 DEF tick, destroyWait, tickEnds
<1>15. CASE updateWorkflow \/ AuthorChanges \/ Matures \/ UNCHANGED vars
  BY <1>5, <1>15 DEF updateWorkflow, AuthorChanges, Matures, vars
<1>16. QED
  BY <1>8, <1>9, <1>10, <1>11, <1>12, <1>13, <1>14, <1>15 DEF Next

\* The trigger is not behind itself, nor is what is behind a node that is not: it is behind no other.
LEMMA StartGrounded == ASSUME graph \in Graphs PROVE Grounded(Start)
<1>1. Node \ {Start} \in SUBSET Node
  OBVIOUS
<1>2. \A l, n : Behind(l, n) => n \in Node \ {Start}
  BY DEF Behind
<1>3. QED
  BY <1>1, <1>2 DEF Grounded

\* What is behind such a node is such a node too.
LEMMA BehindGrounded ==
  ASSUME Unrepeated, NEW h, NEW n, Behind(h, n), Grounded(h)
  PROVE  Grounded(n)
<1>1. PICK D \in SUBSET Node : /\ h \notin D /\ \A m \in Node : Behind(h, m) => m \in D
                               /\ \A l \in D, m \in Node : Behind(l, m) => m \in D
  BY DEF Grounded
<1>2. n \in D /\ n \in Node
  BY <1>1 DEF Behind
<1>3. \A l \in D : ~Behind(l, n)
  BY <1>1 DEF Behind, Unrepeated
<1>4. \A m \in Node : Behind(n, m) => m \in D \ {n}
  BY <1>1, <1>2 DEF Behind
<1>5. \A l \in D \ {n}, m \in Node : Behind(l, m) => m \in D \ {n}
  BY <1>1, <1>3
<1>6. n \notin D \ {n} /\ D \ {n} \in SUBSET Node
  OBVIOUS
<1>7. QED
  BY <1>4, <1>5, <1>6 DEF Grounded

\* What a walk goes to next is the trigger again, or behind a node that leads it.
LEMMA NextBehind ==
  ASSUME NEW w \in Walk, w.at = "walk", Sound(w), Led(w), NEW e \in w.todo, e.to \in Node
  PROVE  /\ e.to \notin w.visited
         /\ e.to = Start \/ \E h \in Heads(w) : Behind(h, e.to)
<1>1. /\ Heads(w) \subseteq Source /\ Heads(w) \subseteq w.visited
      /\ e.to \notin w.visited /\ \E h \in Heads(w) : e.to \in Segment(h)
  BY DEF Led, Sound, Heads
<1>2. QED
  BY <1>1 DEF Behind

\* Every step leads walks and puts rows only where nothing is behind itself.
LEMMA GroundedStep ==
  TypeInv /\ SoundInv /\ Distinct /\ Headed /\ Unrepeated /\ AllGrounded /\ [Next]_vars
    => AllGrounded'
<1> SUFFICES ASSUME TypeInv, SoundInv, Distinct, Headed, Unrepeated, AllGrounded, [Next]_vars
             PROVE  AllGrounded'
  OBVIOUS
<1>1. /\ graph \in Graphs /\ walk \in [Slots -> Walk] /\ TypeOK /\ graph' = graph
      /\ \A s \in Slots : Led(walk[s]) /\ Sound(walk[s])
  BY GraphFixed DEF TypeInv, TypeOK, Headed, SoundInv
<1>2. \A m : Grounded(m)' <=> Grounded(m)
  BY <1>1, Fixed
<1> DEFINE Good(w) == w.at # "idle" => \A h \in Heads(w) : Grounded(h)
<1>3. /\ \A w \in Rows : Grounded(w.node)
      /\ \A s \in Slots : Good(walk[s])
  BY DEF AllGrounded
<1>4. ASSUME \A w \in Rows' : Grounded(w.node), \A s \in Slots : Good(walk'[s]) PROVE AllGrounded'
  <2>1. \A w : Heads(w)' = Heads(w)
    BY DEF Heads
  <2>2. QED
    BY <1>2, <1>4, <2>1 DEF AllGrounded, Slots
<1>5. ASSUME NEW s \in Slots, Visit(s) PROVE AllGrounded'
  <2>1. PICK v, e : /\ walk' = [walk EXCEPT ![s] = v] /\ e \in walk[s].todo /\ e.to \in Node
                    /\ Visiting(walk[s], v, e.to) /\ Leaves(s, e.to)
    BY <1>1, <1>5, VisitStep
  <2>2. walk[s] \in Walk /\ walk[s].at = "walk" /\ due' = due
    BY <1>1, <1>5 DEF Visit
  <2>3. e.to = Start \/ \E h \in Heads(walk[s]) : Behind(h, e.to)
    BY <1>1, <2>1, <2>2, NextBehind
  <2>4. Grounded(e.to)
    BY <1>1, <1>3, <2>2, <2>3, StartGrounded, BehindGrounded
  <2>5. Heads(v) \subseteq Heads(walk[s]) \cup {e.to}
    BY <1>1, <2>1, <2>2, VisitLed
  <2>6. \A t \in Slots : Good(walk'[t])
    BY <1>1, <1>3, <2>1, <2>2, <2>4, <2>5
  <2>7. \A w \in asleep' : w \in asleep \/ w.node = e.to
    BY <2>1 DEF Leaves
  <2>8. \A w \in Rows' : Grounded(w.node)
    BY <1>3, <2>2, <2>4, <2>7 DEF Rows
  <2>9. QED
    BY <1>4, <2>6, <2>8
<1>6. ASSUME \A s \in Slots : ~Visit(s) PROVE \A w \in Rows' : Grounded(w.node)
  BY <1>3, <1>6, RowsOnlyGo
<1>7. Good(Idle) /\ \A r, k, n, i, x : Grounded(n) => Good(called(r, k, n, i, x))
  BY DEF Idle, called, Heads
<1> HIDE DEF Good
<1>8. ASSUME NEW s \in Slots, Begin(s) PROVE \A t \in Slots : Good(walk'[t])
  <2> DEFINE v == [queued(walk[s], walk[s].from) EXCEPT !.at = "walk", !.actor = author]
  <2>1. walk' = [walk EXCEPT ![s] = v] /\ walk[s].at = "begin" /\ author \in BOOLEAN
    BY <1>1, <1>8 DEF Begin, TypeOK
  <2>2. Heads(v) = Heads(walk[s])
    BY <1>1, <2>1, BeginLed
  <2> HIDE DEF v
  <2>3. Good(v)
    BY <1>3, <2>1, <2>2 DEF Good
  <2>4. QED
    BY <1>1, <1>3, <2>1, <2>3
<1>9. ASSUME NEW s \in Slots, Record(s) PROVE \A t \in Slots : Good(walk'[t])
  BY <1>1, <1>3, <1>7, <1>9 DEF Record
<1>10. ASSUME NEW s \in Walkers, NEW r \in Replicas, NEW k \in Keys, NEW x \in Values,
              processWorkflows(s, r, k, x)
       PROVE  \A t \in Slots : Good(walk'[t])
  <2>1. s \in Slots /\ walk' = [walk EXCEPT ![s] = called(r, k, Start, None, x)]
    BY <1>10 DEF processWorkflows, Slots
  <2>2. Good(called(r, k, Start, None, x))
    BY <1>1, <1>7, StartGrounded
  <2>3. QED
    BY <1>1, <1>3, <2>1, <2>2
<1>11. ASSUME NEW r \in Replicas, resumeFromWait(r) PROVE \A t \in Slots : Good(walk'[t])
  <2>1. \/ walk' = walk
        \/ \E w \in {due[j] : j \in DOMAIN due} :
             walk' = [walk EXCEPT ![r] = called(r, w.key, w.node, Head(pass[r].ids), w.value)]
    BY <1>11 DEF resumeFromWait
  <2>2. \A w \in {due[j] : j \in DOMAIN due} : Grounded(w.node)
    BY <1>3 DEF Rows
  <2>3. QED
    BY <1>1, <1>3, <1>7, <2>1, <2>2 DEF Slots
<1>12. ASSUME NEW r \in Replicas, Crash(r) PROVE \A t \in Slots : Good(walk'[t])
  <2>1. \A s \in Slots : walk'[s] = Idle \/ walk'[s] = walk[s]
    BY <1>12 DEF Crash
  <2>2. QED
    BY <1>3, <1>7, <2>1
<1>13. ASSUME walk' = walk PROVE \A t \in Slots : Good(walk'[t])
  BY <1>3, <1>13
<1>14. ASSUME NEW r \in Replicas, tick(r) \/ destroyWait(r) \/ tickEnds(r) PROVE walk' = walk
  BY <1>14 DEF tick, destroyWait, tickEnds
<1>15. updateWorkflow \/ AuthorChanges \/ Matures \/ UNCHANGED vars => walk' = walk
  BY DEF updateWorkflow, AuthorChanges, Matures, vars
<1>16. CASE \A s \in Slots : ~Visit(s)
  <2>1. \A t \in Slots : Good(walk'[t])
    BY <1>8, <1>9, <1>10, <1>11, <1>12, <1>13, <1>14, <1>15, <1>16 DEF Next
  <2>2. QED
    BY <1>4, <1>6, <1>16, <2>1
<1>17. QED
  BY <1>5, <1>16

-----------------------------------------------------------------------------
\* Keeping the ledger

\* Rows that only go, or are still held; a walk that only ends or goes on.
RowsQuiet ==
  /\ Rows' \subseteq Rows
  /\ \A i \in WaitIds : Held(i) /\ (\E w \in Rows' : w.id = i) => Held(i)'

WalkQuiet(s) ==
  walk'[s].at # "idle" => /\ walk[s].at # "idle" /\ walk'[s].key = walk[s].key
                          /\ Heads(walk'[s]) = Heads(walk[s])
                          /\ walk[s].visited \subseteq walk'[s].visited

\* Rows that only go, or are still held, are no more than before.
LEMMA QuietRows == ASSUME RowsQuiet PROVE \A m, k : RowsAt(m, k)' \subseteq RowsAt(m, k)
BY DEF RowsQuiet, RowsAt

\* A walk that ends or goes on is not one more to wait for.
LEMMA QuietWalks ==
  ASSUME NEW s \in Slots, WalkQuiet(s)
  PROVE  \A m, n, k : s \in WalksTo(m, n, k)' => s \in WalksTo(m, n, k)
BY DEF WalkQuiet, WalksTo, Heads

\* The books stand when nothing is left behind and nothing new is open.
LEMMA QuietLedger ==
  ASSUME TypeInv, graph' = graph, sent' = sent, quota' \in [Keys -> Nat],
         \A k \in Keys : quota[k] <= quota'[k],
         RowsQuiet, \A s \in Slots : WalkQuiet(s),
         NEW u, Ledger(u)
  PROVE  Ledger(u)'
<1>1. /\ \A m, n : Behind(m, n)' <=> Behind(m, n)
      /\ Node' = Node /\ Slots' = Slots
  BY Fixed DEF Slots
<1>2. quota \in [Keys -> Nat] /\ sent \in [Node -> [Keys -> Nat]] /\ u \in [Node -> [Keys -> Nat]]
  BY DEF TypeInv, TypeOK, Ledger
<1>3. \A m, n, k : RowsAt(m, k)' \subseteq RowsAt(m, k) /\ WalksTo(m, n, k)' \subseteq WalksTo(m, n, k)
  <2> TAKE m, n, k
  <2>1. RowsAt(m, k)' \subseteq RowsAt(m, k)
    BY QuietRows
  <2>2. WalksTo(m, n, k)' \subseteq Slots
    BY <1>1 DEF WalksTo
  <2>3. WalksTo(m, n, k)' \subseteq WalksTo(m, n, k)
    BY <2>2, QuietWalks
  <2>4. QED
    BY <2>1, <2>3
<1>4. \A m, n, k : Open(m, n, k) \in Nat /\ Open(m, n, k)' \in Nat /\ Open(m, n, k)' <= Open(m, n, k)
  BY <1>3, OpenCounts
<1>5. \A n \in Node, k \in Keys : sent'[n][k] <= u[n][k] /\ u[n][k] <= quota'[k]
  BY <1>2 DEF Ledger
<1>6. \A m, n \in Node, k \in Keys : Behind(m, n) => u[n][k] + Open(m, n, k)' <= u[m][k]
  <2> SUFFICES ASSUME NEW m \in Node, NEW n \in Node, NEW k \in Keys, Behind(m, n)
               PROVE  u[n][k] + Open(m, n, k)' <= u[m][k]
    OBVIOUS
  <2>1. u[n][k] + Open(m, n, k) <= u[m][k]
    BY DEF Ledger
  <2>2. u[n][k] \in Nat /\ u[m][k] \in Nat
    BY <1>2
  <2>3. Open(m, n, k) \in Nat /\ Open(m, n, k)' \in Nat /\ Open(m, n, k)' <= Open(m, n, k)
    BY <1>4
  <2> HIDE DEF Ledger
  <2>4. QED
    BY <2>1, <2>2, <2>3
<1>7. QED
  BY <1>1, <1>2, <1>5, <1>6 DEF Ledger

\* An event takes the event of its key to one more walk that the trigger leads, and counts one
\* more for it: its process has not heard it since it started.
LEMMA CallLedger ==
  ASSUME TypeInv, lru = heard, NEW u, Ledger(u),
         NEW s \in Walkers, NEW r \in Replicas, NEW k \in Keys, NEW x \in Values,
         processWorkflows(s, r, k, x)
  PROVE  Ledger([u EXCEPT ![Start][k] = @ + 1])'
<1> DEFINE v == [u EXCEPT ![Start][k] = @ + 1]  c == called(r, k, Start, None, x)
<1>1. /\ graph' = graph /\ sent' = sent /\ s \in Slots
      /\ walk' = [walk EXCEPT ![s] = c] /\ asleep' = asleep /\ due' = due /\ pass' = pass
      /\ k \notin heard[r] /\ quota' = [quota EXCEPT ![k] = IF k \in heard[r] THEN @ ELSE @ + 1]
  BY DEF processWorkflows, _lruHas, Slots
<1>2. /\ \A m, n : Behind(m, n)' <=> Behind(m, n)
      /\ Node' = Node /\ Slots' = Slots
  BY <1>1, Fixed DEF Slots
<1>3. /\ quota \in [Keys -> Nat] /\ sent \in [Node -> [Keys -> Nat]] /\ u \in [Node -> [Keys -> Nat]]
      /\ graph \in Graphs /\ Start \in Node /\ walk \in [Slots -> Walk]
  BY WorkflowConstants DEF TypeInv, TypeOK, Ledger, Node
<1>4. /\ v \in [Node -> [Keys -> Nat]] /\ v[Start][k] = u[Start][k] + 1
      /\ \A n \in Node, j \in Keys : n # Start \/ j # k => v[n][j] = u[n][j]
  BY <1>3
<1>5. /\ quota' \in [Keys -> Nat] /\ quota'[k] = quota[k] + 1
      /\ \A j \in Keys : j # k => quota'[j] = quota[j]
  BY <1>1, <1>3
<1> HIDE DEF v
<1>6. \A n \in Node, j \in Keys : sent'[n][j] <= v[n][j] /\ v[n][j] <= quota'[j]
  <2> SUFFICES ASSUME NEW n \in Node, NEW j \in Keys
               PROVE  sent[n][j] <= v[n][j] /\ v[n][j] <= quota'[j]
    BY <1>1
  <2>1. sent[n][j] <= u[n][j] /\ u[n][j] <= quota[j]
    BY DEF Ledger
  <2>2. sent[n][j] \in Nat /\ u[n][j] \in Nat /\ quota[j] \in Nat
    BY <1>3
  <2>3. QED
    BY <1>4, <1>5, <2>1, <2>2
<1>7. c.key = k /\ Heads(c) = {Start}
  BY DEF called, Heads
<1> HIDE DEF c
<1>8. \A m, n, j : /\ RowsAt(m, j)' \subseteq RowsAt(m, j)
                   /\ WalksTo(m, n, j)' \subseteq WalksTo(m, n, j) \cup {s}
                   /\ m # Start \/ j # k => WalksTo(m, n, j)' \subseteq WalksTo(m, n, j)
  BY <1>1, <1>2, <1>3, <1>7 DEF RowsAt, Rows, Held, WalksTo
<1>9. ASSUME NEW m \in Node, NEW n \in Node, NEW j \in Keys, Behind(m, n)
      PROVE  v[n][j] + Open(m, n, j)' <= v[m][j]
  <2>1. u[n][j] + Open(m, n, j) <= u[m][j] /\ v[n][j] = u[n][j]
    BY <1>4, <1>9 DEF Ledger, Behind
  <2>2. u[n][j] \in Nat /\ u[m][j] \in Nat /\ Open(m, n, j) \in Nat /\ Open(m, n, j)' \in Nat
    BY <1>3, OpenCounts
  <2>3. Open(m, n, j)' <= Open(m, n, j) + 1
        /\ (m # Start \/ j # k => Open(m, n, j)' <= Open(m, n, j))
    BY <1>8, OpenCounts
  <2>4. CASE m = Start /\ j = k
    BY <1>4, <2>1, <2>2, <2>3, <2>4
  <2>5. CASE m # Start \/ j # k
    BY <1>4, <2>1, <2>2, <2>3, <2>5
  <2>6. QED
    BY <2>4, <2>5
<1>10. QED
  BY <1>2, <1>4, <1>6, <1>9 DEF Ledger, v

\* A visit of n in a walk that h leads uses up what may take the event from h to n there; it leaves
\* at most one comment or message, and may put the event at n once, as a row or in the walk.
LEMMA VisitLedger ==
  ASSUME TypeInv, SoundInv, Headed, Unrepeated, NEW u, Ledger(u), NEW s \in Slots, Visit(s)
  PROVE  \E v : Ledger(v)'
<1> DEFINE w == walk[s]
<1>0. PICK k : k = w.key
  OBVIOUS
<1>1. PICK v, e : /\ walk' = [walk EXCEPT ![s] = v] /\ e \in w.todo /\ e.to \in Node
                  /\ Visiting(w, v, e.to) /\ Leaves(s, e.to)
  BY VisitStep DEF TypeInv
<1> DEFINE n0 == e.to
<1>2. /\ graph \in Graphs /\ w \in Walk /\ w.at = "walk" /\ Led(w) /\ Sound(w) /\ k \in Keys
      /\ graph' = graph /\ due' = due /\ pass' = pass /\ quota' = quota
      /\ walk \in [Slots -> Walk] /\ asleep \subseteq Wait
  BY <1>0 DEF TypeInv, TypeOK, WalkHasKey, Headed, SoundInv, Visit
<1>3. /\ \A m, n : Behind(m, n)' <=> Behind(m, n)
      /\ Node' = Node /\ Slots' = Slots
  BY <1>2, Fixed DEF Slots
<1>4. /\ quota \in [Keys -> Nat] /\ sent \in [Node -> [Keys -> Nat]] /\ u \in [Node -> [Keys -> Nat]]
  BY DEF TypeInv, TypeOK, Ledger
<1>5. n0 \notin w.visited /\ (n0 = Start \/ \E h \in Heads(w) : Behind(h, n0))
  BY <1>1, <1>2, NextBehind
<1>6. /\ v.at = "walk" /\ v.key = k /\ v.visited = w.visited \cup {n0}
      /\ Heads(v) \subseteq Heads(w) \cup {n0}
      /\ Heads(v) \subseteq Heads(w) \cup {n \in Node : graph.kind[n] = "wait"}
      /\ walk'[s] = v /\ \A t \in Slots : t # s => walk'[t] = walk[t]
  BY <1>0, <1>1, <1>2, VisitLed DEF Visiting
<1>7. \A i : Held(i)' <=> Held(i)
  BY <1>2 DEF Held
<1>8. graph.kind[Start] = "trigger"
  BY <1>2, WorkflowConstants
<1>9. \A m, n, j : WalksTo(m, n, j)' \subseteq WalksTo(m, n, j) \cup {s}
                   /\ (m # n0 \/ j # k => WalksTo(m, n, j)' \subseteq WalksTo(m, n, j))
                   /\ (m # n0 => s \notin WalksTo(m, n0, j)')
  BY <1>0, <1>2, <1>3, <1>6 DEF WalksTo
<1>10. \/ /\ asleep' = asleep /\ \A m, j : RowsAt(m, j)' = RowsAt(m, j)
          /\ sent' = sent \/ /\ graph.kind[n0] \in Outward /\ sent' = [sent EXCEPT ![n0][k] = @ + 1]
       \/ /\ graph.kind[n0] = "wait" /\ sent' = sent
          /\ \A m, n, j : WalksTo(m, n, j)' \subseteq WalksTo(m, n, j)
          /\ \E i : \A m, j : /\ RowsAt(m, j)' \subseteq RowsAt(m, j) \cup {i}
                              /\ m # n0 \/ j # k => RowsAt(m, j)' \subseteq RowsAt(m, j)
  <2>1. CASE asleep' = asleep
             /\ (sent' = sent \/ /\ graph.kind[n0] \in Outward
                                 /\ sent' = [sent EXCEPT ![n0][k] = @ + 1])
    <3>1. \A m, j : RowsAt(m, j)' = RowsAt(m, j)
      BY <1>2, <1>7, <2>1 DEF RowsAt, Rows
    <3>2. QED
      BY <2>1, <3>1
  <2>2. ASSUME graph.kind[n0] = "wait", sent' = sent, walk' = [walk EXCEPT ![s] = paused(@, n0)],
               NEW i \in WaitIds \ inUse, NEW row, row.id = i /\ row.node = n0 /\ row.key = k,
               asleep' = asleep \cup {row}
        PROVE  /\ \A m, n, j : WalksTo(m, n, j)' \subseteq WalksTo(m, n, j)
               /\ \A m, j : /\ RowsAt(m, j)' \subseteq RowsAt(m, j) \cup {i}
                            /\ m # n0 \/ j # k => RowsAt(m, j)' \subseteq RowsAt(m, j)
    <3>1. v = paused(w, n0)
      BY <1>2, <1>6, <2>2
    <3>2. Heads(v) = Heads(w)
      BY <1>1, <1>2, <3>1, Paused DEF Heads
    <3>3. \A m, n, j : WalksTo(m, n, j)' \subseteq WalksTo(m, n, j)
      BY <1>0, <1>2, <1>3, <1>6, <3>2 DEF WalksTo
    <3>4. \A x : x \in Rows' => x \in Rows \/ x = row
      BY <1>2, <2>2 DEF Rows
    <3>5. \A m, j : /\ RowsAt(m, j)' \subseteq RowsAt(m, j) \cup {i}
                    /\ m # n0 \/ j # k => RowsAt(m, j)' \subseteq RowsAt(m, j)
      BY <1>7, <2>2, <3>4 DEF RowsAt
    <3>6. QED
      BY <3>3, <3>5
  <2>3. QED
    BY <1>0, <1>1, <2>1, <2>2 DEF Leaves
<1>11. \A m, n, j : m # n0 \/ j # k => /\ RowsAt(m, j)' \subseteq RowsAt(m, j)
                                       /\ WalksTo(m, n, j)' \subseteq WalksTo(m, n, j)
  BY <1>9, <1>10
<1>12. \A m, n, j : /\ Open(m, n, j) \in Nat /\ Open(m, n, j)' \in Nat
                    /\ Open(m, n, j)' <= Open(m, n, j) + 1
                    /\ m # n0 \/ j # k => Open(m, n, j)' <= Open(m, n, j)
  <2> TAKE m, n, j
  <2>1. Open(m, n, j) \in Nat /\ Open(m, n, j)' \in Nat
    BY OpenCounts
  <2>2. m # n0 \/ j # k => Open(m, n, j)' <= Open(m, n, j)
    BY <1>11, OpenCounts
  <2>3. \/ \E i : RowsAt(m, j)' \subseteq RowsAt(m, j) \cup {i}
                  /\ WalksTo(m, n, j)' \subseteq WalksTo(m, n, j)
        \/ RowsAt(m, j)' \subseteq RowsAt(m, j) /\ WalksTo(m, n, j)' \subseteq WalksTo(m, n, j) \cup {s}
    BY <1>9, <1>10
  <2>4. Open(m, n, j)' <= Open(m, n, j) + 1
    BY <2>3, OpenCounts
  <2>5. QED
    BY <2>1, <2>2, <2>4
<1>13. CASE n0 = Start
  <2>1. graph.kind[n0] # "wait" /\ graph.kind[n0] \notin Outward
    BY <1>8, <1>13 DEF Outward
  <2>2. sent' = sent /\ \A m, j : RowsAt(m, j)' \subseteq RowsAt(m, j)
    BY <1>10, <2>1
  <2>3. Heads(v) \subseteq Heads(w)
    BY <1>6, <2>1
  <2>4. \A m, n, j : WalksTo(m, n, j)' \subseteq WalksTo(m, n, j)
    BY <1>0, <1>2, <1>3, <1>6, <2>3 DEF WalksTo
  <2>5. \A m, n, j : Open(m, n, j)' <= Open(m, n, j)
    BY <2>2, <2>4, OpenCounts
  <2>6. ASSUME NEW m \in Node, NEW n \in Node, NEW j \in Keys, Behind(m, n)
        PROVE  u[n][j] + Open(m, n, j)' <= u[m][j]
    <3>1. u[n][j] + Open(m, n, j) <= u[m][j]
      BY <2>6 DEF Ledger
    <3>2. u[n][j] \in Nat /\ u[m][j] \in Nat
      BY <1>4
    <3>3. Open(m, n, j) \in Nat /\ Open(m, n, j)' \in Nat /\ Open(m, n, j)' <= Open(m, n, j)
      BY <1>12, <2>5
    <3>4. QED
      BY <3>1, <3>2, <3>3
  <2>7. Ledger(u)'
    BY <1>2, <1>3, <2>2, <2>6 DEF Ledger
  <2>8. QED
    BY <2>7
<1>14. CASE n0 # Start
  <2>1. PICK h \in Heads(w) : Behind(h, n0)
    BY <1>5, <1>14
  <2>2. h \in Node /\ h # n0 /\ n0 \in Node /\ s \in WalksTo(h, n0, k)
    BY <1>0, <1>1, <1>2, <1>5, <2>1 DEF WalksTo, Walk, Heads, Behind
  <2>3. Open(h, n0, k)' + 1 <= Open(h, n0, k)
    <3>1. WalksTo(h, n0, k)' \subseteq WalksTo(h, n0, k) \ {s}
      BY <1>9, <2>2
    <3>2. QED
      BY <1>11, <2>2, <3>1, OpenCounts
  <2>4. \A m : Behind(m, n0) => m = h
    BY <2>1 DEF Behind, Unrepeated
  <2> DEFINE a == [u EXCEPT ![n0][k] = @ + 1]
  <2>5. /\ a \in [Node -> [Keys -> Nat]] /\ a[n0][k] = u[n0][k] + 1
        /\ \A n \in Node, j \in Keys : n # n0 \/ j # k => a[n][j] = u[n][j]
    BY <1>2, <1>4, <2>2
  <2> HIDE DEF a
  <2>6. a[n0][k] <= quota[k]
    <3>1. u[n0][k] + Open(h, n0, k) <= u[h][k] /\ u[h][k] <= quota[k]
      BY <1>2, <2>1, <2>2 DEF Ledger
    <3>2. u[n0][k] \in Nat /\ u[h][k] \in Nat /\ quota[k] \in Nat
      BY <1>2, <1>4, <2>2
    <3>3. Open(h, n0, k)' \in Nat /\ Open(h, n0, k) \in Nat
      BY <1>12
    <3>4. QED
      BY <2>3, <2>5, <3>1, <3>2, <3>3
  <2>7. ASSUME NEW n \in Node, NEW j \in Keys
        PROVE  sent'[n][j] <= a[n][j] /\ a[n][j] <= quota'[j]
    <3>1. sent[n][j] <= u[n][j] /\ u[n][j] <= quota[j]
      BY DEF Ledger
    <3>2. sent[n][j] \in Nat /\ u[n][j] \in Nat /\ quota[j] \in Nat
      BY <1>4
    <3>3. \/ sent'[n][j] = sent[n][j]
          \/ n = n0 /\ j = k /\ sent'[n][j] = sent[n][j] + 1
      BY <1>4, <1>10
    <3>4. QED
      BY <1>2, <2>5, <2>6, <3>1, <3>2, <3>3
  <2>8. ASSUME NEW m \in Node, NEW n \in Node, NEW j \in Keys, Behind(m, n)
        PROVE  a[n][j] + Open(m, n, j)' <= a[m][j]
    <3>1. u[n][j] + Open(m, n, j) <= u[m][j]
      BY <2>8 DEF Ledger
    <3>2. u[n][j] \in Nat /\ u[m][j] \in Nat
      BY <1>4
    <3>3. Open(m, n, j) \in Nat /\ Open(m, n, j)' \in Nat
      BY <1>12
    <3>4. m # n
      BY <2>8 DEF Behind
    <3>5. CASE n = n0 /\ j = k
      <4>1. m = h
        BY <2>4, <2>8, <3>5
      <4>2. a[n][j] = u[n][j] + 1 /\ a[m][j] = u[m][j] /\ Open(m, n, j)' + 1 <= Open(m, n, j)
        BY <2>3, <2>5, <3>4, <3>5, <4>1
      <4>3. QED
        BY <3>1, <3>2, <3>3, <4>2
    <3>6. CASE m = n0 /\ j = k
      <4>1. a[m][j] = u[m][j] + 1 /\ a[n][j] = u[n][j] /\ Open(m, n, j)' <= Open(m, n, j) + 1
        BY <1>12, <2>5, <3>4, <3>6
      <4>2. QED
        BY <3>1, <3>2, <3>3, <4>1
    <3>7. CASE ~(n = n0 /\ j = k) /\ ~(m = n0 /\ j = k)
      <4>1. a[m][j] = u[m][j] /\ a[n][j] = u[n][j] /\ Open(m, n, j)' <= Open(m, n, j)
        BY <1>12, <2>5, <3>7
      <4>2. QED
        BY <3>1, <3>2, <3>3, <4>1
    <3>8. QED
      BY <3>5, <3>6, <3>7
  <2>9. Ledger(a)'
    BY <1>3, <2>5, <2>7, <2>8 DEF Ledger
  <2>10. QED
    BY <2>9
<1>15. QED
  BY <1>13, <1>14

\* A resume takes the event from the row, which it holds, to the walk it leads.
LEMMA ResumeLedger ==
  ASSUME TypeInv, NEW u, Ledger(u), NEW r \in Replicas,
         pass[r].at = "load", pass[r].ids # <<>>,
         NEW w \in {due[j] : j \in DOMAIN due}, w.id = Head(pass[r].ids), NEW x,
         walk' = [walk EXCEPT ![r] = called(r, w.key, w.node, Head(pass[r].ids), x)],
         pass' = [pass EXCEPT ![r].at = "resume"],
         UNCHANGED <<graph, asleep, due, sent, quota>>
  PROVE  Ledger(u)'
<1>1. PICK c : c = called(r, w.key, w.node, Head(pass[r].ids), x)
  OBVIOUS
<1>2. c.key = w.key /\ Heads(c) = {w.node} /\ walk' = [walk EXCEPT ![r] = c]
  BY <1>1 DEF called, Heads
<1>3. /\ pass \in [Replicas -> Pass] /\ walk \in [Slots -> Walk] /\ r \in Slots
      /\ \A q \in Replicas : pass[q].at # "idle" => q = r
      /\ w \in Rows /\ w.id \in WaitIds
  <2>1. w \in Wait
    BY DEF TypeInv, TypeOK
  <2>2. QED
    BY <2>1 DEF TypeInv, TypeOK, Slots, Rows, Wait
<1>4. \A i : ~Held(i)
  BY <1>3 DEF Held
<1>5. Held(w.id)'
  <2>1. pass[r] \in Pass
    BY <1>3
  <2>2. pass'[r].at = "resume" /\ pass'[r].ids = pass[r].ids
    BY <1>3, <2>1 DEF Pass
  <2>3. QED
    BY <2>2 DEF Held
<1>6. /\ \A m, n : Behind(m, n)' <=> Behind(m, n)
      /\ Node' = Node /\ Slots' = Slots /\ Rows' = Rows
  BY Fixed DEF Slots, Rows
<1>7. \A m, n, k : /\ RowsAt(m, k)' \subseteq RowsAt(m, k)
                   /\ WalksTo(m, n, k)' \subseteq WalksTo(m, n, k) \cup {r}
                   /\ m # w.node \/ k # w.key => WalksTo(m, n, k)' \subseteq WalksTo(m, n, k)
  BY <1>2, <1>3, <1>4, <1>6 DEF RowsAt, WalksTo
<1>8. w.id \in RowsAt(w.node, w.key) /\ w.id \notin RowsAt(w.node, w.key)'
  BY <1>3, <1>4, <1>5 DEF RowsAt
<1>9. ASSUME NEW m, NEW n, NEW k
      PROVE  Open(m, n, k) \in Nat /\ Open(m, n, k)' \in Nat /\ Open(m, n, k)' <= Open(m, n, k)
  <2>1. CASE m = w.node /\ k = w.key
    <3>1. RowsAt(m, k)' \subseteq RowsAt(m, k) \ {w.id} /\ w.id \in RowsAt(m, k)
      BY <1>7, <1>8, <2>1
    <3>2. QED
      BY <1>7, <3>1, OpenCounts
  <2>2. CASE m # w.node \/ k # w.key
    BY <1>7, <2>2, OpenCounts
  <2>3. QED
    BY <2>1, <2>2
<1>10. ASSUME NEW m \in Node, NEW n \in Node, NEW k \in Keys, Behind(m, n)
       PROVE  u[n][k] + Open(m, n, k)' <= u[m][k]
  <2>1. u[n][k] + Open(m, n, k) <= u[m][k]
    BY <1>10 DEF Ledger
  <2>2. u[n][k] \in Nat /\ u[m][k] \in Nat
    BY DEF Ledger
  <2>3. QED
    BY <1>9, <2>1, <2>2
<1>11. QED
  BY <1>6, <1>10 DEF Ledger

\* A crash gives the row its pass held back to the rows that may be taken up, and counts one more
\* for its key: enough for the row's node and for all that is not behind it.
LEMMA CrashLedger ==
  ASSUME TypeInv, Distinct, AllGrounded, NEW u, Ledger(u), NEW r \in Replicas, Crash(r),
         pass[r].at = "resume",
         NEW w0 \in {due[j] : j \in DOMAIN due}, w0.id = Head(pass[r].ids)
  PROVE  \E v : Ledger(v)'
<1>0. PICK m0, k0, i0 : m0 = w0.node /\ k0 = w0.key /\ i0 = w0.id
  OBVIOUS
<1>1. /\ pass \in [Replicas -> Pass] /\ walk \in [Slots -> Walk] /\ graph \in Graphs
      /\ \A q \in Replicas : pass[q].at # "idle" => q = r
      /\ w0 \in Rows /\ w0 \in Wait
      /\ quota \in [Keys -> Nat] /\ sent \in [Node -> [Keys -> Nat]] /\ u \in [Node -> [Keys -> Nat]]
  BY DEF TypeInv, TypeOK, Rows, Ledger
<1>2. m0 \in Node /\ k0 \in Keys /\ i0 \in WaitIds
  BY <1>0, <1>1 DEF Wait
<1>3. /\ UNCHANGED <<graph, asleep, due, sent>>
      /\ pass' = [pass EXCEPT ![r] = NoPass]
      /\ \A s \in Slots : walk'[s] = Idle \/ walk'[s] = walk[s]
  BY DEF Crash
<1>4. \A w \in Rows : w.id = i0 => w = w0
  BY <1>0 DEF Rows, Distinct
<1>5. quota' = [k \in Keys |-> IF k = k0 THEN quota[k] + 1 ELSE quota[k]]
  <2> DEFINE cut == {w.key : w \in {due[j] : j \in {i \in DOMAIN due :
                       pass[r].at = "resume" /\ due[i].id = Head(pass[r].ids)}}}
  <2>1. quota' = [k \in Keys |-> IF k \in cut THEN quota[k] + 1 ELSE quota[k]]
    BY DEF Crash
  <2>2. \A k : k \in cut <=> k = k0
    BY <1>0, <1>4 DEF Rows
  <2> HIDE DEF cut
  <2>3. QED
    BY <2>1, <2>2
<1>6. /\ \A m, n : Behind(m, n)' <=> Behind(m, n)
      /\ Node' = Node /\ Slots' = Slots /\ Rows' = Rows
  BY <1>3, Fixed DEF Slots, Rows
<1>7. \A i : Held(i) => i = i0
  BY <1>0, <1>1 DEF Held
<1>8. \A m, n, k : /\ RowsAt(m, k)' \subseteq RowsAt(m, k) \cup {i0}
                   /\ m # m0 \/ k # k0 => RowsAt(m, k)' \subseteq RowsAt(m, k)
                   /\ WalksTo(m, n, k)' \subseteq WalksTo(m, n, k)
  <2> TAKE m, n, k
  <2>1. WalksTo(m, n, k)' \subseteq WalksTo(m, n, k)
    <3>1. Idle.at = "idle"
      BY DEF Idle
    <3>2. QED
      BY <1>3, <1>6, <3>1 DEF WalksTo
  <2>2. RowsAt(m, k)' \subseteq RowsAt(m, k) \cup {i0}
    BY <1>6, <1>7 DEF RowsAt
  <2>3. m # m0 \/ k # k0 => i0 \notin RowsAt(m, k)'
    BY <1>0, <1>4, <1>6 DEF RowsAt
  <2>4. QED
    BY <2>1, <2>2, <2>3
<1>9. ASSUME NEW m, NEW n, NEW k
      PROVE  /\ Open(m, n, k) \in Nat /\ Open(m, n, k)' \in Nat
             /\ Open(m, n, k)' <= Open(m, n, k) + 1
             /\ m # m0 \/ k # k0 => Open(m, n, k)' <= Open(m, n, k)
  BY <1>8, OpenCounts
<1>10. PICK D \in SUBSET Node : /\ m0 \notin D /\ \A n \in Node : Behind(m0, n) => n \in D
                                /\ \A l \in D, n \in Node : Behind(l, n) => n \in D
  BY <1>0, <1>1 DEF AllGrounded, Grounded
<1>11. PICK v : v = [n \in Node |-> [k \in Keys |->
                        IF k = k0 /\ n \notin D THEN u[n][k] + 1 ELSE u[n][k]]]
  OBVIOUS
<1>12. /\ v \in [Node -> [Keys -> Nat]]
       /\ \A n \in Node, k \in Keys :
            v[n][k] = IF k = k0 /\ n \notin D THEN u[n][k] + 1 ELSE u[n][k]
  BY <1>1, <1>11
<1>13. ASSUME NEW n \in Node, NEW k \in Keys
       PROVE  sent[n][k] <= v[n][k] /\ v[n][k] <= quota'[k]
  <2>1. sent[n][k] <= u[n][k] /\ u[n][k] <= quota[k]
    BY DEF Ledger
  <2>2. sent[n][k] \in Nat /\ u[n][k] \in Nat /\ quota[k] \in Nat
    BY <1>1
  <2>3. quota'[k] = IF k = k0 THEN quota[k] + 1 ELSE quota[k]
    BY <1>5
  <2>4. v[n][k] = IF k = k0 /\ n \notin D THEN u[n][k] + 1 ELSE u[n][k]
    BY <1>12
  <2>5. QED
    BY <2>1, <2>2, <2>3, <2>4
<1>14. ASSUME NEW m \in Node, NEW n \in Node, NEW k \in Keys, Behind(m, n)
       PROVE  v[n][k] + Open(m, n, k)' <= v[m][k]
  <2>1. u[n][k] + Open(m, n, k) <= u[m][k]
    BY <1>14 DEF Ledger
  <2>2. u[n][k] \in Nat /\ u[m][k] \in Nat
    BY <1>1
  <2>3. /\ v[n][k] = IF k = k0 /\ n \notin D THEN u[n][k] + 1 ELSE u[n][k]
        /\ v[m][k] = IF k = k0 /\ m \notin D THEN u[m][k] + 1 ELSE u[m][k]
    BY <1>12
  <2>4. /\ m = m0 => m \notin D /\ n \in D
        /\ n \notin D => m \notin D
    BY <1>10, <1>14
  <2>5. /\ Open(m, n, k) \in Nat /\ Open(m, n, k)' \in Nat
        /\ Open(m, n, k)' <= Open(m, n, k) + 1
        /\ m # m0 \/ k # k0 => Open(m, n, k)' <= Open(m, n, k)
    BY <1>9
  <2>6. QED
    BY <2>1, <2>2, <2>3, <2>4, <2>5
<1>15. Ledger(v)'
  BY <1>3, <1>6, <1>12, <1>13, <1>14 DEF Ledger
<1>16. QED
  BY <1>15

\* Every step keeps the books.
LEMMA LedgerStep ==
  ASSUME TypeInv, SoundInv, OnceInv, Unrepeated, [Next]_vars
  PROVE  \E v : Ledger(v)'
<1>1. /\ lru = heard /\ Distinct /\ Headed /\ AllGrounded /\ TypeOK
      /\ pass \in [Replicas -> Pass] /\ walk \in [Slots -> Walk] /\ graph \in Graphs
      /\ quota \in [Keys -> Nat] /\ due \in Seq(Wait) /\ PassHasRow
      /\ \A r, q \in Replicas : pass[r].at # "idle" /\ pass[q].at # "idle" => q = r
      /\ \A r \in Replicas : pass[r].ids \in Seq(WaitIds)
  BY DEF OnceInv, TypeInv, TypeOK, Pass
<1>2. PICK u : Ledger(u)
  BY DEF OnceInv
<1>3. graph' = graph
  BY GraphFixed
<1>4. ASSUME NEW r \in Replicas, NEW p, pass' = [pass EXCEPT ![r] = p], pass[r].at # "resume"
      PROVE  \A i : Held(i) => Held(i)'
  <2> SUFFICES ASSUME NEW i, Held(i) PROVE Held(i)'
    OBVIOUS
  <2>1. PICK q \in Replicas : pass[q].at = "resume" /\ Head(pass[q].ids) = i
    BY DEF Held
  <2>2. pass'[q] = pass[q]
    BY <1>1, <1>4, <2>1
  <2>3. QED
    BY <2>1, <2>2 DEF Held
<1>5. pass' = pass => \A i : Held(i) => Held(i)'
  BY DEF Held
<1>6. ASSUME \A s \in Slots : ~Visit(s), sent' = sent, quota' \in [Keys -> Nat],
             \A k \in Keys : quota[k] <= quota'[k], \A i : Held(i) => Held(i)',
             \A s \in Slots : WalkQuiet(s)
      PROVE  Ledger(u)'
  <2>1. RowsQuiet
    BY <1>1, <1>6, RowsOnlyGo DEF RowsQuiet
  <2>2. QED
    BY <1>2, <1>3, <1>6, <2>1, QuietLedger
<1>7. ASSUME \A s \in Slots : ~Visit(s), sent' = sent, quota' = quota,
             \A i : Held(i) => Held(i)', \A s \in Slots : WalkQuiet(s)
      PROVE  Ledger(u)'
  BY <1>1, <1>6, <1>7
<1>8. walk' = walk => \A s \in Slots : WalkQuiet(s)
  BY DEF WalkQuiet
<1>9. Idle.at = "idle"
  BY DEF Idle
<1>10. ASSUME NEW s \in Slots, Begin(s), \A t \in Slots : ~Visit(t) PROVE \E v : Ledger(v)'
  <2> DEFINE w == [queued(walk[s], walk[s].from) EXCEPT !.at = "walk", !.actor = author]
  <2>1. walk' = [walk EXCEPT ![s] = w] /\ walk[s].at = "begin" /\ author \in BOOLEAN
    BY <1>1, <1>10 DEF Begin, TypeOK
  <2>2. Led(walk[s]) /\ Sound(walk[s])
    BY <1>1 DEF Headed, SoundInv
  <2>3. Heads(w) = Heads(walk[s]) /\ w.key = walk[s].key /\ walk[s].visited = {}
    BY <1>1, <2>1, <2>2, BeginLed DEF Sound
  <2> HIDE DEF w
  <2>4. \A t \in Slots : WalkQuiet(t)
    BY <1>1, <2>1, <2>3 DEF WalkQuiet
  <2>5. sent' = sent /\ quota' = quota /\ pass' = pass
    BY <1>10 DEF Begin
  <2>6. QED
    BY <1>5, <1>7, <1>10, <2>4, <2>5
<1>11. ASSUME NEW s \in Slots, Record(s), \A t \in Slots : ~Visit(t) PROVE \E v : Ledger(v)'
  <2>1. walk' = [walk EXCEPT ![s] = Idle] /\ sent' = sent /\ quota' = quota /\ pass' = pass
    BY <1>11 DEF Record
  <2>2. \A t \in Slots : WalkQuiet(t)
    BY <1>1, <1>9, <2>1 DEF WalkQuiet
  <2>3. QED
    BY <1>5, <1>7, <1>11, <2>1, <2>2
<1>12. ASSUME NEW s \in Slots, Visit(s) PROVE \E v : Ledger(v)'
  BY <1>1, <1>2, <1>12, VisitLedger
<1>13. ASSUME NEW s \in Walkers, NEW r \in Replicas, NEW k \in Keys, NEW x \in Values,
              processWorkflows(s, r, k, x)
       PROVE  \E v : Ledger(v)'
  BY <1>1, <1>2, <1>13, CallLedger
<1>14. ASSUME updateWorkflow \/ AuthorChanges \/ Matures \/ UNCHANGED vars,
              \A t \in Slots : ~Visit(t)
       PROVE  \E v : Ledger(v)'
  <2>1. walk' = walk /\ sent' = sent /\ quota' = quota /\ pass' = pass
    BY <1>14 DEF updateWorkflow, AuthorChanges, Matures, vars
  <2>2. QED
    BY <1>5, <1>7, <1>8, <1>14, <2>1
<1>15. ASSUME NEW r \in Replicas, tick(r) \/ tickEnds(r), \A t \in Slots : ~Visit(t)
       PROVE  \E v : Ledger(v)'
  <2>1. /\ walk' = walk /\ sent' = sent /\ quota' = quota /\ pass[r].at # "resume"
        /\ \E p : pass' = [pass EXCEPT ![r] = p]
    BY <1>15 DEF tick, tickEnds
  <2>2. QED
    BY <1>4, <1>7, <1>8, <1>15, <2>1
<1>16. ASSUME NEW r \in Replicas, resumeFromWait(r), \A t \in Slots : ~Visit(t)
       PROVE  \E v : Ledger(v)'
  <2>1. /\ pass[r].at = "load" /\ pass[r].ids # <<>> /\ UNCHANGED <<graph, asleep, sent, quota>>
        /\ \/ walk' = walk /\ pass' = NextId(r)
           \/ /\ due' = due /\ pass' = [pass EXCEPT ![r].at = "resume"]
              /\ \E w \in {due[j] : j \in DOMAIN due} :
                   /\ w.id = Head(pass[r].ids)
                   /\ walk' = [walk EXCEPT ![r] = called(r, w.key, w.node, Head(pass[r].ids), w.value)]
    BY <1>16 DEF resumeFromWait
  <2>2. CASE walk' = walk /\ pass' = NextId(r)
    <3>1. \E p : pass' = [pass EXCEPT ![r] = p]
      BY <2>2 DEF NextId
    <3>2. QED
      BY <1>4, <1>7, <1>8, <1>16, <2>1, <2>2, <3>1
  <2>3. CASE pass' = [pass EXCEPT ![r].at = "resume"] /\ due' = due
             /\ \E w \in {due[j] : j \in DOMAIN due} :
                  /\ w.id = Head(pass[r].ids)
                  /\ walk' = [walk EXCEPT ![r] = called(r, w.key, w.node, Head(pass[r].ids), w.value)]
    <3>1. PICK w \in {due[j] : j \in DOMAIN due} :
            /\ w.id = Head(pass[r].ids)
            /\ walk' = [walk EXCEPT ![r] = called(r, w.key, w.node, Head(pass[r].ids), w.value)]
      BY <2>3
    <3>2. Ledger(u)'
      BY <1>2, <2>1, <2>3, <3>1, ResumeLedger
    <3>3. QED
      BY <3>2
  <2>4. QED
    BY <2>1, <2>2, <2>3
<1>17. ASSUME NEW r \in Replicas, destroyWait(r), \A t \in Slots : ~Visit(t)
       PROVE  \E v : Ledger(v)'
  <2>1. /\ pass[r].at = "resume" /\ due' = destroyed(Head(pass[r].ids))
        /\ walk' = walk /\ asleep' = asleep /\ sent' = sent /\ quota' = quota
        /\ pass' = [pass EXCEPT ![r] = [at |-> "load", ids |-> Tail(@.ids)]]
    BY <1>17 DEF destroyWait
  <2>2. \A i : Held(i) => i = Head(pass[r].ids)
    BY <1>1, <2>1 DEF Held
  <2>3. \A w \in asleep : w.id # Head(pass[r].ids)
    <3>1. pass[r].ids # <<>> /\ pass[r].ids \in Seq(WaitIds)
      BY <1>1, <2>1 DEF PassHasRow
    <3>2. 1 \in DOMAIN pass[r].ids /\ Head(pass[r].ids) = pass[r].ids[1]
      BY <3>1
    <3>3. QED
      BY <1>1, <3>2 DEF Distinct
  <2>4. \A m \in DOMAIN due' : due'[m].id # Head(pass[r].ids)
    <3>1. \A m \in DOMAIN destroyed(Head(pass[r].ids)) :
            \E j \in DOMAIN due : /\ due[j] = destroyed(Head(pass[r].ids))[m]
                                  /\ due[j].id # Head(pass[r].ids)
      BY <1>1, DestroyedRows DEF Distinct
    <3>2. QED
      BY <2>1, <3>1
  <2>5. RowsQuiet
    <3>1. Rows' \subseteq Rows
      BY <1>1, <1>17, RowsOnlyGo
    <3>2. \A w \in Rows' : w.id # Head(pass[r].ids)
      BY <2>1, <2>3, <2>4 DEF Rows
    <3>3. QED
      BY <2>2, <3>1, <3>2 DEF RowsQuiet
  <2>6. \A k \in Keys : quota[k] <= quota'[k]
    BY <1>1, <2>1
  <2>7. quota' \in [Keys -> Nat]
    BY <1>1, <2>1
  <2>8. QED
    BY <1>2, <1>3, <1>8, <2>1, <2>5, <2>6, <2>7, QuietLedger
<1>18. ASSUME NEW r \in Replicas, Crash(r), \A t \in Slots : ~Visit(t) PROVE \E v : Ledger(v)'
  <2>1. /\ UNCHANGED <<asleep, due, sent>> /\ pass' = [pass EXCEPT ![r] = NoPass]
        /\ \A s \in Slots : walk'[s] = Idle \/ walk'[s] = walk[s]
        /\ \E cut : quota' = [k \in Keys |-> IF k \in cut THEN quota[k] + 1 ELSE quota[k]]
    BY <1>18 DEF Crash
  <2>2. \A k \in Keys : quota[k] <= quota'[k]
    BY <1>1, <2>1
  <2>3. quota' \in [Keys -> Nat]
    BY <1>1, <2>1
  <2>4. \A s \in Slots : WalkQuiet(s)
    BY <1>9, <2>1 DEF WalkQuiet
  <2>5. CASE pass[r].at # "resume"
    BY <1>4, <1>6, <1>18, <2>1, <2>2, <2>3, <2>4, <2>5
  <2>6. CASE pass[r].at = "resume" /\ \E w \in {due[j] : j \in DOMAIN due} : w.id = Head(pass[r].ids)
    BY <1>1, <1>2, <1>18, <2>6, CrashLedger
  <2>7. CASE pass[r].at = "resume" /\ \A w \in {due[j] : j \in DOMAIN due} : w.id # Head(pass[r].ids)
    <3>1. \A i : Held(i) => i = Head(pass[r].ids)
      BY <1>1, <2>7 DEF Held
    <3>2. \A w \in asleep : w.id # Head(pass[r].ids)
      <4>1. pass[r].ids # <<>> /\ pass[r].ids \in Seq(WaitIds)
        BY <1>1, <2>7 DEF PassHasRow
      <4>2. 1 \in DOMAIN pass[r].ids /\ Head(pass[r].ids) = pass[r].ids[1]
        BY <4>1
      <4>3. QED
        BY <1>1, <4>2 DEF Distinct
    <3>3. Rows' = Rows /\ \A w \in Rows : w.id # Head(pass[r].ids)
      BY <2>1, <2>7, <3>2 DEF Rows
    <3>4. RowsQuiet
      BY <3>1, <3>3 DEF RowsQuiet
    <3>5. QED
      BY <1>2, <1>3, <2>1, <2>2, <2>3, <2>4, <3>4, QuietLedger
  <2>8. QED
    BY <2>5, <2>6, <2>7
<1>19. CASE \A t \in Slots : ~Visit(t)
  BY <1>10, <1>11, <1>13, <1>14, <1>15, <1>16, <1>17, <1>18, <1>19 DEF Next
<1>20. QED
  BY <1>12, <1>19

\* The ledger and all it rests on hold in every step, while the graph repeats nothing.
LEMMA OnceStep == TypeInv /\ SoundInv /\ OnceInv /\ [Next]_vars => OnceInv'
<1> SUFFICES ASSUME TypeInv, SoundInv, OnceInv, [Next]_vars PROVE OnceInv'
  OBVIOUS
<1>1. lru = heard /\ Distinct /\ Headed
  BY DEF OnceInv
<1>2. lru' = heard'
  <2>1. ASSUME NEW s \in Walkers, NEW r \in Replicas, NEW k \in Keys, NEW x \in Values,
               processWorkflows(s, r, k, x)
        PROVE  lru' = heard'
    BY <1>1, <2>1 DEF processWorkflows
  <2>2. ASSUME NEW r \in Replicas, Crash(r) PROVE lru' = heard'
    BY <1>1, <2>2 DEF Crash
  <2>3. CASE UNCHANGED <<lru, heard>>
    BY <1>1, <2>3
  <2>4. QED
    BY <2>1, <2>2, <2>3 DEF Next, vars, Begin, Visit, Record, updateWorkflow, AuthorChanges,
                            Matures, tick, resumeFromWait, destroyWait, tickEnds
<1>3. Distinct' /\ Headed'
  BY <1>1, DistinctStep, HeadedStep
<1>4. Unrepeated' => Unrepeated
  BY GraphFixed, Fixed
<1>5. ASSUME Unrepeated PROVE AllGrounded' /\ \E v : Ledger(v)'
  BY <1>1, <1>5, GroundedStep, LedgerStep DEF OnceInv
<1>6. ASSUME NEW v, Ledger(v)' PROVE (\E allowed \in [Node -> [Keys -> Nat]] : Ledger(allowed))'
  BY <1>6 DEF Ledger
<1>7. QED
  BY <1>2, <1>3, <1>4, <1>5, <1>6 DEF OnceInv

\* At first nothing is left behind and nothing is open.
LEMMA OnceInit == Init => OnceInv
<1> SUFFICES ASSUME Init PROVE OnceInv
  OBVIOUS
<1>1. /\ asleep = {} /\ due = <<>> /\ \A s \in Slots : walk[s] = Idle
      /\ pass = [r \in Replicas |-> NoPass]
      /\ lru = heard /\ sent = [n \in Node |-> [k \in Keys |-> 0]] /\ quota = [k \in Keys |-> 0]
  BY DEF Init
<1>2. Rows = {} /\ Idle.at = "idle"
  BY <1>1 DEF Rows, Idle
<1>3. Distinct /\ Headed /\ AllGrounded
  BY <1>1, <1>2 DEF Distinct, Headed, AllGrounded, Led
<1>4. \A m, n, k : Open(m, n, k) = 0
  <2> TAKE m, n, k
  <2>1. RowsAt(m, k) = {} /\ WalksTo(m, n, k) = {}
    BY <1>1, <1>2 DEF RowsAt, WalksTo
  <2>2. QED
    BY <2>1, FS_EmptySet DEF Open
<1>5. Ledger(sent)
  BY <1>1, <1>4 DEF Ledger
<1>6. QED
  BY <1>1, <1>3, <1>5 DEF OnceInv, Ledger

\* Repetitions are not excluded: the unique index of workflow_runs guards a row that is written
\* after the actions.  On a graph on which no node is around and behind a long wait or behind two,
\* each of them has a cause of its own: a process that was handed the event and had not walked it
\* (_idempLru is the process's own), or a resume cut short before its wait's row was deleted.  The
\* lock of the cron pass, the visited set and the deletion leave no other.
THEOREM RepeatsAreCounted == Spec => []RepeatsTraced
<1>1. TypeInv /\ OnceInv => RepeatsTraced
  <2> SUFFICES ASSUME TypeInv, OnceInv, Unrepeated, NEW n \in Node, NEW k \in Keys
               PROVE  ~(sent[n][k] > quota[k])
    BY DEF RepeatsTraced
  <2>1. PICK allowed \in [Node -> [Keys -> Nat]] : Ledger(allowed)
    BY DEF OnceInv
  <2>2. sent[n][k] <= allowed[n][k] /\ allowed[n][k] <= quota[k]
    BY <2>1 DEF Ledger
  <2>3. sent[n][k] \in Nat /\ allowed[n][k] \in Nat /\ quota[k] \in Nat
    BY DEF TypeInv, TypeOK
  <2>4. QED
    BY <2>2, <2>3
<1>2. QED
  BY <1>1, OnceInit, OnceStep, TypeInit, TypeStep, SoundCorrect, PTL DEF Spec
=============================================================================
