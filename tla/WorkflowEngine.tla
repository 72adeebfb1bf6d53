--------------------------- MODULE WorkflowEngine ---------------------------
(***************************************************************************)
(* One published workflow of workflowEngine.js: the events that fire it on    *)
(* several server processes, the walks over its graph, the rows that persist  *)
(* its long waits, and workflowWaitJob.js, which resumes them.                *)
(*                                                                         *)
(* A key stands for one workflow, trigger, entity, actor and minute; the event *)
(* of a key may arrive more than once and on more than one process.  A context *)
(* is abstracted to its task, as the conditions of the graph see it: it        *)
(* matches, it does not, or there is none.  The walk's queue is the set of the  *)
(* edges still to follow: nothing below depends on the order of the rows.      *)
(***************************************************************************)
EXTENDS Integers, FiniteSets, Sequences

CONSTANTS
  Replicas,      \* server processes
  Walkers,       \* request-side walks that may be in progress at once
  Keys,          \* idempotency keys of the events
  Values,        \* what the task of an event may be to the conditions
  Graphs,        \* graphs a workflow may be published with
  Start,         \* the trigger node of every graph
  WaitIds,       \* rows of workflow_waits that may exist at once
  BATCH_SIZE,    \* waits one cron pass takes
  None,
  MaxEvents      \* bound on the events, switches, faults and crashes of a behaviour

Conditions == {"equals", "not_equals", "is_set"}
Privileged == {"update", "comment"}    \* gated by the author's permission, and bound to a task
Outward == {"comment", "message"}      \* not idempotent: every run leaves one more
Kinds == {"trigger", "short", "wait"} \cup Conditions \cup Privileged \cup Outward
Branches == {"any", "true", "false", "legacy"}

\* Two kinds of wait: "short" sleeps in memory, "wait" is longer than WAIT_MAX_MS.
\* "update" stands for the idempotent writes to the task: status, priority, assignee, labels.
ASSUME WorkflowConstants ==
  /\ MaxEvents \in Nat /\ BATCH_SIZE \in Nat \ {0}
  /\ IsFiniteSet(Walkers) /\ IsFiniteSet(Replicas) /\ IsFiniteSet(WaitIds)
  /\ None \notin WaitIds \cup Replicas \cup Keys
  /\ Walkers \cap Replicas = {}
  /\ Values \subseteq {"match", "other", "none"}
  /\ \A g \in Graphs : /\ Start \in DOMAIN g.kind /\ g.kind[Start] = "trigger"
                       /\ \A n \in DOMAIN g.kind : g.kind[n] \in Kinds
                       /\ \A e \in g.edges : /\ e.from \in DOMAIN g.kind /\ e.to \in DOMAIN g.kind
                                             /\ e.branch \in Branches

VARIABLES
  graph,       \* workflow_nodes and workflow_edges
  published,   \* workflow.isActive
  author,      \* whether workflow.createdBy is active and holds its permissions
  walk,        \* executeWorkflow, on each request-side walker and in each process's cron pass
  lru,         \* each process's _idempLru
  runs,        \* workflow_runs under an idempotency key: the status recorded
  asleep, due, \* workflow_waits whose resumeAt is ahead, and those past it in its order
  pass, lock,  \* tick of workflowWaitJob on each process, and who holds its advisory lock
  sent,        \* comments and messages left by each node for each key
  events,
  heard,       \* history: the keys each process has walked since it started
  quota,       \* history: walks a key accounts for, one per process and one per resume cut short
  outlived     \* history: walks in progress when the author last lost the permission

vars == <<graph, published, author, walk, lru, runs, asleep, due, pass, lock, sent, events,
          heard, quota, outlived>>

Slots == Walkers \cup Replicas
Node == DOMAIN graph.kind
Wait == [id : WaitIds, node : Node, key : Keys, value : {"match", "other", "none"}]
Walk == [at : {"idle", "begin", "walk"}, on : Replicas \cup {None}, key : Keys \cup {None},
         from : Node, resume : WaitIds \cup {None}, value : {"match", "other", "none"},
         actor : BOOLEAN, todo : SUBSET graph.edges, visited : SUBSET Node,
         skipped : BOOLEAN, failed : BOOLEAN, clamped : SUBSET Node]
Pass == [at : {"idle", "load", "resume"}, ids : Seq(WaitIds)]

TypeOK ==
  /\ graph \in Graphs /\ published \in BOOLEAN /\ author \in BOOLEAN
  /\ walk \in [Slots -> Walk]
  /\ lru \in [Replicas -> SUBSET Keys]
  /\ runs \in [Keys -> {"none", "ok", "partial", "error"}]
  /\ asleep \subseteq Wait /\ due \in Seq(Wait)
  /\ pass \in [Replicas -> Pass] /\ lock \in Replicas \cup {None}
  /\ \A r \in Replicas : pass[r].at # "idle" <=> lock = r
  /\ sent \in [Node -> [Keys -> Nat]]
  /\ events \in 0..MaxEvents
  /\ heard \in [Replicas -> SUBSET Keys] /\ quota \in [Keys -> Nat]
  /\ outlived \subseteq Slots

Idle == [at |-> "idle", on |-> None, key |-> None, from |-> Start, resume |-> None,
         value |-> "none", actor |-> FALSE, todo |-> {}, visited |-> {},
         skipped |-> FALSE, failed |-> FALSE, clamped |-> {}]
NoPass == [at |-> "idle", ids |-> <<>>]

Init ==
  /\ graph \in Graphs /\ published = TRUE /\ author = TRUE
  /\ walk = [s \in Slots |-> Idle]
  /\ lru = [r \in Replicas |-> {}]
  /\ runs = [k \in Keys |-> "none"]
  /\ asleep = {} /\ due = <<>>
  /\ pass = [r \in Replicas |-> NoPass] /\ lock = None
  /\ sent = [n \in Node |-> [k \in Keys |-> 0]]
  /\ events = 0
  /\ heard = [r \in Replicas |-> {}] /\ quota = [k \in Keys |-> 0] /\ outlived = {}

Event == events < MaxEvents /\ events' = events + 1

-----------------------------------------------------------------------------
\* The walk

\* What a condition node makes of the task in the context, null when there is none.
evaluateCondition(kind, value) ==
  CASE kind = "equals"     -> value = "match"
    [] kind = "not_equals" -> value # "match"
    [] OTHER               -> value # "none"

\* The edges out of a node that the walk follows.
outgoing_anyBranch(g, n, value) == {e \in g.edges : e.from = n /\ e.branch # "legacy"}

outgoing(g, n, value) ==
  {e \in g.edges :
     /\ e.from = n /\ e.branch # "legacy"
     /\ \/ g.kind[n] \notin Conditions \/ e.branch = "any"
        \/ e.branch = IF evaluateCondition(g.kind[n], value) THEN "true" ELSE "false"}

hasLegacyEdge(g, n) == \E e \in g.edges : e.from = n /\ e.branch = "legacy"

\* The walk w queues node n: its edges are to be followed, those to a visited node are not.
queued(w, n) ==
  [w EXCEPT !.visited = @ \cup {n},
            !.todo = {e \in @ \cup outgoing(graph, n, w.value) : e.to \notin w.visited \cup {n}},
            !.skipped = @ \/ hasLegacyEdge(graph, n)]

\* The walk w stops at node n, which paused.
paused_unmarked(w, n) ==
  [w EXCEPT !.visited = @ \cup {n}, !.todo = {e \in @ : e.to # n}]

paused(w, n) ==
  [w EXCEPT !.visited = @ \cup {n}, !.todo = {e \in @ : e.to # n}, !.skipped = TRUE]

\* The walk w goes on past the long wait n, which sleeps in memory.
clampedAt(w, n) == [queued(w, n) EXCEPT !.clamped = @ \cup {n}]

\* A creator who is missing or deactivated is no actor, and is refused what the map names.
checkActionPermission_nullPasses(actor, kind) == TRUE

checkActionPermission(actor, kind) == kind \in Privileged => actor

\* What is kept of a context on a wait row: IDs, so that nothing of the task can be read back.
sanitizeContext(value) == "none"

\* A row of workflow_waits under an id nothing refers to.
inUse == {w.id : w \in asleep} \cup {due[i].id : i \in DOMAIN due}
         \cup UNION {{pass[r].ids[i] : i \in DOMAIN pass[r].ids} : r \in Replicas}

\* The action at node n runs to its end: a comment needs a task, a message does not.
Acts(s, n) ==
  LET w == walk[s]  kind == graph.kind[n] IN
  /\ kind \in {"update", "comment", "message", "short"}
  /\ walk' = [walk EXCEPT ![s] = queued(w, n)]
  /\ sent' = IF kind = "message" \/ (kind = "comment" /\ w.value # "none")
             THEN [sent EXCEPT ![n][w.key] = @ + 1] ELSE sent
  /\ UNCHANGED <<asleep, events>>

\* The action throws, and the walk goes on.
Throws(s, n) ==
  /\ graph.kind[n] \in Privileged
  /\ Event
  /\ walk' = [walk EXCEPT ![s] = [queued(walk[s], n) EXCEPT !.failed = TRUE]]
  /\ UNCHANGED <<asleep, sent>>

\* A long wait is persisted and pauses its branch.  When the row cannot be written the wait
\* falls back to the longest wait in memory, and the walk goes on.
Waits(s, n) ==
  /\ graph.kind[n] = "wait"
  /\ \/ \E i \in WaitIds \ inUse :
          /\ asleep' = asleep \cup {[id |-> i, node |-> n, key |-> walk[s].key,
                                     value |-> sanitizeContext(walk[s].value)]}
          /\ walk' = [walk EXCEPT ![s] = paused(@, n)]
          /\ UNCHANGED events
     \/ /\ Event
        /\ walk' = [walk EXCEPT ![s] = clampedAt(@, n)]
        /\ UNCHANGED asleep
  /\ UNCHANGED sent

\* A refused action is skipped and the walk goes past it.
Refused(s, n) ==
  /\ walk' = [walk EXCEPT ![s] = [queued(@, n) EXCEPT !.skipped = TRUE]]
  /\ UNCHANGED <<asleep, sent, events>>

\* The target of an edge is visited: a condition only steers, a trigger does nothing.
Passes(s, n) ==
  /\ graph.kind[n] \in Conditions \cup {"trigger"}
  /\ walk' = [walk EXCEPT ![s] = queued(@, n)]
  /\ UNCHANGED <<asleep, sent, events>>

Visit(s) ==
  /\ walk[s].at = "walk"
  /\ \E e \in walk[s].todo :
       IF checkActionPermission(walk[s].actor, graph.kind[e.to])
       THEN Acts(s, e.to) \/ Throws(s, e.to) \/ Waits(s, e.to) \/ Passes(s, e.to)
       ELSE Refused(s, e.to)
  /\ UNCHANGED <<graph, published, author, lru, runs, due, pass, lock, heard, quota, outlived>>

\* executeWorkflow resolves the author afresh, loads the graph and starts at the given node.
Begin(s) ==
  /\ walk[s].at = "begin"
  /\ walk' = [walk EXCEPT ![s] = [queued(@, @.from) EXCEPT !.at = "walk", !.actor = author]]
  /\ UNCHANGED <<graph, published, author, lru, runs, asleep, due, pass, lock, sent, events,
                 heard, quota, outlived>>

\* The outcome of a walk.
Status(w) == IF w.failed THEN "error" ELSE IF w.skipped THEN "partial" ELSE "ok"

\* The run row is written when the walk is over.  The unique index keeps the first row of a
\* key, and a resumed walk's row has no key.
Record(s) ==
  /\ walk[s].at = "walk" /\ walk[s].todo = {}
  /\ runs' = LET k == walk[s].key IN
             IF walk[s].resume = None /\ runs[k] = "none"
             THEN [runs EXCEPT ![k] = Status(walk[s])] ELSE runs
  /\ walk' = [walk EXCEPT ![s] = Idle]
  /\ outlived' = outlived \ {s}
  /\ UNCHANGED <<graph, published, author, lru, asleep, due, pass, lock, sent, events,
                 heard, quota>>

\* A call of executeWorkflow.
called(on, key, from, resume, value) ==
  [at |-> "begin", on |-> on, key |-> key, from |-> from, resume |-> resume, value |-> value,
   actor |-> FALSE, todo |-> {}, visited |-> {}, skipped |-> FALSE, failed |-> FALSE,
   clamped |-> {}]

-----------------------------------------------------------------------------
\* Events, and the workflow's and the author's rows

_lruHas_never(r, k) == FALSE

_lruHas(r, k) == k \in lru[r]

\* processWorkflows: process r is handed the event of key k, finds the workflow published and
\* the key not among those it walked already, and starts the walk.
processWorkflows(s, r, k, value) ==
  /\ Event
  /\ walk[s].at = "idle"
  /\ published /\ ~_lruHas(r, k)
  /\ lru' = [lru EXCEPT ![r] = @ \cup {k}]
  /\ walk' = [walk EXCEPT ![s] = called(r, k, Start, None, value)]
  /\ heard' = [heard EXCEPT ![r] = @ \cup {k}]
  /\ quota' = [quota EXCEPT ![k] = IF k \in heard[r] THEN @ ELSE @ + 1]
  /\ UNCHANGED <<graph, published, author, runs, asleep, due, pass, lock, sent, outlived>>

\* The publish switch of updateWorkflow.
updateWorkflow ==
  /\ Event
  /\ published' = ~published
  /\ UNCHANGED <<graph, author, walk, lru, runs, asleep, due, pass, lock, sent,
                 heard, quota, outlived>>

\* The author is deactivated or demoted, or comes back.
AuthorChanges ==
  /\ Event
  /\ author' = ~author
  /\ outlived' = IF author THEN {s \in Slots : walk[s].at = "walk"} ELSE outlived
  /\ UNCHANGED <<graph, published, walk, lru, runs, asleep, due, pass, lock, sent,
                 heard, quota>>

-----------------------------------------------------------------------------
\* The cron pass

\* The resumeAt of a wait goes by.
Matures ==
  /\ \E w \in asleep : asleep' = asleep \ {w} /\ due' = Append(due, w)
  /\ UNCHANGED <<graph, published, author, walk, lru, runs, pass, lock, sent, events,
                 heard, quota, outlived>>

withCronLock_ignored == TRUE

withCronLock == lock = None

\* tick: the oldest due waits are read under the lock.
tick(r) ==
  /\ pass[r].at = "idle" /\ withCronLock
  /\ due # <<>>
  /\ lock' = r
  /\ pass' = [pass EXCEPT ![r] =
       [at |-> "load",
        ids |-> [i \in 1..(IF Len(due) < BATCH_SIZE THEN Len(due) ELSE BATCH_SIZE) |-> due[i].id]]]
  /\ UNCHANGED <<graph, published, author, walk, lru, runs, asleep, due, sent, events,
                 heard, quota, outlived>>

\* The due waits without the one of id i.
destroyed_leavesRow(i) == due

destroyed(i) ==
  IF \E j \in DOMAIN due : due[j].id = i
  THEN LET j == CHOOSE j \in DOMAIN due : due[j].id = i
       IN [m \in 1..(Len(due) - 1) |-> due[IF m < j THEN m ELSE m + 1]]
  ELSE due

NextId(r) == [pass EXCEPT ![r].ids = Tail(@)]

\* resumeFromWait up to its walk: the row is gone, cannot be loaded now, belongs to a
\* workflow taken offline and is dropped, or is walked from its node.
resumeFromWait(r) ==
  /\ pass[r].at = "load" /\ pass[r].ids # <<>>
  /\ LET i == Head(pass[r].ids)  row == {w \in {due[j] : j \in DOMAIN due} : w.id = i} IN
     \/ /\ row = {}
        /\ pass' = NextId(r)
        /\ UNCHANGED <<due, walk, events>>
     \/ /\ Event
        /\ pass' = NextId(r)
        /\ UNCHANGED <<due, walk>>
     \/ /\ row # {} /\ ~published
        /\ due' = destroyed(i) /\ pass' = NextId(r)
        /\ UNCHANGED <<walk, events>>
     \/ /\ published
        /\ \E w \in row : walk' = [walk EXCEPT ![r] = called(r, w.key, w.node, i, w.value)]
        /\ pass' = [pass EXCEPT ![r].at = "resume"]
        /\ UNCHANGED <<due, events>>
  /\ UNCHANGED <<graph, published, author, lru, runs, asleep, lock, sent,
                 heard, quota, outlived>>

\* resumeFromWait after its walk: the row is deleted whatever the walk came to.
destroyWait(r) ==
  /\ pass[r].at = "resume" /\ walk[r].at = "idle"
  /\ due' = destroyed(Head(pass[r].ids))
  /\ pass' = [pass EXCEPT ![r] = [at |-> "load", ids |-> Tail(@.ids)]]
  /\ UNCHANGED <<graph, published, author, walk, lru, runs, asleep, lock, sent, events,
                 heard, quota, outlived>>

tickEnds(r) ==
  /\ pass[r] = [at |-> "load", ids |-> <<>>]
  /\ pass' = [pass EXCEPT ![r] = NoPass]
  /\ lock' = None
  /\ UNCHANGED <<graph, published, author, walk, lru, runs, asleep, due, sent, events,
                 heard, quota, outlived>>

\* A process dies: its walks, its LRU and its cron transaction, with the lock, go with it.
Crash(r) ==
  /\ Event
  /\ LET gone == {s \in Slots : walk[s].on = r}
         cut == {w.key : w \in {due[j] : j \in {i \in DOMAIN due :
                    pass[r].at = "resume" /\ due[i].id = Head(pass[r].ids)}}} IN
     /\ walk' = [s \in Slots |-> IF s \in gone THEN Idle ELSE walk[s]]
     /\ quota' = [k \in Keys |-> IF k \in cut THEN quota[k] + 1 ELSE quota[k]]
     /\ outlived' = outlived \ gone
  /\ lru' = [lru EXCEPT ![r] = {}] /\ heard' = [heard EXCEPT ![r] = {}]
  /\ pass' = [pass EXCEPT ![r] = NoPass]
  /\ lock' = IF lock = r THEN None ELSE lock
  /\ UNCHANGED <<graph, published, author, runs, asleep, due, sent>>

Next ==
  \/ \E s \in Slots : Begin(s) \/ Visit(s) \/ Record(s)
  \/ \E s \in Walkers, r \in Replicas, k \in Keys, v \in Values : processWorkflows(s, r, k, v)
  \/ updateWorkflow \/ AuthorChanges \/ Matures
  \/ \E r \in Replicas :
       tick(r) \/ resumeFromWait(r) \/ destroyWait(r) \/ tickEnds(r) \/ Crash(r)

Spec ==
  /\ Init /\ [][Next]_vars
  /\ \A s \in Slots : WF_vars(Begin(s) \/ Visit(s) \/ Record(s))
  /\ WF_vars(Matures)
  /\ WF_vars(\E r \in Replicas : tick(r))
  /\ \A r \in Replicas : WF_vars(resumeFromWait(r) \/ destroyWait(r) \/ tickEnds(r))

-----------------------------------------------------------------------------
\* What the engine promises

\* The edges a walk from a node should follow: out of every node that does not pause, those
\* that the task does not decide against.
Satisfies == [equals |-> {"match"}, not_equals |-> {"other", "none"}, is_set |-> {"match", "other"}]

Against(kind, value) == IF value \in Satisfies[kind] THEN "false" ELSE "true"

Followed(from, value, clamped) ==
  {e \in graph.edges :
     /\ e.branch # "legacy"
     /\ e.from = from \/ graph.kind[e.from] # "wait" \/ e.from \in clamped
     /\ graph.kind[e.from] \in Conditions => e.branch # Against(graph.kind[e.from], value)}

\* The nodes to be found along some edges: those in every set closed under the edges.
Closed(edges, from) ==
  {S \in SUBSET Node : from \in S /\ \A e \in edges : e.from \in S => e.to \in S}

Along(edges, from) == {n \in Node : \A S \in Closed(edges, from) : n \in S}

Reach(from, value, clamped) == Along(Followed(from, value, clamped), from)

\* A walk visits nothing but what a path of the followed branches leads to: nothing of the
\* other branch of a condition, and nothing behind a long wait before its row is resumed.
\* A hazard of the queue, the visited set and the branch filter of executeWorkflow.
WithinReach ==
  \A s \in Slots : walk[s].at = "walk" =>
    walk[s].visited \subseteq Reach(walk[s].from, walk[s].value, walk[s].clamped)

\* When its walk is over, nothing that should have been visited is left, whatever was refused
\* or failed on the way; and a run told to be "ok" stopped at no wait and was refused nothing.
FullWalk ==
  \A s \in Slots : LET w == walk[s] IN w.at = "walk" /\ w.todo = {} =>
    /\ Reach(w.from, w.value, w.clamped) \subseteq w.visited
    /\ Status(w) = "ok" =>
         \A n \in w.visited \ {w.from} : /\ graph.kind[n] = "wait" => n \in w.clamped
                                         /\ graph.kind[n] \in Privileged => w.actor

\* The nodes reachable from a node along any branch, to the next long waits.
Segment(from) ==
  Along({e \in graph.edges : e.from = from \/ graph.kind[e.from] # "wait"}, from)

\* Where a walk starts: at the trigger, or behind a long wait.
Source == {Start} \cup {n \in Node : graph.kind[n] = "wait"}

\* No node is both around and behind a long wait, or behind two.
Unrepeated ==
  \A n \in Node : \A l, m \in Source \ {n} : n \in Segment(l) \cap Segment(m) => l = m

\* Repetitions happen.  The unique index on (workflowId, idempotencyKey) refuses a second run
\* row, but the row is written when the walk is over, so it refuses no action: a process that
\* has not heard of the event walks it again, and so does the next pass after a stop between a
\* resumption's actions and the deletion of its row.  What the code does keep, against "a
\* duplicate trigger fire never reaches this dispatch the second time", is that nothing else
\* repeats: every further comment or message is traced to a process of its own that was handed
\* the event, or to a resumption of its own that was cut short.
RepeatsTraced ==
  (\E n \in Node, k \in Keys : sent[n][k] > quota[k]) => ~Unrepeated

\* While the author is inactive, the only walks that write for him are those that had resolved
\* him before he left: neither a new event's walk nor a resumed one does.
AuthorGone ==
  [][\A s \in Slots, n \in Node :
       /\ ~author /\ n \in walk'[s].visited \ walk[s].visited
       /\ walk[s].at = "walk" /\ graph.kind[n] \in Privileged
       /\ ~walk'[s].skipped
       => s \in outlived]_vars

\* Two long waits on one cycle of the graph.
WaitLoop ==
  \E m, n \in Node : /\ m # n /\ graph.kind[m] = "wait" /\ graph.kind[n] = "wait"
                     /\ n \in Along(graph.edges, m) /\ m \in Along(graph.edges, n)

\* Every walk ends, and every persisted wait is resumed or dropped and its row deleted: rows
\* that cannot be walked do not hold the queue up, and a dead process's pass is taken over.
\* Not on a graph with a wait loop, which goes round for ever.
Settles ==
  ~WaitLoop => <>[](asleep = {} /\ due = <<>> /\ \A s \in Slots : walk[s].at = "idle")

\* A resumed walk does what the event decided: an action on the task takes effect.
\* ("using the snapshot keeps the workflow's view consistent with what fired it")
ViewKept ==
  [][\A s \in Slots, n \in Node :
       /\ walk[s].at = "walk" /\ walk[s].actor
       /\ n \in walk'[s].visited \ walk[s].visited
       /\ graph.kind[n] = "comment" /\ ~walk'[s].failed
       => sent'[n] # sent[n]]_vars
=============================================================================
