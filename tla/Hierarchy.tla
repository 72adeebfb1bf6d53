----------------------------- MODULE Hierarchy -----------------------------
(***************************************************************************)
(* Edits of the org chart: hierarchyService's transactional setPrimaryManager *)
(* and removePrimaryManager, the relation endpoints of                       *)
(* managerRelationController, which write statement by statement, and the     *)
(* demotion of a manager in userController.updateUser.                       *)
(*                                                                         *)
(* A request is in flight from its check (canEditHierarchy, with the climb for  *)
(* a cycle) to its last statement.  It locks nothing it read, so any number of   *)
(* them interleave, and each may stop after any statement.  The editor is a     *)
(* super admin: the other scopes of canEditHierarchy only allow less.         *)
(***************************************************************************)
EXTENDS Integers, FiniteSets, SequencesExt, ReportingLine

CONSTANTS
  Uses,      \* what organisations there are: super admins, endpoints in use
  Slots,     \* names for the requests in flight: their number is a bound
  MaxEdits   \* bound on the requests there are

Operation == {"setPrimaryManager", "removePrimaryManager", "addRelation", "updateRelation",
              "removeRelation", "syncFromManagerId", "updateUser"}

ASSUME HierarchyConstants ==
  /\ Uses \subseteq [tier1 : SUBSET User, operations : SUBSET Operation]
  /\ MaxEdits \in Nat

(* typed: the relation rows whose relationType is 'primary'. *)
Place == [managerId : User \cup {NoUser}, rows : Seq(User),
          primary : SUBSET User, typed : SUBSET User]

Statement == {"set", "clear", "column", "create", "flag", "destroy", "promote", "mirror", "move"}
Request == [id : Slots, op : Operation, employee : User, manager : User \cup {NoUser},
            isPrimary : BOOLEAN, next : Statement]

VARIABLES
  org,         \* users.managerId and manager_relations
  inflight,    \* the requests running and the statement each runs next
  use,         \* the super admins, never reassigned, and the endpoints in use
  edits,       \* how many requests there were
  stale,       \* history: requests whose climb another one has overtaken
  overtaken,   \* history: users moved below their manager by such a request
  overlapped,  \* history: users written by another request during one about them
  drifted      \* history: users moved in one record without a check

vars == <<org, inflight, use, edits, stale, overtaken, overlapped, drifted>>

Root == [managerId |-> NoUser, rows |-> <<>>, primary |-> {}, typed |-> {}]

TypeOK ==
  /\ org \in [User -> Place]
  /\ inflight \subseteq Request
  /\ use \in Uses
  /\ edits \in Nat
  /\ stale \subseteq Slots
  /\ overtaken \cup overlapped \cup drifted \subseteq User
  /\ \A u \in User : org[u].primary \cup org[u].typed \subseteq ToSet(org[u].rows)

Init ==
  /\ org = [u \in User |-> Root] /\ inflight = {} /\ use \in Uses /\ edits = 0
  /\ stale = {} /\ overtaken = {} /\ overlapped = {} /\ drifted = {}

---------------------------------------------------------------------------
withRow(place, m) ==
  IF m \in ToSet(place.rows) THEN place ELSE [place EXCEPT !.rows = Append(@, m)]

(* The one primary manager, in both records. *)
withPrimary(place, m) ==
  [withRow(place, m) EXCEPT !.managerId = m, !.primary = {m}, !.typed = @ \cup {m}]

withRelation(place, m, isPrimary, typed) ==
  [withRow(place, m) EXCEPT !.primary = @ \cup {n \in {m} : isPrimary},
                            !.typed = @ \cup {n \in {m} : typed}]

withFlags(place, primary, typed) == [place EXCEPT !.primary = primary, !.typed = typed]

withoutRows_keepsFlags(place, gone) ==
  [place EXCEPT !.rows = Without(@, gone)]

withoutRows(place, gone) ==
  [place EXCEPT !.rows = Without(@, gone),
                !.primary = @ \ gone, !.typed = @ \ gone]

canEditHierarchy_anybody(employee, manager) == employee \notin use.tier1 /\ manager # employee

(* canEditHierarchy for a super admin. *)
canEditHierarchy(employee, manager) ==
  /\ employee \notin use.tier1
  /\ manager # NoUser => manager # employee /\ ~wouldCreateCycle(org, employee, manager)

accept(op) == op \in use.operations /\ edits < MaxEdits /\ edits' = edits + 1 /\ UNCHANGED use

begin(op, employee, manager, isPrimary, first) ==
  /\ accept(op)
  /\ \E id \in Slots \ {r.id : r \in inflight} :
       inflight' = inflight \cup {[id |-> id, op |-> op, employee |-> employee,
                     manager |-> manager, isPrimary |-> isPrimary, next |-> first]}
  /\ UNCHANGED <<org, overtaken, drifted>>

(* The request goes on with another statement, or is answered. *)
continue(r, statement) ==
  inflight' = (inflight \ {r}) \cup {[r EXCEPT !.next = statement]} /\ UNCHANGED <<use, edits>>
answer(r) == inflight' = inflight \ {r} /\ UNCHANGED <<use, edits>>

(* History: the employee is below the checked manager in both records, unless the  *)
(* climb was out of date.                                                      *)
placed(r) ==
  /\ drifted' = drifted \ {r.employee}
  /\ overtaken' = IF r.id \in stale THEN overtaken \cup {r.employee} ELSE overtaken \ {r.employee}

---------------------------------------------------------------------------
(* PUT /promotions/update-manager with a manager: check, then one transaction. *)
checkSetPrimaryManager(e, m) ==
  canEditHierarchy(e, m) /\ begin("setPrimaryManager", e, m, TRUE, "set")

setPrimaryManager_columnForgotten(r) ==
  /\ r.next = "set"
  /\ org' = [org EXCEPT ![r.employee] =
               [withRow(@, r.manager) EXCEPT
                  !.primary = {r.manager}, !.typed = @ \cup {r.manager}]]
  /\ placed(r) /\ answer(r)

setPrimaryManager(r) ==
  /\ r.next = "set"
  /\ org' = [org EXCEPT ![r.employee] = withPrimary(@, r.manager)]
  /\ placed(r) /\ answer(r)

(* ... without a manager: the primary rows go, or else a row of the old       *)
(* manager still typed primary; the other relations stay.                     *)
removePrimaryManager(e) ==
  LET gone == IF org[e].primary # {} THEN org[e].primary
              ELSE {org[e].managerId} \cap org[e].typed
  IN
  /\ canEditHierarchy(e, NoUser) /\ accept("removePrimaryManager")
  /\ org' = [org EXCEPT ![e] = [withoutRows(@, gone) EXCEPT !.managerId = NoUser]]
  /\ UNCHANGED <<inflight, overtaken, drifted>>

(* POST /manager-relations *)
addRelation(e, m, isPrimary) ==
  /\ canEditHierarchy(e, m) /\ m \notin ToSet(org[e].rows)
  /\ begin("addRelation", e, m, isPrimary, IF isPrimary THEN "clear" ELSE "create")

(* PUT /manager-relations/:id with isPrimary true *)
updateRelation(e, m) ==
  /\ m \in ToSet(org[e].rows) /\ canEditHierarchy(e, m)
  /\ begin("updateRelation", e, m, TRUE, "clear")

(* What a relationType in the body does to the row, if there is one. *)
retyped(place, m) == {place.typed, place.typed \cup {m}, place.typed \ {m}}

(* ... with isPrimary false or absent: no check, and the column stays. *)
unsetPrimaryRelation(e, m) ==
  /\ m \in ToSet(org[e].rows) /\ accept("updateRelation")
  /\ \E primary \in {org[e].primary, org[e].primary \ {m}}, typed \in retyped(org[e], m) :
       org' = [org EXCEPT ![e] = withFlags(org[e], primary, typed)]
  /\ UNCHANGED <<inflight, overtaken, drifted>>

(* DELETE /manager-relations/:id; isPrimary is the row's flag as loaded. *)
removeRelation(e, m) ==
  /\ m \in ToSet(org[e].rows) /\ canEditHierarchy(e, NoUser)
  /\ begin("removeRelation", e, m, m \in org[e].primary, "destroy")

---------------------------------------------------------------------------
(* The statements of the relation endpoints. *)

unplaced == UNCHANGED <<overtaken, drifted>>
unchecked(r) == drifted' = drifted \cup {r.employee} /\ UNCHANGED overtaken

clearPrimaries_skipped(r) ==
  /\ r.next = "clear"
  /\ UNCHANGED org
  /\ unplaced /\ continue(r, "column")

(* The other rows of the employee lose the primary flag. *)
clearPrimaries(r) ==
  /\ r.next = "clear"
  /\ org' = [org EXCEPT ![r.employee].primary =
               IF r.op = "updateRelation" THEN @ \cap {r.manager} ELSE {}]
  /\ unplaced /\ continue(r, "column")

writeColumn(r) ==
  /\ r.next = "column"
  /\ org' = [org EXCEPT ![r.employee].managerId = r.manager]
  /\ CASE r.op = "addRelation"    -> placed(r) /\ continue(r, "create")
       [] r.op = "updateRelation" -> placed(r) /\ continue(r, "flag")
       [] OTHER                   -> unchecked(r) /\ answer(r)

(* ManagerRelation.create; the unique index refuses a second row. *)
createRow(r) ==
  /\ r.next = "create"
  /\ \/ /\ r.manager \notin ToSet(org[r.employee].rows)
        /\ \E typed \in BOOLEAN :
             org' = [org EXCEPT ![r.employee] =
                       withRelation(@, r.manager, r.isPrimary, typed)]
     \/ r.manager \in ToSet(org[r.employee].rows) /\ UNCHANGED org
  /\ unplaced /\ answer(r)

(* relation.update; a row deleted meanwhile stays deleted. *)
flagRow(r) ==
  LET place == org[r.employee] IN
  /\ r.next = "flag"
  /\ \/ /\ r.manager \in ToSet(place.rows)
        /\ \E typed \in retyped(place, r.manager) :
             org' = [org EXCEPT ![r.employee] =
                       withFlags(place, place.primary \cup {r.manager}, typed)]
     \/ r.manager \notin ToSet(place.rows) /\ UNCHANGED org
  /\ unplaced /\ answer(r)

destroyRow(r) ==
  /\ r.next = "destroy"
  /\ org' = [org EXCEPT ![r.employee] = withoutRows(@, {r.manager})]
  /\ unplaced /\ IF r.isPrimary THEN continue(r, "promote") ELSE answer(r)

(* The oldest relation left becomes the primary one, unchecked. *)
promoteNext(r) ==
  LET rows == org[r.employee].rows
      chosen == IF rows = <<>> THEN NoUser ELSE rows[1]
  IN
  /\ r.next = "promote"
  /\ org' = [org EXCEPT ![r.employee].primary = @ \cup ({chosen} \ {NoUser})]
  /\ inflight' = (inflight \ {r}) \cup {[r EXCEPT !.manager = chosen, !.next = "column"]}
  /\ unchecked(r) /\ UNCHANGED <<use, edits>>

(* A statement fails, or the server stops: nothing done so far is undone. *)
fail(r) == answer(r) /\ UNCHANGED org /\ unplaced

---------------------------------------------------------------------------
(* POST /manager-relations/sync loads everybody's column, then finds or creates    *)
(* the row of one after the other, without a check: each is a request here.      *)
syncFromManagerId(u) ==
  /\ org[u].managerId # NoUser
  /\ begin("syncFromManagerId", u, org[u].managerId, TRUE, "mirror")

mirrorColumn(r) ==
  /\ r.next = "mirror"
  /\ \/ /\ r.manager \notin ToSet(org[r.employee].rows)
        /\ org' = [org EXCEPT ![r.employee] = withRelation(@, r.manager, TRUE, TRUE)]
     \/ r.manager \in ToSet(org[r.employee].rows) /\ UNCHANGED org
  /\ unplaced /\ answer(r)

(* PUT /users/:id with role 'member' on a manager, loaded with the column ... *)
demoteManager(e) ==
  /\ e \notin use.tier1
  /\ begin("updateUser", e, org[e].managerId, FALSE, "move")

(* ... moves the column of the reports up to the manager's own manager; the        *)
(* relation rows are not touched.                                              *)
moveReports(r) ==
  LET reports == {u \in User : org[u].managerId = r.employee}
  IN
  /\ r.next = "move"
  /\ org' = [u \in User |->
               IF u \in reports THEN [org[u] EXCEPT !.managerId = r.manager] ELSE org[u]]
  /\ drifted' = drifted \cup reports
  /\ UNCHANGED overtaken /\ answer(r)

---------------------------------------------------------------------------
(* Another request than r changed what r is about, or what it climbed by. *)
waits(r) == r \in inflight /\ r \in inflight'
reparented ==
  \E u \in User : /\ getPrimaryManagerId(org', u) # getPrimaryManagerId(org, u)
                  /\ NoUser \notin getPrimaryManagerId(org', u)

Histories ==
  /\ stale' = {r.id : r \in {q \in inflight' : q.id \in stale \/ (waits(q) /\ reparented)}}
  /\ overlapped' = overlapped \cup
       {r.employee : r \in {q \in inflight : /\ waits(q) /\ q.next # "move"
                                            /\ org'[q.employee] # org[q.employee]}}

Step ==
  \/ \E e, m \in User : checkSetPrimaryManager(e, m)
  \/ \E e \in User : removePrimaryManager(e)
  \/ \E e, m \in User, p \in BOOLEAN : addRelation(e, m, p)
  \/ \E e, m \in User : updateRelation(e, m)
  \/ \E e, m \in User : unsetPrimaryRelation(e, m)
  \/ \E e, m \in User : removeRelation(e, m)
  \/ \E u \in User : syncFromManagerId(u)
  \/ \E e \in User : demoteManager(e)
  \/ \E r \in inflight : setPrimaryManager(r)
  \/ \E r \in inflight : clearPrimaries(r)
  \/ \E r \in inflight : writeColumn(r)
  \/ \E r \in inflight : createRow(r)
  \/ \E r \in inflight : flagRow(r)
  \/ \E r \in inflight : destroyRow(r)
  \/ \E r \in inflight : promoteNext(r)
  \/ \E r \in inflight : mirrorColumn(r)
  \/ \E r \in inflight : moveReports(r)
  \/ \E r \in inflight : fail(r)

Next == Step /\ Histories

Spec == Init /\ [][Next]_vars

---------------------------------------------------------------------------
(* Whose records another request may have taken apart. *)
apart == overlapped \cup drifted

(* The check keeps loops out of the chart, whatever was cleared, half written or    *)
(* removed before: every loop of managers has somebody in it who was promoted or     *)
(* moved without a check, was written by two requests at once, or was last placed    *)
(* by a request whose climb another one overtook.  "cycles are also blocked at      *)
(* write time" (hierarchyService.js:96) is true of nobody else's loops.          *)
Acyclic ==
  \A S \in SUBSET User :
    S # {} /\ S \cap (apart \cup overtaken) = {} => \E u \in S : org[u].managerId \notin S

(* A user has at most one primary manager, also after requests that stopped       *)
(* between two statements (clear, then set, in every write path), unless two       *)
(* requests wrote at once, or sync met records left apart.                      *)
OnePrimary ==
  \A u \in User :
    /\ u \notin overlapped
    /\ u \in drifted => "syncFromManagerId" \notin use.operations
    => Cardinality(org[u].primary) <= 1

(* The two records of the primary manager agree: "keep User.managerId and          *)
(* manager_relations consistent" (hierarchyService.js:12), whichever statements of    *)
(* the requests about the user were run.                                        *)
ColumnFollowsPrimary ==
  \A u \in User \ apart : org[u].primary # {} => org[u].primary = {org[u].managerId}
=============================================================================
