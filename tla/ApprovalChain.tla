--------------------------- MODULE ApprovalChain ---------------------------
(***************************************************************************)
(* Who has to approve a submission: approvalChainService.deriveApprovalChain *)
(* as an operator on the users table and the manager relations, read in one  *)
(* piece as `org`.  org[u] has role, isSuperAdmin, isActive and u's place in   *)
(* the chart (ReportingLine).                                                *)
(***************************************************************************)
EXTENDS Integers, FiniteSets, SequencesExt, ReportingLine

CONSTANTS
  MaxChainDepth,   \* MAX_CHAIN_DEPTH
  createdAt        \* [User -> Nat], the order of creation

ASSUME ChainConstants ==
  /\ IsFiniteSet(User)
  /\ MaxChainDepth \in Nat
  /\ createdAt \in [User -> Nat]
  /\ \A u, v \in User : createdAt[u] = createdAt[v] => u = v

isFinalRole(person) == person.role \in {"manager", "admin"} \/ person.isSuperAdmin

climb_stopsAtInactive(org, w) ==
  LET next == findPrimaryManagerId(org, w.cursor)
      seen == [w EXCEPT !.seen = @ \cup {next}]
  IN IF w.ended \/ next = NoUser \/ next \in w.seen \/ ~org[next].isActive
     THEN [w EXCEPT !.ended = TRUE]
     ELSE IF isFinalRole(org[next]) THEN [seen EXCEPT !.finalAnchor = next, !.ended = TRUE]
     ELSE [seen EXCEPT !.sequentialApprovers = Append(@, next), !.cursor = next]

climb_revisits(org, w) ==
  LET next == findPrimaryManagerId(org, w.cursor)
      at == [w EXCEPT !.cursor = next]
  IN IF w.ended \/ next = NoUser THEN [w EXCEPT !.ended = TRUE]
     ELSE IF ~org[next].isActive THEN at
     ELSE IF isFinalRole(org[next]) THEN [at EXCEPT !.finalAnchor = next, !.ended = TRUE]
     ELSE [at EXCEPT !.sequentialApprovers = Append(@, next)]

(* One iteration of the climb: w holds the loop's variables. *)
climb(org, w) ==
  LET next == findPrimaryManagerId(org, w.cursor)
      seen == [w EXCEPT !.seen = @ \cup {next}]
  IN IF w.ended \/ next = NoUser \/ next \in w.seen THEN [w EXCEPT !.ended = TRUE]
     ELSE IF ~org[next].isActive THEN [seen EXCEPT !.cursor = next]
     ELSE IF isFinalRole(org[next]) THEN [seen EXCEPT !.finalAnchor = next, !.ended = TRUE]
     ELSE [seen EXCEPT !.sequentialApprovers = Append(@, next), !.cursor = next]

walkManagerChain(org, start) ==
  LET after[depth \in 0..MaxChainDepth] ==
        IF depth = 0
        THEN [cursor |-> start, seen |-> {start}, sequentialApprovers |-> <<>>,
              finalAnchor |-> NoUser, ended |-> FALSE]
        ELSE climb(org, after[depth - 1])
  IN after[MaxChainDepth]

rankOf(person) ==
  IF person.isSuperAdmin THEN 5
  ELSE CASE person.role = "admin"              -> 4
         [] person.role = "manager"            -> 3
         [] person.role = "assistant_manager"  -> 2
         [] OTHER                              -> 1

Active(org) == {u \in User : org[u].isActive}

(* The order of the three queries that fill the buckets. *)
scanOrder(person) ==
  CASE person.role = "manager" -> 1 [] person.role = "admin" -> 2 [] OTHER -> 3

(* The order of the final stage's levels: managers, admins, super admins; in  *)
(* a bucket the anchor first, then by query and creation.                     *)
precedes(org, anchor, u, v) ==
  \/ rankOf(org[u]) < rankOf(org[v])
  \/ /\ rankOf(org[u]) = rankOf(org[v])
     /\ v # anchor
     /\ \/ u = anchor
        \/ scanOrder(org[u]) < scanOrder(org[v])
        \/ /\ scanOrder(org[u]) = scanOrder(org[v])
           /\ createdAt[u] < createdAt[v]

(* Everybody of a final role but the submitter and the sequential approvers. *)
finalMembers(org, submitter, excludeIds) ==
  {u \in Active(org) : isFinalRole(org[u])} \ ({submitter} \cup excludeIds)

collectFinalStageMembers(org, submitter, anchor, excludeIds) ==
  LET members == finalMembers(org, submitter, excludeIds) IN
  CHOOSE s \in [1..Cardinality(members) -> members] :
    \A i, j \in DOMAIN s : i < j => precedes(org, anchor, s[i], s[j])

(* The oldest active super admin or else admin of at least minRank. *)
findFallbackTopApprover(org, excludeIds, minRank) ==
  LET eligible == {u \in Active(org) \ excludeIds : rankOf(org[u]) >= minRank}
      supers == {u \in eligible : org[u].isSuperAdmin}
      admins == {u \in eligible : org[u].role = "admin"}
      oldest(S) == CHOOSE u \in S : \A v \in S : createdAt[u] <= createdAt[v]
  IN IF supers # {} THEN oldest(supers) ELSE IF admins # {} THEN oldest(admins) ELSE NoUser

(* The members of the final stage, with the fallback when there are none. *)
finalStage(org, submitter) ==
  LET walk == walkManagerChain(org, submitter)
      members == collectFinalStageMembers(org, submitter, walk.finalAnchor,
                                          ToSet(walk.sequentialApprovers))
      fallback == findFallbackTopApprover(org, {submitter}, rankOf(org[submitter]) + 1)
  IN IF members = <<>> /\ fallback # NoUser THEN <<fallback>> ELSE members

(* Level 0 the submitter; then one stage per sequential approver; then one    *)
(* stage for the whole final stage.  Only the submitter: auto-approved.       *)
deriveChain(org, submitter) ==
  LET sequential == walkManagerChain(org, submitter).sequentialApprovers
      final == finalStage(org, submitter)
      n == Len(sequential)
  IN [level \in 0..(n + Len(final)) |->
        IF level = 0 THEN [stage |-> 0, userId |-> submitter]
        ELSE IF level <= n THEN [stage |-> level, userId |-> sequential[level]]
        ELSE [stage |-> n + 1, userId |-> final[level - n]]]

autoApproves(org, submitter) == DOMAIN deriveChain(org, submitter) = {0}

(* The users table as submitForApproval reads it: the profiles and the chart. *)
withProfiles(place, profiles) ==
  [u \in User |-> [role |-> profiles[u].role, isSuperAdmin |-> profiles[u].isSuperAdmin,
                   isActive |-> profiles[u].isActive, managerId |-> place[u].managerId,
                   rows |-> place[u].rows, primary |-> place[u].primary]]

deriveChainFor(place, profiles, submitter) ==
  deriveChain(withProfiles(place, profiles), submitter)
=============================================================================
