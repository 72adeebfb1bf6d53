--------------------------- MODULE ReportingLine ---------------------------
(***************************************************************************)
(* Who is whose manager.  A user's place in the chart is stored twice: in   *)
(* the users.managerId column and in manager_relations rows.  org[u] holds   *)
(* both: managerId; rows, the managers of u's relation rows in creation       *)
(* order; primary, those whose row is primary.  Two services read it.         *)
(***************************************************************************)
EXTENDS Sequences, ChainShape

CONSTANT NoUser   \* null

ASSUME NoUserAssumption == NoUser \notin User

(* A query for one primary row, without an order. *)
primaryRow(org, u) == CHOOSE m \in org[u].primary : TRUE

(* approvalChainService: the column, else the primary row, else the oldest. *)
findPrimaryManagerId(org, u) ==
  CASE org[u].managerId # NoUser                            -> org[u].managerId
    [] org[u].managerId = NoUser /\ org[u].primary # {}     -> primaryRow(org, u)
    [] org[u].managerId = NoUser /\ org[u].primary = {} /\ org[u].rows # <<>>
                                                            -> org[u].rows[1]
    [] OTHER                                                -> NoUser

(* hierarchyService: the primary row, else the column; of several primary rows  *)
(* the query returns any.                                                       *)
getPrimaryManagerId(org, u) ==
  IF org[u].primary # {} THEN org[u].primary ELSE {org[u].managerId}

(* Every climb from the proposed manager reaches the employee: no set that has   *)
(* the manager, and with each member a manager of his or nobody, misses him.    *)
wouldCreateCycle(org, employee, manager) ==
  ~ \E A \in SUBSET User :
      /\ manager \in A /\ employee \notin A
      /\ \A u \in A : getPrimaryManagerId(org, u) \cap (A \cup {NoUser}) # {}

(* A sequence without the elements of a set. *)
Without(s, gone) ==
  LET kept[i \in 0..Len(s)] ==
        IF i = 0 THEN <<>>
        ELSE IF s[i] \in gone THEN kept[i - 1] ELSE Append(kept[i - 1], s[i])
  IN kept[Len(s)]
=============================================================================
