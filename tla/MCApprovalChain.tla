--------------------------- MODULE MCApprovalChain ---------------------------
(* Every organisation of four people with one record of each manager, and its *)
(* deactivations and reactivations.                                          *)
EXTENDS Organisation, TLC

CONSTANTS ann, bob, cat, dan, Kinds, Managers

MCFour == {ann, bob, cat, dan}
MCCreatedAt == [u \in User |-> CASE u = ann -> 2 [] u = bob -> 1 [] u = cat -> 3 [] OTHER -> 4]

Kind(r, super) == [role |-> r, isSuperAdmin |-> super]
MCTwoKinds == {Kind("member", FALSE), Kind("manager", FALSE)}

(* Values of the managerId column. *)
MCAboveAnn == {bob, cat, dan, NoUser}

MCPeople ==
  {[role |-> k.role, isSuperAdmin |-> k.isSuperAdmin, isActive |-> a, managerId |-> m,
    rows |-> <<>>, primary |-> {}] : k \in Kinds, a \in BOOLEAN, m \in Managers}
=============================================================================
