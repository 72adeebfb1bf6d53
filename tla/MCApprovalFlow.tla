--------------------------- MODULE MCApprovalFlow ---------------------------
(* Instances of ApprovalFlow for TLC.  The chain is the real derivation of    *)
(* ApprovalChain on a fixed reporting line, emp -> lead -> mgr -> boss.       *)
EXTENDS ApprovalFlow, TLC

CONSTANTS emp, lead, mgr, boss, NoUser

MCUser == {emp, lead, mgr, boss}
MCRole == {"member", "assistant_manager", "manager"}
MCProgress == {0, 50, 100}

MCReportsTo == (emp :> lead) @@ (lead :> mgr) @@ (mgr :> boss) @@ (boss :> NoUser)
MCCreatedAt == (boss :> 1) @@ (mgr :> 2) @@ (lead :> 3) @@ (emp :> 4)

Chain == INSTANCE ApprovalChain WITH MaxChainDepth <- 10, createdAt <- MCCreatedAt

MCPlaces == [u \in User |-> [managerId |-> MCReportsTo[u], rows |-> <<>>, primary |-> {}]]
MCChain(profiles, u) == Chain!deriveChainFor(MCPlaces, profiles, u)

Person(r, super, active) == [role |-> r, isSuperAdmin |-> super, isActive |-> active]

(* A member, an assistant manager, a manager and a super admin. *)
MCFourTiers ==
  (emp :> Person("member", FALSE, TRUE)) @@ (lead :> Person("assistant_manager", FALSE, TRUE))
    @@ (mgr :> Person("manager", FALSE, TRUE)) @@ (boss :> Person("manager", TRUE, TRUE))

MCTeam == {MCFourTiers}

MCTasks == {[status |-> "working_on_it", progress |-> 50, approvalStatus |-> "none",
             snapshot |-> NoSnapshot]}

Sending(f, s, p) == [fields |-> f, status |-> s, progress |-> p]

(* Bodies: overwrite the columns the cycle owns, edit a custom field. *)
MCOverwrite == {Sending({"status", "progress"}, "working_on_it", 0)}
MCFieldEdit == {Sending({"customFields"}, "done", 0)}
MCNone == {}

(* Role changes: the manager becomes a super admin (also one that stands in    *)
(* no open chain), the boss stops being one; the submitter becomes one.        *)
MCHandover ==
  {[user |-> mgr, profile |-> Person("manager", TRUE, TRUE)],
   [user |-> boss, profile |-> Person("manager", FALSE, TRUE)]}
MCSubmitterPromotion == {[user |-> emp, profile |-> Person("member", TRUE, TRUE)]}
MCLeadOnly == {lead}
MCLeadAndManager == {lead, mgr}
=============================================================================
