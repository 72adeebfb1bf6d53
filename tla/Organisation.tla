---------------------------- MODULE Organisation ----------------------------
(***************************************************************************)
(* The users table and the org chart of a company while its accounts are      *)
(* deactivated and reactivated, and what the derivation of approval chains     *)
(* (ApprovalChain) promises on it, in every organisation and from one to the   *)
(* next.                                                                     *)
(***************************************************************************)
EXTENDS ApprovalChain

CONSTANT People   \* what a user may be at the start: profile and place in the chart

Person == [role : {"member", "assistant_manager", "manager", "admin"}, isSuperAdmin : BOOLEAN,
           isActive : BOOLEAN, managerId : User \cup {NoUser}, rows : Seq(User),
           primary : SUBSET User]

ASSUME PeopleAssumption == People \subseteq Person

VARIABLE org

Init == org \in [User -> People]

(* An account is deactivated or reactivated. *)
toggle(u) == org' = [org EXCEPT ![u].isActive = ~@]

Next == \E u \in User : toggle(u)

Spec == Init /\ [][Next]_org

---------------------------------------------------------------------------
Sequential(o, s) == walkManagerChain(o, s).sequentialApprovers

(* The chain is what submitForApproval persists under its unique              *)
(* (taskId, level) key: nobody stands in it twice, the submitter only at level *)
(* 0, and stages grow with the levels without gaps (deriveApprovalChain).      *)
ChainWellFormed ==
  \A s \in Active(org) :
    LET c == deriveChain(org, s) IN
      /\ c[0] = [stage |-> 0, userId |-> s]
      /\ \A k, l \in DOMAIN c : c[k].userId = c[l].userId => k = l
      /\ \A l \in DOMAIN c \ {0} : c[l].stage - c[l - 1].stage \in 0..1 /\ c[l].stage > 0

(* A climb from s: reports to reports, without coming back to anybody, within  *)
(* the depth cap, and going past nobody who is an active top-role manager.      *)
IsClimb(p, s) ==
  /\ p[1] = s
  /\ \A i \in 1..(Len(p) - 1) : p[i + 1] = findPrimaryManagerId(org, p[i])
  /\ IsInjective(p)
  /\ \A i \in 2..(Len(p) - 1) : ~(org[p[i]].isActive /\ isFinalRole(org[p[i]]))

LongestClimb == Min({MaxChainDepth + 1, Cardinality(User)})
Climbs(s) == {p \in SeqOf(User, LongestClimb) : p # <<>> /\ IsClimb(p, s)}
FullClimb(s) == CHOOSE p \in Climbs(s) : \A q \in Climbs(s) : Len(q) <= Len(p)

(* walkManagerChain against that definition: its approvers are the active      *)
(* people of the full climb, bottom up, and its anchor is who ended it.         *)
WalkFollowsLine ==
  \A s \in User :
    LET above == Tail(FullClimb(s))
        atTop(u) == org[u].isActive /\ isFinalRole(org[u])
        walk == walkManagerChain(org, s)
    IN /\ walk.sequentialApprovers
            = Without(above, {u \in User : ~org[u].isActive \/ isFinalRole(org[u])})
       /\ walk.finalAnchor = IF above # <<>> /\ atTop(Last(above)) THEN Last(above) ELSE NoUser

(* Deactivating a user takes exactly that user out of anybody's line below the *)
(* final stage; a deactivated anchor lets the line grow upward (the inactive   *)
(* branch of walkManagerChain); nobody else's place moves.                     *)
DeactivationIsLocal ==
  [][ \A u, s \in User :
        org[u].isActive /\ ~org'[u].isActive /\ s # u =>
          LET before == Sequential(org, s)
              after == Sequential(org', s)
          IN IF walkManagerChain(org, s).finalAnchor = u
             THEN IsPrefix(before, after)
             ELSE after = Without(before, {u}) ]_org
=============================================================================
