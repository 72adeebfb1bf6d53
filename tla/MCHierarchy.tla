---------------------------- MODULE MCHierarchy ----------------------------
(* Instances of Hierarchy: three people below or beside a super admin, two of    *)
(* the requests at a time.                                                    *)
EXTENDS Hierarchy, TLC

CONSTANTS ann, bob, cat, one, two

MCPeople == {ann, bob, cat}
MCSlots == {one, two}

Org(tier1, operations) == [tier1 |-> tier1, operations |-> operations]

(* Every operation in a team of equals; all but sync below or beside a super admin. *)
MCUses == {Org({}, Operation)}
  \cup {Org({boss}, Operation \ {"syncFromManagerId"}) : boss \in MCPeople}

MCSymmetry == Permutations(MCPeople) \cup Permutations(MCSlots)
=============================================================================
