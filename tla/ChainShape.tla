----------------------------- MODULE ChainShape -----------------------------
(***************************************************************************)
(* What the approval cycle asks of an approval chain, and the derivation of  *)
(* chains delivers: the one thing ApprovalFlow and ApprovalChain share.       *)
(***************************************************************************)
EXTENDS Integers, FiniteSets

CONSTANT User   \* accounts

(* Level 0 is the submitter, every other level is somebody else at a stage    *)
(* >= 1, nobody is there twice, and the stages above 0 are contiguous.        *)
IsChain(c, submitter) ==
  LET n == Cardinality(DOMAIN c) - 1 IN
    /\ n \in Nat
    /\ c \in [0..n -> [stage : Nat, userId : User]]
    /\ c[0] = [stage |-> 0, userId |-> submitter]
    /\ \A l \in 1..n : c[l].stage \in 1..n /\ c[l].userId # submitter
    /\ \A k, l \in 1..n : c[k].userId = c[l].userId => k = l
    /\ \A l \in 1..n : \A s \in 1..c[l].stage : \E k \in 1..n : c[k].stage = s
=============================================================================
