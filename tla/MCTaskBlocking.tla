--------------------------- MODULE MCTaskBlocking ---------------------------
(* Two requests on one task, two handlers at once. *)
EXTENDS TaskBlocking, TLC

MCSymmetry == Permutations(Requests) \cup Permutations(Lanes)
=============================================================================
