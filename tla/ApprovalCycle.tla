--------------------------- MODULE ApprovalCycle ---------------------------
(***************************************************************************)
(* What the approval of a task promises, without rows, users or task       *)
(* fields: an open cycle stands at one of its stages; signing off moves it  *)
(* up, a rejection moves it down by exactly one stage or closes it, and it   *)
(* is approved only from an open cycle or, with no reviewer at all, at once.  *)
(***************************************************************************)
EXTENDS Integers

VARIABLES
  phase,   \* Task.approvalStatus
  stage,   \* the stage that decides next; last + 1 when everybody left
  last     \* the number of stages

cycleVars == <<phase, stage, last>>

CycleInit == phase = "none" /\ stage = 0 /\ last = 0

Open == phase = "pending_approval"

Submit ==
  /\ ~Open
  /\ phase' = "pending_approval"
  /\ last' \in Nat \ {0}
  /\ stage' = 1

AutoApprove ==
  /\ ~Open
  /\ phase' = "approved" /\ stage' = 0 /\ last' = 0

(* A reviewer of this stage or of a later one signs off; stages in between   *)
(* are covered, and vacant ones are passed over.                             *)
SignOff ==
  /\ Open
  /\ stage' \in (stage + 1)..last
  /\ UNCHANGED <<phase, last>>

Conclude ==
  /\ Open /\ stage <= last
  /\ phase' \in {"approved", "rejected", "changes_requested"}
  /\ stage' = 0 /\ last' = 0

SendBack ==
  /\ Open /\ stage \in 2..last
  /\ stage' = stage - 1
  /\ UNCHANGED <<phase, last>>

(* The reviewers the cycle waits for were deactivated. *)
Vacate ==
  /\ Open
  /\ stage' \in (stage + 1)..(last + 1)
  /\ UNCHANGED <<phase, last>>

CycleNext == Submit \/ AutoApprove \/ SignOff \/ Conclude \/ SendBack \/ Vacate

Spec == CycleInit /\ [][CycleNext]_cycleVars
=============================================================================
