----------------------------- MODULE MCReminder -----------------------------
(* Instances of Reminder: one reminder before the due date, one recurring. *)
EXTENDS Reminder

CONSTANTS offset, interval, ann, r1, r2

MCBoth == {offset, interval}
MCOffset == {offset}
MCInterval == {interval}
MCUser == {ann}
MCReplicas == {r1, r2}
=============================================================================
