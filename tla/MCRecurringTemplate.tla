------------------------ MODULE MCRecurringTemplate ------------------------
(* Instances of RecurringTemplate: every other day for good, daily with an end,  *)
(* which the calendar outlasts, and a start that is still to come.              *)
EXTENDS RecurringTemplate

MCSparse == [days |-> {d \in Day : d % 2 = 1}, start |-> 1, end |-> Never]
MCEnding == [days |-> Day, start |-> 1, end |-> LastDay - 1]
MCLater == [days |-> Day, start |-> 2, end |-> Never]
MCSchedules == {MCSparse, MCEnding, MCLater}

=============================================================================
