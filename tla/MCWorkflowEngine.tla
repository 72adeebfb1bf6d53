-------------------------- MODULE MCWorkflowEngine --------------------------
(* Small graphs of every shape: a condition, a wait, an action behind it.       *)
EXTENDS WorkflowEngine, TLC

Edge(f, t, b) == [from |-> f, to |-> t, branch |-> b]

\* A comment, a long wait, then a message.
Reminding ==
  [kind  |-> "t" :> "trigger" @@ "a" :> "comment" @@ "w" :> "wait" @@ "m" :> "message",
   edges |-> {Edge("t", "a", "any"), Edge("a", "w", "any"), Edge("w", "m", "any")}]

\* One branch comments after a short wait, the other sends a message.
Choosing ==
  [kind  |-> "t" :> "trigger" @@ "c" :> "equals" @@ "s" :> "short" @@ "a" :> "comment"
             @@ "m" :> "message",
   edges |-> {Edge("t", "c", "any"), Edge("c", "s", "true"), Edge("s", "a", "any"),
              Edge("c", "m", "false"), Edge("m", "t", "any")}]

\* A wait whose resumption decides again and updates, beside the same update on the way round it.
Rejoining ==
  [kind  |-> "t" :> "trigger" @@ "w" :> "wait" @@ "u" :> "update" @@ "c" :> "not_equals"
             @@ "m" :> "message",
   edges |-> {Edge("t", "w", "any"), Edge("t", "u", "any"), Edge("w", "c", "any"),
              Edge("u", "c", "legacy"), Edge("c", "m", "true"), Edge("c", "u", "any")}]

MCGraphs == {Reminding, Choosing, Rejoining}
MCReminding == {[Reminding EXCEPT !.kind["m"] = "comment"]}
=============================================================================
