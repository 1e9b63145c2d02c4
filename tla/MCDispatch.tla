------------------------------ MODULE MCDispatch ------------------------------
(* TLC instances of dispatch: a prompt batch 1..3 and one pane task, 4. *)
EXTENDS Dispatch

\* Call 4 is a pane_spawn of the interface: auto-approved, its own batch.
MCBatchOf == [c \in Calls |-> IF c = 4 THEN "pane" ELSE "prompt"]

\* Two engagements: call 2 works on e2, call 3 names none.
MCEngOf  == [c \in Calls |-> IF c = 2 THEN "e2" ELSE IF c = 3 THEN "none" ELSE "e1"]
MCEngOf3 == [c \in Calls |-> IF c = 3 THEN "none" ELSE "e1"]

MCKindOf == [c \in Calls |-> "max_actions"]

\* One tool at a time, so that calls of a batch wait for each other.
MCOneTool == [e \in Engs |-> 1]

\* e1 allows two tools at once, e2 one.
MCMaxTools == [e \in Engs |-> IF e = "e1" THEN 2 ELSE 1]
=============================================================================
