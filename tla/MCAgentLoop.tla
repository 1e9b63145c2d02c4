------------------------------ MODULE MCAgentLoop ------------------------------
(* TLC instances of the agent loop. *)
EXTENDS AgentLoop

\* A pane poll, and a poll together with a call.
MCBatches == {<<"read">>, <<"http", "read">>}
================================================================================
