----------------------------- MODULE MCKeystore -----------------------------
(* A TLC instance: an interface with a prompt and a restored pane, and a      *)
(* command on the same key file and store.                                    *)
EXTENDS Keystore

MCOwner == [j \in {"prompt", "pane"} |-> "tui"]
MCTexts == [j \in {"prompt", "pane"} |-> IF j = "prompt" THEN {<<"s", "t">>} ELSE {<<"s">>}]
=============================================================================
