------------------------------- MODULE MCMemory -------------------------------
(* TLC instances of the memory store: a and c are near-duplicates of b but not
   of each other, as texts are that each share a part with b. *)
EXTENDS Memory

CONSTANTS a, b, c

MCNear == {a, b} \X {a, b} \cup {b, c} \X {b, c}
MCLength == [t \in Texts |-> IF t = b THEN 2 ELSE 1]
MCConfidence == [s \in Sources |-> IF s = "stated" THEN 9 ELSE IF s = "scanned" THEN 7 ELSE 6]
=============================================================================
