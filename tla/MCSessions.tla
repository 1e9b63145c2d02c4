----------------------------- MODULE MCSessions -----------------------------
(* A TLC instance: an interface and a prompt on one sessions directory. *)
EXTENDS Sessions

\* bound: messages of the modal that wait for their handler
FewMessages == \A i \in Instances : Len(post[i]) <= 1
=============================================================================
