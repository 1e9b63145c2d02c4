---------------------------- MODULE SavedSessions ----------------------------
(***************************************************************************)
(* What saved sessions promise, without their files: a session that was    *)
(* saved completely and left alone comes back as it was saved, except for  *)
(* its panes, which are at best offered.  Module Sessions implements this  *)
(* with three files per session.                                           *)
(***************************************************************************)
CONSTANTS
    Instances,  \* halgate processes that share one sessions directory
    Sids,       \* session ids
    NoSid,      \* the id of no session
    Contents,   \* what a session can consist of, with its panes in a field
    Blank       \* the content of a session that just began

VARIABLES
    saved,  \* what is stored under an id, and whether it can be relied on
    held    \* the session each process works in, and the panes it is offered

svars == <<saved, held>>

Nothing == [st |-> "nothing", c |-> Blank]
Unsettled == [st |-> "unsettled", c |-> Blank]
Settled(c) == [st |-> "settled", c |-> c]
Nobody == [s |-> NoSid, c |-> Blank, offer |-> {}]

\* What a resume brings back of content c.
Back(c) == [c EXCEPT !.panes = Blank.panes]

SavedTypeOK ==
    /\ saved \in [Sids -> {Nothing, Unsettled} \cup {Settled(c) : c \in Contents}]
    /\ held \in [Instances -> {Nobody} \cup [s : Sids, c : Contents, offer : SUBSET {c.panes : c \in Contents}]]

Init ==
    /\ saved = [s \in Sids |-> Nothing]
    /\ held = [i \in Instances |-> Nobody]

Begin(i, s) ==
    /\ held[i] = Nobody
    /\ saved[s] = Nothing
    /\ held' = [held EXCEPT ![i] = [s |-> s, c |-> Blank, offer |-> {}]]
    /\ UNCHANGED saved

Work(i, c) ==
    /\ held[i] # Nobody
    /\ held' = [held EXCEPT ![i].c = c]
    /\ UNCHANGED saved

\* Panes that were offered are started again, in whatever session this is now.
StartOffered(i, c) ==
    /\ held[i].offer # {}
    /\ [c EXCEPT !.panes = held[i].c.panes] = held[i].c
    /\ \E rest \in SUBSET held[i].offer :
        held' = [held EXCEPT ![i].c = c, ![i].offer = rest]
    /\ UNCHANGED saved

\* A save begins, of what the process holds by then.
Unsettle(i, c) ==
    /\ held[i] # Nobody
    /\ saved' = [saved EXCEPT ![held[i].s] = Unsettled]
    /\ held' = [held EXCEPT ![i].c = c]

\* A save ends: what the process holds is stored.  With it the process may end.
Settle(i) ==
    /\ held[i] # Nobody
    /\ saved[held[i].s] = Unsettled
    /\ saved' = [saved EXCEPT ![held[i].s] = Settled(held[i].c)]
    /\ held' \in {held, [held EXCEPT ![i] = Nobody]}

Forget(s) ==
    /\ saved' = [saved EXCEPT ![s] = Nothing]
    /\ UNCHANGED held

\* Only a settled session comes back for certain as it was, less its panes.
\* Those may be offered, beside what is still on offer from an earlier resume.
Resume(i, s, c, o) ==
    /\ saved[s] # Nothing
    /\ saved[s].st = "settled" => c = Back(saved[s].c) /\ o \subseteq {saved[s].c.panes}
    /\ held' = [held EXCEPT ![i] = [s |-> s, c |-> c, offer |-> @.offer \cup o]]
    /\ UNCHANGED saved

\* The process ends, at worst in the middle of a change to one session.
Leave(i) ==
    /\ held' = [held EXCEPT ![i] = Nobody]
    /\ saved' \in {saved} \cup {[saved EXCEPT ![s] = Unsettled] : s \in Sids}

Next ==
    \/ \E i \in Instances :
        \/ \E c \in Contents : Work(i, c)
        \/ Settle(i)
        \/ Leave(i)
        \/ \E s \in Sids : Begin(i, s)
        \/ \E c \in Contents : StartOffered(i, c) \/ Unsettle(i, c)
        \/ \E s \in Sids, c \in Contents, o \in SUBSET {k.panes : k \in Contents} :
            Resume(i, s, c, o)
    \/ \E s \in Sids : Forget(s)

Spec == Init /\ [][Next]_svars
=============================================================================
