--------------------------------- MODULE Panes ---------------------------------
(***************************************************************************)
(* Long-lived process panes (src/halgate/process.py), the panic stop       *)
(* (safety.py) and the replacement of the process manager when a saved     *)
(* session is restored (halgate.py, restore_session).                      *)
(*                                                                         *)
(* A spawn checks the pane limit, awaits the creation of the process and   *)
(* only then enters it in the table of its manager.  kill_all, panic and   *)
(* restore_session run between those two points as well as anywhere else.  *)
(***************************************************************************)
EXTENDS Naturals, FiniteSets

CONSTANTS
    Panes,       \* identities of the spawns
    Stubborn,    \* panes whose process ignores SIGTERM
    MaxPanes,    \* process.max_panes
    MaxRestores  \* bound: session restores

ASSUME PanesAssumption ==
    /\ IsFiniteSet(Panes)
    /\ Stubborn \subseteq Panes
    /\ MaxPanes \in Nat \ {0}
    /\ MaxRestores \in Nat

Managers == 0..MaxRestores

VARIABLES
    mgr,      \* the live ProcessManager
    stopped,  \* SafetyController._stopped
    proc,     \* what became of the process of each pane
    owner,    \* the manager a spawn was made through
    sig,      \* the strongest signal the process group has received
    code,     \* whether Pane.exit_code is set
    killer,   \* where a kill() of the pane stands
    racing,   \* history: spawns under way at a panic or a restore
    overlap   \* history: a spawn passed the limit while another was under way

vars == <<mgr, stopped, proc, owner, sig, code, killer, racing, overlap>>

\* In the table of its manager.
Registered(p) == proc[p] \in {"running", "dead"}

\* The type invariant: every variable has its type, and only a process that was
\* entered in a table is signalled, waited for or given an exit code.
TypeOK ==
    /\ mgr \in Managers
    /\ stopped \in BOOLEAN
    /\ proc \in [Panes -> {"idle", "refused", "starting", "failed", "running", "dead"}]
    /\ owner \in [Panes -> Managers]
    /\ sig \in [Panes -> {"none", "term", "kill"}]
    /\ code \in [Panes -> BOOLEAN]
    /\ killer \in [Panes -> {"none", "waiting", "escalated", "cancelled"}]
    /\ racing \subseteq Panes /\ overlap \in BOOLEAN
    /\ \A p \in Panes :
        sig[p] # "none" \/ code[p] \/ killer[p] # "none" => Registered(p)

Listed(g) == {p \in Panes : Registered(p) /\ owner[p] = g}

\* active_count() of a manager.
Active_CountsRunning(g) == {p \in Listed(g) : proc[p] = "running" /\ sig[p] = "none"}
Active(g) == {p \in Listed(g) : ~code[p]}

\* The manager the SafetyController was built with; restore_session gives the
\* controller the new audit log, not the new manager.
SafetyManager == 0
-----------------------------------------------------------------------------
(* Spawning *)

Starting == {p \in Panes : proc[p] = "starting"}

\* pane_spawn is auto-approved: dispatch checks the stop flag and the handler
\* the pane limit with no await in between.
Spawn_Unguarded(p) ==
    /\ proc[p] = "idle"
    /\ proc' = [proc EXCEPT ![p] = "starting"]
    /\ owner' = [owner EXCEPT ![p] = mgr]
    /\ UNCHANGED <<mgr, stopped, sig, code, killer, racing, overlap>>

Spawn(p) ==
    /\ proc[p] = "idle"
    /\ ~stopped
    /\ proc' = [proc EXCEPT ![p] =
                   IF Cardinality(Active(mgr)) >= MaxPanes THEN "refused"
                                                           ELSE "starting"]
    /\ owner' = [owner EXCEPT ![p] = mgr]
    /\ overlap' = (overlap \/ (Starting # {} /\ proc'[p] = "starting"))
    /\ UNCHANGED <<mgr, stopped, sig, code, killer, racing>>

\* create_subprocess_exec returns: the pane enters the table of the manager
\* its spawn began with.
Created(p) ==
    /\ proc[p] = "starting"
    /\ proc' = [proc EXCEPT ![p] = "running"]
    /\ UNCHANGED <<mgr, stopped, owner, sig, code, killer, racing, overlap>>

\* No such program, or the task is cancelled during the creation.
SpawnFails(p) ==
    /\ proc[p] = "starting"
    /\ proc' = [proc EXCEPT ![p] = "failed"]
    /\ UNCHANGED <<mgr, stopped, owner, sig, code, killer, racing, overlap>>
-----------------------------------------------------------------------------
(* The process and its reader task *)

MustDie(p) == sig[p] = "kill" \/ (sig[p] = "term" /\ p \notin Stubborn)

Exit(p) ==
    /\ proc[p] = "running"
    /\ proc' = [proc EXCEPT ![p] = "dead"]
    /\ UNCHANGED <<mgr, stopped, owner, sig, code, killer, racing, overlap>>

Reap_Unsignalled(p) ==
    /\ proc[p] = "dead"
    /\ ~code[p]
    /\ sig[p] = "none"
    /\ code' = [code EXCEPT ![p] = TRUE]
    /\ UNCHANGED <<mgr, stopped, proc, owner, sig, killer, racing, overlap>>

\* _reader sees the end of the output and waits for the exit code.
Reap(p) ==
    /\ proc[p] = "dead"
    /\ ~code[p]
    /\ code' = [code EXCEPT ![p] = TRUE]
    /\ UNCHANGED <<mgr, stopped, proc, owner, sig, killer, racing, overlap>>
-----------------------------------------------------------------------------
(* Killing one pane: SIGTERM, five seconds, SIGKILL.  kill() runs in the task *)
(* of the prompt or of a slash command, which the operator can cancel.        *)

Kill(p) ==
    /\ p \in Listed(mgr)
    /\ ~code[p]
    /\ killer[p] \in {"none", "cancelled"}
    /\ sig' = [sig EXCEPT ![p] = IF @ = "none" THEN "term" ELSE @]
    /\ killer' = [killer EXCEPT ![p] = "waiting"]
    /\ UNCHANGED <<mgr, stopped, proc, owner, code, racing, overlap>>

KillTimeout_GivesUp(p) ==
    /\ killer[p] = "waiting"
    /\ proc[p] = "running"
    /\ killer' = [killer EXCEPT ![p] = "none"]
    /\ code' = [code EXCEPT ![p] = TRUE]
    /\ UNCHANGED <<mgr, stopped, proc, owner, sig, racing, overlap>>

KillTimeout(p) ==
    /\ killer[p] = "waiting"
    /\ proc[p] = "running"
    /\ sig' = [sig EXCEPT ![p] = "kill"]
    /\ killer' = [killer EXCEPT ![p] = "escalated"]
    /\ UNCHANGED <<mgr, stopped, proc, owner, code, racing, overlap>>

\* Escape during one of the two waits: no SIGKILL follows, no code is set.
KillCancelled(p) ==
    /\ killer[p] \in {"waiting", "escalated"}
    /\ killer' = [killer EXCEPT ![p] = "cancelled"]
    /\ UNCHANGED <<mgr, stopped, proc, owner, sig, code, racing, overlap>>

KillReturns(p) ==
    /\ killer[p] \in {"waiting", "escalated"}
    /\ proc[p] = "dead"
    /\ code' = [code EXCEPT ![p] = TRUE]
    /\ killer' = [killer EXCEPT ![p] = "none"]
    /\ UNCHANGED <<mgr, stopped, proc, owner, sig, racing, overlap>>
-----------------------------------------------------------------------------
(* Stopping everything *)

\* kill_all of one manager: SIGTERM to every pane without an exit code, with
\* no wait and no SIGKILL; a process already gone may get its code here.
KillAll(g) ==
    /\ sig' = [p \in Panes |->
                  IF p \in Active(g) /\ proc[p] = "running" /\ sig[p] = "none"
                  THEN "term" ELSE sig[p]]
    /\ \E gone \in SUBSET {p \in Active(g) : proc[p] = "dead"} :
            code' = [p \in Panes |-> code[p] \/ p \in gone]

Panic ==
    /\ stopped' = TRUE
    /\ KillAll(SafetyManager)
    /\ racing' = racing \cup Starting
    /\ UNCHANGED <<mgr, proc, owner, killer, overlap>>

ResumeActions ==
    /\ stopped
    /\ stopped' = FALSE
    /\ UNCHANGED <<mgr, proc, owner, sig, code, killer, racing, overlap>>

\* restore_session: the old manager's panes get SIGTERM, then the manager is
\* replaced.
Restore ==
    /\ mgr < MaxRestores
    /\ KillAll(mgr)
    /\ mgr' = mgr + 1
    /\ racing' = racing \cup Starting
    /\ UNCHANGED <<stopped, proc, owner, killer, overlap>>
-----------------------------------------------------------------------------
Init ==
    /\ mgr = 0
    /\ stopped = FALSE
    /\ proc = [p \in Panes |-> "idle"]
    /\ owner = [p \in Panes |-> 0]
    /\ sig = [p \in Panes |-> "none"]
    /\ code = [p \in Panes |-> FALSE]
    /\ killer = [p \in Panes |-> "none"]
    /\ racing = {}
    /\ overlap = FALSE

PaneStep(p) ==
    \/ Spawn(p) \/ Created(p) \/ SpawnFails(p)
    \/ Exit(p) \/ Reap(p)
    \/ Kill(p) \/ KillTimeout(p) \/ KillReturns(p)
    \/ KillCancelled(p)

Next == (\E p \in Panes : PaneStep(p)) \/ Panic \/ ResumeActions \/ Restore

Spec == Init /\ [][Next]_vars

\* A process that cannot refuse its signal dies, and the tasks that wait for
\* it run; nothing forces a process to end by itself.
FairSpec ==
    /\ Spec
    /\ \A p \in Panes :
        /\ WF_vars(Created(p) \/ SpawnFails(p))
        /\ WF_vars(MustDie(p) /\ Exit(p))
        /\ WF_vars(Reap(p))
        /\ WF_vars(KillTimeout(p))
        /\ WF_vars(KillReturns(p))
-----------------------------------------------------------------------------
(* Properties *)

\* A pane reported as exited, which no longer counts against the limit and is
\* skipped by kill_all, has no running process: whichever of the reader, kill
\* and kill_all sets the exit code first.
ExitedIsDead == \A p \in Panes : code[p] => proc[p] = "dead"

\* No running pane is left unsignalled where nothing reaches it any more, or
\* where everything was stopped: a pane of a session that was left, which no
\* list, kill or panic of the live one knows, or any pane while the session of
\* the start-up is stopped; but for a process that was just being created.
NothingLeftRunning ==
    \A p \in Panes :
        /\ proc[p] = "running" /\ sig[p] = "none"
        /\ owner[p] # mgr \/ (stopped /\ mgr = SafetyManager)
        => p \in racing

\* The limit is checked before a process is created and counted after it, so
\* parallel spawns exceed it; spawns one after the other never do, however the
\* panes before them were signalled, reaped or killed.
LimitWithoutOverlap ==
    ~overlap => Cardinality({p \in Listed(mgr) : ~code[p]}) <= MaxPanes

\* kill() ends every process, also one that ignores SIGTERM, unless the operator
\* cancels it: one that is cancelled in its five seconds leaves such a process
\* running.  Any pane that cannot refuse its signal gives its place back, whoever
\* sent it, whether that kill was cancelled, and whether or not its manager is
\* still the live one.
SignalledEnd ==
    \A p \in Panes :
        /\ killer[p] = "waiting" ~> code[p] \/ killer[p] = "cancelled"
        /\ MustDie(p) ~> code[p]

(* What the documentation says and the code does not do *)

\* safety.py:16-17 "panic() atomically: locks the session for new actions,
\* terminates every pane process group": with panes of a restored session.
PanicReachesLiveSession ==
    stopped => \A p \in Panes :
        proc[p] = "running" /\ sig[p] = "none" /\ owner[p] = mgr => p \in racing
=============================================================================
