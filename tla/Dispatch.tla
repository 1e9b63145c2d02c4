------------------------------- MODULE Dispatch -------------------------------
(***************************************************************************)
(* dispatch_parallel (src/halgate/dispatch.py): the path of every tool     *)
(* call from the model, or from the interface, to its handler.             *)
(*                                                                         *)
(* A batch of calls runs under its own semaphore.  Between two awaits a    *)
(* call runs alone (one event loop), so an action is everything a call     *)
(* does from one await to the next:                                        *)
(*   queued --> approving --> executing --> redacting --> a final state    *)
(* with the early returns in between.  Operator actions (settings dialogs, *)
(* slash commands, Escape) and other batches interleave at the awaits.     *)
(* The budget ledger is module Budget, whose specification this implements.*)
(***************************************************************************)
EXTENDS Budget

CONSTANTS
    Batches,     \* dispatch_parallel invocations
    Prompts,     \* the batches of the operator's prompt; others are UI tasks
    BatchOf,     \* the batch of a call
    EngOf,       \* the engagement_id argument of a call, or NoEng
    KindOf,      \* BUDGET_KIND_BY_TOOL of the call's tool
    Asks,        \* calls whose tool is not in AUTO_APPROVE
    Shells,      \* shell calls: the operator may edit the command
    Refused,     \* calls whose arguments the scope gate rejects
    MaxTools,    \* max_concurrent_tools of the engagement's package
    NoEng,       \* no engagement_id given
    Events,      \* which operator and fault events this instance has
    MaxSessions  \* bound: session switches

ASSUME DispatchAssumption ==
    /\ Calls \subseteq Nat
    /\ Prompts \subseteq Batches
    /\ BatchOf \in [Calls -> Batches]
    /\ NoEng \notin Engs
    /\ EngOf \in [Calls -> Engs \cup {NoEng}]
    /\ KindOf \in [Calls -> ActionKinds]
    /\ Asks \subseteq Calls /\ Shells \subseteq Asks /\ Refused \subseteq Calls
    /\ MaxTools \in [Engs -> Nat \ {0}]
    /\ MaxSessions \in Nat
    /\ Switching <=> MaxSessions > 0

Sessions == 0..MaxSessions

VARIABLES
    pc,       \* where each call stands
    eng,      \* the engagement a call is bound to
    at,       \* session whose Engagement object the call was authorized with
    ran,      \* calls whose tool handler was entered
    failed,   \* calls whose handler raised
    free,     \* calls whose reservation was taken while budgets were disabled
    bstate,   \* dispatch_parallel as its awaiter sees it
    slots,    \* semaphore size of a batch
    active,   \* engagements of the live session with status active
    dry,      \* per session: engagements whose effective dry-run is on
    session,  \* the live session
    stopped   \* SafetyController._stopped

callVars == <<pc, eng, at, ran, failed, free, bstate, slots>>
operatorVars == <<active, dry, session, stopped>>
vars == <<callVars, operatorVars, ledger>>

InSlot == {"approving", "executing", "redacting"}
\* How a call ends without giving its reservation back: by an exception, by
\* cancellation, or with the error of an audit record that was not written.
Left   == {"raised", "cancelled", "unaudited"}
Final  == {"refused", "exhausted", "denied", "planned", "done"} \cup Left
PCs    == {"idle", "queued"} \cup InSlot \cup Final

DispatchTypeOK ==
    /\ BudgetTypeOK
    /\ pc \in [Calls -> PCs]
    /\ eng \in [Calls -> Engs \cup {NoEng}]
    /\ at \in [Calls -> Sessions]
    /\ ran \subseteq Calls /\ failed \subseteq Calls /\ free \subseteq Calls
    /\ bstate \in [Batches -> {"idle", "running", "returned", "raised", "cancelled"}]
    /\ slots \in [Batches -> Nat]
    /\ active \subseteq Engs
    /\ dry \in [Sessions -> SUBSET Engs]
    /\ session \in Sessions
    /\ stopped \in BOOLEAN

Of(b)   == {c \in Calls : BatchOf[c] = b}
Busy_KeepsRaised(b) == {c \in Of(b) : pc[c] \in InSlot \cup {"raised"}}
Busy(b) == {c \in Of(b) : pc[c] \in InSlot}
-----------------------------------------------------------------------------
(* Guards and shared parts *)

\* The strictest active package, or 4 when no engagement is active.
SlotsNow ==
    IF active = {} THEN 4
    ELSE CHOOSE n \in {MaxTools[e] : e \in active} :
            \A e \in active : n <= MaxTools[e]

Authorized_AnyStatus(c, e) == e \in registered /\ c \notin Refused

\* ScopeGate.authorize: a known, active engagement, arguments within scope.
Authorized(c, e) == e \in active /\ c \notin Refused

\* A call without engagement_id is bound to the only active engagement.
Bind(c) ==
    IF EngOf[c] = NoEng /\ \E e \in active : active = {e}
    THEN CHOOSE e \in active : TRUE
    ELSE EngOf[c]

Key(c) == <<eng[c], KindOf[c]>>

\* The call is at the head of the semaphore's queue and a slot is free.
Turn(c) ==
    /\ pc[c] = "queued"
    /\ \A d \in Of(BatchOf[c]) : pc[d] = "queued" => c <= d
    /\ Cardinality(Busy(BatchOf[c])) < slots[BatchOf[c]]

Goto(c, where) == pc' = [pc EXCEPT ![c] = where]

\* An exception leaves run_one: gather hands it to the awaiter at once; the
\* sibling calls keep running with nobody to read their results.
RaiseIn(b) == bstate' = IF bstate[b] = "running"
                        THEN [bstate EXCEPT ![b] = "raised"] ELSE bstate

\* The slash command line is busy while a prompt runs, and covered while an
\* approval dialog is open.
CommandLineFree ==
    /\ \A b \in Prompts : bstate[b] # "running"
    /\ \A c \in Calls : pc[c] # "approving"
-----------------------------------------------------------------------------
(* The life of a call *)

\* dispatch_parallel(calls): sizes the semaphore and starts one task per call.
\* run() refuses a new batch while the session is stopped and runs one
\* prompt at a time; a UI pane task has no such check.
Submit(b) ==
    /\ bstate[b] = "idle"
    /\ b \in Prompts => /\ ~stopped
                        /\ \A p \in Prompts : bstate[p] # "running"
    /\ bstate' = [bstate EXCEPT ![b] = "running"]
    /\ slots' = [slots EXCEPT ![b] = SlotsNow]
    /\ pc' = [c \in Calls |-> IF c \in Of(b) THEN "queued" ELSE pc[c]]
    /\ UNCHANGED <<eng, at, ran, failed, free, operatorVars, ledger>>

AdmitStopped(c) ==
    /\ Turn(c)
    /\ stopped
    /\ Goto(c, "raised")
    /\ RaiseIn(BatchOf[c])
    /\ UNCHANGED <<eng, at, ran, failed, free, slots, operatorVars, ledger>>

AdmitRefused(c) ==
    /\ Turn(c)
    /\ ~stopped
    /\ ~Authorized(c, Bind(c))
    /\ Goto(c, "refused")
    /\ eng' = [eng EXCEPT ![c] = Bind(c)]
    /\ UNCHANGED <<at, ran, failed, free, bstate, slots, operatorVars, ledger>>

AdmitExhausted(c) ==
    /\ Turn(c)
    /\ ~stopped
    /\ Authorized(c, Bind(c))
    /\ ~CanReserve(<<Bind(c), KindOf[c]>>, 1)
    /\ Goto(c, "exhausted")
    /\ eng' = [eng EXCEPT ![c] = Bind(c)]
    /\ UNCHANGED <<at, ran, failed, free, bstate, slots, operatorVars, ledger>>

Admitted_IgnoresStop(c) ==
    /\ Turn(c)
    /\ Authorized(c, Bind(c))
    /\ CanReserve(<<Bind(c), KindOf[c]>>, 1)
    /\ eng' = [eng EXCEPT ![c] = Bind(c)]
    /\ at' = [at EXCEPT ![c] = session]
    /\ free' = IF Bind(c) \in off THEN free \cup {c} ELSE free

\* Past the stop check, the scope gate and the budget.
Admitted(c) ==
    /\ Turn(c)
    /\ ~stopped
    /\ Authorized(c, Bind(c))
    /\ CanReserve(<<Bind(c), KindOf[c]>>, 1)
    /\ eng' = [eng EXCEPT ![c] = Bind(c)]
    /\ at' = [at EXCEPT ![c] = session]
    /\ free' = IF Bind(c) \in off THEN free \cup {c} ELSE free

AdmitToApproval(c) ==
    /\ c \in Asks
    /\ Admitted(c)
    /\ TryReserve(c, <<Bind(c), KindOf[c]>>)
    /\ Goto(c, "approving")
    /\ UNCHANGED <<ran, failed, bstate, slots, operatorVars>>

\* An auto-approved tool reaches the dry-run check in the same step.
AdmitToPlan(c) ==
    /\ c \notin Asks
    /\ Admitted(c)
    /\ Bind(c) \in dry[session]
    /\ ReserveAndRelease(<<Bind(c), KindOf[c]>>)
    /\ Goto(c, "planned")
    /\ UNCHANGED <<ran, failed, bstate, slots, operatorVars>>

AdmitToHandler_NoBudget(c) ==
    /\ c \notin Asks
    /\ Admitted(c)
    /\ Bind(c) \notin dry[session]
    /\ held' = held \cup {[call |-> c, key |-> <<Bind(c), KindOf[c]>>, amount |-> 1]}
    /\ UNCHANGED <<registered, off, limit, opened, taken, reserved>>
    /\ Goto(c, "executing")
    /\ ran' = ran \cup {c}
    /\ UNCHANGED <<failed, bstate, slots, operatorVars>>

AdmitToHandler(c) ==
    /\ c \notin Asks
    /\ Admitted(c)
    /\ Bind(c) \notin dry[session]
    /\ TryReserve(c, <<Bind(c), KindOf[c]>>)
    /\ Goto(c, "executing")
    /\ ran' = ran \cup {c}
    /\ UNCHANGED <<failed, bstate, slots, operatorVars>>

\* The operator denies, or edits a shell command into one the gate rejects.
Deny_NoRelease(c) ==
    /\ pc[c] = "approving"
    /\ Goto(c, "denied")
    /\ UNCHANGED <<eng, at, ran, failed, free, bstate, slots, operatorVars, ledger>>

Deny(c) ==
    /\ pc[c] = "approving"
    /\ \E r \in held : r.call = c /\ Release(r)
    /\ Goto(c, "denied")
    /\ UNCHANGED <<eng, at, ran, failed, free, bstate, slots, operatorVars>>

\* Approved, possibly with an edited command, which is authorized again and
\* brings the live Engagement object; otherwise the one seen at admission is
\* asked for dry-run mode.
Approved(c, edited) ==
    /\ pc[c] = "approving"
    /\ edited => c \in Shells /\ Authorized(c, eng[c])
    /\ at' = IF edited THEN [at EXCEPT ![c] = session] ELSE at

ApproveToPlan(c, edited) ==
    /\ Approved(c, edited)
    /\ eng[c] \in dry[at'[c]]
    /\ \E r \in held : r.call = c /\ Release(r)
    /\ Goto(c, "planned")
    /\ UNCHANGED <<eng, ran, failed, free, bstate, slots, operatorVars>>

ApproveToHandler_StaleDryRun(c, edited) ==
    /\ Approved(c, edited)
    /\ Authorized(c, eng[c])
    /\ Goto(c, "executing")
    /\ ran' = ran \cup {c}
    /\ UNCHANGED <<eng, failed, free, bstate, slots, operatorVars, ledger>>

\* call_authorized asks the gate once more: the handler runs only if the
\* engagement is still active; if not, the call ends with an error result.
ApproveToHandler(c, edited) ==
    /\ Approved(c, edited)
    /\ eng[c] \notin dry[at'[c]]
    /\ IF Authorized(c, eng[c])
       THEN Goto(c, "executing") /\ ran' = ran \cup {c}
       ELSE Goto(c, "redacting") /\ UNCHANGED ran
    /\ UNCHANGED <<eng, failed, free, bstate, slots, operatorVars, ledger>>

\* A handler charges transferred bytes while it runs.
Measure(c) ==
    /\ pc[c] = "executing"
    /\ \E k \in ByteKinds, n \in 1..MaxMeasure : Account(<<eng[c], k>>, n)
    /\ UNCHANGED <<callVars, operatorVars>>

\* The handler returns, or raises: its error becomes the result.
Finish(c, ok) ==
    /\ pc[c] = "executing"
    /\ Goto(c, "redacting")
    /\ failed' = IF ok THEN failed ELSE failed \cup {c}
    /\ UNCHANGED <<eng, at, ran, free, bstate, slots, operatorVars, ledger>>

Complete_Releases(c) ==
    /\ pc[c] = "redacting"
    /\ \E r \in held : r.call = c /\ Release(r)
    /\ Goto(c, "done")
    /\ UNCHANGED <<eng, at, ran, failed, free, bstate, slots, operatorVars>>

\* Redacted and audited; the reservation is settled, error result or not.
Complete(c) ==
    /\ pc[c] = "redacting"
    /\ \E r \in held : r.call = c /\ Settle(r)
    /\ Goto(c, "done")
    /\ UNCHANGED <<eng, at, ran, failed, free, bstate, slots, operatorVars>>

\* The approver, or an audit write, raises: the exception leaves run_one with
\* the reservation still taken.
Escape(c) ==
    /\ pc[c] \in {"approving", "redacting"}
    /\ Goto(c, "raised")
    /\ RaiseIn(BatchOf[c])
    /\ UNCHANGED <<eng, at, ran, failed, free, slots, operatorVars, ledger>>

\* The audit write of a refusal raises before anything is reserved.
RefusalFails(c) ==
    /\ Turn(c)
    /\ ~stopped
    /\ \/ ~Authorized(c, Bind(c))
       \/ ~CanReserve(<<Bind(c), KindOf[c]>>, 1)
    /\ Goto(c, "raised")
    /\ RaiseIn(BatchOf[c])
    /\ eng' = [eng EXCEPT ![c] = Bind(c)]
    /\ UNCHANGED <<at, ran, failed, free, slots, operatorVars, ledger>>

\* An audit write between the reservation and the approval, the plan or the
\* handler raises.  The record of the reservation itself is written inside a
\* handler of every exception: the call ends with an error result if writing
\* that error succeeds, and its reservation stays.
AdmitFails(c, caught) ==
    /\ Admitted(c)
    /\ TryReserve(c, <<Bind(c), KindOf[c]>>)
    /\ IF caught
       THEN Goto(c, "unaudited") /\ UNCHANGED bstate
       ELSE Goto(c, "raised") /\ RaiseIn(BatchOf[c])
    /\ UNCHANGED <<ran, failed, slots, operatorVars>>

\* gather has every result.
Return(b) ==
    /\ bstate[b] = "running"
    /\ \A c \in Of(b) : pc[c] \in Final
    /\ bstate' = [bstate EXCEPT ![b] = "returned"]
    /\ UNCHANGED <<pc, eng, at, ran, failed, free, slots, operatorVars, ledger>>

\* Escape twice: the prompt task is cancelled, and gather cancels every call
\* that has not finished, wherever it is waiting.
CancelPrompt(b) ==
    /\ "cancel" \in Events
    /\ b \in Prompts
    /\ bstate[b] = "running"
    /\ bstate' = [bstate EXCEPT ![b] = "cancelled"]
    /\ pc' = [c \in Calls |-> IF c \in Of(b) /\ pc[c] \notin Final
                              THEN "cancelled" ELSE pc[c]]
    /\ UNCHANGED <<eng, at, ran, failed, free, slots, operatorVars, ledger>>
-----------------------------------------------------------------------------
(* The operator *)

Panic ==
    /\ "panic" \in Events
    /\ CommandLineFree
    /\ stopped' = TRUE
    /\ UNCHANGED <<callVars, active, dry, session, ledger>>

ResumeActions ==
    /\ CommandLineFree
    /\ stopped
    /\ stopped' = FALSE
    /\ UNCHANGED <<callVars, active, dry, session, ledger>>

SetStatus(e) ==
    /\ "pause" \in Events
    /\ CommandLineFree
    /\ e \in registered
    /\ active' = IF e \in active THEN active \ {e} ELSE active \cup {e}
    /\ UNCHANGED <<callVars, dry, session, stopped, ledger>>

\* The safety dialog: writes the override of the live Engagement object.
SetDryRun(e) ==
    /\ "dry" \in Events
    /\ e \in registered
    /\ dry' = [dry EXCEPT ![session] = IF e \in @ THEN @ \ {e} ELSE @ \cup {e}]
    /\ UNCHANGED <<callVars, active, session, stopped, ledger>>

SaveBudget(e, disable, choice) ==
    /\ "limits" \in Events
    /\ UpdateLimits(e, disable, choice)
    /\ UNCHANGED <<callVars, operatorVars>>

AddEngagement(e) ==
    /\ "add" \in Events
    /\ CommandLineFree
    /\ Register(e)
    /\ active' = active \cup {e}
    /\ UNCHANGED <<callVars, dry, session, stopped>>

\* restore_session: engagement objects, their status and settings, and the
\* budget states are replaced under the calls still in flight: those of the
\* pane tasks and the siblings of a call that raised.
SwitchSession(es, on, disabled, planned, limits) ==
    /\ CommandLineFree
    /\ session < MaxSessions
    /\ session' = session + 1
    /\ active' = on
    /\ dry' = [dry EXCEPT ![session + 1] = planned]
    /\ ReplaceEngagements(es, disabled, limits)
    /\ UNCHANGED <<callVars, stopped>>
-----------------------------------------------------------------------------
Init ==
    /\ BudgetInit
    /\ off = {}
    /\ pc = [c \in Calls |-> "idle"]
    /\ eng = EngOf
    /\ at = [c \in Calls |-> 0]
    /\ ran = {} /\ failed = {} /\ free = {}
    /\ bstate = [b \in Batches |-> "idle"]
    /\ slots = [b \in Batches |-> 0]
    /\ active \in SUBSET registered
    /\ dry \in [Sessions -> SUBSET Engs]
    /\ \A n \in Sessions : n > 0 => dry[n] = {}
    /\ dry[0] \subseteq registered
    /\ session = 0
    /\ stopped = FALSE

\* The exceptions that code before the call's first await may raise, and those
\* it may raise afterwards, have each an event of their own.
Fault(c) ==
    \/ "escape" \in Events /\ Escape(c)
    \/ "unwritten" \in Events /\ RefusalFails(c)
    \/ "unwritten" \in Events /\ \E caught \in BOOLEAN : AdmitFails(c, caught)

CallStep(c) ==
    \/ AdmitStopped(c)
    \/ AdmitRefused(c)
    \/ AdmitExhausted(c)
    \/ AdmitToApproval(c)
    \/ AdmitToPlan(c)
    \/ AdmitToHandler(c)
    \/ Deny(c)
    \/ \E edited \in BOOLEAN : ApproveToPlan(c, edited)
    \/ \E edited \in BOOLEAN : ApproveToHandler(c, edited)
    \/ \E ok \in BOOLEAN : Finish(c, ok)
    \/ Complete(c)

OperatorStep ==
    \/ Panic
    \/ ResumeActions
    \/ \E e \in Engs : SetStatus(e)
    \/ \E e \in Engs : SetDryRun(e)
    \/ \E e \in Engs, disable \in BOOLEAN, choice \in [Kinds -> LimitChoices] :
            SaveBudget(e, disable, choice)
    \/ \E e \in Engs : AddEngagement(e)
    \/ \E es \in SUBSET Engs : \E on, disabled, planned \in SUBSET es,
          limits \in [Keys -> LimitChoices] :
            SwitchSession(es, on, disabled, planned, limits)

Next ==
    \/ \E c \in Calls : CallStep(c) \/ Measure(c) \/ Fault(c)
    \/ \E b \in Batches : Submit(b) \/ Return(b) \/ CancelPrompt(b)
    \/ OperatorStep

Spec == Init /\ [][Next]_vars

\* The event loop runs every ready call, handlers have timeouts, and the
\* operator answers each approval dialog.
FairSpec ==
    /\ Spec
    /\ \A c \in Calls : WF_vars(CallStep(c))
    /\ \A b \in Batches : WF_vars(Return(b))
-----------------------------------------------------------------------------
(* Properties *)

\* The budget ledger, driven by dispatch, behaves as its own specification
\* says: a refinement with the reservations of the calls as `held'.
LedgerSpec == BudgetSpec

\* A call that was denied, planned or completed gave its reservation back or
\* settled it, and a call holds at most one, under the key it was admitted
\* with.  The calls in Left keep theirs, cancelled and raised ones included,
\* although budget.py:4-5 says "Denials, cancellations, and errors release the
\* reservation": they are the only ones.
HoldersInFlight ==
    /\ \A r \in held :
        /\ pc[r.call] \in InSlot \cup Left
        /\ r.key = Key(r.call)
    /\ \A r, s \in held : r.call = s.call => r = s

\* "completed actions settle it" (budget.py:5): an action that runs or has
\* completed is paid for.  However calls of several batches are reserved,
\* denied, cancelled, failed and settled, the actions under way and completed
\* under a key never outnumber the units the ledger counts for it, so with a
\* fixed limit no more than `limit' actions ever complete.  Nothing is claimed
\* of a handler that raised, or of one that was cancelled: the code charges
\* both, where budget.py:4-5 says that errors and cancellations are released.
Paid(c) ==
    /\ c \in ran \ (free \cup failed)
    /\ pc[c] \in {"executing", "redacting", "done"}

ExecutionsCharged ==
    ~Switching => \A key \in Keys :
        Cardinality({c \in Calls : Paid(c) /\ Key(c) = key}) <= Current(key)

\* A handler starts only for an engagement active at that instant, in scope,
\* and after the operator was asked for a tool that needs asking: a session
\* switch under pane tasks and under the orphans of a failed batch included.
EntryAuthorized ==
    [][\A c \in ran' \ ran :
          /\ eng'[c] \in active /\ c \notin Refused
          /\ c \in Asks => pc[c] = "approving"]_vars

\* A stopped session starts no handler (safety.py:16 "locks the session for new
\* actions"), although only calls still waiting for a slot check the lock.
EntryUnlocked == [][stopped => ran' = ran]_vars

\* Within one session dry-run mode is asked when the call is about to run, not
\* when it was admitted: no handler starts while its engagement plans only.
EntryNotPlanned ==
    [][~Switching => \A c \in ran' \ ran : eng'[c] \notin dry[session]]_vars

\* Every batch comes to an end for its awaiter, and every call that waits for a
\* slot for itself: no call can wait for ever, whatever its siblings do, and
\* orphans of a batch that has raised free the slots they hold.
BatchesEnd ==
    /\ \A b \in Batches : bstate[b] = "running" ~> bstate[b] # "running"
    /\ \A c \in Calls : pc[c] = "queued" ~> pc[c] \in Final

=============================================================================
