# Verification of halgate

TLA+ modules, TLC runs and TLAPS proofs about halgate, the terminal harness in
which a language model proposes security-assessment actions and a local
operator approves them. Source paths below are relative to `src/halgate/`.

* [1. The system](#1-the-system): components, state, interaction, hard behaviour
* [2. Modules](#2-modules): what each one models and how it corresponds to the code
* [3. Runs](#3-runs): what TLC checks, with which bounds and fairness
* [4. Proofs](#4-proofs): what TLAPS proves and along which argument
* [5. Findings](#5-findings): where the code and its documents disagree
* [6. Not modelled](#6-not-modelled) and [7. Plan](#7-plan)

Every property and theorem is stated in words above its definition.
`PROJECT.json` maps each definition to the lines it models and lists, for each
hazard, the properties that would catch it.

To check: `tlc -config Dispatch.cfg MCDispatch`, and so on for each pair of
section 3; `tlapm DispatchProofs.tla`, and so on for each module of section 4.

## 1. The system

halgate is one asyncio process. Between two `await`s a coroutine runs alone;
everything interesting happens because several coroutines (tool calls of one
model response, pane tasks of the interface, callback listeners, dialog
callbacks) interleave at their awaits, because any of them can be cancelled or
raise, and because what is on disk outlives the process. That gives the
modelling rule of every module: **an action is all a coroutine does from one
await to the next.**

| Component | State | Operations | Hard behaviour | What makes it correct |
|---|---|---|---|---|
| Budget ledger (`budget.py`) | limits, taken, reserved per engagement and kind | reserve, settle, release, account, update_limits, replace | reservations outlive dialogs, settings and sessions | no grant beyond the limit; every reserved unit belongs to a call; what ran is counted |
| Dispatch (`dispatch.py`) | semaphore, one coroutine per call | authorize, reserve, approve, dry-run, execute, redact, settle | cancellation and exceptions between any two steps, stale reads across awaits | handlers start only when authorized, approved, paid for and unlocked; reservations are closed; batches end |
| Approvals (`tui.py`, `_approve_tool`) | rules, decision lock and its queue, dialog, badge | ask, approve, approve all, deny, clear | decisions of a batch race; a rule must die with its session and fit the call it approves | one dialog; a rule approves only what the operator granted; the badge shows the rules |
| Panes and panic (`process.py`, `safety.py`) | pane table, stop flag | spawn, kill, kill_all, panic, resume | check-then-await on the pane limit; panic racing a spawn; restored sessions | panic and a switch leave no process; an exit code means a dead process; one spawn at a time keeps the limit |
| Agent loop (`halgate.py`, `run`) | transcript, retry counters | model request, dispatch, compaction, stop | cancelled turns, stale cuts, termination | exchanges stay whole, nothing is forgotten, every turn ends |
| Progress controller (`progress.py`) | fingerprints, counters | before_next_batch, record_batch | must stop loops, must not stop progress | a new result never ends a turn |
| Context builder (`context_builder.py`) | none | build | keeps the tool protocol in the projection | every result has its call and every call its results |
| Audit log (`audit/logger.py`) | sequence, last hash, generations on disk | log, rotate, reopen, verify | rotation, torn lines and replaced loggers | one unbroken hash chain; payloads match entries |
| Saved sessions (`sessions/checkpoint.py`, `tui.py`, `cli.py`) | three files per session, the list on the screen | save, load, list, delete, resume | a death between two files; a second process on the directory; a write that raises; a row deleted under the cursor | the messages and engagements saved completely and left alone come back as they were saved |
| Memory (`memory/store.py`) | shards, tombstones | remember, recall, forget, edit, pin | several instances append without a lock; crashes between two lines | reading changes nothing, an edit loses nothing |
| Keystore, redactor, crypto (`memory/keystore.py`, `guardrails/redactor.py`, `crypto.py`) | key file, archive, cached root, encrypted store, dialogs | store, reveal, unlock, create, replace, backup, restore | lock across awaits, a worker thread beside the loop, cached keys after a file swap, failures between archive and replacement | what was stored can be opened; a text passes on only with its secrets stored |
| Callback listeners (`tools/callback_endpoint.py`) | endpoints, captures, servers | request, capture, expire, read, close | last capture racing expiry; reads racing captures | a listener closes after the confirmations it was approved for, over tcp when it is full |
| Scope gate (`scope.py`, `guardrails/shell_guard.py`) | engagements, tool choices | authorize, check_* | names, links and settings change between a check and the act | contacts and files stay inside the target |
| Web sessions and signing (`tools/http_session.py`, `auth_session.py`, `jwt_sign.py`) | cookie jars, token slots | request, extract, inject, sign | answers out of order, parallel use of a fresh token, session switches | a token goes to one origin, a cookie back where it came from, and none that expired |
| Evidence, tracker, configuration, LLM client, other tools, command line, widgets | files, counters, widgets | I/O, rendering, parsing | mostly I/O | |

How they interact:

* `Halgate.run` sends the transcript, projected by `ContextBuilder.build`, to
  the model, and hands the calls of the answer to `dispatch_parallel`, which
  runs them under a semaphore; their results go back into the transcript and
  the `ProgressController` decides whether the turn goes on.
* Each call passes the stop flag, the scope gate, the budget ledger, the
  approver (a dialog) and dry-run mode before its handler, and the redactor and
  the audit log after it. Pane handlers use the `ProcessManager`.
* The registry authorizes a call again before its handler, and handlers with a
  target (http, websocket, probes, files, signing) look at the engagement, the
  resolved address or the path once more before they act;
  `http_session` and `auth_session` wrap `http`; whatever stores or reveals a
  secret goes through the keystore and may ask the operator for the phrase.
* `restore_session` replaces, under all of them, the engagements, ledger,
  transcript, process manager and audit logger. Calls in flight keep
  references to what was replaced, which is the source of most hazards.
* The interface starts one prompt task at a time. A prompt and the slash
  commands that switch sessions, add engagements, compact or panic are refused
  while it is busy (`tui.py:3160-3174`). Settings dialogs, Escape (which
  cancels the task) and pane tasks are not.

## 2. Modules

| Module | Models | Composition |
|---|---|---|
| `Budget` | `BudgetManager` and who holds its reservations | abstract specification `BudgetSpec`; pieces used by `Dispatch` |
| `Dispatch` | `dispatch_parallel`, `run_one`, the operator around them | EXTENDS `Budget`, implements `BudgetSpec` (`LedgerSpec`) |
| `Scope` | `ScopeGate`, the shell guard, paths and links | pure operators over the state of the world |
| `Approvals` | `_approve_tool` and a call from gate to contact | EXTENDS `Scope` |
| `Panes` | `ProcessManager`, `SafetyController`, manager swap on restore | alone |
| `AuditChain` | `AuditLogger`, logger swap on restore | alone |
| `Memory` | `MemoryStore` of several instances | alone |
| `Keystore` | `KeyStore`, `Redactor`, `NativeCrypto`, key commands and key dialogs of several processes | alone |
| `SavedSessions` | what saved sessions promise | abstract specification |
| `Sessions` | `SessionCheckpoint` and its callers in several processes | implements `SavedSessions` through an INSTANCE with a refinement mapping (`KeepsPromise`) |
| `WebSessions` | cookies and tokens of `http_session`, `auth_session`, `jwt_sign` | alone |
| `Callback` | callback listeners, their connections and reads | alone |
| `Progress` | `ProgressController` | operators used by `AgentLoop` |
| `AgentLoop` | `Halgate.run`, `compact`, `ContextBuilder.build`, checkpoint and restore | EXTENDS `Progress` |
| `…Proofs` | theorems and proofs | EXTEND their module and `TLAPS`; `DispatchProofs` holds those of `Budget` and `Dispatch`, `ToolsProofs` those of `Panes`, `Callback` and `WebSessions` |
| `MC…` | small instances for TLC | EXTEND their module |

`Panes`, `Callback` and `WebSessions` share nothing but stand in one module of
proofs: what would have the same name in two of them has a prefix there
(`CallbackNext`, `WebSpec`).

Definitions with a suffix (`Less_Unclamped`, `Deny_NoRelease`) stand before the
definition they vary: each is that code with a plausible mistake, and a
property is kept only if such a mistake makes TLC refute it.

**Budget.** `registered`, `off` and `limit` are `_engagements` and the override
fields of the `Engagement` objects; `taken`, `reserved` and `opened` are the
`BudgetState`s, `opened` telling which have been created. `held` has no
counterpart in the manager: it is the set of `BudgetReservation` objects in the
locals of the calls. A call to `try_reserve`, `release`, `settle`, `account`,
`register`, `update_limits`, `replace_engagements` is an action each; none of
them awaits.

**Dispatch.** `pc[c]` is the await a call is in: `queued` (semaphore),
`approving` (the approver), `executing` (the handler), `redacting` (the audit
of the result) or one of the results of `run_one`. One `Admit…` action per
outcome of lines 81-193, one per outcome of the approval (143-193; an edited
command is bound, checked and authorized again), `Finish` and `Complete` for
184-217. A call in `Left` has ended with the reservation it had: `Escape` is an
exception of the approver or of an audit write after it, `AdmitFails` one of an
audit write between reservation and approval, plan or handler (`unaudited` when
the write of line 127 fails and the one of 136 succeeds, so that the caller
gets an error result), `RefusalFails` that of a refusal, which holds nothing;
`CancelPrompt` cancels. `bstate` is what the awaiter of `gather` sees: an exception
ends the batch for its awaiter while the siblings go on (orphans). The
operator's actions are the handlers of the interface that change what calls
read: `SetDryRun`, `SaveBudget`, `SetStatus`, `AddEngagement`, `SwitchSession`,
`Panic`, `ResumeActions`, `CancelPrompt`. The slash commands among them ask for
`CommandLineFree`; the dialogs do not. (The interface also stacks dialogs, so
that some interleavings of a settings and an approval dialog that the model
allows cannot happen at the screen: the properties hold for more than is
possible.)

**Panes.** A spawn is two actions around `create_subprocess_exec`: the check of
the limit, and the entry in the table of the manager the spawn was made
through. `sig` and `code` are the signal a process was sent and the exit code
the pane shows; reader (`Reap`), `kill` with its two stages and `kill_all` set
them. `KillCancelled` is Escape during one of the two waits of `kill`. `mgr` numbers the managers; the safety controller keeps number 0.

**AuditChain.** A log is three generations of lines. `Log` is a whole write
(rotation if the file is full, payload, line, counters), `LogFails` a write
that fails before or within the line, after the payload. `Restore` is
`restore_session` as far as it touches logs: a last entry in the old log, a new
logger that reads where the chain stands, a first entry. `RestoreRaises` is one
that gets no further than the new session id (the evidence store, the
checkpoint directory, a scratch directory or the logger itself cannot be made),
`RestoreUnannounced` one whose first entry cannot be written. Old loggers
remain and may write.

**Memory.** An operation reads tombstones, then shards, decides, and appends
its lines one by one (`AppendLine`, `AddTombstones`); the other instances run
in between and any instance may `Crash`. The two loops of a read are recursive
functions: `Latest` keeps of each fact the newest line that no tombstone hides
(`Updated` is one turn of its loop), the collapse of near-duplicates goes over
what is left in file order. Similarity (symmetric, not transitive), confidence
and length are constants. One subject is modelled, in which the text of a fact
is its id.

**AgentLoop and Progress.** `messages` holds prompts, answers, tool exchanges
and summaries with just the identity of what they tell. `pc` is the await of
the prompt task; the steps between are `Submit`, `Answer`, `AnswerEmpty`,
`CallTools`, `Fault` (endpoint faults: retry, compact or give up), `Awake`
(after the back-off), `CollectResults`, `CheckpointFails` (a due checkpoint
raises after the results were appended), `DispatchRaises`, `Summarized`,
`SummaryFails`. `Proceed` is the head of the loop (clock, batch limit,
compaction, request). `turn` is the locals of `run` with the controller in it,
`cut` those of `compact`. `Build` is the projection of `ContextBuilder`, in
which exchanges of pane polls without output and panes are left out by design.
`learned` is a history of what the live transcript was told, so that
`NothingForgotten` compares the next request with all of the past.

**Callback.** `status` to `captured` are the fields of an endpoint's entry,
`peer` the handler task of a connection (`reading`, then `closing`, the await
of `wait_closed` after which the status is checked again), `read` the locals of
`read_callback_endpoint` while it polls. `Finish`, `StoreCapture` and
`StillWaits` are the functions and the loop condition of the same meaning. A
record is reduced to whether it matched and whether its peer was answered.

**Scope.** A call is a record of what the gate reads out of its arguments. A
path is the sequence of its components and `Resolve` walks it through the links
of `world` as `pathlib` does; names resolve to sets of addresses; `CheckUrl`,
`CheckPath`, `CheckScan`, `CheckShell`, `CheckJwtSign` and the guard are the
methods of these names, `Authorized` is `authorize_tool`. What the regular
expressions of a command line find (URLs, addresses, blocks, operands, paths)
is given with the command, and so is what they miss: hosts written otherwise
(`unread`) and relative paths (`files`). A scan has the hosts that its
`scan_type` may name, a grep or a glob the files of its walk. `Hosts`,
`UnreadHosts`, `CheckedPlaces` and `UncheckedPlaces` say what a call reaches,
independently of the checks. `WithinTerritory` compares the first and the third
with the target and lists what nobody looks at: unread hosts, the files of a
grep, the relative files of a command, the configured directory of a pane, and
text that a source tree around the working directory takes for a path
(`TakenForPaths`). Nothing is assumed of the working directory.

**Approvals.** `pc` is the await of a call: `asking` (the decision lock),
`dialog`, `resolving`, `connecting`. `Submit` is everything up to the first of
them; `Begin` is the registry, which authorizes again, and the handler up to
its first await, with what it checks itself (`CallAuthorized`, `Rechecked`). `lock` is the FIFO queue of the asyncio lock, `Acquire` the
double check behind it. `Exact` is `_exact_action_target`. The actions of the
operator clear or keep rules as the handlers of the interface do, and
`WorldChanges` is the world outside (names, links, missing directories). A
dialog's answer and the start of the handler it releases are one step.
`ApproveTarget` makes the rule, records it and draws the badge; when the record
raises, the call fails with the rule in force and `undrawn`. `RestoreFails` is a
restore that raises before or after it has replaced the engagements: the rules
stay, and the exception leaves a message handler of Textual, which ends the
interface; `closing` is the time until the last orphan is gone with it.

**Keystore.** A process has one cached root (`cache`), one lock and at most one
key action under way (`act`: create, fill, keep the archive, copy); each file
operation of `archive_and_replace`, `initialize` and `restore` is a step at
which it may fail or the process may die. A job redacts a text with several
secrets: unlock, lock, then a worker `thread` that finds, encrypts and appends
beside the loop. `screen` is the stack of modals; a question of a job waits for
its answer there. Roots are numbered; an envelope holds one. A command is a
process with one job of its own; the failure of a creation that rolls back what
another process put at the path is recorded in `raced`.

**Sessions.** `saving` counts the truncations and writes of a save, two per
file; the saver does not await, so its own process does nothing else, but it
may die and others on the same directory run in between. A file is absent,
torn, emptied or complete (`born` is the creation time the next save keeps).
`view` and `post` are the list on the screen and the messages it has posted and
the application has not handled. The refinement mapping reads a session as
settled from the end of a save nobody overlapped until the next write,
deletion or death in one, and maps the three files of a settled session to the
contents it had. `restore_session` installs a process manager without panes
(`Restored`): a restore from a dialog of the interface keeps the saved panes in
`replay`, and `Replay` (the task `_restore_panes`) starts them again one by one,
in whatever session is live by then; the prompt and `--resume` drop them.
`WriteFails` is a save that raises in a file and a process that goes on or ends.
A `restore_session` that raises ends the interface, unsaved; in the prompt it
ends the loop, whose last checkpoint may store the new messages in the old
directory (the third disjunct of `PromptResume`). That the metadata written
there then names the other session, so that a list offers one under the id of
the other, is not modelled.

**WebSessions.** A request is three steps: up to the name resolution (cookies
and token are read and a fresh token is bound to the origin here), sending, and
the answer, which may come in any order (`Answer`, `KeepCookies`,
`KeepToken`). Signing waits for the operator's phrase between reading the
claims and storing the token. The tables are keyed by engagement and outlive a
restored session. A token is the act that made it; its text, headers and the
path by which it is found are left out.

## 3. Runs

Eleven runs check properties, one shows where documents and code disagree
(section 5). States are distinct states. A property whose name ends in `Inv` is
the conjunction of the named parts under it, the type invariant of its module
among them; `DecisionsInTurn` includes that of `Approvals`. Every safety
property of these runs is also a theorem (section 4).

| Run | Instance | States | Shows |
|---|---|---|---|
| `dispatch` | 3 calls in a prompt and a pane batch over one slot, limits 1-2, cancel, exceptions before and after the reservation, panic, dry run, changed limits | 267,962 | reservations of returned calls are closed and counted exactly; actions under way and completed are paid for; a stopped session and a dry run start nothing; dispatch implements the ledger; batches and orphans end |
| `dispatch_switch` | 3 calls, 2 engagements with 2 and 1 slots, byte charges, one session switch, added and paused engagements | 3,594,939 | stale reservations never leave a unit nobody holds; handlers start only for active engagements of the live session |
| `panes` | 2 panes, one deaf to SIGTERM, limit 1, two restores | 78,950 | exit code means dead; panic and switch leave only processes that were being created; the limit holds without overlap; a kill that is not cancelled ends; capacity returns |
| `audit_chain` | 2 sessions, 3 loggers, 6 attempts to write, restores that raise | 1,036,073 | the chain breaks only by the three named events; only the oldest generation is lost; payloads match |
| `memory` | 2 instances, 3 texts of which 2 are similar to the third, 4 operations | 972,062 | recall changes no fact; an edit loses none, crashes included; no fact is left out without one tied to it that is shown; no other fact is touched |
| `callback` | 1 listener of any protocol, 1 confirmation, 2 captures in all, 3 callbacks, 2 reads | 418,498 | no more is confirmed than was approved, no more kept than the cap, and one that completed is at either, over tcp at the cap; a read that says the listener ended is final; answered callbacks are kept while it listens; it ends |
| `agent_loop` | up to 3 prompts and batches, batches of 1 and 2 calls, 3 kinds of results | 267,586 | exchanges stay whole; nothing is forgotten without a summary; a new result keeps the turn; turns end |
| `sessions` | an interface and a prompt, 2 sessions, 2 saves, 2 starts, 1 change, writes and restores that raise | 296,183 | the files implement saved sessions; damage has a cause; the cursor stays on a row |
| `keystore` | an interface with a prompt and a pane, a command beside it, 2 secrets, 2 keys, a failure or death anywhere | 2,829,509 | no stored secret loses its envelope; a text passes on only with its secrets stored; the lock is never left behind; acknowledgements are of the key in use |
| `approvals` | 3 calls, engagements of the 3 kinds, some fifty requests, a process started inside the source tree, 2 changes, records and restores that raise | 3,734,236 | one dialog; rules are what the operator granted, die with the session and mean one host; files and contacts stay inside the target whatever changes meanwhile, but for what nobody looks at |
| `websessions` | 2 calls at once, 4 in all, 2 engagements, 2 origins | 1,994,452 | tokens and cookies stay at home; no expired or withdrawn cookie is sent |
| `doc_panic_restored` | 2 panes, limit 2, one restore | 174 | section 5 |

**Why the bounds are enough.** In `dispatch` a hazard needs a call that holds
the slot or a unit, one that waits for it, one of another batch and one event
between: a prompt batch of two calls over one slot, a pane call, and limits of
1 and 2 give all of these. Two slots are in `dispatch_switch`, and any number
in the proofs. Two batches suffice because batches share only the ledger, the
settings and the stop flag. One switch makes a reservation stale; a second makes
it no staler. Panes: two, one of them deaf, with a limit below their number:
one can be created while the other runs, and they meet only in the limit and in
`kill_all`; what the run says of an instant is proved for any number. Audit: three loggers are an old, a replaced and a live one,
and as any write may be the one that fills the file, six writes rotate often
enough to drop a generation. Memory: two instances with two operations each
cover read-read-write-write; three texts in a
chain give a duplicate, a near-duplicate and two that are alike only across the
third (all three are held at once in the run). Sessions: two processes on two sessions, of which each
can save one and delete the other. Two saves begun are enough for two processes
to save one session at a time (a prompt can resume it as soon as the first file
is written), for damage that is left, and for a second save that repairs it. Keystore: two roots are an old and a new key, two
jobs share the lock, a second process runs one command, one process dies.
Approvals: one engagement of each kind of target, a call that tries every
request of a list made to touch each rule of the gate, and each of its gaps, on
both sides, two calls that wait for the same dialog, and two changes, so that a
change can be undone by another. Web sessions: two origins and engagements make every wrong
destination visible; two calls under way at once, with four in all, let a
second round meet what the first one stored. Callback: listeners share nothing,
so one is enough, and two connections beside the last capture are more than a
limit of one lets in. Agent loop: the limits are small (3 batches, 2 stalled, 1
repeated, 2 unchanged polls) so that each is reached within three prompts and
batches; one saved session, because the session only says which checkpoint is
written.

Counters that only grow are bounded in the guards by constants whose comment
begins with "bound": `MaxSessions`, `MaxRestores`, `MaxEntries`, `MaxLoggers`,
`MaxOps`, `MaxId`, `NumSessions`, `MaxChanges`, `MaxWork`, `MaxSaves`,
`MaxStarts`, `MaxRoots`, `MaxJobs`, `MaxCommands`, `MaxDeaths`, `MaxBegun`,
`MaxTime`, and `MaxMeasure` for the bytes of one charge. `FewMessages`
(`MCSessions`) is a state constraint: one message of a modal waits at a time.
Where bounds are used up the system may stop, as it also does when it is idle
and the operator does nothing: the configurations switch deadlock checking off.
`Panes` never stops and is checked for deadlock.

**Fairness.** `Dispatch`: each call's next step is weakly fair, because the
event loop runs every ready callback, handlers have timeouts, and the operator
answers a dialog that covers the screen; `Return` likewise. Events (cancel,
panic, settings, exceptions) are never fair. `Panes`: tasks run; a process that
cannot refuse the signal it got dies; nothing makes a process end by itself.
`Callback`: the event
loop's timer fires, connections are read under timeouts, polling reads run.
`AgentLoop`: the endpoint client and dispatch have timeouts, so an await ends,
and the clock advances. `TurnEnds` needs the clock: see section 5. The other
modules state safety only: a question to the operator may stay unanswered for
ever, and their other awaits end by timeouts. That no task waits on another for
ever is a state property there (`HolderWakes`, and `TypeOK` of `Approvals`).

**Refinement.** `KeepsPromise` says that `Sessions` implements
`SavedSessions`: three files, deaths and a second process behave like one cell
per session that is settled, unsettled or empty. Without the unsettled state it
would be false, and `DamageHasACause` says when it is entered. What comes back
of a settled session is its engagements and messages. Panes do not: they are at
best offered, to be started again, and the next checkpoint stores the panes
that run by then, so that one taken early, or after `--resume`, drops the rest.

`LedgerSpec` in `dispatch` is the property that dispatch, with
all its early returns and events, is an implementation of `BudgetSpec`: in
every step its effect on the ledger is one of the manager's operations by a
call entitled to it, and nothing else touches the ledger. The variables have
the same names, so the refinement mapping is the identity.

## 4. Proofs

Checked by TLAPS for every value of the constants that satisfies the named
assumptions of the modules (`BudgetAssumption`, `DispatchAssumption`,
`LimitsAssumption`, `BoundsAssumption`, `PanesAssumption`, `CallbackAssumption`,
`WebAssumption`, `AuditAssumption`, `MemoryAssumption`, `SessionsAssumption`,
`KeystoreAssumption`, `ScopeAssumption`, `ApprovalsAssumption`), without the
bounds of the runs. These assumptions say what kind of thing a constant is, and
no theorem has a further hypothesis: an exception to a promise stands in the
property itself, under its name.

| Theorem | Statement |
|---|---|
| `BudgetTypeCorrect` | `BudgetSpec => []BudgetTypeOK` |
| `ReservedBacked` | every reserved unit is held by a call that can give it back |
| `ReservedExact` | without session switches the counter is exactly the number of units held |
| `HardDeny` | `BudgetSpec => GrantWithinLimit`: no step counts an amount beyond the limit in force |
| `DispatchIsLedger` | `Spec => LedgerSpec` of dispatch: every step maps to a ledger step or a stutter |
| `HoldersAreInFlight` | no early return of a call keeps a reservation, no call holds two |
| `EveryExecutionCharged` | `Spec => []ExecutionsCharged`: actions under way and completed never outnumber the units counted |
| `LockedStartsNothing` | `Spec => EntryUnlocked`: a stopped session starts no handler |
| `OnlyAuthorizedStart` | `Spec => EntryAuthorized`: handlers start authorized and, where it applies, approved |
| `DispatchWithinLimit` | the hard deny of `HardDeny`, of the calls of any batches |
| `AgentLoopTypeCorrect` | `Spec => []TypeOK` of the agent loop: at every await the turn's counters are below their limits, and a cut is pending exactly while a summary is awaited |
| `NewResultGoesOn` | `Spec => NewResultKeepsTurn`: loop detection never ends a turn in the step that brought a new result |
| `DispatchTypeCorrect` | `Spec => []DispatchTypeOK` of dispatch |
| `PlannedStartsNothing` | `Spec => EntryNotPlanned`: within one session no handler starts while its engagement plans only |
| `PanesTypeCorrect`, `ExitCodeMeansDead` | `Spec => []TypeOK` and `[]ExitedIsDead` of the panes |
| `NothingLeft` | `Spec => []NothingLeftRunning`: panic and restores leave no running pane untold but those in the making |
| `LimitKept` | `Spec => []LimitWithoutOverlap`: spawns that do not overlap keep the limit |
| `CredentialsAtHome` | `Spec => []WebInv` of the web sessions: types, and the next two together |
| `TokensAtHome` | `Spec => []TokensStayHome`: a token leaves towards one origin, from the slot it was stored in |
| `CookiesAtHome`, `CookiesAreGood` | a cookie goes back where it came from; none that expired or was withdrawn is sent |
| `CapturesAreBounded` | `[]CapturesBounded`: no listener keeps more matches than were approved or more records than the cap, it has ended when it has that many, and one over tcp knows only the cap |
| `FinalReadHolds` | `[]FinalReadIsFinal`: what is read of a listener that has ended is its last word |
| `CallbackCorrect` | `[]CallbackInv`: types, timers, and every answered callback kept while it listens |
| `AuditLogCorrect` | `Spec => []AuditInv`: the live logger writes the live session's log unless the last restore raised before making it; payloads are those their entries refer to |
| `ChainHolds` | `Spec => []ChainVerifies`: the surviving generations of a log are one chain, but for the three named events |
| `OnlyOldestGoes` | `Spec => OnlyOldestIsLost`: a step loses at most the oldest generation and the end of a torn line |
| `ExchangesHold` | `Spec => []ExchangesInOnePiece`, in the transcript and in every checkpoint |
| `NothingIsForgotten` | `Spec => []NothingForgotten`: all that was said is in the next request or under a summary in it |
| `SessionsHold` | `Spec => []SessionsInv`: types, the cause of every damage, the row under the cursor |
| `FilesKeepThePromise` | `Spec => KeepsPromise`: the files implement `SavedSessions`: what was saved completely comes back, less its panes, which are offered or lost |
| `ListingIsSorted` | a list shows as many rows as fit, each a session that parses, newest first, none twice |
| `NothingIsLost` | `Spec => []NothingLost`: each stored line can be opened with an envelope on disk |
| `InterfaceAsksInDialogs` | `Spec => []NoTerminalPrompt`, but for a key that changes under a worker thread |
| `RedactionStoresItsSecrets` | `Spec => []RedactionIsComplete`: a text passes on only with its secrets stored, each once |
| `LockIsNeverLeftBehind` | `Spec => [](TypeOK /\ HolderWakes)` of the keystore: who holds the lock is woken or has its question on the screen |
| `KeystoreIsSound` | `Spec => []KeystoreInv`: the above and that the phrase of the key in use was acknowledged, unless another interface has made a key |
| `ApprovalsCorrect`, `DecisionsTakeTurns` | `Spec => []DecisionsInTurn`: types, one dialog, the lock queues just the calls being decided on |
| `RulesHold` | `Spec => []RulesAsGranted`: a rule in force was granted in this session, unless a failed restore is ending it, is shown, unless its record failed, and means one host that is read as one |
| `AdmittedAreInside` | `Spec => AdmittedStayInside`: what the gate admits stays inside the target wherever the gate looks, and within its ports when it names any |
| `ContactsAreInside` | `Spec => ContactInScope`: so does what a call contacts later, whatever has changed |
| `DatesHold` | `Spec => []TypeOK` of the memory: lines with one date are copies of each other |
| `MemoryHolds` | `Spec => []MemoryInv`: whatever the collapse leaves out, a fact tied to it is shown, a pinned one for a pinned one |
| `EditsLoseNothing` | `Spec => EditLosesNothing`, crashes included |
| `KnowledgeHolds` | `Spec => KnowledgeIsDeliberate`: reading changes no fact, a write only what it names, and what is shown of clear duplicates depends on them alone |

*Budget.* Exactness is not inductive by itself: releasing subtracts from a
counter that is clamped at zero, so one has to know that the counter is no
smaller than what is held, that what is held is a finite set, and that a state
which was never opened has nothing counted. `LedgerInv` is the conjunction of
these with the type invariant. The lemmas `BackingAfterReserve` and
`BackingAfterDrop` say how the cardinality of the units behind a counter moves;
each action then preserves `LedgerInv` by cases. `HardDeny` follows from the
invariant and, per action, the guard of `CanReserve`, or the neutrality of
`Settle` (a unit moves from reserved to taken).

*Dispatch.* `CallInv` is what a call step relies on besides the ledger: a call
in its slot is bound to an engagement that exists, a batch not submitted has no
call under way, no approval dialog is open in a stopped session, and
`HoldersInFlight`. The last two answer what the code does not check: a call
that comes back from the dialog does not look at the lock again
(`dispatch.py:144-193`); it need not, because panic is refused while the dialog
is open. The second makes `TryReserve` a legal ledger step: a call that leaves
the queue holds nothing. With `CallInv` each step is a step of `BudgetNext` or
leaves the ledger alone (`StepIsLedgerStep`), so `LedgerInv` is an invariant of
dispatch too, and `DispatchInv`, both together, is inductive.

`EveryExecutionCharged` splits the calls that ran under a key in those that
hold their unit, no more than the units behind the `reserved` counter by the
injection `call -> reservation`, and those that have settled it (`Settled`).
`ChargeInv` says that the latter are no more than `taken`. The step that needs
all of it is `Complete`: the settled key must still be open in its state, which
follows from exactness, because a unit is held under it. `Deny` and a dry run
may give the unit back unpaid only because such a call has not run.

*Agent loop.* The type invariant claims that a turn that goes on has reached
none of its limits. `Shape` strengthens it with what each `pc` knows about
`turn` and `cut`. `RecordedBelowLimits` says that a batch that does not end the
turn leaves every counter below its limit, `NewResultIsNoLoop` that a batch
with an unseen result ends no turn by itself; both are statements about
`Progress` alone. `ShapeStep` goes through the actions.

*Dispatch, types.* Two more theorems rest on types alone. `PlannedStartsNothing`: without a
switch the session a call was admitted in is the live one, so that the settings
it asks are those the dialog edits. `DispatchTypeCorrect`: the size of a
semaphore is the smallest of arbitrarily many limits; that it exists
(`LeastNumber`) follows, without induction, from the well-foundedness of the
intervals `0..n` under inclusion.

*Panes.* `PanesInv` adds to the type invariant that a process being created
while everything is stopped, or while its manager is replaced, is recorded
(`Accounted`, which unlike the properties covers `starting`), and that no pane
belongs to a manager to come. `KillAllEffect` says what a `kill_all` does to
one pane. The limit needs one more: `LimitInv` counts also the process being
created; a spawn that starts alone finds what is counted to be
`active_count()`, every other step can only count fewer, and a new manager
starts with none.

*Web sessions.* `TokenInv` says where the text of a token can be: in one slot,
in the requests that took it from there, in the history of what was sent.
Before a first use it is bound nowhere and in no request; `AuthSession` reads
and binds in one step, so that two parallel calls cannot both find it unbound.
`CookieInv` ties each cookie in a jar or a request to the jar it was set for.

*Callback.* The bounds of a listener are inductive with the types once it is
known that a listener not provisioned yet has no record and no connection
(`Unprovisioned`) and that no tcp record matches (`NoTcpMatch`). The work is in counting: the matching records of a log with
one more are one more or as many, by the cardinality of the set of their
places.

*Agent loop, exchanges.* `Ordered` says of a transcript that each result stands
in a complete block of results right behind its calls; the cut that `compact`
takes falls between such blocks (`SafeEndIsSafe`), and so do a summary, a
checkpoint and a restore. `Tells` is what one message contributes to the next
request. `Remembered` says that this adds up to what was learned: between
batches (`Settled`), while a cut is pending, which still fits the transcript
when the summary arrives because the busy interface lets nothing shorten it,
and during a batch (`Open`), whose exchange is still to come.
`BuildTellsAll` and `BuildTellsNoMore` are about `Build` alone.

*Audit log.* All writes are one relation between the lines before and after:
`Grown`, a generation less at the front, a line or a spoiled line more at the
end. `Kempt` is what holds of one log and the loggers on it (payloads stored,
no torn line without the event, numbers rising and unique, hashes linked, each
current logger at the end), and `LogInv` that it holds of every log. A write
of any logger and the opening of a log keep it, case by case for the three
events that break a part of it; a chain is a prefix of a grown chain for
`OnlyOldestGoes`.

*Approvals.* `Handlers` is about the calls: one under way has its arguments,
one that connects has checked its addresses, one that acted or was approved by
a rule is past its decision. `Decisions` is about the operator: the lock's
queue is without repetition, its members are the calls that ask, and a dialog is
only open for the first. What a cancellation leaves of the queue, and the count
of ports, are recursions over a sequence; the lemma `Induction` states
induction for a set of numbers, which needs no operator as a parameter, and
`Recursion` gives with it the value of such a function at every place. The
theorems about contacts follow the gate's checks through names, links and
changes between them: hosts (`AuthorizedHostsAreOwned`) and places
(`AuthorizedPlacesAreOwned`) apart, since a call may have some that are checked
and some that are not. The badge is part of the rules that may be shown
(`Shown`) and all of it unless a record failed; that both hold is kept by every
clearing, because rules, badge and `undrawn` are reset together.

*Sessions.* What a save has closed is as it wrote it (`Written`), a save that
met no other is alone (`Alone`), a session is settled only when none is
under way or the last one was alone (`Underway`), and one whose save stopped
halfway, by a death or a write that raised, is noted in `hurt`. From these follow the cause
of damage and, action by action, that a step of the files is a step of
`SavedSessions` or none. A list is sorted because the rank of a session, the
number of sessions before it, tells its row.

*Keystore.* `Kept` says that a root which an entry has, or which a thread is
about to give one, is in an envelope on disk or was deleted by a restore; it
holds within each multi-step replacement because the archive is written before
the path is touched. `Unlocked`, `Unstored` and `Noted` follow a worker thread
from the lock to its line, `Stacked` the dialogs over a key that is being made.
`Acknowledged`, that an onboarding without a question had the phrase
acknowledged, holds for any number of interfaces and commands as long as no
other interface has made a key (`makers`, a history variable): two interfaces
may share a key file, and when one makes or replaces the key, the other goes
on with its own `_key_ready`. TLC finds that within a few steps when `Tui` has
two processes and the case is not excepted.

*Memory.* A read is three recursions: the lines of the shards, the newest line
of each fact, the collapse. `ListsNewest`, `TiedTo` and `StandsFor` say what the
last two return for every sequence of lines; `FactsAreNewest` that the facts
depend only on the set of lines as long as dates are distinct. That is why
recall, which repeats lines of the files, changes none. Similarity, the overlap
of words, is symmetric and not transitive, and nothing more is assumed of it.
So a fact can be left out for one that is not similar to it. What holds of
every similarity: a chain of similar facts, all of them in the store, ties it
to one that is shown and ranks no lower (`TiedTo`), which is `StandIns`; and
among facts that are all similar to each other and to no others (`Clump`) the
best is shown, whatever the order of the lines (`BestIsRead`), which is
`ShownFollowsFacts`. `StoreInv` says, over the files and what instances are
about to append: one date is one line; the lines to come of a recall are
copies, those of a write name its own or a similar text; and the new line of an
edit is in the files, younger than any tombstone for it, before the old text is
buried.

*Only model-checked:* liveness (`BatchesEnd`, `SignalledEnd`, `ListenerEnds`,
`TurnEnds`), which is out of the prover's reach. The counterexample of
`doc_panic_restored` is a run by nature.

## 5. Findings

With a run of its own, a counterexample to what the repository says:

| Run | Document | Code |
|---|---|---|
| `doc_panic_restored` | `safety.py:16` panic terminates every pane | the controller keeps the process manager of the start-up; after a restore panic reaches no pane of the live session |

Seen while modelling, allowed by the models, and worth knowing. Where a
document says otherwise it is quoted.

*Loop, dispatch, panes, memory, audit*

* `audit/logger.py:165` says that the chain continues over a rotation. A log
  reopened between a rotation and the next entry starts again at 1;
  `ChainVerifies` names this case.
* `memory/store.py:207-208` says that a stated correction supersedes. A
  correction with the text of the fact it corrects buries itself.
* `context_builder.py:1` promises a protocol-correct context. A cancelled or
  raised batch leaves calls without results in every later request.
* "Denials, cancellations, and errors release the reservation; completed actions
  settle it" (`budget.py:4-5`). Denials do, and completed actions are settled.
  Cancellations and errors do not release: a handler that raises is settled like
  one that returns (`dispatch.py:193-217`); a call that is cancelled in the
  approval dialog or in its handler, and one that an exception takes out of
  `run_one` (`dispatch.py:127-205`), keep their unit reserved for the session;
  and when the record of the reservation cannot be written, its own error result
  is returned with the reservation kept (`dispatch.py:127-139`).
  `HoldersInFlight` names these calls as the only holders that are not in
  flight, so it tells such a leak from one by a denial, a plan or a completion
  and does not exclude it; `ExecutionsCharged` claims of completed and running
  actions what the comment says, and nothing of those that raised or were
  cancelled.
* `max_requests` is described as "Confirmations to capture before the listener
  closes" (`tools/callback_endpoint.py:71`), and the operator is told that "the
  listener tears itself down after the captured confirmations or when it
  expires" (559-561). Records of a tcp listener have no field `matched`, so the
  approved number never ends it (193): only 50 captures, the timer or a closing
  read do, and a waiting read sleeps its whole time. `TcpIsOnlyCapped` in
  `CapturesBounded` says so. A read that waits
  after a first confirmation returns at once (line 658). Listeners of a session
  that is left go on listening and log into the new session's log
  (`restore_session` knows nothing of them).
* An exception out of one call ends the prompt's `gather` while its siblings
  still run and ask for approval (`BatchesEnd` shows that they do end).
* Panic and restore miss a process that is just being created (`racing`), and
  after panic a pane that ignores SIGTERM stays alive until it is killed.
* `pane_kill` and `/kill` wait up to five seconds for a SIGTERM to work
  (`process.py:110`) in a task the operator can cancel. Then no SIGKILL follows:
  a process that ignores SIGTERM runs on, listed and counted, until it is killed
  again. `SignalledEnd` names this case.
* Parallel spawns exceed `max_panes`: the check precedes an await.
* A logger that was replaced and still writes forks the chain of its session.
* `restore_session` says it switches "atomically" (`halgate.py:461`). Seven
  statements separate the new session id (490) from the new logger (496), and
  five of them can raise. What runs after that, were it only the checkpoint on
  the way out, is logged under the new session id into the log of the old
  session: `stranded` in `LoggerFollowsSession`.
* `remember` writes tombstones before the line; a crash between loses both.
* Similarity is not transitive. Of facts a, b, c with b similar to both others,
  which of them is shown depends on the order of the shards, so that a recall,
  which appends copies to the shard of its own instance, can change it; editing
  a fact into b can hide a behind c, which is not similar to it. `StandIns` and
  `Clear` are stated for this; without `Clear` TLC refutes `ShownFollowsFacts`
  in the instance of the run. A hidden
  near-duplicate comes back when the fact that hid it is forgotten, also beyond
  `max_entries`.
* A context limit on a transcript of three messages compacts it to three
  messages: only the clock ends that loop of requests and summaries.
* A batch with more than `max_repeated_tool_calls` identical calls that all
  meet the same transient fault twice ends the turn, although
  `progress.py:118` calls such failures retryable.
* A settings dialog saved during a batch checkpoints a torn exchange.

*Saved sessions and keys*

* A resumed session begins without panes, and only the dialogs of the interface
  start the saved ones again; what is checkpointed before, or after `--resume`
  and `/resume`, has lost them. The task that starts them goes on when another
  session is restored meanwhile.
* A switch of sessions does not save the session that is left. Deleting the
  live session makes every later checkpoint fail, that of `/quit` included.
  A session whose file does not parse, or that `restore_session` raises on,
  ends the interface, unsaved, when it is resumed from the list; `--latest` is the newest created, not the last saved.
* The orderly shutdown kills panes before the checkpoint is written.
* `key restore <the key file itself> --replace` deletes the key. The roll-back
  of a failed replacement unlinks whatever is at the path, also a key another
  process has put there; `initialize` leaves a partial file when it fails.
* A process keeps its cached root after another one replaced the key file, and
  while a root is cached every phrase unlocks. `keystore.py:64-68` says that
  the terminal is never asked for a phrase by the store of an interface: it is,
  from a worker thread, when the key is replaced meanwhile (`NoTerminalPrompt`
  names the case).
* Escape on the dialog that shows the recovery phrase leaves the key in use
  although nobody acknowledged the phrase.
* `OnboardingModal._key_ready` (`tui.py:1262-1312`) is not checked against the
  key file again: when another interface replaces the key meanwhile, the
  engagement starts without the warning on a key whose phrase may have been
  dismissed (`AcknowledgedKey` names the case).

*Scope, approvals, web sessions*

* The registry asks the gate again before every handler (`CallAuthorized`), so
  that no check is as old as an approval dialog. What changes during the awaits
  of a handler is looked at again only in part: a multipart upload follows and
  opens its file after the name resolution (`ContactInScope` names the case),
  and programs that are run resolve names themselves.
* "This is a second, stricter check on top of ScopeGate. CIDRs, multiple targets,
  and commands with no identifiable network target cannot inherit an approval
  intended for one host" (`tui.py:189-191`). The extractors take dotted names and
  IPv4 addresses for hosts, so `nmap localhost 192.0.2.1` counts as one
  (`tui.py:224`) and a rule approves it; the gate does not look at the other
  either. `UnreadHosts` in `RuleMeansOneHost` and `WithinTerritory` says so.
  "Unparseable tokens are not a failure (the allowlist is the primary control)",
  says `scope.py:312-313`; an empty allowlist allows every program but those
  that are never run.
* "The operator has explicitly approved each target" (`scan.py:66`), but
  `scan_type` is checked by nobody and becomes an argument of nmap as it is (47,
  70), also when it names targets of its own.
* A scan without ports is authorized as one port and run over 1-1024 (65), more
  than the 1000 that `scan_max_ports` allows by default (`scope.py:44`).
* A path target that contains the working directory of the process takes any
  address for a file of that directory (`scope.py:178`), so that a scan or a
  command may name it: `TakenForPaths`.
* `glob` asks the gate about every file it finds (`glob.py:56`), `grep` about none
  (`grep.py:58-82`): it reads what `rglob` gives, through links that lead outside.
  A pane of a network engagement without a directory starts in that of the
  configuration (`process.py:53`), which is not checked. Relative paths of a
  command are not checked at all. `UncheckedPlaces` lists the three.
* The rule of "approve all" is made before it is recorded and shown
  (`tui.py:2557-2563`). When the record raises, the call that asked fails and
  the rule approves the next ones without being on the badge (`undrawn`).
* `restore_session` may raise after it has replaced the engagements
  (`halgate.py:488-495`); the statement that clears the rules (`tui.py:3033`) is
  then not reached. The exception ends the interface, and until then an orphan
  may be approved by a rule of the session that was left: `closing`.
* An upload without a method is authorized as GET and sent as POST; the working
  directory of a pane is relative to the process, not to the scratch directory.
* A call left over from a session may set a rule for an engagement that is not
  in the live one; the badge then shows an unknown target.
* A token found at the path `$` is stored although the call reports that it was
  not (`auth_session.py:97-107`); reuse is reported although the caller's own
  header replaced the token; a first use binds a token also when the request
  then fails.
* A late answer may bring back a cookie another answer withdrew, or replace a
  newer token. A signed token may be stored for an engagement that is not
  active any more, and both tables survive a restored session.

## 6. Not modelled

`PROJECT.json` lists every component with its status and reason. In short:

* regular expressions that find hosts, paths and secrets in text, the wording
  of audit records and plans, parsing of HTTP, DNS and streamed answers,
  ciphers and key derivation: conversions without state of their own;
* the handlers of file and data tools beyond what they may touch, which are one
  step of `Dispatch` that takes time and may charge, fail or raise;
* evidence, findings and inventory (written without an await between reading
  and writing, by one process), the token tracker (display), configuration
  (parsed once at the start, its values are CONSTANTS);
* buffers of panes and the note of the model about them: reader and consumers
  assign them whole between awaits;
* widgets, layout and key bindings. The actions of the interface are those
  handlers that change the state of a modelled component;
* restarts of the process in `AuditChain`: logs are kept per instance id, which
  is made of the process, so that a restarted program begins new logs. In
  `Memory`, `Sessions` and `Keystore`, whose files are shared and outlive the
  process, deaths and restarts are steps;
* liveness of `Approvals`, `Keystore` and `Sessions` (the operator may never
  answer; the graphs are large).

## 7. Plan

Done, in this order, most important behaviour first: `Budget`, `Dispatch` with
its refinement, `Panes`, `AuditChain`, `Memory`, `Progress`, `AgentLoop`,
`Callback`, `SavedSessions` and `Sessions` with their refinement, `Keystore`,
`Scope` and `Approvals`, `WebSessions`; the proofs of all of them.

What would come next:

1. Pane tabs of the interface: which pane a key press or a line of input goes
   to while panes end and sessions switch.
2. Memory with several subjects.
3. Two interfaces on one key file: what the second should be told.
