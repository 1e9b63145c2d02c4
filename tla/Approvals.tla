------------------------------- MODULE Approvals -------------------------------
(***************************************************************************)
(* Operator approval of tool calls (src/halgate/tui.py, _approve_tool) and *)
(* what becomes of a call between its authorization and its contact with   *)
(* the target: dispatch asks the scope gate, the interface asks the        *)
(* operator one dialog at a time, the registry asks the gate again, the    *)
(* handler looks at the path or the resolved name once more and then acts. *)
(*                                                                         *)
(* Names, links, engagements and tool choices change at the awaits in      *)
(* between.  Budgets, dry run and the stop flag are module Dispatch.       *)
(***************************************************************************)
EXTENDS Scope

CONSTANTS
    Calls,      \* identities of tool calls
    Asked,      \* the calls to a tool the model may make under an identity
    EngsOf,     \* the engagement arguments it may give them
    Selections,    \* selections the Tools dialog may save
    Sessions,   \* saved sessions: their engagements, and the active ones
    NoCall,     \* arguments of a call that is not under way
    Nobody,     \* neither an engagement nor a call
    MaxChanges  \* bound: changes by the operator and the outside world

Requests == UNION {Asked[c] : c \in Calls}

\* What the parsers of the arguments return.
Url == [scheme : STRING, host : Addrs \cup Names \cup {NoHost}, userinfo : BOOLEAN]
WellFormed(r) ==
    /\ r.tool \in HttpTools \cup {"websocket"} => r.url \in Url
    /\ r.tool = "tcp_probe" => r.host \in Addrs \cup Names
    /\ r.tool = "scan" => r.targets \subseteq Addrs \cup Names \cup Blocks
                          /\ r.ports \in Seq(Nat \X Nat)
    /\ r.tool \in {"shell", "pane_spawn"} =>
           /\ r.urls \subseteq Url /\ r.operands \subseteq Addrs \cup Names
           /\ r.addrs \subseteq Addrs /\ r.blocks \subseteq Blocks

ASSUME ApprovalsAssumption ==
    /\ Nobody \notin Engs \cup Calls
    /\ Asked \in [Calls -> SUBSET Requests]
    /\ \A r \in Requests : WellFormed(r)
    /\ \A e \in Engs : Package[e].maxPorts \in Nat
    /\ [tool \in {} |-> FALSE] \in Selections
    /\ EngsOf \in [Calls -> SUBSET Engs]
    /\ \A saved \in Sessions : saved.active \subseteq saved.members /\ saved.members \subseteq Engs
    /\ MaxChanges \in Nat

VARIABLES
    prompt,   \* whether a prompt of the operator runs
    own,      \* calls of the running prompt; others are orphans of a failed one
    pc,       \* where a call stands
    call,     \* its arguments
    eng,      \* its engagement
    lock,     \* _approval_decision_lock: the holder, then who waits for it
    rules,    \* _target_auto_approvals
    badge,    \* the rules shown, and whether their engagement is known
    undrawn,  \* history: a rule was made and the record of it failed
    closing,  \* a failed restore ends the interface
    granted,  \* history: rules the operator asked for in this session
    auto,     \* history: calls approved by a rule
    address,  \* the address a handler has checked and will connect to
    contact,  \* history: the call that acted last, with its arguments and
              \* engagement, its connections and its places
    changes   \* number of changes so far

ruleVars == <<rules, badge, undrawn, closing, granted>>
approvalVars == <<lock, ruleVars, auto>>
handlerVars == <<address, contact>>
vars == <<scopeVars, prompt, own, pc, call, eng, approvalVars, handlerVars, changes>>

Final == {"refused", "denied", "failed", "cancelled", "done"}
PCs == {"idle", "asking", "dialog", "resolving", "connecting"} \cup Final
Open == {c \in Calls : pc[c] = "dialog"}

\* The type invariant: every variable has its type, and the lock is held and
\* waited for by just the calls that are being decided on.
TypeOK ==
    /\ world \in Worlds
    /\ active \subseteq members /\ members \subseteq Engs
    /\ choice \in [Engs -> Selections]
    /\ {prompt, undrawn, closing} \subseteq BOOLEAN
    /\ own \subseteq Calls /\ (own # {} => prompt)
    /\ pc \in [Calls -> PCs]
    /\ eng \in [Calls -> Engs \cup {Nobody}]
    /\ rules \subseteq Engs /\ granted \subseteq Engs /\ auto \subseteq Calls
    /\ badge \subseteq Engs \X BOOLEAN
    /\ \A c \in Calls : address[c] \subseteq Addrs
    /\ \A c \in Calls : pc[c] \in {"asking", "dialog"} <=> \E i \in DOMAIN lock : lock[i] = c
    /\ changes \in 0 .. MaxChanges
-----------------------------------------------------------------------------
(* Exact targets *)

AutoApprove == {"read_file", "read_source_code", "glob", "grep", "pane_spawn"}

TargetAutoApprove == HttpTools \cup {"shell", "websocket", "tcp_probe", "scan", "jwt_sign"}

\* What a call may be aimed at, read without regard to the program it runs.
Candidates(r) ==
    CASE r.tool \in HttpTools \cup {"websocket"} -> {r.url.host}
      [] r.tool = "tcp_probe" -> {r.host}
      [] r.tool = "scan" -> r.targets
      [] r.tool = "shell" -> {url.host : url \in r.urls} \cup r.addrs \cup r.blocks
                             \cup r.operands \cup r.outputs

\* _exact_action_target: just one candidate, and no block or path.
Exact(r) ==
    /\ r.tool \in TargetAutoApprove
    /\ r.tool # "jwt_sign" =>
        /\ \E host \in Candidates(r) : Candidates(r) = {host}
        /\ Candidates(r) \cap (Blocks \cup {NoHost}) = {}
        /\ r.tool = "shell" => r.paths = {}

ByRule(r, e) == Exact(r) /\ e \in rules
-----------------------------------------------------------------------------
(* Handlers *)

\* Tools that resolve the host themselves and connect to what they checked.
Pinning == HttpTools \cup {"websocket", "tcp_probe"}

HostOf(r) == IF r.tool = "tcp_probe" THEN r.host ELSE r.url.host

\* The URL a handler has the gate check; ws and wss are checked as http.
CheckedUrl(r) == IF r.tool = "tcp_probe" THEN Plain(r.host)
                 ELSE [r.url EXCEPT !.scheme = "http"]

\* What a handler checks again before it acts.
Rechecked(r, e) ==
    CASE r.tool \in {"read_file", "grep"} -> CheckPath(e, PathOf(e, r.path))
      [] r.tool = "glob" -> /\ CheckPath(e, PathOf(e, r.path))
                            /\ \A file \in r.walk : ".." \notin ToSet(file)
      [] r.tool \in {"read_source_code", "multipart_upload"} ->
             PathWithin(Scratch[e], PathOf(e, r.path))
      [] r.tool = "pane_spawn" -> /\ Package[e].process /\ CheckShell(e, r)
                                  /\ \A arg \in r.workdir : CheckPath(e, WorkdirOf(arg))
      [] r.tool = "jwt_sign" -> CheckJwtSign(e, r)
      [] r.tool = "scan" -> /\ Package[e].scan
                            /\ Cardinality(r.targets) <= Package[e].maxTargets
                            /\ Package[e].allowlist # {} => "nmap" \in Package[e].allowlist
      [] r.tool = "shell" -> GuardAllows(e, r)
      [] OTHER -> TRUE

Acts(c, r, e, connections, places) ==
    contact' = [by |-> c, call |-> r, eng |-> e, connections |-> connections, places |-> places]

Enters(c, r, e, where) ==
    /\ pc' = [pc EXCEPT ![c] = where]
    /\ call' = [call EXCEPT ![c] = IF where \in Final THEN NoCall ELSE r]
    /\ eng' = [eng EXCEPT ![c] = IF where \in Final THEN Nobody ELSE e]

\* call_authorized: the registry asks the gate once more, then the handler
\* makes its own checks.
CallAuthorized(r, e) == Authorized(e, r) /\ Rechecked(r, e)

\* The handler of an approved call, up to its first await.
Begin(c, r, e) ==
    /\ UNCHANGED address
    /\ IF ~CallAuthorized(r, e)
       THEN Enters(c, r, e, "failed") /\ UNCHANGED contact
       ELSE IF r.tool \in Pinning
       THEN Enters(c, r, e, "resolving") /\ UNCHANGED contact
       ELSE Enters(c, r, e, "done") /\ Acts(c, r, e, Connections(r), Places(e, r))

\* The name is resolved; every address must be in scope, one is connected to.
\* The file of an upload is looked up, and opened, only now.
Resolved(c) ==
    LET found == Dns(HostOf(call[c]))
        ok == UrlInScope(eng[c], CheckedUrl(call[c]), found)
    IN
    /\ pc[c] = "resolving"
    /\ \/ /\ ok
          /\ \E a \in found : address' = [address EXCEPT ![c] = {a}]
          /\ Enters(c, call[c], eng[c], "connecting")
          /\ IF call[c].tool = "multipart_upload"
             THEN Acts(c, call[c], eng[c], {}, Places(eng[c], call[c]))
             ELSE UNCHANGED contact
       \/ /\ ~ok
          /\ Enters(c, NoCall, eng[c], "failed")
          /\ UNCHANGED handlerVars
    /\ UNCHANGED <<scopeVars, prompt, own, approvalVars, changes>>

\* The place a response is saved to, checked just before it is written.
SavedTo(r, e) ==
    IF r.tool = "http" THEN {Resolve(PathOf(e, arg)) : arg \in {a \in r.save : CheckSaveAs(e, a)}}
    ELSE {}

Connect_ByName(c) ==
    /\ pc[c] = "connecting"
    /\ Acts(c, call[c], eng[c], {<<HostOf(call[c]), a>> : a \in Dns(HostOf(call[c]))},
            SavedTo(call[c], eng[c]))
    /\ Enters(c, NoCall, eng[c], "done")
    /\ address' = [address EXCEPT ![c] = {}]
    /\ UNCHANGED <<scopeVars, prompt, own, approvalVars, changes>>

\* The connection goes to the address that was checked, whatever the name
\* resolves to by now.
Connect(c) ==
    /\ pc[c] = "connecting"
    /\ Acts(c, call[c], eng[c], {<<HostOf(call[c]), a>> : a \in address[c]},
            SavedTo(call[c], eng[c]))
    /\ Enters(c, NoCall, eng[c], "done")
    /\ address' = [address EXCEPT ![c] = {}]
    /\ UNCHANGED <<scopeVars, prompt, own, approvalVars, changes>>

\* No answer, or an error of the connection.
ConnectFails(c) ==
    /\ pc[c] \in {"resolving", "connecting"}
    /\ Enters(c, NoCall, eng[c], "failed")
    /\ address' = [address EXCEPT ![c] = {}]
    /\ UNCHANGED <<scopeVars, prompt, own, approvalVars, contact, changes>>
-----------------------------------------------------------------------------
(* Deciding *)

Shown == {<<e, e \in members>> : e \in rules}

\* _approve_tool takes the lock: whoever waited may find a rule by now.
Decide_NoRecheck(c, r, e) ==
    /\ Enters(c, r, e, "dialog")
    /\ UNCHANGED <<handlerVars, auto>>

Decide(c, r, e) ==
    IF ByRule(r, e)
    THEN Begin(c, r, e) /\ auto' = auto \cup {c}
    ELSE Enters(c, r, e, "dialog") /\ UNCHANGED <<handlerVars, auto>>

\* A rule approves without the lock; a free lock is taken at once.
Ask(c, r, e) ==
    IF ByRule(r, e)
    THEN Begin(c, r, e) /\ auto' = auto \cup {c} /\ UNCHANGED lock
    ELSE /\ lock' = Append(lock, c)
         /\ Enters(c, r, e, IF lock = <<>> THEN "dialog" ELSE "asking")
         /\ UNCHANGED <<handlerVars, auto>>

\* dispatch_parallel hands a call to the gate, the operator and the handler.
Submit(c, r, e) ==
    /\ prompt
    /\ pc[c] = "idle"
    /\ own' = own \cup {c}
    /\ IF e \notin members \/ ~Authorized(e, r)
       THEN Enters(c, NoCall, e, "refused") /\ UNCHANGED <<handlerVars, lock, auto>>
       ELSE IF r.tool \in AutoApprove
       THEN Begin(c, r, e) /\ UNCHANGED <<lock, auto>>
       ELSE Ask(c, r, e)
    /\ UNCHANGED <<scopeVars, prompt, ruleVars, changes>>

\* The lock is passed on: the call at the head of the queue wakes up.
Acquire(c) ==
    /\ pc[c] = "asking"
    /\ Head(lock) = c
    /\ Decide(c, call[c], eng[c])
    /\ lock' = IF pc'[c] = "dialog" THEN lock ELSE Tail(lock)
    /\ UNCHANGED <<scopeVars, prompt, own, ruleVars, changes>>

\* The lock is released: whoever waits first is the next to hold it.
Released == Tail(lock)

\* The operator's answer closes the dialog.
Answered(c) == pc[c] = "dialog" /\ ~closing

Deny(c) ==
    /\ Answered(c)
    /\ Enters(c, NoCall, eng[c], "denied")
    /\ lock' = Released
    /\ UNCHANGED <<scopeVars, prompt, own, ruleVars, auto, handlerVars, changes>>

Approve(c) ==
    /\ Answered(c)
    /\ Begin(c, call[c], eng[c])
    /\ lock' = Released
    /\ UNCHANGED <<scopeVars, prompt, own, ruleVars, auto, changes>>

\* "Approve all valid actions": offered for an exact target only.  The rule is
\* made, recorded and shown; a failure to record it fails the call, and the rule
\* stays in force without being shown.
ApproveTarget(c) ==
    /\ Answered(c)
    /\ Exact(call[c])
    /\ lock' = Released
    /\ granted' = granted \cup {eng[c]}
    /\ UNCHANGED <<scopeVars, prompt, own, auto, changes, closing>>
    /\ rules' = rules \cup {eng[c]}
    /\ \/ Begin(c, call[c], eng[c]) /\ badge' = Shown' /\ undrawn' = FALSE
       \/ /\ Enters(c, NoCall, eng[c], "failed")
          /\ undrawn' = TRUE
          /\ UNCHANGED <<badge, handlerVars>>
-----------------------------------------------------------------------------
(* The prompt task *)

\* The chat line is covered while a dialog is open.
CommandLine == ~prompt /\ Open = {} /\ ~closing

PromptStarts ==
    /\ CommandLine
    /\ prompt' = TRUE
    /\ UNCHANGED <<scopeVars, own, pc, call, eng, approvalVars, handlerVars, changes>>

\* The prompt returns, or fails: calls that are under way go on without it.
PromptEnds ==
    /\ prompt
    /\ prompt' = FALSE /\ own' = {}
    /\ UNCHANGED <<scopeVars, pc, call, eng, approvalVars, handlerVars, changes>>

Live == {c \in own : pc[c] \notin Final}

\* A queue without the calls that are gone.
Without(queue, gone) ==
    LET rest[n \in 0..Len(queue)] ==
            IF n = 0 THEN <<>>
            ELSE IF queue[n] \in gone THEN rest[n - 1] ELSE Append(rest[n - 1], queue[n])
    IN rest[Len(queue)]

\* Escape twice; a dialog takes the key for itself.  Every call of the prompt
\* is cancelled where it waits, and leaves the queue of the lock.
Cancel ==
    /\ prompt /\ Open = {}
    /\ pc' = [c \in Calls |-> IF c \in Live THEN "cancelled" ELSE pc[c]]
    /\ call' = [c \in Calls |-> IF c \in Live THEN NoCall ELSE call[c]]
    /\ eng' = [c \in Calls |-> IF c \in Live THEN Nobody ELSE eng[c]]
    /\ address' = [c \in Calls |-> IF c \in Live THEN {} ELSE address[c]]
    /\ lock' = Without(lock, Live)
    /\ prompt' = FALSE /\ own' = {}
    /\ UNCHANGED <<scopeVars, ruleVars, auto, contact, changes>>
-----------------------------------------------------------------------------
(* The operator's settings and commands, and the world outside *)

callVars == <<prompt, own, pc, call, eng, lock, auto, handlerVars>>

Change ==
    /\ changes < MaxChanges
    /\ changes' = changes + 1
    /\ UNCHANGED callVars

\* Commands need the chat line, settings only the screen.
Settings == Open = {} /\ ~closing

\* _clear_target_auto_approvals: nothing to do, nothing to show, without rules.
ClearRules ==
    /\ UNCHANGED closing
    /\ IF rules = {} THEN UNCHANGED <<rules, badge, undrawn>>
       ELSE rules' = {} /\ badge' = Shown' /\ undrawn' = FALSE

AddEngagement_KeepsRules(e) ==
    /\ CommandLine /\ Change
    /\ e \notin members
    /\ members' = members \cup {e} /\ active' = active \cup {e}
    /\ granted' = {}
    /\ UNCHANGED <<world, choice, rules, badge, undrawn, closing>>

\* /engagement add and the onboarding dialog.
AddEngagement(e) ==
    /\ CommandLine /\ Change
    /\ e \notin members
    /\ members' = members \cup {e} /\ active' = active \cup {e}
    /\ granted' = {}
    /\ UNCHANGED <<world, choice>>
    /\ ClearRules

\* A saved session is resumed from one of the session dialogs.
RestoreSession(saved) ==
    /\ CommandLine /\ Change
    /\ members' = saved.members /\ active' = saved.active
    /\ granted' = {}
    /\ UNCHANGED <<world, choice>>
    /\ ClearRules

\* A restore raises, before or after it has put the engagements of the saved
\* session in place: nothing clears the rules, and the exception, which leaves a
\* message handler, ends the interface.  Calls of an ended prompt go on for the
\* time that takes.
RestoreFails(saved) ==
    /\ CommandLine /\ Change
    /\ \/ UNCHANGED <<members, active>>
       \/ members' = saved.members /\ active' = saved.active
    /\ closing' = TRUE
    /\ UNCHANGED <<world, choice, rules, badge, undrawn, granted>>

\* /engagement pause and resume leave the rules alone.
SetStatus(e) ==
    /\ CommandLine /\ Change
    /\ e \in members
    /\ active' = IF e \in active THEN active \ {e} ELSE active \cup {e}
    /\ UNCHANGED <<world, members, choice, ruleVars>>

\* /approval reset, and the button in the settings.
ResetApprovals ==
    /\ Settings /\ Change
    /\ rules # {}
    /\ granted' = {}
    /\ UNCHANGED scopeVars
    /\ ClearRules

\* The Tools dialog writes the selection of the engagement.
SaveTools(e, tools) ==
    /\ Settings /\ Change
    /\ e \in active /\ tools # choice[e]
    /\ choice' = [choice EXCEPT ![e] = tools]
    /\ UNCHANGED <<world, members, active, ruleVars>>

\* Names resolve differently, links and directories come and go.
WorldChanges ==
    /\ Change
    /\ \E w \in Worlds \ {world} : world' = w
    /\ UNCHANGED <<members, active, choice, ruleVars>>
-----------------------------------------------------------------------------
Init ==
    /\ world \in Worlds
    /\ \E saved \in Sessions : members = saved.members /\ active = saved.active
    /\ choice = [e \in Engs |-> [tool \in {} |-> FALSE]]
    /\ prompt = FALSE /\ own = {}
    /\ pc = [c \in Calls |-> "idle"]
    /\ call = [c \in Calls |-> NoCall]
    /\ eng = [c \in Calls |-> Nobody]
    /\ lock = <<>>
    /\ rules = {} /\ badge = {} /\ granted = {} /\ auto = {}
    /\ undrawn = FALSE /\ closing = FALSE
    /\ address = [c \in Calls |-> {}]
    /\ contact = [by |-> Nobody, call |-> NoCall, eng |-> Nobody, connections |-> {}, places |-> {}]
    /\ changes = 0

CallStep(c) ==
    \/ \E r \in Asked[c], e \in EngsOf[c] : Submit(c, r, e)
    \/ Acquire(c) \/ Deny(c) \/ Approve(c) \/ ApproveTarget(c)
    \/ Resolved(c) \/ Connect(c) \/ ConnectFails(c)

OperatorStep ==
    \/ PromptStarts \/ PromptEnds \/ Cancel \/ ResetApprovals
    \/ \E e \in Engs : AddEngagement(e) \/ SetStatus(e)
    \/ \E e \in Engs, tools \in Selections : SaveTools(e, tools)
    \/ \E saved \in Sessions : RestoreSession(saved) \/ RestoreFails(saved)

Next == (\E c \in Calls : CallStep(c)) \/ OperatorStep \/ WorldChanges

Spec == Init /\ [][Next]_vars
-----------------------------------------------------------------------------
(* Properties *)

\* The operator is never shown two approval dialogs at once, whichever calls
\* of a batch, and orphans of an earlier one, ask at the same time.
OneDialog == Cardinality(Open) <= 1

\* No question is open that a rule already answers: a call that waited while
\* the rule was made finds it.
NoRedundantQuestion == \A c \in Open : ~ByRule(call[c], eng[c])

\* A rule in force was asked for by the operator since the engagements of the
\* session last changed, and never by another way, except while a restore that
\* failed ends the interface.
RulesWereGranted == ~closing => rules \subseteq granted

\* The badge shows just the rules in force, under the engagements of the live
\* session, with the same exception; and it lacks one whose record failed, until
\* it is drawn again.
BadgeShowsRules == ~closing => badge \subseteq Shown /\ (~undrawn => badge = Shown)

Probed(ports) == IF ports = <<>> THEN DefaultPorts
                 ELSE UNION {ports[i][1] .. ports[i][2] : i \in DOMAIN ports}

\* A call the gate admits stays on the territory of its engagement, in the
\* world as the gate saw it: every address its names resolve to, every block
\* and every path, links and ".." included.  The gate does not see hosts in
\* scan_type and undotted words of a command, the files of a grep, relative ones
\* of a command and the configured directory; and a source tree around the
\* working directory of the process admits any address as a path.  A scan probes
\* no more distinct ports than the package says, unless it names none: then it
\* probes the default ports, whatever the package says.
AdmittedStayInside ==
    [][\A c \in Calls :
        pc[c] = "idle" /\ pc'[c] \in {"asking", "dialog", "resolving"} =>
            /\ WithinTerritory(eng'[c], call'[c])
            /\ call'[c].tool = "scan" =>
                \/ Cardinality(Probed(call'[c].ports)) <= Package[eng'[c]].maxPorts
                \/ call'[c].ports = <<>>]_vars

\* A call approved by a rule contacts one host: the rule was made for a target,
\* not for whatever else a command may name, except by a word that is not taken
\* for a host (`nmap localhost 192.0.2.1') or in scan_type.
RuleMeansOneHost ==
    contact.by \in auto =>
        Cardinality({link[1] : link \in contact.connections} \ UnreadHosts(contact.call)) <= 1

\* A contact is with hosts and places of its engagement, but for those that nobody
\* looks at; `again': it follows a path that was checked an await ago.
Inside(made, again) ==
    /\ \A link \in made.connections :
           link[1] \in Hosts(made.call) \ TakenForPaths(made.eng, made.call)
               => OwnsConnection(made.eng, link)
    /\ ~again => \A place \in made.places :
           OwnsPlace(made.eng, place) \/ place \in UncheckedPlaces(made.eng, made.call)

\* Whatever changed since a call was authorized and approved, it connects only
\* to hosts of its engagement's territory, and works on files there: those the
\* handler finds when it acts.  An upload is the exception: it checks the path
\* of its file before it resolves a name, and follows it again afterwards.  The
\* hosts and places that nobody looks at are those of AdmittedStayInside.
ContactInScope ==
    [][contact' # contact => Inside(contact', pc[contact'.by] = "resolving")]_vars

\* The rules in force are those the operator granted and sees, and mean what
\* they were granted for.
RulesAsGranted == RulesWereGranted /\ BadgeShowsRules /\ RuleMeansOneHost

\* The dialog and the queue in front of it, at every instant.
DecisionsInTurn == TypeOK /\ OneDialog /\ NoRedundantQuestion
=============================================================================
