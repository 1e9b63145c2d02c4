------------------------------ MODULE Keystore ------------------------------
(***************************************************************************)
(* Encrypted credentials: the native key envelope (crypto.py), the store   *)
(* of encrypted secrets (memory/keystore.py), the redaction that fills it  *)
(* (guardrails/redactor.py), and the dialogs and commands that create,     *)
(* unlock, replace, back up and restore the key (tui.py, cli.py).          *)
(*                                                                         *)
(* A store encrypts in a worker thread.  Everything else of a process runs *)
(* on its event loop, so that creating a key, which blocks the loop, meets *)
(* only worker threads and other processes.  A root key is a number, in    *)
(* the order of creation; an envelope of it opens with its phrase only.    *)
(***************************************************************************)
EXTENDS Integers, Sequences, FiniteSets, SequencesExt

CONSTANTS
    Procs,      \* processes that share the key file and the store
    Tui,        \* those with the interface, the others run one command each
    Jobs,       \* tasks that store or reveal a secret
    Owner,      \* the process of each job
    Prompts,    \* jobs that are the prompt task of an interface
    Secrets,    \* secret values
    Texts,      \* the texts each job may redact: the secrets in them in order
    MaxRoots,   \* bound: keys created
    Seconds,    \* the seconds a replacement may happen in, in the archive's name
    MaxJobs,    \* bound: jobs started
    MaxCommands,\* bound: key commands run
    MaxDeaths   \* bound: processes that die

NoJob == "nobody"

ASSUME KeystoreAssumption ==
    /\ Tui \subseteq Procs
    /\ NoJob \notin Jobs /\ Owner \in [Jobs -> Procs]
    /\ Prompts \subseteq Jobs /\ \A j \in Prompts : Owner[j] \in Tui
    /\ Texts \in [Jobs -> SUBSET (Seq(Secrets) \ {<<>>})]
    /\ Seconds \subseteq Nat
    /\ {MaxRoots, MaxJobs, MaxCommands, MaxDeaths} \subseteq Nat

VARIABLES
    key,       \* the key file
    archive,   \* archived key files, by the second in their name
    backup,    \* roots with a backup elsewhere
    made,      \* roots generated so far
    entries,   \* lines of the keystore file
    cache,     \* NativeCrypto._cache, the unlocked root of a process
    ready,     \* KeyStore._ready
    lock,      \* holder of KeyStore._lock
    act,       \* key creation, replacement or restore under way in a process
    job,       \* what each task is doing
    thread,    \* the worker thread of a store
    screen,    \* modals of an interface, the last one on top
    keyReady,  \* OnboardingModal._key_ready
    begun,     \* jobs started so far
    commands,  \* key commands run so far
    deaths,    \* processes that died so far
    prompted,  \* history: an interface asked for the phrase on its terminal
    raced,     \* history: the key file changed while a worker thread ran
    leaked,    \* history: a text was passed on with a secret that is not stored
    crowded,   \* history: two worker threads ran at once
    forsaken,  \* history: roots whose key file was deleted, not archived
    makers,    \* history: interfaces that have begun to make a key
    dismissed  \* history: roots whose phrase the operator did not say to have

diskVars == <<key, archive, backup, made, forsaken, makers>>
procVars == <<cache, ready, lock, act>>
uiVars == <<screen, keyReady, dismissed>>
jobVars == <<job, thread>>
countVars == <<begun, commands, deaths>>
histVars == <<prompted, raced, leaked, crowded>>
vars == <<diskVars, entries, procVars, uiVars, jobVars, countVars, histVars>>

Roots == 1..MaxRoots
NoRoot == 0
NoFile == [st |-> "none", root |-> NoRoot]
Cut == [st |-> "part", root |-> NoRoot]
Envelope(r) == [st |-> "ok", root |-> r]
Files == {NoFile, Cut} \cup {Envelope(r) : r \in Roots}
Resting == [at |-> "rest", root |-> NoRoot, stamp |-> -1]
NoStamp == -1
Idle == [pc |-> "idle", todo |-> <<>>, text |-> {}]
NoThread == [at |-> "none", s |-> "none", root |-> NoRoot]
Modal(name, j, r) == [name |-> name, job |-> j, root |-> r]

\* The type invariant, with who holds the lock and who may be asked.
TypeOK ==
    /\ key \in Files
    /\ archive \in [Seconds -> Files]
    /\ backup \subseteq Roots
    /\ made \in 0..MaxRoots /\ makers \subseteq Tui
    /\ \A n \in DOMAIN entries : entries[n].s \in Secrets /\ entries[n].root \in 1..made
    /\ cache \in [Procs -> 0..made]
    /\ ready \in [Procs -> BOOLEAN] /\ keyReady \in [Procs -> BOOLEAN]
    /\ \A p \in Procs :
        /\ lock[p] # NoJob => Owner[lock[p]] = p
        /\ act[p].at \in {"rest", "create", "fill", "keep", "copy"}
        /\ p \notin Tui => screen[p] = <<>>
    /\ \A j \in Jobs :
        /\ job[j].pc \in {"idle", "unlock", "asked", "lock", "phrase", "thread", "reveal"}
        /\ thread[j].at \in {"none", "find", "encrypt", "write", "stored", "refused"}

Init ==
    /\ key = NoFile
    /\ archive = [t \in Seconds |-> NoFile]
    /\ backup = {}
    /\ made = 0
    /\ entries = <<>>
    /\ cache = [p \in Procs |-> NoRoot]
    /\ ready = [p \in Procs |-> FALSE]
    /\ lock = [p \in Procs |-> NoJob]
    /\ act = [p \in Procs |-> Resting]
    /\ job = [j \in Jobs |-> Idle]
    /\ thread = [j \in Jobs |-> NoThread]
    /\ screen = [p \in Procs |-> <<>>]
    /\ keyReady = [p \in Procs |-> FALSE]
    /\ begun = 0
    /\ commands = 0
    /\ deaths = 0
    /\ prompted = FALSE
    /\ raced = FALSE
    /\ leaked = FALSE
    /\ crowded = FALSE
    /\ forsaken = {}
    /\ makers = {}
    /\ dismissed = {}
-----------------------------------------------------------------------------
(* Common parts *)

Loop(p) == act[p].at = "rest"
Top(p, name) == Loop(p) /\ screen[p] # <<>> /\ Last(screen[p]).name = name
Exists == key.st # "none"
Storing == \E j \in Jobs : thread[j].at \in {"find", "encrypt", "write"}

\* _root_key: the cached root; no key file, a damaged one or a wrong phrase is
\* an EncryptionError (NoRoot).  The phrase of a lazy backend is read from the
\* terminal.
RootKeys(p) ==
    CASE cache[p] # NoRoot -> {cache[p]}
      [] cache[p] = NoRoot /\ key.st = "ok" -> {NoRoot, key.root}
      [] OTHER -> {NoRoot}
ReadsTerminal(p) == cache[p] = NoRoot /\ key.st = "ok"

\* A use of the backend that got root r; a command ends after its one use.
Uses(p, r) ==
    /\ r \in RootKeys(p)
    /\ cache' = [cache EXCEPT ![p] = r]
    /\ prompted' = (prompted \/ (p \in Tui /\ ReadsTerminal(p)))

\* _ensure_unlocked and ensure_native_key: the interface asks in a dialog.  It
\* does so although the store was ready before: the cache may have been emptied.
MustAsk_OnlyOnce(p) == ~ready[p] /\ cache[p] = NoRoot /\ Exists /\ p \in Tui

MustAsk(p) == cache[p] = NoRoot /\ Exists /\ p \in Tui

Finish(j) == job' = [job EXCEPT ![j] = Idle]
Release(p) == lock' = [lock EXCEPT ![p] = NoJob]
-----------------------------------------------------------------------------
(* Redaction and KeyStore.store *)

\* A turn of an interface unlocks the key first, outside the lock of the store.
\* A job redacts a text, or reveals an entry; one of a command has its process
\* for itself.
Begin(j) ==
    LET p == Owner[j]
    IN /\ Loop(p)
       /\ job[j].pc = "idle"
       /\ thread[j].at = "none"
       /\ j \in Prompts => screen[p] = <<>>
       /\ p \notin Tui =>
            \A k \in Jobs : Owner[k] = p => job[k].pc = "idle" /\ thread[k].at = "none"
       /\ \/ \E text \in Texts[j], pc \in IF j \in Prompts THEN {"unlock", "lock"} ELSE {"lock"} :
                job' = [job EXCEPT ![j] = [pc |-> pc, todo |-> text, text |-> ToSet(text)]]
          \/ /\ entries # <<>>
             /\ job' = [job EXCEPT ![j] = [pc |-> "reveal", todo |-> <<>>, text |-> {}]]
       /\ begun < MaxJobs
       /\ begun' = begun + 1
       /\ cache' = [cache EXCEPT ![p] = IF p \in Tui THEN @ ELSE NoRoot]
       /\ ready' = [ready EXCEPT ![p] = p \in Tui /\ @]
       /\ UNCHANGED <<diskVars, entries, lock, act, thread, uiVars, commands, deaths, histVars>>

Ask(j, pc) ==
    /\ job' = [job EXCEPT ![j].pc = pc]
    /\ screen' = [screen EXCEPT ![Owner[j]] = Append(@, Modal("entry", j, NoRoot))]

\* Halgate.ensure_native_key
EnsureNativeKey(j) ==
    /\ Loop(Owner[j])
    /\ job[j].pc = "unlock"
    /\ \/ MustAsk(Owner[j]) /\ Ask(j, "asked")
       \/ ~MustAsk(Owner[j]) /\ job' = [job EXCEPT ![j].pc = "lock"] /\ UNCHANGED screen
    /\ UNCHANGED <<diskVars, entries, procVars, thread, keyReady, dismissed, countVars, histVars>>

\* store_sync runs in a thread once the store is ready; verify makes it ready.
Store(j) ==
    LET p == Owner[j]
    IN /\ lock' = [lock EXCEPT ![p] = j]
       /\ job' = [job EXCEPT ![j].pc = "thread"]
       /\ thread' = [thread EXCEPT ![j] =
                        [at |-> "find", s |-> Head(job[j].todo), root |-> NoRoot]]
       /\ ready' = [ready EXCEPT ![p] = TRUE]
       /\ crowded' = (crowded \/ Storing)

TakeLock(j) ==
    LET p == Owner[j]
    IN /\ Loop(p)
       /\ job[j].pc = "lock"
       /\ lock[p] = NoJob
       /\ \/ /\ MustAsk(p)
             /\ lock' = [lock EXCEPT ![p] = j]
             /\ Ask(j, "phrase")
             /\ UNCHANGED <<cache, ready, thread, prompted, crowded>>
          \/ /\ ~MustAsk(p)
             /\ \/ ready[p] /\ Store(j) /\ UNCHANGED <<cache, prompted>>
                \/ /\ ~ready[p]
                   /\ \E r \in Roots : Uses(p, r)
                   /\ Store(j)
                \/ /\ ~ready[p]
                   /\ Uses(p, NoRoot)
                   /\ Finish(j)
                   /\ UNCHANGED <<lock, ready, thread, crowded>>
             /\ UNCHANGED screen
       /\ UNCHANGED <<diskVars, entries, act, keyReady, dismissed, countVars, raced, leaked>>

\* _find: an entry of the value that opens under the root at hand.
FindValue(j) ==
    LET p == Owner[j]
    IN /\ thread[j].at = "find"
       /\ \/ entries = <<>> /\ UNCHANGED <<cache, prompted>>
             /\ thread' = [thread EXCEPT ![j].at = "encrypt"]
          \/ /\ entries # <<>>
             /\ \E r \in {NoRoot} \cup Roots :
                 /\ Uses(p, r)
                 /\ thread' = [thread EXCEPT ![j].at =
                       IF [s |-> thread[j].s, root |-> r] \in ToSet(entries)
                       THEN "stored" ELSE "encrypt"]
       /\ UNCHANGED <<diskVars, entries, ready, lock, act, uiVars, job, countVars, raced, leaked, crowded>>

Encrypt(j) ==
    LET p == Owner[j]
    IN /\ thread[j].at = "encrypt"
       /\ \E r \in {NoRoot} \cup Roots :
            /\ Uses(p, r)
            /\ thread' = [thread EXCEPT ![j].root = r,
                                        ![j].at = IF r = NoRoot THEN "refused" ELSE "write"]
       /\ UNCHANGED <<diskVars, entries, ready, lock, act, uiVars, job, countVars, raced, leaked, crowded>>

\* The line is appended, or the append fails.
WriteEntry(j) ==
    /\ thread[j].at = "write"
    /\ \/ /\ entries' = Append(entries, [s |-> thread[j].s, root |-> thread[j].root])
          /\ thread' = [thread EXCEPT ![j].at = "stored"]
       \/ /\ thread' = [thread EXCEPT ![j].at = "refused"]
          /\ UNCHANGED entries
    /\ UNCHANGED <<diskVars, procVars, uiVars, job, countVars, histVars>>

NextSecret(j) == job' = [job EXCEPT ![j].pc = "lock", ![j].todo = Tail(@)]
Pass(j) ==
    /\ Finish(j)
    /\ leaked' = (leaked \/ \E s \in job[j].text : \A n \in DOMAIN entries : entries[n].s # s)

\* The task wakes: the next secret, the end, or the exception that aborts the
\* caller.  A cancelled task is not there any more.
Stored_Anyway(j) ==
    LET p == Owner[j]
    IN /\ Loop(p)
       /\ thread[j].at \in {"stored", "refused"}
       /\ thread' = [thread EXCEPT ![j] = NoThread]
       /\ \/ /\ job[j].pc = "thread"
             /\ Release(p)
             /\ IF Len(job[j].todo) > 1
                THEN NextSecret(j) /\ UNCHANGED leaked
                ELSE Pass(j)
          \/ job[j].pc # "thread" /\ UNCHANGED <<job, lock, leaked>>
       /\ UNCHANGED <<diskVars, entries, cache, ready, act, uiVars, countVars,
                      prompted, raced, crowded>>

Stored(j) ==
    LET p == Owner[j]
    IN /\ Loop(p)
       /\ thread[j].at \in {"stored", "refused"}
       /\ thread' = [thread EXCEPT ![j] = NoThread]
       /\ \/ /\ job[j].pc = "thread"
             /\ Release(p)
             /\ CASE thread[j].at = "refused" -> Finish(j) /\ UNCHANGED leaked
                  [] thread[j].at = "stored" /\ Len(job[j].todo) > 1 ->
                        NextSecret(j) /\ UNCHANGED leaked
                  [] OTHER -> Pass(j)
          \/ job[j].pc # "thread" /\ UNCHANGED <<job, lock, leaked>>
       /\ UNCHANGED <<diskVars, entries, cache, ready, act, uiVars, countVars,
                      prompted, raced, crowded>>

\* Escape twice: the prompt task ends, its worker thread runs on.
CancelPrompt(j) ==
    LET p == Owner[j]
    IN /\ Loop(p)
       /\ j \in Prompts /\ screen[p] = <<>>
       /\ job[j].pc \in {"unlock", "lock", "thread", "reveal"}
       /\ Finish(j)
       /\ lock' = [lock EXCEPT ![p] = IF @ = j THEN NoJob ELSE @]
       /\ UNCHANGED <<diskVars, entries, cache, ready, act, thread, uiVars, countVars, histVars>>

\* The decryption of a reveal follows the check in one step.
Reveal(j) ==
    LET p == Owner[j]
    IN /\ Loop(p)
       /\ job[j].pc = "reveal"
       /\ lock[p] = NoJob
       /\ \/ /\ MustAsk(p)
             /\ lock' = [lock EXCEPT ![p] = j]
             /\ Ask(j, "phrase")
             /\ UNCHANGED <<cache, prompted>>
          \/ /\ ~MustAsk(p)
             /\ \E r \in {NoRoot} \cup Roots : Uses(p, r)
             /\ Finish(j)
             /\ UNCHANGED <<lock, screen>>
       /\ UNCHANGED <<diskVars, entries, ready, act, thread, keyReady, dismissed, countVars,
                      raced, leaked, crowded>>

\* RecoveryPhraseEntryModal.  A wrong phrase, or one that meets no or a damaged
\* key file, is asked again; when the key is unlocked meanwhile any phrase does.
Pop(p) == screen' = [screen EXCEPT ![p] = Front(@)]

EnterPhrase(p) ==
    /\ Top(p, "entry")
    /\ cache[p] # NoRoot \/ key.st = "ok"
    /\ cache' = [cache EXCEPT ![p] = IF @ # NoRoot THEN @ ELSE key.root]
    /\ Pop(p)
    /\ LET j == Last(screen[p]).job
       IN \/ /\ job[j].pc = "asked"
             /\ job' = [job EXCEPT ![j].pc = "lock"]
             /\ UNCHANGED <<lock, ready, thread, crowded>>
          \/ /\ job[j].pc = "phrase" /\ job[j].todo # <<>>
             /\ Store(j)
          \/ /\ job[j].pc = "phrase" /\ job[j].todo = <<>>
             /\ Finish(j)
             /\ Release(p)
             /\ UNCHANGED <<ready, thread, crowded>>
    /\ UNCHANGED <<diskVars, entries, act, keyReady, dismissed, countVars, prompted, raced, leaked>>

CancelPhrase_KeepsLock(p) ==
    /\ Top(p, "entry")
    /\ Pop(p)
    /\ Finish(Last(screen[p]).job)
    /\ UNCHANGED <<diskVars, entries, cache, ready, lock, act, thread, keyReady, dismissed,
                   countVars, histVars>>

CancelPhrase(p) ==
    /\ Top(p, "entry")
    /\ Pop(p)
    /\ LET j == Last(screen[p]).job
       IN /\ Finish(j)
          /\ lock' = [lock EXCEPT ![p] = IF @ = j THEN NoJob ELSE @]
    /\ UNCHANGED <<diskVars, entries, cache, ready, act, thread, keyReady, dismissed,
                   countVars, histVars>>
-----------------------------------------------------------------------------
(* Creating and replacing the key *)

\* NativeCrypto.initialize: the file is created, filled, and the root cached.
Generates(p, stamp) ==
    /\ made < MaxRoots
    /\ made' = made + 1
    /\ makers' = makers \cup ({p} \cap Tui)
    /\ act' = [act EXCEPT ![p] = [at |-> "create", root |-> made + 1, stamp |-> stamp]]

CreateFile(p) ==
    /\ act[p].at = "create"
    /\ ~Exists
    /\ key' = Cut
    /\ act' = [act EXCEPT ![p].at = "fill"]
    /\ UNCHANGED <<archive, backup, made, makers, forsaken, entries, cache, ready, lock,
                   uiVars, jobVars, countVars, histVars>>

\* Another process may have unlinked the file that is being filled.
FillFile(p) ==
    /\ act[p].at = "fill"
    /\ key' = IF key = Cut THEN Envelope(act[p].root) ELSE key
    /\ act' = [act EXCEPT ![p].at = "keep"]
    /\ forsaken' = IF key = Cut THEN forsaken ELSE forsaken \cup {act[p].root}
    /\ raced' = (raced \/ Storing)
    /\ UNCHANGED <<archive, backup, made, makers, entries, cache, ready, lock, uiVars,
                   jobVars, countVars, prompted, leaked, crowded>>

\* The phrase is shown once: in a dialog, or printed by the command.
KeepKey(p) ==
    /\ act[p].at = "keep"
    /\ act' = [act EXCEPT ![p] = Resting]
    /\ \/ /\ p \in Tui
          /\ cache' = [cache EXCEPT ![p] = act[p].root]
          /\ screen' = [screen EXCEPT ![p] = Append(@, Modal("phrase", NoJob, act[p].root))]
          /\ keyReady' = [keyReady EXCEPT ![p] = act[p].stamp = NoStamp /\ @]
       \/ /\ p \notin Tui
          /\ UNCHANGED <<cache, screen, keyReady>>
    /\ UNCHANGED <<diskVars, entries, ready, lock, dismissed, jobVars, countVars, histVars>>

\* The process ends: tasks, threads and the unlocked root are gone.
End(p) ==
    /\ cache' = [cache EXCEPT ![p] = NoRoot]
    /\ ready' = [ready EXCEPT ![p] = FALSE]
    /\ lock' = [lock EXCEPT ![p] = NoJob]
    /\ act' = [act EXCEPT ![p] = Resting]
    /\ job' = [j \in Jobs |-> IF Owner[j] = p THEN Idle ELSE job[j]]
    /\ thread' = [j \in Jobs |-> IF Owner[j] = p THEN NoThread ELSE thread[j]]
    /\ screen' = [screen EXCEPT ![p] = <<>>]
    /\ keyReady' = [keyReady EXCEPT ![p] = FALSE]

\* initialize fails: the file is there meanwhile, or cannot be created or
\* filled.  A replacement puts the archive back over whatever is at the path;
\* without one the error is no EncryptionError, and ends the program.
RollBack_KeepsPath(p) ==
    /\ key' = key
    /\ archive' = [archive EXCEPT ![act[p].stamp] = NoFile]
    /\ UNCHANGED forsaken

RollBack(p) ==
    /\ key' = archive[act[p].stamp]
    /\ archive' = [archive EXCEPT ![act[p].stamp] = NoFile]
    /\ forsaken' = IF key.st = "ok" THEN forsaken \cup {key.root} ELSE forsaken

CreateFails(p) ==
    /\ act[p].at \in {"create", "fill"}
    /\ \/ /\ act[p].stamp # NoStamp
          /\ RollBack(p)
          /\ act' = [act EXCEPT ![p] = Resting]
          /\ raced' = (raced \/ Storing)
          /\ UNCHANGED <<cache, ready, lock, jobVars, screen, keyReady>>
       \/ /\ act[p].stamp = NoStamp
          /\ End(p)
          /\ UNCHANGED <<key, archive, forsaken, raced>>
    /\ UNCHANGED <<backup, made, makers, entries, dismissed, countVars, prompted, leaked, crowded>>

\* archive_and_replace, in second t: an archive of that second is not replaced.
Replaces(p, t) ==
    /\ Exists /\ archive[t].st = "none"
    /\ \A u \in Seconds : archive[u].st # "none" => u <= t
    /\ Generates(p, t)
    /\ archive' = [archive EXCEPT ![t] = key]
    /\ key' = NoFile
    /\ cache' = [cache EXCEPT ![p] = NoRoot]
    /\ raced' = (raced \/ Storing)
    /\ UNCHANGED <<backup, forsaken>>
-----------------------------------------------------------------------------
(* OnboardingModal and the modals it opens *)

Open(p, name) == screen' = [screen EXCEPT ![p] = Append(@, Modal(name, NoJob, NoRoot))]
Turn(p, name) == screen' = [screen EXCEPT ![p] = Append(Front(@), Modal(name, NoJob, NoRoot))]
uiFrame == <<entries, ready, lock, jobVars, begun, deaths, crowded, leaked, prompted>>

\* /new ends before the modal takes a key, so that no prompt runs beside it.
OpenOnboarding(p) ==
    /\ p \in Tui /\ Loop(p) /\ screen[p] = <<>>
    /\ \A j \in Prompts : Owner[j] = p => job[j].pc = "idle"
    /\ Open(p, "onboarding")
    /\ keyReady' = [keyReady EXCEPT ![p] = FALSE]
    /\ UNCHANGED <<diskVars, cache, act, dismissed, raced, commands, uiFrame>>

\* Managing or continuing sessions asks nothing about the key.
LeaveOnboarding(p) ==
    /\ Top(p, "onboarding")
    /\ Pop(p)
    /\ UNCHANGED <<diskVars, cache, act, keyReady, dismissed, raced, commands, uiFrame>>

\* _do_start.  Without a target, or a key, it does nothing.
PressStart(p) ==
    /\ Top(p, "onboarding")
    /\ \/ Exists /\ ~keyReady[p] /\ Open(p, "warning")
       \/ keyReady[p] /\ Pop(p)
    /\ UNCHANGED <<diskVars, cache, act, keyReady, dismissed, raced, commands, uiFrame>>

\* _create_key, or the question of KeyResetModal.
PressGenerate(p) ==
    /\ Top(p, "onboarding")
    /\ \/ Exists /\ Open(p, "reset") /\ UNCHANGED <<diskVars, act>>
       \/ /\ ~Exists
          /\ Generates(p, NoStamp)
          /\ UNCHANGED <<key, archive, backup, forsaken, screen>>
    /\ UNCHANGED <<cache, keyReady, dismissed, raced, commands, uiFrame>>

\* _reset_key: not confirmed, or refused, the key stays.
AnswerReset(p) ==
    /\ Top(p, "reset")
    /\ Pop(p)
    /\ (\E t \in Seconds : Replaces(p, t)) \/ UNCHANGED <<diskVars, cache, act, raced>>
    /\ UNCHANGED <<keyReady, dismissed, commands, uiFrame>>

\* Confirming starts the engagement; both modals go.
AnswerWarning(p) ==
    /\ Top(p, "warning")
    /\ \/ /\ screen' = [screen EXCEPT ![p] = Front(Front(@))]
          /\ keyReady' = [keyReady EXCEPT ![p] = TRUE]
          /\ dismissed' = dismissed \ {key.root}
       \/ Turn(p, "reset") /\ UNCHANGED <<keyReady, dismissed>>
       \/ Pop(p) /\ UNCHANGED <<keyReady, dismissed>>
    /\ UNCHANGED <<diskVars, cache, act, raced, commands, uiFrame>>

\* RecoveryPhraseModal and _phrase_saved: the engagement starts at once if it
\* has a target.
AnswerPhrase(p) ==
    /\ Top(p, "phrase")
    /\ \/ /\ dismissed' = dismissed \ {Last(screen[p]).root}
          /\ keyReady' = [keyReady EXCEPT ![p] = TRUE]
          /\ \/ Pop(p)
             \/ screen' = [screen EXCEPT ![p] = Front(Front(@))]
       \/ /\ keyReady' = [keyReady EXCEPT ![p] = FALSE]
          /\ Pop(p)
          /\ dismissed' = dismissed \cup {Last(screen[p]).root}
    /\ UNCHANGED <<diskVars, cache, act, raced, commands, uiFrame>>
-----------------------------------------------------------------------------
(* Backup and the key commands *)

AtCommand(p) ==
    /\ p \notin Tui /\ Loop(p)
    /\ \A j \in Jobs : Owner[j] = p => job[j].pc = "idle"
    /\ commands < MaxCommands
    /\ commands' = commands + 1

BackUp(p) ==
    /\ AtCommand(p) \/ (Top(p, "phrase") /\ UNCHANGED commands)
    /\ key.st = "ok"
    /\ backup' = backup \cup {key.root}
    /\ UNCHANGED <<key, archive, made, makers, forsaken, cache, act, raced, uiVars, uiFrame>>

KeyInit(p) ==
    /\ AtCommand(p)
    /\ ~Exists
    /\ Generates(p, NoStamp)
    /\ UNCHANGED <<key, archive, backup, forsaken, cache, raced, uiVars, uiFrame>>

\* key restore --replace, from a backup or an archive whose phrase was typed:
\* the key file is deleted, then written.  From the key file itself there is
\* nothing left to write.
KeyRestore(p) ==
    /\ AtCommand(p)
    /\ \/ \E r \in backup \cup {archive[t].root : t \in DOMAIN archive} :
            /\ r # NoRoot
            /\ act' = [act EXCEPT ![p] = [at |-> "copy", root |-> r, stamp |-> NoStamp]]
       \/ key.st = "ok" /\ UNCHANGED act
    /\ key' = NoFile
    /\ forsaken' = forsaken \cup ({key.root} \ {NoRoot})
    /\ UNCHANGED <<archive, backup, made, makers, cache, raced, uiVars, uiFrame>>

CopyKey(p) ==
    /\ act[p].at = "copy"
    /\ key' = Envelope(act[p].root)
    /\ forsaken' = forsaken \cup ({key.root} \ {NoRoot})
    /\ act' = [act EXCEPT ![p] = Resting]
    /\ dismissed' = dismissed \ {act[p].root}
    /\ raced' = (raced \/ Storing)
    /\ UNCHANGED <<archive, backup, made, makers, cache, screen, keyReady,
                   commands, uiFrame>>

Crash(p) ==
    /\ deaths < MaxDeaths
    /\ deaths' = deaths + 1
    /\ End(p)
    /\ \/ UNCHANGED <<key, forsaken>>
       \/ /\ act[p].at = "copy"
          /\ key' = Cut
          /\ forsaken' = forsaken \cup ({key.root} \ {NoRoot})
    /\ UNCHANGED <<archive, backup, made, makers, entries, dismissed, begun, commands, histVars>>

Next ==
    \/ \E j \in Jobs :
        \/ Begin(j) \/ EnsureNativeKey(j) \/ TakeLock(j) \/ FindValue(j) \/ Encrypt(j)
        \/ WriteEntry(j) \/ Stored(j) \/ CancelPrompt(j) \/ Reveal(j)
    \/ \E p \in Procs :
        \/ EnterPhrase(p) \/ CancelPhrase(p)
        \/ CreateFile(p) \/ FillFile(p) \/ KeepKey(p) \/ CreateFails(p)
        \/ OpenOnboarding(p) \/ LeaveOnboarding(p) \/ PressStart(p) \/ PressGenerate(p)
        \/ AnswerReset(p) \/ AnswerWarning(p) \/ AnswerPhrase(p)
        \/ BackUp(p) \/ KeyInit(p) \/ KeyRestore(p) \/ CopyKey(p) \/ Crash(p)

Spec == Init /\ [][Next]_vars
-----------------------------------------------------------------------------
(* Properties *)

\* Whatever is replaced, fails half way or dies, an entry that was stored can
\* be opened with some envelope that is still on disk, unless the operator had
\* the key file deleted by key restore.
NothingLost ==
    LET enveloped == backup \cup {key.root} \cup {archive[t].root : t \in DOMAIN archive}
    IN \A n \in DOMAIN entries : entries[n].root \in enveloped \cup forsaken

\* The store of an interface reads a phrase from the terminal, which the
\* interface owns, in one case only: a key was replaced, or put in place by
\* another process, while a worker thread was storing.
NoTerminalPrompt == prompted => raced

\* Redaction passes a text on only when each of its secrets was stored, however
\* the key changes between two of them.
FailsClosed == ~leaked

\* One value is stored once per root, unless a cancelled prompt or another
\* process left a worker thread beside the next one, or the key was replaced
\* under one.
StoredOnce ==
    ~crowded /\ ~raced => \A m, n \in DOMAIN entries : m # n => entries[m] # entries[n]

\* The onboarding that lets an engagement start without asking has had the
\* phrase of the key that is in the key file acknowledged, not of an earlier
\* one, except where another interface on the key file has made a key: what it
\* puts there, or puts back, is not looked at again.
AcknowledgedKey ==
    \A p \in Procs :
        makers \subseteq {p} /\ keyReady[p] /\ Top(p, "onboarding") /\ key.st = "ok" => key.root \notin dismissed

\* The lock of the store is never left behind: its holder has a thread that
\* will wake it or a question on the screen, and every question on the screen
\* has a task that waits for it, whatever is cancelled or fails.
HolderWakes ==
    \A p \in Procs :
        /\ lock[p] # NoJob =>
            \/ job[lock[p]].pc = "thread" /\ thread[lock[p]].at # "none"
            \/ /\ job[lock[p]].pc = "phrase"
               /\ Modal("entry", lock[p], NoRoot) \in ToSet(screen[p])
        /\ \A n \in DOMAIN screen[p] :
            screen[p][n].name = "entry" => job[screen[p][n].job].pc \in {"asked", "phrase"}

\* What redaction leaves in the store: every secret of a text it has passed on,
\* and each of them once.
RedactionIsComplete == FailsClosed /\ StoredOnce

\* Locks, dialogs and acknowledgements at every instant.
KeystoreInv == TypeOK /\ HolderWakes /\ AcknowledgedKey
=============================================================================
