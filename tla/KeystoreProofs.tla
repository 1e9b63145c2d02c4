--------------------------- MODULE KeystoreProofs ---------------------------
(***************************************************************************)
(* What holds of the keystore for every number of processes, jobs, keys    *)
(* and secrets: no stored secret loses its envelope, redaction passes a    *)
(* text on only with its secrets stored, and each once, the interface asks *)
(* in its dialogs, and the lock of the store is never left behind.         *)
(***************************************************************************)
EXTENDS Keystore, SequenceTheorems, TLAPS

Given == 0..made
Held == {NoFile, Cut} \cup {Envelope(r) : r \in 1..made}
Steps == {"idle", "unlock", "asked", "lock", "phrase", "thread", "reveal"}
Tasks == [pc : Steps, todo : Seq(Secrets), text : SUBSET Secrets]
Threads == [at : {"none", "find", "encrypt", "write", "stored", "refused"},
            s : Secrets \cup {"none"}, root : Given]
Acts == [at : {"rest", "create", "fill", "keep", "copy"},
         root : Given, stamp : Seconds \cup {NoStamp}]
Modals == [name : {"entry", "onboarding", "warning", "reset", "phrase"},
           job : Jobs \cup {NoJob}, root : Given]
InThread(j) == thread[j].at \in {"find", "encrypt", "write"}
Lines == [s : Secrets, root : 1..made]

FilesTyped ==
    /\ made \in 0..MaxRoots
    /\ key \in Held
    /\ archive \in [Seconds -> Held]
    /\ backup \subseteq 1..made /\ forsaken \subseteq Given /\ dismissed \subseteq 1..made
    /\ entries \in Seq(Lines)

ProcsTyped ==
    /\ cache \in [Procs -> Given]
    /\ ready \in [Procs -> BOOLEAN] /\ keyReady \in [Procs -> BOOLEAN]
    /\ lock \in [Procs -> Jobs \cup {NoJob}]
    /\ act \in [Procs -> Acts]
    /\ screen \in [Procs -> Seq(Modals)]

JobsTyped ==
    /\ job \in [Jobs -> Tasks]
    /\ thread \in [Jobs -> Threads]

\* Who holds a lock, shows a dialog or replaces a key, and what a process that
\* makes or copies a key has in hand.
Placed ==
    \A p \in Procs :
        /\ lock[p] # NoJob => Owner[lock[p]] = p
        /\ p \notin Tui => screen[p] = <<>>
        /\ act[p].at = "rest" => act[p] = Resting
        /\ act[p].at # "rest" => act[p].root # NoRoot
        /\ p \notin Tui => act[p].stamp = NoStamp
        /\ p \in Tui => act[p].at # "copy"

\* What a worker thread works on.
Fed ==
    \A j \in Jobs :
        /\ InThread(j) => thread[j].s \in Secrets
        /\ thread[j].at = "write" => thread[j].root # NoRoot

Typed == FilesTyped /\ ProcsTyped /\ JobsTyped /\ Placed /\ Fed
-----------------------------------------------------------------------------
(* No secret loses its envelope *)

Enveloped == backup \cup {key.root} \cup {archive[t].root : t \in DOMAIN archive}
Safe == {NoRoot} \cup Enveloped \cup forsaken

\* A root that an entry has, or may be given, is in an envelope on disk.
Kept ==
    /\ \A n \in DOMAIN entries : entries[n].root \in Safe
    /\ \A p \in Procs : cache[p] \in Safe /\ (act[p].at = "keep" => act[p].root \in Safe)
    /\ \A j \in Jobs : thread[j].at = "write" => thread[j].root \in Safe
-----------------------------------------------------------------------------
(* The worker thread and the unlocked root *)

UsesKey(j) == thread[j].at \in {"find", "encrypt"}

\* A thread finds the key unlocked, or no key to ask for; a command that has
\* made its store ready has it unlocked.
Unlocked ==
    /\ \A p \in Procs : p \notin Tui /\ ready[p] => cache[p] # NoRoot
    /\ \A j \in Jobs : UsesKey(j) /\ ~raced =>
        \/ cache[Owner[j]] # NoRoot
        \/ Owner[j] \in Tui /\ key.st # "ok"
    /\ \A j \in Jobs : InThread(j) /\ act[Owner[j]].at = "keep" => raced

\* The value a thread is about to store is not there yet.
Unstored ==
    /\ ~crowded => \A i, j \in Jobs : InThread(i) /\ InThread(j) => i = j
    /\ ~crowded /\ ~raced => \A j \in Jobs : \A n \in DOMAIN entries :
        /\ thread[j].at = "encrypt" => entries[n] # [s |-> thread[j].s, root |-> cache[Owner[j]]]
        /\ thread[j].at = "write" => entries[n] # [s |-> thread[j].s, root |-> thread[j].root]
-----------------------------------------------------------------------------
(* The text of a job *)

InStore(s) == \E n \in DOMAIN entries : entries[n].s = s

\* The secrets of a text that are not stored are still to be stored, the first
\* of them by the thread.
Noted ==
    /\ \A j \in Jobs : \A s \in job[j].text : s \in ToSet(job[j].todo) \/ InStore(s)
    /\ \A j \in Jobs : job[j].pc \in {"unlock", "asked", "lock", "thread"} => job[j].todo # <<>>
    /\ \A j \in Jobs : job[j].pc = "thread" =>
        thread[j].at # "none" /\ thread[j].s = Head(job[j].todo)
    /\ \A j \in Jobs : thread[j].at = "stored" => InStore(thread[j].s)
-----------------------------------------------------------------------------
(* Dialogs *)

IsEntry(m) == m.name = "entry"

\* What is on a screen: questions of the jobs of the process, one of each, or
\* the onboarding first, with at most one dialog of its own second, and then
\* questions.
Stack(p, shown) ==
    /\ \A n \in DOMAIN shown :
        /\ shown[n].name = "onboarding" => n = 1
        /\ shown[n].name \in {"warning", "reset", "phrase"} =>
            n = 2 /\ shown[1].name = "onboarding"
        /\ shown[n].name = "phrase" => shown[n].root # NoRoot
        /\ IsEntry(shown[n]) =>
            /\ shown[n] = Modal("entry", shown[n].job, NoRoot)
            /\ shown[n].job \in Jobs /\ Owner[shown[n].job] = p
    /\ \A m, n \in DOMAIN shown :
        IsEntry(shown[m]) /\ IsEntry(shown[n]) /\ shown[m].job = shown[n].job => m = n

\* The onboarding is alone while a key is made.
Stacked ==
    \A p \in Procs :
        /\ Stack(p, screen[p])
        /\ p \in Tui /\ act[p].at # "rest" =>
            Len(screen[p]) = 1 /\ screen[p][1].name = "onboarding"

Questions(shown) == {m \in ToSet(shown) : IsEntry(m)}
-----------------------------------------------------------------------------
(* The phrase that the operator has *)

Making(p) == act[p].at \in {"create", "fill", "keep"}
Phrases(dialogs) == {m.root : m \in {d \in dialogs : d.name = "phrase"}}
Shown(p) == Phrases(ToSet(screen[p]))
Fresh(p) == Making(p) \/ Shown(p) # {}

\* A key that was made is not one whose phrase was dismissed, and while it is
\* made, its phrase shown, or after the operator said to have it, neither is
\* the one at the path or the one that a failure puts back, as long as no other
\* interface has made a key.
Acknowledged ==
    /\ \A p, q \in Procs :
        /\ Making(p) /\ Making(q) /\ act[p].root = act[q].root => p = q
        /\ Making(p) => act[p].root \notin Shown(q)
    /\ \A p \in Procs : Making(p) => act[p].root \notin dismissed
    /\ makers \subseteq Tui
    /\ \A p \in Tui :
        /\ Fresh(p) => p \in makers
        /\ makers \subseteq {p} =>
            /\ keyReady[p] \/ Fresh(p) => key.root \notin dismissed
            /\ keyReady[p] /\ act[p].stamp # NoStamp =>
                archive[act[p].stamp].root \notin dismissed

IInv == Typed /\ Kept /\ Unlocked /\ Unstored /\ Noted /\ Stacked /\ HolderWakes
        /\ Acknowledged /\ NoTerminalPrompt /\ FailsClosed /\ StoredOnce
-----------------------------------------------------------------------------
(* Types *)

\* A file of the key is absent, cut, or an envelope of a root; more of them
\* are possible with every root that is made.
LEMMA HeldFiles ==
    ASSUME made \in Nat
    PROVE  /\ NoFile \in Held /\ Cut \in Held
           /\ \A r \in 1..made : Envelope(r) \in Held
           /\ \A f \in Held :
                /\ f.root \in Given
                /\ f.st = "ok" <=> f.root # NoRoot
                /\ f.st = "none" <=> f = NoFile
                /\ f.st = "ok" => f.root \in 1..made
<1>1. NoFile \in Held /\ Cut \in Held /\ \A r \in 1..made : Envelope(r) \in Held
  BY DEF Held
<1>2. ASSUME NEW f \in Held
      PROVE  \/ f = NoFile
             \/ f = Cut
             \/ \E r \in 1..made : f = Envelope(r)
  BY DEF Held
<1>3. /\ NoFile.root = 0 /\ NoFile.st = "none"
      /\ Cut.root = 0 /\ Cut.st = "part"
      /\ \A r \in 1..made : Envelope(r).root = r /\ Envelope(r).st = "ok"
  BY DEF NoFile, Cut, Envelope, NoRoot
<1>4. ASSUME NEW f \in Held
      PROVE  /\ f.root \in Given
             /\ f.st = "ok" <=> f.root # NoRoot
             /\ f.st = "none" <=> f = NoFile
             /\ f.st = "ok" => f.root \in 1..made
  BY <1>2, <1>3 DEF Given, NoRoot
<1> QED  BY <1>1, <1>4

\* With more roots there are more files, numbers and roots to choose from.
LEMMA HeldGrows ==
    ASSUME made \in Nat, made' \in Nat, made <= made'
    PROVE  Held \subseteq Held' /\ Given \subseteq Given' /\ 1..made \subseteq 1..made'
  BY DEF Held, NoFile, Cut, Envelope, Given, NoRoot

\* The bounds of the model, and the number of roots, are numbers.
LEMMA Numbers ==
    ASSUME KeystoreAssumption, FilesTyped
    PROVE  made \in Nat /\ MaxRoots \in Nat /\ made <= MaxRoots
  BY DEF KeystoreAssumption, FilesTyped

\* The dialog on top, and what is left when it goes.
LEMMA TopDialog ==
    ASSUME ProcsTyped, NEW p \in Procs, screen[p] # <<>>
    PROVE  /\ Len(screen[p]) \in Nat /\ Len(screen[p]) \in DOMAIN screen[p]
           /\ DOMAIN screen[p] = 1..Len(screen[p])
           /\ Last(screen[p]) = screen[p][Len(screen[p])] /\ Last(screen[p]) \in Modals
           /\ Front(screen[p]) \in Seq(Modals)
           /\ Len(Front(screen[p])) = Len(screen[p]) - 1
           /\ DOMAIN Front(screen[p]) = 1 .. Len(screen[p]) - 1
           /\ \A n \in 1 .. Len(screen[p]) - 1 : Front(screen[p])[n] = screen[p][n]
<1> DEFINE shown == screen[p]
<1>1. shown \in Seq(Modals) /\ shown # <<>>
  BY DEF ProcsTyped
<1> HIDE DEF shown
<1>2. Len(shown) \in Nat /\ Len(shown) > 0 /\ DOMAIN shown = 1..Len(shown)
  BY <1>1
<1>3. \A n \in 1..Len(shown) : shown[n] \in Modals
  BY <1>1
<1>4. /\ Front(shown) \in Seq(Modals) /\ Len(Front(shown)) = Len(shown) - 1
      /\ \A n \in 1 .. Len(shown) - 1 : Front(shown)[n] = shown[n]
  BY <1>1, <1>2, <1>3, SubSeqProperties DEF Front
<1> QED  BY <1>2, <1>3, <1>4 DEF Last, shown

\* A question on top is one of a job of the process.
LEMMA TopEntry ==
    ASSUME ProcsTyped, Stacked, NEW p \in Procs, Top(p, "entry")
    PROVE  /\ Last(screen[p]).job \in Jobs /\ Owner[Last(screen[p]).job] = p
           /\ Last(screen[p]) = Modal("entry", Last(screen[p]).job, NoRoot)
           /\ screen[p] # <<>>
<1>1. screen[p] # <<>> /\ IsEntry(Last(screen[p]))
  BY DEF Top, IsEntry
<1> QED  BY <1>1, TopDialog DEF Stacked, Stack

\* The types of what the operator keeps change with the root that is made.
LEMMA FilesTypedStep ==
    ASSUME KeystoreAssumption, Typed, Stacked, [Next]_vars
    PROVE  FilesTyped'
<1>0. /\ made \in Nat /\ MaxRoots \in Nat /\ made <= MaxRoots
      /\ key \in Held /\ archive \in [Seconds -> Held]
      /\ NoFile \in Held /\ Cut \in Held /\ \A r \in 1..made : Envelope(r) \in Held
      /\ \A f \in Held : f.root \in Given
      /\ \A f \in Held : f.st = "ok" => f.root \in 1..made
  BY Numbers, HeldFiles DEF Typed, FilesTyped
<1>1. ASSUME UNCHANGED <<made, key, archive, backup, forsaken, dismissed, entries>>
      PROVE  FilesTyped'
  BY <1>1 DEF Typed, FilesTyped, Held, Given, Lines
<1>2. ASSUME UNCHANGED made, key' \in Held, archive' \in [Seconds -> Held], backup' \subseteq 1..made,
             forsaken' \subseteq Given, dismissed' \subseteq 1..made, UNCHANGED entries
      PROVE  FilesTyped'
  BY <1>2 DEF Typed, FilesTyped, Held, Given, Lines
<1>3. ASSUME made' = made + 1, made < MaxRoots, key' \in Held, archive' \in [Seconds -> Held],
             UNCHANGED <<backup, forsaken, dismissed, entries>>
      PROVE  FilesTyped'
  <2>1. made' \in 0..MaxRoots /\ made <= made'
    BY <1>0, <1>3
  <2>2. Held \subseteq Held' /\ Given \subseteq Given' /\ 1..made \subseteq 1..made'
    BY <1>0, <2>1, HeldGrows
  <2>3. Lines \subseteq Lines'
    BY <2>2 DEF Lines
  <2>4. entries' \in Seq(Lines')
    BY <1>3, <2>3, SeqMonotonic DEF Typed, FilesTyped
  <2>5. archive' \in [Seconds -> Held']
    BY <1>3, <2>2
  <2> QED  BY <1>3, <2>1, <2>2, <2>4, <2>5 DEF Typed, FilesTyped
<1>4. ASSUME NEW j \in Jobs, WriteEntry(j)  PROVE  FilesTyped'
  <2>1. UNCHANGED <<made, key, archive, backup, forsaken, dismissed>>
    BY <1>4 DEF WriteEntry, diskVars, uiVars
  <2>2. [s |-> thread[j].s, root |-> thread[j].root] \in Lines
    BY <1>4 DEF WriteEntry, Lines, Typed, Fed, InThread, JobsTyped, Threads, Given, NoRoot
  <2>3. entries' = entries \/ entries' = Append(entries, [s |-> thread[j].s, root |-> thread[j].root])
    BY <1>4 DEF WriteEntry
  <2>4. entries \in Seq(Lines)
    BY DEF Typed, FilesTyped
  <2>5. ASSUME NEW e \in Lines  PROVE  Append(entries, e) \in Seq(Lines)
    BY <2>4
  <2>6. entries' \in Seq(Lines)
    BY <2>2, <2>3, <2>4, <2>5
  <2> QED  BY <2>1, <2>6 DEF Typed, FilesTyped, Held, Given, Lines
<1>5. ASSUME NEW j \in Jobs, Begin(j)  PROVE  FilesTyped'
  BY <1>1, <1>5 DEF Begin, diskVars, uiVars
<1>6. ASSUME NEW j \in Jobs, EnsureNativeKey(j)  PROVE  FilesTyped'
  BY <1>1, <1>6 DEF EnsureNativeKey, diskVars
<1>7. ASSUME NEW j \in Jobs, TakeLock(j)  PROVE  FilesTyped'
  BY <1>1, <1>7 DEF TakeLock, diskVars
<1>8. ASSUME NEW j \in Jobs, FindValue(j)  PROVE  FilesTyped'
  BY <1>1, <1>8 DEF FindValue, diskVars, uiVars
<1>9. ASSUME NEW j \in Jobs, Encrypt(j)  PROVE  FilesTyped'
  BY <1>1, <1>9 DEF Encrypt, diskVars, uiVars
<1>10. ASSUME NEW j \in Jobs, Stored(j)  PROVE  FilesTyped'
  BY <1>1, <1>10 DEF Stored, diskVars, uiVars
<1>11. ASSUME NEW j \in Jobs, CancelPrompt(j)  PROVE  FilesTyped'
  BY <1>1, <1>11 DEF CancelPrompt, diskVars, uiVars
<1>12. ASSUME NEW j \in Jobs, Reveal(j)  PROVE  FilesTyped'
  BY <1>1, <1>12 DEF Reveal, diskVars
<1>13. ASSUME NEW p \in Procs, EnterPhrase(p)  PROVE  FilesTyped'
  BY <1>1, <1>13 DEF EnterPhrase, diskVars
<1>14. ASSUME NEW p \in Procs, CancelPhrase(p)  PROVE  FilesTyped'
  BY <1>1, <1>14 DEF CancelPhrase, diskVars
<1>15. ASSUME NEW p \in Procs, KeepKey(p)  PROVE  FilesTyped'
  BY <1>1, <1>15 DEF KeepKey, diskVars
<1>16. ASSUME NEW p \in Procs, OpenOnboarding(p)  PROVE  FilesTyped'
  BY <1>1, <1>16 DEF OpenOnboarding, diskVars, uiFrame
<1>17. ASSUME NEW p \in Procs, LeaveOnboarding(p)  PROVE  FilesTyped'
  BY <1>1, <1>17 DEF LeaveOnboarding, diskVars, uiFrame
<1>18. ASSUME NEW p \in Procs, PressStart(p)  PROVE  FilesTyped'
  BY <1>1, <1>18 DEF PressStart, diskVars, uiFrame
<1>19. ASSUME NEW p \in Procs, CreateFile(p)  PROVE  FilesTyped'
  <2>1. UNCHANGED <<made, entries>> /\ key' \in Held /\ archive' \in [Seconds -> Held]
    BY <1>0, <1>19 DEF CreateFile, uiVars, Typed, FilesTyped, ProcsTyped, Placed, Acts, Given, NoRoot,
         NoStamp
  <2>2. backup' \subseteq 1..made /\ forsaken' \subseteq Given /\ dismissed' \subseteq 1..made
    BY <1>0, <1>19 DEF CreateFile, uiVars, Typed, FilesTyped, ProcsTyped, Placed, Acts, Given, NoRoot,
         NoStamp
  <2> QED  BY <2>1, <2>2, <1>2
<1>20. ASSUME NEW p \in Procs, FillFile(p)  PROVE  FilesTyped'
  <2>1. UNCHANGED <<made, entries>> /\ key' \in Held /\ archive' \in [Seconds -> Held]
    BY <1>0, <1>20 DEF FillFile, uiVars, Typed, FilesTyped, ProcsTyped, Placed, Acts, Given, NoRoot, NoStamp
  <2>2. backup' \subseteq 1..made /\ forsaken' \subseteq Given /\ dismissed' \subseteq 1..made
    BY <1>0, <1>20 DEF FillFile, uiVars, Typed, FilesTyped, ProcsTyped, Placed, Acts, Given, NoRoot, NoStamp
  <2> QED  BY <2>1, <2>2, <1>2
<1>21. ASSUME NEW p \in Procs, CreateFails(p)  PROVE  FilesTyped'
  <2>0. act[p].stamp \in Seconds \cup {NoStamp}
    BY DEF Typed, ProcsTyped, Acts
  <2>1. UNCHANGED <<made, entries>> /\ key' \in Held /\ archive' \in [Seconds -> Held]
    <3>1. CASE RollBack(p) /\ act[p].stamp # NoStamp
      BY <1>0, <1>21, <2>0, <3>1 DEF CreateFails, RollBack
    <3>2. CASE UNCHANGED <<key, archive>>
      BY <1>0, <1>21, <3>2 DEF CreateFails
    <3> QED  BY <1>21, <3>1, <3>2 DEF CreateFails
  <2>2. backup' \subseteq 1..made /\ forsaken' \subseteq Given /\ dismissed' \subseteq 1..made
    BY <1>0, <1>21 DEF CreateFails, RollBack, Typed, FilesTyped, ProcsTyped, Placed, Acts, Given, NoRoot,
         NoStamp
  <2> QED  BY <2>1, <2>2, <1>2
<1>22. ASSUME NEW p \in Procs, PressGenerate(p)  PROVE  FilesTyped'
  BY <1>0, <1>1, <1>3, <1>22 DEF PressGenerate, diskVars, uiFrame, Generates, NoFile
<1>23. ASSUME NEW p \in Procs, AnswerReset(p)  PROVE  FilesTyped'
  BY <1>0, <1>1, <1>3, <1>23 DEF AnswerReset, diskVars, uiFrame, Generates, Replaces, NoFile
<1>24. ASSUME NEW p \in Procs, AnswerWarning(p)  PROVE  FilesTyped'
  <2>1. UNCHANGED <<made, entries>> /\ key' \in Held /\ archive' \in [Seconds -> Held]
    BY <1>0, <1>24 DEF AnswerWarning, diskVars, uiFrame, Typed, FilesTyped, ProcsTyped, Placed, Acts,
         Given, NoRoot, NoStamp
  <2>2. backup' \subseteq 1..made /\ forsaken' \subseteq Given /\ dismissed' \subseteq 1..made
    BY <1>0, <1>24 DEF AnswerWarning, diskVars, uiFrame, Typed, FilesTyped, ProcsTyped, Placed, Acts,
         Given, NoRoot, NoStamp
  <2> QED  BY <2>1, <2>2, <1>2
<1>25. ASSUME NEW p \in Procs, AnswerPhrase(p)  PROVE  FilesTyped'
  <2>1. UNCHANGED <<made, entries>> /\ key' \in Held /\ archive' \in [Seconds -> Held]
    BY <1>0, <1>25 DEF AnswerPhrase, diskVars, uiFrame, Typed, FilesTyped, ProcsTyped, Placed, Acts, Given,
         NoRoot, NoStamp
  <2>2. screen[p] # <<>> /\ Last(screen[p]).name = "phrase"
    BY <1>25 DEF AnswerPhrase, Top
  <2>3. Last(screen[p]).root \in 1..made
    BY <2>2, TopDialog DEF Typed, Modals, Given, NoRoot, Stacked, Stack
  <2>4. backup' \subseteq 1..made /\ forsaken' \subseteq Given /\ dismissed' \subseteq 1..made
    BY <2>3, <1>25 DEF AnswerPhrase, diskVars, uiFrame, Typed, FilesTyped
  <2> QED  BY <2>1, <2>4, <1>2
<1>26. ASSUME NEW p \in Procs, BackUp(p)  PROVE  FilesTyped'
  <2>1. UNCHANGED <<made, entries>> /\ key' \in Held /\ archive' \in [Seconds -> Held]
    BY <1>0, <1>26 DEF BackUp, uiFrame, uiVars, Typed, FilesTyped, ProcsTyped, Placed, Acts, Given, NoRoot,
         NoStamp
  <2>2. backup' \subseteq 1..made /\ forsaken' \subseteq Given /\ dismissed' \subseteq 1..made
    BY <1>0, <1>26 DEF BackUp, uiFrame, uiVars, Typed, FilesTyped, ProcsTyped, Placed, Acts, Given, NoRoot,
         NoStamp
  <2> QED  BY <2>1, <2>2, <1>2
<1>27. ASSUME NEW p \in Procs, KeyInit(p)  PROVE  FilesTyped'
  BY <1>0, <1>3, <1>27 DEF KeyInit, uiFrame, uiVars, Generates
<1>28. ASSUME NEW p \in Procs, KeyRestore(p)  PROVE  FilesTyped'
  <2>1. UNCHANGED <<made, entries>> /\ key' \in Held /\ archive' \in [Seconds -> Held]
    BY <1>0, <1>28 DEF KeyRestore, uiFrame, uiVars, Typed, FilesTyped, ProcsTyped, Placed, Acts, Given,
         NoRoot, NoStamp
  <2>2. backup' \subseteq 1..made /\ forsaken' \subseteq Given /\ dismissed' \subseteq 1..made
    BY <1>0, <1>28 DEF KeyRestore, uiFrame, uiVars, Typed, FilesTyped, ProcsTyped, Placed, Acts, Given,
         NoRoot, NoStamp
  <2> QED  BY <2>1, <2>2, <1>2
<1>29. ASSUME NEW p \in Procs, CopyKey(p)  PROVE  FilesTyped'
  <2>1. UNCHANGED <<made, entries>> /\ key' \in Held /\ archive' \in [Seconds -> Held]
    BY <1>0, <1>29 DEF CopyKey, uiFrame, Typed, FilesTyped, ProcsTyped, Placed, Acts, Given, NoRoot, NoStamp
  <2>2. backup' \subseteq 1..made /\ forsaken' \subseteq Given /\ dismissed' \subseteq 1..made
    BY <1>0, <1>29 DEF CopyKey, uiFrame, Typed, FilesTyped, ProcsTyped, Placed, Acts, Given, NoRoot, NoStamp
  <2> QED  BY <2>1, <2>2, <1>2
<1>30. ASSUME NEW p \in Procs, Crash(p)  PROVE  FilesTyped'
  <2>1. UNCHANGED <<made, entries>> /\ key' \in Held /\ archive' \in [Seconds -> Held]
    BY <1>0, <1>30 DEF Crash, Typed, FilesTyped, ProcsTyped, Placed, Acts, Given, NoRoot, NoStamp
  <2>2. backup' \subseteq 1..made /\ forsaken' \subseteq Given /\ dismissed' \subseteq 1..made
    BY <1>0, <1>30 DEF Crash, Typed, FilesTyped, ProcsTyped, Placed, Acts, Given, NoRoot, NoStamp
  <2> QED  BY <2>1, <2>2, <1>2
<1>31. CASE UNCHANGED vars
  BY <1>1, <1>31 DEF vars, diskVars, uiVars
<1> QED  BY <1>4, <1>5, <1>6, <1>7, <1>8, <1>9, <1>10, <1>11, <1>12, <1>13, <1>14, <1>15, <1>16, <1>17,
     <1>18, <1>19, <1>20, <1>21, <1>22, <1>23, <1>24, <1>25, <1>26, <1>27, <1>28, <1>29, <1>30,
     <1>31 DEF Next

\* A stack of dialogs stays one when a dialog is put on it or taken away.
LEMMA StackTyped ==
    /\ <<>> \in Seq(Modals)
    /\ \A shown \in Seq(Modals) : Front(shown) \in Seq(Modals)
    /\ \A shown \in Seq(Modals), m \in Modals : Append(shown, m) \in Seq(Modals)
<1>1. ASSUME NEW shown \in Seq(Modals)  PROVE  Front(shown) \in Seq(Modals)
  <2>1. Len(shown) \in Nat /\ \A n \in 1 .. Len(shown) - 1 : shown[n] \in Modals
    OBVIOUS
  <2> QED  BY <2>1, SubSeqProperties DEF Front
<1> QED  BY <1>1

\* What the model puts on a screen is a dialog.
LEMMA ModalTyped ==
    ASSUME made \in Nat
    PROVE  /\ \A j \in Jobs : Modal("entry", j, NoRoot) \in Modals
           /\ \A r \in Given : Modal("phrase", NoJob, r) \in Modals
           /\ \A name \in {"onboarding", "warning", "reset"} : Modal(name, NoJob, NoRoot) \in Modals
  BY DEF Modal, Modals, Given, NoRoot

\* Screens keep their type in every step that makes no root; those that do
\* leave them, or take a dialog away.
LEMMA ScreenTypedStep ==
    ASSUME KeystoreAssumption, Typed, [Next]_vars
    PROVE  screen' \in [Procs -> Seq(Modals)]
<1>0. made \in Nat /\ ProcsTyped /\ screen \in [Procs -> Seq(Modals)]
  BY Numbers DEF Typed, ProcsTyped
<1>1. ASSUME UNCHANGED screen  PROVE  screen' \in [Procs -> Seq(Modals)]
  BY <1>0, <1>1
<1>2. /\ Owner \in [Jobs -> Procs]
      /\ <<>> \in Seq(Modals)
      /\ \A shown \in Seq(Modals) : Front(shown) \in Seq(Modals)
      /\ \A shown \in Seq(Modals), m \in Modals : Append(shown, m) \in Seq(Modals)
  BY StackTyped DEF KeystoreAssumption
<1>3. ASSUME NEW p \in Procs, NEW shown \in Seq(Modals), screen' = [screen EXCEPT ![p] = shown]
      PROVE  screen' \in [Procs -> Seq(Modals)]
  BY <1>0, <1>3
<1>4. ASSUME NEW p \in Procs, \/ Pop(p) \/ screen' = [screen EXCEPT ![p] = Front(Front(@))]
      PROVE  screen' \in [Procs -> Seq(Modals)]
  <2>1. Front(screen[p]) \in Seq(Modals) /\ Front(Front(screen[p])) \in Seq(Modals)
    BY <1>0, <1>2
  <2> QED  BY <1>3, <1>4, <2>1 DEF Pop
<1>5. ASSUME NEW p \in Procs, NEW name \in {"onboarding", "warning", "reset"},
             Open(p, name) \/ Turn(p, name)
      PROVE  screen' \in [Procs -> Seq(Modals)]
  <2>1. Modal(name, NoJob, NoRoot) \in Modals
    BY <1>0, ModalTyped
  <2>2. /\ Append(screen[p], Modal(name, NoJob, NoRoot)) \in Seq(Modals)
        /\ Append(Front(screen[p]), Modal(name, NoJob, NoRoot)) \in Seq(Modals)
    BY <1>0, <1>2, <2>1
  <2> QED  BY <1>3, <1>5, <2>2 DEF Open, Turn
<1>6. ASSUME NEW j \in Jobs, Begin(j)  PROVE  screen' \in [Procs -> Seq(Modals)]
  BY <1>1, <1>6 DEF Begin, uiVars
<1>7. ASSUME NEW j \in Jobs, EnsureNativeKey(j)  PROVE  screen' \in [Procs -> Seq(Modals)]
  <2>1. UNCHANGED screen \/ screen' = [screen EXCEPT ![Owner[j]] = Append(@, Modal("entry", j, NoRoot))]
    BY <1>7 DEF EnsureNativeKey, Ask
  <2>2. Append(screen[Owner[j]], Modal("entry", j, NoRoot)) \in Seq(Modals)
    BY <1>0, <1>2, ModalTyped
  <2> QED  BY <1>1, <1>2, <1>3, <2>1, <2>2
<1>8. ASSUME NEW j \in Jobs, TakeLock(j)  PROVE  screen' \in [Procs -> Seq(Modals)]
  <2>1. UNCHANGED screen \/ screen' = [screen EXCEPT ![Owner[j]] = Append(@, Modal("entry", j, NoRoot))]
    BY <1>8 DEF TakeLock, Ask
  <2>2. Append(screen[Owner[j]], Modal("entry", j, NoRoot)) \in Seq(Modals)
    BY <1>0, <1>2, ModalTyped
  <2> QED  BY <1>1, <1>2, <1>3, <2>1, <2>2
<1>9. ASSUME NEW j \in Jobs, FindValue(j)  PROVE  screen' \in [Procs -> Seq(Modals)]
  BY <1>1, <1>9 DEF FindValue, uiVars
<1>10. ASSUME NEW j \in Jobs, Encrypt(j)  PROVE  screen' \in [Procs -> Seq(Modals)]
  BY <1>1, <1>10 DEF Encrypt, uiVars
<1>11. ASSUME NEW j \in Jobs, WriteEntry(j)  PROVE  screen' \in [Procs -> Seq(Modals)]
  BY <1>1, <1>11 DEF WriteEntry, uiVars, procVars
<1>12. ASSUME NEW j \in Jobs, Stored(j)  PROVE  screen' \in [Procs -> Seq(Modals)]
  BY <1>1, <1>12 DEF Stored, uiVars
<1>13. ASSUME NEW j \in Jobs, CancelPrompt(j)  PROVE  screen' \in [Procs -> Seq(Modals)]
  BY <1>1, <1>13 DEF CancelPrompt, uiVars
<1>14. ASSUME NEW j \in Jobs, Reveal(j)  PROVE  screen' \in [Procs -> Seq(Modals)]
  <2>1. UNCHANGED screen \/ screen' = [screen EXCEPT ![Owner[j]] = Append(@, Modal("entry", j, NoRoot))]
    BY <1>14 DEF Reveal, Ask
  <2>2. Append(screen[Owner[j]], Modal("entry", j, NoRoot)) \in Seq(Modals)
    BY <1>0, <1>2, ModalTyped
  <2> QED  BY <1>1, <1>2, <1>3, <2>1, <2>2
<1>15. ASSUME NEW p \in Procs, EnterPhrase(p)  PROVE  screen' \in [Procs -> Seq(Modals)]
  <2>1. Pop(p)
    BY <1>15 DEF EnterPhrase
  <2> QED  BY <1>1, <1>2, <1>3, <1>4, <1>5, <2>1
<1>16. ASSUME NEW p \in Procs, CancelPhrase(p)  PROVE  screen' \in [Procs -> Seq(Modals)]
  <2>1. Pop(p)
    BY <1>16 DEF CancelPhrase
  <2> QED  BY <1>1, <1>2, <1>3, <1>4, <1>5, <2>1
<1>17. ASSUME NEW p \in Procs, CreateFile(p)  PROVE  screen' \in [Procs -> Seq(Modals)]
  BY <1>1, <1>17 DEF CreateFile, uiVars
<1>18. ASSUME NEW p \in Procs, FillFile(p)  PROVE  screen' \in [Procs -> Seq(Modals)]
  BY <1>1, <1>18 DEF FillFile, uiVars
<1>19. ASSUME NEW p \in Procs, KeepKey(p)  PROVE  screen' \in [Procs -> Seq(Modals)]
  <2>1. Modal("phrase", NoJob, act[p].root) \in Modals
    BY <1>0, ModalTyped DEF ProcsTyped, Acts
  <2>2. Append(screen[p], Modal("phrase", NoJob, act[p].root)) \in Seq(Modals)
    BY <1>0, <1>2, <2>1
  <2> QED  BY <1>1, <1>3, <1>19, <2>2 DEF KeepKey
<1>20. ASSUME NEW p \in Procs, CreateFails(p)  PROVE  screen' \in [Procs -> Seq(Modals)]
  <2>1. UNCHANGED screen \/ screen' = [screen EXCEPT ![p] = <<>>]
    BY <1>20 DEF CreateFails, End
  <2> QED  BY <1>1, <1>2, <1>3, <1>4, <1>5, <2>1
<1>21. ASSUME NEW p \in Procs, OpenOnboarding(p)  PROVE  screen' \in [Procs -> Seq(Modals)]
  <2>1. Open(p, "onboarding")
    BY <1>21 DEF OpenOnboarding
  <2> QED  BY <1>1, <1>2, <1>3, <1>4, <1>5, <2>1
<1>22. ASSUME NEW p \in Procs, LeaveOnboarding(p)  PROVE  screen' \in [Procs -> Seq(Modals)]
  <2>1. Pop(p)
    BY <1>22 DEF LeaveOnboarding
  <2> QED  BY <1>1, <1>2, <1>3, <1>4, <1>5, <2>1
<1>23. ASSUME NEW p \in Procs, PressStart(p)  PROVE  screen' \in [Procs -> Seq(Modals)]
  <2>1. Open(p, "warning") \/ Pop(p)
    BY <1>23 DEF PressStart
  <2> QED  BY <1>1, <1>2, <1>3, <1>4, <1>5, <2>1
<1>24. ASSUME NEW p \in Procs, PressGenerate(p)  PROVE  screen' \in [Procs -> Seq(Modals)]
  <2>1. Open(p, "reset") \/ UNCHANGED screen
    BY <1>24 DEF PressGenerate
  <2> QED  BY <1>1, <1>2, <1>3, <1>4, <1>5, <2>1
<1>25. ASSUME NEW p \in Procs, AnswerReset(p)  PROVE  screen' \in [Procs -> Seq(Modals)]
  <2>1. Pop(p)
    BY <1>25 DEF AnswerReset
  <2> QED  BY <1>1, <1>2, <1>3, <1>4, <1>5, <2>1
<1>26. ASSUME NEW p \in Procs, AnswerWarning(p)  PROVE  screen' \in [Procs -> Seq(Modals)]
  <2>1. Pop(p) \/ Turn(p, "reset") \/ screen' = [screen EXCEPT ![p] = Front(Front(@))]
    BY <1>26 DEF AnswerWarning
  <2> QED  BY <1>1, <1>2, <1>3, <1>4, <1>5, <2>1
<1>27. ASSUME NEW p \in Procs, AnswerPhrase(p)  PROVE  screen' \in [Procs -> Seq(Modals)]
  <2>1. Pop(p) \/ screen' = [screen EXCEPT ![p] = Front(Front(@))]
    BY <1>27 DEF AnswerPhrase
  <2> QED  BY <1>1, <1>2, <1>3, <1>4, <1>5, <2>1
<1>28. ASSUME NEW p \in Procs, BackUp(p)  PROVE  screen' \in [Procs -> Seq(Modals)]
  BY <1>1, <1>28 DEF BackUp, uiVars
<1>29. ASSUME NEW p \in Procs, KeyInit(p)  PROVE  screen' \in [Procs -> Seq(Modals)]
  BY <1>1, <1>29 DEF KeyInit, uiVars
<1>30. ASSUME NEW p \in Procs, KeyRestore(p)  PROVE  screen' \in [Procs -> Seq(Modals)]
  BY <1>1, <1>30 DEF KeyRestore, uiVars
<1>31. ASSUME NEW p \in Procs, CopyKey(p)  PROVE  screen' \in [Procs -> Seq(Modals)]
  BY <1>1, <1>31 DEF CopyKey
<1>32. ASSUME NEW p \in Procs, Crash(p)  PROVE  screen' \in [Procs -> Seq(Modals)]
  <2>1. screen' = [screen EXCEPT ![p] = <<>>]
    BY <1>32 DEF Crash, End
  <2> QED  BY <1>1, <1>2, <1>3, <1>4, <1>5, <2>1
<1>33. CASE UNCHANGED vars
  BY <1>1, <1>33 DEF vars, uiVars
<1> QED  BY <1>6, <1>7, <1>8, <1>9, <1>10, <1>11, <1>12, <1>13, <1>14, <1>15, <1>16, <1>17, <1>18, <1>19,
     <1>20, <1>21, <1>22, <1>23, <1>24, <1>25, <1>26, <1>27, <1>28, <1>29, <1>30, <1>31, <1>32,
     <1>33 DEF Next

\* So do the unlocked roots, the locks and what a process does with the key.
LEMMA ProcsTypedStep ==
    ASSUME KeystoreAssumption, Typed, Stacked, [Next]_vars
    PROVE  ProcsTyped'
<1>0. /\ made \in Nat /\ screen' \in [Procs -> Seq(Modals)]
      /\ cache \in [Procs -> Given] /\ ready \in [Procs -> BOOLEAN] /\ keyReady \in [Procs -> BOOLEAN]
      /\ lock \in [Procs -> Jobs \cup {NoJob}] /\ act \in [Procs -> Acts] /\ Owner \in [Jobs -> Procs]
      /\ key.root \in Given
  BY Numbers, HeldFiles, ScreenTypedStep DEF Typed, FilesTyped, ProcsTyped, KeystoreAssumption
<1>1. ASSUME UNCHANGED made, cache' \in [Procs -> Given], ready' \in [Procs -> BOOLEAN],
             keyReady' \in [Procs -> BOOLEAN], lock' \in [Procs -> Jobs \cup {NoJob}],
             act' \in [Procs -> Acts]
      PROVE  ProcsTyped'
  BY <1>0, <1>1 DEF ProcsTyped, Modals, Acts, Given
<1>2. ASSUME NEW p \in Procs, NEW t \in Seconds \cup {NoStamp}, Generates(p, t),
             cache' \in [Procs -> Given], UNCHANGED <<ready, keyReady, lock>>
      PROVE  ProcsTyped'
  <2>1. made' = made + 1
    BY <1>2 DEF Generates
  <2>2. Given \subseteq Given' /\ made + 1 \in Given'
    BY <1>0, <2>1 DEF Given
  <2>3. Acts \subseteq Acts' /\ Modals \subseteq Modals'
    BY <2>2 DEF Acts, Modals
  <2>4. \A p_1 \in Procs : screen'[p_1] \in Seq(Modals')
    BY <1>0, <2>3, SeqMonotonic
  <2>5. screen' \in [Procs -> Seq(Modals')]
    BY <1>0, <2>4
  <2>6. [at |-> "create", root |-> made + 1, stamp |-> t] \in Acts'
    BY <2>2 DEF Acts
  <2>7. act' \in [Procs -> Acts']
    BY <1>0, <1>2, <2>3, <2>6 DEF Generates
  <2>8. cache' \in [Procs -> Given']
    BY <1>2, <2>2
  <2> QED  BY <1>0, <1>2, <2>5, <2>7, <2>8 DEF ProcsTyped
<1>3. Resting \in Acts /\ NoRoot \in Given /\ NoStamp \in Seconds \cup {NoStamp}
  BY <1>0 DEF Resting, Acts, Given, NoRoot, NoStamp
<1>4. \A p \in Procs : RootKeys(p) \subseteq Given
  BY <1>0, <1>3 DEF RootKeys
<1>u. ASSUME NEW p \in Procs, NEW r, Uses(p, r)  PROVE  cache' \in [Procs -> Given]
  BY <1>0, <1>4, <1>u DEF Uses
<1>l. ASSUME NEW p \in Procs, NEW j \in Jobs,
             \/ UNCHANGED lock
             \/ lock' = [lock EXCEPT ![p] = NoJob]
             \/ lock' = [lock EXCEPT ![Owner[j]] = j]
      PROVE  lock' \in [Procs -> Jobs \cup {NoJob}]
  <2>1. lock \in [Procs -> Jobs \cup {NoJob}] /\ Owner[j] \in Procs
    BY <1>0
  <2> QED  BY <1>l, <2>1
<1>5. ASSUME NEW p \in Procs, End(p), UNCHANGED made  PROVE  ProcsTyped'
  BY <1>0, <1>1, <1>3, <1>5 DEF End
<1>6. ASSUME NEW p \in Procs, NEW a \in {"fill", "keep"}
      PROVE  [act EXCEPT ![p].at = a] \in [Procs -> Acts]
  <2>1. act \in [Procs -> Acts] /\ act[p] \in Acts
    BY <1>0
  <2>2. [act[p] EXCEPT !.at = a] \in Acts
    BY <2>1 DEF Acts
  <2> QED  BY <2>1, <2>2
<1>7. ASSUME NEW j \in Jobs, Begin(j)  PROVE  ProcsTyped'
  BY <1>0, <1>1, <1>3, <1>4, <1>7 DEF Begin, uiVars, diskVars
<1>8. ASSUME NEW j \in Jobs, EnsureNativeKey(j)  PROVE  ProcsTyped'
  BY <1>0, <1>1, <1>3, <1>4, <1>8 DEF EnsureNativeKey, diskVars, procVars
<1>9. ASSUME NEW j \in Jobs, TakeLock(j)  PROVE  ProcsTyped'
  <2>1. UNCHANGED made /\ ready' \in [Procs -> BOOLEAN] /\ keyReady' \in [Procs -> BOOLEAN]
    BY <1>0, <1>9 DEF TakeLock, diskVars, Store, Ask
  <2>2. cache' \in [Procs -> Given]
    BY <1>0, <1>u, <1>9 DEF TakeLock
  <2>3. lock' \in [Procs -> Jobs \cup {NoJob}]
    <3>1. UNCHANGED lock \/ lock' = [lock EXCEPT ![Owner[j]] = j]
      BY <1>9 DEF TakeLock, Store
    <3> QED  BY <1>0, <1>l, <3>1
  <2>4. act' \in [Procs -> Acts]
    BY <1>0, <1>3, <1>6, <1>9 DEF TakeLock
  <2> QED  BY <1>0, <1>1, <2>1, <2>2, <2>3, <2>4
<1>10. ASSUME NEW j \in Jobs, FindValue(j)  PROVE  ProcsTyped'
  <2>1. UNCHANGED made /\ ready' \in [Procs -> BOOLEAN] /\ keyReady' \in [Procs -> BOOLEAN]
    BY <1>0, <1>10 DEF FindValue, uiVars, diskVars
  <2>2. cache' \in [Procs -> Given]
    BY <1>0, <1>u, <1>10 DEF FindValue
  <2>3. lock' \in [Procs -> Jobs \cup {NoJob}]
    BY <1>0, <1>10 DEF FindValue
  <2>4. act' \in [Procs -> Acts]
    BY <1>0, <1>3, <1>6, <1>10 DEF FindValue
  <2> QED  BY <1>0, <1>1, <2>1, <2>2, <2>3, <2>4
<1>11. ASSUME NEW j \in Jobs, Encrypt(j)  PROVE  ProcsTyped'
  BY <1>0, <1>1, <1>3, <1>4, <1>11 DEF Encrypt, uiVars, diskVars, Uses
<1>12. ASSUME NEW j \in Jobs, WriteEntry(j)  PROVE  ProcsTyped'
  BY <1>0, <1>1, <1>3, <1>4, <1>12 DEF WriteEntry, uiVars, diskVars, procVars
<1>13. ASSUME NEW j \in Jobs, Stored(j)  PROVE  ProcsTyped'
  BY <1>0, <1>1, <1>3, <1>4, <1>13 DEF Stored, uiVars, diskVars, Release
<1>14. ASSUME NEW j \in Jobs, CancelPrompt(j)  PROVE  ProcsTyped'
  BY <1>0, <1>1, <1>3, <1>4, <1>14 DEF CancelPrompt, uiVars, diskVars
<1>15. ASSUME NEW j \in Jobs, Reveal(j)  PROVE  ProcsTyped'
  <2>1. UNCHANGED made /\ ready' \in [Procs -> BOOLEAN] /\ keyReady' \in [Procs -> BOOLEAN]
    BY <1>0, <1>15 DEF Reveal, diskVars, Ask
  <2>2. cache' \in [Procs -> Given]
    BY <1>0, <1>u, <1>15 DEF Reveal
  <2>3. lock' \in [Procs -> Jobs \cup {NoJob}]
    <3>1. UNCHANGED lock \/ lock' = [lock EXCEPT ![Owner[j]] = j]
      BY <1>15 DEF Reveal
    <3> QED  BY <1>0, <1>l, <3>1
  <2>4. act' \in [Procs -> Acts]
    BY <1>0, <1>3, <1>6, <1>15 DEF Reveal
  <2> QED  BY <1>0, <1>1, <2>1, <2>2, <2>3, <2>4
<1>16. ASSUME NEW p \in Procs, EnterPhrase(p)  PROVE  ProcsTyped'
  <2>1. UNCHANGED made /\ ready' \in [Procs -> BOOLEAN] /\ keyReady' \in [Procs -> BOOLEAN]
    BY <1>0, <1>16 DEF EnterPhrase, diskVars, Store, Release
  <2>2. cache' \in [Procs -> Given]
    BY <1>0, <1>3, <1>4, <1>16 DEF EnterPhrase, Acts
  <2>3. lock' \in [Procs -> Jobs \cup {NoJob}]
    <3>1. Last(screen[p]).job \in Jobs
      BY <1>16, TopEntry DEF EnterPhrase, Typed
    <3>2. \/ UNCHANGED lock
          \/ lock' = [lock EXCEPT ![p] = NoJob]
          \/ lock' = [lock EXCEPT ![Owner[Last(screen[p]).job]] = Last(screen[p]).job]
      BY <1>16 DEF EnterPhrase, Store, Release
    <3> QED  BY <1>l, <3>1, <3>2
  <2>4. act' \in [Procs -> Acts]
    BY <1>0, <1>3, <1>6, <1>16 DEF EnterPhrase
  <2> QED  BY <1>0, <1>1, <2>1, <2>2, <2>3, <2>4
<1>17. ASSUME NEW p \in Procs, CancelPhrase(p)  PROVE  ProcsTyped'
  BY <1>0, <1>1, <1>3, <1>4, <1>17 DEF CancelPhrase, diskVars
<1>18. ASSUME NEW p \in Procs, CreateFile(p)  PROVE  ProcsTyped'
  <2>1. UNCHANGED made /\ ready' \in [Procs -> BOOLEAN] /\ keyReady' \in [Procs -> BOOLEAN]
    BY <1>0, <1>18 DEF CreateFile, uiVars
  <2>2. cache' \in [Procs -> Given]
    BY <1>0, <1>3, <1>4, <1>18 DEF CreateFile, Acts
  <2>3. lock' \in [Procs -> Jobs \cup {NoJob}]
    BY <1>0, <1>18 DEF CreateFile
  <2>4. act' \in [Procs -> Acts]
    BY <1>0, <1>3, <1>6, <1>18 DEF CreateFile
  <2> QED  BY <1>0, <1>1, <2>1, <2>2, <2>3, <2>4
<1>19. ASSUME NEW p \in Procs, FillFile(p)  PROVE  ProcsTyped'
  <2>1. UNCHANGED made /\ ready' \in [Procs -> BOOLEAN] /\ keyReady' \in [Procs -> BOOLEAN]
    BY <1>0, <1>19 DEF FillFile, uiVars
  <2>2. cache' \in [Procs -> Given]
    BY <1>0, <1>3, <1>4, <1>19 DEF FillFile, Acts
  <2>3. lock' \in [Procs -> Jobs \cup {NoJob}]
    BY <1>0, <1>19 DEF FillFile
  <2>4. act' \in [Procs -> Acts]
    BY <1>0, <1>3, <1>6, <1>19 DEF FillFile
  <2> QED  BY <1>0, <1>1, <2>1, <2>2, <2>3, <2>4
<1>20. ASSUME NEW p \in Procs, KeepKey(p)  PROVE  ProcsTyped'
  <2>1. UNCHANGED made /\ ready' \in [Procs -> BOOLEAN] /\ keyReady' \in [Procs -> BOOLEAN]
    BY <1>0, <1>20 DEF KeepKey, diskVars
  <2>2. cache' \in [Procs -> Given]
    BY <1>0, <1>3, <1>4, <1>20 DEF KeepKey, Acts
  <2>3. lock' \in [Procs -> Jobs \cup {NoJob}]
    BY <1>0, <1>20 DEF KeepKey
  <2>4. act' \in [Procs -> Acts]
    BY <1>0, <1>3, <1>6, <1>20 DEF KeepKey
  <2> QED  BY <1>0, <1>1, <2>1, <2>2, <2>3, <2>4
<1>21. ASSUME NEW p \in Procs, CreateFails(p)  PROVE  ProcsTyped'
  <2>1. UNCHANGED made
    BY <1>21 DEF CreateFails
  <2>2. CASE act' = [act EXCEPT ![p] = Resting] /\ UNCHANGED <<cache, ready, lock, keyReady>>
    BY <1>0, <1>1, <1>3, <2>1, <2>2
  <2> QED  BY <1>5, <1>21, <2>1, <2>2 DEF CreateFails
<1>22. ASSUME NEW p \in Procs, OpenOnboarding(p)  PROVE  ProcsTyped'
  BY <1>0, <1>1, <1>3, <1>4, <1>22 DEF OpenOnboarding, diskVars, uiFrame
<1>23. ASSUME NEW p \in Procs, LeaveOnboarding(p)  PROVE  ProcsTyped'
  BY <1>0, <1>1, <1>3, <1>4, <1>23 DEF LeaveOnboarding, diskVars, uiFrame
<1>24. ASSUME NEW p \in Procs, PressStart(p)  PROVE  ProcsTyped'
  BY <1>0, <1>1, <1>3, <1>4, <1>24 DEF PressStart, diskVars, uiFrame
<1>25. ASSUME NEW p \in Procs, PressGenerate(p)  PROVE  ProcsTyped'
  BY <1>0, <1>1, <1>2, <1>3, <1>25 DEF PressGenerate, diskVars, uiFrame
<1>26. ASSUME NEW p \in Procs, AnswerReset(p)  PROVE  ProcsTyped'
  <2>1. UNCHANGED <<ready, keyReady, lock>>
    BY <1>26 DEF AnswerReset, uiFrame
  <2>2. CASE \E t \in Seconds : Replaces(p, t)
    <3>1. PICK t \in Seconds : Replaces(p, t)
      BY <2>2
    <3>2. Generates(p, t) /\ cache' = [cache EXCEPT ![p] = NoRoot]
      BY <3>1 DEF Replaces
    <3> QED  BY <1>0, <1>2, <1>3, <2>1, <3>2
  <2>3. CASE UNCHANGED <<diskVars, cache, act>>
    BY <1>0, <1>1, <2>1, <2>3 DEF diskVars
  <2> QED  BY <1>26, <2>2, <2>3 DEF AnswerReset
<1>27. ASSUME NEW p \in Procs, AnswerWarning(p)  PROVE  ProcsTyped'
  BY <1>0, <1>1, <1>3, <1>4, <1>27 DEF AnswerWarning, diskVars, uiFrame
<1>28. ASSUME NEW p \in Procs, AnswerPhrase(p)  PROVE  ProcsTyped'
  BY <1>0, <1>1, <1>3, <1>4, <1>28 DEF AnswerPhrase, diskVars, uiFrame
<1>29. ASSUME NEW p \in Procs, BackUp(p)  PROVE  ProcsTyped'
  BY <1>0, <1>1, <1>3, <1>4, <1>29 DEF BackUp, uiVars, uiFrame
<1>30. ASSUME NEW p \in Procs, KeyInit(p)  PROVE  ProcsTyped'
  BY <1>0, <1>1, <1>2, <1>3, <1>30 DEF KeyInit, uiVars, uiFrame
<1>31. ASSUME NEW p \in Procs, KeyRestore(p)  PROVE  ProcsTyped'
  <2>1. UNCHANGED made /\ ready' \in [Procs -> BOOLEAN] /\ keyReady' \in [Procs -> BOOLEAN]
    BY <1>0, <1>31 DEF KeyRestore, uiVars, uiFrame
  <2>2. cache' \in [Procs -> Given]
    BY <1>0, <1>3, <1>4, <1>31 DEF KeyRestore, uiFrame, Acts
  <2>3. lock' \in [Procs -> Jobs \cup {NoJob}]
    BY <1>0, <1>31 DEF KeyRestore, uiFrame
  <2>4. act' \in [Procs -> Acts]
    <3>1. backup \subseteq Given /\ \A t \in Seconds : archive[t].root \in Given
      BY <1>0, HeldFiles DEF Typed, FilesTyped, Given
    <3>2. ASSUME NEW r \in Given
          PROVE  [at |-> "copy", root |-> r, stamp |-> NoStamp] \in Acts
      BY DEF Acts
    <3>3. backup \cup {archive[t].root : t \in DOMAIN archive} \subseteq Given
      BY <3>1 DEF Typed, FilesTyped
    <3>4. \/ UNCHANGED act
          \/ \E r \in Given : act' = [act EXCEPT ![p] = [at |-> "copy", root |-> r, stamp |-> NoStamp]]
      BY <1>31, <3>3 DEF KeyRestore
    <3>5. act \in [Procs -> Acts]
      BY <1>0
    <3> QED  BY <3>2, <3>4, <3>5
  <2> QED  BY <1>0, <1>1, <2>1, <2>2, <2>3, <2>4
<1>32. ASSUME NEW p \in Procs, CopyKey(p)  PROVE  ProcsTyped'
  BY <1>0, <1>1, <1>3, <1>4, <1>32 DEF CopyKey, uiFrame
<1>33. ASSUME NEW p \in Procs, Crash(p)  PROVE  ProcsTyped'
  BY <1>0, <1>1, <1>3, <1>5, <1>33 DEF Crash
<1>34. CASE UNCHANGED vars
  BY <1>0, <1>1, <1>34 DEF vars, uiVars, procVars, diskVars
<1> QED  BY <1>7, <1>8, <1>9, <1>10, <1>11, <1>12, <1>13, <1>14, <1>15, <1>16, <1>17, <1>18, <1>19, <1>20,
     <1>21, <1>22, <1>23, <1>24, <1>25, <1>26, <1>27, <1>28, <1>29, <1>30, <1>31, <1>32, <1>33,
     <1>34 DEF Next

\* No root is unmade.
LEMMA MadeGrows ==
    ASSUME made \in Nat, [Next]_vars
    PROVE  made' \in Nat /\ made <= made'
<1>1. made' = made \/ made' = made + 1
  BY DEF Next, vars, diskVars, uiVars, uiFrame, Generates, Replaces, Begin, EnsureNativeKey, TakeLock,
       FindValue, Encrypt, WriteEntry, Stored, CancelPrompt, Reveal, EnterPhrase, CancelPhrase,
       CreateFile, FillFile, KeepKey, CreateFails, OpenOnboarding, LeaveOnboarding, PressStart,
       PressGenerate, AnswerReset, AnswerWarning, AnswerPhrase, BackUp, KeyInit, KeyRestore, CopyKey, Crash
<1> QED  BY <1>1

\* What the jobs and their threads do keeps its type.
LEMMA JobsTypedStep ==
    ASSUME KeystoreAssumption, Typed, Noted, Stacked, [Next]_vars
    PROVE  JobsTyped'
<1>0. /\ job \in [Jobs -> Tasks] /\ thread \in [Jobs -> Threads] /\ made \in Nat
      /\ Texts \in [Jobs -> SUBSET (Seq(Secrets) \ {<<>>})]
      /\ key.root \in Given
  BY Numbers, HeldFiles DEF Typed, FilesTyped, JobsTyped, KeystoreAssumption
<1>1. ASSUME job' \in [Jobs -> Tasks], thread' \in [Jobs -> Threads]  PROVE  JobsTyped'
  <2>1. Threads \subseteq Threads'
    BY <1>0, MadeGrows DEF Threads, Given
  <2> QED  BY <1>1, <2>1 DEF JobsTyped
<1>2. Idle \in Tasks /\ NoThread \in Threads
  BY <1>0 DEF Idle, Tasks, Steps, NoThread, Threads, Given, NoRoot
<1>3. ASSUME NEW j \in Jobs, NEW pc \in Steps,
             \/ UNCHANGED job
             \/ Finish(j)
             \/ job' = [job EXCEPT ![j].pc = pc]
             \/ job[j].todo # <<>> /\ NextSecret(j)
      PROVE  job' \in [Jobs -> Tasks]
  <2>1. [job[j] EXCEPT !.pc = pc] \in Tasks
    BY <1>0 DEF Tasks
  <2>2. job[j].todo # <<>> => [job[j] EXCEPT !.pc = "lock", !.todo = Tail(job[j].todo)] \in Tasks
    <3>1. job[j].todo \in Seq(Secrets)
      BY <1>0 DEF Tasks
    <3>2. job[j].todo # <<>> => Tail(job[j].todo) \in Seq(Secrets)
      BY <3>1
    <3> QED  BY <1>0, <3>2 DEF Tasks, Steps
  <2> QED  BY <1>0, <1>2, <1>3, <2>1, <2>2 DEF Finish, NextSecret
<1>4. ASSUME NEW j \in Jobs,
             \/ UNCHANGED thread
             \/ thread' = [thread EXCEPT ![j] = NoThread]
             \/ \E at \in {"encrypt", "stored", "refused"} : thread' = [thread EXCEPT ![j].at = at]
      PROVE  thread' \in [Jobs -> Threads]
  <2>1. \A at \in {"encrypt", "stored", "refused"} : [thread[j] EXCEPT !.at = at] \in Threads
    BY <1>0 DEF Threads
  <2> QED  BY <1>0, <1>2, <1>4, <2>1
<1>5. ASSUME NEW j \in Jobs, job[j].todo # <<>>, Store(j)
      PROVE  job' \in [Jobs -> Tasks] /\ thread' \in [Jobs -> Threads]
  <2>1. job[j].todo \in Seq(Secrets)
    BY <1>0 DEF Tasks
  <2>2. Head(job[j].todo) \in Secrets
    BY <1>5, <2>1
  <2>3. [at |-> "find", s |-> Head(job[j].todo), root |-> NoRoot] \in Threads
    BY <1>0, <2>2 DEF Threads, Given, NoRoot
  <2>4. thread' \in [Jobs -> Threads]
    BY <1>0, <1>5, <2>3 DEF Store
  <2> QED  BY <1>3, <1>5, <2>4 DEF Store, Steps
<1>6. ASSUME NEW j \in Jobs, Begin(j)  PROVE  JobsTyped'
  <2>1. ASSUME NEW text \in Texts[j], NEW pc \in {"unlock", "lock"}
        PROVE  [pc |-> pc, todo |-> text, text |-> ToSet(text)] \in Tasks
    BY <1>0 DEF Tasks, Steps, ToSet
  <2>2. [pc |-> "reveal", todo |-> <<>>, text |-> {}] \in Tasks
    BY DEF Tasks, Steps
  <2>3. job' \in [Jobs -> Tasks]
    <3>1. \E task \in Tasks : job' = [job EXCEPT ![j] = task]
      <4>1. CASE \E text \in Texts[j], pc \in {"unlock", "lock"} :
                    job' = [job EXCEPT ![j] = [pc |-> pc, todo |-> text, text |-> ToSet(text)]]
        BY <2>1, <4>1
      <4>2. CASE job' = [job EXCEPT ![j] = [pc |-> "reveal", todo |-> <<>>, text |-> {}]]
        BY <2>2, <4>2
      <4> QED  BY <1>6, <4>1, <4>2 DEF Begin
    <3> QED  BY <1>0, <3>1
  <2> QED  BY <1>0, <1>1, <1>6, <2>3 DEF Begin
<1>7. ASSUME NEW j \in Jobs, EnsureNativeKey(j)  PROVE  JobsTyped'
  BY <1>0, <1>1, <1>3, <1>4, <1>7 DEF EnsureNativeKey, Ask, Steps
<1>8. ASSUME NEW j \in Jobs, TakeLock(j)  PROVE  JobsTyped'
  <2>1. job[j].todo # <<>>
    BY <1>8 DEF TakeLock, Noted
  <2>2. CASE Store(j)
    BY <1>1, <1>5, <2>1, <2>2
  <2>3. CASE (Finish(j) \/ Ask(j, "phrase")) /\ UNCHANGED thread
    BY <1>0, <1>1, <1>3, <2>3 DEF Ask, Steps
  <2> QED  BY <1>8, <2>2, <2>3 DEF TakeLock
<1>9. ASSUME NEW j \in Jobs, FindValue(j)  PROVE  JobsTyped'
  BY <1>0, <1>1, <1>3, <1>4, <1>9 DEF FindValue, Steps
<1>10. ASSUME NEW j \in Jobs, Encrypt(j)  PROVE  JobsTyped'
  <2>1. PICK r \in {NoRoot} \cup Roots :
          /\ Uses(Owner[j], r)
          /\ thread' = [thread EXCEPT ![j].root = r, ![j].at = IF r = NoRoot THEN "refused" ELSE "write"]
    BY <1>10 DEF Encrypt
  <2>2. r \in Given
    <3>1. cache[Owner[j]] \in Given /\ NoRoot \in Given
      BY <1>0 DEF Typed, ProcsTyped, KeystoreAssumption, Given, NoRoot
    <3> QED  BY <1>0, <2>1, <3>1 DEF Uses, RootKeys
  <2>3. [thread[j] EXCEPT !.root = r, !.at = IF r = NoRoot THEN "refused" ELSE "write"] \in Threads
    BY <1>0, <2>2 DEF Threads
  <2>4. thread' \in [Jobs -> Threads]
    BY <1>0, <2>1, <2>3
  <2> QED  BY <1>0, <1>1, <1>10, <2>4 DEF Encrypt
<1>11. ASSUME NEW j \in Jobs, WriteEntry(j)  PROVE  JobsTyped'
  BY <1>0, <1>1, <1>3, <1>4, <1>11 DEF WriteEntry, Steps
<1>12. ASSUME NEW j \in Jobs, Stored(j)  PROVE  JobsTyped'
  <2>1. thread' = [thread EXCEPT ![j] = NoThread]
    BY <1>12 DEF Stored
  <2>2. UNCHANGED job \/ Finish(j) \/ (job[j].todo # <<>> /\ NextSecret(j))
    BY <1>12 DEF Stored, Pass, Noted
  <2> QED  BY <1>1, <1>3, <1>4, <2>1, <2>2 DEF Steps
<1>13. ASSUME NEW j \in Jobs, CancelPrompt(j)  PROVE  JobsTyped'
  BY <1>0, <1>1, <1>3, <1>4, <1>13 DEF CancelPrompt, Steps
<1>14. ASSUME NEW j \in Jobs, Reveal(j)  PROVE  JobsTyped'
  BY <1>0, <1>1, <1>3, <1>4, <1>14 DEF Reveal, Ask, Steps
<1>15. ASSUME NEW p \in Procs, EnterPhrase(p)  PROVE  JobsTyped'
  <2> DEFINE asker == Last(screen[p]).job
  <2>1. asker \in Jobs
    BY <1>15, TopEntry DEF EnterPhrase, Typed
  <2>2. CASE job[asker].todo # <<>> /\ Store(asker)
    BY <1>1, <1>5, <2>1, <2>2
  <2>3. CASE (Finish(asker) \/ job' = [job EXCEPT ![asker].pc = "lock"]) /\ UNCHANGED thread
    BY <1>0, <1>1, <1>3, <2>1, <2>3 DEF Steps
  <2> QED  BY <1>15, <2>2, <2>3 DEF EnterPhrase
<1>16. ASSUME NEW p \in Procs, CancelPhrase(p)  PROVE  JobsTyped'
  <2>1. Last(screen[p]).job \in Jobs
    BY <1>16, TopEntry DEF CancelPhrase, Typed
  <2> QED  BY <1>0, <1>1, <1>3, <1>16, <2>1 DEF CancelPhrase, Steps
<1>17. ASSUME NEW p \in Procs, CreateFile(p)  PROVE  JobsTyped'
  BY <1>0, <1>1, <1>17 DEF CreateFile, jobVars
<1>18. ASSUME NEW p \in Procs, FillFile(p)  PROVE  JobsTyped'
  BY <1>0, <1>1, <1>18 DEF FillFile, jobVars
<1>19. ASSUME NEW p \in Procs, KeepKey(p)  PROVE  JobsTyped'
  BY <1>0, <1>1, <1>19 DEF KeepKey, jobVars
<1>20. ASSUME NEW p \in Procs, CreateFails(p)  PROVE  JobsTyped'
  BY <1>0, <1>1, <1>2, <1>20 DEF CreateFails, End, jobVars
<1>21. ASSUME NEW p \in Procs, OpenOnboarding(p)  PROVE  JobsTyped'
  BY <1>0, <1>1, <1>21 DEF OpenOnboarding, jobVars, uiFrame
<1>22. ASSUME NEW p \in Procs, LeaveOnboarding(p)  PROVE  JobsTyped'
  BY <1>0, <1>1, <1>22 DEF LeaveOnboarding, jobVars, uiFrame
<1>23. ASSUME NEW p \in Procs, PressStart(p)  PROVE  JobsTyped'
  BY <1>0, <1>1, <1>23 DEF PressStart, jobVars, uiFrame
<1>24. ASSUME NEW p \in Procs, PressGenerate(p)  PROVE  JobsTyped'
  BY <1>0, <1>1, <1>24 DEF PressGenerate, jobVars, uiFrame
<1>25. ASSUME NEW p \in Procs, AnswerReset(p)  PROVE  JobsTyped'
  BY <1>0, <1>1, <1>25 DEF AnswerReset, jobVars, uiFrame
<1>26. ASSUME NEW p \in Procs, AnswerWarning(p)  PROVE  JobsTyped'
  BY <1>0, <1>1, <1>26 DEF AnswerWarning, jobVars, uiFrame
<1>27. ASSUME NEW p \in Procs, AnswerPhrase(p)  PROVE  JobsTyped'
  BY <1>0, <1>1, <1>27 DEF AnswerPhrase, jobVars, uiFrame
<1>28. ASSUME NEW p \in Procs, BackUp(p)  PROVE  JobsTyped'
  BY <1>0, <1>1, <1>28 DEF BackUp, jobVars, uiFrame
<1>29. ASSUME NEW p \in Procs, KeyInit(p)  PROVE  JobsTyped'
  BY <1>0, <1>1, <1>29 DEF KeyInit, jobVars, uiFrame
<1>30. ASSUME NEW p \in Procs, KeyRestore(p)  PROVE  JobsTyped'
  BY <1>0, <1>1, <1>30 DEF KeyRestore, jobVars, uiFrame
<1>31. ASSUME NEW p \in Procs, CopyKey(p)  PROVE  JobsTyped'
  BY <1>0, <1>1, <1>31 DEF CopyKey, jobVars, uiFrame
<1>32. ASSUME NEW p \in Procs, Crash(p)  PROVE  JobsTyped'
  BY <1>0, <1>1, <1>2, <1>32 DEF Crash, End
<1>33. CASE UNCHANGED vars
  BY <1>0, <1>1, <1>33 DEF vars, jobVars
<1> QED  BY <1>6, <1>7, <1>8, <1>9, <1>10, <1>11, <1>12, <1>13, <1>14, <1>15, <1>16, <1>17, <1>18, <1>19,
     <1>20, <1>21, <1>22, <1>23, <1>24, <1>25, <1>26, <1>27, <1>28, <1>29, <1>30, <1>31, <1>32,
     <1>33 DEF Next

\* Threads go on with the secret they were given.
LEMMA FedStep ==
    ASSUME KeystoreAssumption, Typed, Noted, Stacked, [Next]_vars
    PROVE  Fed'
<1>0. thread \in [Jobs -> Threads] /\ job \in [Jobs -> Tasks] /\ Fed
  BY DEF Typed, JobsTyped
<1>1. ASSUME UNCHANGED thread  PROVE  Fed'
  BY <1>0, <1>1 DEF Fed, InThread
<1>2. ASSUME NEW j \in Jobs, NEW at \in {"none", "stored", "refused"},
             \/ thread' = [thread EXCEPT ![j].at = at]
             \/ thread' = [thread EXCEPT ![j] = NoThread]
      PROVE  Fed'
  BY <1>0, <1>2 DEF Fed, InThread, Threads, NoThread
<1>3. ASSUME NEW j \in Jobs, job[j].todo # <<>>, Store(j)  PROVE  Fed'
  <2>1. job[j].todo \in Seq(Secrets)
    BY <1>0 DEF Tasks
  <2>2. Head(job[j].todo) \in Secrets
    BY <1>3, <2>1
  <2> QED  BY <1>0, <1>3, <2>2 DEF Fed, InThread, Store
<1>4. ASSUME NEW p \in Procs, End(p)  PROVE  Fed'
  BY <1>0, <1>4 DEF End, Fed, InThread, NoThread
<1>5. ASSUME NEW j \in Jobs, Begin(j)  PROVE  Fed'
  BY <1>1, <1>5 DEF Begin
<1>6. ASSUME NEW j \in Jobs, EnsureNativeKey(j)  PROVE  Fed'
  BY <1>1, <1>6 DEF EnsureNativeKey
<1>7. ASSUME NEW j \in Jobs, TakeLock(j)  PROVE  Fed'
  <2>1. job[j].todo # <<>>
    BY <1>7 DEF TakeLock, Noted
  <2> QED  BY <1>1, <1>3, <1>7, <2>1 DEF TakeLock
<1>8. ASSUME NEW j \in Jobs, FindValue(j)  PROVE  Fed'
  <2>1. \E at \in {"stored", "encrypt"} : thread' = [thread EXCEPT ![j].at = at]
    BY <1>8 DEF FindValue
  <2> QED  BY <1>0, <1>8, <2>1 DEF FindValue, Fed, InThread, Threads
<1>9. ASSUME NEW j \in Jobs, Encrypt(j)  PROVE  Fed'
  BY <1>0, <1>9 DEF Encrypt, Fed, InThread, Threads
<1>10. ASSUME NEW j \in Jobs, WriteEntry(j)  PROVE  Fed'
  BY <1>2, <1>10 DEF WriteEntry
<1>11. ASSUME NEW j \in Jobs, Stored(j)  PROVE  Fed'
  BY <1>2, <1>11 DEF Stored
<1>12. ASSUME NEW j \in Jobs, CancelPrompt(j)  PROVE  Fed'
  BY <1>1, <1>12 DEF CancelPrompt
<1>13. ASSUME NEW j \in Jobs, Reveal(j)  PROVE  Fed'
  BY <1>1, <1>13 DEF Reveal
<1>14. ASSUME NEW p \in Procs, EnterPhrase(p)  PROVE  Fed'
  <2>1. Last(screen[p]).job \in Jobs
    BY <1>14, TopEntry DEF EnterPhrase, Typed
  <2> QED  BY <1>1, <1>3, <1>14, <2>1 DEF EnterPhrase
<1>15. ASSUME NEW p \in Procs, CancelPhrase(p)  PROVE  Fed'
  BY <1>1, <1>15 DEF CancelPhrase
<1>16. ASSUME NEW p \in Procs, CreateFile(p)  PROVE  Fed'
  BY <1>1, <1>16 DEF CreateFile, jobVars
<1>17. ASSUME NEW p \in Procs, FillFile(p)  PROVE  Fed'
  BY <1>1, <1>17 DEF FillFile, jobVars
<1>18. ASSUME NEW p \in Procs, KeepKey(p)  PROVE  Fed'
  BY <1>1, <1>18 DEF KeepKey, jobVars
<1>19. ASSUME NEW p \in Procs, CreateFails(p)  PROVE  Fed'
  BY <1>1, <1>4, <1>19 DEF CreateFails, jobVars
<1>20. ASSUME NEW p \in Procs, OpenOnboarding(p)  PROVE  Fed'
  BY <1>1, <1>20 DEF OpenOnboarding, jobVars, uiFrame
<1>21. ASSUME NEW p \in Procs, LeaveOnboarding(p)  PROVE  Fed'
  BY <1>1, <1>21 DEF LeaveOnboarding, jobVars, uiFrame
<1>22. ASSUME NEW p \in Procs, PressStart(p)  PROVE  Fed'
  BY <1>1, <1>22 DEF PressStart, jobVars, uiFrame
<1>23. ASSUME NEW p \in Procs, PressGenerate(p)  PROVE  Fed'
  BY <1>1, <1>23 DEF PressGenerate, jobVars, uiFrame
<1>24. ASSUME NEW p \in Procs, AnswerReset(p)  PROVE  Fed'
  BY <1>1, <1>24 DEF AnswerReset, jobVars, uiFrame
<1>25. ASSUME NEW p \in Procs, AnswerWarning(p)  PROVE  Fed'
  BY <1>1, <1>25 DEF AnswerWarning, jobVars, uiFrame
<1>26. ASSUME NEW p \in Procs, AnswerPhrase(p)  PROVE  Fed'
  BY <1>1, <1>26 DEF AnswerPhrase, jobVars, uiFrame
<1>27. ASSUME NEW p \in Procs, BackUp(p)  PROVE  Fed'
  BY <1>1, <1>27 DEF BackUp, jobVars, uiFrame
<1>28. ASSUME NEW p \in Procs, KeyInit(p)  PROVE  Fed'
  BY <1>1, <1>28 DEF KeyInit, jobVars, uiFrame
<1>29. ASSUME NEW p \in Procs, KeyRestore(p)  PROVE  Fed'
  BY <1>1, <1>29 DEF KeyRestore, jobVars, uiFrame
<1>30. ASSUME NEW p \in Procs, CopyKey(p)  PROVE  Fed'
  BY <1>1, <1>30 DEF CopyKey, jobVars, uiFrame
<1>31. ASSUME NEW p \in Procs, Crash(p)  PROVE  Fed'
  BY <1>1, <1>4, <1>31 DEF Crash
<1>32. CASE UNCHANGED vars
  BY <1>1, <1>32 DEF vars, jobVars
<1> QED  BY <1>5, <1>6, <1>7, <1>8, <1>9, <1>10, <1>11, <1>12, <1>13, <1>14, <1>15, <1>16, <1>17, <1>18,
     <1>19, <1>20, <1>21, <1>22, <1>23, <1>24, <1>25, <1>26, <1>27, <1>28, <1>29, <1>30, <1>31,
     <1>32 DEF Next

\* Locks are of jobs of the process, dialogs of an interface, and a key is
\* made or copied by who may.
LEMMA PlacedStep ==
    ASSUME KeystoreAssumption, Typed, Stacked, [Next]_vars
    PROVE  Placed'
<1>0. /\ lock \in [Procs -> Jobs \cup {NoJob}] /\ act \in [Procs -> Acts] /\ Placed
      /\ screen \in [Procs -> Seq(Modals)] /\ Owner \in [Jobs -> Procs] /\ made \in Nat
      /\ \A p \in Procs : act[p].at # "rest" => act[p].root \in Given
  BY Numbers DEF Typed, ProcsTyped, KeystoreAssumption, Acts
<1>1. ASSUME UNCHANGED act, \A p \in Procs : lock'[p] # NoJob => Owner[lock'[p]] = p,
             \A p \in Procs : p \notin Tui => screen'[p] = screen[p]
      PROVE  Placed'
  BY <1>0, <1>1 DEF Placed
<1>2. ASSUME NEW p \in Procs, p \in Tui, \A q \in Procs : q # p => screen'[q] = screen[q],
             UNCHANGED <<act, lock>>
      PROVE  Placed'
  BY <1>1, <1>2, <1>0 DEF Placed
<1>3. ASSUME NEW p \in Procs, UNCHANGED <<screen, lock>>, NEW at \in {"fill", "keep"}, act[p].at # "rest",
             act[p].at # "copy", act' = [act EXCEPT ![p].at = at]
      PROVE  Placed'
  BY <1>0, <1>3 DEF Placed, Acts
<1>4. ASSUME NEW p \in Procs, act' = [act EXCEPT ![p] = Resting],
             \A q \in Procs : q # p \/ q \notin Tui => screen'[q] = screen[q],
             UNCHANGED lock
      PROVE  Placed'
  BY <1>0, <1>4 DEF Placed, Resting, NoStamp
<1>5. ASSUME NEW p \in Procs, NEW t \in Seconds \cup {NoStamp}, Generates(p, t), UNCHANGED lock,
             p \in Tui \/ t = NoStamp,
             \A q \in Procs : q \notin Tui => screen'[q] = screen[q]
      PROVE  Placed'
  BY <1>0, <1>5 DEF Placed, Generates, NoRoot
<1>6. ASSUME NEW p \in Procs, End(p)  PROVE  Placed'
  BY <1>0, <1>6 DEF End, Placed, Resting, NoStamp
<1>7. ASSUME NEW j \in Jobs, Begin(j)  PROVE  Placed'
  BY <1>0, <1>1, <1>7 DEF Begin, uiVars, Placed
<1>8. ASSUME NEW j \in Jobs, EnsureNativeKey(j)  PROVE  Placed'
  <2>1. \A q \in Procs : q \notin Tui => screen'[q] = screen[q]
    BY <1>0, <1>8 DEF EnsureNativeKey, Ask, MustAsk
  <2> QED  BY <1>0, <1>1, <1>8, <2>1 DEF EnsureNativeKey, procVars, Placed
<1>9. ASSUME NEW j \in Jobs, TakeLock(j)  PROVE  Placed'
  BY <1>0, <1>1, <1>9 DEF TakeLock, Ask, Store, MustAsk, Placed
<1>10. ASSUME NEW j \in Jobs, FindValue(j)  PROVE  Placed'
  BY <1>0, <1>1, <1>10 DEF FindValue, uiVars, Placed
<1>11. ASSUME NEW j \in Jobs, Encrypt(j)  PROVE  Placed'
  BY <1>0, <1>1, <1>11 DEF Encrypt, uiVars, Placed
<1>12. ASSUME NEW j \in Jobs, WriteEntry(j)  PROVE  Placed'
  BY <1>0, <1>1, <1>12 DEF WriteEntry, procVars, uiVars, Placed
<1>13. ASSUME NEW j \in Jobs, Stored(j)  PROVE  Placed'
  BY <1>0, <1>1, <1>13 DEF Stored, Release, uiVars, Placed
<1>14. ASSUME NEW j \in Jobs, CancelPrompt(j)  PROVE  Placed'
  BY <1>0, <1>1, <1>14 DEF CancelPrompt, uiVars, Placed
<1>15. ASSUME NEW j \in Jobs, Reveal(j)  PROVE  Placed'
  BY <1>0, <1>1, <1>15 DEF Reveal, Ask, MustAsk, Placed
<1>16. ASSUME NEW p \in Procs, EnterPhrase(p)  PROVE  Placed'
  <2>1. Last(screen[p]).job \in Jobs /\ Owner[Last(screen[p]).job] = p /\ p \in Tui
    BY <1>0, <1>16, TopEntry DEF EnterPhrase, Typed, Placed
  <2>2. \A q \in Procs : q # p => screen'[q] = screen[q]
    BY <1>0, <1>16 DEF EnterPhrase, Pop
  <2>3. \A q \in Procs : lock'[q] # NoJob => Owner[lock'[q]] = q
    BY <1>0, <1>16, <2>1 DEF EnterPhrase, Store, Release, Placed
  <2> QED  BY <1>1, <1>16, <2>1, <2>2, <2>3 DEF EnterPhrase
<1>17. ASSUME NEW p \in Procs, CancelPhrase(p)  PROVE  Placed'
  <2>1. Last(screen[p]).job \in Jobs /\ Owner[Last(screen[p]).job] = p /\ p \in Tui
    BY <1>0, <1>17, TopEntry DEF CancelPhrase, Typed, Placed
  <2>2. \A q \in Procs : q # p => screen'[q] = screen[q]
    BY <1>0, <1>17 DEF CancelPhrase, Pop
  <2>3. \A q \in Procs : lock'[q] # NoJob => Owner[lock'[q]] = q
    BY <1>0, <1>17, <2>1 DEF CancelPhrase, Placed
  <2> QED  BY <1>1, <1>17, <2>1, <2>2, <2>3 DEF CancelPhrase
<1>18. ASSUME NEW p \in Procs, CreateFile(p)  PROVE  Placed'
  BY <1>3, <1>18 DEF CreateFile, uiVars
<1>19. ASSUME NEW p \in Procs, FillFile(p)  PROVE  Placed'
  BY <1>3, <1>19 DEF FillFile, uiVars
<1>20. ASSUME NEW p \in Procs, KeepKey(p)  PROVE  Placed'
  BY <1>0, <1>4, <1>20 DEF KeepKey
<1>21. ASSUME NEW p \in Procs, CreateFails(p)  PROVE  Placed'
  BY <1>0, <1>4, <1>6, <1>21 DEF CreateFails
<1>22. ASSUME NEW p \in Procs, OpenOnboarding(p)  PROVE  Placed'
  <2>1. p \in Tui
    BY <1>0, <1>22 DEF OpenOnboarding, Placed
  <2>2. \A q \in Procs : q # p => screen'[q] = screen[q]
    BY <1>0, <1>22 DEF OpenOnboarding, Open
  <2> QED  BY <1>2, <1>22, <2>1, <2>2 DEF OpenOnboarding, uiFrame
<1>23. ASSUME NEW p \in Procs, LeaveOnboarding(p)  PROVE  Placed'
  <2>1. p \in Tui
    BY <1>0, <1>23 DEF LeaveOnboarding, Top, Placed
  <2>2. \A q \in Procs : q # p => screen'[q] = screen[q]
    BY <1>0, <1>23 DEF LeaveOnboarding, Pop
  <2> QED  BY <1>2, <1>23, <2>1, <2>2 DEF LeaveOnboarding, uiFrame
<1>24. ASSUME NEW p \in Procs, PressStart(p)  PROVE  Placed'
  <2>1. p \in Tui
    BY <1>0, <1>24 DEF PressStart, Top, Placed
  <2>2. \A q \in Procs : q # p => screen'[q] = screen[q]
    BY <1>0, <1>24 DEF PressStart, Open, Pop
  <2> QED  BY <1>2, <1>24, <2>1, <2>2 DEF PressStart, uiFrame
<1>25. ASSUME NEW p \in Procs, PressGenerate(p)  PROVE  Placed'
  <2>1. p \in Tui
    BY <1>0, <1>25 DEF PressGenerate, Top, Placed
  <2>2. \A q \in Procs : q # p => screen'[q] = screen[q]
    BY <1>0, <1>25 DEF PressGenerate, Open
  <2> QED  BY <1>2, <1>5, <1>25, <2>1, <2>2 DEF PressGenerate, uiFrame
<1>26. ASSUME NEW p \in Procs, AnswerReset(p)  PROVE  Placed'
  <2>1. p \in Tui
    BY <1>0, <1>26 DEF AnswerReset, Top, Placed
  <2>2. \A q \in Procs : q # p => screen'[q] = screen[q]
    BY <1>0, <1>26 DEF AnswerReset, Pop
  <2> QED  BY <1>2, <1>5, <1>26, <2>1, <2>2 DEF AnswerReset, Replaces, uiFrame
<1>27. ASSUME NEW p \in Procs, AnswerWarning(p)  PROVE  Placed'
  <2>1. p \in Tui
    BY <1>0, <1>27 DEF AnswerWarning, Top, Placed
  <2>2. \A q \in Procs : q # p => screen'[q] = screen[q]
    BY <1>0, <1>27 DEF AnswerWarning, Pop, Turn
  <2> QED  BY <1>2, <1>27, <2>1, <2>2 DEF AnswerWarning, uiFrame
<1>28. ASSUME NEW p \in Procs, AnswerPhrase(p)  PROVE  Placed'
  <2>1. p \in Tui
    BY <1>0, <1>28 DEF AnswerPhrase, Top, Placed
  <2>2. \A q \in Procs : q # p => screen'[q] = screen[q]
    BY <1>0, <1>28 DEF AnswerPhrase, Pop
  <2> QED  BY <1>2, <1>28, <2>1, <2>2 DEF AnswerPhrase, uiFrame
<1>29. ASSUME NEW p \in Procs, BackUp(p)  PROVE  Placed'
  BY <1>0, <1>1, <1>29 DEF BackUp, uiVars, uiFrame, Placed
<1>30. ASSUME NEW p \in Procs, KeyInit(p)  PROVE  Placed'
  BY <1>5, <1>30 DEF KeyInit, uiFrame, uiVars, AtCommand
<1>31. ASSUME NEW p \in Procs, KeyRestore(p)  PROVE  Placed'
  <2>1. p \notin Tui /\ UNCHANGED <<screen, lock>>
    BY <1>31 DEF KeyRestore, AtCommand, uiVars, uiFrame
  <2>2. \/ UNCHANGED act
        \/ \E r : r # NoRoot /\ act' = [act EXCEPT ![p] = [at |-> "copy", root |-> r, stamp |-> NoStamp]]
    BY <1>31 DEF KeyRestore
  <2>3. CASE UNCHANGED act
    BY <1>0, <1>1, <2>1, <2>3 DEF Placed
  <2>4. ASSUME NEW r, r # NoRoot, act' = [act EXCEPT ![p] = [at |-> "copy", root |-> r, stamp |-> NoStamp]]
        PROVE  Placed'
    BY <1>0, <2>1, <2>4 DEF Placed
  <2> QED  BY <2>2, <2>3, <2>4
<1>32. ASSUME NEW p \in Procs, CopyKey(p)  PROVE  Placed'
  BY <1>0, <1>4, <1>32 DEF CopyKey, uiFrame
<1>33. ASSUME NEW p \in Procs, Crash(p)  PROVE  Placed'
  BY <1>0, <1>4, <1>6, <1>33 DEF Crash
<1>34. CASE UNCHANGED vars
  BY <1>0, <1>1, <1>34 DEF vars, procVars, uiVars, Placed
<1> QED  BY <1>7, <1>8, <1>9, <1>10, <1>11, <1>12, <1>13, <1>14, <1>15, <1>16, <1>17, <1>18, <1>19, <1>20,
     <1>21, <1>22, <1>23, <1>24, <1>25, <1>26, <1>27, <1>28, <1>29, <1>30, <1>31, <1>32, <1>33,
     <1>34 DEF Next
-----------------------------------------------------------------------------
(* No secret loses its envelope *)

\* Whatever becomes of the key file, a root that is in an envelope on disk
\* stays in one, unless a command had the file deleted, which is noted.
LEMMA SafeGrows ==
    ASSUME KeystoreAssumption, Typed, [Next]_vars
    PROVE  Safe \subseteq Safe'
<1>0. /\ made \in Nat /\ key \in Held /\ archive \in [Seconds -> Held]
      /\ \A f \in Held : f.st = "ok" <=> f.root # NoRoot
      /\ \A f \in Held : f.st = "none" <=> f = NoFile
      /\ NoFile.root = NoRoot /\ Cut.root = NoRoot /\ \A r : Envelope(r).root = r
      /\ \A p \in Procs : act[p].stamp \in Seconds \cup {NoStamp}
  BY Numbers, HeldFiles DEF Typed, FilesTyped, ProcsTyped, Acts, NoFile, Cut, Envelope
<1>1. ASSUME UNCHANGED diskVars  PROVE  Safe \subseteq Safe'
  BY <1>1 DEF Safe, Enveloped, diskVars
<1>2. ASSUME UNCHANGED <<archive, backup>>, forsaken \subseteq forsaken',
             key.root = NoRoot \/ key.root \in forsaken' \/ key' = key
      PROVE  Safe \subseteq Safe'
  BY <1>0, <1>2 DEF Safe, Enveloped
<1>3. ASSUME NEW j \in Jobs, Begin(j)  PROVE  Safe \subseteq Safe'
  BY <1>1, <1>3 DEF Begin
<1>4. ASSUME NEW j \in Jobs, EnsureNativeKey(j)  PROVE  Safe \subseteq Safe'
  BY <1>1, <1>4 DEF EnsureNativeKey
<1>5. ASSUME NEW j \in Jobs, TakeLock(j)  PROVE  Safe \subseteq Safe'
  BY <1>1, <1>5 DEF TakeLock
<1>6. ASSUME NEW j \in Jobs, FindValue(j)  PROVE  Safe \subseteq Safe'
  BY <1>1, <1>6 DEF FindValue
<1>7. ASSUME NEW j \in Jobs, Encrypt(j)  PROVE  Safe \subseteq Safe'
  BY <1>1, <1>7 DEF Encrypt
<1>8. ASSUME NEW j \in Jobs, WriteEntry(j)  PROVE  Safe \subseteq Safe'
  BY <1>1, <1>8 DEF WriteEntry
<1>9. ASSUME NEW j \in Jobs, Stored(j)  PROVE  Safe \subseteq Safe'
  BY <1>1, <1>9 DEF Stored
<1>10. ASSUME NEW j \in Jobs, CancelPrompt(j)  PROVE  Safe \subseteq Safe'
  BY <1>1, <1>10 DEF CancelPrompt
<1>11. ASSUME NEW j \in Jobs, Reveal(j)  PROVE  Safe \subseteq Safe'
  BY <1>1, <1>11 DEF Reveal
<1>12. ASSUME NEW p \in Procs, EnterPhrase(p)  PROVE  Safe \subseteq Safe'
  BY <1>1, <1>12 DEF EnterPhrase
<1>13. ASSUME NEW p \in Procs, CancelPhrase(p)  PROVE  Safe \subseteq Safe'
  BY <1>1, <1>13 DEF CancelPhrase
<1>14. ASSUME NEW p \in Procs, CreateFile(p)  PROVE  Safe \subseteq Safe'
  BY <1>0, <1>2, <1>14 DEF CreateFile, Exists
<1>15. ASSUME NEW p \in Procs, FillFile(p)  PROVE  Safe \subseteq Safe'
  BY <1>0, <1>2, <1>15 DEF FillFile
<1>16. ASSUME NEW p \in Procs, KeepKey(p)  PROVE  Safe \subseteq Safe'
  BY <1>1, <1>16 DEF KeepKey
<1>17. ASSUME NEW p \in Procs, CreateFails(p)  PROVE  Safe \subseteq Safe'
  <2>1. CASE act[p].stamp # NoStamp /\ RollBack(p)
    <3>1. /\ key' = archive[act[p].stamp] /\ archive' = [archive EXCEPT ![act[p].stamp] = NoFile]
          /\ key.root = NoRoot \/ key.root \in forsaken'
          /\ forsaken \subseteq forsaken' /\ UNCHANGED backup
      BY <1>0, <1>17, <2>1 DEF CreateFails, RollBack
    <3> QED  BY <1>0, <2>1, <3>1 DEF Safe, Enveloped
  <2>2. CASE UNCHANGED <<key, archive, forsaken>>
    BY <1>2, <1>17, <2>2 DEF CreateFails
  <2> QED  BY <1>17, <2>1, <2>2 DEF CreateFails
<1>18. ASSUME NEW p \in Procs, OpenOnboarding(p)  PROVE  Safe \subseteq Safe'
  BY <1>1, <1>18 DEF OpenOnboarding
<1>19. ASSUME NEW p \in Procs, LeaveOnboarding(p)  PROVE  Safe \subseteq Safe'
  BY <1>1, <1>19 DEF LeaveOnboarding
<1>20. ASSUME NEW p \in Procs, PressStart(p)  PROVE  Safe \subseteq Safe'
  BY <1>1, <1>20 DEF PressStart
<1>21. ASSUME NEW p \in Procs, PressGenerate(p)  PROVE  Safe \subseteq Safe'
  BY <1>1, <1>2, <1>21 DEF PressGenerate, Generates, diskVars
<1>22. ASSUME NEW p \in Procs, AnswerReset(p)  PROVE  Safe \subseteq Safe'
  <2>1. ASSUME NEW t \in Seconds, Replaces(p, t)  PROVE  Safe \subseteq Safe'
    <3>1. /\ archive' = [archive EXCEPT ![t] = key] /\ archive[t].root = NoRoot
          /\ UNCHANGED <<backup, forsaken>>
      BY <1>0, <2>1 DEF Replaces
    <3> QED  BY <1>0, <3>1 DEF Safe, Enveloped
  <2> QED  BY <1>1, <1>22, <2>1 DEF AnswerReset
<1>23. ASSUME NEW p \in Procs, AnswerWarning(p)  PROVE  Safe \subseteq Safe'
  BY <1>1, <1>23 DEF AnswerWarning, diskVars
<1>24. ASSUME NEW p \in Procs, AnswerPhrase(p)  PROVE  Safe \subseteq Safe'
  BY <1>1, <1>24 DEF AnswerPhrase, diskVars
<1>25. ASSUME NEW p \in Procs, BackUp(p)  PROVE  Safe \subseteq Safe'
  BY <1>25 DEF BackUp, Safe, Enveloped
<1>26. ASSUME NEW p \in Procs, KeyInit(p)  PROVE  Safe \subseteq Safe'
  BY <1>1, <1>2, <1>26 DEF KeyInit, Generates
<1>27. ASSUME NEW p \in Procs, KeyRestore(p)  PROVE  Safe \subseteq Safe'
  BY <1>0, <1>2, <1>27 DEF KeyRestore
<1>28. ASSUME NEW p \in Procs, CopyKey(p)  PROVE  Safe \subseteq Safe'
  BY <1>0, <1>2, <1>28 DEF CopyKey
<1>29. ASSUME NEW p \in Procs, Crash(p)  PROVE  Safe \subseteq Safe'
  BY <1>0, <1>2, <1>29 DEF Crash
<1>30. CASE UNCHANGED vars
  BY <1>1, <1>30 DEF vars
<1> QED  BY <1>3, <1>4, <1>5, <1>6, <1>7, <1>8, <1>9, <1>10, <1>11, <1>12, <1>13, <1>14, <1>15, <1>16,
     <1>17, <1>18, <1>19, <1>20, <1>21, <1>22, <1>23, <1>24, <1>25, <1>26, <1>27, <1>28, <1>29,
     <1>30 DEF Next

\* The roots that are in use, or in the store, are safe: each comes from the
\* file, or is the one that the process has just written there.
LEMMA KeptStep ==
    ASSUME KeystoreAssumption, Typed, Kept, Stacked, [Next]_vars
    PROVE  Kept'
<1>0. /\ cache \in [Procs -> Given] /\ act \in [Procs -> Acts] /\ thread \in [Jobs -> Threads]
      /\ Owner \in [Jobs -> Procs] /\ entries \in Seq(Lines) /\ Safe \subseteq Safe'
      /\ key.root \in Safe /\ key'.root \in Safe' /\ NoRoot \in Safe'
  BY SafeGrows DEF Typed, FilesTyped, ProcsTyped, JobsTyped, KeystoreAssumption, Safe, Enveloped
<1>1. ASSUME UNCHANGED entries, \A p \in Procs : cache'[p] \in Safe',
             \A p \in Procs : act'[p].at = "keep" => act'[p].root \in Safe',
             \A j \in Jobs : thread'[j].at = "write" => thread'[j].root \in Safe'
      PROVE  Kept'
  BY <1>0, <1>1 DEF Kept
<1>2. /\ \A p \in Procs : cache[p] \in Safe'
      /\ \A p \in Procs : act[p].at = "keep" => act[p].root \in Safe'
      /\ \A j \in Jobs : thread[j].at = "write" => thread[j].root \in Safe'
      /\ \A n \in DOMAIN entries : entries[n].root \in Safe'
      /\ \A p \in Procs : RootKeys(p) \subseteq Safe'
  BY <1>0 DEF Kept, RootKeys
<1>3. ASSUME UNCHANGED <<entries, cache, act, thread>>  PROVE  Kept'
  BY <1>2, <1>3 DEF Kept
<1>4. ASSUME NEW j \in Jobs, Begin(j)  PROVE  Kept'
  <2>1. \A q \in Procs : cache'[q] \in Safe'
    BY <1>0, <1>2, <1>4 DEF Begin
  <2>2. \A q \in Procs : act'[q].at = "keep" => act'[q].root \in Safe'
    BY <1>0, <1>2, <1>4 DEF Begin, Resting
  <2>3. \A i \in Jobs : thread'[i].at = "write" => thread'[i].root \in Safe'
    BY <1>0, <1>2, <1>4 DEF Begin, NoThread
  <2> QED  BY <1>1, <1>4, <2>1, <2>2, <2>3 DEF Begin
<1>5. ASSUME NEW j \in Jobs, EnsureNativeKey(j)  PROVE  Kept'
  BY <1>3, <1>5 DEF EnsureNativeKey, procVars
<1>6. ASSUME NEW j \in Jobs, TakeLock(j)  PROVE  Kept'
  <2>1. \A q \in Procs : cache'[q] \in Safe'
    BY <1>0, <1>2, <1>6 DEF TakeLock, Uses
  <2>2. \A q \in Procs : act'[q].at = "keep" => act'[q].root \in Safe'
    BY <1>0, <1>2, <1>6 DEF TakeLock, Resting
  <2>3. \A i \in Jobs : thread'[i].at = "write" => thread'[i].root \in Safe'
    BY <1>0, <1>2, <1>6 DEF TakeLock, Store, NoThread
  <2> QED  BY <1>1, <1>6, <2>1, <2>2, <2>3 DEF TakeLock
<1>7. ASSUME NEW j \in Jobs, FindValue(j)  PROVE  Kept'
  <2>1. \A q \in Procs : cache'[q] \in Safe'
    BY <1>0, <1>2, <1>7 DEF FindValue, Uses
  <2>2. \A q \in Procs : act'[q].at = "keep" => act'[q].root \in Safe'
    BY <1>0, <1>2, <1>7 DEF FindValue, Resting
  <2>3. \A i \in Jobs : thread'[i].at = "write" => thread'[i].root \in Safe'
    <3>1. \E at \in {"stored", "encrypt"} : thread' = [thread EXCEPT ![j].at = at]
      BY <1>7 DEF FindValue
    <3> QED  BY <1>0, <1>2, <3>1 DEF Threads
  <2> QED  BY <1>1, <1>7, <2>1, <2>2, <2>3 DEF FindValue
<1>8. ASSUME NEW j \in Jobs, Encrypt(j)  PROVE  Kept'
  <2>1. \A q \in Procs : cache'[q] \in Safe'
    BY <1>0, <1>2, <1>8 DEF Encrypt, Uses
  <2>2. \A q \in Procs : act'[q].at = "keep" => act'[q].root \in Safe'
    BY <1>0, <1>2, <1>8 DEF Encrypt, Resting
  <2>3. \A i \in Jobs : thread'[i].at = "write" => thread'[i].root \in Safe'
    <3>1. PICK r \in {NoRoot} \cup Roots :
            /\ Uses(Owner[j], r)
            /\ thread' = [thread EXCEPT ![j].root = r, ![j].at = IF r = NoRoot THEN "refused" ELSE "write"]
      BY <1>8 DEF Encrypt
    <3>2. r \in Safe'
      BY <1>0, <1>2, <3>1 DEF Uses
    <3> QED  BY <1>0, <1>2, <3>1, <3>2 DEF Threads
  <2> QED  BY <1>1, <1>8, <2>1, <2>2, <2>3 DEF Encrypt
<1>9. ASSUME NEW j \in Jobs, WriteEntry(j)  PROVE  Kept'
  <2>1. UNCHANGED <<cache, act>>
    BY <1>9 DEF WriteEntry, procVars
  <2>0. /\ \A i \in Jobs : i # j => thread'[i] = thread[i]
        /\ thread'[j].at # "write"
    BY <1>0, <1>9 DEF WriteEntry, Threads
  <2>2. \A i \in Jobs : thread'[i].at = "write" => thread'[i].root \in Safe'
    BY <1>0, <1>2, <1>9, <2>0 DEF WriteEntry
  <2>3. \A n \in DOMAIN entries' : entries'[n].root \in Safe'
    <3>1. CASE UNCHANGED entries
      BY <1>2, <3>1
    <3>2. CASE entries' = Append(entries, [s |-> thread[j].s, root |-> thread[j].root])
      <4>1. thread[j].root \in Safe'
        BY <1>2, <1>9 DEF WriteEntry
      <4>2. \A n \in DOMAIN entries' : (n \in DOMAIN entries /\ entries'[n] = entries[n])
                                        \/ entries'[n].root = thread[j].root
        BY <1>0, <3>2
      <4> QED  BY <1>2, <4>1, <4>2
    <3> QED  BY <1>9, <3>1, <3>2 DEF WriteEntry
  <2> QED  BY <1>2, <2>1, <2>2, <2>3 DEF Kept
<1>10. ASSUME NEW j \in Jobs, Stored(j)  PROVE  Kept'
  <2>1. \A q \in Procs : cache'[q] \in Safe'
    BY <1>0, <1>2, <1>10 DEF Stored
  <2>2. \A q \in Procs : act'[q].at = "keep" => act'[q].root \in Safe'
    BY <1>0, <1>2, <1>10 DEF Stored, Resting
  <2>3. \A i \in Jobs : thread'[i].at = "write" => thread'[i].root \in Safe'
    BY <1>0, <1>2, <1>10 DEF Stored, NoThread
  <2> QED  BY <1>1, <1>10, <2>1, <2>2, <2>3 DEF Stored
<1>11. ASSUME NEW j \in Jobs, CancelPrompt(j)  PROVE  Kept'
  BY <1>3, <1>11 DEF CancelPrompt
<1>12. ASSUME NEW j \in Jobs, Reveal(j)  PROVE  Kept'
  <2>1. \A q \in Procs : cache'[q] \in Safe'
    BY <1>0, <1>2, <1>12 DEF Reveal, Uses
  <2>2. \A q \in Procs : act'[q].at = "keep" => act'[q].root \in Safe'
    BY <1>0, <1>2, <1>12 DEF Reveal, Resting
  <2>3. \A i \in Jobs : thread'[i].at = "write" => thread'[i].root \in Safe'
    BY <1>0, <1>2, <1>12 DEF Reveal, NoThread
  <2> QED  BY <1>1, <1>12, <2>1, <2>2, <2>3 DEF Reveal
<1>13. ASSUME NEW p \in Procs, EnterPhrase(p)  PROVE  Kept'
  <2>1. \A q \in Procs : cache'[q] \in Safe'
    BY <1>0, <1>2, <1>13 DEF EnterPhrase
  <2>2. \A q \in Procs : act'[q].at = "keep" => act'[q].root \in Safe'
    BY <1>0, <1>2, <1>13 DEF EnterPhrase, Resting
  <2>3. \A i \in Jobs : thread'[i].at = "write" => thread'[i].root \in Safe'
    BY <1>0, <1>2, <1>13 DEF EnterPhrase, Store, NoThread
  <2> QED  BY <1>1, <1>13, <2>1, <2>2, <2>3 DEF EnterPhrase
<1>14. ASSUME NEW p \in Procs, CancelPhrase(p)  PROVE  Kept'
  BY <1>3, <1>14 DEF CancelPhrase
<1>15. ASSUME NEW p \in Procs, CreateFile(p)  PROVE  Kept'
  <2>1. \A q \in Procs : cache'[q] \in Safe'
    BY <1>0, <1>2, <1>15 DEF CreateFile
  <2>2. \A q \in Procs : act'[q].at = "keep" => act'[q].root \in Safe'
    BY <1>0, <1>2, <1>15 DEF CreateFile, Resting
  <2>3. \A i \in Jobs : thread'[i].at = "write" => thread'[i].root \in Safe'
    BY <1>0, <1>2, <1>15 DEF CreateFile, NoThread, jobVars
  <2> QED  BY <1>1, <1>15, <2>1, <2>2, <2>3 DEF CreateFile
<1>16. ASSUME NEW p \in Procs, FillFile(p)  PROVE  Kept'
  <2>1. \A q \in Procs : cache'[q] \in Safe'
    BY <1>0, <1>2, <1>16 DEF FillFile
  <2>2. \A q \in Procs : act'[q].at = "keep" => act'[q].root \in Safe'
    <3>1. act[p].root \in Safe'
      BY <1>16 DEF FillFile, Safe, Enveloped, Envelope
    <3> QED  BY <1>0, <1>2, <1>16, <3>1 DEF FillFile, Acts
  <2>3. \A i \in Jobs : thread'[i].at = "write" => thread'[i].root \in Safe'
    BY <1>0, <1>2, <1>16 DEF FillFile, NoThread, jobVars
  <2> QED  BY <1>1, <1>16, <2>1, <2>2, <2>3 DEF FillFile
<1>17. ASSUME NEW p \in Procs, KeepKey(p)  PROVE  Kept'
  <2>1. \A q \in Procs : cache'[q] \in Safe'
    BY <1>0, <1>2, <1>17 DEF KeepKey
  <2>2. \A q \in Procs : act'[q].at = "keep" => act'[q].root \in Safe'
    BY <1>0, <1>2, <1>17 DEF KeepKey, Resting
  <2>3. \A i \in Jobs : thread'[i].at = "write" => thread'[i].root \in Safe'
    BY <1>0, <1>2, <1>17 DEF KeepKey, NoThread, jobVars
  <2> QED  BY <1>1, <1>17, <2>1, <2>2, <2>3 DEF KeepKey
<1>18. ASSUME NEW p \in Procs, CreateFails(p)  PROVE  Kept'
  <2>1. \A q \in Procs : cache'[q] \in Safe'
    BY <1>0, <1>2, <1>18 DEF CreateFails, End
  <2>2. \A q \in Procs : act'[q].at = "keep" => act'[q].root \in Safe'
    BY <1>0, <1>2, <1>18 DEF CreateFails, End, Resting
  <2>3. \A i \in Jobs : thread'[i].at = "write" => thread'[i].root \in Safe'
    BY <1>0, <1>2, <1>18 DEF CreateFails, End, NoThread, jobVars
  <2> QED  BY <1>1, <1>18, <2>1, <2>2, <2>3 DEF CreateFails
<1>19. ASSUME NEW p \in Procs, OpenOnboarding(p)  PROVE  Kept'
  BY <1>3, <1>19 DEF OpenOnboarding, uiFrame, jobVars
<1>20. ASSUME NEW p \in Procs, LeaveOnboarding(p)  PROVE  Kept'
  BY <1>3, <1>20 DEF LeaveOnboarding, uiFrame, jobVars
<1>21. ASSUME NEW p \in Procs, PressStart(p)  PROVE  Kept'
  BY <1>3, <1>21 DEF PressStart, uiFrame, jobVars
<1>22. ASSUME NEW p \in Procs, PressGenerate(p)  PROVE  Kept'
  <2>1. \A q \in Procs : cache'[q] \in Safe'
    BY <1>0, <1>2, <1>22 DEF PressGenerate, uiFrame
  <2>2. \A q \in Procs : act'[q].at = "keep" => act'[q].root \in Safe'
    BY <1>0, <1>2, <1>22 DEF PressGenerate, Generates, Resting, uiFrame
  <2>3. \A i \in Jobs : thread'[i].at = "write" => thread'[i].root \in Safe'
    BY <1>0, <1>2, <1>22 DEF PressGenerate, NoThread, uiFrame, jobVars
  <2> QED  BY <1>1, <1>22, <2>1, <2>2, <2>3 DEF PressGenerate, uiFrame
<1>23. ASSUME NEW p \in Procs, AnswerReset(p)  PROVE  Kept'
  <2>1. \A q \in Procs : cache'[q] \in Safe'
    BY <1>0, <1>2, <1>23 DEF AnswerReset, Replaces, uiFrame
  <2>2. \A q \in Procs : act'[q].at = "keep" => act'[q].root \in Safe'
    BY <1>0, <1>2, <1>23 DEF AnswerReset, Generates, Replaces, Resting, uiFrame
  <2>3. \A i \in Jobs : thread'[i].at = "write" => thread'[i].root \in Safe'
    BY <1>0, <1>2, <1>23 DEF AnswerReset, NoThread, uiFrame, jobVars
  <2> QED  BY <1>1, <1>23, <2>1, <2>2, <2>3 DEF AnswerReset, uiFrame
<1>24. ASSUME NEW p \in Procs, AnswerWarning(p)  PROVE  Kept'
  BY <1>3, <1>24 DEF AnswerWarning, uiFrame, jobVars
<1>25. ASSUME NEW p \in Procs, AnswerPhrase(p)  PROVE  Kept'
  BY <1>3, <1>25 DEF AnswerPhrase, uiFrame, jobVars
<1>26. ASSUME NEW p \in Procs, BackUp(p)  PROVE  Kept'
  BY <1>3, <1>26 DEF BackUp, uiFrame, jobVars
<1>27. ASSUME NEW p \in Procs, KeyInit(p)  PROVE  Kept'
  <2>1. \A q \in Procs : cache'[q] \in Safe'
    BY <1>0, <1>2, <1>27 DEF KeyInit, uiFrame
  <2>2. \A q \in Procs : act'[q].at = "keep" => act'[q].root \in Safe'
    BY <1>0, <1>2, <1>27 DEF KeyInit, Generates, Resting, uiFrame
  <2>3. \A i \in Jobs : thread'[i].at = "write" => thread'[i].root \in Safe'
    BY <1>0, <1>2, <1>27 DEF KeyInit, NoThread, uiFrame, jobVars
  <2> QED  BY <1>1, <1>27, <2>1, <2>2, <2>3 DEF KeyInit, uiFrame
<1>28. ASSUME NEW p \in Procs, KeyRestore(p)  PROVE  Kept'
  <2>1. \A q \in Procs : cache'[q] \in Safe'
    BY <1>0, <1>2, <1>28 DEF KeyRestore, uiFrame
  <2>2. \A q \in Procs : act'[q].at = "keep" => act'[q].root \in Safe'
    BY <1>0, <1>2, <1>28 DEF KeyRestore, Resting, uiFrame
  <2>3. \A i \in Jobs : thread'[i].at = "write" => thread'[i].root \in Safe'
    BY <1>0, <1>2, <1>28 DEF KeyRestore, NoThread, uiFrame, jobVars
  <2> QED  BY <1>1, <1>28, <2>1, <2>2, <2>3 DEF KeyRestore, uiFrame
<1>29. ASSUME NEW p \in Procs, CopyKey(p)  PROVE  Kept'
  <2>1. \A q \in Procs : cache'[q] \in Safe'
    BY <1>0, <1>2, <1>29 DEF CopyKey, uiFrame
  <2>2. \A q \in Procs : act'[q].at = "keep" => act'[q].root \in Safe'
    BY <1>0, <1>2, <1>29 DEF CopyKey, Resting, uiFrame
  <2>3. \A i \in Jobs : thread'[i].at = "write" => thread'[i].root \in Safe'
    BY <1>0, <1>2, <1>29 DEF CopyKey, NoThread, uiFrame, jobVars
  <2> QED  BY <1>1, <1>29, <2>1, <2>2, <2>3 DEF CopyKey, uiFrame
<1>30. ASSUME NEW p \in Procs, Crash(p)  PROVE  Kept'
  <2>1. \A q \in Procs : cache'[q] \in Safe'
    BY <1>0, <1>2, <1>30 DEF Crash, End
  <2>2. \A q \in Procs : act'[q].at = "keep" => act'[q].root \in Safe'
    BY <1>0, <1>2, <1>30 DEF Crash, End, Resting
  <2>3. \A i \in Jobs : thread'[i].at = "write" => thread'[i].root \in Safe'
    BY <1>0, <1>2, <1>30 DEF Crash, End, NoThread
  <2> QED  BY <1>1, <1>30, <2>1, <2>2, <2>3 DEF Crash
<1>31. CASE UNCHANGED vars
  BY <1>3, <1>31 DEF vars, procVars, jobVars
<1> QED  BY <1>4, <1>5, <1>6, <1>7, <1>8, <1>9, <1>10, <1>11, <1>12, <1>13, <1>14, <1>15, <1>16, <1>17,
     <1>18, <1>19, <1>20, <1>21, <1>22, <1>23, <1>24, <1>25, <1>26, <1>27, <1>28, <1>29, <1>30,
     <1>31 DEF Next
-----------------------------------------------------------------------------
(* The worker thread and the unlocked root *)

\* A use of the key leaves every unlocked root, and unlocks none behind a
\* thread that found no key.
LEMMA UsesKeeps ==
    ASSUME Typed, NEW p \in Procs, NEW r, Uses(p, r)
    PROVE  /\ \A q \in Procs : cache[q] # NoRoot => cache'[q] = cache[q]
           /\ \A q \in Procs : q # p => cache'[q] = cache[q]
           /\ cache'[p] = r
           /\ key.st # "ok" => cache' = cache
           /\ r \in RootKeys(p)
<1>1. cache \in [Procs -> Given]
  BY DEF Typed, ProcsTyped
<1>2. cache' = [cache EXCEPT ![p] = r] /\ r \in RootKeys(p)
  BY DEF Uses
<1>3. cache[p] # NoRoot \/ key.st # "ok" => r = cache[p]
  BY <1>1, <1>2 DEF RootKeys
<1> QED  BY <1>1, <1>2, <1>3

\* Threads find the key unlocked, or there is none to ask for.
LEMMA UnlockedStep ==
    ASSUME KeystoreAssumption, Typed, Unlocked, Stacked, [Next]_vars
    PROVE  Unlocked'
<1>0. /\ cache \in [Procs -> Given] /\ act \in [Procs -> Acts] /\ thread \in [Jobs -> Threads]
      /\ Owner \in [Jobs -> Procs] /\ ready \in [Procs -> BOOLEAN] /\ key \in Held
      /\ \A f \in Held : f.st = "ok" <=> f.root # NoRoot
      /\ NoFile.st = "none" /\ Cut.st = "part"
      /\ \A p \in Procs : act[p].at # "rest" => act[p].root # NoRoot
      /\ \A p \in Procs : p \notin Tui => screen[p] = <<>>
  BY Numbers, HeldFiles DEF Typed, FilesTyped, ProcsTyped, JobsTyped, Placed, KeystoreAssumption, NoFile,
       Cut
<1>1. ASSUME UNCHANGED <<cache, ready, key, raced, thread>>,
             \A p \in Procs : act'[p].at = "keep" => act[p].at = "keep"
      PROVE  Unlocked'
  BY <1>0, <1>1 DEF Unlocked, UsesKey, InThread
<1>2. ASSUME UNCHANGED <<ready, thread>>, \A p \in Procs : p \notin Tui => cache'[p] = cache[p],
             raced' = (raced \/ Storing)
      PROVE  Unlocked'
  <2>1. (\E j \in Jobs : InThread(j)) => raced'
    BY <1>2 DEF Storing, InThread
  <2>2. \A j \in Jobs : UsesKey(j) => InThread(j)
    BY DEF UsesKey, InThread
  <2> QED  BY <1>0, <1>2, <2>1, <2>2 DEF Unlocked, UsesKey, InThread
<1>3. ASSUME UNCHANGED <<cache, ready, raced, thread>>, key'.st # "ok",
             \A p \in Procs : act'[p].at = "keep" => act[p].at = "keep"
      PROVE  Unlocked'
  BY <1>0, <1>3 DEF Unlocked, UsesKey, InThread
<1>4. ASSUME NEW p \in Procs, End(p), key' = key \/ key'.st # "ok", UNCHANGED raced
      PROVE  Unlocked'
  <2>1. /\ \A q \in Procs : q # p => cache'[q] = cache[q] /\ ready'[q] = ready[q] /\ act'[q] = act[q]
        /\ ~ready'[p]
        /\ \A j \in Jobs : Owner[j] = p => thread'[j] = NoThread
        /\ \A j \in Jobs : Owner[j] # p => thread'[j] = thread[j]
    BY <1>0, <1>4 DEF End
  <2> QED  BY <1>0, <1>4, <2>1 DEF Unlocked, UsesKey, InThread, NoThread
<1>5. ASSUME NEW p \in Procs, Loop(p), NEW j \in Jobs, Owner[j] = p, Store(j), UNCHANGED <<raced, act, key>>,
             \A q \in Procs : cache[q] # NoRoot => cache'[q] = cache[q],
             cache'[p] # NoRoot \/ (p \in Tui /\ key.st # "ok")
      PROVE  Unlocked'
  <2>1. /\ \A q \in Procs : q # p => ready'[q] = ready[q]
        /\ \A i \in Jobs : i # j => thread'[i] = thread[i]
    BY <1>0, <1>5 DEF Store
  <2> QED  BY <1>0, <1>5, <2>1 DEF Unlocked, UsesKey, InThread, Loop
<1>6. ASSUME NEW j \in Jobs, UNCHANGED <<raced, act, key, ready>>,
             \A q \in Procs : cache[q] # NoRoot => cache'[q] = cache[q],
             \A i \in Jobs : UsesKey(i)' => UsesKey(i),
             \A i \in Jobs : InThread(i)' => InThread(i)
      PROVE  Unlocked'
  BY <1>0, <1>6 DEF Unlocked
<1>7. ASSUME NEW j \in Jobs, Begin(j)  PROVE  Unlocked'
  <2>1. /\ \A q \in Procs : q # Owner[j] => cache'[q] = cache[q] /\ ready'[q] = ready[q]
        /\ Owner[j] \in Tui => cache'[Owner[j]] = cache[Owner[j]]
        /\ Owner[j] \notin Tui =>
            ~ready'[Owner[j]] /\ \A k \in Jobs : Owner[k] = Owner[j] => thread[k].at = "none"
    BY <1>0, <1>7 DEF Begin
  <2>2. UNCHANGED <<thread, act, key, raced>>
    BY <1>7 DEF Begin, diskVars, histVars
  <2> QED  BY <1>0, <2>1, <2>2 DEF Unlocked, UsesKey, InThread
<1>8. ASSUME NEW j \in Jobs, EnsureNativeKey(j)  PROVE  Unlocked'
  BY <1>0, <1>1, <1>8 DEF EnsureNativeKey, procVars, diskVars, histVars
<1>9. ASSUME NEW j \in Jobs, TakeLock(j)  PROVE  Unlocked'
  <2> DEFINE p == Owner[j]
  <2>0. p \in Procs /\ Loop(p) /\ UNCHANGED <<key, act, raced>>
    BY <1>0, <1>9 DEF TakeLock, diskVars
  <2>1. CASE ~MustAsk(p) /\ ready[p] /\ Store(j) /\ UNCHANGED cache
    <3>1. cache[p] # NoRoot \/ (p \in Tui /\ key.st # "ok")
      BY <2>0, <2>1 DEF MustAsk, Exists, Unlocked
    <3> QED  BY <1>5, <2>0, <2>1, <3>1
  <2>2. CASE (\E r \in Roots : Uses(p, r)) /\ Store(j)
    <3>1. PICK r \in Roots : Uses(p, r)
      BY <2>2
    <3>2. r # NoRoot
      BY DEF Roots, NoRoot
    <3> QED  BY <1>5, <2>0, <2>2, <3>1, <3>2, UsesKeeps
  <2>3. CASE Uses(p, NoRoot) /\ UNCHANGED <<ready, thread>>
    BY <1>6, <2>0, <2>3, UsesKeeps DEF UsesKey, InThread
  <2>4. CASE UNCHANGED <<cache, ready, thread>>
    BY <1>1, <2>0, <2>4
  <2> QED  BY <1>9, <2>1, <2>2, <2>3, <2>4 DEF TakeLock
<1>10. ASSUME NEW j \in Jobs, FindValue(j)  PROVE  Unlocked'
  <2>1. UNCHANGED <<raced, act, key, ready>>
    BY <1>10 DEF FindValue, diskVars
  <2>2. \A q \in Procs : cache[q] # NoRoot => cache'[q] = cache[q]
    BY <1>0, <1>10, UsesKeeps DEF FindValue
  <2>3. \A i \in Jobs : (UsesKey(i)' => UsesKey(i)) /\ (InThread(i)' => InThread(i))
    BY <1>0, <1>10 DEF FindValue, UsesKey, InThread, Threads, NoThread
  <2> QED  BY <1>6, <2>1, <2>2, <2>3
<1>11. ASSUME NEW j \in Jobs, Encrypt(j)  PROVE  Unlocked'
  <2>1. UNCHANGED <<raced, act, key, ready>>
    BY <1>11 DEF Encrypt, diskVars
  <2>2. \A q \in Procs : cache[q] # NoRoot => cache'[q] = cache[q]
    BY <1>0, <1>11, UsesKeeps DEF Encrypt
  <2>3. \A i \in Jobs : (UsesKey(i)' => UsesKey(i)) /\ (InThread(i)' => InThread(i))
    BY <1>0, <1>11 DEF Encrypt, UsesKey, InThread, Threads, NoThread
  <2> QED  BY <1>6, <2>1, <2>2, <2>3
<1>12. ASSUME NEW j \in Jobs, WriteEntry(j)  PROVE  Unlocked'
  <2>1. UNCHANGED <<raced, act, key, ready>>
    BY <1>12 DEF WriteEntry, diskVars, procVars, histVars
  <2>2. \A q \in Procs : cache[q] # NoRoot => cache'[q] = cache[q]
    BY <1>0, <1>12, UsesKeeps DEF WriteEntry, procVars
  <2>3. \A i \in Jobs : (UsesKey(i)' => UsesKey(i)) /\ (InThread(i)' => InThread(i))
    BY <1>0, <1>12 DEF WriteEntry, UsesKey, InThread, Threads, NoThread
  <2> QED  BY <1>6, <2>1, <2>2, <2>3
<1>13. ASSUME NEW j \in Jobs, Stored(j)  PROVE  Unlocked'
  <2>1. UNCHANGED <<raced, act, key, ready>>
    BY <1>13 DEF Stored, diskVars
  <2>2. \A q \in Procs : cache[q] # NoRoot => cache'[q] = cache[q]
    BY <1>0, <1>13, UsesKeeps DEF Stored
  <2>3. \A i \in Jobs : (UsesKey(i)' => UsesKey(i)) /\ (InThread(i)' => InThread(i))
    BY <1>0, <1>13 DEF Stored, UsesKey, InThread, Threads, NoThread
  <2> QED  BY <1>6, <2>1, <2>2, <2>3
<1>14. ASSUME NEW j \in Jobs, CancelPrompt(j)  PROVE  Unlocked'
  BY <1>0, <1>1, <1>14 DEF CancelPrompt, diskVars, histVars
<1>15. ASSUME NEW j \in Jobs, Reveal(j)  PROVE  Unlocked'
  <2>1. UNCHANGED <<raced, act, key, ready>>
    BY <1>15 DEF Reveal, diskVars
  <2>2. \A q \in Procs : cache[q] # NoRoot => cache'[q] = cache[q]
    BY <1>0, <1>15, UsesKeeps DEF Reveal
  <2>3. \A i \in Jobs : (UsesKey(i)' => UsesKey(i)) /\ (InThread(i)' => InThread(i))
    BY <1>0, <1>15 DEF Reveal, UsesKey, InThread, Threads, NoThread
  <2> QED  BY <1>6, <2>1, <2>2, <2>3
<1>16. ASSUME NEW p \in Procs, EnterPhrase(p)  PROVE  Unlocked'
  <2> DEFINE asker == Last(screen[p]).job
  <2>1. asker \in Jobs /\ Owner[asker] = p /\ Loop(p)
    BY <1>16, TopEntry DEF EnterPhrase, Typed, Top
  <2>2. /\ cache'[p] # NoRoot
        /\ \A q \in Procs : cache[q] # NoRoot => cache'[q] = cache[q]
        /\ UNCHANGED <<raced, act, key>>
    BY <1>0, <1>16 DEF EnterPhrase, diskVars
  <2>3. CASE Store(asker)
    BY <1>5, <2>1, <2>2, <2>3
  <2>4. CASE UNCHANGED <<ready, thread>>
    BY <1>6, <2>1, <2>2, <2>4 DEF UsesKey, InThread
  <2> QED  BY <1>16, <2>3, <2>4 DEF EnterPhrase
<1>17. ASSUME NEW p \in Procs, CancelPhrase(p)  PROVE  Unlocked'
  BY <1>0, <1>1, <1>17 DEF CancelPhrase, diskVars, histVars
<1>18. ASSUME NEW p \in Procs, CreateFile(p)  PROVE  Unlocked'
  BY <1>0, <1>3, <1>18 DEF CreateFile, jobVars, histVars
<1>19. ASSUME NEW p \in Procs, FillFile(p)  PROVE  Unlocked'
  BY <1>2, <1>19 DEF FillFile, jobVars
<1>20. ASSUME NEW p \in Procs, KeepKey(p)  PROVE  Unlocked'
  <2>1. /\ UNCHANGED <<raced, key, ready, thread>>
        /\ \A q \in Procs : act'[q].at = "keep" => act[q].at = "keep"
        /\ \A q \in Procs : cache[q] # NoRoot => cache'[q] # NoRoot
    BY <1>0, <1>20 DEF KeepKey, diskVars, histVars, jobVars, Resting
  <2> QED  BY <1>0, <2>1 DEF Unlocked, UsesKey, InThread
<1>21. ASSUME NEW p \in Procs, CreateFails(p)  PROVE  Unlocked'
  <2>1. CASE raced' = (raced \/ Storing) /\ UNCHANGED <<cache, ready, jobVars>>
    BY <1>2, <2>1 DEF jobVars
  <2> QED  BY <1>4, <1>21, <2>1 DEF CreateFails
<1>22. ASSUME NEW p \in Procs, OpenOnboarding(p)  PROVE  Unlocked'
  BY <1>0, <1>1, <1>22 DEF OpenOnboarding, diskVars, uiFrame, jobVars
<1>23. ASSUME NEW p \in Procs, LeaveOnboarding(p)  PROVE  Unlocked'
  BY <1>0, <1>1, <1>23 DEF LeaveOnboarding, diskVars, uiFrame, jobVars
<1>24. ASSUME NEW p \in Procs, PressStart(p)  PROVE  Unlocked'
  BY <1>0, <1>1, <1>24 DEF PressStart, diskVars, uiFrame, jobVars
<1>25. ASSUME NEW p \in Procs, PressGenerate(p)  PROVE  Unlocked'
  BY <1>0, <1>1, <1>25 DEF PressGenerate, diskVars, uiFrame, jobVars, Generates
<1>26. ASSUME NEW p \in Procs, AnswerReset(p)  PROVE  Unlocked'
  <2>1. p \in Tui
    BY <1>0, <1>26 DEF AnswerReset, Top
  <2>2. CASE \E t \in Seconds : Replaces(p, t)
    BY <1>0, <1>2, <1>26, <2>1, <2>2 DEF AnswerReset, Replaces, uiFrame, jobVars
  <2>3. CASE UNCHANGED <<diskVars, cache, act, raced>>
    BY <1>1, <1>26, <2>3 DEF AnswerReset, uiFrame, jobVars, diskVars
  <2> QED  BY <1>26, <2>2, <2>3 DEF AnswerReset
<1>27. ASSUME NEW p \in Procs, AnswerWarning(p)  PROVE  Unlocked'
  BY <1>0, <1>1, <1>27 DEF AnswerWarning, diskVars, uiFrame, jobVars
<1>28. ASSUME NEW p \in Procs, AnswerPhrase(p)  PROVE  Unlocked'
  BY <1>0, <1>1, <1>28 DEF AnswerPhrase, diskVars, uiFrame, jobVars
<1>29. ASSUME NEW p \in Procs, BackUp(p)  PROVE  Unlocked'
  BY <1>0, <1>1, <1>29 DEF BackUp, uiFrame, jobVars
<1>30. ASSUME NEW p \in Procs, KeyInit(p)  PROVE  Unlocked'
  BY <1>0, <1>1, <1>30 DEF KeyInit, uiFrame, jobVars, Generates
<1>31. ASSUME NEW p \in Procs, KeyRestore(p)  PROVE  Unlocked'
  BY <1>0, <1>3, <1>31 DEF KeyRestore, jobVars, uiFrame
<1>32. ASSUME NEW p \in Procs, CopyKey(p)  PROVE  Unlocked'
  BY <1>2, <1>32 DEF CopyKey, jobVars, uiFrame
<1>33. ASSUME NEW p \in Procs, Crash(p)  PROVE  Unlocked'
  BY <1>0, <1>4, <1>33 DEF Crash, histVars
<1>34. CASE UNCHANGED vars
  BY <1>1, <1>34 DEF vars, procVars, jobVars, diskVars, histVars
<1> QED  BY <1>7, <1>8, <1>9, <1>10, <1>11, <1>12, <1>13, <1>14, <1>15, <1>16, <1>17, <1>18, <1>19, <1>20,
     <1>21, <1>22, <1>23, <1>24, <1>25, <1>26, <1>27, <1>28, <1>29, <1>30, <1>31, <1>32, <1>33,
     <1>34 DEF Next

\* What was noted stays noted, and only a thread that writes adds an entry.
LEMMA HistoryGrows ==
    ASSUME [Next]_vars
    PROVE  /\ raced => raced'
           /\ crowded => crowded'
           /\ UNCHANGED entries \/ \E j \in Jobs : WriteEntry(j)
<1>1. raced => raced'
  BY DEF Next, vars, histVars, uiFrame, Replaces, Begin, EnsureNativeKey, TakeLock, FindValue, Encrypt,
       WriteEntry, Stored, CancelPrompt, Reveal, EnterPhrase, CancelPhrase, CreateFile, FillFile,
       KeepKey, CreateFails, OpenOnboarding, LeaveOnboarding, PressStart, PressGenerate, AnswerReset,
       AnswerWarning, AnswerPhrase, BackUp, KeyInit, KeyRestore, CopyKey, Crash
<1>2. crowded => crowded'
  BY DEF Next, vars, histVars, uiFrame, Store, Begin, EnsureNativeKey, TakeLock, FindValue, Encrypt,
       WriteEntry, Stored, CancelPrompt, Reveal, EnterPhrase, CancelPhrase, CreateFile, FillFile,
       KeepKey, CreateFails, OpenOnboarding, LeaveOnboarding, PressStart, PressGenerate, AnswerReset,
       AnswerWarning, AnswerPhrase, BackUp, KeyInit, KeyRestore, CopyKey, Crash
<1>3. UNCHANGED entries \/ \E j \in Jobs : WriteEntry(j)
  BY DEF Next, vars, uiFrame, Begin, EnsureNativeKey, TakeLock, FindValue, Encrypt, Stored, CancelPrompt,
       Reveal, EnterPhrase, CancelPhrase, CreateFile, FillFile, KeepKey, CreateFails, OpenOnboarding,
       LeaveOnboarding, PressStart, PressGenerate, AnswerReset, AnswerWarning, AnswerPhrase, BackUp,
       KeyInit, KeyRestore, CopyKey, Crash
<1> QED  BY <1>1, <1>2, <1>3

\* The terminal is read by the threads of an interface only: each other use of
\* its key comes after the question in a dialog.
LEMMA PromptStep ==
    ASSUME KeystoreAssumption, Typed, Unlocked, NoTerminalPrompt, [Next]_vars
    PROVE  NoTerminalPrompt'
<1>0. raced => raced'
  BY HistoryGrows
<1>1. ASSUME UNCHANGED prompted  PROVE  NoTerminalPrompt'
  BY <1>0, <1>1 DEF NoTerminalPrompt
<1>2. ASSUME NEW p \in Procs, NEW r, Uses(p, r), p \in Tui /\ ~raced => cache[p] # NoRoot \/ key.st # "ok"
      PROVE  NoTerminalPrompt'
  BY <1>0, <1>2 DEF NoTerminalPrompt, Uses, ReadsTerminal
<1>3. ASSUME NEW j \in Jobs, TakeLock(j) \/ Reveal(j)  PROVE  NoTerminalPrompt'
  <2>1. UNCHANGED prompted \/ \E r : Uses(Owner[j], r) /\ ~MustAsk(Owner[j])
    BY <1>3 DEF TakeLock, Reveal
  <2> QED  BY <1>1, <1>2, <2>1 DEF MustAsk, Exists, KeystoreAssumption
<1>4. ASSUME NEW j \in Jobs, FindValue(j) \/ Encrypt(j)  PROVE  NoTerminalPrompt'
  <2>1. UsesKey(j) /\ (UNCHANGED prompted \/ \E r : Uses(Owner[j], r))
    BY <1>4 DEF FindValue, Encrypt, UsesKey
  <2> QED  BY <1>1, <1>2, <2>1 DEF Unlocked, KeystoreAssumption
<1>5. UNCHANGED prompted \/ \E j \in Jobs : TakeLock(j) \/ Reveal(j) \/ FindValue(j) \/ Encrypt(j)
  BY DEF Next, vars, histVars, uiFrame, Begin, EnsureNativeKey, WriteEntry, Stored, CancelPrompt,
       EnterPhrase, CancelPhrase, CreateFile, FillFile, KeepKey, CreateFails, OpenOnboarding,
       LeaveOnboarding, PressStart, PressGenerate, AnswerReset, AnswerWarning, AnswerPhrase, BackUp,
       KeyInit, KeyRestore, CopyKey, Crash
<1> QED  BY <1>1, <1>3, <1>4, <1>5

\* A thread finds that its value is not stored under the unlocked root, and
\* nothing it is not told of stores it, or changes the root, before it has.
LEMMA UnstoredStep ==
    ASSUME KeystoreAssumption, Typed, Unlocked, Unstored, Stacked, [Next]_vars
    PROVE  Unstored'
<1>0. /\ cache \in [Procs -> Given] /\ thread \in [Jobs -> Threads] /\ Owner \in [Jobs -> Procs]
      /\ entries \in Seq(Lines)
      /\ (raced => raced') /\ (crowded => crowded')
  BY HistoryGrows DEF Typed, FilesTyped, ProcsTyped, JobsTyped, KeystoreAssumption
<1>1. ASSUME UNCHANGED entries,
             \A i \in Jobs : InThread(i)' => thread'[i] = thread[i],
             ~raced' => \A i \in Jobs : thread'[i].at = "encrypt" => cache'[Owner[i]] = cache[Owner[i]]
      PROVE  Unstored'
  BY <1>0, <1>1 DEF Unstored, InThread
<1>2. ASSUME UNCHANGED <<entries, thread, cache>>  PROVE  Unstored'
  BY <1>1, <1>2
<1>3. ASSUME NEW p \in Procs, NEW r, Uses(p, r)
      PROVE  ~raced => \A i \in Jobs : UsesKey(i) => cache'[Owner[i]] = cache[Owner[i]]
  BY <1>0, <1>3, UsesKeeps DEF Unlocked
<1>4. ASSUME NEW j \in Jobs, Store(j), UNCHANGED entries  PROVE  Unstored'
  <2>1. ~crowded' => \A i \in Jobs : InThread(i)' => i = j
    BY <1>0, <1>4 DEF Store, Storing, InThread
  <2>2. thread'[j].at = "find"
    BY <1>0, <1>4 DEF Store
  <2> QED  BY <2>1, <2>2 DEF Unstored, InThread
<1>5. ASSUME NEW p \in Procs, End(p), UNCHANGED entries  PROVE  Unstored'
  <2>1. /\ \A i \in Jobs : Owner[i] = p => thread'[i] = NoThread
        /\ \A i \in Jobs : Owner[i] # p => thread'[i] = thread[i] /\ cache'[Owner[i]] = cache[Owner[i]]
    BY <1>0, <1>5 DEF End
  <2> QED  BY <1>1, <1>5, <2>1 DEF InThread, NoThread
<1>6. ASSUME NEW j \in Jobs, Begin(j)  PROVE  Unstored'
  <2>1. UNCHANGED <<entries, thread>>
    BY <1>6 DEF Begin
  <2>2. \A i \in Jobs : thread[i].at = "encrypt" => cache'[Owner[i]] = cache[Owner[i]]
    BY <1>0, <1>6 DEF Begin
  <2> QED  BY <1>1, <2>1, <2>2
<1>7. ASSUME NEW j \in Jobs, EnsureNativeKey(j)  PROVE  Unstored'
  BY <1>2, <1>7 DEF EnsureNativeKey, procVars
<1>8. ASSUME NEW j \in Jobs, TakeLock(j)  PROVE  Unstored'
  <2>1. UNCHANGED entries
    BY <1>8 DEF TakeLock
  <2>2. ~raced => \A i \in Jobs : UsesKey(i) => cache'[Owner[i]] = cache[Owner[i]]
    BY <1>0, <1>3, <1>8 DEF TakeLock
  <2> QED  BY <1>0, <1>1, <1>4, <1>8, <2>1, <2>2 DEF TakeLock, UsesKey
<1>9. ASSUME NEW j \in Jobs, FindValue(j)  PROVE  Unstored'
  <2>1. UNCHANGED <<entries, raced, crowded>>
    BY <1>9 DEF FindValue
  <2>2. ~raced => \A i \in Jobs : UsesKey(i) => cache'[Owner[i]] = cache[Owner[i]]
    BY <1>3, <1>9 DEF FindValue, KeystoreAssumption
  <2>3. /\ \A i \in Jobs : i # j => thread'[i] = thread[i]
        /\ thread'[j].s = thread[j].s /\ thread'[j].at \in {"encrypt", "stored"} /\ thread[j].at = "find"
    <3>1. thread[j].at = "find" /\ \E a \in {"encrypt", "stored"} : thread' = [thread EXCEPT ![j].at = a]
      BY <1>9 DEF FindValue
    <3> QED  BY <1>0, <3>1 DEF Threads
  <2>4. thread'[j].at = "encrypt" =>
            \A n \in DOMAIN entries : entries[n] # [s |-> thread[j].s, root |-> cache'[Owner[j]]]
    <3>1. CASE entries = <<>>
      BY <3>1
    <3>2. ASSUME NEW r, Uses(Owner[j], r), thread' = [thread EXCEPT ![j].at =
                       IF [s |-> thread[j].s, root |-> r] \in ToSet(entries) THEN "stored" ELSE "encrypt"]
          PROVE  thread'[j].at = "encrypt" =>
            \A n \in DOMAIN entries : entries[n] # [s |-> thread[j].s, root |-> cache'[Owner[j]]]
      <4>1. cache'[Owner[j]] = r
        BY <1>0, <3>2, UsesKeeps
      <4>2. thread'[j].at = "encrypt" => [s |-> thread[j].s, root |-> r] \notin ToSet(entries)
        BY <1>0, <3>2 DEF Threads
      <4> QED  BY <4>1, <4>2 DEF ToSet
    <3> QED  BY <1>9, <3>1, <3>2 DEF FindValue
  <2>5. ~crowded => \A i, k \in Jobs : InThread(i)' /\ InThread(k)' => i = k
    BY <2>3 DEF Unstored, InThread
  <2> QED  BY <2>1, <2>2, <2>3, <2>4, <2>5 DEF Unstored, InThread, UsesKey
<1>10. ASSUME NEW j \in Jobs, Encrypt(j)  PROVE  Unstored'
  <2>1. UNCHANGED <<entries, raced, crowded>> /\ thread[j].at = "encrypt"
    BY <1>10 DEF Encrypt
  <2>2. PICK r : Uses(Owner[j], r) /\
            thread' = [thread EXCEPT ![j].root = r, ![j].at = IF r = NoRoot THEN "refused" ELSE "write"]
    BY <1>10 DEF Encrypt
  <2>3. ~raced => \A i \in Jobs : UsesKey(i) => cache'[Owner[i]] = cache[Owner[i]]
    BY <1>0, <1>3, <2>2
  <2>4. /\ \A i \in Jobs : i # j => thread'[i] = thread[i]
        /\ thread'[j].s = thread[j].s /\ thread'[j].at \in {"write", "refused"}
        /\ thread'[j].root = r
    BY <1>0, <2>2 DEF Threads
  <2>5. cache'[Owner[j]] = r
    BY <1>0, <2>2, UsesKeeps
  <2>6. ~raced => cache[Owner[j]] = r
    BY <2>1, <2>3, <2>5 DEF UsesKey
  <2>7. ~crowded => \A i, k \in Jobs : InThread(i)' /\ InThread(k)' => i = k
    BY <2>1, <2>4 DEF Unstored, InThread
  <2> QED  BY <2>1, <2>3, <2>4, <2>6, <2>7 DEF Unstored, InThread, UsesKey
<1>11. ASSUME NEW j \in Jobs, WriteEntry(j)  PROVE  Unstored'
  <2>1. UNCHANGED <<cache, raced, crowded>> /\ thread[j].at = "write"
    BY <1>11 DEF WriteEntry, procVars, histVars
  <2>2. /\ \A i \in Jobs : i # j => thread'[i] = thread[i]
        /\ thread'[j].at \in {"stored", "refused"}
    BY <1>0, <1>11 DEF WriteEntry, Threads
  <2>3. ~crowded' => \A i \in Jobs : ~InThread(i)'
    BY <2>1, <2>2 DEF Unstored, InThread
  <2> QED  BY <2>3 DEF Unstored, InThread
<1>12. ASSUME NEW j \in Jobs, Stored(j)  PROVE  Unstored'
  BY <1>0, <1>1, <1>12 DEF Stored, InThread, NoThread
<1>13. ASSUME NEW j \in Jobs, CancelPrompt(j)  PROVE  Unstored'
  BY <1>2, <1>13 DEF CancelPrompt
<1>14. ASSUME NEW j \in Jobs, Reveal(j)  PROVE  Unstored'
  <2>1. UNCHANGED entries
    BY <1>14 DEF Reveal
  <2>2. ~raced => \A i \in Jobs : UsesKey(i) => cache'[Owner[i]] = cache[Owner[i]]
    BY <1>0, <1>3, <1>14 DEF Reveal
  <2> QED  BY <1>0, <1>1, <1>4, <1>14, <2>1, <2>2 DEF Reveal, UsesKey
<1>15. ASSUME NEW p \in Procs, EnterPhrase(p)  PROVE  Unstored'
  <2>1. Last(screen[p]).job \in Jobs /\ UNCHANGED entries
    BY <1>15, TopEntry DEF EnterPhrase, Typed
  <2>2. ~raced => \A i \in Jobs : UsesKey(i) => cache'[Owner[i]] = cache[Owner[i]]
    BY <1>0, <1>15 DEF EnterPhrase, Unlocked
  <2> QED  BY <1>0, <1>1, <1>4, <1>15, <2>1, <2>2 DEF EnterPhrase, UsesKey
<1>16. ASSUME NEW p \in Procs, CancelPhrase(p)  PROVE  Unstored'
  BY <1>2, <1>16 DEF CancelPhrase
<1>17. ASSUME NEW p \in Procs, CreateFile(p)  PROVE  Unstored'
  BY <1>2, <1>17 DEF CreateFile, jobVars
<1>18. ASSUME NEW p \in Procs, FillFile(p)  PROVE  Unstored'
  BY <1>2, <1>18 DEF FillFile, jobVars
<1>19. ASSUME NEW p \in Procs, KeepKey(p)  PROVE  Unstored'
  <2>1. UNCHANGED <<entries, thread>> /\ \A q \in Procs : q # p => cache'[q] = cache[q]
    BY <1>0, <1>19 DEF KeepKey, jobVars
  <2>2. \A i \in Jobs : thread[i].at = "encrypt" /\ Owner[i] = p => raced
    BY <1>19 DEF KeepKey, Unlocked, InThread
  <2> QED  BY <1>0, <1>1, <2>1, <2>2
<1>20. ASSUME NEW p \in Procs, CreateFails(p)  PROVE  Unstored'
  BY <1>2, <1>5, <1>20 DEF CreateFails, jobVars
<1>21. ASSUME NEW p \in Procs, OpenOnboarding(p)  PROVE  Unstored'
  BY <1>2, <1>21 DEF OpenOnboarding, uiFrame, jobVars
<1>22. ASSUME NEW p \in Procs, LeaveOnboarding(p)  PROVE  Unstored'
  BY <1>2, <1>22 DEF LeaveOnboarding, uiFrame, jobVars
<1>23. ASSUME NEW p \in Procs, PressStart(p)  PROVE  Unstored'
  BY <1>2, <1>23 DEF PressStart, uiFrame, jobVars
<1>24. ASSUME NEW p \in Procs, PressGenerate(p)  PROVE  Unstored'
  BY <1>2, <1>24 DEF PressGenerate, uiFrame, jobVars
<1>25. ASSUME NEW p \in Procs, AnswerReset(p)  PROVE  Unstored'
  <2>1. UNCHANGED <<entries, thread>>
    BY <1>25 DEF AnswerReset, uiFrame, jobVars
  <2>2. UNCHANGED cache \/ raced' = (raced \/ Storing)
    BY <1>25 DEF AnswerReset, Replaces
  <2>3. \A i \in Jobs : thread[i].at = "encrypt" => Storing
    BY DEF Storing
  <2> QED  BY <1>1, <1>2, <2>1, <2>2, <2>3
<1>26. ASSUME NEW p \in Procs, AnswerWarning(p)  PROVE  Unstored'
  BY <1>2, <1>26 DEF AnswerWarning, uiFrame, jobVars
<1>27. ASSUME NEW p \in Procs, AnswerPhrase(p)  PROVE  Unstored'
  BY <1>2, <1>27 DEF AnswerPhrase, uiFrame, jobVars
<1>28. ASSUME NEW p \in Procs, BackUp(p)  PROVE  Unstored'
  BY <1>2, <1>28 DEF BackUp, uiFrame, jobVars
<1>29. ASSUME NEW p \in Procs, KeyInit(p)  PROVE  Unstored'
  BY <1>2, <1>29 DEF KeyInit, uiFrame, jobVars
<1>30. ASSUME NEW p \in Procs, KeyRestore(p)  PROVE  Unstored'
  BY <1>2, <1>30 DEF KeyRestore, uiFrame, jobVars
<1>31. ASSUME NEW p \in Procs, CopyKey(p)  PROVE  Unstored'
  BY <1>2, <1>31 DEF CopyKey, uiFrame, jobVars
<1>32. ASSUME NEW p \in Procs, Crash(p)  PROVE  Unstored'
  BY <1>5, <1>32 DEF Crash
<1>33. CASE UNCHANGED vars
  BY <1>2, <1>33 DEF vars, procVars, jobVars
<1> QED  BY <1>6, <1>7, <1>8, <1>9, <1>10, <1>11, <1>12, <1>13, <1>14, <1>15, <1>16, <1>17, <1>18, <1>19,
     <1>20, <1>21, <1>22, <1>23, <1>24, <1>25, <1>26, <1>27, <1>28, <1>29, <1>30, <1>31, <1>32,
     <1>33 DEF Next

\* So that the entry it appends is a new one.
LEMMA StoredOnceStep ==
    ASSUME Typed, Unstored, StoredOnce, [Next]_vars
    PROVE  StoredOnce'
<1>0. entries \in Seq(Lines) /\ (raced => raced') /\ (crowded => crowded')
  BY HistoryGrows DEF Typed, FilesTyped
<1>1. CASE UNCHANGED entries
  BY <1>0, <1>1 DEF StoredOnce
<1>2. ASSUME NEW j \in Jobs, WriteEntry(j)  PROVE  StoredOnce'
  <2> DEFINE line == [s |-> thread[j].s, root |-> thread[j].root]
  <2>1. ~crowded /\ ~raced => \A n \in DOMAIN entries : entries[n] # line
    BY <1>2 DEF WriteEntry, Unstored
  <2>2. UNCHANGED entries \/ entries' = Append(entries, line)
    BY <1>2 DEF WriteEntry
  <2> HIDE DEF line
  <2> QED  BY <1>0, <2>1, <2>2 DEF StoredOnce
<1> QED  BY <1>1, <1>2, HistoryGrows
-----------------------------------------------------------------------------
(* The text of a job *)

\* The members of a sequence are its head and those of its tail.
LEMMA HeadAndTail ==
    ASSUME NEW S, NEW seq \in Seq(S), seq # <<>>
    PROVE  /\ \A s \in ToSet(seq) : s = Head(seq) \/ s \in ToSet(Tail(seq))
           /\ Len(seq) > 1 => Tail(seq) # <<>>
           /\ ~(Len(seq) > 1) => \A s \in ToSet(seq) : s = Head(seq)
<1>1. Len(seq) \in Nat /\ Len(seq) >= 1 /\ DOMAIN seq = 1..Len(seq)
  OBVIOUS
<1>2. Len(Tail(seq)) = Len(seq) - 1 /\ DOMAIN Tail(seq) = 1 .. Len(seq) - 1
  OBVIOUS
<1>3. Head(seq) = seq[1] /\ \A n \in 1 .. Len(seq) - 1 : Tail(seq)[n] = seq[n + 1]
  OBVIOUS
<1>4. ASSUME NEW s \in ToSet(seq)
      PROVE  s = Head(seq) \/ (Len(seq) > 1 /\ s \in ToSet(Tail(seq)))
  <2>1. PICK n \in 1..Len(seq) : s = seq[n]
    BY <1>1 DEF ToSet
  <2>2. CASE n = 1
    BY <1>3, <2>1, <2>2
  <2>3. CASE n # 1
    <3>1. n - 1 \in 1 .. Len(seq) - 1 /\ s = Tail(seq)[n - 1] /\ Len(seq) > 1
      BY <1>1, <1>3, <2>1, <2>3
    <3>2. s \in ToSet(Tail(seq))
      BY <1>2, <3>1 DEF ToSet
    <3> QED  BY <3>1, <3>2
  <2> QED  BY <2>2, <2>3
<1>5. Len(seq) > 1 => Tail(seq) # <<>>
  <2>1. Len(<<>>) = 0
    BY EmptySeq
  <2>2. Tail(seq) = <<>> => Len(Tail(seq)) = 0
    BY <2>1, Zenon
  <2>3. Len(seq) > 1 => Len(Tail(seq)) # 0
    BY <1>1, <1>2
  <2> QED  BY <2>2, <2>3, Zenon
<1> QED  BY <1>4, <1>5

\* What is in the store stays there.
LEMMA StoreGrows ==
    ASSUME Typed, [Next]_vars
    PROVE  \A s : InStore(s) => InStore(s)'
<1>1. CASE UNCHANGED entries
  BY <1>1 DEF InStore
<1>2. ASSUME NEW j \in Jobs, WriteEntry(j)  PROVE  \A s : InStore(s) => InStore(s)'
  <2>1. entries \in Seq(Lines)
    BY DEF Typed, FilesTyped
  <2>2. \A n \in DOMAIN entries : n \in DOMAIN entries' /\ entries'[n] = entries[n]
    BY <1>2, <2>1 DEF WriteEntry
  <2> QED  BY <2>2 DEF InStore
<1> QED  BY <1>1, <1>2, HistoryGrows

\* Every step leaves the secrets of a text stored or still to be stored.
LEMMA NotedStep ==
    ASSUME KeystoreAssumption, Typed, Noted, Stacked, [Next]_vars
    PROVE  Noted'
<1>0. /\ thread \in [Jobs -> Threads] /\ job \in [Jobs -> Tasks] /\ entries \in Seq(Lines)
      /\ \A s : InStore(s) => InStore(s)'
      /\ Texts \in [Jobs -> SUBSET (Seq(Secrets) \ {<<>>})]
  BY StoreGrows DEF Typed, FilesTyped, JobsTyped, KeystoreAssumption
<1>1. ASSUME UNCHANGED <<job, thread>>  PROVE  Noted'
  BY <1>0, <1>1 DEF Noted
<1>2. ASSUME NEW j \in Jobs, NEW pc \in {"unlock", "asked", "lock", "phrase", "reveal"},
             job' = [job EXCEPT ![j].pc = pc], pc # "phrase" => job[j].todo # <<>>, UNCHANGED thread
      PROVE  Noted'
  <2>1. job'[j].todo = job[j].todo /\ job'[j].text = job[j].text /\ job'[j].pc = pc
    BY <1>0, <1>2 DEF Tasks
  <2>2. \A i \in Jobs : i # j => job'[i] = job[i]
    BY <1>0, <1>2
  <2> QED  BY <1>0, <1>2, <2>1, <2>2 DEF Noted
<1>3. ASSUME NEW j \in Jobs, Finish(j), \A i \in Jobs : i # j => thread'[i] = thread[i],
             UNCHANGED thread \/ thread'[j] = NoThread
      PROVE  Noted'
  <2>1. \A i \in Jobs : i # j => job'[i] = job[i]
    BY <1>0, <1>3 DEF Finish
  <2>2. job'[j] = Idle
    BY <1>0, <1>3 DEF Finish
  <2> QED  BY <1>0, <1>3, <2>1, <2>2 DEF Noted, Idle, NoThread
<1>4. ASSUME NEW j \in Jobs, Store(j), job[j].todo # <<>>  PROVE  Noted'
  <2>1. /\ job'[j].todo = job[j].todo /\ job'[j].text = job[j].text
        /\ thread'[j].at = "find" /\ thread'[j].s = Head(job[j].todo)
    BY <1>0, <1>4 DEF Store, Tasks
  <2>2. \A i \in Jobs : i # j => job'[i] = job[i] /\ thread'[i] = thread[i]
    BY <1>0, <1>4 DEF Store
  <2> QED  BY <1>0, <1>4, <2>1, <2>2 DEF Noted
<1>5. ASSUME NEW p \in Procs, End(p)  PROVE  Noted'
  <2>1. \A i \in Jobs : \/ job'[i] = Idle /\ thread'[i] = NoThread
                        \/ job'[i] = job[i] /\ thread'[i] = thread[i]
    BY <1>0, <1>5 DEF End
  <2> QED  BY <1>0, <2>1 DEF Noted, Idle, NoThread
<1>6. ASSUME NEW j \in Jobs, UNCHANGED job, \A i \in Jobs : i # j => thread'[i] = thread[i],
             thread'[j].s = thread[j].s, thread'[j].at # "none",
             thread'[j].at = "stored" => InStore(thread[j].s)'
      PROVE  Noted'
  BY <1>0, <1>6 DEF Noted
<1>7. ASSUME NEW j \in Jobs, Begin(j)  PROVE  Noted'
  <2>1. UNCHANGED thread /\ \A i \in Jobs : i # j => job'[i] = job[i]
    BY <1>0, <1>7 DEF Begin
  <2>2. \/ job'[j].pc \in {"unlock", "lock"} /\ job'[j].todo \in Texts[j]
           /\ job'[j].text = ToSet(job'[j].todo)
        \/ job'[j].pc = "reveal" /\ job'[j].text = {}
    BY <1>0, <1>7 DEF Begin
  <2>3. <<>> \notin Texts[j]
    BY <1>0
  <2> QED  BY <1>0, <2>1, <2>2, <2>3 DEF Noted
<1>8. ASSUME NEW j \in Jobs, EnsureNativeKey(j)  PROVE  Noted'
  <2>1. job[j].todo # <<>>
    BY <1>8 DEF EnsureNativeKey, Noted
  <2> QED  BY <1>2, <1>8, <2>1 DEF EnsureNativeKey, Ask
<1>9. ASSUME NEW j \in Jobs, TakeLock(j)  PROVE  Noted'
  <2>1. job[j].todo # <<>>
    BY <1>9 DEF TakeLock, Noted
  <2> QED  BY <1>2, <1>3, <1>4, <1>9, <2>1 DEF TakeLock, Ask
<1>10. ASSUME NEW j \in Jobs, FindValue(j)  PROVE  Noted'
  <2>1. /\ UNCHANGED job /\ \A i \in Jobs : i # j => thread'[i] = thread[i]
        /\ thread'[j].s = thread[j].s /\ thread'[j].at \in {"encrypt", "stored"}
    <3>1. UNCHANGED job /\ \E a \in {"encrypt", "stored"} : thread' = [thread EXCEPT ![j].at = a]
      BY <1>10 DEF FindValue
    <3> QED  BY <1>0, <3>1 DEF Threads
  <2>2. thread'[j].at = "stored" => \E r : [s |-> thread[j].s, root |-> r] \in ToSet(entries)
    BY <1>0, <1>10 DEF FindValue, Threads
  <2>3. thread'[j].at = "stored" => InStore(thread[j].s)
    BY <2>2 DEF InStore, ToSet
  <2>4. thread'[j].at = "stored" => InStore(thread[j].s)'
    BY <1>10, <2>1, <2>3 DEF FindValue, InStore
  <2> QED  BY <1>6, <2>1, <2>4
<1>11. ASSUME NEW j \in Jobs, Encrypt(j)  PROVE  Noted'
  <2>1. /\ UNCHANGED job /\ \A i \in Jobs : i # j => thread'[i] = thread[i]
        /\ thread'[j].s = thread[j].s /\ thread'[j].at \in {"write", "refused"}
    BY <1>0, <1>11 DEF Encrypt, Threads
  <2> QED  BY <1>6, <2>1
<1>12. ASSUME NEW j \in Jobs, WriteEntry(j)  PROVE  Noted'
  <2>1. /\ UNCHANGED job /\ \A i \in Jobs : i # j => thread'[i] = thread[i]
        /\ thread'[j].s = thread[j].s /\ thread'[j].at \in {"stored", "refused"}
    BY <1>0, <1>12 DEF WriteEntry, Threads
  <2>2. thread'[j].at = "stored" =>
            entries' = Append(entries, [s |-> thread[j].s, root |-> thread[j].root])
    BY <1>0, <1>12 DEF WriteEntry, Threads
  <2>3. thread'[j].at = "stored" =>
            Len(entries) + 1 \in DOMAIN entries' /\ entries'[Len(entries) + 1].s = thread'[j].s
    BY <1>0, <2>1, <2>2
  <2>4. thread'[j].at = "stored" => InStore(thread[j].s)'
    <3>1. thread'[j].at = "stored" => \E n \in DOMAIN entries' : entries'[n].s = thread'[j].s
      BY <2>3
    <3> QED  BY <3>1 DEF InStore
  <2> QED  BY <1>6, <2>1, <2>4
<1>13. ASSUME NEW j \in Jobs, Stored(j)  PROVE  Noted'
  <2>0. thread'[j] = NoThread /\ \A i \in Jobs : i # j => thread'[i] = thread[i]
    BY <1>0, <1>13 DEF Stored
  <2>1. CASE job[j].pc # "thread" /\ UNCHANGED job
    BY <1>0, <2>0, <2>1 DEF Noted, NoThread
  <2>2. CASE Finish(j)
    BY <1>3, <2>0, <2>2
  <2>3. CASE job[j].pc = "thread" /\ thread[j].at = "stored" /\ Len(job[j].todo) > 1 /\ NextSecret(j)
    <3> DEFINE todo == job[j].todo
    <3>1. todo \in Seq(Secrets) /\ todo # <<>>
      BY <1>0, <2>3 DEF Tasks, Noted
    <3>2. Tail(todo) # <<>> /\ \A s \in ToSet(todo) : s = Head(todo) \/ s \in ToSet(Tail(todo))
      BY <2>3, <3>1, HeadAndTail
    <3>3. InStore(Head(todo))
      BY <2>3 DEF Noted
    <3>4. job'[j].pc = "lock" /\ job'[j].todo = Tail(todo) /\ job'[j].text = job[j].text
      BY <1>0, <2>3 DEF NextSecret, Tasks
    <3>5. \A i \in Jobs : i # j => job'[i] = job[i]
      BY <1>0, <2>3 DEF NextSecret
    <3>6. \A s \in job[j].text : s \in ToSet(Tail(todo)) \/ InStore(s)
      BY <3>2, <3>3 DEF Noted
    <3> HIDE DEF todo
    <3>7. \A s \in job'[j].text : s \in ToSet(job'[j].todo) \/ InStore(s)'
      BY <1>0, <3>4, <3>6
    <3>8. job'[j].pc = "lock" /\ job'[j].todo # <<>>
      BY <3>2, <3>4
    <3> QED  BY <1>0, <2>0, <3>5, <3>7, <3>8 DEF Noted, NoThread
  <2> QED  BY <1>13, <2>1, <2>2, <2>3 DEF Stored, Pass
<1>14. ASSUME NEW j \in Jobs, CancelPrompt(j)  PROVE  Noted'
  BY <1>3, <1>14 DEF CancelPrompt
<1>15. ASSUME NEW j \in Jobs, Reveal(j)  PROVE  Noted'
  BY <1>2, <1>3, <1>15 DEF Reveal, Ask
<1>16. ASSUME NEW p \in Procs, EnterPhrase(p)  PROVE  Noted'
  <2> DEFINE asker == Last(screen[p]).job
  <2>1. asker \in Jobs
    BY <1>16, TopEntry DEF EnterPhrase, Typed
  <2>2. CASE job[asker].pc = "asked" /\ job' = [job EXCEPT ![asker].pc = "lock"] /\ UNCHANGED thread
    <3>1. job[asker].todo # <<>>
      BY <2>1, <2>2 DEF Noted
    <3> QED  BY <1>2, <2>1, <2>2, <3>1
  <2>3. CASE job[asker].todo # <<>> /\ Store(asker)
    BY <1>4, <2>1, <2>3
  <2>4. CASE Finish(asker) /\ UNCHANGED thread
    BY <1>3, <2>1, <2>4
  <2> QED  BY <1>16, <2>2, <2>3, <2>4 DEF EnterPhrase
<1>17. ASSUME NEW p \in Procs, CancelPhrase(p)  PROVE  Noted'
  BY <1>3, <1>17, TopEntry DEF CancelPhrase, Typed
<1>18. ASSUME NEW p \in Procs, CreateFile(p)  PROVE  Noted'
  BY <1>1, <1>18 DEF CreateFile, jobVars
<1>19. ASSUME NEW p \in Procs, FillFile(p)  PROVE  Noted'
  BY <1>1, <1>19 DEF FillFile, jobVars
<1>20. ASSUME NEW p \in Procs, KeepKey(p)  PROVE  Noted'
  BY <1>1, <1>20 DEF KeepKey, jobVars
<1>21. ASSUME NEW p \in Procs, CreateFails(p)  PROVE  Noted'
  BY <1>1, <1>5, <1>21 DEF CreateFails, jobVars
<1>22. ASSUME NEW p \in Procs, OpenOnboarding(p)  PROVE  Noted'
  BY <1>1, <1>22 DEF OpenOnboarding, uiFrame, jobVars
<1>23. ASSUME NEW p \in Procs, LeaveOnboarding(p)  PROVE  Noted'
  BY <1>1, <1>23 DEF LeaveOnboarding, uiFrame, jobVars
<1>24. ASSUME NEW p \in Procs, PressStart(p)  PROVE  Noted'
  BY <1>1, <1>24 DEF PressStart, uiFrame, jobVars
<1>25. ASSUME NEW p \in Procs, PressGenerate(p)  PROVE  Noted'
  BY <1>1, <1>25 DEF PressGenerate, uiFrame, jobVars
<1>26. ASSUME NEW p \in Procs, AnswerReset(p)  PROVE  Noted'
  BY <1>1, <1>26 DEF AnswerReset, uiFrame, jobVars
<1>27. ASSUME NEW p \in Procs, AnswerWarning(p)  PROVE  Noted'
  BY <1>1, <1>27 DEF AnswerWarning, uiFrame, jobVars
<1>28. ASSUME NEW p \in Procs, AnswerPhrase(p)  PROVE  Noted'
  BY <1>1, <1>28 DEF AnswerPhrase, uiFrame, jobVars
<1>29. ASSUME NEW p \in Procs, BackUp(p)  PROVE  Noted'
  BY <1>1, <1>29 DEF BackUp, uiFrame, jobVars
<1>30. ASSUME NEW p \in Procs, KeyInit(p)  PROVE  Noted'
  BY <1>1, <1>30 DEF KeyInit, uiFrame, jobVars
<1>31. ASSUME NEW p \in Procs, KeyRestore(p)  PROVE  Noted'
  BY <1>1, <1>31 DEF KeyRestore, uiFrame, jobVars
<1>32. ASSUME NEW p \in Procs, CopyKey(p)  PROVE  Noted'
  BY <1>1, <1>32 DEF CopyKey, uiFrame, jobVars
<1>33. ASSUME NEW p \in Procs, Crash(p)  PROVE  Noted'
  BY <1>1, <1>5, <1>33 DEF Crash
<1>34. CASE UNCHANGED vars
  BY <1>1, <1>34 DEF vars, jobVars
<1> QED  BY <1>7, <1>8, <1>9, <1>10, <1>11, <1>12, <1>13, <1>14, <1>15, <1>16, <1>17, <1>18, <1>19, <1>20,
     <1>21, <1>22, <1>23, <1>24, <1>25, <1>26, <1>27, <1>28, <1>29, <1>30, <1>31, <1>32, <1>33,
     <1>34 DEF Next

\* So that a text is passed on, after its last secret, with all of them stored.
LEMMA FailsClosedStep ==
    ASSUME Typed, Noted, FailsClosed, [Next]_vars
    PROVE  FailsClosed'
<1>1. ASSUME NEW j \in Jobs, job[j].pc = "thread", thread[j].at = "stored",
             ~(Len(job[j].todo) > 1), Pass(j)
      PROVE  ~leaked'
  <2>1. job[j].todo \in Seq(Secrets) /\ job[j].todo # <<>> /\ InStore(Head(job[j].todo))
    BY <1>1 DEF Typed, JobsTyped, Tasks, Noted
  <2>2. \A s \in ToSet(job[j].todo) : InStore(s)
    BY <1>1, <2>1, HeadAndTail
  <2>3. \A s \in job[j].text : InStore(s)
    BY <2>2 DEF Noted
  <2> QED  BY <1>1, <2>3 DEF Pass, FailsClosed, InStore
<1>2. ASSUME NEW j \in Jobs, Stored(j)  PROVE  ~leaked'
  BY <1>1, <1>2 DEF Stored, FailsClosed
<1>3. UNCHANGED leaked \/ \E j \in Jobs : Stored(j)
  BY DEF Next, vars, histVars, uiFrame, Begin, EnsureNativeKey, TakeLock, FindValue, Encrypt, WriteEntry,
       CancelPrompt, Reveal, EnterPhrase, CancelPhrase, CreateFile, FillFile, KeepKey, CreateFails,
       OpenOnboarding, LeaveOnboarding, PressStart, PressGenerate, AnswerReset, AnswerWarning,
       AnswerPhrase, BackUp, KeyInit, KeyRestore, CopyKey, Crash
<1> QED  BY <1>2, <1>3 DEF FailsClosed
-----------------------------------------------------------------------------
(* Dialogs *)

\* A dialog that fits goes on top of a stack.
LEMMA Pushed ==
    ASSUME NEW p \in Procs, NEW shown \in Seq(Modals), NEW m \in Modals, Stack(p, shown),
           \/ /\ IsEntry(m) /\ m = Modal("entry", m.job, NoRoot)
              /\ m.job \in Jobs /\ Owner[m.job] = p
              /\ \A q \in Questions(shown) : q.job # m.job
           \/ m.name = "onboarding" /\ shown = <<>>
           \/ /\ m.name \in {"warning", "reset", "phrase"}
              /\ Len(shown) = 1 /\ shown[1].name = "onboarding"
              /\ m.name = "phrase" => m.root # NoRoot
    PROVE  /\ Stack(p, Append(shown, m))
           /\ Questions(Append(shown, m)) = Questions(shown) \cup (IF IsEntry(m) THEN {m} ELSE {})
<1> DEFINE more == Append(shown, m)
<1>1. /\ Len(shown) \in Nat /\ DOMAIN shown = 1..Len(shown) /\ DOMAIN more = 1 .. Len(shown) + 1
      /\ more[Len(shown) + 1] = m /\ \A n \in 1..Len(shown) : more[n] = shown[n]
      /\ shown = <<>> => Len(shown) = 0
  OBVIOUS
<1> HIDE DEF more
<1>2. ToSet(more) = ToSet(shown) \cup {m}
  <2>1. \A x \in ToSet(more) : x \in ToSet(shown) \cup {m}
    BY <1>1 DEF ToSet
  <2>2. \A x \in ToSet(shown) \cup {m} : x \in ToSet(more)
    BY <1>1 DEF ToSet
  <2> QED  BY <2>1, <2>2
<1>3. Questions(more) = Questions(shown) \cup (IF IsEntry(m) THEN {m} ELSE {})
  BY <1>2 DEF Questions
<1>4. ASSUME NEW n \in DOMAIN more
      PROVE  /\ more[n].name = "onboarding" => n = 1
             /\ more[n].name \in {"warning", "reset", "phrase"} => n = 2 /\ more[1].name = "onboarding"
             /\ more[n].name = "phrase" => more[n].root # NoRoot
             /\ IsEntry(more[n]) =>
                /\ more[n] = Modal("entry", more[n].job, NoRoot)
                /\ more[n].job \in Jobs /\ Owner[more[n].job] = p
  <2>1. CASE n \in 1..Len(shown)
    BY <1>1, <2>1 DEF Stack
  <2>2. CASE n = Len(shown) + 1
    <3>1. IsEntry(m) => m.name = "entry"
      BY DEF IsEntry
    <3> QED  BY <1>1, <2>2, <3>1
  <2> QED  BY <1>1, <2>1, <2>2
<1>5. ASSUME IsEntry(m)  PROVE  \A n \in DOMAIN shown : IsEntry(shown[n]) => shown[n].job # m.job
  <2>1. m.name = "entry"
    BY <1>5 DEF IsEntry
  <2> QED  BY <2>1 DEF Questions, ToSet
<1>6. ASSUME NEW k \in DOMAIN more, NEW n \in DOMAIN more, IsEntry(more[k]), IsEntry(more[n]),
             more[k].job = more[n].job
      PROVE  k = n
  <2>1. \A i, l \in DOMAIN shown : IsEntry(shown[i]) /\ IsEntry(shown[l]) /\ shown[i].job = shown[l].job => i = l
    BY DEF Stack
  <2> QED  BY <1>1, <1>5, <1>6, <2>1
<1>7. Stack(p, more)
  BY <1>4, <1>6 DEF Stack
<1> QED  BY <1>3, <1>7 DEF more

\* The one on top goes, with its question.
LEMMA Popped ==
    ASSUME NEW p \in Procs, NEW shown \in Seq(Modals), shown # <<>>, Stack(p, shown)
    PROVE  /\ Stack(p, Front(shown))
           /\ Questions(Front(shown)) = Questions(shown) \ (IF IsEntry(Last(shown)) THEN {Last(shown)} ELSE {})
           /\ IsEntry(Last(shown)) => Last(shown) \in Questions(shown)
<1> DEFINE less == Front(shown)
<1>1. Len(shown) \in Nat /\ Len(shown) > 0 /\ DOMAIN shown = 1..Len(shown)
  OBVIOUS
<1>2. \A n \in 1 .. Len(shown) - 1 : shown[n] \in Modals
  BY <1>1
<1>3. /\ less \in Seq(Modals) /\ Len(less) = Len(shown) - 1
      /\ \A n \in 1 .. Len(shown) - 1 : less[n] = shown[n]
  BY <1>1, <1>2, SubSeqProperties DEF Front
<1>4. DOMAIN less = 1 .. Len(shown) - 1
  BY <1>3
<1> HIDE DEF less
<1>5. Stack(p, less)
  BY <1>1, <1>3, <1>4 DEF Stack
<1>6. ToSet(shown) = ToSet(less) \cup {shown[Len(shown)]}
  <2>1. \A x \in ToSet(shown) : x \in ToSet(less) \cup {shown[Len(shown)]}
    BY <1>1, <1>3, <1>4 DEF ToSet
  <2>2. \A x \in ToSet(less) \cup {shown[Len(shown)]} : x \in ToSet(shown)
    BY <1>1, <1>3, <1>4 DEF ToSet
  <2> QED  BY <2>1, <2>2
<1>7. IsEntry(shown[Len(shown)]) => shown[Len(shown)] \notin ToSet(less)
  <2>1. \A n \in 1 .. Len(shown) - 1 : IsEntry(shown[Len(shown)]) => shown[n] # shown[Len(shown)]
    BY <1>1 DEF Stack
  <2> QED  BY <1>3, <1>4, <2>1 DEF ToSet
<1>8. /\ Questions(less) = Questions(shown) \ (IF IsEntry(shown[Len(shown)]) THEN {shown[Len(shown)]} ELSE {})
      /\ IsEntry(shown[Len(shown)]) => shown[Len(shown)] \in Questions(shown)
  BY <1>6, <1>7 DEF Questions
<1> QED  BY <1>5, <1>8 DEF Last, less

\* A dialog of the onboarding, and the onboarding, have no question below.
LEMMA OnTop ==
    ASSUME NEW p \in Procs, NEW shown \in Seq(Modals), shown # <<>>, Stack(p, shown)
    PROVE  /\ Last(shown).name = "onboarding" =>
                Len(shown) = 1 /\ shown[1].name = "onboarding" /\ Questions(shown) = {}
           /\ Last(shown).name \in {"warning", "reset", "phrase"} =>
                /\ Len(shown) = 2 /\ Questions(shown) = {} /\ Front(Front(shown)) = <<>>
                /\ Len(Front(shown)) = 1 /\ Front(shown)[1].name = "onboarding"
<1>1. Len(shown) \in Nat /\ Len(shown) > 0 /\ DOMAIN shown = 1..Len(shown)
  OBVIOUS
<1>2. Last(shown) = shown[Len(shown)]
  BY DEF Last
<1>3. ASSUME Last(shown).name = "onboarding"
      PROVE  Len(shown) = 1 /\ shown[1].name = "onboarding" /\ Questions(shown) = {}
  <2>1. Len(shown) = 1
    BY <1>1, <1>2, <1>3 DEF Stack
  <2>2. \A m \in ToSet(shown) : m = shown[1]
    BY <1>1, <2>1 DEF ToSet
  <2> QED  BY <1>2, <1>3, <2>1, <2>2 DEF Questions, IsEntry
<1>4. ASSUME Last(shown).name \in {"warning", "reset", "phrase"}
      PROVE  /\ Len(shown) = 2 /\ Questions(shown) = {} /\ Front(Front(shown)) = <<>>
             /\ Len(Front(shown)) = 1 /\ Front(shown)[1].name = "onboarding"
  <2>1. Len(shown) = 2 /\ shown[1].name = "onboarding"
    BY <1>1, <1>2, <1>4 DEF Stack
  <2>2. \A m \in ToSet(shown) : m = shown[1] \/ m = shown[2]
    BY <1>1, <2>1 DEF ToSet
  <2>3. Questions(shown) = {}
    BY <1>2, <1>4, <2>1, <2>2 DEF Questions, IsEntry
  <2>4. shown[1] \in Modals
    BY <1>1, <2>1
  <2>5. Front(shown) \in Seq(Modals) /\ Len(Front(shown)) = 1 /\ Front(shown)[1] = shown[1]
    BY <2>1, <2>4, SubSeqProperties DEF Front
  <2>6. Front(Front(shown)) = <<>>
    <3> DEFINE below == Front(shown)
    <3>1. Len(below) = 1
      BY <2>5
    <3> HIDE DEF below
    <3>2. SubSeq(below, 1, 0) = <<>>
      BY SubSeqEmpty
    <3>3. Front(below) = <<>>
      BY <3>1, <3>2 DEF Front
    <3> QED  BY <3>3 DEF below
  <2> QED  BY <2>1, <2>3, <2>5, <2>6
<1> QED  BY <1>3, <1>4

\* A job that waits for no phrase is not asked for one.
LEMMA NotAsked ==
    ASSUME HolderWakes, NEW p \in Procs, NEW j \in Jobs, job[j].pc \notin {"asked", "phrase"}
    PROVE  \A m \in Questions(screen[p]) : m.job # j
  BY DEF HolderWakes, Questions, ToSet, IsEntry

\* Every screen stays a stack.
LEMMA StackedStep ==
    ASSUME KeystoreAssumption, Typed, Stacked, HolderWakes, [Next]_vars
    PROVE  Stacked'
<1>0. /\ screen \in [Procs -> Seq(Modals)] /\ act \in [Procs -> Acts] /\ made \in Nat
      /\ Owner \in [Jobs -> Procs] /\ \A p \in Procs : Stack(p, screen[p])
      /\ \A p \in Procs : p \notin Tui => screen[p] = <<>>
  BY Numbers DEF Typed, ProcsTyped, Placed, Stacked, KeystoreAssumption
<1>1. ASSUME UNCHANGED screen, \A p \in Tui : act'[p].at # "rest" => act[p].at # "rest"
      PROVE  Stacked'
  BY <1>1 DEF Stacked, Stack
<1>2. ASSUME NEW p \in Procs, NEW shown \in Seq(Modals), Stack(p, shown), screen' = [screen EXCEPT ![p] = shown],
             \A q \in Procs : q # p => act'[q] = act[q],
             act'[p].at # "rest" => Len(shown) = 1 /\ shown[1].name = "onboarding"
      PROVE  Stacked'
  <2>1. \A q \in Procs : q # p => screen'[q] = screen[q]
    BY <1>0, <1>2
  <2>2. screen'[p] = shown
    BY <1>0, <1>2
  <2>3. \A q \in Procs : Stack(q, screen'[q])
    BY <1>0, <1>2, <2>1, <2>2
  <2>4. \A q \in Procs : Stack(q, screen[q])'
    BY <2>3 DEF Stack
  <2> QED  BY <1>2, <2>1, <2>2, <2>4 DEF Stacked
<1>3. ASSUME NEW j \in Jobs, NEW pc, Ask(j, pc), Loop(Owner[j]), job[j].pc \notin {"asked", "phrase"},
             UNCHANGED act
      PROVE  Stacked'
  <2> DEFINE p == Owner[j]
             m == Modal("entry", j, NoRoot)
  <2>1. p \in Procs /\ m \in Modals /\ IsEntry(m) /\ m.job = j
    BY <1>0, ModalTyped DEF Modal, IsEntry
  <2>2. Stack(p, Append(screen[p], m))
    <3>1. \A q \in Questions(screen[p]) : q.job # m.job
      BY <1>3, <2>1, NotAsked
    <3>2. screen[p] \in Seq(Modals) /\ Stack(p, screen[p]) /\ m = Modal("entry", m.job, NoRoot)
      BY <1>0, <2>1
    <3> HIDE DEF m
    <3> QED  BY <2>1, <3>1, <3>2, Pushed
  <2>3. Append(screen[p], m) \in Seq(Modals)
    BY <1>0, <2>1
  <2> QED  BY <1>2, <1>3, <2>1, <2>2, <2>3 DEF Ask, Loop
<1>4. ASSUME NEW p \in Procs, screen[p] # <<>>, Pop(p), act'[p].at = "rest",
             \A q \in Procs : q # p => act'[q] = act[q]
      PROVE  Stacked'
  BY <1>0, <1>2, <1>4, Popped, StackTyped DEF Pop
<1>5. ASSUME NEW p \in Procs, screen' = [screen EXCEPT ![p] = <<>>], act'[p].at = "rest",
             \A q \in Procs : q # p => act'[q] = act[q]
      PROVE  Stacked'
  <2>1. Stack(p, <<>>) /\ <<>> \in Seq(Modals)
    BY DEF Stack
  <2> QED  BY <1>2, <1>5, <2>1
<1>6. ASSUME NEW p \in Procs, NEW name \in {"onboarding", "warning", "reset"}, Open(p, name),
             name = "onboarding" => screen[p] = <<>>,
             name # "onboarding" => Top(p, "onboarding"), act'[p].at = "rest",
             \A q \in Procs : q # p => act'[q] = act[q]
      PROVE  Stacked'
  <2> DEFINE m == Modal(name, NoJob, NoRoot)
  <2>1. m \in Modals /\ ~IsEntry(m) /\ m.name = name
    BY <1>0, ModalTyped DEF Modal, IsEntry
  <2>2. name # "onboarding" => Len(screen[p]) = 1 /\ screen[p][1].name = "onboarding"
    BY <1>0, <1>6, OnTop DEF Top
  <2>3. Stack(p, Append(screen[p], m))
    BY <1>0, <1>6, <2>1, <2>2, Pushed
  <2>4. Append(screen[p], m) \in Seq(Modals)
    BY <1>0, <2>1
  <2> QED  BY <1>2, <1>6, <2>3, <2>4 DEF Open
<1>7. ASSUME NEW p \in Procs, NEW name \in {"warning", "reset", "phrase"}, Top(p, name)
      PROVE  /\ screen[p] # <<>> /\ Len(Front(screen[p])) = 1
             /\ Front(screen[p])[1].name = "onboarding" /\ Front(Front(screen[p])) = <<>>
             /\ Stack(p, Front(screen[p])) /\ Front(screen[p]) \in Seq(Modals)
             /\ act[p].at = "rest"
  BY <1>0, <1>7, OnTop, Popped, StackTyped DEF Top, Loop
<1>8. ASSUME NEW j \in Jobs, Begin(j)  PROVE  Stacked'
  BY <1>1, <1>8 DEF Begin, uiVars
<1>9. ASSUME NEW j \in Jobs, EnsureNativeKey(j)  PROVE  Stacked'
  BY <1>1, <1>3, <1>9 DEF EnsureNativeKey, procVars
<1>10. ASSUME NEW j \in Jobs, TakeLock(j)  PROVE  Stacked'
  BY <1>1, <1>3, <1>10 DEF TakeLock
<1>11. ASSUME NEW j \in Jobs, FindValue(j)  PROVE  Stacked'
  BY <1>1, <1>11 DEF FindValue, uiVars
<1>12. ASSUME NEW j \in Jobs, Encrypt(j)  PROVE  Stacked'
  BY <1>1, <1>12 DEF Encrypt, uiVars
<1>13. ASSUME NEW j \in Jobs, WriteEntry(j)  PROVE  Stacked'
  BY <1>1, <1>13 DEF WriteEntry, procVars, uiVars
<1>14. ASSUME NEW j \in Jobs, Stored(j)  PROVE  Stacked'
  BY <1>1, <1>14 DEF Stored, uiVars
<1>15. ASSUME NEW j \in Jobs, CancelPrompt(j)  PROVE  Stacked'
  BY <1>1, <1>15 DEF CancelPrompt, uiVars
<1>16. ASSUME NEW j \in Jobs, Reveal(j)  PROVE  Stacked'
  BY <1>1, <1>3, <1>16 DEF Reveal
<1>17. ASSUME NEW p \in Procs, EnterPhrase(p)  PROVE  Stacked'
  BY <1>4, <1>17 DEF EnterPhrase, Top, Loop
<1>18. ASSUME NEW p \in Procs, CancelPhrase(p)  PROVE  Stacked'
  BY <1>4, <1>18 DEF CancelPhrase, Top, Loop
<1>19. ASSUME NEW p \in Procs, CreateFile(p)  PROVE  Stacked'
  BY <1>0, <1>1, <1>19 DEF CreateFile, uiVars
<1>20. ASSUME NEW p \in Procs, FillFile(p)  PROVE  Stacked'
  BY <1>0, <1>1, <1>20 DEF FillFile, uiVars
<1>21. ASSUME NEW p \in Procs, KeepKey(p)  PROVE  Stacked'
  <2>1. act' = [act EXCEPT ![p] = Resting] /\ Resting.at = "rest"
    BY <1>21 DEF KeepKey, Resting
  <2>2. CASE UNCHANGED screen
    BY <1>0, <1>1, <2>1, <2>2
  <2>3. CASE p \in Tui /\ screen' = [screen EXCEPT ![p] = Append(@, Modal("phrase", NoJob, act[p].root))]
    <3> DEFINE m == Modal("phrase", NoJob, act[p].root)
    <3>1. act[p].root \in Given /\ act[p].root # NoRoot
      BY <1>0, <1>21 DEF KeepKey, Acts, Typed, Placed
    <3>2. m \in Modals /\ ~IsEntry(m) /\ m.name = "phrase" /\ m.root # NoRoot
      BY <1>0, <3>1, ModalTyped DEF Modal, IsEntry
    <3>3. Len(screen[p]) = 1 /\ screen[p][1].name = "onboarding"
      BY <1>21, <2>3 DEF KeepKey, Stacked
    <3>4. Stack(p, Append(screen[p], m))
      BY <1>0, <3>2, <3>3, Pushed
    <3>5. Append(screen[p], m) \in Seq(Modals)
      BY <1>0, <3>2
    <3> QED  BY <1>0, <1>2, <2>1, <2>3, <3>4, <3>5
  <2> QED  BY <1>21, <2>2, <2>3 DEF KeepKey
<1>22. ASSUME NEW p \in Procs, CreateFails(p)  PROVE  Stacked'
  <2>1. CASE act' = [act EXCEPT ![p] = Resting] /\ UNCHANGED screen
    BY <1>0, <1>1, <2>1 DEF Resting
  <2>2. CASE End(p)
    BY <1>0, <1>5, <2>2 DEF End, Resting
  <2> QED  BY <1>22, <2>1, <2>2 DEF CreateFails
<1>23. ASSUME NEW p \in Procs, OpenOnboarding(p)  PROVE  Stacked'
  BY <1>6, <1>23 DEF OpenOnboarding, Loop
<1>24. ASSUME NEW p \in Procs, LeaveOnboarding(p)  PROVE  Stacked'
  BY <1>4, <1>24 DEF LeaveOnboarding, Top, Loop, uiFrame
<1>25. ASSUME NEW p \in Procs, PressStart(p)  PROVE  Stacked'
  BY <1>4, <1>6, <1>25 DEF PressStart, Top, Loop
<1>26. ASSUME NEW p \in Procs, PressGenerate(p)  PROVE  Stacked'
  <2>1. CASE Open(p, "reset") /\ UNCHANGED act
    BY <1>6, <1>26, <2>1 DEF PressGenerate, Top, Loop
  <2>2. CASE Generates(p, NoStamp) /\ UNCHANGED screen
    <3>1. Len(screen[p]) = 1 /\ screen[p][1].name = "onboarding" /\ screen[p] # <<>>
      BY <1>0, <1>26, OnTop DEF PressGenerate, Top
    <3>2. \A q \in Procs : q # p => act'[q] = act[q]
      BY <1>0, <2>2 DEF Generates
    <3>3. screen' = [screen EXCEPT ![p] = screen[p]]
      BY <1>0, <2>2
    <3> QED  BY <1>0, <1>2, <3>1, <3>2, <3>3
  <2> QED  BY <1>26, <2>1, <2>2 DEF PressGenerate
<1>27. ASSUME NEW p \in Procs, AnswerReset(p)  PROVE  Stacked'
  <2>1. \A q \in Procs : q # p => act'[q] = act[q]
    BY <1>0, <1>27 DEF AnswerReset, Replaces, Generates
  <2> QED  BY <1>2, <1>7, <1>27, <2>1 DEF AnswerReset, Pop
<1>28. ASSUME NEW p \in Procs, AnswerWarning(p)  PROVE  Stacked'
  <2>0. /\ screen[p] # <<>> /\ Len(Front(screen[p])) = 1 /\ act'[p].at = "rest" /\ UNCHANGED act
        /\ Front(screen[p])[1].name = "onboarding" /\ Front(Front(screen[p])) = <<>>
        /\ Stack(p, Front(screen[p])) /\ Front(screen[p]) \in Seq(Modals)
    BY <1>7, <1>28 DEF AnswerWarning
  <2>1. CASE screen' = [screen EXCEPT ![p] = Front(Front(@))]
    BY <1>5, <2>0, <2>1
  <2>2. CASE Turn(p, "reset")
    <3> DEFINE m == Modal("reset", NoJob, NoRoot)
    <3>1. m \in Modals /\ ~IsEntry(m) /\ m.name = "reset"
      BY <1>0, ModalTyped DEF Modal, IsEntry
    <3>2. Stack(p, Append(Front(screen[p]), m))
      BY <2>0, <3>1, Pushed
    <3>3. Append(Front(screen[p]), m) \in Seq(Modals)
      BY <2>0, <3>1
    <3> QED  BY <1>2, <2>0, <2>2, <3>2, <3>3 DEF Turn
  <2>3. CASE Pop(p)
    BY <1>4, <2>0, <2>3
  <2> QED  BY <1>28, <2>1, <2>2, <2>3 DEF AnswerWarning
<1>29. ASSUME NEW p \in Procs, AnswerPhrase(p)  PROVE  Stacked'
  <2>0. /\ screen[p] # <<>> /\ Front(Front(screen[p])) = <<>> /\ act'[p].at = "rest" /\ UNCHANGED act
    BY <1>7, <1>29 DEF AnswerPhrase
  <2>1. CASE screen' = [screen EXCEPT ![p] = Front(Front(@))]
    BY <1>5, <2>0, <2>1
  <2>2. CASE Pop(p)
    BY <1>4, <2>0, <2>2
  <2> QED  BY <1>29, <2>1, <2>2 DEF AnswerPhrase
<1>30. ASSUME NEW p \in Procs, BackUp(p)  PROVE  Stacked'
  BY <1>1, <1>30 DEF BackUp, uiVars
<1>31. ASSUME NEW p \in Procs, KeyInit(p)  PROVE  Stacked'
  <2>1. p \notin Tui /\ UNCHANGED screen
    BY <1>31 DEF KeyInit, AtCommand, uiVars, Typed, Placed
  <2>2. \A q \in Procs : q # p => act'[q] = act[q]
    BY <1>0, <1>31 DEF KeyInit, Generates
  <2> QED  BY <1>1, <2>1, <2>2, KeystoreAssumption DEF KeystoreAssumption
<1>32. ASSUME NEW p \in Procs, KeyRestore(p)  PROVE  Stacked'
  <2>1. p \notin Tui /\ UNCHANGED screen
    BY <1>32 DEF KeyRestore, AtCommand, uiVars, Typed, Placed
  <2>2. \A q \in Procs : q # p => act'[q] = act[q]
    BY <1>0, <1>32 DEF KeyRestore
  <2> QED  BY <1>1, <2>1, <2>2, KeystoreAssumption DEF KeystoreAssumption
<1>33. ASSUME NEW p \in Procs, CopyKey(p)  PROVE  Stacked'
  <2>1. p \notin Tui /\ UNCHANGED screen
    BY <1>33 DEF CopyKey, Typed, Placed
  <2>2. \A q \in Procs : q # p => act'[q] = act[q]
    BY <1>0, <1>33 DEF CopyKey
  <2> QED  BY <1>1, <2>1, <2>2, KeystoreAssumption DEF KeystoreAssumption
<1>34. ASSUME NEW p \in Procs, Crash(p)  PROVE  Stacked'
  BY <1>0, <1>5, <1>34 DEF Crash, End, Resting
<1>35. CASE UNCHANGED vars
  BY <1>1, <1>35 DEF vars, procVars, uiVars
<1> QED  BY <1>8, <1>9, <1>10, <1>11, <1>12, <1>13, <1>14, <1>15, <1>16, <1>17, <1>18, <1>19, <1>20, <1>21,
     <1>22, <1>23, <1>24, <1>25, <1>26, <1>27, <1>28, <1>29, <1>30, <1>31, <1>32, <1>33, <1>34,
     <1>35 DEF Next

\* HolderWakes, said of the questions on a screen.
Answered(q, shown) ==
    /\ lock[q] # NoJob =>
        \/ job[lock[q]].pc = "thread"
        \/ job[lock[q]].pc = "phrase" /\ Modal("entry", lock[q], NoRoot) \in Questions(shown)
    /\ \A m \in Questions(shown) : job[m.job].pc \in {"asked", "phrase"}

\* The two say the same of every process.
LEMMA HolderWakesIs ==
    ASSUME Typed, Noted
    PROVE  HolderWakes <=> \A q \in Procs : Answered(q, screen[q])
<1>0. /\ lock \in [Procs -> Jobs \cup {NoJob}] /\ \A q \in Procs : Modal("entry", lock[q], NoRoot).name = "entry"
      /\ \A j \in Jobs : job[j].pc = "thread" => thread[j].at # "none"
  BY DEF Typed, ProcsTyped, Modal, Noted
<1>1. ASSUME NEW q \in Procs
      PROVE  /\ Modal("entry", lock[q], NoRoot) \in Questions(screen[q]) <=>
                    Modal("entry", lock[q], NoRoot) \in ToSet(screen[q])
             /\ (\A m \in Questions(screen[q]) : job[m.job].pc \in {"asked", "phrase"}) <=>
                    \A n \in DOMAIN screen[q] : screen[q][n].name = "entry" =>
                        job[screen[q][n].job].pc \in {"asked", "phrase"}
  BY <1>0 DEF Questions, ToSet, IsEntry
<1> QED  BY <1>0, <1>1 DEF HolderWakes, Answered

\* Whoever leaves the screen or its turn gives the lock back.
LEMMA HolderWakesStep ==
    ASSUME KeystoreAssumption, Typed, Noted, Stacked, HolderWakes, Typed', Noted', [Next]_vars
    PROVE  HolderWakes'
<1>0. /\ screen \in [Procs -> Seq(Modals)] /\ lock \in [Procs -> Jobs \cup {NoJob}]
      /\ job \in [Jobs -> Tasks] /\ made \in Nat /\ Owner \in [Jobs -> Procs]
      /\ \A p \in Procs : Stack(p, screen[p])
      /\ \A q \in Procs : lock[q] # NoJob => lock[q] \in Jobs /\ Owner[lock[q]] = q
      /\ \A q \in Procs : Answered(q, screen[q])
  BY Numbers, HolderWakesIs DEF Typed, ProcsTyped, JobsTyped, Placed, Stacked, KeystoreAssumption
<1>a. ASSUME NEW q \in Procs, NEW m \in Questions(screen[q])
      PROVE  m.job \in Jobs /\ Owner[m.job] = q /\ m = Modal("entry", m.job, NoRoot)
  BY <1>0 DEF Questions, ToSet, Stack
\* It is enough to follow the questions, the lock and the jobs of each process.
<1>1. ASSUME \A q \in Procs :
                /\ lock'[q] # NoJob =>
                    \/ job'[lock'[q]].pc = "thread"
                    \/ job'[lock'[q]].pc = "phrase" /\ Modal("entry", lock'[q], NoRoot) \in Questions(screen'[q])
                /\ \A m \in Questions(screen'[q]) : job'[m.job].pc \in {"asked", "phrase"}
      PROVE  HolderWakes'
  <2>1. ASSUME NEW q \in Procs, NEW n \in DOMAIN screen'[q], screen'[q][n].name = "entry"
        PROVE  job'[screen'[q][n].job].pc \in {"asked", "phrase"}
    <3>1. screen'[q][n] \in Questions(screen'[q])
      BY <2>1 DEF Questions, ToSet, IsEntry
    <3> QED  BY <1>1, <3>1
  <2>2. ASSUME NEW q \in Procs, lock'[q] # NoJob
        PROVE  \/ job'[lock'[q]].pc = "thread" /\ thread'[lock'[q]].at # "none"
               \/ job'[lock'[q]].pc = "phrase" /\ Modal("entry", lock'[q], NoRoot) \in ToSet(screen'[q])
    <3>1. lock'[q] \in Jobs
      BY <2>2 DEF Typed, ProcsTyped
    <3>2. job'[lock'[q]].pc = "thread" => thread'[lock'[q]].at # "none"
      BY <3>1 DEF Noted
    <3> QED  BY <1>1, <2>2, <3>2 DEF Questions
  <2> QED  BY <2>1, <2>2 DEF HolderWakes
<1>2. ASSUME UNCHANGED <<lock, job>>, \A q \in Procs : Questions(screen'[q]) = Questions(screen[q])
      PROVE  HolderWakes'
  BY <1>0, <1>1, <1>2 DEF Answered
\* A job that holds nothing and is not asked does something else.
<1>3. ASSUME NEW j \in Jobs, job[j].pc \notin {"asked", "phrase", "thread"},
             \A i \in Jobs : i # j => job'[i] = job[i], UNCHANGED <<lock, screen>>
      PROVE  HolderWakes'
  BY <1>0, <1>1, <1>3, <1>a DEF Answered
<1>4. ASSUME NEW j \in Jobs, NEW pc \in {"asked", "phrase"}, Ask(j, pc),
             job[j].pc \notin {"asked", "phrase", "thread"},
             pc = "asked" => UNCHANGED lock,
             pc = "phrase" => lock' = [lock EXCEPT ![Owner[j]] = j]
      PROVE  HolderWakes'
  <2> DEFINE p == Owner[j]
             m == Modal("entry", j, NoRoot)
  <2>1. p \in Procs /\ m \in Modals /\ IsEntry(m) /\ m.job = j
    BY <1>0, ModalTyped DEF Modal, IsEntry
  <2>2. Questions(Append(screen[p], m)) = Questions(screen[p]) \cup {m}
    <3>1. \A q \in Questions(screen[p]) : q.job # m.job
      BY <1>4, <2>1, NotAsked
    <3>2. screen[p] \in Seq(Modals) /\ Stack(p, screen[p]) /\ m = Modal("entry", m.job, NoRoot)
      BY <1>0, <2>1
    <3> HIDE DEF m
    <3> QED  BY <2>1, <3>1, <3>2, Pushed
  <2>3. /\ Questions(screen'[p]) = Questions(screen[p]) \cup {m}
        /\ \A q \in Procs : q # p => screen'[q] = screen[q]
    BY <1>0, <1>4, <2>1, <2>2 DEF Ask
  <2>4. job'[j].pc = pc /\ \A i \in Jobs : i # j => job'[i] = job[i]
    BY <1>0, <1>4 DEF Ask, Tasks
  <2>j. j # NoJob
    BY DEF KeystoreAssumption
  <2>5. \A q \in Procs : q # p => lock'[q] = lock[q] /\ lock[q] # j
    BY <1>0, <1>4, <2>1, <2>j
  <2>6. lock[p] # j
    BY <1>0, <1>4, <2>1, <2>j DEF Answered
  <2>7. \A q \in Procs : \A x \in Questions(screen[q]) : x.job # j
    BY <1>4, NotAsked
  <2> HIDE DEF m
  <2>8. \A q \in Procs : \A x \in Questions(screen'[q]) : job'[x.job].pc \in {"asked", "phrase"}
    BY <1>0, <1>a, <2>1, <2>3, <2>4, <2>7 DEF Answered
  <2>9. ASSUME NEW q \in Procs, lock'[q] # NoJob
        PROVE  \/ job'[lock'[q]].pc = "thread"
               \/ /\ job'[lock'[q]].pc = "phrase"
                  /\ Modal("entry", lock'[q], NoRoot) \in Questions(screen'[q])
    <3>1. CASE lock'[q] = lock[q]
      <4>1. lock[q] \in Jobs /\ lock[q] # j /\ job'[lock[q]] = job[lock[q]]
        BY <1>0, <2>4, <2>5, <2>6, <2>9, <3>1
      <4>2. Questions(screen[q]) \subseteq Questions(screen'[q])
        BY <2>3
      <4>3. \/ job[lock[q]].pc = "thread"
            \/ job[lock[q]].pc = "phrase" /\ Modal("entry", lock[q], NoRoot) \in Questions(screen[q])
        BY <1>0, <2>9, <3>1 DEF Answered
      <4> QED  BY <3>1, <4>1, <4>2, <4>3
    <3>2. CASE lock'[q] # lock[q]
      <4>1. q = p /\ pc = "phrase" /\ lock'[q] = j
        BY <1>0, <1>4, <2>5, <3>2
      <4> QED  BY <2>3, <2>4, <4>1 DEF m
    <3> QED  BY <3>1, <3>2
  <2> QED  BY <1>1, <2>8, <2>9
\* A job leaves its lock and its question, if it has any, and stores or rests.
<1>5. ASSUME NEW j \in Jobs, \A i \in Jobs : i # j => job'[i] = job[i],
             \A q \in Procs : q # Owner[j] => lock'[q] = lock[q],
             lock'[Owner[j]] \in {NoJob, lock[Owner[j]], j},
             lock'[Owner[j]] = j /\ j # NoJob => job'[j].pc = "thread",
             \A q \in Procs : Questions(screen'[q]) = {m \in Questions(screen[q]) : m.job # j}
      PROVE  HolderWakes'
  <2>1. \A q \in Procs : \A m \in Questions(screen'[q]) : job'[m.job].pc \in {"asked", "phrase"}
    BY <1>0, <1>5, <1>a DEF Answered
  <2>2. ASSUME NEW q \in Procs, lock'[q] # NoJob, lock'[q] # j
        PROVE  \/ job'[lock'[q]].pc = "thread"
               \/ /\ job'[lock'[q]].pc = "phrase"
                  /\ Modal("entry", lock'[q], NoRoot) \in Questions(screen'[q])
    <3>1. lock'[q] = lock[q] /\ job'[lock[q]] = job[lock[q]]
      BY <1>0, <1>5, <2>2
    <3>2. Modal("entry", lock[q], NoRoot).job = lock[q]
      BY DEF Modal
    <3> QED  BY <1>0, <1>5, <2>2, <3>1, <3>2 DEF Answered
  <2>3. ASSUME NEW q \in Procs, lock'[q] = j, j # NoJob  PROVE  job'[lock'[q]].pc = "thread"
    BY <1>0, <1>5, <2>3
  <2> QED  BY <1>1, <2>1, <2>2, <2>3
<1>6. ASSUME NEW p \in Procs, Top(p, "entry"), Pop(p)
      PROVE  /\ Last(screen[p]).job \in Jobs /\ Owner[Last(screen[p]).job] = p
             /\ \A q \in Procs : Questions(screen'[q]) =
                    {m \in Questions(screen[q]) : m.job # Last(screen[p]).job}
             /\ job[Last(screen[p]).job].pc \in {"asked", "phrase"}
  <2> DEFINE top == Last(screen[p])
  <2>1. /\ top.job \in Jobs /\ Owner[top.job] = p /\ screen[p] # <<>>
        /\ top = Modal("entry", top.job, NoRoot) /\ IsEntry(top)
    BY <1>6, TopEntry DEF Typed, Top, IsEntry
  <2>2. Questions(Front(screen[p])) = Questions(screen[p]) \ {top} /\ top \in Questions(screen[p])
    BY <1>0, <2>1, Popped
  <2>3. screen'[p] = Front(screen[p]) /\ \A q \in Procs : q # p => screen'[q] = screen[q]
    BY <1>0, <1>6 DEF Pop
  <2> HIDE DEF top
  <2>4. ASSUME NEW q \in Procs
        PROVE  Questions(screen'[q]) = {m \in Questions(screen[q]) : m.job # top.job}
    <3>1. CASE q = p
      <4>1. \A m \in Questions(screen[p]) : m # top => m.job # top.job
        BY <1>a, <2>1
      <4> QED  BY <2>2, <2>3, <3>1, <4>1
    <3>2. CASE q # p
      BY <1>a, <2>1, <2>3, <3>2
    <3> QED  BY <3>1, <3>2
  <2>5. job[top.job].pc \in {"asked", "phrase"}
    BY <1>0, <2>2 DEF Answered
  <2> QED  BY <2>1, <2>4, <2>5 DEF top
<1>7. ASSUME NEW j \in Jobs, job[j].pc \notin {"asked", "phrase"}, UNCHANGED screen
      PROVE  \A q \in Procs : Questions(screen'[q]) = {m \in Questions(screen[q]) : m.job # j}
  BY <1>7, NotAsked
<1>8. ASSUME NEW p \in Procs, End(p)  PROVE  HolderWakes'
  <2>1. /\ lock'[p] = NoJob /\ screen'[p] = <<>>
        /\ \A q \in Procs : q # p => lock'[q] = lock[q] /\ screen'[q] = screen[q]
        /\ \A i \in Jobs : Owner[i] # p => job'[i] = job[i]
    BY <1>0, <1>8 DEF End
  <2>2. Questions(<<>>) = {}
    BY DEF Questions, ToSet
  <2>3. ASSUME NEW q \in Procs, q # p
        PROVE  /\ lock'[q] # NoJob =>
                    \/ job'[lock'[q]].pc = "thread"
                    \/ /\ job'[lock'[q]].pc = "phrase"
                       /\ Modal("entry", lock'[q], NoRoot) \in Questions(screen'[q])
               /\ \A m \in Questions(screen'[q]) : job'[m.job].pc \in {"asked", "phrase"}
    BY <1>0, <1>a, <2>1, <2>3 DEF Answered
  <2> QED  BY <1>1, <2>1, <2>2, <2>3
\* A dialog of the onboarding comes or goes: nobody waits for it.
<1>9. ASSUME NEW p \in Procs, NEW shown, screen' = [screen EXCEPT ![p] = shown],
             Questions(shown) = Questions(screen[p])
      PROVE  \A q \in Procs : Questions(screen'[q]) = Questions(screen[q])
  BY <1>0, <1>9
<1>10. ASSUME NEW p \in Procs, NEW m \in Modals, m.name \in {"warning", "reset", "phrase"},
             Len(screen[p]) = 1, screen[p][1].name = "onboarding", m.name = "phrase" => m.root # NoRoot
       PROVE  Questions(Append(screen[p], m)) = Questions(screen[p])
  <2>1. ~IsEntry(m)
    BY <1>10 DEF IsEntry
  <2>2. screen[p] \in Seq(Modals) /\ Stack(p, screen[p])
    BY <1>0
  <2>3. Questions(Append(screen[p], m)) = Questions(screen[p]) \cup (IF IsEntry(m) THEN {m} ELSE {})
    BY <1>10, <2>2, Pushed
  <2> QED  BY <2>1, <2>3
<1>11. ASSUME NEW p \in Procs, NEW name \in {"onboarding", "warning", "reset", "phrase"}, Top(p, name)
       PROVE  /\ screen[p] # <<>> /\ Questions(Front(screen[p])) = Questions(screen[p])
              /\ name # "onboarding" => Questions(Front(Front(screen[p]))) = Questions(screen[p])
              /\ name = "onboarding" => Len(screen[p]) = 1 /\ screen[p][1].name = "onboarding"
              /\ Questions(screen[p]) = {}
  <2>1. screen[p] # <<>> /\ Last(screen[p]).name = name /\ ~IsEntry(Last(screen[p]))
    BY <1>11 DEF Top, IsEntry
  <2>2. Questions(Front(screen[p])) = Questions(screen[p])
    BY <1>0, <2>1, Popped
  <2>3. Questions(<<>>) = {}
    BY DEF Questions, ToSet
  <2> QED  BY <1>0, <2>1, <2>2, <2>3, OnTop
<1>12. ASSUME NEW p \in Procs, NEW name \in {"warning", "reset"}, Open(p, name), Top(p, "onboarding")
       PROVE  \A q \in Procs : Questions(screen'[q]) = Questions(screen[q])
  <2> DEFINE m == Modal(name, NoJob, NoRoot)
  <2>1. m \in Modals /\ m.name = name
    BY <1>0, ModalTyped DEF Modal
  <2>2. screen' = [screen EXCEPT ![p] = Append(screen[p], m)]
    BY <1>0, <1>12 DEF Open
  <2> HIDE DEF m
  <2>3. Questions(Append(screen[p], m)) = Questions(screen[p])
    BY <1>10, <1>11, <1>12, <2>1
  <2> QED  BY <1>9, <2>2, <2>3
<1>13. ASSUME NEW j \in Jobs, Begin(j)  PROVE  HolderWakes'
  <2>1. \A i \in Jobs : i # j => job'[i] = job[i]
    BY <1>0, <1>13 DEF Begin
  <2> QED  BY <1>3, <1>13, <2>1 DEF Begin, uiVars
<1>14. ASSUME NEW j \in Jobs, EnsureNativeKey(j)  PROVE  HolderWakes'
  <2>1. CASE Ask(j, "asked")
    BY <1>4, <1>14, <2>1 DEF EnsureNativeKey, procVars
  <2>2. CASE job' = [job EXCEPT ![j].pc = "lock"] /\ UNCHANGED screen
    BY <1>0, <1>3, <1>14, <2>2 DEF EnsureNativeKey, procVars
  <2> QED  BY <1>14, <2>1, <2>2 DEF EnsureNativeKey
<1>15. ASSUME NEW j \in Jobs, TakeLock(j)  PROVE  HolderWakes'
  <2>0. job[j].pc = "lock"
    BY <1>15 DEF TakeLock
  <2>1. CASE Ask(j, "phrase") /\ lock' = [lock EXCEPT ![Owner[j]] = j]
    BY <1>4, <2>0, <2>1
  <2>2. CASE Store(j) /\ UNCHANGED screen
    <3>1. /\ \A i \in Jobs : i # j => job'[i] = job[i]
          /\ job'[j].pc = "thread"
          /\ \A q \in Procs : q # Owner[j] => lock'[q] = lock[q]
          /\ lock'[Owner[j]] = j
      BY <1>0, <2>2 DEF Store, Tasks
    <3>2. \A q \in Procs : Questions(screen'[q]) = {m \in Questions(screen[q]) : m.job # j}
      BY <1>7, <2>0, <2>2
    <3> QED  BY <1>5, <3>1, <3>2
  <2>3. CASE Finish(j) /\ UNCHANGED <<lock, screen>>
    BY <1>0, <1>3, <2>0, <2>3 DEF Finish
  <2> QED  BY <1>15, <2>1, <2>2, <2>3 DEF TakeLock
<1>16. ASSUME NEW j \in Jobs, FindValue(j)  PROVE  HolderWakes'
  BY <1>2, <1>16 DEF FindValue, uiVars
<1>17. ASSUME NEW j \in Jobs, Encrypt(j)  PROVE  HolderWakes'
  BY <1>2, <1>17 DEF Encrypt, uiVars
<1>18. ASSUME NEW j \in Jobs, WriteEntry(j)  PROVE  HolderWakes'
  BY <1>2, <1>18 DEF WriteEntry, uiVars, procVars
<1>19. ASSUME NEW j \in Jobs, Stored(j)  PROVE  HolderWakes'
  <2>1. CASE job[j].pc = "thread"
    <3>1. /\ \A i \in Jobs : i # j => job'[i] = job[i]
          /\ \A q \in Procs : q # Owner[j] => lock'[q] = lock[q]
          /\ lock'[Owner[j]] = NoJob
      BY <1>0, <1>19, <2>1 DEF Stored, Release, Finish, NextSecret, Pass
    <3>2. \A q \in Procs : Questions(screen'[q]) = {m \in Questions(screen[q]) : m.job # j}
      BY <1>7, <1>19, <2>1 DEF Stored, uiVars
    <3>3. lock'[Owner[j]] = j => j = NoJob
      BY <3>1
    <3>4. lock'[Owner[j]] # j \/ j = NoJob
      BY <3>3
    <3> QED  BY <1>5, <3>1, <3>2, <3>4
  <2>2. CASE job[j].pc # "thread"
    BY <1>2, <1>19, <2>2 DEF Stored, uiVars
  <2> QED  BY <2>1, <2>2
<1>20. ASSUME NEW j \in Jobs, CancelPrompt(j)  PROVE  HolderWakes'
  <2>1. /\ \A i \in Jobs : i # j => job'[i] = job[i]
        /\ \A q \in Procs : q # Owner[j] => lock'[q] = lock[q]
        /\ lock'[Owner[j]] = IF lock[Owner[j]] = j THEN NoJob ELSE lock[Owner[j]]
    BY <1>0, <1>20 DEF CancelPrompt, Finish
  <2>2. screen[Owner[j]] = <<>> /\ UNCHANGED screen
    BY <1>20 DEF CancelPrompt, uiVars
  <2>3. \A q \in Procs : Questions(screen'[q]) = {m \in Questions(screen[q]) : m.job # j}
    BY <1>a, <2>2 DEF Questions, ToSet
  <2> QED  BY <1>0, <1>5, <2>1, <2>3
<1>21. ASSUME NEW j \in Jobs, Reveal(j)  PROVE  HolderWakes'
  <2>0. job[j].pc = "reveal"
    BY <1>21 DEF Reveal
  <2>1. CASE Ask(j, "phrase") /\ lock' = [lock EXCEPT ![Owner[j]] = j]
    BY <1>4, <2>0, <2>1
  <2>2. CASE Finish(j) /\ UNCHANGED <<lock, screen>>
    BY <1>0, <1>3, <2>0, <2>2 DEF Finish
  <2> QED  BY <1>21, <2>1, <2>2 DEF Reveal
<1>22. ASSUME NEW p \in Procs, EnterPhrase(p)  PROVE  HolderWakes'
  <2> DEFINE j == Last(screen[p]).job
  <2>0. /\ j \in Jobs /\ Owner[j] = p
        /\ \A q \in Procs : Questions(screen'[q]) = {m \in Questions(screen[q]) : m.job # j}
    BY <1>6, <1>22 DEF EnterPhrase
  <2>h. \/ job[j].pc = "asked" /\ job' = [job EXCEPT ![j].pc = "lock"] /\ UNCHANGED lock
        \/ Store(j)
        \/ Finish(j) /\ Release(p)
    BY <1>22 DEF EnterPhrase
  <2> HIDE DEF j
  <2>1. CASE job[j].pc = "asked" /\ job' = [job EXCEPT ![j].pc = "lock"] /\ UNCHANGED lock
    <3>1. lock[p] # NoJob => lock[p] # j
      BY <1>0, <2>0, <2>1 DEF Answered
    <3>2. \A i \in Jobs : i # j => job'[i] = job[i]
      BY <1>0, <2>1
    <3> QED  BY <1>5, <2>0, <2>1, <3>1, <3>2
  <2>2. CASE Store(j)
    <3>1. /\ \A i \in Jobs : i # j => job'[i] = job[i]
          /\ job'[j].pc = "thread"
          /\ \A q \in Procs : q # Owner[j] => lock'[q] = lock[q]
          /\ lock'[Owner[j]] = j
      BY <1>0, <2>0, <2>2 DEF Store, Tasks
    <3> QED  BY <1>5, <2>0, <3>1
  <2>3. CASE Finish(j) /\ Release(p)
    <3>1. /\ \A i \in Jobs : i # j => job'[i] = job[i]
          /\ \A q \in Procs : q # Owner[j] => lock'[q] = lock[q]
          /\ lock'[Owner[j]] = NoJob
      BY <1>0, <2>0, <2>3 DEF Finish, Release
    <3> QED  BY <1>5, <2>0, <3>1
  <2> QED  BY <2>h, <2>1, <2>2, <2>3
<1>23. ASSUME NEW p \in Procs, CancelPhrase(p)  PROVE  HolderWakes'
  <2> DEFINE j == Last(screen[p]).job
  <2>0. /\ j \in Jobs /\ Owner[j] = p
        /\ \A q \in Procs : Questions(screen'[q]) = {m \in Questions(screen[q]) : m.job # j}
    BY <1>6, <1>23 DEF CancelPhrase
  <2>1. Finish(j) /\ lock' = [lock EXCEPT ![p] = IF @ = j THEN NoJob ELSE @]
    BY <1>23 DEF CancelPhrase
  <2> HIDE DEF j
  <2>2. /\ \A i \in Jobs : i # j => job'[i] = job[i]
        /\ \A q \in Procs : q # Owner[j] => lock'[q] = lock[q]
        /\ lock'[Owner[j]] = IF lock[Owner[j]] = j THEN NoJob ELSE lock[Owner[j]]
    BY <1>0, <2>0, <2>1 DEF Finish
  <2> QED  BY <1>5, <2>0, <2>2
<1>24. ASSUME NEW p \in Procs, CreateFile(p)  PROVE  HolderWakes'
  BY <1>2, <1>24 DEF CreateFile, uiVars, jobVars
<1>25. ASSUME NEW p \in Procs, FillFile(p)  PROVE  HolderWakes'
  BY <1>2, <1>25 DEF FillFile, uiVars, jobVars
<1>26. ASSUME NEW p \in Procs, KeepKey(p)  PROVE  HolderWakes'
  <2>0. UNCHANGED <<lock, job>>
    BY <1>26 DEF KeepKey, jobVars
  <2>1. CASE UNCHANGED screen
    BY <1>2, <2>0, <2>1
  <2>2. CASE p \in Tui /\ screen' = [screen EXCEPT ![p] = Append(@, Modal("phrase", NoJob, act[p].root))]
    <3> DEFINE m == Modal("phrase", NoJob, act[p].root)
    <3>1. act[p].root \in Given /\ act[p].root # NoRoot
      BY <1>0, <1>26 DEF KeepKey, Acts, Typed, ProcsTyped, Placed
    <3>2. m \in Modals /\ m.name = "phrase" /\ m.root # NoRoot
      BY <1>0, <3>1, ModalTyped DEF Modal
    <3>3. Len(screen[p]) = 1 /\ screen[p][1].name = "onboarding"
      BY <1>26, <2>2 DEF KeepKey, Stacked
    <3>4. screen' = [screen EXCEPT ![p] = Append(screen[p], m)]
      BY <1>0, <2>2
    <3> HIDE DEF m
    <3>5. Questions(Append(screen[p], m)) = Questions(screen[p])
      BY <1>10, <3>2, <3>3
    <3>6. \A q \in Procs : Questions(screen'[q]) = Questions(screen[q])
      BY <1>9, <3>4, <3>5
    <3> QED  BY <1>2, <2>0, <3>6
  <2> QED  BY <1>26, <2>1, <2>2 DEF KeepKey
<1>27. ASSUME NEW p \in Procs, CreateFails(p)  PROVE  HolderWakes'
  <2>1. CASE UNCHANGED <<lock, job, screen>>
    BY <1>2, <2>1
  <2> QED  BY <1>8, <1>27, <2>1 DEF CreateFails, jobVars
<1>28. ASSUME NEW p \in Procs, OpenOnboarding(p)  PROVE  HolderWakes'
  <2> DEFINE m == Modal("onboarding", NoJob, NoRoot)
  <2>1. m \in Modals /\ m.name = "onboarding" /\ ~IsEntry(m)
    BY <1>0, ModalTyped DEF Modal, IsEntry
  <2>2. screen' = [screen EXCEPT ![p] = Append(screen[p], m)] /\ screen[p] = <<>>
    BY <1>0, <1>28 DEF OpenOnboarding, Open
  <2> HIDE DEF m
  <2>3. Questions(Append(screen[p], m)) = Questions(screen[p])
    BY <1>0, <2>1, <2>2, Pushed
  <2>4. \A q \in Procs : Questions(screen'[q]) = Questions(screen[q])
    BY <1>9, <2>2, <2>3
  <2> QED  BY <1>2, <1>28, <2>4 DEF OpenOnboarding, uiFrame, jobVars
<1>29. ASSUME NEW p \in Procs, LeaveOnboarding(p)  PROVE  HolderWakes'
  <2>t. Top(p, "onboarding") /\ UNCHANGED <<lock, job>>
    BY <1>29 DEF LeaveOnboarding, uiFrame, jobVars
  <2>1. CASE Pop(p)
    <3>1. \A q \in Procs : Questions(screen'[q]) = Questions(screen[q])
      BY <1>9, <1>11, <2>1, <2>t DEF Pop, Turn
    <3> QED  BY <1>2, <2>t, <3>1
  <2> QED  BY <1>29, <2>1 DEF LeaveOnboarding
<1>30. ASSUME NEW p \in Procs, PressStart(p)  PROVE  HolderWakes'
  <2>t. Top(p, "onboarding") /\ UNCHANGED <<lock, job>>
    BY <1>30 DEF PressStart, uiFrame, jobVars
  <2>1. CASE Open(p, "warning")
    <3>1. \A q \in Procs : Questions(screen'[q]) = Questions(screen[q])
      BY <1>12, <2>1, <2>t DEF Pop, Turn
    <3> QED  BY <1>2, <2>t, <3>1
  <2>2. CASE Pop(p)
    <3>1. \A q \in Procs : Questions(screen'[q]) = Questions(screen[q])
      BY <1>9, <1>11, <2>2, <2>t DEF Pop, Turn
    <3> QED  BY <1>2, <2>t, <3>1
  <2> QED  BY <1>30, <2>1, <2>2 DEF PressStart
<1>31. ASSUME NEW p \in Procs, PressGenerate(p)  PROVE  HolderWakes'
  <2>t. Top(p, "onboarding") /\ UNCHANGED <<lock, job>>
    BY <1>31 DEF PressGenerate, uiFrame, jobVars
  <2>1. CASE Open(p, "reset")
    <3>1. \A q \in Procs : Questions(screen'[q]) = Questions(screen[q])
      BY <1>12, <2>1, <2>t DEF Pop, Turn
    <3> QED  BY <1>2, <2>t, <3>1
  <2>2. CASE UNCHANGED screen
    <3>1. \A q \in Procs : Questions(screen'[q]) = Questions(screen[q])
      BY <1>0, <2>2, <2>t DEF Pop, Turn
    <3> QED  BY <1>2, <2>t, <3>1
  <2> QED  BY <1>31, <2>1, <2>2 DEF PressGenerate
<1>32. ASSUME NEW p \in Procs, AnswerReset(p)  PROVE  HolderWakes'
  <2>t. Top(p, "reset") /\ UNCHANGED <<lock, job>>
    BY <1>32 DEF AnswerReset, uiFrame, jobVars
  <2>1. CASE Pop(p)
    <3>1. \A q \in Procs : Questions(screen'[q]) = Questions(screen[q])
      BY <1>9, <1>11, <2>1, <2>t DEF Pop, Turn
    <3> QED  BY <1>2, <2>t, <3>1
  <2> QED  BY <1>32, <2>1 DEF AnswerReset
<1>33. ASSUME NEW p \in Procs, AnswerPhrase(p)  PROVE  HolderWakes'
  <2>t. Top(p, "phrase") /\ UNCHANGED <<lock, job>>
    BY <1>33 DEF AnswerPhrase, uiFrame, jobVars
  <2>1. CASE Pop(p)
    <3>1. \A q \in Procs : Questions(screen'[q]) = Questions(screen[q])
      BY <1>9, <1>11, <2>1, <2>t DEF Pop, Turn
    <3> QED  BY <1>2, <2>t, <3>1
  <2>2. CASE screen' = [screen EXCEPT ![p] = Front(Front(@))]
    <3>1. \A q \in Procs : Questions(screen'[q]) = Questions(screen[q])
      BY <1>9, <1>11, <2>2, <2>t DEF Pop, Turn
    <3> QED  BY <1>2, <2>t, <3>1
  <2> QED  BY <1>33, <2>1, <2>2 DEF AnswerPhrase
<1>34. ASSUME NEW p \in Procs, AnswerWarning(p)  PROVE  HolderWakes'
  <2>t. Top(p, "warning") /\ UNCHANGED <<lock, job>>
    BY <1>34 DEF AnswerWarning, uiFrame, jobVars
  <2>1. CASE Pop(p) \/ screen' = [screen EXCEPT ![p] = Front(Front(@))]
    <3>1. \A q \in Procs : Questions(screen'[q]) = Questions(screen[q])
      BY <1>9, <1>11, <2>1, <2>t DEF Pop
    <3> QED  BY <1>2, <2>t, <3>1
  <2>2. CASE Turn(p, "reset")
    <3> DEFINE m == Modal("reset", NoJob, NoRoot)
               left == Front(screen[p])
    <3>1. m \in Modals /\ ~IsEntry(m) /\ m.name = "reset"
      BY <1>0, ModalTyped DEF Modal, IsEntry
    <3>2. Stack(p, left) /\ left \in Seq(Modals) /\ Len(left) = 1 /\ left[1].name = "onboarding"
      BY <1>0, <1>11, <2>t, OnTop, Popped, StackTyped DEF Top
    <3>3. screen' = [screen EXCEPT ![p] = Append(left, m)]
      BY <1>0, <2>2 DEF Turn
    <3>4. Questions(left) = Questions(screen[p])
      BY <1>11, <2>t
    <3> HIDE DEF m, left
    <3>5. Questions(Append(left, m)) = Questions(left)
      BY <3>1, <3>2, Pushed
    <3>6. \A q \in Procs : Questions(screen'[q]) = Questions(screen[q])
      BY <1>9, <3>3, <3>4, <3>5
    <3> QED  BY <1>2, <2>t, <3>6
  <2> QED  BY <1>34, <2>1, <2>2 DEF AnswerWarning
<1>35. ASSUME NEW p \in Procs, BackUp(p)  PROVE  HolderWakes'
  BY <1>2, <1>35 DEF BackUp, uiVars, jobVars, uiFrame
<1>36. ASSUME NEW p \in Procs, KeyInit(p)  PROVE  HolderWakes'
  BY <1>2, <1>36 DEF KeyInit, uiVars, jobVars, uiFrame
<1>37. ASSUME NEW p \in Procs, KeyRestore(p)  PROVE  HolderWakes'
  BY <1>2, <1>37 DEF KeyRestore, uiVars, jobVars, uiFrame
<1>38. ASSUME NEW p \in Procs, CopyKey(p)  PROVE  HolderWakes'
  BY <1>2, <1>38 DEF CopyKey, jobVars, uiFrame
<1>39. ASSUME NEW p \in Procs, Crash(p)  PROVE  HolderWakes'
  BY <1>8, <1>39 DEF Crash
<1>40. CASE UNCHANGED vars
  BY <1>2, <1>40 DEF vars, procVars, uiVars, jobVars
<1> QED  BY <1>13, <1>14, <1>15, <1>16, <1>17, <1>18, <1>19, <1>20, <1>21, <1>22, <1>23, <1>24, <1>25,
     <1>26, <1>27, <1>28, <1>29, <1>30, <1>31, <1>32, <1>33, <1>34, <1>35, <1>36, <1>37, <1>38, <1>39,
     <1>40 DEF Next
-----------------------------------------------------------------------------
(* The phrase that the operator has *)

\* What a dialog more, or one less, does to what is shown.
LEMMA ScreenSets ==
    ASSUME NEW shown \in Seq(Modals)
    PROVE  /\ \A m \in Modals : ToSet(Append(shown, m)) = ToSet(shown) \cup {m}
           /\ shown # <<>> => ToSet(Front(shown)) \subseteq ToSet(shown)
<1>1. Len(shown) \in Nat /\ DOMAIN shown = 1..Len(shown) /\ \A n \in 1..Len(shown) : shown[n] \in Modals
  OBVIOUS
<1>2. ASSUME NEW m \in Modals  PROVE  ToSet(Append(shown, m)) = ToSet(shown) \cup {m}
  <2> DEFINE more == Append(shown, m)
  <2>1. /\ DOMAIN more = 1 .. Len(shown) + 1 /\ more[Len(shown) + 1] = m
        /\ \A n \in 1..Len(shown) : more[n] = shown[n]
    BY <1>1
  <2> HIDE DEF more
  <2>2. \A x \in ToSet(more) : x \in ToSet(shown) \cup {m}
    BY <1>1, <2>1 DEF ToSet
  <2>3. \A x \in ToSet(shown) \cup {m} : x \in ToSet(more)
    BY <1>1, <2>1 DEF ToSet
  <2> QED  BY <2>2, <2>3 DEF more
<1>3. ASSUME shown # <<>>  PROVE  ToSet(Front(shown)) \subseteq ToSet(shown)
  <2> DEFINE less == Front(shown)
  <2>1. Len(shown) > 0
    BY <1>1, <1>3
  <2>2. /\ less \in Seq(Modals) /\ Len(less) = Len(shown) - 1
        /\ \A n \in 1 .. Len(shown) - 1 : less[n] = shown[n]
    BY <1>1, <2>1, SubSeqProperties DEF Front
  <2>3. DOMAIN less = 1 .. Len(shown) - 1
    BY <2>2
  <2> HIDE DEF less
  <2>4. \A x \in ToSet(less) : x \in ToSet(shown)
    BY <1>1, <2>2, <2>3 DEF ToSet
  <2> QED  BY <2>4 DEF less
<1> QED  BY <1>2, <1>3

\* What an interface says to be acknowledged stays so, whatever is made,
\* replaced, put back or restored.
LEMMA AcknowledgedStep ==
    ASSUME KeystoreAssumption, Typed, Stacked, Acknowledged, [Next]_vars
    PROVE  Acknowledged'
<1>0. /\ screen \in [Procs -> Seq(Modals)] /\ act \in [Procs -> Acts] /\ made \in Nat
      /\ keyReady \in [Procs -> BOOLEAN] /\ Owner \in [Jobs -> Procs] /\ Tui \subseteq Procs
      /\ \A p \in Procs : Stack(p, screen[p])
      /\ dismissed \subseteq 1..made /\ NoRoot \notin dismissed
      /\ \A p \in Procs : act[p].at = "rest" => act[p] = Resting
      /\ \A p \in Procs : p \notin Tui => act[p].stamp = NoStamp
      /\ archive \in [Seconds -> Held] /\ key \in Held
  BY Numbers DEF Typed, FilesTyped, ProcsTyped, Placed, Stacked, KeystoreAssumption, NoRoot
<1>1. ASSUME \A p \in Procs :
                /\ Making(p)' => /\ Making(p) /\ act'[p].root = act[p].root
                                 /\ act[p].root \notin dismissed'
                /\ Shown(p)' \subseteq Shown(p),
             UNCHANGED makers,
             \A p \in Tui : makers \subseteq {p} =>
                /\ keyReady'[p] \/ Fresh(p)' => key'.root \notin dismissed'
                /\ keyReady'[p] /\ act'[p].stamp # NoStamp => archive'[act'[p].stamp].root \notin dismissed'
      PROVE  Acknowledged'
  <2>1. \A p \in Procs : Fresh(p)' => Fresh(p)
    BY <1>1 DEF Fresh
  <2> QED  BY <1>0, <1>1, <2>1 DEF Acknowledged
\* A step that makes no key and says nothing more to be acknowledged.
<1>2. ASSUME dismissed' \subseteq dismissed, key' = key \/ key'.root \notin dismissed', UNCHANGED <<archive, makers>>,
             \A p \in Procs :
                /\ Making(p)' => Making(p) /\ act'[p].root = act[p].root
                /\ Shown(p)' \subseteq Shown(p)
                /\ act'[p].stamp # NoStamp => act'[p].stamp = act[p].stamp
                /\ keyReady'[p] => keyReady[p]
      PROVE  Acknowledged'
  <2>1. ASSUME NEW p \in Procs, Making(p)'
        PROVE  Making(p) /\ act'[p].root = act[p].root /\ act[p].root \notin dismissed'
    BY <1>2, <2>1 DEF Acknowledged
  <2>2. ASSUME NEW p \in Tui, makers \subseteq {p}, keyReady'[p] \/ Fresh(p)'  PROVE  key'.root \notin dismissed'
    <3>1. keyReady[p] \/ Fresh(p)
      BY <1>0, <1>2, <2>2 DEF Fresh
    <3> QED  BY <1>2, <2>2, <3>1 DEF Acknowledged
  <2>3. ASSUME NEW p \in Tui, makers \subseteq {p}, keyReady'[p], act'[p].stamp # NoStamp
        PROVE  archive'[act'[p].stamp].root \notin dismissed'
    BY <1>0, <1>2, <2>3 DEF Acknowledged
  <2> QED  BY <1>1, <1>2, <2>1, <2>2, <2>3
<1>3. ASSUME NEW p \in Procs, NEW shown, screen' = [screen EXCEPT ![p] = shown],
             Phrases(ToSet(shown)) \subseteq Shown(p)
      PROVE  \A q \in Procs : Shown(q)' \subseteq Shown(q)
  BY <1>0, <1>3 DEF Shown
<1>4. ASSUME NEW p \in Procs, NEW m \in Modals, m.name # "phrase", screen' = [screen EXCEPT ![p] = Append(screen[p], m)]
      PROVE  \A q \in Procs : Shown(q)' \subseteq Shown(q)
  <2>1. ToSet(Append(screen[p], m)) = ToSet(screen[p]) \cup {m}
    BY <1>0, ScreenSets
  <2>2. Phrases(ToSet(Append(screen[p], m))) \subseteq Shown(p)
    BY <1>4, <2>1 DEF Phrases, Shown
  <2> QED  BY <1>3, <1>4, <2>2
<1>5. ASSUME NEW p \in Procs, Pop(p), screen[p] # <<>>
      PROVE  \A q \in Procs : Shown(q)' \subseteq Shown(q)
  <2>1. ToSet(Front(screen[p])) \subseteq ToSet(screen[p])
    BY <1>0, <1>5, ScreenSets
  <2>2. Phrases(ToSet(Front(screen[p]))) \subseteq Shown(p)
    BY <2>1 DEF Phrases, Shown
  <2> QED  BY <1>3, <1>5, <2>2 DEF Pop
<1>6. ASSUME UNCHANGED screen  PROVE  \A q \in Procs : Shown(q)' \subseteq Shown(q)
  BY <1>6 DEF Shown
<1>7. /\ Phrases(ToSet(<<>>)) = {}
      /\ \A p \in Procs : screen'[p] = <<>> => Shown(p)' = {}
  BY DEF Phrases, ToSet, Shown
<1>8. ASSUME NEW j \in Jobs, NEW pc, Ask(j, pc)  PROVE  \A q \in Procs : Shown(q)' \subseteq Shown(q)
  <2>1. Owner[j] \in Procs /\ Modal("entry", j, NoRoot) \in Modals /\ Modal("entry", j, NoRoot).name # "phrase"
    BY <1>0, ModalTyped DEF Modal
  <2>2. screen' = [screen EXCEPT ![Owner[j]] = Append(screen[Owner[j]], Modal("entry", j, NoRoot))]
    BY <1>0, <1>8 DEF Ask
  <2> QED  BY <1>4, <2>1, <2>2
<1>9. ASSUME NEW p \in Procs, NEW name \in {"onboarding", "warning", "reset"}, Open(p, name)
      PROVE  \A q \in Procs : Shown(q)' \subseteq Shown(q)
  <2>1. Modal(name, NoJob, NoRoot) \in Modals /\ Modal(name, NoJob, NoRoot).name # "phrase"
    BY <1>0, ModalTyped DEF Modal
  <2>2. screen' = [screen EXCEPT ![p] = Append(screen[p], Modal(name, NoJob, NoRoot))]
    BY <1>0, <1>9 DEF Open
  <2> QED  BY <1>4, <2>1, <2>2
\* A new root has not been dismissed, is not shown and nobody makes it.
<1>10. ASSUME NEW p \in Procs, NEW t, Generates(p, t), UNCHANGED <<dismissed, keyReady>>, key' = NoFile,
              \A q \in Procs : Shown(q)' \subseteq Shown(q),
              \/ t = NoStamp /\ UNCHANGED archive
              \/ p \in Tui /\ (makers \subseteq {p} /\ keyReady[p] => archive'[t].root \notin dismissed)
       PROVE  Acknowledged'
  <2>1. act'[p] = [at |-> "create", root |-> made + 1, stamp |-> t] /\ \A q \in Procs : q # p => act'[q] = act[q]
    BY <1>0, <1>10 DEF Generates
  <2>2. made + 1 \notin dismissed /\ \A q \in Procs : act[q].root \in Given /\ made + 1 \notin Given
    BY <1>0 DEF Given, Acts
  <2>3. \A q \in Procs : made + 1 \notin Shown(q)
    <3>1. ASSUME NEW q \in Procs, NEW m \in ToSet(screen[q])  PROVE  m.root \in Given
      <4>1. screen[q] \in Seq(Modals) /\ \E k \in DOMAIN screen[q] : m = screen[q][k]
        BY <1>0, <3>1 DEF ToSet
      <4>2. m \in Modals
        BY <4>1
      <4> QED  BY <4>2 DEF Modals
    <3> QED  BY <2>2, <3>1 DEF Shown, Phrases
  <2>4. \A q \in Procs : q # p => (Making(q)' <=> Making(q)) /\ act'[q] = act[q]
    BY <2>1 DEF Making
  <2>5. \A q \in Procs : Making(q)' => act'[q].root \notin dismissed'
    BY <1>10, <2>1, <2>2, <2>4 DEF Acknowledged
  <2>6. \A q, r \in Procs :
            /\ Making(q)' /\ Making(r)' /\ act'[q].root = act'[r].root => q = r
            /\ Making(q)' => act'[q].root \notin Shown(r)'
    <3>1. act'[p].root = made + 1
      BY <2>1
    <3> QED  BY <1>10, <2>2, <2>3, <2>4, <3>1 DEF Acknowledged
  <2>7. key'.root \notin dismissed'
    BY <1>0, <1>10 DEF NoFile
  <2>m. makers' = makers \cup ({p} \cap Tui)
    BY <1>10 DEF Generates
  <2>8. ASSUME NEW q \in Tui, makers' \subseteq {q}, keyReady'[q], act'[q].stamp # NoStamp
        PROVE  archive'[act'[q].stamp].root \notin dismissed'
    <3>1. CASE q = p
      BY <1>10, <2>1, <2>8, <2>m, <3>1
    <3>2. CASE q # p
      <4>1. p \notin Tui /\ UNCHANGED archive /\ act'[q] = act[q]
        BY <1>0, <1>10, <2>4, <2>8, <2>m, <3>2
      <4> QED  BY <1>10, <2>8, <2>m, <4>1 DEF Acknowledged
    <3> QED  BY <3>1, <3>2
  <2>9. ASSUME NEW q \in Tui, Fresh(q)'  PROVE  q \in makers'
    <3>1. CASE q = p
      BY <2>m, <3>1
    <3>2. CASE q # p
      <4>1. Fresh(q)
        BY <1>0, <1>10, <2>4, <2>9, <3>2 DEF Fresh
      <4> QED  BY <2>m, <4>1 DEF Acknowledged
    <3> QED  BY <3>1, <3>2
  <2>10. makers' \subseteq Tui
    BY <2>m DEF Acknowledged
  <2> QED  BY <2>5, <2>6, <2>7, <2>8, <2>9, <2>10 DEF Acknowledged
<1>11. ASSUME NEW p \in Procs, End(p), UNCHANGED <<archive, makers, dismissed>>, key' = key \/ key' = Cut
       PROVE  Acknowledged'
  <2>1. /\ act'[p] = Resting /\ keyReady'[p] = FALSE /\ Shown(p)' = {} /\ ~Making(p)'
        /\ Resting.stamp = NoStamp
    BY <1>0, <1>7, <1>11 DEF End, Resting, Making, NoStamp
  <2>2. \A q \in Procs : q # p => act'[q] = act[q] /\ keyReady'[q] = keyReady[q]
                                  /\ Shown(q)' = Shown(q) /\ (Making(q)' <=> Making(q))
    BY <1>0, <1>11 DEF End, Shown, Making
  <2>3. key' = key \/ key'.root \notin dismissed'
    BY <1>0, <1>11 DEF Cut
  <2> QED  BY <1>2, <1>11, <2>1, <2>2, <2>3
\* Nothing of this changes but what a screen shows.
<1>12. ASSUME UNCHANGED <<key, archive, makers, act, dismissed>>, \A q \in Procs : Shown(q)' \subseteq Shown(q),
              \A q \in Procs : keyReady'[q] => keyReady[q]
       PROVE  Acknowledged'
  BY <1>2, <1>12 DEF Making
<1>13. ASSUME NEW j \in Jobs, Begin(j)  PROVE  Acknowledged'
  BY <1>6, <1>8, <1>12, <1>13 DEF Begin, diskVars, uiVars
<1>14. ASSUME NEW j \in Jobs, EnsureNativeKey(j)  PROVE  Acknowledged'
  BY <1>6, <1>8, <1>12, <1>14 DEF EnsureNativeKey, diskVars, procVars
<1>15. ASSUME NEW j \in Jobs, TakeLock(j)  PROVE  Acknowledged'
  BY <1>6, <1>8, <1>12, <1>15 DEF TakeLock, diskVars
<1>16. ASSUME NEW j \in Jobs, FindValue(j)  PROVE  Acknowledged'
  BY <1>6, <1>8, <1>12, <1>16 DEF FindValue, diskVars, uiVars
<1>17. ASSUME NEW j \in Jobs, Encrypt(j)  PROVE  Acknowledged'
  BY <1>6, <1>8, <1>12, <1>17 DEF Encrypt, diskVars, uiVars
<1>18. ASSUME NEW j \in Jobs, WriteEntry(j)  PROVE  Acknowledged'
  BY <1>6, <1>8, <1>12, <1>18 DEF WriteEntry, diskVars, procVars, uiVars
<1>19. ASSUME NEW j \in Jobs, Stored(j)  PROVE  Acknowledged'
  BY <1>6, <1>8, <1>12, <1>19 DEF Stored, diskVars, uiVars
<1>20. ASSUME NEW j \in Jobs, CancelPrompt(j)  PROVE  Acknowledged'
  BY <1>6, <1>8, <1>12, <1>20 DEF CancelPrompt, diskVars, uiVars
<1>21. ASSUME NEW j \in Jobs, Reveal(j)  PROVE  Acknowledged'
  BY <1>6, <1>8, <1>12, <1>21 DEF Reveal, diskVars
<1>22. ASSUME NEW p \in Procs, EnterPhrase(p)  PROVE  Acknowledged'
  <2>1. Pop(p) /\ screen[p] # <<>> /\ UNCHANGED <<key, archive, makers, act, dismissed, keyReady>>
    BY <1>22 DEF EnterPhrase, Top, diskVars
  <2> QED  BY <1>5, <1>12, <2>1
<1>23. ASSUME NEW p \in Procs, CancelPhrase(p)  PROVE  Acknowledged'
  <2>1. Pop(p) /\ screen[p] # <<>> /\ UNCHANGED <<key, archive, makers, act, dismissed, keyReady>>
    BY <1>23 DEF CancelPhrase, Top, diskVars
  <2> QED  BY <1>5, <1>12, <2>1
<1>24. ASSUME NEW p \in Procs, CreateFile(p)  PROVE  Acknowledged'
  <2>1. \A q \in Procs : Shown(q)' \subseteq Shown(q)
    BY <1>6, <1>24 DEF CreateFile, uiVars
  <2>2. \A q \in Procs :
            /\ Making(q)' => Making(q) /\ act'[q].root = act[q].root
            /\ act'[q].stamp # NoStamp => act'[q].stamp = act[q].stamp
    BY <1>0, <1>24 DEF CreateFile, Making, Resting, Acts, NoStamp
  <2>3. /\ key'.root \notin dismissed' /\ dismissed' \subseteq dismissed
        /\ UNCHANGED <<archive, makers, keyReady>>
    BY <1>0, <1>24 DEF CreateFile, uiVars, Cut
  <2> QED  BY <1>2, <2>1, <2>2, <2>3
<1>25. ASSUME NEW p \in Procs, FillFile(p)  PROVE  Acknowledged'
  <2>1. \A q \in Procs : Shown(q)' \subseteq Shown(q)
    BY <1>6, <1>25 DEF FillFile, uiVars
  <2>2. \A q \in Procs :
            /\ Making(q)' => Making(q) /\ act'[q].root = act[q].root
            /\ act'[q].stamp # NoStamp => act'[q].stamp = act[q].stamp
    BY <1>0, <1>25 DEF FillFile, Making, Resting, Acts, NoStamp
  <2>3. /\ key' = key \/ key'.root \notin dismissed'
        /\ dismissed' \subseteq dismissed /\ UNCHANGED <<archive, makers, keyReady>>
    BY <1>25 DEF FillFile, uiVars, Envelope, Making, Acknowledged
  <2> QED  BY <1>2, <2>1, <2>2, <2>3
<1>26. ASSUME NEW p \in Procs, KeepKey(p)  PROVE  Acknowledged'
  <2>1. /\ UNCHANGED <<key, archive, makers, dismissed>> /\ Making(p)
        /\ act' = [act EXCEPT ![p] = Resting] /\ \A q \in Procs : keyReady'[q] => keyReady[q]
    BY <1>0, <1>26 DEF KeepKey, diskVars, Making
  <2>2. ~Making(p)' /\ act'[p].stamp = NoStamp /\ \A q \in Procs : q # p => act'[q] = act[q] /\ (Making(q)' <=> Making(q))
    BY <1>0, <2>1 DEF Making, Resting, NoStamp
  <2>3. CASE UNCHANGED screen
    BY <1>2, <1>6, <2>1, <2>2, <2>3
  <2>4. CASE p \in Tui /\ screen' = [screen EXCEPT ![p] = Append(@, Modal("phrase", NoJob, act[p].root))]
    <3> DEFINE m == Modal("phrase", NoJob, act[p].root)
    <3>1. m \in Modals /\ m.name = "phrase" /\ m.root = act[p].root
      BY <1>0, ModalTyped DEF Modal, Acts
    <3>2. screen'[p] = Append(screen[p], m) /\ \A q \in Procs : q # p => screen'[q] = screen[q]
      BY <1>0, <2>4
    <3> HIDE DEF m
    <3>3. ToSet(screen'[p]) = ToSet(screen[p]) \cup {m}
      BY <1>0, <3>1, <3>2, ScreenSets
    <3>4. Shown(p)' = Shown(p) \cup {act[p].root} /\ \A q \in Procs : q # p => Shown(q)' = Shown(q)
      BY <3>1, <3>2, <3>3 DEF Shown, Phrases
    <3>5. \A q \in Procs : q # p /\ Making(q) => act[q].root # act[p].root
      BY <2>1 DEF Acknowledged
    <3>6. \A q, r \in Procs :
            /\ Making(q)' /\ Making(r)' /\ act'[q].root = act'[r].root => q = r
            /\ Making(q)' => act'[q].root \notin Shown(r)'
      BY <2>2, <3>4, <3>5 DEF Acknowledged
    <3>7. \A q \in Procs : Making(q)' => act'[q].root \notin dismissed'
      BY <2>1, <2>2 DEF Acknowledged
    <3>8. p \in makers /\ (makers \subseteq {p} => key'.root \notin dismissed')
      BY <2>1, <2>4 DEF Acknowledged, Fresh
    <3>a. ASSUME NEW q \in Tui, Fresh(q)'  PROVE  q \in makers'
      <4>1. q = p \/ Fresh(q)
        BY <1>0, <2>2, <3>4, <3>a DEF Fresh
      <4> QED  BY <2>1, <3>8, <3>a, <4>1 DEF Acknowledged
    <3>b. ASSUME NEW q \in Tui, makers' \subseteq {q}
          PROVE  /\ key'.root \notin dismissed'
                 /\ keyReady'[q] /\ act'[q].stamp # NoStamp =>
                        archive'[act'[q].stamp].root \notin dismissed'
      <4>1. q = p /\ makers \subseteq {q}
        BY <2>1, <3>8, <3>b
      <4> QED  BY <1>0, <2>1, <2>2, <3>8, <4>1
    <3>c. makers' \subseteq Tui
      BY <2>1 DEF Acknowledged
    <3> QED  BY <3>6, <3>7, <3>a, <3>b, <3>c DEF Acknowledged
  <2> QED  BY <1>26, <2>3, <2>4 DEF KeepKey
<1>27. ASSUME NEW p \in Procs, CreateFails(p)  PROVE  Acknowledged'
  <2>1. CASE End(p) /\ UNCHANGED <<key, archive>>
    BY <1>11, <1>27, <2>1 DEF CreateFails
  <2>2. CASE act[p].stamp # NoStamp /\ RollBack(p) /\ act' = [act EXCEPT ![p] = Resting] /\ UNCHANGED <<screen, keyReady>>
    <3>1. p \in Tui /\ act[p].at # "rest" /\ UNCHANGED <<makers, dismissed>> /\ Making(p)
      BY <1>0, <1>27, <2>2 DEF CreateFails, Making
    <3>2. ~Making(p)' /\ act'[p].stamp = NoStamp /\ \A q \in Procs : q # p => act'[q] = act[q] /\ (Making(q)' <=> Making(q))
      BY <1>0, <2>2 DEF Making, Resting, NoStamp
    <3>3. Len(screen[p]) = 1 /\ screen[p][1].name = "onboarding"
      BY <3>1 DEF Stacked
    <3>4. \A x \in ToSet(screen[p]) : x.name = "onboarding"
      BY <1>0, <3>3 DEF ToSet
    <3>5. Shown(p) = {}
      BY <3>4 DEF Shown, Phrases
    <3>6. makers \subseteq {p} /\ keyReady[p] => key'.root \notin dismissed'
      BY <2>2, <3>1 DEF Acknowledged, RollBack
    <3>7. ~Fresh(p)' /\ \A q \in Procs : Shown(q)' = Shown(q)
      BY <2>2, <3>2, <3>5 DEF Fresh, Shown
    <3>8. \A q \in Procs : Making(q)' => Making(q) /\ act'[q].root = act[q].root /\ act[q].root \notin dismissed'
      BY <3>1, <3>2 DEF Acknowledged
    <3>9. p \in makers
      BY <3>1 DEF Acknowledged, Fresh
    <3>a. \A q \in Tui : makers \subseteq {q} => q = p
      BY <3>9
    <3>b. ASSUME NEW q \in Tui, makers \subseteq {q}
          PROVE  /\ keyReady'[q] \/ Fresh(q)' => key'.root \notin dismissed'
                 /\ act'[q].stamp = NoStamp
      <4>1. q = p
        BY <3>a, <3>b
      <4> QED  BY <2>2, <3>2, <3>6, <3>7, <3>b, <4>1
    <3>c. \A q \in Procs :
            /\ Making(q)' => /\ Making(q) /\ act'[q].root = act[q].root
                             /\ act[q].root \notin dismissed'
            /\ Shown(q)' \subseteq Shown(q)
      BY <3>7, <3>8
    <3>d. UNCHANGED makers
      BY <3>1
    <3>e. \A q \in Tui : makers \subseteq {q} =>
            /\ keyReady'[q] \/ Fresh(q)' => key'.root \notin dismissed'
            /\ keyReady'[q] /\ act'[q].stamp # NoStamp => archive'[act'[q].stamp].root \notin dismissed'
      BY <3>b
    <3> QED  BY <1>1, <3>c, <3>d, <3>e
  <2> QED  BY <1>27, <2>1, <2>2 DEF CreateFails
<1>28. ASSUME NEW p \in Procs, OpenOnboarding(p)  PROVE  Acknowledged'
  <2>1. \A q \in Procs : keyReady'[q] => keyReady[q]
    BY <1>0, <1>28 DEF OpenOnboarding
  <2> QED  BY <1>9, <1>12, <1>28, <2>1 DEF OpenOnboarding, diskVars
<1>29. ASSUME NEW p \in Procs, LeaveOnboarding(p)  PROVE  Acknowledged'
  BY <1>5, <1>12, <1>29 DEF LeaveOnboarding, Top, diskVars
<1>30. ASSUME NEW p \in Procs, PressStart(p)  PROVE  Acknowledged'
  BY <1>5, <1>9, <1>12, <1>30 DEF PressStart, Top, diskVars
<1>31. ASSUME NEW p \in Procs, PressGenerate(p)  PROVE  Acknowledged'
  <2>1. CASE Open(p, "reset") /\ UNCHANGED <<diskVars, act>>
    BY <1>9, <1>12, <1>31, <2>1 DEF PressGenerate, diskVars
  <2>2. CASE ~Exists /\ Generates(p, NoStamp) /\ UNCHANGED <<key, archive, screen>>
    <3>1. key' = NoFile
      BY <1>0, <2>2, HeldFiles DEF Exists
    <3> QED  BY <1>6, <1>10, <1>31, <2>2, <3>1 DEF PressGenerate
  <2> QED  BY <1>31, <2>1, <2>2 DEF PressGenerate
<1>32. ASSUME NEW p \in Procs, AnswerReset(p)  PROVE  Acknowledged'
  <2>1. Pop(p) /\ screen[p] # <<>> /\ p \in Tui /\ UNCHANGED <<keyReady, dismissed>>
    BY <1>32 DEF AnswerReset, Top, Typed, Placed
  <2>2. CASE UNCHANGED <<diskVars, act>>
    BY <1>5, <1>12, <2>1, <2>2 DEF diskVars
  <2>3. ASSUME NEW t \in Seconds, Replaces(p, t)  PROVE  Acknowledged'
    <3>1. makers \subseteq {p} /\ keyReady[p] => archive'[t].root \notin dismissed
      BY <1>0, <2>1, <2>3 DEF Replaces, Acknowledged
    <3> QED  BY <1>5, <1>10, <2>1, <2>3, <3>1 DEF Replaces
  <2> QED  BY <1>32, <2>2, <2>3 DEF AnswerReset
<1>33. ASSUME NEW p \in Procs, AnswerWarning(p)  PROVE  Acknowledged'
  <2>0. /\ screen[p] # <<>> /\ act[p] = Resting /\ Front(Front(screen[p])) = <<>>
        /\ Resting.stamp = NoStamp /\ p \in Tui /\ UNCHANGED <<key, archive, makers, act>>
    BY <1>0, <1>33, OnTop DEF AnswerWarning, Top, Loop, Resting, NoStamp, Typed, Placed, diskVars
  <2>1. CASE /\ screen' = [screen EXCEPT ![p] = Front(Front(@))] /\ keyReady' = [keyReady EXCEPT ![p] = TRUE]
             /\ dismissed' = dismissed \ {key.root}
    <3>1. \A q \in Procs : Shown(q)' \subseteq Shown(q)
      BY <1>3, <1>7, <2>0, <2>1
    <3>2. \A q \in Procs : Making(q)' => Making(q) /\ act'[q].root = act[q].root /\ act[q].root \notin dismissed'
      BY <2>0, <2>1 DEF Acknowledged, Making
    <3>3. ASSUME NEW q \in Tui, makers \subseteq {q}, keyReady'[q], act'[q].stamp # NoStamp
          PROVE  archive'[act'[q].stamp].root \notin dismissed'
      <4>1. q # p /\ keyReady[q] /\ act[q].stamp # NoStamp
        BY <1>0, <2>0, <2>1, <3>3
      <4> QED  BY <2>0, <2>1, <3>3, <4>1 DEF Acknowledged
    <3> QED  BY <1>1, <2>0, <2>1, <3>1, <3>2, <3>3
  <2>2. CASE Turn(p, "reset") /\ UNCHANGED <<keyReady, dismissed>>
    <3> DEFINE m == Modal("reset", NoJob, NoRoot)
               left == Front(screen[p])
    <3>1. m \in Modals /\ m.name # "phrase"
      BY <1>0, ModalTyped DEF Modal
    <3>2. left \in Seq(Modals) /\ ToSet(left) \subseteq ToSet(screen[p])
      BY <1>0, <2>0, ScreenSets, StackTyped
    <3>3. screen' = [screen EXCEPT ![p] = Append(left, m)]
      BY <1>0, <2>2 DEF Turn
    <3> HIDE DEF m, left
    <3>4. ToSet(Append(left, m)) = ToSet(left) \cup {m}
      BY <3>1, <3>2, ScreenSets
    <3>5. Phrases(ToSet(Append(left, m))) \subseteq Shown(p)
      BY <3>1, <3>2, <3>4 DEF Phrases, Shown
    <3>6. \A q \in Procs : Shown(q)' \subseteq Shown(q)
      BY <1>3, <3>3, <3>5
    <3> QED  BY <1>12, <2>0, <2>2, <3>6
  <2>3. CASE Pop(p) /\ UNCHANGED <<keyReady, dismissed>>
    BY <1>5, <1>12, <2>0, <2>3
  <2> QED  BY <1>33, <2>1, <2>2, <2>3 DEF AnswerWarning
<1>34. ASSUME NEW p \in Procs, AnswerPhrase(p)  PROVE  Acknowledged'
  <2> DEFINE top == Last(screen[p])
  <2>0. /\ screen[p] # <<>> /\ act[p] = Resting /\ Front(Front(screen[p])) = <<>>
        /\ Resting.stamp = NoStamp /\ p \in Tui /\ UNCHANGED <<key, archive, makers, act>>
        /\ Len(Front(screen[p])) = 1 /\ Front(screen[p])[1].name = "onboarding"
        /\ top.name = "phrase" /\ top \in ToSet(screen[p])
    <3>1. screen[p] # <<>> /\ top.name = "phrase" /\ p \in Tui /\ act[p].at = "rest" /\ UNCHANGED <<key, archive, makers, act>>
      BY <1>34 DEF AnswerPhrase, Top, Loop, Typed, Placed, diskVars
    <3>2. top \in ToSet(screen[p])
      BY <3>1, TopDialog DEF Typed, ToSet
    <3>3. /\ Front(Front(screen[p])) = <<>>
          /\ Len(Front(screen[p])) = 1 /\ Front(screen[p])[1].name = "onboarding"
      BY <1>0, <3>1, OnTop
    <3> QED  BY <1>0, <3>1, <3>2, <3>3 DEF Resting, NoStamp
  <2>a. CASE Pop(p) \/ screen' = [screen EXCEPT ![p] = Front(Front(@))]
    <3>1. \A q \in Procs : Shown(q)' \subseteq Shown(q)
      BY <1>3, <1>5, <1>7, <2>0, <2>a
    <3>2. top.root \in Shown(p)
      BY <2>0 DEF Shown, Phrases
    <3>3. \A q \in Procs : Making(q)' => Making(q) /\ act'[q].root = act[q].root /\ act[q].root \notin dismissed \cup {top.root}
      BY <2>0, <3>2 DEF Acknowledged, Making
    <3>4. p \in makers
      BY <2>0, <3>2 DEF Acknowledged, Fresh
    <3>5. CASE dismissed' = dismissed \ {top.root} /\ keyReady' = [keyReady EXCEPT ![p] = TRUE]
      <4>1. makers \subseteq {p} => key.root \notin dismissed
        BY <2>0, <3>2 DEF Acknowledged, Fresh
      <4> QED  BY <1>1, <2>0, <3>1, <3>3, <3>4, <3>5, <4>1
    <3>6. CASE Pop(p) /\ keyReady' = [keyReady EXCEPT ![p] = FALSE] /\ dismissed' = dismissed \cup {top.root}
      <4>1. \A x \in ToSet(screen'[p]) : x.name = "onboarding"
        <5>1. screen'[p] = Front(screen[p]) /\ Front(screen[p]) \in Seq(Modals)
          BY <1>0, <2>0, <3>6, StackTyped DEF Pop
        <5> QED  BY <2>0, <5>1 DEF ToSet
      <4>2. Shown(p)' = {}
        BY <4>1 DEF Shown, Phrases
      <4>3. ~Fresh(p)' /\ keyReady'[p] = FALSE
        BY <1>0, <2>0, <3>6, <4>2 DEF Fresh, Making, Resting
      <4> QED  BY <1>1, <2>0, <3>1, <3>3, <3>4, <3>6, <4>3
    <3> QED  BY <1>34, <3>5, <3>6 DEF AnswerPhrase
  <2> QED  BY <1>34, <2>a DEF AnswerPhrase
<1>35. ASSUME NEW p \in Procs, BackUp(p)  PROVE  Acknowledged'
  BY <1>6, <1>12, <1>35 DEF BackUp, uiVars
<1>36. ASSUME NEW p \in Procs, KeyInit(p)  PROVE  Acknowledged'
  <2>1. key' = NoFile
    BY <1>0, <1>36, HeldFiles DEF KeyInit, Exists
  <2> QED  BY <1>6, <1>10, <1>36, <2>1 DEF KeyInit, uiVars
<1>37. ASSUME NEW p \in Procs, KeyRestore(p)  PROVE  Acknowledged'
  <2>1. \A q \in Procs : Shown(q)' \subseteq Shown(q)
    BY <1>6, <1>37 DEF KeyRestore, uiVars, uiFrame
  <2>2. \A q \in Procs :
            /\ Making(q)' => Making(q) /\ act'[q].root = act[q].root
            /\ act'[q].stamp # NoStamp => act'[q].stamp = act[q].stamp
    BY <1>0, <1>37 DEF KeyRestore, Making, Resting, Acts, NoStamp
  <2>3. /\ key'.root \notin dismissed' /\ dismissed' \subseteq dismissed
        /\ UNCHANGED <<archive, makers, keyReady>>
    BY <1>0, <1>37 DEF KeyRestore, uiVars, NoFile
  <2> QED  BY <1>2, <2>1, <2>2, <2>3
<1>38. ASSUME NEW p \in Procs, CopyKey(p)  PROVE  Acknowledged'
  <2>1. \A q \in Procs : Shown(q)' \subseteq Shown(q)
    BY <1>6, <1>38 DEF CopyKey, uiFrame
  <2>2. \A q \in Procs :
            /\ Making(q)' => Making(q) /\ act'[q].root = act[q].root
            /\ act'[q].stamp # NoStamp => act'[q].stamp = act[q].stamp
    BY <1>0, <1>38 DEF CopyKey, Making, Resting, Acts, NoStamp
  <2>3. /\ key'.root \notin dismissed' /\ dismissed' \subseteq dismissed
        /\ UNCHANGED <<archive, makers, keyReady>>
    BY <1>38 DEF CopyKey, Envelope
  <2> QED  BY <1>2, <2>1, <2>2, <2>3
<1>39. ASSUME NEW p \in Procs, Crash(p)  PROVE  Acknowledged'
  BY <1>11, <1>39 DEF Crash
<1>40. CASE UNCHANGED vars
  BY <1>6, <1>12, <1>40 DEF vars, diskVars, procVars, uiVars
<1> QED  BY <1>13, <1>14, <1>15, <1>16, <1>17, <1>18, <1>19, <1>20, <1>21, <1>22, <1>23, <1>24, <1>25,
     <1>26, <1>27, <1>28, <1>29, <1>30, <1>31, <1>32, <1>33, <1>34, <1>35, <1>36, <1>37, <1>38, <1>39,
     <1>40 DEF Next
-----------------------------------------------------------------------------
(* The keystore *)

\* A machine without a key, where nothing runs, is in order.
LEMMA InitIsSound == ASSUME KeystoreAssumption, Init  PROVE  IInv
<1>1. made = 0 /\ Given = {0} /\ key = NoFile /\ key \in Held /\ NoRoot \in Given
  BY DEF Init, Given, Held, NoRoot
<1>2. FilesTyped
  <2>1. MaxRoots \in Nat /\ entries \in Seq(Lines)
    BY DEF Init, KeystoreAssumption
  <2> QED  BY <1>1, <2>1 DEF Init, FilesTyped, Held
<1>3. ProcsTyped
  <2>1. Resting \in Acts
    BY <1>1 DEF Resting, Acts, NoStamp
  <2>2. <<>> \in Seq(Modals)
    OBVIOUS
  <2> QED  BY <1>1, <2>1, <2>2 DEF Init, ProcsTyped
<1>4. JobsTyped
  <2>1. Idle \in Tasks /\ NoThread \in Threads
    BY <1>1 DEF Idle, Tasks, Steps, NoThread, Threads
  <2> QED  BY <2>1 DEF Init, JobsTyped
<1>5. Placed /\ Fed
  BY DEF Init, Placed, Fed, Resting, NoStamp, NoThread, InThread
<1>6. Kept
  BY DEF Init, Kept, Safe, Resting, NoThread
<1>7. Unlocked /\ Unstored
  BY DEF Init, Unlocked, Unstored, NoThread, UsesKey, InThread
<1>8. Noted
  BY DEF Init, Noted, Idle, NoThread
<1>9. Stacked /\ HolderWakes
  BY KeystoreAssumption DEF Init, Stacked, Stack, HolderWakes, Resting, KeystoreAssumption
<1>10. Acknowledged
  <2>1. \A p \in Procs : ~Making(p)
    BY DEF Init, Making, Resting
  <2>2. dismissed = {} /\ makers = {}
    BY DEF Init
  <2>3. \A p \in Tui : Shown(p) = {}
    BY KeystoreAssumption DEF Init, Shown, Phrases, ToSet, KeystoreAssumption
  <2> QED  BY <2>1, <2>2, <2>3, KeystoreAssumption DEF Acknowledged, Fresh, KeystoreAssumption
<1>11. NoTerminalPrompt /\ FailsClosed /\ StoredOnce
  BY DEF Init, NoTerminalPrompt, FailsClosed, StoredOnce
<1> QED  BY <1>2, <1>3, <1>4, <1>5, <1>6, <1>7, <1>8, <1>9, <1>10, <1>11 DEF IInv, Typed

\* Every step keeps everything in order.
LEMMA StepIsSound == ASSUME KeystoreAssumption, IInv, [Next]_vars  PROVE  IInv'
<1>0. Typed /\ Kept /\ Unlocked /\ Unstored /\ Noted /\ Stacked /\ HolderWakes
      /\ NoTerminalPrompt /\ FailsClosed /\ StoredOnce
  BY DEF IInv
<1>1. Typed'
  BY <1>0, FilesTypedStep, ProcsTypedStep, JobsTypedStep, PlacedStep, FedStep DEF Typed
<1>2. Kept' /\ Unlocked' /\ Unstored' /\ Noted' /\ Stacked'
  BY <1>0, KeptStep, UnlockedStep, UnstoredStep, NotedStep, StackedStep
<1>3. HolderWakes'
  BY <1>0, <1>1, <1>2, HolderWakesStep
<1>4. NoTerminalPrompt' /\ FailsClosed' /\ StoredOnce'
  BY <1>0, PromptStep, FailsClosedStep, StoredOnceStep
<1>5. Acknowledged'
  BY <1>0, AcknowledgedStep DEF IInv
<1> QED  BY <1>1, <1>2, <1>3, <1>4, <1>5 DEF IInv

\* All of the above holds at every instant.
LEMMA AlwaysSound == Spec => []IInv
<1>1. Init => IInv
  BY InitIsSound, KeystoreAssumption
<1>2. IInv /\ [Next]_vars => IInv'
  BY StepIsSound, KeystoreAssumption
<1> QED  BY <1>1, <1>2, PTL DEF Spec

\* The types of the proof are those of the model.
LEMMA TypesAgree == ASSUME KeystoreAssumption, Typed, Acknowledged  PROVE  TypeOK
<1>0. /\ made \in Nat /\ MaxRoots \in Nat /\ made <= MaxRoots
      /\ archive \in [Seconds -> Held] /\ key \in Held /\ backup \subseteq 1..made
      /\ entries \in Seq(Lines) /\ cache \in [Procs -> Given] /\ act \in [Procs -> Acts]
      /\ job \in [Jobs -> Tasks] /\ thread \in [Jobs -> Threads]
  BY Numbers DEF Typed, FilesTyped, ProcsTyped, JobsTyped
<1>1. Held \subseteq Files
  BY <1>0 DEF Held, Files, Roots
<1>2. key \in Files /\ archive \in [Seconds -> Files] /\ backup \subseteq Roots /\ made \in 0..MaxRoots
  BY <1>0, <1>1 DEF Roots
<1>3. \A n \in DOMAIN entries : entries[n].s \in Secrets /\ entries[n].root \in 1..made
  <2>1. \A n \in DOMAIN entries : entries[n] \in Lines
    BY <1>0
  <2> QED  BY <2>1 DEF Lines
<1>4. cache \in [Procs -> 0..made] /\ ready \in [Procs -> BOOLEAN] /\ keyReady \in [Procs -> BOOLEAN]
  BY <1>0 DEF Given, Typed, ProcsTyped
<1>5. \A p \in Procs :
        /\ lock[p] # NoJob => Owner[lock[p]] = p
        /\ act[p].at \in {"rest", "create", "fill", "keep", "copy"}
        /\ p \notin Tui => screen[p] = <<>>
  BY <1>0 DEF Typed, Placed, Acts
<1>6. \A j \in Jobs :
        /\ job[j].pc \in {"idle", "unlock", "asked", "lock", "phrase", "thread", "reveal"}
        /\ thread[j].at \in {"none", "find", "encrypt", "write", "stored", "refused"}
  BY <1>0 DEF Tasks, Steps, Threads
<1>7. makers \subseteq Tui
  BY DEF Acknowledged
<1> QED  BY <1>2, <1>3, <1>4, <1>5, <1>6, <1>7 DEF TypeOK

\* However many processes create, replace, back up, restore and use the key,
\* and wherever one of them fails or dies, each line of the keystore file
\* (memory/keystore.py) can be opened with an envelope that is still on disk,
\* unless key restore deleted it on the operator's word.
THEOREM NothingIsLost == Spec => []NothingLost
<1>1. IInv => NothingLost
  <2> SUFFICES ASSUME IInv, NEW n \in DOMAIN entries
               PROVE  entries[n].root \in Enveloped \cup forsaken
    BY DEF NothingLost, Enveloped
  <2>1. entries[n].root \in Safe
    BY DEF IInv, Kept
  <2>2. entries \in Seq(Lines)
    BY DEF IInv, Typed, FilesTyped
  <2>3. entries[n].root \in 1..made
    <3>1. entries[n] \in Lines
      BY <2>2
    <3> QED  BY <3>1 DEF Lines
  <2> QED  BY <2>1, <2>3 DEF Safe, NoRoot
<1> QED  BY <1>1, AlwaysSound, PTL

\* The interface reads no recovery phrase from the terminal it draws on
\* (_ensure_unlocked asks in a dialog before the worker thread starts), unless
\* the key changed under a thread that was already storing.
THEOREM InterfaceAsksInDialogs == Spec => []NoTerminalPrompt
<1>1. IInv => NoTerminalPrompt
  BY DEF IInv
<1> QED  BY <1>1, AlwaysSound, PTL

\* A text that redaction passed on has each of its secrets in the store, and
\* the store has each value once under its root, for any texts, jobs and
\* interleaving of worker threads with the lock of KeyStore.store.
THEOREM RedactionStoresItsSecrets == Spec => []RedactionIsComplete
<1>1. IInv => RedactionIsComplete
  BY DEF IInv, RedactionIsComplete
<1> QED  BY <1>1, AlwaysSound, PTL

\* Whoever holds the lock of a store has a thread that will wake it or its
\* question on the screen, and every question has a task that waits for it,
\* for any number of interfaces, commands and jobs.
THEOREM LockIsNeverLeftBehind == Spec => [](TypeOK /\ HolderWakes)
<1>1. IInv => TypeOK /\ HolderWakes
  BY TypesAgree, KeystoreAssumption DEF IInv
<1> QED  BY <1>1, AlwaysSound, PTL

\* For any number of interfaces and commands, an onboarding that lets an
\* engagement start without asking had the phrase of the key at the path
\* acknowledged, whatever a replacement, its failure or a key command puts
\* there, unless another interface has made a key (OnboardingModal._key_ready
\* of tui.py is the modal's own).
THEOREM KeystoreIsSound == Spec => []KeystoreInv
<1>1. IInv => KeystoreInv
  <2> SUFFICES ASSUME IInv  PROVE  KeystoreInv
    OBVIOUS
  <2>1. TypeOK /\ HolderWakes
    BY TypesAgree, KeystoreAssumption DEF IInv
  <2>2. ASSUME NEW p \in Procs, makers \subseteq {p}, keyReady[p], Top(p, "onboarding")
        PROVE  key.root \notin dismissed
    <3>1. p \in Tui
      BY <2>2 DEF Top, IInv, Typed, Placed
    <3>2. Acknowledged
      BY DEF IInv
    <3> QED  BY <2>2, <3>1, <3>2 DEF Acknowledged
  <2> QED  BY <2>1, <2>2 DEF KeystoreInv, AcknowledgedKey
<1> QED  BY <1>1, AlwaysSound, PTL
=============================================================================
