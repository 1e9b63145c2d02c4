------------------------------ MODULE Sessions ------------------------------
(***************************************************************************)
(* Saved sessions: the files of a checkpoint (sessions/checkpoint.py), who *)
(* writes, lists, deletes and restores them (halgate.py, tui.py, cli.py).  *)
(*                                                                         *)
(* A save rewrites metadata, transcript and tool state one after the       *)
(* other, each truncated first.  It does not await, so that the process    *)
(* that saves does nothing else meanwhile; but it can die, and another     *)
(* process on the same directory reads, writes and deletes in between.     *)
(***************************************************************************)
EXTENDS Integers, Sequences, FiniteSets, SequencesExt

CONSTANTS
    Instances,  \* halgate processes that share the sessions directory
    Tui,        \* those with the terminal interface, the others are prompts
    Sids,       \* session ids, ordered as the ids of sorting are
    Rows,       \* rows a list of sessions shows (9 in the modal, 10 in the prompt)
    MaxWork,    \* bound: changes made to live sessions
    MaxSaves,   \* bound: saves begun
    MaxStarts   \* bound: processes started

ASSUME SessionsAssumption ==
    /\ Tui \subseteq Instances
    /\ Sids \subseteq Nat \ {0}
    /\ Rows \in Nat \ {0}
    /\ MaxWork \in Nat
    /\ MaxSaves \in Nat
    /\ MaxStarts \in Nat

VARIABLES
    dir,      \* session directories that exist
    file,     \* what is in the files of each session
    born,     \* meta["created"]
    up,       \* processes that run
    sid,      \* Halgate.session_id and the directory of _checkpoint
    live,     \* engagements, messages and panes in memory
    replay,   \* saved panes that _restore_panes has yet to start again
    saving,   \* how far SessionCheckpoint.save got, 0 when nothing is saved
    view,     \* SessionsModal
    post,     \* messages of the modal the app has not handled
    tick,     \* changes made so far; also the clock
    saves,    \* saves begun so far
    starts,   \* processes started so far
    used,     \* history: session ids given out
    lone,     \* history: the save has met no other save of its session
    settled,  \* history: how the last save of a session ended
    hurt      \* history: sessions whose save or deletion was cut or overlapped

procVars == <<up, sid, live, replay>>
screenVars == <<view, post>>
diskVars == <<dir, file, born>>
countVars == <<tick, saves, starts, used>>
vars == <<diskVars, procVars, saving, screenVars, countVars, lone, settled, hurt>>

NoSid == 0
Names == <<"meta", "talk", "panes">>
Contents == [meta : 0..MaxWork, talk : 0..MaxWork, panes : 0..MaxWork]
Blank == [meta |-> 0, talk |-> 0, panes |-> 0]
NoFile == [st |-> "none", v |-> 0]
NoFiles == [meta |-> NoFile, talk |-> NoFile, panes |-> NoFile]
Rest == 0
Closed == [open |-> FALSE, list |-> <<>>, cursor |-> 0]

\* The type invariant: with the types, that a process saves only its own, live
\* session, and that a file is only there in a directory.
TypeOK ==
    /\ dir \in [Sids -> BOOLEAN]
    /\ \A s \in Sids :
        /\ DOMAIN file[s] = {"meta", "talk", "panes"}
        /\ \A n \in DOMAIN file[s] :
            /\ file[s][n].st \in {"none", "torn", "short", "ok"}
            /\ file[s][n].v \in 0..MaxWork
        /\ ~dir[s] => file[s] = NoFiles
    /\ born \in [Sids -> 0..MaxWork]
    /\ up \in [Instances -> BOOLEAN]
    /\ sid \in [Instances -> Sids \cup {NoSid}]
    /\ live \in [Instances -> Contents]
    /\ tick \in 0..MaxWork /\ saves \in 0..MaxSaves /\ starts \in 0..MaxStarts
    /\ \A i \in Instances :
        /\ saving[i] \in 0..6
        /\ up[i] <=> sid[i] # NoSid
        /\ replay[i] \subseteq 0..MaxWork
        /\ ~up[i] => saving[i] = Rest /\ view[i] = Closed /\ post[i] = <<>>
        /\ ~up[i] \/ i \notin Tui => replay[i] = {}

Init ==
    /\ dir = [s \in Sids |-> FALSE]
    /\ file = [s \in Sids |-> NoFiles]
    /\ born = [s \in Sids |-> 0]
    /\ up = [i \in Instances |-> FALSE]
    /\ sid = [i \in Instances |-> NoSid]
    /\ live = [i \in Instances |-> Blank]
    /\ replay = [i \in Instances |-> {}]
    /\ saving = [i \in Instances |-> Rest]
    /\ view = [i \in Instances |-> Closed]
    /\ post = [i \in Instances |-> <<>>]
    /\ tick = 0
    /\ saves = 0
    /\ starts = 0
    /\ used = {}
    /\ lone = [i \in Instances |-> FALSE]
    /\ settled = [s \in Sids |-> "nothing"]
    /\ hurt = {}
-----------------------------------------------------------------------------
(* Reading a session *)

\* load: no directory or no metadata is FileNotFoundError, the other files are
\* optional, and whatever is there has to parse.
NotFound(s) == ~dir[s] \/ file[s].meta.st = "none"
Readable(s) ==
    /\ ~NotFound(s)
    /\ file[s].meta.st = "ok"
    /\ file[s].talk.st # "torn"
    /\ file[s].panes.st # "torn"
Damaged(s) == ~NotFound(s) /\ ~Readable(s)

\* What load returns.  An absent or emptied transcript has no messages.
Stored(s) ==
    [n \in {"meta", "talk", "panes"} |->
        IF file[s][n].st = "ok" THEN file[s][n].v ELSE 0]

\* What restore_session makes live of it: the process manager is a new one, and
\* has no pane.
Restored(s) == [Stored(s) EXCEPT !.panes = 0]

\* list_sessions: metadata that parses, newest first.
Listed == {s \in Sids : dir[s] /\ file[s].meta.st = "ok"}
NewerThan(s, t) == born[s] > born[t] \/ (born[s] = born[t] /\ s > t)
Newer(s) == {t \in Listed : NewerThan(t, s)}
Shown == IF Cardinality(Listed) < Rows THEN Cardinality(Listed) ELSE Rows
Listing == [k \in 1..Shown |-> CHOOSE s \in Listed : Cardinality(Newer(s)) = k - 1]
Latest == IF Listed = {} THEN NoSid ELSE Listing[1]

Idle(i) == up[i] /\ saving[i] = Rest

\* The modal is opened by a command, which no prompt runs beside, and takes the
\* keys; its messages are handled before the next key.
Free(i) == Idle(i) /\ ~view[i].open /\ post[i] = <<>>
-----------------------------------------------------------------------------
(* Processes *)

\* A process is in session s from now on, with content c; o are saved panes that
\* it has been given to start again.
Enter(i, s, c, o) ==
    /\ up' = [up EXCEPT ![i] = TRUE]
    /\ sid' = [sid EXCEPT ![i] = s]
    /\ live' = [live EXCEPT ![i] = c]
    /\ replay' = [replay EXCEPT ![i] = @ \cup o]

End(i) ==
    /\ up' = [up EXCEPT ![i] = FALSE]
    /\ sid' = [sid EXCEPT ![i] = NoSid]
    /\ live' = [live EXCEPT ![i] = Blank]
    /\ replay' = [replay EXCEPT ![i] = {}]
    /\ view' = [view EXCEPT ![i] = Closed]
    /\ post' = [post EXCEPT ![i] = <<>>]
    /\ saving' = [saving EXCEPT ![i] = Rest]
    /\ lone' = [lone EXCEPT ![i] = FALSE]

\* A start without a session to resume: a fresh id (in the order of Sids, which
\* only decides ties of sorting) and an empty directory.
Start(i) ==
    /\ ~up[i]
    /\ \E s \in Sids \ used :
        /\ \A t \in Sids \ used : s <= t
        /\ Enter(i, s, Blank, {})
        /\ dir' = [dir EXCEPT ![s] = TRUE]
        /\ used' = used \cup {s}
    /\ starts < MaxStarts
    /\ starts' = starts + 1
    /\ UNCHANGED <<file, born, saving, screenVars, tick, saves, lone, settled, hurt>>

\* --resume s, or --latest; a session that cannot be loaded or restored ends the
\* program.  No pane is started again, of the interface either.
StartResumed(i, s) ==
    /\ ~up[i]
    /\ s \in Sids \/ s = Latest
    /\ s # NoSid /\ Readable(s)
    /\ Enter(i, s, Restored(s), {})
    /\ starts < MaxStarts
    /\ starts' = starts + 1
    /\ UNCHANGED <<diskVars, saving, screenVars, tick, saves, used, lone, settled, hurt>>

\* A turn, a pane, a setting: the live session changes.
Work(i) ==
    /\ Free(i)
    /\ tick < MaxWork
    /\ tick' = tick + 1
    /\ live' = [live EXCEPT ![i] = [n \in DOMAIN live[i] |-> tick + 1]]
    /\ UNCHANGED <<diskVars, up, sid, replay, saving, screenVars, saves, starts, used, lone,
                   settled, hurt>>

\* _restore_panes, a task of its own, dispatches one more of the saved panes as a
\* pane_spawn, which may be refused, or has come to the last of them: what panes
\* the process then has can be any.  It also goes on when another session has
\* been restored meanwhile.
Replay(i) ==
    /\ Idle(i)
    /\ \E p \in replay[i] :
        replay' = [replay EXCEPT ![i] = @ \ {p}] \/ UNCHANGED replay
    /\ \E q \in 0..MaxWork : live' = [live EXCEPT ![i].panes = q]
    /\ UNCHANGED <<diskVars, up, sid, saving, screenVars, countVars, lone, settled, hurt>>

\* The process dies: killed, or by an exception nothing catches.
Crash(i) ==
    /\ up[i]
    /\ End(i)
    /\ hurt' = IF saving[i] = Rest THEN hurt ELSE hurt \cup {sid[i]}
    /\ UNCHANGED <<diskVars, countVars, settled>>
-----------------------------------------------------------------------------
(* SessionCheckpoint.save *)

\* checkpoint is called by commands, the progress controller and settings
\* dialogs, and before the program ends: by /quit and the quit key, or by the
\* end of the prompt loop.  So a complete save may be the last thing a process
\* does.  An exception of it is printed in a turn and in a command of the
\* interface, /quit too, which then go on; anywhere else it ends the program.
SaveFails(i) ==
    /\ \/ End(i)
       \/ /\ saving' = [saving EXCEPT ![i] = Rest]
          /\ lone' = [lone EXCEPT ![i] = FALSE]
          /\ UNCHANGED <<procVars, screenVars>>
    /\ UNCHANGED <<diskVars, countVars, settled>>

Savers(s) == {j \in Instances : up[j] /\ saving[j] # Rest /\ sid[j] = s}

\* The directory must be there: only a start or a restore makes it.
SaveStarts(i) ==
    LET s == sid[i]
        others == Savers(s) \ {i}
    IN /\ dir[s]
       /\ saving' = [saving EXCEPT ![i] = 1]
       /\ lone' = [j \in Instances |-> IF j = i THEN others = {}
                                       ELSE lone[j] /\ j \notin others]
       /\ settled' = [settled EXCEPT ![s] = "unsettled"]
       /\ hurt' = IF others = {} THEN hurt ELSE hurt \cup {s}
       /\ saves < MaxSaves
       /\ saves' = saves + 1
       /\ UNCHANGED <<diskVars, up, sid, replay, tick, starts, used>>

Save(i) ==
    /\ Free(i)
    /\ \/ SaveStarts(i) /\ UNCHANGED <<live, screenVars>>
       \/ ~dir[sid[i]] /\ SaveFails(i) /\ UNCHANGED hurt

\* open("w") leaves an empty file, and what reaches the disk before the file is
\* closed is any part of it.  Only an emptied transcript still parses.
Truncate(i) ==
    LET s == sid[i]
        n == Names[(saving[i] + 1) \div 2]
    IN /\ saving[i] \in {1, 3, 5}
       /\ dir[s]
       /\ \E st \in IF n = "talk" THEN {"short", "torn"} ELSE {"torn"} :
            file' = [file EXCEPT ![s][n] = [st |-> st, v |-> 0]]
       /\ born' = [born EXCEPT ![s] = IF n = "meta" /\ file[s].meta.st # "ok"
                                      THEN tick ELSE @]
       /\ saving' = [saving EXCEPT ![i] = @ + 1]
       /\ UNCHANGED <<dir, procVars, screenVars, countVars, lone, settled, hurt>>

\* The file is complete, unless another save has written it meanwhile.  The
\* last one written ends the save.
WriteOut_EndsEarly(i) ==
    LET s == sid[i]
        n == Names[saving[i] \div 2]
    IN /\ saving[i] \in {2, 4}
       /\ dir[s]
       /\ file' = [file EXCEPT ![s][n] = [st |-> "ok", v |-> live[i][n]]]
       /\ saving' = [saving EXCEPT ![i] = IF @ = 4 THEN Rest ELSE @ + 1]
       /\ settled' = [settled EXCEPT ![s] =
                         IF saving[i] = 4 /\ lone[i] THEN "settled" ELSE @]
       /\ UNCHANGED <<dir, born, procVars, screenVars, countVars, lone, hurt>>

WriteOut(i) ==
    LET s == sid[i]
        n == Names[saving[i] \div 2]
    IN /\ saving[i] \in {2, 4}
       /\ dir[s]
       /\ \E st \in IF lone[i] THEN {"ok"} ELSE {"ok", "torn"} :
            file' = [file EXCEPT ![s][n] =
                [st |-> st, v |-> IF st = "ok" THEN live[i][n] ELSE 0]]
       /\ saving' = [saving EXCEPT ![i] = @ + 1]
       /\ UNCHANGED <<dir, born, procVars, screenVars, countVars, lone, settled, hurt>>

SaveEnds_Unflushed(i) ==
    LET s == sid[i]
    IN /\ saving[i] = 6
       /\ dir[s]
       /\ settled' = IF lone[i] THEN [settled EXCEPT ![s] = "settled"] ELSE settled
       /\ hurt' = IF lone[i] THEN hurt \ {s} ELSE hurt
       /\ saving' = [saving EXCEPT ![i] = Rest]
       /\ lone' = [lone EXCEPT ![i] = FALSE]
       /\ UNCHANGED <<diskVars, procVars, screenVars, countVars>>

SaveEnds(i) ==
    LET s == sid[i]
    IN /\ saving[i] = 6
       /\ dir[s]
       /\ \E st \in IF lone[i] THEN {"ok"} ELSE {"ok", "torn"} :
            file' = [file EXCEPT ![s].panes =
                [st |-> st, v |-> IF st = "ok" THEN live[i].panes ELSE 0]]
       /\ settled' = IF lone[i] THEN [settled EXCEPT ![s] = "settled"] ELSE settled
       /\ hurt' = IF lone[i] THEN hurt \ {s} ELSE hurt
       /\ \/ End(i)
          \/ /\ saving' = [saving EXCEPT ![i] = Rest]
             /\ lone' = [lone EXCEPT ![i] = FALSE]
             /\ UNCHANGED <<procVars, screenVars>>
       /\ UNCHANGED <<dir, born, countVars>>

\* The directory was deleted under the save.
SaveAborts(i) ==
    /\ up[i]
    /\ saving[i] # Rest
    /\ ~dir[sid[i]]
    /\ SaveFails(i)
    /\ UNCHANGED hurt

\* A write, or what makes the text to be written, raises: a full disk, a message
\* that is no JSON.  The files stay as far as they got, which for one already
\* opened is as Truncate left it, and the process may go on.  What raises when
\* the three files are complete (audit_ref.json, session_end) is SaveEnds.
WriteFails(i) ==
    /\ saving[i] # Rest
    /\ dir[sid[i]]
    /\ SaveFails(i)
    /\ hurt' = hurt \cup {sid[i]}
-----------------------------------------------------------------------------
(* Deleting and restoring *)

\* SessionCheckpoint.delete: only metadata that parses is found.
Erase(s) ==
    IF s \in Listed
    THEN /\ dir' = [dir EXCEPT ![s] = FALSE]
         /\ file' = [file EXCEPT ![s] = NoFiles]
         /\ born' = [born EXCEPT ![s] = 0]
         /\ settled' = [settled EXCEPT ![s] = "nothing"]
         /\ hurt' = hurt \ {s}
    ELSE UNCHANGED <<diskVars, settled, hurt>>

\* The process dies in rmtree: some of the files are gone.
RemoveCut(i, s) ==
    /\ Idle(i)
    /\ s \in Listed
    /\ \E gone \in SUBSET {"meta", "talk", "panes"} :
        file' = [file EXCEPT ![s] =
                    [n \in DOMAIN @ |-> IF n \in gone THEN NoFile ELSE @[n]]]
    /\ settled' = [settled EXCEPT ![s] = "unsettled"]
    /\ hurt' = hurt \cup {s}
    /\ up' = [up EXCEPT ![i] = FALSE]
    /\ sid' = [sid EXCEPT ![i] = NoSid]
    /\ live' = [live EXCEPT ![i] = Blank]
    /\ replay' = [replay EXCEPT ![i] = {}]
    /\ view' = [view EXCEPT ![i] = Closed]
    /\ post' = [post EXCEPT ![i] = <<>>]
    /\ lone' = [j \in Instances |-> lone[j] /\ j \notin Savers(s)]
    /\ UNCHANGED <<dir, born, saving, countVars>>

\* load and restore_session; the session that is left is not saved.  Its panes
\* are killed, and those of the new one are started again by the interface only.
Restore(i, s) ==
    /\ Readable(s)
    /\ Enter(i, s, Restored(s), IF i \in Tui THEN {Stored(s).panes} \ {0} ELSE {})
    /\ UNCHANGED <<diskVars, countVars, lone, settled, hurt>>

Selected(i) == view[i].list[view[i].cursor + 1]
-----------------------------------------------------------------------------
(* SessionsModal of the interface *)

OpenList(i) ==
    /\ Free(i) /\ i \in Tui
    /\ Listed # {}
    /\ view' = [view EXCEPT ![i] = [open |-> TRUE, list |-> Listing, cursor |-> 0]]
    /\ UNCHANGED <<diskVars, procVars, saving, post, countVars, lone, settled, hurt>>

\* Up, down and the digits; down in an empty list puts the cursor before it.
MoveCursor(i) ==
    /\ Idle(i) /\ i \in Tui
    /\ view[i].open
    /\ LET n == Len(view[i].list)
           c == view[i].cursor
       IN \E next \in {IF c > 0 THEN c - 1 ELSE 0, IF c + 1 < n THEN c + 1 ELSE n - 1}
                      \cup 0..(n - 1) :
            view' = [view EXCEPT ![i].cursor = next]
    /\ UNCHANGED <<diskVars, procVars, saving, post, countVars, lone, settled, hurt>>

CloseList(i) ==
    /\ Idle(i)
    /\ view[i].open
    /\ view' = [view EXCEPT ![i] = Closed]
    /\ UNCHANGED <<diskVars, procVars, saving, post, countVars, lone, settled, hurt>>

\* d deletes at once, posts the message whose handler deletes again, and drops
\* the row.
DeleteKey(i) ==
    /\ Idle(i) /\ i \in Tui
    /\ view[i].open /\ view[i].list # <<>>
    /\ Erase(Selected(i))
    /\ post' = [post EXCEPT ![i] = Append(@, [kind |-> "deleted", s |-> Selected(i)])]
    /\ LET rest == RemoveAt(view[i].list, view[i].cursor + 1)
       IN view' = [view EXCEPT ![i].list = rest,
                               ![i].cursor = IF rest = <<>> \/ @ < Len(rest)
                                             THEN @ ELSE Len(rest) - 1]
    /\ UNCHANGED <<procVars, saving, countVars, lone>>

ResumeKey(i) ==
    /\ Idle(i) /\ i \in Tui
    /\ view[i].open /\ view[i].list # <<>>
    /\ post' = [post EXCEPT ![i] = Append(@, [kind |-> "resumed", s |-> Selected(i)])]
    /\ view' = [view EXCEPT ![i] = Closed]
    /\ UNCHANGED <<diskVars, procVars, saving, countVars, lone, settled, hurt>>

Taken(i) == post' = [post EXCEPT ![i] = Tail(@)]

\* on_sessions_modal_deleted
HandleDeleted(i) ==
    /\ Idle(i)
    /\ post[i] # <<>> /\ Head(post[i]).kind = "deleted"
    /\ Erase(Head(post[i]).s)
    /\ Taken(i)
    /\ UNCHANGED <<procVars, saving, view, countVars, lone>>

\* on_sessions_modal_resumed and its two like: FileNotFoundError is a line in
\* the chat; a file that does not parse, or what restore_session raises at any
\* point, ends the interface, unsaved.
HandleResumed(i) ==
    /\ Idle(i)
    /\ post[i] # <<>> /\ Head(post[i]).kind = "resumed"
    /\ LET s == Head(post[i]).s
       IN \/ Restore(i, s) /\ Taken(i) /\ UNCHANGED <<view, saving>>
          \/ /\ NotFound(s)
             /\ Taken(i)
             /\ UNCHANGED <<diskVars, procVars, saving, view, countVars, lone,
                            settled, hurt>>
          \/ /\ ~NotFound(s)
             /\ End(i)
             /\ UNCHANGED <<diskVars, countVars, settled, hurt>>
-----------------------------------------------------------------------------
(* The prompt: /sessions delete, /sessions pick, /resume *)

PromptDelete(i, s) ==
    /\ Idle(i) /\ i \notin Tui
    /\ s \in Listed
    /\ Erase(s)
    /\ UNCHANGED <<procVars, saving, screenVars, countVars, lone>>

\* What load or restore_session raises ends the loop, which checkpoints on its
\* way out; /resume catches FileNotFoundError, a number picked from a list does
\* not.  By then the messages and engagements may be those of s while the
\* directory is still the old one, which they are saved to.  (Where the new
\* directory was entered too, this is Restore, and then Save.)
PromptResume(i, s) ==
    /\ Idle(i) /\ i \notin Tui
    /\ \/ Restore(i, s) /\ UNCHANGED saving
       \/ /\ SaveStarts(i)
          /\ \/ UNCHANGED live
             \/ Readable(s) /\ live' = [live EXCEPT ![i] = Restored(s)]
       \/ /\ ~dir[sid[i]]
          /\ End(i)
          /\ UNCHANGED <<diskVars, countVars, settled, hurt>>
    /\ UNCHANGED screenVars

Next ==
    \/ \E i \in Instances :
        \/ Start(i) \/ Work(i) \/ Replay(i) \/ Crash(i)
        \/ Save(i) \/ Truncate(i) \/ WriteOut(i) \/ SaveEnds(i)
        \/ SaveAborts(i) \/ WriteFails(i)
        \/ OpenList(i) \/ MoveCursor(i) \/ CloseList(i)
        \/ DeleteKey(i) \/ ResumeKey(i) \/ HandleDeleted(i) \/ HandleResumed(i)
    \/ \E i \in Instances, s \in Sids :
        \/ StartResumed(i, s) \/ RemoveCut(i, s)
        \/ PromptDelete(i, s) \/ PromptResume(i, s)

Spec == Init /\ [][Next]_vars
-----------------------------------------------------------------------------
(* Properties *)

\* The refinement mapping: a session whose last save met nothing holds what
\* load makes of its files.
AbstractSaved ==
    [s \in Sids |-> [st |-> settled[s],
                     c |-> IF settled[s] = "settled" THEN Stored(s) ELSE Blank]]
AbstractHeld ==
    [i \in Instances |-> [s |-> sid[i], c |-> live[i], offer |-> replay[i]]]
Promise == INSTANCE SavedSessions WITH saved <- AbstractSaved, held <- AbstractHeld

\* Files implement saved sessions: the engagements and messages that were saved
\* completely, by one process at a time, are what every later resume brings
\* back, whatever other processes save, delete or leave half done elsewhere, and
\* nothing but a save, a deletion or a death changes what is stored.  Panes are
\* not brought back: a resume begins with none, the dialog of the interface is
\* given the saved ones to start again, and whoever saves before it has done so,
\* or without (the prompt, --resume), stores a session without them.
KeepsPromise == Promise!Spec

\* A session whose files do not parse was being saved, or deleted, when a
\* process died or a write raised, or is being saved by two: no order of list,
\* delete, restore and save brings it about, and the next undisturbed save
\* repairs it.
DamageHasACause ==
    \A s \in Sids : Damaged(s) => s \in hurt \/ Savers(s) # {}

\* The row that r and d act on exists, after any number of deletions.
SelectionIsARow ==
    \A i \in Instances :
        view[i].open /\ view[i].list # <<>> => view[i].cursor + 1 \in DOMAIN view[i].list

\* Directory and screen at every instant, in whatever order processes save,
\* list, delete, restore and die.
SessionsInv == TypeOK /\ DamageHasACause /\ SelectionIsARow
=============================================================================
