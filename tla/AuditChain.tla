------------------------------ MODULE AuditChain ------------------------------
(***************************************************************************)
(* The hash-chained audit log of the sessions of one process              *)
(* (src/halgate/audit/logger.py): appending, the forensic payload kept     *)
(* beside an entry, rotation through two older generations, opening the    *)
(* log of a session again when it is restored, and verify_chain.           *)
(*                                                                         *)
(* A call in flight keeps the logger it was started with, so loggers that  *)
(* were replaced by a restore still write.  The hash of an entry is        *)
(* modelled by a number of its own: hashes of distinct entries differ.     *)
(***************************************************************************)
EXTENDS Naturals, Sequences, SequencesExt

CONSTANTS
    Sessions,    \* ids of saved sessions
    First,       \* the session the process starts with
    MaxEntries,  \* bound: attempts to write an entry
    MaxLoggers   \* bound: loggers made in the life of the process

ASSUME AuditAssumption ==
    /\ First \in Sessions
    /\ MaxEntries \in Nat
    /\ MaxLoggers \in Nat \ {0}

VARIABLES
    files,    \* per session the three generations, each a sequence of lines
    vault,    \* per session the forensic payloads: entry sequence number -> hash
    loggers,  \* every AuditLogger made, oldest first
    session,  \* the session id of the harness
    clock,    \* hashes used so far
    stranded, \* the last restore_session raised before it made a logger
    faults    \* history: what happened to the log of a session

vars == <<files, vault, loggers, session, clock, stranded, faults>>

ZeroHash == 0
Live == Len(loggers)
Absent == <<>>
Lines(f) == f.g2 \o f.g1 \o f.base
-----------------------------------------------------------------------------
(* One entry *)

Entry(l, id, raw) ==
    [kind |-> "entry", seq |-> l.seq + 1, prev |-> l.prev, hash |-> id, ref |-> raw]

\* What is left of a line when the disk fills up while it is written, and the
\* same line after the next entry was appended to it.
Torn == [kind |-> "torn", seq |-> 0, prev |-> ZeroHash, hash |-> ZeroHash, ref |-> FALSE]
Spoiled == [Torn EXCEPT !.kind = "spoiled"]

Appended(base, e) ==
    IF base # Absent /\ Last(base).kind = "torn" THEN Front(base) \o <<Spoiled>>
                                                ELSE Append(base, e)

\* _rotate_if_needed, when the base file has reached its limit.
Rotated_OverG1(f) == [g2 |-> f.g2, g1 |-> f.base, base |-> Absent]
Rotated(f) == [g2 |-> IF f.g1 # Absent THEN f.g1 ELSE Absent,
               g1 |-> f.base, base |-> Absent]

Written(f, e, full) ==
    LET g == [f EXCEPT !.base = Appended(f.base, e)] IN IF full THEN Rotated(g) ELSE g

\* The logger after it wrote the entry e.
Advanced(l, e) == [l EXCEPT !.seq = e.seq, !.prev = e.hash]

\* The number that names the payload of the next entry.
PayloadKey(l) == l.seq + 1

Kept_Once(v, l, id, raw) ==
    IF raw /\ PayloadKey(l) \notin DOMAIN v
    THEN [k \in DOMAIN v \cup {PayloadKey(l)} |-> IF k = PayloadKey(l) THEN id ELSE v[k]]
    ELSE v

\* _encrypt_forensic_payload: the file of that sequence number is overwritten.
Kept(v, l, id, raw) ==
    IF raw THEN [k \in DOMAIN v \cup {PayloadKey(l)} |->
                    IF k = PayloadKey(l) THEN id ELSE v[k]]
           ELSE v

Newest(i) == \A j \in i + 1..Live : loggers[j].session # loggers[i].session

\* A logger that is no longer the newest one of its session forks the chain.
ForkBy(i) == IF Newest(i) THEN {} ELSE {"fork"}
-----------------------------------------------------------------------------
(* Logging *)

\* Any event, by the live logger or by one a call in flight still holds.  A
\* payload that cannot be encrypted raises before anything is changed.
Log(i, raw, full) ==
    LET l == loggers[i]
        e == Entry(l, clock + 1, raw)
    IN /\ clock < MaxEntries
       /\ files' = [files EXCEPT ![l.session] = Written(@, e, full)]
       /\ vault' = [vault EXCEPT ![l.session] = Kept(@, l, e.hash, raw)]
       /\ loggers' = [loggers EXCEPT ![i] = Advanced(l, e)]
       /\ clock' = clock + 1
       /\ faults' = [faults EXCEPT ![l.session] = @ \cup ForkBy(i)]
       /\ UNCHANGED <<session, stranded>>

LogFails_Counts(i, raw, partly) ==
    LET l == loggers[i] IN
    /\ clock < MaxEntries
    /\ vault' = [vault EXCEPT ![l.session] = Kept(@, l, clock + 1, raw)]
    /\ loggers' = [loggers EXCEPT ![i].seq = @ + 1]
    /\ clock' = clock + 1
    /\ UNCHANGED <<files, session, stranded, faults>>

\* The payload is on disk but the line is not, or only a part of it: the
\* sequence number is used again.
LogFails(i, raw, partly) ==
    LET l == loggers[i] IN
    /\ clock < MaxEntries
    /\ vault' = [vault EXCEPT ![l.session] = Kept(@, l, clock + 1, raw)]
    /\ files' = [files EXCEPT ![l.session].base = IF partly THEN Appended(@, Torn) ELSE @]
    /\ faults' = [faults EXCEPT ![l.session] =
                    @ \cup ForkBy(i) \cup (IF partly THEN {"torn"} ELSE {})]
    /\ clock' = clock + 1
    /\ UNCHANGED <<loggers, session, stranded>>
-----------------------------------------------------------------------------
(* Opening the log of a session *)

\* The generations last_entry finds: it asks for <session>.jsonl.1, which
\* rotation, writing <session>.1, never makes.
Found(f) == f.g2 \o f.base

Readable(f) == f.base = Absent \/ \A k \in DOMAIN Found(f) : Found(f)[k].kind = "entry"

Opened(s, f) ==
    IF f.base = Absent
    THEN [session |-> s, seq |-> 0, prev |-> ZeroHash]
    ELSE [session |-> s, seq |-> Last(Found(f)).seq, prev |-> Last(Found(f)).hash]

Rebased(f) == f.base = Absent /\ Lines(f) # <<>>

\* restore_session begins: the live logger ends its session if the target is
\* another one.  (A write of session_end that fails is a LogFails.)
FilesEnded(s, full) ==
    LET l == loggers[Live] IN
    IF l.session = s THEN files
    ELSE [files EXCEPT ![l.session] = Written(@, Entry(l, clock + 1, FALSE), full)]

LoggersEnded(s) ==
    LET l == loggers[Live] IN
    IF l.session = s THEN loggers
    ELSE [loggers EXCEPT ![Live] = Advanced(l, Entry(l, clock + 1, FALSE))]

\* Entries of a log opened between a rotation and its next line start anew.
OpeningFault(s) == IF Rebased(files[s]) THEN {"rebase"} ELSE {}

SwitchTo(s) ==
    /\ clock + 1 < MaxEntries
    /\ Live < MaxLoggers
    /\ session' = s
    /\ clock' = clock + 2
    /\ UNCHANGED vault

\* A logger is made for the target and writes session_start.
Restore(s, fullEnd, fullStart) ==
    LET new == Opened(s, files[s])
        start == Entry(new, clock + 2, FALSE)
    IN /\ SwitchTo(s)
       /\ Readable(files[s])
       /\ files' = [FilesEnded(s, fullEnd) EXCEPT ![s] = Written(@, start, fullStart)]
       /\ loggers' = Append(LoggersEnded(s), Advanced(new, start))
       /\ faults' = [faults EXCEPT ![s] = @ \cup OpeningFault(s)]
       /\ stranded' = FALSE

\* The session id is already that of the target when the budgets, the evidence
\* store, the checkpoint directory or a scratch directory cannot be made, or
\* the log of the target cannot be read: no logger is made.
RestoreRaises(s, fullEnd) ==
    /\ SwitchTo(s)
    /\ files' = FilesEnded(s, fullEnd)
    /\ loggers' = LoggersEnded(s)
    /\ stranded' = TRUE
    /\ UNCHANGED faults

\* The new logger is in place when its first line cannot be written.
RestoreUnannounced(s, fullEnd, partly) ==
    /\ SwitchTo(s)
    /\ Readable(files[s])
    /\ files' = [FilesEnded(s, fullEnd) EXCEPT
                    ![s].base = IF partly THEN Appended(@, Torn) ELSE @]
    /\ loggers' = Append(LoggersEnded(s), Opened(s, files[s]))
    /\ faults' = [faults EXCEPT ![s] =
                    @ \cup OpeningFault(s) \cup (IF partly THEN {"torn"} ELSE {})]
    /\ stranded' = FALSE
-----------------------------------------------------------------------------
Init ==
    /\ files = [s \in Sessions |-> [g2 |-> Absent, g1 |-> Absent, base |-> Absent]]
    /\ vault = [s \in Sessions |-> <<>>]
    /\ loggers = <<[session |-> First, seq |-> 0, prev |-> ZeroHash]>>
    /\ session = First
    /\ clock = 0
    /\ stranded = FALSE
    /\ faults = [s \in Sessions |-> {}]

LogNext ==
    \E i \in 1..Live, raw, full \in BOOLEAN : Log(i, raw, full)

FailNext ==
    \E i \in 1..Live, raw, partly \in BOOLEAN : LogFails(i, raw, partly)

RestoreNext ==
    \E s \in Sessions, fullEnd, flag \in BOOLEAN :
        \/ Restore(s, fullEnd, flag)
        \/ RestoreRaises(s, fullEnd)
        \/ RestoreUnannounced(s, fullEnd, flag)

Next == LogNext \/ FailNext \/ RestoreNext

Spec == Init /\ [][Next]_vars
-----------------------------------------------------------------------------
(* Verification *)

\* verify_chain over the surviving generations, oldest first.
Intact(lines) ==
    /\ \A k \in DOMAIN lines : lines[k].kind = "entry"
    /\ lines # <<>> => (lines[1].seq = 1 => lines[1].prev = ZeroHash)
    /\ \A k \in 2..Len(lines) :
        /\ lines[k].seq = lines[k - 1].seq + 1
        /\ lines[k].prev = lines[k - 1].hash

Verified(s) == Intact(Lines(files[s]))
-----------------------------------------------------------------------------
(* Properties *)

\* The type invariant; every hash handed out belongs to an earlier attempt.
TypeOK ==
    /\ session \in Sessions
    /\ stranded \in BOOLEAN
    /\ clock \in 0..MaxEntries
    /\ Live \in 1..MaxLoggers
    /\ \A i \in 1..Live :
        /\ loggers[i].session \in Sessions
        /\ loggers[i].seq \in 0..MaxEntries
        /\ loggers[i].prev \in 0..clock
    /\ \A s \in Sessions :
        /\ faults[s] \subseteq {"fork", "rebase", "torn"}
        /\ \A k \in DOMAIN vault[s] : k \in 1..MaxEntries /\ vault[s][k] \in 1..clock
        /\ \A k \in DOMAIN Lines(files[s]) : Lines(files[s])[k].hash \in 0..clock

\* The surviving generations of a log verify as one chain through every
\* rotation, failed write and restore, except after the three events faults
\* names: there is no fourth way to break it.
ChainVerifies == \A s \in Sessions : faults[s] = {} => Verified(s)

\* Of a log only the oldest generation is ever lost, and only lines at its end
\* are added, whatever the other loggers of the process do; a torn last line
\* may be spoiled.
Settled(lines) ==
    IF lines # <<>> /\ Last(lines).kind = "torn" THEN Front(lines) ELSE lines

OnlyOldestIsLost ==
    [][\A s \in Sessions : \E lost \in {0, Len(files[s].g2)} :
          LET before == Settled(Lines(files[s]))
          IN IsPrefix(SubSeq(before, lost + 1, Len(before)), Lines(files[s])')]_files

\* The payload stored under the number of a surviving entry is the one that
\* entry refers to, so it decrypts, unless the numbers were used twice.
PayloadMatchesEntry ==
    \A s \in Sessions : faults[s] \cap {"fork", "rebase"} = {} =>
        \A k \in DOMAIN Lines(files[s]) :
            LET e == Lines(files[s])[k] IN
            e.ref => e.seq \in DOMAIN vault[s] /\ vault[s][e.seq] = e.hash

\* The live logger writes to the log of the live session.  halgate.py:461 says
\* that restore_session switches "atomically"; when it raises between the
\* session id and the logger, the live session is written into the log of the
\* one before, until a later restore succeeds.
LoggerFollowsSession == loggers[Live].session = session \/ stranded

\* What holds of a log at every instant, whatever failed or was rotated,
\* restored or written by an old logger: types, the place of the live logger,
\* and the payload of every surviving entry.
AuditInv == TypeOK /\ LoggerFollowsSession /\ PayloadMatchesEntry
=============================================================================
