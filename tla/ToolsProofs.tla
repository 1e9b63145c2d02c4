------------------------------ MODULE ToolsProofs ------------------------------
(***************************************************************************)
(* Theorems about the tools whose effects outlive the call.                *)
(*                                                                         *)
(* Process panes, for every number of panes, every limit and any restores: *)
(* an exit code means a dead process, panic and session switches leave no  *)
(* process unsignalled but one that was just being created, and spawns     *)
(* that do not overlap keep the limit.                                     *)
(*                                                                         *)
(* Callback listeners, for every number of listeners, callbacks and reads  *)
(* and every limit: captures stay bounded, a read that reports the end of  *)
(* a listener has the last word, and a listener keeps what it has          *)
(* answered.  The bounds are inductive together with the facts of          *)
(* Unprovisioned: a listener starts to listen with no record and no        *)
(* callback of an earlier life under way.                                  *)
(*                                                                         *)
(* Named web sessions, for every set of engagements, session names,        *)
(* origins, calls, requests and cookies: a token goes to one origin only,  *)
(* cookies go back where they came from, and none that has expired or was  *)
(* withdrawn is sent.                                                      *)
(***************************************************************************)
EXTENDS Panes, Callback, WebSessions, FiniteSetTheorems, SequenceTheorems, TLAPS

(* Process panes *)

\* No pane belongs to a manager to come.
OwnersExist == \A p \in Panes : owner[p] <= mgr

\* Told to end, or known to have been in the making when everything was.
Accounted(p) == proc[p] \in {"starting", "running"} /\ sig[p] = "none" => p \in racing

KilledOrRacing ==
    /\ stopped /\ mgr = SafetyManager => \A p \in Panes : Accounted(p)
    /\ \A p \in Panes : owner[p] # mgr => Accounted(p)

PanesInv == TypeOK /\ ExitedIsDead /\ OwnersExist /\ KilledOrRacing
-----------------------------------------------------------------------------
\* The invariant of the panes holds at the start.
LEMMA InitPanes == Init => PanesInv
<1> SUFFICES ASSUME Init PROVE PanesInv
  OBVIOUS
<1>1. 0 \in Managers
  BY PanesAssumption DEF Managers
<1>2. TypeOK
  BY <1>1 DEF Init, TypeOK
<1>3. ExitedIsDead /\ OwnersExist /\ KilledOrRacing
  BY DEF Init, ExitedIsDead, OwnersExist, KilledOrRacing, Accounted
<1> QED
  BY <1>2, <1>3 DEF PanesInv

\* What kill_all does to a pane of the manager, and that it spares the others.
LEMMA KillAllEffect ==
    ASSUME PanesInv, NEW g \in Managers, KillAll(g)
    PROVE  /\ sig' \in [Panes -> {"none", "term", "kill"}] /\ code' \in [Panes -> BOOLEAN]
           /\ \A p \in Panes :
                /\ code'[p] # code[p] => proc[p] = "dead"
                /\ code[p] => code'[p]
                /\ sig[p] # "none" => sig'[p] # "none"
                /\ sig'[p] # sig[p] => Registered(p)
                /\ owner[p] = g /\ proc[p] = "running" => sig'[p] # "none"
<1>1. PICK gone \in SUBSET {p \in Active(g) : proc[p] = "dead"} :
          code' = [p \in Panes |-> code[p] \/ p \in gone]
  BY DEF KillAll
<1>2. code' \in [Panes -> BOOLEAN]
  BY <1>1
<1>3. \A p \in Panes : code'[p] # code[p] => proc[p] = "dead"
  BY <1>1 DEF PanesInv, TypeOK
<1>4. \A p \in Panes : code[p] => code'[p]
  BY <1>1
<1>5. \A p \in Panes : sig'[p] = IF p \in Active(g) /\ proc[p] = "running" /\ sig[p] = "none"
                                 THEN "term" ELSE sig[p]
  BY DEF KillAll
<1>6. sig' \in [Panes -> {"none", "term", "kill"}]
  BY DEF KillAll, PanesInv, TypeOK
<1>7. ASSUME NEW p \in Panes, owner[p] = g, proc[p] = "running"
      PROVE  sig'[p] # "none"
  <2>1. p \in Active(g)
    BY <1>7 DEF Active, Listed, Registered, PanesInv, ExitedIsDead
  <2> QED
    BY <1>5, <1>7, <2>1
<1>8. \A p \in Panes : sig'[p] # sig[p] => Registered(p)
  BY <1>5 DEF Registered
<1> QED
  BY <1>2, <1>3, <1>4, <1>5, <1>6, <1>7, <1>8

\* One pane moves on: a spawn, its creation or failure, the process, the reader
\* and the three steps of kill().
LEMMA PaneStepKeeps ==
    ASSUME PanesInv, NEW p \in Panes, PaneStep(p)
    PROVE  PanesInv'
<1> USE DEF PanesInv
<1> DEFINE Kept == /\ ExitedIsDead' /\ OwnersExist' /\ KilledOrRacing'
<1>1. CASE Spawn(p)
  <2>1. TypeOK'
    BY <1>1 DEF Spawn, TypeOK, Registered
  <2>2. OwnersExist'
    BY <1>1 DEF Spawn, TypeOK, OwnersExist, Managers
  <2>3. ExitedIsDead' /\ KilledOrRacing'
    BY <1>1 DEF Spawn, TypeOK, ExitedIsDead, KilledOrRacing, Accounted
  <2> QED
    BY <2>1, <2>2, <2>3
<1>2. CASE Created(p)
  <2>1. TypeOK'
    BY <1>2 DEF Created, TypeOK, Registered
  <2>2. Kept
    BY <1>2 DEF Created, TypeOK, ExitedIsDead, OwnersExist, KilledOrRacing, Accounted
  <2> QED
    BY <2>1, <2>2
<1>3. CASE SpawnFails(p)
  <2>1. TypeOK'
    BY <1>3 DEF SpawnFails, TypeOK, Registered
  <2>2. Kept
    BY <1>3 DEF SpawnFails, TypeOK, ExitedIsDead, OwnersExist, KilledOrRacing, Accounted
  <2> QED
    BY <2>1, <2>2
<1>4. CASE Exit(p)
  <2>1. TypeOK'
    BY <1>4 DEF Exit, TypeOK, Registered
  <2>2. Kept
    BY <1>4 DEF Exit, TypeOK, ExitedIsDead, OwnersExist, KilledOrRacing, Accounted
  <2> QED
    BY <2>1, <2>2
<1>5. CASE Reap(p)
  <2>1. TypeOK'
    BY <1>5 DEF Reap, TypeOK, Registered
  <2>2. Kept
    BY <1>5 DEF Reap, TypeOK, ExitedIsDead, OwnersExist, KilledOrRacing, Accounted
  <2> QED
    BY <2>1, <2>2
<1>6. CASE Kill(p)
  <2>1. TypeOK'
    BY <1>6 DEF Kill, TypeOK, Listed, Registered
  <2>2. Kept
    BY <1>6 DEF Kill, TypeOK, ExitedIsDead, OwnersExist, KilledOrRacing, Accounted
  <2> QED
    BY <2>1, <2>2
<1>7. CASE KillTimeout(p)
  <2>1. TypeOK'
    BY <1>7 DEF KillTimeout, TypeOK, Registered
  <2>2. Kept
    BY <1>7 DEF KillTimeout, TypeOK, ExitedIsDead, OwnersExist, KilledOrRacing, Accounted
  <2> QED
    BY <2>1, <2>2
<1>8. CASE KillReturns(p)
  <2>1. TypeOK'
    BY <1>8 DEF KillReturns, TypeOK, Registered
  <2>2. Kept
    BY <1>8 DEF KillReturns, TypeOK, ExitedIsDead, OwnersExist, KilledOrRacing, Accounted
  <2> QED
    BY <2>1, <2>2
<1>9. CASE KillCancelled(p)
  <2>1. TypeOK'
    BY <1>9 DEF KillCancelled, TypeOK, Registered
  <2>2. Kept
    BY <1>9 DEF KillCancelled, TypeOK, ExitedIsDead, OwnersExist, KilledOrRacing, Accounted
  <2> QED
    BY <2>1, <2>2
<1> QED
  BY <1>1, <1>2, <1>3, <1>4, <1>5, <1>6, <1>7, <1>8, <1>9 DEF PaneStep

\* Everything is stopped: nothing of the manager is left that was not told.
LEMMA PanicKeeps == PanesInv /\ Panic => PanesInv'
<1> SUFFICES ASSUME PanesInv, Panic PROVE PanesInv'
  OBVIOUS
<1> USE DEF PanesInv
<1>0. KillAll(SafetyManager) /\ SafetyManager \in Managers
  BY PanesAssumption DEF Panic, SafetyManager, Managers
<1>1. /\ sig' \in [Panes -> {"none", "term", "kill"}] /\ code' \in [Panes -> BOOLEAN]
      /\ \A p \in Panes :
            /\ code'[p] # code[p] => proc[p] = "dead"
            /\ code[p] => code'[p]
            /\ sig[p] # "none" => sig'[p] # "none"
            /\ sig'[p] # sig[p] => Registered(p)
            /\ owner[p] = SafetyManager /\ proc[p] = "running" => sig'[p] # "none"
  BY <1>0, KillAllEffect
<1>2. TypeOK'
  BY <1>1 DEF Panic, TypeOK, Registered, Starting
<1>3. ExitedIsDead' /\ OwnersExist'
  BY <1>1 DEF Panic, TypeOK, ExitedIsDead, OwnersExist
<1>4. ASSUME NEW p \in Panes, Accounted(p) PROVE Accounted(p)'
  BY <1>1, <1>4 DEF Panic, Accounted
<1>5. ASSUME NEW p \in Panes, mgr = SafetyManager PROVE Accounted(p)'
  <2>1. owner[p] = SafetyManager
    BY <1>5 DEF OwnersExist, TypeOK, Managers, SafetyManager
  <2> QED
    BY <1>1, <2>1 DEF Panic, Accounted, Starting
<1>6. KilledOrRacing'
  BY <1>4, <1>5 DEF Panic, KilledOrRacing, SafetyManager
<1> QED
  BY <1>2, <1>3, <1>6

\* A session is left: its panes were told before its manager is forgotten.
LEMMA RestoreKeeps == PanesInv /\ Restore => PanesInv'
<1> SUFFICES ASSUME PanesInv, Restore PROVE PanesInv'
  OBVIOUS
<1> USE DEF PanesInv
<1>0. KillAll(mgr) /\ mgr \in Managers
  BY DEF Restore, TypeOK
<1>1. /\ sig' \in [Panes -> {"none", "term", "kill"}] /\ code' \in [Panes -> BOOLEAN]
      /\ \A p \in Panes :
            /\ code'[p] # code[p] => proc[p] = "dead"
            /\ code[p] => code'[p]
            /\ sig[p] # "none" => sig'[p] # "none"
            /\ sig'[p] # sig[p] => Registered(p)
            /\ owner[p] = mgr /\ proc[p] = "running" => sig'[p] # "none"
  BY <1>0, KillAllEffect
<1>2. mgr' \in Managers /\ mgr' = mgr + 1 /\ mgr \in Nat
  BY <1>0, PanesAssumption DEF Restore, Managers
<1>3. TypeOK'
  BY <1>1, <1>2 DEF Restore, TypeOK, Registered, Starting
<1>4. ExitedIsDead'
  BY <1>1 DEF Restore, TypeOK, ExitedIsDead
<1>5. OwnersExist'
  BY <1>2 DEF Restore, TypeOK, OwnersExist, Managers
<1>6. ASSUME NEW p \in Panes PROVE Accounted(p)'
  <2>1. CASE owner[p] = mgr
    BY <1>1, <2>1 DEF Restore, Accounted, Starting
  <2>2. CASE owner[p] # mgr
    <3>1. Accounted(p)
      BY <2>2 DEF KilledOrRacing
    <3> QED
      BY <1>1, <3>1 DEF Restore, Accounted
  <2> QED
    BY <2>1, <2>2
<1>7. KilledOrRacing'
  BY <1>6 DEF KilledOrRacing
<1> QED
  BY <1>3, <1>4, <1>5, <1>7

\* Every step of a resume keeps the invariant of the panes.
LEMMA ResumeKeeps == PanesInv /\ ResumeActions => PanesInv'
BY DEF PanesInv, ResumeActions, TypeOK, ExitedIsDead, OwnersExist, KilledOrRacing,
   Accounted, Registered

\* A stutter keeps it.
LEMMA IdleKeeps == PanesInv /\ UNCHANGED vars => PanesInv'
BY DEF PanesInv, vars, TypeOK, ExitedIsDead, OwnersExist, KilledOrRacing, Accounted,
   Registered

\* Every step keeps it.
LEMMA NextKeeps == PanesInv /\ [Next]_vars => PanesInv'
BY PaneStepKeeps, PanicKeeps, RestoreKeeps, ResumeKeeps, IdleKeeps DEF Next

\* The invariant of the panes holds at every instant.
LEMMA PanesInvariant == Spec => []PanesInv
BY InitPanes, NextKeeps, PTL DEF Spec
-----------------------------------------------------------------------------
\* Every variable has its type, and no process is signalled, waited for or given
\* an exit code before it is in a table (process.py:60-66).
THEOREM PanesTypeCorrect == Spec => []TypeOK
<1>1. PanesInv => TypeOK
  BY DEF PanesInv
<1> QED
  BY PanesInvariant, <1>1, PTL

\* Reader, kill and kill_all give exit codes to dead processes only.
THEOREM ExitCodeMeansDead == Spec => []ExitedIsDead
<1>1. PanesInv => ExitedIsDead
  BY DEF PanesInv
<1> QED
  BY PanesInvariant, <1>1, PTL

\* Neither panic (safety.py:37-64) nor restore_session, over any number of
\* restores (halgate.py:481-500), leaves a running pane untold, but for
\* processes that were being created.
THEOREM NothingLeft == Spec => []NothingLeftRunning
<1>1. PanesInv => NothingLeftRunning
  BY DEF PanesInv, KilledOrRacing, Accounted, NothingLeftRunning
<1> QED
  BY PanesInvariant, <1>1, PTL
-----------------------------------------------------------------------------
\* What will count against the limit: also the process being created.
Counted == {p \in Panes : /\ owner[p] = mgr
                          /\ proc[p] = "starting" \/ (Registered(p) /\ ~code[p])}

LimitInv == ~overlap => Cardinality(Counted) <= MaxPanes

\* The panes that count against the limit are finitely many.
LEMMA CountedFinite == IsFiniteSet(Counted) /\ Cardinality(Counted) \in Nat
BY PanesAssumption, FS_Subset, FS_CardinalityType DEF Counted

\* Fewer are counted, so the limit is kept.
LEMMA FewerCounted ==
    ASSUME LimitInv, Counted' \subseteq Counted, overlap' = overlap
    PROVE  LimitInv'
<1>1. Cardinality(Counted') <= Cardinality(Counted) /\ Cardinality(Counted') \in Nat
  BY CountedFinite, FS_Subset, FS_CardinalityType
<1> QED
  BY <1>1, CountedFinite, PanesAssumption DEF LimitInv

\* A spawn that begins while no other is under way counts one more than active_count().
LEMMA SpawnKeepsLimit ==
    ASSUME PanesInv, LimitInv, NEW p \in Panes, Spawn(p)
    PROVE  LimitInv'
<1> SUFFICES ASSUME ~overlap' PROVE Cardinality(Counted') <= MaxPanes
  BY DEF LimitInv
<1>1. ~overlap
  BY DEF Spawn, PanesInv, TypeOK
<1>2. CASE proc'[p] = "starting"
  <2>1. Starting = {}
    BY <1>2 DEF Spawn, PanesInv, TypeOK
  <2>2. Counted = Active(mgr)
    BY <2>1 DEF Counted, Active, Listed, Starting
  <2>3. ~(Cardinality(Counted) >= MaxPanes)
    BY <1>2, <2>2 DEF Spawn, PanesInv, TypeOK
  <2>4. p \notin Counted /\ Counted' = Counted \cup {p}
    BY <1>2 DEF Spawn, PanesInv, TypeOK, Counted, Registered
  <2>5. Cardinality(Counted') = Cardinality(Counted) + 1
    BY <2>4, CountedFinite, FS_AddElement
  <2> QED
    BY <2>3, <2>5, CountedFinite, PanesAssumption
<1>3. CASE proc'[p] # "starting"
  <2>1. Counted' \subseteq Counted
    BY <1>3 DEF Spawn, PanesInv, TypeOK, Counted, Registered
  <2>2. Cardinality(Counted') <= Cardinality(Counted) /\ Cardinality(Counted') \in Nat
    BY <2>1, CountedFinite, FS_Subset, FS_CardinalityType
  <2> QED
    BY <1>1, <2>2, CountedFinite, PanesAssumption DEF LimitInv
<1> QED
  BY <1>2, <1>3

\* No other step of a pane adds to what is counted.
LEMMA PaneStepKeepsLimit ==
    ASSUME PanesInv, LimitInv, NEW p \in Panes, PaneStep(p)
    PROVE  LimitInv'
<1>1. CASE Spawn(p)
  BY <1>1, SpawnKeepsLimit
<1>2. CASE Created(p) \/ SpawnFails(p) \/ Exit(p)
  <2>1. Counted' \subseteq Counted /\ overlap' = overlap
    BY <1>2 DEF Created, SpawnFails, Exit, Counted, Registered, PanesInv, TypeOK, ExitedIsDead
  <2> QED
    BY <2>1, FewerCounted
<1>3. CASE Reap(p) \/ Kill(p) \/ KillTimeout(p) \/ KillCancelled(p) \/ KillReturns(p)
  <2>1. Counted' \subseteq Counted /\ overlap' = overlap
    BY <1>3 DEF Reap, Kill, KillTimeout, KillCancelled, KillReturns, Counted, Registered,
                PanesInv, TypeOK
  <2> QED
    BY <2>1, FewerCounted
<1> QED
  BY <1>1, <1>2, <1>3 DEF PaneStep

\* A panic keeps the panes within the limit.
LEMMA PanicKeepsLimit == PanesInv /\ LimitInv /\ Panic => LimitInv'
<1> SUFFICES ASSUME PanesInv, LimitInv, Panic PROVE LimitInv'
  OBVIOUS
<1>1. KillAll(SafetyManager) /\ SafetyManager \in Managers
  BY PanesAssumption DEF Panic, SafetyManager, Managers
<1>2. \A p \in Panes : code[p] => code'[p]
  BY <1>1, KillAllEffect
<1>3. Counted' \subseteq Counted /\ overlap' = overlap
  BY <1>2 DEF Panic, Counted, Registered
<1> QED
  BY <1>3, FewerCounted

\* The new manager has no pane yet.
LEMMA RestoreKeepsLimit == PanesInv /\ LimitInv /\ Restore => LimitInv'
<1> SUFFICES ASSUME PanesInv, LimitInv, Restore PROVE LimitInv'
  OBVIOUS
<1>1. \A p \in Panes : owner'[p] # mgr'
  BY PanesAssumption DEF Restore, PanesInv, TypeOK, OwnersExist, Managers
<1>2. Counted' \subseteq Counted /\ overlap' = overlap
  BY <1>1 DEF Restore, Counted
<1> QED
  BY <1>2, FewerCounted

\* Every step keeps the panes within the limit.
LEMMA NextKeepsLimit == PanesInv /\ LimitInv /\ [Next]_vars => LimitInv'
<1> SUFFICES ASSUME PanesInv, LimitInv, [Next]_vars PROVE LimitInv'
  OBVIOUS
<1>1. CASE ResumeActions \/ UNCHANGED vars
  <2>1. Counted' \subseteq Counted /\ overlap' = overlap
    BY <1>1 DEF ResumeActions, vars, Counted, Registered
  <2> QED
    BY <2>1, FewerCounted
<1> QED
  BY <1>1, PaneStepKeepsLimit, PanicKeepsLimit, RestoreKeepsLimit DEF Next

\* The panes are within the limit at the start.
LEMMA InitLimit == Init => LimitInv
<1> SUFFICES ASSUME Init PROVE LimitInv
  OBVIOUS
<1>1. Counted = {}
  BY DEF Init, Counted, Registered
<1> QED
  BY <1>1, FS_EmptySet, PanesAssumption DEF LimitInv

\* Spawns that do not overlap keep process.max_panes (tools/panes.py:90-117), for
\* every limit and however their panes are signalled, reaped, killed or left.
THEOREM LimitKept == Spec => []LimitWithoutOverlap
<1>1. PanesInv /\ LimitInv => LimitWithoutOverlap
  <2> SUFFICES ASSUME LimitInv PROVE LimitWithoutOverlap
    OBVIOUS
  <2>1. {p \in Listed(mgr) : ~code[p]} \subseteq Counted
    BY DEF Listed, Counted
  <2>2. /\ Cardinality({p \in Listed(mgr) : ~code[p]}) <= Cardinality(Counted)
        /\ Cardinality({p \in Listed(mgr) : ~code[p]}) \in Nat
    BY <2>1, CountedFinite, FS_Subset, FS_CardinalityType
  <2> QED
    BY <2>2, CountedFinite, PanesAssumption DEF LimitInv, LimitWithoutOverlap
<1> QED
  BY PanesInvariant, InitLimit, NextKeepsLimit, <1>1, PTL DEF Spec
-----------------------------------------------------------------------------
(* Callback listeners *)

Statuses == {"none", "listening"} \cup Ended

PeerType ==
    {NoPeer}
    \cup [at : {"reading"}, to : Listeners]
    \cup [at : {"closing", "gone"}, to : Listeners, record : Record \cup {NoRecord}]

ReadType ==
    {NoRead}
    \cup [at : {"waiting"}, of : Listeners, close : BOOLEAN, late : BOOLEAN, need : Nat]
    \cup [at : {"done"}, of : Listeners, captured : Seq(Record), status : Statuses]
    \cup [at : {"cancelled"}, of : Listeners]

Types ==
    /\ asked \in [Listeners -> Proposal]
    /\ status \in [Listeners -> Statuses]
    /\ up = [l \in Listeners |-> status[l] = "listening"]
    /\ timer = up
    /\ captured \in [Listeners -> Seq(Record)]
    /\ peer \in [Peers -> PeerType]
    /\ read \in [Reads -> ReadType]

Unprovisioned ==
    \A l \in Listeners : status[l] = "none" =>
        /\ captured[l] = <<>>
        /\ \A p \in Peers : peer[p] # NoPeer => peer[p].to # l

\* What a tcp listener is about to store does not match.
NoTcpMatch ==
    \A p \in Peers :
        /\ peer[p].at = "closing" /\ peer[p].record # NoRecord
        /\ Protocol(peer[p].to) = "tcp"
        => ~peer[p].record.matched

ListenerInv ==
    /\ Types /\ Unprovisioned /\ NoTcpMatch
    /\ CapturesBounded /\ FinalReadIsFinal /\ AnsweredIsKept
-----------------------------------------------------------------------------
(* Counting the records that match *)

\* The records that match are finitely many.
LEMMA MatchedFinite ==
    ASSUME NEW s \in Seq(Record)
    PROVE  /\ IsFiniteSet(Matched(s))
           /\ Cardinality(Matched(s)) \in Nat
<1>1. Matched(s) \subseteq 1..Len(s)
  BY LenProperties DEF Matched
<1>2. IsFiniteSet(1..Len(s))
  BY LenProperties, FS_Interval
<1> QED
  BY <1>1, <1>2, FS_Subset, FS_CardinalityType

\* A record that is appended adds one to the count if it matches.
LEMMA MatchedAfterAppend ==
    ASSUME NEW s \in Seq(Record), NEW r \in Record
    PROVE  Cardinality(Matched(Append(s, r))) =
               Cardinality(Matched(s)) + (IF r.matched THEN 1 ELSE 0)
<1>1. Matched(s) \subseteq 1..Len(s) /\ Len(s) \in Nat
  BY LenProperties DEF Matched
<1>2. /\ DOMAIN Append(s, r) = 1..(Len(s) + 1)
      /\ \A i \in 1..Len(s) : Append(s, r)[i] = s[i]
      /\ Append(s, r)[Len(s) + 1] = r
      /\ DOMAIN s = 1..Len(s)
  BY AppendProperties, LenProperties
<1>3. CASE r.matched
  <2>1. Matched(Append(s, r)) = Matched(s) \cup {Len(s) + 1} /\ Len(s) + 1 \notin Matched(s)
    BY <1>1, <1>2, <1>3 DEF Matched
  <2> QED
    BY <1>3, <2>1, MatchedFinite, FS_AddElement
<1>4. CASE ~r.matched
  <2>1. Matched(Append(s, r)) = Matched(s)
    BY <1>1, <1>2, <1>4 DEF Matched
  <2> QED
    BY <1>4, <2>1, MatchedFinite
<1> QED
  BY <1>3, <1>4

\* A listener without records has confirmed nothing.
LEMMA MatchedOfNone == Cardinality(Matched(<<>>)) = 0
<1>1. Matched(<<>>) = {}
  BY DEF Matched
<1> QED
  BY <1>1, FS_EmptySet

\* A record that is appended is kept beside the others.
LEMMA AppendContains ==
    ASSUME NEW s \in Seq(Record), NEW r \in Record
    PROVE  /\ Contains(Append(s, r), r)
           /\ \A q : Contains(s, q) => Contains(Append(s, r), q)
BY AppendProperties, LenProperties DEF Contains
-----------------------------------------------------------------------------
(* What one step does to a listener *)

\* A record is stored while the listener listens; it ends by its last one.
LEMMA StoreStep ==
    ASSUME ListenerInv, NEW l \in Listeners, NEW r \in Record,
           status[l] = "listening", UNCHANGED asked, StoreCapture(l, r),
           Protocol(l) = "tcp" => ~r.matched
    PROVE  /\ status' \in [Listeners -> Statuses]
           /\ up' = [k \in Listeners |-> status'[k] = "listening"] /\ timer' = up'
           /\ captured' = [captured EXCEPT ![l] = Append(captured[l], r)]
           /\ captured' \in [Listeners -> Seq(Record)]
           /\ status'[l] \in {"listening", "completed"}
           /\ \A k \in Listeners \ {l} : status'[k] = status[k] /\ captured'[k] = captured[k]
           /\ CapturesBounded'
<1>1. /\ captured' = [captured EXCEPT ![l] = Append(captured[l], r)]
      /\ captured' \in [Listeners -> Seq(Record)]
      /\ captured'[l] = Append(captured[l], r)
      /\ Len(captured'[l]) = Len(captured[l]) + 1
      /\ Len(captured[l]) \in Nat
      /\ \A k \in Listeners \ {l} : captured'[k] = captured[k]
  BY AppendProperties, LenProperties DEF StoreCapture, ListenerInv, Types
<1>2. /\ status' \in [Listeners -> Statuses]
      /\ status'[l] \in {"listening", "completed"}
      /\ \A k \in Listeners \ {l} : status'[k] = status[k]
      /\ up' = [k \in Listeners |-> status'[k] = "listening"] /\ timer' = up'
  BY DEF StoreCapture, Finish, ListenerInv, Types, Statuses, Ended
<1>3. /\ Confirmed(l)' = Confirmed(l) + (IF r.matched THEN 1 ELSE 0)
      /\ Confirmed(l) \in Nat
  BY <1>1, MatchedAfterAppend, MatchedFinite DEF Confirmed, ListenerInv, Types
<1>4. MaxRequests(l) \in Nat /\ MaxTotal \in Nat
  BY CallbackAssumption DEF CallbackAssumption, ListenerInv, Types, MaxRequests, Proposal
<1>5. /\ Confirmed(l) < MaxRequests(l) /\ Len(captured[l]) < MaxTotal
      /\ Protocol(l) = "tcp" => Confirmed(l) = 0
  BY DEF ListenerInv, CapturesBounded, WithinLimits, TcpIsOnlyCapped
<1>6. status'[l] = "listening" =>
        /\ ~(r.matched /\ Confirmed(l)' >= MaxRequests(l))
        /\ ~(Len(captured'[l]) >= MaxTotal)
  BY <1>1, <1>2 DEF StoreCapture, Finish, Confirmed, ListenerInv, Types
<1>7. status'[l] = "completed" =>
        (r.matched /\ Confirmed(l)' >= MaxRequests(l)) \/ Len(captured'[l]) >= MaxTotal
  BY <1>1, <1>2 DEF StoreCapture, Finish, Confirmed, ListenerInv, Types
<1>8. \A k \in Listeners \ {l} : Confirmed(k)' = Confirmed(k)
  BY <1>1 DEF Confirmed
<1>9. \A k \in Listeners : MaxRequests(k)' = MaxRequests(k) /\ Protocol(k)' = Protocol(k)
  BY DEF MaxRequests, Protocol
<1>10. ASSUME NEW k \in Listeners
       PROVE  WithinLimits(k)' /\ CompletedAtALimit(k)' /\ TcpIsOnlyCapped(k)'
  <2>1. CASE k = l
    <3>1. WithinLimits(l)'
      BY <1>1, <1>3, <1>4, <1>5, <1>6, <1>9 DEF WithinLimits
    <3>2. CompletedAtALimit(l)'
      BY <1>1, <1>3, <1>4, <1>5, <1>7, <1>9 DEF CompletedAtALimit
    <3>3. TcpIsOnlyCapped(l)'
      BY <1>1, <1>3, <1>4, <1>5, <1>7, <1>9 DEF TcpIsOnlyCapped
    <3> QED
      BY <2>1, <3>1, <3>2, <3>3
  <2>2. CASE k # l
    BY <1>1, <1>2, <1>8, <1>9, <2>2
       DEF ListenerInv, CapturesBounded, WithinLimits, CompletedAtALimit, TcpIsOnlyCapped
  <2> QED
    BY <2>1, <2>2
<1>11. CapturesBounded'
  BY <1>10 DEF CapturesBounded
<1> QED
  BY <1>1, <1>2, <1>11

\* A listener ends without a record.
LEMMA FinishStep ==
    ASSUME ListenerInv, NEW l \in Listeners, NEW how \in {"expired", "closed"},
           Finish(l, how), UNCHANGED <<asked, captured>>
    PROVE  /\ status' \in [Listeners -> Statuses]
           /\ up' = [k \in Listeners |-> status'[k] = "listening"] /\ timer' = up'
           /\ \A k \in Listeners : status'[k] # status[k] =>
                 status[k] = "listening" /\ status'[k] \in Ended
           /\ status[l] = "listening" => status'[l] = how
           /\ CapturesBounded'
<1>1. /\ status' \in [Listeners -> Statuses]
      /\ up' = [k \in Listeners |-> status'[k] = "listening"] /\ timer' = up'
      /\ \A k \in Listeners : status'[k] # status[k] =>
                 status[k] = "listening" /\ status'[k] \in Ended
      /\ status[l] = "listening" => status'[l] = how
  BY DEF Finish, ListenerInv, Types, Statuses, Ended
<1>2. \A k \in Listeners : status'[k] = "completed" => status[k] = "completed"
  BY DEF Finish, ListenerInv, Types
<1>3. /\ \A k \in Listeners : Confirmed(k)' = Confirmed(k) /\ MaxRequests(k)' = MaxRequests(k)
      /\ \A k \in Listeners : Protocol(k)' = Protocol(k)
  BY DEF Confirmed, MaxRequests, Protocol
<1>4. CapturesBounded'
  BY <1>1, <1>2, <1>3 DEF CapturesBounded, ListenerInv, WithinLimits, CompletedAtALimit,
                          TcpIsOnlyCapped, Ended
<1> QED
  BY <1>1, <1>4
-----------------------------------------------------------------------------
(* Every step keeps the invariant *)

\* At the start no listener is provisioned and nothing is under way.
LEMMA InitListener == CallbackInit => ListenerInv
<1> SUFFICES ASSUME CallbackInit PROVE ListenerInv
  OBVIOUS
<1>1. Types
  <2>1. [protocol |-> "http", max_requests |-> 1] \in Proposal
    BY CallbackAssumption DEF CallbackAssumption, Proposal
  <2>2. asked \in [Listeners -> Proposal] /\ status \in [Listeners -> Statuses]
    BY <2>1 DEF CallbackInit, Statuses
  <2>3. up = [l \in Listeners |-> status[l] = "listening"] /\ timer = up
    BY DEF CallbackInit
  <2>4. captured \in [Listeners -> Seq(Record)]
    BY EmptySeq DEF CallbackInit
  <2>5. NoPeer \in PeerType /\ NoRead \in ReadType
    BY DEF PeerType, ReadType
  <2>6. peer \in [Peers -> PeerType] /\ read \in [Reads -> ReadType]
    BY <2>5 DEF CallbackInit
  <2> QED
    BY <2>2, <2>3, <2>4, <2>6 DEF Types
<1>2. CapturesBounded
  BY CallbackAssumption, MatchedOfNone
     DEF CallbackAssumption, CallbackInit, CapturesBounded, WithinLimits, CompletedAtALimit,
         TcpIsOnlyCapped, Confirmed, MaxRequests
<1>3. Unprovisioned /\ NoTcpMatch /\ FinalReadIsFinal /\ AnsweredIsKept
  BY DEF CallbackInit, Unprovisioned, NoTcpMatch, FinalReadIsFinal, AnsweredIsKept, NoPeer, NoRead
<1> QED
  BY <1>1, <1>2, <1>3 DEF ListenerInv

\* A step that leaves the listeners alone need only keep what a callback or a
\* read refers to.
LEMMA QuietEndpoint ==
    ASSUME ListenerInv, UNCHANGED endpoint, NoTcpMatch',
           peer' \in [Peers -> PeerType], read' \in [Reads -> ReadType],
           \A p \in Peers : peer'[p] # NoPeer => status[peer'[p].to] # "none",
           \A p \in Peers : peer'[p].at = "gone" => peer'[p] = peer[p],
           \A i \in Reads : read'[i].at = "done" =>
               /\ read'[i] # read[i] => /\ read'[i].status = status[read'[i].of]
                                        /\ read'[i].captured = captured[read'[i].of]
    PROVE  ListenerInv'
<1>1. Types' /\ CapturesBounded'
  BY DEF ListenerInv, Types, CapturesBounded, WithinLimits, CompletedAtALimit, TcpIsOnlyCapped,
         endpoint, Confirmed, MaxRequests, Protocol
<1>2. Unprovisioned'
  BY DEF ListenerInv, Unprovisioned, endpoint
<1>3. FinalReadIsFinal'
  BY DEF ListenerInv, FinalReadIsFinal, endpoint
<1>4. AnsweredIsKept'
  BY DEF ListenerInv, AnsweredIsKept, endpoint
<1> QED
  BY <1>1, <1>2, <1>3, <1>4 DEF ListenerInv

\* A read that goes on, or is cancelled, changes nothing else.
LEMMA QuietRead ==
    ASSUME ListenerInv, UNCHANGED <<endpoint, peer>>, NEW i \in Reads, NEW w \in ReadType,
           w.at # "done", read' = [read EXCEPT ![i] = w]
    PROVE  ListenerInv'
<1>1. /\ read' \in [Reads -> ReadType] /\ read'[i] = w
      /\ \A j \in Reads \ {i} : read'[j] = read[j]
  BY DEF ListenerInv, Types
<1>2. \A p \in Peers : peer[p] # NoPeer => status[peer[p].to] # "none"
  BY DEF ListenerInv, Unprovisioned, Types, PeerType
<1>3. NoTcpMatch'
  BY DEF ListenerInv, NoTcpMatch, Protocol, endpoint
<1> QED
  BY <1>1, <1>2, <1>3, QuietEndpoint DEF ListenerInv, Types

\* A listener starts without records, for as many matches as were approved.
LEMMA ProvisionKeeps ==
    ASSUME ListenerInv, NEW l \in Listeners, NEW proposal \in Proposal, Provision(l, proposal)
    PROVE  ListenerInv'
<1>1. /\ asked' = [asked EXCEPT ![l] = proposal]
      /\ status' = [status EXCEPT ![l] = "listening"]
      /\ UNCHANGED <<captured, peer, read>> /\ status[l] = "none"
  BY DEF Provision
<1>2. Types'
  BY <1>1 DEF Provision, ListenerInv, Types, Statuses
<1>3. \A k \in Listeners \ {l} : status'[k] = status[k] /\ asked'[k] = asked[k]
  BY <1>1 DEF ListenerInv, Types
<1>4. status'[l] = "listening" /\ asked'[l] = proposal
  BY <1>1 DEF ListenerInv, Types
<1>5. CapturesBounded'
  <2>1. captured[l] = <<>> /\ Confirmed(l)' = 0 /\ Len(captured'[l]) = 0
    BY <1>1, MatchedOfNone DEF ListenerInv, Unprovisioned, Confirmed
  <2>2. MaxRequests(l)' \in Nat \ {0} /\ MaxTotal \in Nat \ {0}
    BY <1>4, CallbackAssumption DEF CallbackAssumption, MaxRequests, Proposal
  <2>3. /\ \A k \in Listeners \ {l} : Confirmed(k)' = Confirmed(k) /\ MaxRequests(k)' = MaxRequests(k)
        /\ \A k \in Listeners \ {l} : Protocol(k)' = Protocol(k)
    BY <1>1, <1>3 DEF Confirmed, MaxRequests, Protocol
  <2> QED
    BY <1>1, <1>3, <1>4, <2>1, <2>2, <2>3
       DEF ListenerInv, CapturesBounded, WithinLimits, CompletedAtALimit, TcpIsOnlyCapped
<1>6. Unprovisioned'
  BY <1>1, <1>3, <1>4 DEF ListenerInv, Unprovisioned
<1>7. FinalReadIsFinal'
  BY <1>1, <1>3, <1>4 DEF ListenerInv, FinalReadIsFinal, Types, ReadType, NoRead, Ended
<1>8. AnsweredIsKept'
  <2>1. \A p \in Peers : peer[p] # NoPeer => peer[p].to \in Listeners /\ peer[p].to # l
    BY <1>1 DEF ListenerInv, Unprovisioned, Types, PeerType
  <2> QED
    BY <1>1, <1>3, <2>1 DEF ListenerInv, AnsweredIsKept, NoPeer
<1>9. NoTcpMatch'
  <2>1. \A p \in Peers : peer[p].at = "closing" => peer[p].to \in Listeners /\ peer[p].to # l
    BY <1>1 DEF ListenerInv, Unprovisioned, Types, PeerType, NoPeer
  <2> QED
    BY <1>1, <1>3, <2>1 DEF ListenerInv, NoTcpMatch, Protocol
<1> QED
  BY <1>2, <1>5, <1>6, <1>7, <1>8, <1>9 DEF ListenerInv

\* The end of a listener, by its timer or by a read that closes it.
LEMMA FinishKeeps ==
    ASSUME ListenerInv, NEW l \in Listeners, NEW how \in {"expired", "closed"}, Finish(l, how),
           UNCHANGED <<asked, captured, peer>>, read' \in [Reads -> ReadType],
           \A i \in Reads : read'[i].at = "done" /\ read'[i] # read[i] =>
               /\ read'[i].status = status'[read'[i].of]
               /\ read'[i].captured = captured[read'[i].of]
    PROVE  ListenerInv'
<1>1. Types' /\ CapturesBounded'
  BY FinishStep DEF ListenerInv, Types
<1>2. \A k \in Listeners : status'[k] # status[k] =>
          status[k] = "listening" /\ status'[k] \in Ended
  BY FinishStep
<1>3. Unprovisioned'
  BY <1>2 DEF ListenerInv, Unprovisioned, Ended
<1>4. FinalReadIsFinal'
  <2> SUFFICES ASSUME NEW i \in Reads, read'[i].at = "done", read'[i].status \in Ended
               PROVE  /\ status'[read'[i].of] = read'[i].status
                      /\ captured[read'[i].of] = read'[i].captured
    BY DEF FinalReadIsFinal
  <2>1. read'[i].of \in Listeners
    BY DEF ReadType, NoRead
  <2> QED
    BY <1>2, <2>1 DEF ListenerInv, FinalReadIsFinal, Ended
<1>5. AnsweredIsKept'
  <2>1. \A p \in Peers : peer[p].at = "gone" => peer[p].to \in Listeners
    BY DEF ListenerInv, Types, PeerType, NoPeer
  <2>2. \A k \in Listeners : status'[k] = "listening" => status[k] = "listening"
    BY <1>2 DEF Ended
  <2> QED
    BY <2>1, <2>2 DEF ListenerInv, AnsweredIsKept
<1>6. NoTcpMatch'
  BY DEF ListenerInv, NoTcpMatch, Protocol
<1> QED
  BY <1>1, <1>3, <1>4, <1>5, <1>6 DEF ListenerInv

\* A callback is stored, and gone.
LEMMA StoreKeeps ==
    ASSUME ListenerInv, NEW l \in Listeners, NEW r \in Record, NEW p \in Peers,
           status[l] = "listening", StoreCapture(l, r), UNCHANGED <<asked, read>>,
           Protocol(l) = "tcp" => ~r.matched,
           peer' = [peer EXCEPT ![p] = [at |-> "gone", to |-> l, record |-> r]]
    PROVE  ListenerInv'
<1>1. /\ status' \in [Listeners -> Statuses]
      /\ up' = [k \in Listeners |-> status'[k] = "listening"] /\ timer' = up'
      /\ captured' = [captured EXCEPT ![l] = Append(captured[l], r)]
      /\ captured' \in [Listeners -> Seq(Record)]
      /\ status'[l] \in {"listening", "completed"}
      /\ \A k \in Listeners \ {l} : status'[k] = status[k] /\ captured'[k] = captured[k]
      /\ CapturesBounded'
  BY StoreStep
<1>2. /\ peer' \in [Peers -> PeerType]
      /\ \A q \in Peers \ {p} : peer'[q] = peer[q]
      /\ peer'[p] = [at |-> "gone", to |-> l, record |-> r]
  BY DEF ListenerInv, Types, PeerType
<1>3. Types'
  BY <1>1, <1>2 DEF ListenerInv, Types
<1>4. Unprovisioned'
  BY <1>1, <1>2 DEF ListenerInv, Unprovisioned
<1>5. FinalReadIsFinal'
  <2> SUFFICES ASSUME NEW i \in Reads, read[i].at = "done", read[i].status \in Ended
               PROVE  /\ status'[read[i].of] = read[i].status
                      /\ captured'[read[i].of] = read[i].captured
    BY DEF FinalReadIsFinal
  <2>1. read[i].of \in Listeners /\ status[read[i].of] = read[i].status
    BY DEF ListenerInv, FinalReadIsFinal, Types, ReadType, NoRead
  <2>2. read[i].of # l
    BY <2>1 DEF Ended
  <2> QED
    BY <1>1, <2>1, <2>2 DEF ListenerInv, FinalReadIsFinal
<1>6. AnsweredIsKept'
  <2> SUFFICES ASSUME NEW q \in Peers, peer'[q].at = "gone", peer'[q].record # NoRecord,
                      peer'[q].record.answered, status'[peer'[q].to] = "listening"
               PROVE  Contains(captured'[peer'[q].to], peer'[q].record)
    BY DEF AnsweredIsKept
  <2>1. captured'[l] = Append(captured[l], r) /\ captured[l] \in Seq(Record)
    BY <1>1 DEF ListenerInv, Types
  <2>2. CASE q = p
    BY <1>2, <2>1, <2>2, AppendContains
  <2>3. CASE q # p
    <3>1. peer'[q] = peer[q] /\ peer[q].to \in Listeners
      BY <1>2, <2>3 DEF ListenerInv, Types, PeerType, NoPeer
    <3>2. status[peer[q].to] = "listening"
      BY <1>1, <3>1
    <3>3. Contains(captured[peer[q].to], peer[q].record)
      BY <3>1, <3>2 DEF ListenerInv, AnsweredIsKept
    <3> QED
      BY <1>1, <2>1, <3>1, <3>3, AppendContains
  <2> QED
    BY <2>2, <2>3
<1>7. NoTcpMatch'
  BY <1>2 DEF ListenerInv, NoTcpMatch, Protocol
<1> QED
  BY <1>1, <1>3, <1>4, <1>5, <1>6, <1>7 DEF ListenerInv

\* Every step keeps the invariant of the listeners.
LEMMA NextListener == ListenerInv /\ [CallbackNext]_callbackVars => ListenerInv'
<1> SUFFICES ASSUME ListenerInv, [CallbackNext]_callbackVars PROVE ListenerInv'
  OBVIOUS
<1>1. ASSUME NEW l \in Listeners, Expire(l) PROVE ListenerInv'
  <2>1. read \in [Reads -> ReadType]
    BY DEF ListenerInv, Types
  <2> QED
    BY <1>1, <2>1, FinishKeeps DEF Expire
<1>2. ASSUME NEW l \in Listeners, NEW proposal \in Proposal, Provision(l, proposal)
      PROVE  ListenerInv'
  BY <1>2, ProvisionKeeps
<1>3. ASSUME NEW p \in Peers, NEW l \in Listeners, Connect(p, l) PROVE ListenerInv'
  <2>1. /\ peer' = [peer EXCEPT ![p] = [at |-> "reading", to |-> l]]
        /\ UNCHANGED <<endpoint, read>> /\ status[l] = "listening"
    BY <1>3 DEF Connect, ListenerInv, Types
  <2>2. /\ peer' \in [Peers -> PeerType] /\ peer'[p] = [at |-> "reading", to |-> l]
        /\ \A q \in Peers \ {p} : peer'[q] = peer[q]
    BY <2>1 DEF ListenerInv, Types, PeerType
  <2>3. \A q \in Peers : peer[q] # NoPeer => status[peer[q].to] # "none"
    BY DEF ListenerInv, Unprovisioned, Types, PeerType
  <2>4. /\ \A q \in Peers : peer'[q] # NoPeer => status[peer'[q].to] # "none"
        /\ \A q \in Peers : peer'[q].at = "gone" => peer'[q] = peer[q]
    BY <2>1, <2>2, <2>3
  <2>5. NoTcpMatch'
    BY <2>1, <2>2 DEF ListenerInv, NoTcpMatch, Protocol, endpoint
  <2> QED
    BY <2>1, <2>2, <2>4, <2>5, QuietEndpoint DEF ListenerInv, Types
<1>4. ASSUME NEW p \in Peers, Answer(p) PROVE ListenerInv'
  <2> DEFINE records == IF Protocol(peer[p].to) = "http" THEN CaptureHttp(p) ELSE CaptureTcp(p)
  <2>0. PICK r \in {NoRecord} \cup records :
            peer' = [peer EXCEPT ![p] = [at |-> "closing", to |-> peer[p].to, record |-> r]]
    BY <1>4 DEF Answer
  <2>1. /\ r \in Record \cup {NoRecord}
        /\ peer' = [peer EXCEPT ![p] = [at |-> "closing", to |-> peer[p].to, record |-> r]]
        /\ Protocol(peer[p].to) = "tcp" /\ r # NoRecord => ~r.matched
    <3>1. \A q \in CaptureTcp(p) : q \in Record /\ ~q.matched
      <4> DEFINE x == [from |-> p, matched |-> FALSE, answered |-> FALSE]
      <4>1. x \in Record
        BY DEF Record
      <4>2. ~x.matched
        OBVIOUS
      <4>3. CaptureTcp(p) = {x}
        BY DEF CaptureTcp
      <4> HIDE DEF x
      <4> QED
        BY <4>1, <4>2, <4>3
    <3>2. CaptureHttp(p) \subseteq Record
      BY DEF CaptureHttp
    <3>3. CASE Protocol(peer[p].to) = "http"
      BY <2>0, <3>2, <3>3
    <3>4. CASE Protocol(peer[p].to) # "http"
      BY <2>0, <3>1, <3>4
    <3> QED
      BY <3>3, <3>4
  <2>2. UNCHANGED <<endpoint, read>> /\ peer[p].to \in Listeners /\ peer[p] # NoPeer
    BY <1>4 DEF Answer, ListenerInv, Types, PeerType, NoPeer
  <2>3. /\ peer' \in [Peers -> PeerType]
        /\ peer'[p] = [at |-> "closing", to |-> peer[p].to, record |-> r]
        /\ \A q \in Peers \ {p} : peer'[q] = peer[q]
    BY <2>1, <2>2 DEF ListenerInv, Types, PeerType
  <2>4. \A q \in Peers : peer[q] # NoPeer => status[peer[q].to] # "none"
    BY DEF ListenerInv, Unprovisioned, Types, PeerType
  <2>5. /\ \A q \in Peers : peer'[q] # NoPeer => status[peer'[q].to] # "none"
        /\ \A q \in Peers : peer'[q].at = "gone" => peer'[q] = peer[q]
    BY <2>2, <2>3, <2>4
  <2>6. NoTcpMatch'
    BY <2>1, <2>2, <2>3 DEF ListenerInv, NoTcpMatch, Protocol, endpoint
  <2> QED
    BY <2>2, <2>3, <2>5, <2>6, QuietEndpoint DEF ListenerInv, Types
<1>5. ASSUME NEW p \in Peers, Close(p) PROVE ListenerInv'
  <2> DEFINE l == peer[p].to
             r == peer[p].record
  <2>1. /\ peer[p].at = "closing" /\ peer[p] # NoPeer
        /\ peer[p] \in [at : {"closing", "gone"}, to : Listeners, record : Record \cup {NoRecord}]
    BY <1>5 DEF Close, ListenerInv, Types, PeerType, NoPeer
  <2>2. /\ peer' = [peer EXCEPT ![p] = [at |-> "gone", to |-> l, record |-> r]]
        /\ UNCHANGED <<asked, read>> /\ l \in Listeners /\ r \in Record \cup {NoRecord}
    <3>1. [peer[p] EXCEPT !.at = "gone"] = [at |-> "gone", to |-> l, record |-> r]
      BY <2>1
    <3>2. peer' = [peer EXCEPT ![p] = [peer[p] EXCEPT !.at = "gone"]] /\ UNCHANGED <<asked, read>>
      BY <1>5 DEF Close
    <3> QED
      BY <2>1, <3>1, <3>2
  <2>3. CASE status[l] = "listening" /\ r # NoRecord
    <3>1. StoreCapture(l, r)
      BY <1>5, <2>3 DEF Close
    <3>2. Protocol(l) = "tcp" => ~r.matched
      BY <2>1, <2>3 DEF ListenerInv, NoTcpMatch
    <3> HIDE DEF l, r
    <3> QED
      BY <2>2, <2>3, <3>1, <3>2, StoreKeeps
  <2>4. CASE ~(status[l] = "listening" /\ r # NoRecord)
    <3>1. UNCHANGED endpoint
      BY <1>5, <2>4 DEF Close
    <3> HIDE DEF l, r
    <3>2. /\ peer' \in [Peers -> PeerType]
          /\ \A q \in Peers \ {p} : peer'[q] = peer[q]
          /\ peer'[p] = [at |-> "gone", to |-> l, record |-> r]
      BY <2>2 DEF ListenerInv, Types, PeerType
    <3>3. Types' /\ CapturesBounded' /\ FinalReadIsFinal'
      BY <2>2, <3>1, <3>2 DEF ListenerInv, Types, CapturesBounded, WithinLimits,
                              CompletedAtALimit, TcpIsOnlyCapped, FinalReadIsFinal, endpoint,
                              Confirmed, MaxRequests, Protocol
    <3>4. Unprovisioned'
      <4>1. status[l] # "none"
        BY <2>1, <2>2 DEF ListenerInv, Unprovisioned, l
      <4> QED
        BY <3>1, <3>2, <4>1 DEF ListenerInv, Unprovisioned, endpoint
    <3>5. AnsweredIsKept'
      BY <2>4, <3>1, <3>2 DEF ListenerInv, AnsweredIsKept, endpoint
    <3>6. NoTcpMatch'
      BY <3>1, <3>2 DEF ListenerInv, NoTcpMatch, Protocol, endpoint
    <3> QED
      BY <3>3, <3>4, <3>5, <3>6 DEF ListenerInv
  <2> QED
    BY <2>3, <2>4
<1>6. ASSUME NEW p \in Peers, NEW l \in Listeners, Datagram(p, l) PROVE ListenerInv'
  BY <1>6, StoreKeeps DEF Datagram, CaptureDns
<1>7. ASSUME NEW i \in Reads, NEW l \in Listeners, NEW wait \in BOOLEAN, NEW close \in BOOLEAN,
             Read(i, l, wait, close)
      PROVE  ListenerInv'
  <2>1. Confirmed(l) \in Nat
    BY MatchedFinite DEF Confirmed, ListenerInv, Types
  <2> DEFINE w == [at |-> "waiting", of |-> l, close |-> close, late |-> ~wait,
                   need |-> IF Confirmed(l) > 1 THEN Confirmed(l) ELSE 1]
  <2>2. w \in ReadType /\ w.at = "waiting"
    BY <2>1 DEF ReadType
  <2>3. read' = [read EXCEPT ![i] = w] /\ UNCHANGED <<endpoint, peer>>
    BY <1>7 DEF Read
  <2> HIDE DEF w
  <2> QED
    BY <2>2, <2>3, QuietRead
<1>8. ASSUME NEW i \in Reads, Deadline(i) PROVE ListenerInv'
  <2>1. read[i] \in [at : {"waiting"}, of : Listeners, close : BOOLEAN, late : BOOLEAN, need : Nat]
    BY <1>8 DEF Deadline, ListenerInv, Types, ReadType, NoRead
  <2>2. [read[i] EXCEPT !.late = TRUE] \in ReadType /\ [read[i] EXCEPT !.late = TRUE].at = "waiting"
    BY <2>1 DEF ReadType
  <2> QED
    BY <1>8, <2>2, QuietRead DEF Deadline
<1>9. ASSUME NEW i \in Reads, Return(i) PROVE ListenerInv'
  <2>1. read[i] \in [at : {"waiting"}, of : Listeners, close : BOOLEAN, late : BOOLEAN, need : Nat]
    BY <1>9 DEF Return, ListenerInv, Types, ReadType, NoRead
  <2> DEFINE l == read[i].of
             closing == read[i].close /\ status[l] = "listening"
             d == [at |-> "done", of |-> l, captured |-> captured[l],
                   status |-> IF closing THEN "closed" ELSE status[l]]
  <2>2. l \in Listeners
    BY <2>1
  <2>3. d \in ReadType
    BY <2>2 DEF ListenerInv, Types, ReadType, Statuses, Ended
  <2>4. /\ read' = [read EXCEPT ![i] = d] /\ UNCHANGED <<asked, captured, peer>>
        /\ IF closing THEN Finish(l, "closed") ELSE UNCHANGED <<status, up, timer>>
    BY <1>9 DEF Return
  <2>5. d.of = l /\ d.captured = captured[l] /\ d.status = IF closing THEN "closed" ELSE status[l]
    OBVIOUS
  <2>6. closing => status[l] = "listening"
    OBVIOUS
  <2> HIDE DEF d, closing, l
  <2>7. /\ read' \in [Reads -> ReadType] /\ read'[i] = d
        /\ \A j \in Reads \ {i} : read'[j] = read[j]
    BY <2>3, <2>4 DEF ListenerInv, Types
  <2>8. CASE closing
    <3>1. Finish(l, "closed") /\ status'[l] = "closed"
      BY <2>2, <2>4, <2>6, <2>8 DEF Finish, ListenerInv, Types
    <3>2. \A j \in Reads : read'[j].at = "done" /\ read'[j] # read[j] =>
            /\ read'[j].status = status'[read'[j].of]
            /\ read'[j].captured = captured[read'[j].of]
      BY <2>5, <2>7, <2>8, <3>1
    <3> QED
      BY <2>2, <2>4, <2>7, <3>1, <3>2, FinishKeeps
  <2>9. CASE ~closing
    <3>1. UNCHANGED endpoint
      BY <2>4, <2>9 DEF endpoint
    <3>2. \A j \in Reads : read'[j].at = "done" =>
            (read'[j] # read[j] => /\ read'[j].status = status[read'[j].of]
                                   /\ read'[j].captured = captured[read'[j].of])
      BY <2>5, <2>7, <2>9
    <3>3. \A p \in Peers : peer'[p] # NoPeer => status[peer'[p].to] # "none"
      BY <2>4 DEF ListenerInv, Unprovisioned, Types, PeerType
    <3>4. NoTcpMatch'
      BY <2>4, <3>1 DEF ListenerInv, NoTcpMatch, Protocol, endpoint
    <3> QED
      BY <2>4, <2>7, <3>1, <3>2, <3>3, <3>4, QuietEndpoint DEF ListenerInv, Types
  <2> QED
    BY <2>8, <2>9
<1>10. ASSUME NEW i \in Reads, CancelRead(i) PROVE ListenerInv'
  <2>1. read[i].of \in Listeners
    BY <1>10 DEF CancelRead, ListenerInv, Types, ReadType, NoRead
  <2>2. [at |-> "cancelled", of |-> read[i].of] \in ReadType
    BY <2>1 DEF ReadType
  <2> QED
    BY <1>10, <2>2, QuietRead DEF CancelRead
<1>11. CASE UNCHANGED callbackVars
  <2>1. \A p \in Peers : peer[p] # NoPeer => status[peer[p].to] # "none"
    BY DEF ListenerInv, Unprovisioned, Types, PeerType
  <2>2. NoTcpMatch'
    BY <1>11 DEF ListenerInv, NoTcpMatch, Protocol, callbackVars, endpoint
  <2> QED
    BY <1>11, <2>1, <2>2, QuietEndpoint DEF callbackVars, ListenerInv, Types
<1> QED
  BY <1>1, <1>2, <1>3, <1>4, <1>5, <1>6, <1>7, <1>8, <1>9, <1>10, <1>11 DEF CallbackNext
-----------------------------------------------------------------------------
(* The theorems *)

\* The invariant of the listeners holds at every instant.
LEMMA ListenersHold == CallbackSpec => []ListenerInv
BY InitListener, NextListener, PTL DEF CallbackSpec

\* However many connections are being read when the last record is stored, no
\* listener keeps more matches than were approved or more records than
\* MAX_TOTAL_CAPTURES, and it has ended by then; one that completed is at one of
\* these limits, and one over tcp at the second: it confirms nothing.
THEOREM CapturesAreBounded == CallbackSpec => []CapturesBounded
<1>1. ListenerInv => CapturesBounded
  BY DEF ListenerInv
<1> QED
  BY <1>1, ListenersHold, PTL

\* No connection in flight, timer or other read changes what a read has
\* reported of a listener that ended.
THEOREM FinalReadHolds == CallbackSpec => []FinalReadIsFinal
<1>1. ListenerInv => FinalReadIsFinal
  BY DEF ListenerInv
<1> QED
  BY <1>1, ListenersHold, PTL

\* A listener has a server and a timer exactly while it listens, and what it
\* has answered it keeps.
THEOREM CallbackCorrect == CallbackSpec => []CallbackInv
<1>1. ListenerInv => CallbackInv
  BY DEF ListenerInv, CallbackInv, CallbackTypeOK, Types, Statuses, PeerType, ReadType, NoPeer, NoRead
<1> QED
  BY <1>1, ListenersHold, PTL
-----------------------------------------------------------------------------
(* Named web sessions *)


TokenType ==
    [kind : {"none", "issued", "signed"}, by : Origins \cup {Unbound}, n : Nat,
     origin : Origins \cup {Unbound}]

CookieType ==
    [key : {s.key : s \in SetCookies}, path : {s.path : s \in SetCookies},
     from : Jars, until : Nat]

CallType ==
    {Idle}
    \cup [phase : InFlight, req : Requests, tokens : SUBSET TokenType,
          cookies : SUBSET CookieType]
    \cup [phase : {"revealing"}, eng : Engs, name : Names, number : Nat]

WebTypes ==
    /\ active \subseteq Engs
    /\ slot \in [Slots -> TokenType]
    /\ jar \in [Jars -> SUBSET CookieType]
    /\ call \in [Calls -> CallType]
    /\ clock \in 1..MaxTime
    /\ begun \in 0..MaxBegun
-----------------------------------------------------------------------------
(* Types *)

\* The slots and jars a request names exist.
LEMMA RequestsHaveTables ==
    ASSUME NEW r \in Requests
    PROVE  SlotOf(r) \in Slots /\ JarOf(r) \in Jars /\ Source(r) = JarOf(r)
           /\ r.eng \in Engs /\ r.name \in Names /\ r.origin \in Origins
BY WebAssumption DEF SlotOf, JarOf, Source, Slots, Jars

\* What a request takes with it is of its type.
LEMMA RequestType ==
    ASSUME WebTypes, NEW c \in Calls, NEW r \in Requests, NEW tokens \in SUBSET TokenType,
           Request(c, r, tokens)
    PROVE  /\ jar' \in [Jars -> SUBSET CookieType]
           /\ call' \in [Calls -> CallType]
<1>1. JarOf(r) \in Jars
  BY RequestsHaveTables
<1>2. Fresh(jar[JarOf(r)]) \in SUBSET CookieType
  BY <1>1 DEF WebTypes, Fresh
<1>3. jar' \in [Jars -> SUBSET CookieType]
  BY <1>1, <1>2 DEF Request, WebTypes
<1> DEFINE taken == IF r.ownCookie THEN {}
                    ELSE {k \in Fresh(jar[JarOf(r)]) : Covers(k, r.path)}
<1>4. taken \in SUBSET CookieType
  BY <1>2
<1> HIDE DEF taken
<1> DEFINE k == [phase |-> "resolving", req |-> r, tokens |-> tokens, cookies |-> taken]
<1>5. k \in CallType
  BY <1>4 DEF CallType, InFlight
<1>6. call' = call \/ call' = [call EXCEPT ![c] = k]
  BY DEF Request, taken
<1> QED
  BY <1>3, <1>5, <1>6 DEF WebTypes

\* The cookies of an answer keep the type of a jar.
LEMMA KeepCookiesType ==
    ASSUME WebTypes, NEW r \in Requests, NEW new \in SUBSET SetCookies, KeepCookies(r, new)
    PROVE  jar' \in [Jars -> SUBSET CookieType]
<1>1. JarOf(r) \in Jars /\ Source(r) \in Jars
  BY RequestsHaveTables
<1>2. ASSUME NEW s \in SetCookies
      PROVE  [key |-> s.key, path |-> s.path, from |-> Source(r),
              until |-> IF s.session THEN 0 ELSE clock + s.life] \in CookieType
  <2>1. (IF s.session THEN 0 ELSE clock + s.life) \in Nat
    BY WebAssumption DEF WebTypes
  <2> QED
    BY <1>1, <2>1 DEF CookieType
<1>3. Merged(jar[JarOf(r)], Source(r), new) \in SUBSET CookieType
  BY <1>1, <1>2 DEF Merged, WebTypes
<1> QED
  BY <1>1, <1>3 DEF KeepCookies, WebTypes

\* The types hold at the start.
LEMMA InitTypes == WebInit => WebTypes
BY WebAssumption DEF WebInit, WebTypes, NoToken, TokenType, CallType

\* Every step keeps the types.
LEMMA NextTypes == WebTypes /\ [WebNext]_webVars => WebTypes'
<1> SUFFICES ASSUME WebTypes, [WebNext]_webVars PROVE WebTypes'
  OBVIOUS
<1>1. ASSUME NEW c \in Calls, NEW r \in Requests, HttpSession(c, r)
      PROVE  WebTypes'
  <2>1. begun' \in 0..MaxBegun
    BY <1>1, WebAssumption DEF HttpSession, Starts, WebTypes
  <2> QED
    BY <1>1, <2>1, RequestType DEF HttpSession, WebTypes
<1>2. ASSUME NEW c \in Calls, NEW r \in Requests, AuthSession(c, r)
      PROVE  WebTypes'
  <2>1. begun' \in 0..MaxBegun
    BY <1>2, WebAssumption DEF AuthSession, Starts, WebTypes
  <2>2. SlotOf(r) \in Slots /\ r.origin \in Origins /\ slot[SlotOf(r)] \in TokenType
    BY RequestsHaveTables DEF WebTypes
  <2>3. [slot[SlotOf(r)] EXCEPT !.origin = r.origin] \in TokenType
    BY <2>2 DEF TokenType
  <2>4. slot' \in [Slots -> TokenType]
    <3>1. CASE slot[SlotOf(r)] = NoToken
      BY <1>2, <3>1 DEF AuthSession, WebTypes
    <3>2. CASE slot[SlotOf(r)] # NoToken
      BY <1>2, <2>2, <2>3, <3>2 DEF AuthSession, WebTypes
    <3> QED BY <3>1, <3>2
  <2>5. Carried(r) \in SUBSET TokenType
    BY <2>3 DEF Carried
  <2>6. CASE InjectFails(r)
    BY <1>2, <2>1, <2>4, <2>6 DEF AuthSession, WebTypes
  <2>7. CASE ~InjectFails(r)
    BY <1>2, <2>1, <2>4, <2>5, <2>7, RequestType DEF AuthSession, WebTypes
  <2> QED BY <2>6, <2>7
<1>3. ASSUME NEW c \in Calls, NEW e \in Engs, NEW n \in Names, MintUnsigned(c, e, n)
      PROVE  WebTypes'
  <2>1. begun' \in 0..MaxBegun /\ begun + 1 \in Nat
    BY <1>3, WebAssumption DEF MintUnsigned, Starts, WebTypes
  <2>2. slot' \in [Slots -> TokenType]
    BY <1>3, <2>1 DEF MintUnsigned, Signed, TokenType, WebTypes, Slots
  <2> QED
    BY <1>3, <2>1, <2>2 DEF MintUnsigned, WebTypes
<1>4. ASSUME NEW c \in Calls, NEW e \in Engs, NEW n \in Names, JwtSign(c, e, n)
      PROVE  WebTypes'
  <2>1. begun' \in 0..MaxBegun /\ begun + 1 \in Nat
    BY <1>4, WebAssumption DEF JwtSign, Starts, WebTypes
  <2>2. call' \in [Calls -> CallType]
    BY <1>4, <2>1 DEF JwtSign, CallType, WebTypes
  <2> QED
    BY <1>4, <2>1, <2>2 DEF JwtSign, WebTypes
<1>5. ASSUME NEW c \in Calls, Send(c)
      PROVE  WebTypes'
  <2>1. call[c] \in [phase : InFlight, req : Requests, tokens : SUBSET TokenType,
                     cookies : SUBSET CookieType]
    BY <1>5 DEF Send, WebTypes, CallType, Idle, InFlight
  <2>2. [call[c] EXCEPT !.phase = "sent"] \in CallType
    BY <2>1 DEF CallType, InFlight
  <2> QED
    BY <1>5, <2>2 DEF Send, WebTypes
<1>6. ASSUME NEW c \in Calls, Fail(c)
      PROVE  WebTypes'
  BY <1>6 DEF Fail, WebTypes, CallType
<1>7. ASSUME NEW c \in Calls, Respond(c)
      PROVE  WebTypes'
  <2>1. call[c].req \in Requests
    BY <1>7 DEF Respond, WebTypes, CallType, Idle, InFlight
  <2> DEFINE r == call[c].req
  <2>2. PICK new \in {{}} \cup {{s} : s \in SetCookies}, found \in BOOLEAN :
            KeepCookies(r, new) /\ KeepToken(r, found)
    BY <1>7 DEF Respond
  <2>3. jar' \in [Jars -> SUBSET CookieType]
    BY <2>1, <2>2, KeepCookiesType
  <2>4. SlotOf(r) \in Slots /\ r.origin \in Origins
    BY <2>1, RequestsHaveTables
  <2>5. slot' \in [Slots -> TokenType]
    BY <2>2, <2>4 DEF KeepToken, TokenType, WebTypes
  <2> QED
    BY <1>7, <2>3, <2>5 DEF Respond, WebTypes, CallType
<1>8. ASSUME NEW c \in Calls, Revealed(c)
      PROVE  WebTypes'
  <2>1. call[c].eng \in Engs /\ call[c].name \in Names /\ call[c].number \in Nat
    BY <1>8 DEF Revealed, WebTypes, CallType, Idle, InFlight
  <2>2. slot' \in [Slots -> TokenType]
    BY <1>8, <2>1 DEF Revealed, Signed, TokenType, WebTypes, Slots
  <2> QED
    BY <1>8, <2>2 DEF Revealed, WebTypes, CallType
<1>9. CASE WebRestore \/ Tick
  BY <1>9, WebAssumption DEF WebRestore, Tick, WebTypes
<1>10. CASE UNCHANGED webVars
  BY <1>10 DEF webVars, WebTypes
<1> QED
  BY <1>1, <1>2, <1>3, <1>4, <1>5, <1>6, <1>7, <1>8, <1>9, <1>10 DEF WebNext
-----------------------------------------------------------------------------
(* Cookies *)

Ident(k) == [key |-> k.key, path |-> k.path, from |-> k.from]

\* A jar holds cookies of its own, one for each name and path, and none that
\* was withdrawn; what a request took came from its jar.
CookieInv ==
    /\ \A j \in Jars : \A k \in jar[j] :
        /\ k.from = j
        /\ Ident(k) \notin withdrawn
        /\ \A m \in jar[j] : Same(k, m) => k = m
    /\ CookiesStayHome

\* A request picks cookies of its own jar that are still good.
LEMMA RequestCookies ==
    ASSUME WebTypes, CookieInv, NEW c \in Calls, NEW r \in Requests, NEW tokens,
           call[c] = Idle, Request(c, r, tokens), UNCHANGED withdrawn
    PROVE  /\ CookieInv'
           /\ \A k \in call'[c].cookies : call'[c].phase = "resolving" =>
                 /\ k.until = 0 \/ k.until > clock
                 /\ Ident(k) \notin withdrawn
<1>1. JarOf(r) \in Jars /\ Source(r) = JarOf(r)
  BY RequestsHaveTables
<1>2. \A k \in Fresh(jar[JarOf(r)]) :
        k \in jar[JarOf(r)] /\ (k.until = 0 \/ k.until > clock)
  BY DEF Fresh
<1>3. \A j \in Jars : jar'[j] \subseteq jar[j]
  BY <1>1, <1>2 DEF Request, WebTypes
<1>4. \A j \in Jars : \A k \in jar'[j] :
        k.from = j /\ Ident(k) \notin withdrawn' /\ \A m \in jar'[j] : Same(k, m) => k = m
  BY <1>3 DEF CookieInv
<1> DEFINE k0 == [phase |-> "resolving", req |-> r, tokens |-> tokens,
                  cookies |-> IF r.ownCookie THEN {}
                              ELSE {k \in Fresh(jar[JarOf(r)]) : Covers(k, r.path)}]
<1>5. k0.phase = "resolving" /\ k0.req = r
      /\ \A k \in k0.cookies : k \in Fresh(jar[JarOf(r)]) /\ Covers(k, r.path)
  OBVIOUS
<1>6. \A k \in k0.cookies :
        /\ k.from = Source(r) /\ Covers(k, r.path)
        /\ k.until = 0 \/ k.until > clock
        /\ Ident(k) \notin withdrawn
  BY <1>1, <1>2, <1>5 DEF CookieInv
<1>7. call' = call \/ call' = [call EXCEPT ![c] = k0]
  BY DEF Request
<1> HIDE DEF k0
<1>8. CookiesStayHome'
  BY <1>5, <1>6, <1>7 DEF CookieInv, CookiesStayHome, WebTypes, Source, Covers
<1>9. \A k \in call'[c].cookies : call'[c].phase = "resolving" =>
        (k.until = 0 \/ k.until > clock) /\ Ident(k) \notin withdrawn
  BY <1>6, <1>7 DEF WebTypes, Idle
<1> QED
  BY <1>4, <1>8, <1>9 DEF CookieInv, Ident, Same

\* An answer replaces cookies of its own jar, and only it brings back what was
\* withdrawn.
LEMMA KeepCookiesInv ==
    ASSUME WebTypes, CookieInv, NEW r \in Requests,
           NEW new \in {{}} \cup {{s} : s \in SetCookies}, KeepCookies(r, new)
    PROVE  \A j \in Jars : \A k \in jar'[j] :
               k.from = j /\ Ident(k) \notin withdrawn' /\ \A m \in jar'[j] : Same(k, m) => k = m
<1>1. JarOf(r) \in Jars /\ Source(r) = JarOf(r)
  BY RequestsHaveTables
<1> SUFFICES ASSUME NEW j \in Jars
             PROVE  \A k \in jar'[j] : k.from = j /\ Ident(k) \notin withdrawn'
                        /\ \A m \in jar'[j] : Same(k, m) => k = m
  OBVIOUS
<1>2. CASE j # JarOf(r)
  <2>1. jar'[j] = jar[j]
    BY <1>1, <1>2 DEF KeepCookies, WebTypes
  <2>2. ASSUME NEW k \in jar[j] PROVE Ident(k) \notin withdrawn'
    <3>1. k.from = j /\ Ident(k) \notin withdrawn
      BY <2>2 DEF CookieInv
    <3>2. \A w : w.from = Source(r) => Ident(k) # w
      BY <3>1, <1>1, <1>2 DEF Ident
    <3> QED
      BY <3>1, <3>2 DEF KeepCookies
  <2> QED
    BY <2>1, <2>2 DEF CookieInv
<1>3. CASE j = JarOf(r)
  <2>1. jar'[j] = Merged(jar[j], j, new)
    BY <1>1, <1>3 DEF KeepCookies, WebTypes
  <2>2. CASE new = {}
    <3>1. jar'[j] \subseteq jar[j] /\ withdrawn' \subseteq withdrawn
      BY <2>1, <2>2 DEF Merged, KeepCookies
    <3> QED
      BY <3>1 DEF CookieInv
  <2>3. ASSUME NEW s \in SetCookies, new = {s}
        PROVE  \A k \in jar'[j] : k.from = j /\ Ident(k) \notin withdrawn'
                   /\ \A m \in jar'[j] : Same(k, m) => k = m
    <3> DEFINE made == [key |-> s.key, path |-> s.path, from |-> j,
                        until |-> IF s.session THEN 0 ELSE clock + s.life]
    <3>1. \A k \in jar'[j] : \/ k \in jar[j] /\ ~Same(k, s)
                             \/ k = made /\ s.life > 0
      BY <2>1, <2>3 DEF Merged
    <3>2. made.from = j /\ Same(made, s)
      BY DEF Same
    <3>3. \A w \in withdrawn' : \/ w \in withdrawn /\ ~(w.from = j /\ Same(w, s))
                                \/ s.life = 0 /\ w = [key |-> s.key, path |-> s.path, from |-> j]
      BY <1>1, <1>3, <2>3 DEF KeepCookies
    <3>4. Ident(made) = [key |-> s.key, path |-> s.path, from |-> j]
      BY DEF Ident
    <3>5. s.life \in Nat
      BY WebAssumption
    <3>6. \A k : Same(Ident(k), s) <=> Same(k, s)
      BY DEF Ident, Same
    <3>6a. Ident(made).from = j
      BY <3>4
    <3> HIDE DEF made
    <3>7. \A k \in jar'[j] : k.from = j /\ Ident(k) \notin withdrawn'
      <4> SUFFICES ASSUME NEW k \in jar'[j]
                   PROVE  k.from = j /\ Ident(k) \notin withdrawn'
        OBVIOUS
      <4>1. CASE k \in jar[j] /\ ~Same(k, s)
        <5>1. k.from = j /\ Ident(k) \notin withdrawn
          BY <4>1 DEF CookieInv
        <5>2. Ident(k) # [key |-> s.key, path |-> s.path, from |-> j]
          BY <4>1 DEF Ident, Same
        <5> QED
          BY <5>1, <5>2, <3>3
      <4>2. CASE k = made /\ s.life > 0
        <5>1. Ident(k) \notin withdrawn'
          BY <4>2, <3>2, <3>3, <3>5, <3>6, <3>6a
        <5> QED
          BY <4>2, <5>1, <3>2
      <4> QED BY <3>1, <4>1, <4>2
    <3>8. \A k, m \in jar'[j] : Same(k, m) => k = m
      <4> SUFFICES ASSUME NEW k \in jar'[j], NEW m \in jar'[j], Same(k, m) PROVE k = m
        OBVIOUS
      <4>1. CASE k \in jar[j] /\ m \in jar[j]
        BY <4>1 DEF CookieInv
      <4>2. CASE ~(k \in jar[j] /\ m \in jar[j])
        BY <3>1, <3>2, <4>2 DEF Same
      <4> QED BY <4>1, <4>2
    <3> QED BY <3>7, <3>8
  <2> QED BY <2>2, <2>3
<1> QED BY <1>2, <1>3

\* The invariant of the cookies holds at the start.
LEMMA InitCookies == WebInit => CookieInv
BY DEF WebInit, CookieInv, CookiesStayHome, Idle, InFlight

\* Every step keeps the invariant of the cookies.
LEMMA NextCookies == WebTypes /\ CookieInv /\ [WebNext]_webVars => CookieInv'
<1> SUFFICES ASSUME WebTypes, CookieInv, [WebNext]_webVars PROVE CookieInv'
  OBVIOUS
<1>1. ASSUME NEW c \in Calls, NEW r \in Requests, HttpSession(c, r)
      PROVE  CookieInv'
  BY <1>1, RequestCookies DEF HttpSession, Starts
<1>2. ASSUME NEW c \in Calls, NEW r \in Requests, AuthSession(c, r)
      PROVE  CookieInv'
  <2>1. CASE InjectFails(r)
    BY <1>2, <2>1 DEF AuthSession, CookieInv, CookiesStayHome
  <2>2. CASE ~InjectFails(r)
    BY <1>2, <2>2, RequestCookies DEF AuthSession, Starts
  <2> QED BY <2>1, <2>2
<1>3. ASSUME UNCHANGED <<jar, withdrawn>>, NEW c \in Calls, NEW k,
             call' = [call EXCEPT ![c] = k], k.phase \notin InFlight
      PROVE  CookieInv'
  BY <1>3 DEF CookieInv, CookiesStayHome, WebTypes
<1>4. ASSUME UNCHANGED <<jar, withdrawn, call>>
      PROVE  CookieInv'
  BY <1>4 DEF CookieInv, CookiesStayHome
<1>5. ASSUME NEW c \in Calls, NEW e \in Engs, NEW n \in Names,
             MintUnsigned(c, e, n) \/ JwtSign(c, e, n)
      PROVE  CookieInv'
  BY <1>3, <1>4, <1>5 DEF MintUnsigned, JwtSign, InFlight
<1>6. ASSUME NEW c \in Calls, Send(c)
      PROVE  CookieInv'
  <2>1. call[c] \in [phase : InFlight, req : Requests, tokens : SUBSET TokenType,
                     cookies : SUBSET CookieType]
    BY <1>6 DEF Send, WebTypes, CallType, Idle, InFlight
  <2>2. \A d \in Calls :
          /\ call'[d].phase \in InFlight => call[d].phase \in InFlight
          /\ call[d].phase \in InFlight =>
                call'[d].req = call[d].req /\ call'[d].cookies = call[d].cookies
    BY <1>6, <2>1 DEF Send, WebTypes, InFlight
  <2>3. CookiesStayHome'
    <3> SUFFICES ASSUME NEW d \in Calls, call'[d].phase \in InFlight, NEW k \in call'[d].cookies
                 PROVE  k.from = Source(call'[d].req) /\ Covers(k, call'[d].req.path)
      BY DEF CookiesStayHome
    <3>1. call[d].phase \in InFlight
      BY <2>2
    <3>2. call'[d].req = call[d].req /\ call'[d].cookies = call[d].cookies
      BY <2>2, <3>1
    <3>3. \A m \in call[d].cookies :
            m.from = Source(call[d].req) /\ Covers(m, call[d].req.path)
      BY <3>1 DEF CookieInv, CookiesStayHome
    <3> QED
      BY <3>2, <3>3
  <2> QED
    BY <1>6, <2>3 DEF Send, CookieInv
<1>7. ASSUME NEW c \in Calls, Fail(c) \/ Revealed(c)
      PROVE  CookieInv'
  BY <1>3, <1>7 DEF Fail, Revealed, Idle, InFlight
<1>8. ASSUME NEW c \in Calls, Respond(c)
      PROVE  CookieInv'
  <2>1. call[c].req \in Requests
    BY <1>8 DEF Respond, WebTypes, CallType, Idle, InFlight
  <2>2. PICK new \in {{}} \cup {{s} : s \in SetCookies} : KeepCookies(call[c].req, new)
    BY <1>8 DEF Respond
  <2>3. CookiesStayHome'
    BY <1>8 DEF Respond, CookieInv, CookiesStayHome, WebTypes, Idle, InFlight
  <2> QED
    BY <2>1, <2>2, <2>3, KeepCookiesInv DEF CookieInv, Ident, Same
<1>9. CASE WebRestore \/ Tick \/ UNCHANGED webVars
  BY <1>4, <1>9 DEF WebRestore, Tick, webVars
<1> QED
  BY <1>1, <1>2, <1>5, <1>6, <1>7, <1>8, <1>9 DEF WebNext

\* Only a request puts a call on its way to its origin.
LEMMA StepCookies ==
    ASSUME WebTypes, CookieInv, [WebNext]_webVars, NEW c \in Calls,
           call[c] = Idle, call'[c].phase = "resolving"
    PROVE  \A k \in call'[c].cookies :
               (k.until = 0 \/ k.until > clock) /\ Ident(k) \notin withdrawn
<1>1. ASSUME NEW d \in Calls, NEW r \in Requests, NEW tokens,
             call[d] = Idle, Request(d, r, tokens), UNCHANGED withdrawn
      PROVE  \A k \in call'[c].cookies :
                 (k.until = 0 \/ k.until > clock) /\ Ident(k) \notin withdrawn
  <2>1. d = c
    BY <1>1 DEF Request, WebTypes, Idle
  <2> QED
    BY <1>1, <2>1, RequestCookies
<1>2. ASSUME NEW d \in Calls, NEW r \in Requests, HttpSession(d, r) \/ AuthSession(d, r)
      PROVE  \E tokens : Request(d, r, tokens) /\ call[d] = Idle /\ UNCHANGED withdrawn
  <2>1. CASE HttpSession(d, r)
    BY <2>1 DEF HttpSession, Starts
  <2>2. CASE AuthSession(d, r) /\ InjectFails(r)
    BY <2>2 DEF AuthSession, Idle
  <2>3. CASE AuthSession(d, r) /\ ~InjectFails(r)
    BY <2>3 DEF AuthSession, Starts
  <2> QED BY <1>2, <2>1, <2>2, <2>3
<1>3. ASSUME NEW d \in Calls, NEW k, call' = [call EXCEPT ![d] = k], k.phase # "resolving"
      PROVE  FALSE
  BY <1>3 DEF WebTypes, Idle
<1>4. ASSUME NEW d \in Calls, NEW e \in Engs, NEW n \in Names,
             MintUnsigned(d, e, n) \/ JwtSign(d, e, n)
      PROVE  FALSE
  BY <1>3, <1>4 DEF MintUnsigned, JwtSign, Idle
<1>5. ASSUME NEW d \in Calls, Send(d)
      PROVE  FALSE
  <2>1. call[d] \in [phase : InFlight, req : Requests, tokens : SUBSET TokenType,
                     cookies : SUBSET CookieType]
    BY <1>5 DEF Send, WebTypes, CallType, Idle, InFlight
  <2>2. call'[c].phase = "sent" \/ call'[c] = call[c]
    BY <1>5, <2>1 DEF Send, WebTypes
  <2> QED
    BY <2>2 DEF Idle
<1>6. ASSUME NEW d \in Calls, Fail(d) \/ Respond(d) \/ Revealed(d)
      PROVE  FALSE
  BY <1>3, <1>6 DEF Fail, Respond, Revealed, Idle
<1>7. CASE WebRestore \/ Tick \/ UNCHANGED webVars
  BY <1>7 DEF WebRestore, Tick, webVars, Idle
<1> QED
  BY <1>1, <1>2, <1>4, <1>5, <1>6, <1>7 DEF WebNext

\* What a request is begun with comes from its own jar: cookies go back only to
\* the origin, engagement and session they came from.
THEOREM CookiesAtHome == WebSpec => []CookiesStayHome
<1>1. WebInit => WebTypes /\ CookieInv
  BY InitTypes, InitCookies
<1>2. WebTypes /\ CookieInv /\ [WebNext]_webVars => (WebTypes /\ CookieInv)'
  BY NextTypes, NextCookies
<1>3. CookieInv => CookiesStayHome
  BY DEF CookieInv
<1> QED
  BY <1>1, <1>2, <1>3, PTL DEF WebSpec

\* No request is begun with a cookie that has expired or that the last answer
\* about it withdrew.
THEOREM CookiesAreGood == WebSpec => NoStaleCookie
<1>1. WebInit => WebTypes /\ CookieInv
  BY InitTypes, InitCookies
<1>2. WebTypes /\ CookieInv /\ [WebNext]_webVars => (WebTypes /\ CookieInv)'
  BY NextTypes, NextCookies
<1>3. WebTypes /\ CookieInv /\ [WebNext]_webVars =>
        [\A c \in Calls : call[c] = Idle /\ call'[c].phase = "resolving" =>
            \A k \in call'[c].cookies :
                /\ k.until = 0 \/ k.until > clock
                /\ [key |-> k.key, path |-> k.path, from |-> k.from] \notin withdrawn]_webVars
  BY StepCookies DEF Ident
<1> QED
  BY <1>1, <1>2, <1>3, PTL DEF WebSpec, NoStaleCookie
-----------------------------------------------------------------------------
(* Tokens *)

UseType ==
    [token : [kind : {"none", "issued", "signed"}, by : Origins \cup {Unbound}, n : Nat],
     slot : Slots, origin : Origins]

\* What was sent and what a call is about to send.
AllUses == sent \cup UNION {UsesOf(call[c]) : c \in Calls}

Revealing(c) == call[c].phase = "revealing"

\* Signatures are numbered; the number of one that is being made is in no slot
\* and in no request.
NumbersOK ==
    /\ \A s \in Slots : slot[s].kind = "signed" => slot[s].n <= begun
    /\ \A u \in AllUses : u.token.kind = "signed" => u.token.n <= begun
    /\ \A c \in Calls : Revealing(c) =>
        /\ call[c].number <= begun
        /\ \A s \in Slots : slot[s].kind = "signed" => slot[s].n # call[c].number
        /\ \A u \in AllUses : u.token.kind = "signed" => u.token.n # call[c].number
        /\ \A d \in Calls : Revealing(d) /\ call[d].number = call[c].number => d = c

\* An issued token is bound to its issuer, a signed one is in one slot.
SlotsOK ==
    /\ \A s \in Slots :
        slot[s].kind = "issued" => slot[s].origin = slot[s].by /\ slot[s].by \in Origins
    /\ \A s, t \in Slots : slot[s].kind = "signed" /\ Mark(slot[s]) = Mark(slot[t]) => s = t

\* A signed token in use is bound, in its slot, to the origin of its uses.
UsesOK ==
    /\ AllUses \subseteq UseType
    /\ \A u \in AllUses : u.token.kind = "issued" => u.token.by = u.origin
    /\ \A u, v \in AllUses :
        u.token.kind = "signed" /\ u.token = v.token => u.origin = v.origin /\ u.slot = v.slot
    /\ \A u \in AllUses, s \in Slots :
        u.token.kind = "signed" /\ u.token = Mark(slot[s]) =>
            s = u.slot /\ slot[s].origin = u.origin

TokenInv == NumbersOK /\ SlotsOK /\ UsesOK

\* When one call changes, the others carry what they carried.
LEMMA UsesAfter ==
    ASSUME WebTypes, NEW c \in Calls, NEW k, call' = [call EXCEPT ![c] = k], sent' = sent
    PROVE  AllUses' \subseteq AllUses \cup UsesOf(k)
<1>1. \A d \in Calls : UsesOf(call[d])' = UsesOf(call'[d])
  BY DEF UsesOf, InFlight, SlotOf, Mark
<1>2. \A d \in Calls : call'[d] = IF d = c THEN k ELSE call[d]
  BY DEF WebTypes
<1>3. AllUses' = sent' \cup UNION {UsesOf(call'[d]) : d \in Calls}
  BY DEF AllUses, UsesOf, InFlight, SlotOf, Mark
<1>4. \A d \in Calls : UsesOf(call'[d]) \subseteq UsesOf(k) \cup UsesOf(call[d])
  BY <1>2
<1>5. SUFFICES ASSUME NEW u \in AllUses', u \notin sent PROVE u \in AllUses \cup UsesOf(k)
  BY DEF AllUses
<1>6. PICK d \in Calls : u \in UsesOf(call'[d])
  BY <1>3, <1>5
<1> QED
  BY <1>4, <1>6 DEF AllUses

\* A step that leaves the slots alone, uses no token and begins no signature.
LEMMA QuietStep ==
    ASSUME WebTypes, WebTypes', TokenInv, UNCHANGED slot, AllUses' \subseteq AllUses,
           begun <= begun', \A c \in Calls : Revealing(c)' => call'[c] = call[c]
    PROVE  TokenInv'
<1>1. begun \in Nat /\ begun' \in Nat
  BY WebAssumption DEF WebTypes
<1>2. \A s \in Slots : slot[s].n \in Nat
  BY DEF WebTypes, TokenType
<1>3. \A u \in AllUses : u.token.n \in Nat
  BY DEF TokenInv, UsesOK, UseType
<1>4. \A c \in Calls : Revealing(c)' => Revealing(c) /\ call'[c].number = call[c].number
                                       /\ call[c].number \in Nat
  BY DEF Revealing, WebTypes, CallType, Idle, InFlight
<1>5. NumbersOK'
  <2>1. \A s \in Slots : slot'[s].kind = "signed" => slot'[s].n <= begun'
    BY <1>1, <1>2 DEF TokenInv, NumbersOK
  <2>2. \A u \in AllUses' : u.token.kind = "signed" => u.token.n <= begun'
    BY <1>1, <1>3 DEF TokenInv, NumbersOK
  <2>3. \A c \in Calls : Revealing(c)' =>
        /\ call'[c].number <= begun'
        /\ \A s \in Slots : slot'[s].kind = "signed" => slot'[s].n # call'[c].number
        /\ \A u \in AllUses' : u.token.kind = "signed" => u.token.n # call'[c].number
        /\ \A d \in Calls : Revealing(d)' /\ call'[d].number = call'[c].number => d = c
    BY <1>1, <1>4 DEF TokenInv, NumbersOK
  <2> QED BY <2>1, <2>2, <2>3 DEF NumbersOK
<1>6. SlotsOK'
  BY DEF TokenInv, SlotsOK, Mark
<1>7. UsesOK'
  BY DEF TokenInv, UsesOK, Mark, UseType
<1> QED
  BY <1>5, <1>6, <1>7 DEF TokenInv

\* A token with a number that nothing has is put into a slot.
LEMMA SignStep ==
    ASSUME WebTypes, WebTypes', TokenInv, NEW e \in Engs, NEW n \in Names, NEW number \in Nat,
           Signed(e, n, number), AllUses' \subseteq AllUses, begun <= begun', number <= begun',
           \A s \in Slots : slot[s].kind = "signed" => slot[s].n # number,
           \A u \in AllUses : u.token.kind = "signed" => u.token.n # number,
           \A c \in Calls : Revealing(c)' => call'[c] = call[c] /\ call[c].number # number
    PROVE  TokenInv'
<1> DEFINE x == <<e, n>>
           new == [kind |-> "signed", by |-> Unbound, n |-> number, origin |-> Unbound]
<1>1. begun \in Nat /\ begun' \in Nat
  BY WebAssumption DEF WebTypes
<1>2. \A s \in Slots : slot[s].n \in Nat
  BY DEF WebTypes, TokenType
<1>3. \A u \in AllUses : u.token.n \in Nat
  BY DEF TokenInv, UsesOK, UseType
<1>4. \A c \in Calls : Revealing(c)' => Revealing(c) /\ call'[c].number = call[c].number
                                       /\ call[c].number \in Nat /\ call[c].number # number
  BY DEF Revealing, WebTypes, CallType, Idle, InFlight
<1>5. x \in Slots /\ \A s \in Slots : slot'[s] = IF s = x THEN new ELSE slot[s]
  BY DEF Signed, WebTypes, Slots
<1>6. new.kind = "signed" /\ new.n = number /\ Mark(new).n = number
      /\ \A t : Mark(t).n = t.n /\ Mark(t).kind = t.kind
  BY DEF Mark
<1> HIDE DEF new, x
<1>7. NumbersOK'
  <2>1. \A s \in Slots : slot'[s].kind = "signed" => slot'[s].n <= begun'
    BY <1>1, <1>2, <1>5, <1>6 DEF TokenInv, NumbersOK
  <2>2. \A u \in AllUses' : u.token.kind = "signed" => u.token.n <= begun'
    BY <1>1, <1>3 DEF TokenInv, NumbersOK
  <2>3. \A c \in Calls : Revealing(c)' =>
        /\ call'[c].number <= begun'
        /\ \A s \in Slots : slot'[s].kind = "signed" => slot'[s].n # call'[c].number
        /\ \A u \in AllUses' : u.token.kind = "signed" => u.token.n # call'[c].number
        /\ \A d \in Calls : Revealing(d)' /\ call'[d].number = call'[c].number => d = c
    BY <1>1, <1>4, <1>5, <1>6 DEF TokenInv, NumbersOK
  <2> QED BY <2>1, <2>2, <2>3 DEF NumbersOK
<1>8. SlotsOK'
  <2>1. \A s \in Slots : slot'[s].kind = "issued" =>
            slot'[s].origin = slot'[s].by /\ slot'[s].by \in Origins
    BY <1>5, <1>6 DEF TokenInv, SlotsOK
  <2>2. \A s, t \in Slots : slot'[s].kind = "signed" /\ Mark(slot'[s]) = Mark(slot'[t]) => s = t
    <3> SUFFICES ASSUME NEW s \in Slots, NEW t \in Slots, slot'[s].kind = "signed",
                        Mark(slot'[s]) = Mark(slot'[t])
                 PROVE  s = t
      OBVIOUS
    <3>1. slot'[t].kind = "signed" /\ slot'[s].n = slot'[t].n
      BY <1>6
    <3>2. CASE s = x \/ t = x
      BY <3>1, <3>2, <1>5, <1>6
    <3>3. CASE s # x /\ t # x
      BY <3>3, <1>5 DEF TokenInv, SlotsOK
    <3> QED BY <3>2, <3>3
  <2> QED BY <2>1, <2>2 DEF SlotsOK, Mark
<1>9. UsesOK'
  <2>1. \A u \in AllUses', s \in Slots :
          u.token.kind = "signed" /\ u.token = Mark(slot'[s]) =>
              s = u.slot /\ slot'[s].origin = u.origin
    <3> SUFFICES ASSUME NEW u \in AllUses', NEW s \in Slots, u.token.kind = "signed",
                        u.token = Mark(slot'[s])
                 PROVE  s = u.slot /\ slot'[s].origin = u.origin
      OBVIOUS
    <3>1. s # x
      BY <1>5, <1>6
    <3> QED
      BY <3>1, <1>5 DEF TokenInv, UsesOK
  <2> QED
    BY <2>1 DEF TokenInv, UsesOK, Mark, UseType
<1> QED
  BY <1>7, <1>8, <1>9 DEF TokenInv

\* The token of an answer replaces what its slot held.
LEMMA IssueStep ==
    ASSUME WebTypes, WebTypes', TokenInv, NEW r \in Requests, NEW found, KeepToken(r, found),
           AllUses' \subseteq AllUses, begun' = begun,
           \A c \in Calls : Revealing(c)' => call'[c] = call[c]
    PROVE  TokenInv'
<1> DEFINE x == SlotOf(r)
           new == [kind |-> "issued", by |-> r.origin, n |-> 0, origin |-> r.origin]
<1>1. x \in Slots /\ r.origin \in Origins
  BY RequestsHaveTables
<1>2. CASE slot' = slot
  BY <1>2, QuietStep, WebAssumption DEF WebTypes
<1>3. CASE slot' = [slot EXCEPT ![x] = new]
  <2>1. \A s \in Slots : slot'[s] = IF s = x THEN new ELSE slot[s]
    BY <1>1, <1>3 DEF WebTypes
  <2>2. new.kind = "issued" /\ new.origin = new.by /\ new.by \in Origins
        /\ \A t : Mark(t).n = t.n /\ Mark(t).kind = t.kind
    BY <1>1 DEF Mark
  <2>3. \A c \in Calls : Revealing(c)' => Revealing(c) /\ call'[c].number = call[c].number
    BY DEF Revealing
  <2> HIDE DEF new, x
  <2>4. NumbersOK'
    <3>1. \A s \in Slots : slot'[s].kind = "signed" => slot'[s].n <= begun'
      BY <2>1, <2>2 DEF TokenInv, NumbersOK
    <3>2. \A u \in AllUses' : u.token.kind = "signed" => u.token.n <= begun'
      BY DEF TokenInv, NumbersOK
    <3>3. \A c \in Calls : Revealing(c)' =>
          /\ call'[c].number <= begun'
          /\ \A s \in Slots : slot'[s].kind = "signed" => slot'[s].n # call'[c].number
          /\ \A u \in AllUses' : u.token.kind = "signed" => u.token.n # call'[c].number
          /\ \A d \in Calls : Revealing(d)' /\ call'[d].number = call'[c].number => d = c
      BY <2>1, <2>2, <2>3 DEF TokenInv, NumbersOK
    <3> QED BY <3>1, <3>2, <3>3 DEF NumbersOK
  <2>5. SlotsOK'
    <3>1. \A s \in Slots : slot'[s].kind = "issued" =>
              slot'[s].origin = slot'[s].by /\ slot'[s].by \in Origins
      BY <2>1, <2>2 DEF TokenInv, SlotsOK
    <3>2. \A s, t \in Slots :
              slot'[s].kind = "signed" /\ Mark(slot'[s]) = Mark(slot'[t]) => s = t
      <4> SUFFICES ASSUME NEW s \in Slots, NEW t \in Slots, slot'[s].kind = "signed",
                          Mark(slot'[s]) = Mark(slot'[t])
                   PROVE  s = t
        OBVIOUS
      <4>1. s # x /\ t # x
        BY <2>1, <2>2
      <4> QED
        BY <4>1, <2>1 DEF TokenInv, SlotsOK
    <3> QED BY <3>1, <3>2 DEF SlotsOK, Mark
  <2>6. UsesOK'
    <3>1. \A u \in AllUses', s \in Slots :
            u.token.kind = "signed" /\ u.token = Mark(slot'[s]) =>
                s = u.slot /\ slot'[s].origin = u.origin
      <4> SUFFICES ASSUME NEW u \in AllUses', NEW s \in Slots, u.token.kind = "signed",
                          u.token = Mark(slot'[s])
                   PROVE  s = u.slot /\ slot'[s].origin = u.origin
        OBVIOUS
      <4>1. s # x
        BY <2>1, <2>2
      <4> QED
        BY <4>1, <2>1 DEF TokenInv, UsesOK
    <3> QED
      BY <3>1 DEF TokenInv, UsesOK, Mark, UseType
  <2> QED
    BY <2>4, <2>5, <2>6 DEF TokenInv
<1> QED
  BY <1>2, <1>3 DEF KeepToken

\* A request binds the token of its slot to its origin and may carry it.
LEMMA UseStep ==
    ASSUME WebTypes, WebTypes', TokenInv, NEW r \in Requests,
           LET t == slot[SlotOf(r)] IN
           /\ t.origin \in {Unbound, r.origin}
           /\ slot' = IF t = NoToken THEN slot ELSE [slot EXCEPT ![SlotOf(r)].origin = r.origin]
           /\ \A u \in AllUses' : \/ u \in AllUses
                                  \/ /\ t # NoToken
                                     /\ u = [token |-> Mark(t), slot |-> SlotOf(r),
                                             origin |-> r.origin],
           begun <= begun', \A c \in Calls : Revealing(c)' => call'[c] = call[c]
    PROVE  TokenInv'
<1> DEFINE x == SlotOf(r)
           use == [token |-> Mark(slot[x]), slot |-> x, origin |-> r.origin]
<1>1. x \in Slots /\ r.origin \in Origins /\ r.origin # Unbound
  BY RequestsHaveTables, WebAssumption
<1>2. begun \in Nat /\ begun' \in Nat
  BY WebAssumption DEF WebTypes
<1>3. slot[x] \in TokenType /\ \A s \in Slots : slot[s].n \in Nat
  BY <1>1 DEF WebTypes, TokenType
<1>4. CASE slot[x] = NoToken
  <2>1. UNCHANGED slot /\ AllUses' \subseteq AllUses
    BY <1>4
  <2> QED
    BY <2>1, QuietStep
<1>5. CASE slot[x] # NoToken
  <2> DEFINE bound == [slot[x] EXCEPT !.origin = r.origin]
  <2>1. \A s \in Slots : slot'[s] = IF s = x THEN bound ELSE slot[s]
    BY <1>1, <1>5 DEF WebTypes
  <2>2. bound.kind = slot[x].kind /\ bound.by = slot[x].by /\ bound.n = slot[x].n
        /\ bound.origin = r.origin
    BY <1>3 DEF TokenType
  <2>3. \A s \in Slots :
          /\ slot'[s].kind = slot[s].kind
          /\ slot'[s].by = slot[s].by
          /\ slot'[s].n = slot[s].n
          /\ slot'[s].origin = IF s = x THEN r.origin ELSE slot[s].origin
    <3> SUFFICES ASSUME NEW s \in Slots
                 PROVE  /\ slot'[s].kind = slot[s].kind
                        /\ slot'[s].by = slot[s].by
                        /\ slot'[s].n = slot[s].n
                        /\ slot'[s].origin = IF s = x THEN r.origin ELSE slot[s].origin
      OBVIOUS
    <3>1. CASE s = x
      <4>1. slot'[s] = bound
        BY <2>1, <3>1
      <4> QED
        BY <4>1, <2>2, <3>1
    <3>2. CASE s # x
      <4>1. slot'[s] = slot[s]
        BY <2>1, <3>2
      <4> QED
        BY <4>1, <3>2
    <3> QED BY <3>1, <3>2
  <2>4. \A s \in Slots : Mark(slot'[s]) = Mark(slot[s])
    BY <2>3 DEF Mark
  <2>5. /\ use \in UseType
        /\ use.token = Mark(slot[x]) /\ use.token.kind = slot[x].kind
        /\ use.token.n = slot[x].n /\ use.token.by = slot[x].by
        /\ use.slot = x /\ use.origin = r.origin
    BY <1>1, <1>3 DEF UseType, Mark, TokenType
  <2>6. \A u \in AllUses' : u \in AllUses \/ u = use
    OBVIOUS
  <2>7. slot[x].origin \in {Unbound, r.origin}
    OBVIOUS
  <2>8. \A c \in Calls : Revealing(c)' => Revealing(c) /\ call'[c].number = call[c].number
                                       /\ call[c].number \in Nat
    BY DEF Revealing, WebTypes, CallType, Idle, InFlight
  <2>9. \A u \in AllUses : u.token.n \in Nat
    BY DEF TokenInv, UsesOK, UseType
  <2> HIDE DEF use, bound, x
  <2>10. NumbersOK'
    <3>1. \A s \in Slots : slot'[s].kind = "signed" => slot'[s].n <= begun'
      BY <1>2, <1>3, <2>3 DEF TokenInv, NumbersOK
    <3>2. \A u \in AllUses' : u.token.kind = "signed" => u.token.n <= begun'
      BY <1>1, <1>2, <1>3, <2>5, <2>6, <2>9 DEF TokenInv, NumbersOK
    <3>3. \A c \in Calls : Revealing(c)' =>
          /\ call'[c].number <= begun'
          /\ \A s \in Slots : slot'[s].kind = "signed" => slot'[s].n # call'[c].number
          /\ \A u \in AllUses' : u.token.kind = "signed" => u.token.n # call'[c].number
          /\ \A d \in Calls : Revealing(d)' /\ call'[d].number = call'[c].number => d = c
      BY <1>1, <1>2, <2>3, <2>5, <2>6, <2>8 DEF TokenInv, NumbersOK
    <3> QED BY <3>1, <3>2, <3>3 DEF NumbersOK
  <2>11. SlotsOK'
    <3>1. \A s \in Slots : slot'[s].kind = "issued" =>
              slot'[s].origin = slot'[s].by /\ slot'[s].by \in Origins
      BY <1>1, <2>3, <2>7, WebAssumption DEF TokenInv, SlotsOK
    <3>2. \A s, t \in Slots :
              slot'[s].kind = "signed" /\ Mark(slot'[s]) = Mark(slot'[t]) => s = t
      BY <2>3, <2>4 DEF TokenInv, SlotsOK
    <3> QED BY <3>1, <3>2 DEF SlotsOK, Mark
  <2>12. UsesOK'
    <3>1. AllUses' \subseteq UseType
      BY <2>5, <2>6 DEF TokenInv, UsesOK
    <3>2. \A u \in AllUses' : u.token.kind = "issued" => u.token.by = u.origin
      <4>1. slot[x].kind = "issued" => slot[x].by = r.origin
        BY <1>1, <2>7, WebAssumption DEF TokenInv, SlotsOK
      <4>2. \A u \in AllUses : u.token.kind = "issued" => u.token.by = u.origin
        BY DEF TokenInv, UsesOK
      <4> QED
        BY <4>1, <4>2, <2>5, <2>6
    \* A use of the same signed token before: it is of this slot and origin.
    <3>3. \A u \in AllUses : u.token.kind = "signed" /\ u.token = use.token =>
              u.origin = use.origin /\ u.slot = use.slot
      <4> SUFFICES ASSUME NEW u \in AllUses, u.token.kind = "signed", u.token = use.token
                   PROVE  u.origin = use.origin /\ u.slot = use.slot
        OBVIOUS
      <4>1. x = u.slot /\ slot[x].origin = u.origin
        BY <1>1, <2>5 DEF TokenInv, UsesOK
      <4>2. u.origin \in Origins
        BY DEF TokenInv, UsesOK, UseType
      <4> QED
        BY <4>1, <4>2, <2>5, <2>7, WebAssumption
    <3>4. \A u, v \in AllUses' :
            u.token.kind = "signed" /\ u.token = v.token => u.origin = v.origin /\ u.slot = v.slot
      BY <2>6, <3>3 DEF TokenInv, UsesOK
    <3>5. \A u \in AllUses', s \in Slots :
            u.token.kind = "signed" /\ u.token = Mark(slot'[s]) =>
                s = u.slot /\ slot'[s].origin = u.origin
      <4> SUFFICES ASSUME NEW u \in AllUses', NEW s \in Slots, u.token.kind = "signed",
                          u.token = Mark(slot[s])
                   PROVE  s = u.slot /\ slot'[s].origin = u.origin
        BY <2>4
      <4>1. CASE u \in AllUses
        <5>1. s = u.slot /\ slot[s].origin = u.origin
          BY <4>1 DEF TokenInv, UsesOK
        <5>2. u.origin \in Origins
          BY <4>1 DEF TokenInv, UsesOK, UseType
        <5> QED
          BY <5>1, <5>2, <2>3, <2>7, WebAssumption
      <4>2. CASE u = use
        <5>1. Mark(slot[x]) = Mark(slot[s]) /\ slot[x].kind = "signed"
          BY <4>2, <2>5
        <5>2. s = x
          BY <5>1, <1>1 DEF TokenInv, SlotsOK
        <5> QED
          BY <5>2, <4>2, <2>3, <2>5
      <4> QED BY <2>6, <4>1, <4>2
    <3> QED
      BY <3>1, <3>2, <3>4, <3>5 DEF UsesOK, Mark, UseType
  <2> QED
    BY <2>10, <2>11, <2>12 DEF TokenInv
<1> QED BY <1>4, <1>5

\* A signature that waits for its key takes the next number.
LEMMA WaitStep ==
    ASSUME WebTypes, WebTypes', TokenInv, NEW c \in Calls, NEW k,
           k.phase = "revealing", k.number = begun + 1, begun' = begun + 1,
           call' = [call EXCEPT ![c] = k], UNCHANGED <<slot, sent>>
    PROVE  TokenInv'
<1>1. begun \in Nat
  BY WebAssumption DEF WebTypes
<1>2. UsesOf(k) = {}
  BY DEF UsesOf, InFlight
<1>3. AllUses' \subseteq AllUses
  BY <1>2, UsesAfter
<1>4. \A s \in Slots : slot[s].kind = "signed" => slot[s].n \in Nat /\ slot[s].n <= begun
  BY DEF WebTypes, TokenType, TokenInv, NumbersOK
<1>5. \A u \in AllUses : u.token.kind = "signed" => u.token.n \in Nat /\ u.token.n <= begun
  BY DEF TokenInv, UsesOK, UseType, NumbersOK
<1>6. \A d \in Calls : IF d = c THEN call'[d] = k ELSE call'[d] = call[d]
  BY DEF WebTypes
<1>7. \A d \in Calls : Revealing(d)' /\ d # c =>
        /\ Revealing(d) /\ call'[d].number = call[d].number
        /\ call[d].number \in Nat /\ call[d].number <= begun
  BY <1>6 DEF Revealing, WebTypes, CallType, Idle, InFlight, TokenInv, NumbersOK
<1>8. call'[c].number = begun + 1
  BY <1>6
<1>9. NumbersOK'
  <2>1. \A s \in Slots : slot'[s].kind = "signed" => slot'[s].n <= begun'
    BY <1>1, <1>4
  <2>2. \A u \in AllUses' : u.token.kind = "signed" => u.token.n <= begun'
    BY <1>1, <1>3, <1>5
  <2>3. ASSUME NEW d \in Calls, Revealing(d)'
        PROVE  /\ call'[d].number <= begun'
               /\ \A s \in Slots : slot'[s].kind = "signed" => slot'[s].n # call'[d].number
               /\ \A u \in AllUses' : u.token.kind = "signed" => u.token.n # call'[d].number
               /\ \A f \in Calls : Revealing(f)' /\ call'[f].number = call'[d].number => f = d
    <3>1. CASE d = c
      BY <3>1, <2>3, <1>1, <1>3, <1>4, <1>5, <1>7, <1>8
    <3>2. CASE d # c
      BY <3>2, <2>3, <1>1, <1>3, <1>7, <1>8 DEF TokenInv, NumbersOK
    <3> QED BY <3>1, <3>2
  <2> QED BY <2>1, <2>2, <2>3 DEF NumbersOK
<1>10. SlotsOK'
  BY DEF TokenInv, SlotsOK, Mark
<1>11. UsesOK'
  BY <1>3 DEF TokenInv, UsesOK, Mark, UseType
<1> QED
  BY <1>9, <1>10, <1>11 DEF TokenInv

\* The invariant of the tokens holds at the start.
LEMMA InitTokens == WebInit => TokenInv
<1> SUFFICES ASSUME WebInit PROVE TokenInv
  OBVIOUS
<1>1. AllUses = {}
  BY DEF WebInit, AllUses, UsesOf, Idle, InFlight
<1> QED
  BY <1>1 DEF WebInit, TokenInv, NumbersOK, SlotsOK, UsesOK, NoToken, Revealing, Idle

\* Every step keeps the invariant of the tokens.
LEMMA NextTokens == WebTypes /\ TokenInv /\ [WebNext]_webVars => TokenInv'
<1> SUFFICES ASSUME WebTypes, TokenInv, [WebNext]_webVars PROVE TokenInv'
  OBVIOUS
<1>1. WebTypes'
  BY NextTypes
<1>2. begun \in Nat /\ begun' \in Nat
  BY <1>1, WebAssumption DEF WebTypes
\* What Request does to the calls.
<1>3. ASSUME NEW c \in Calls, NEW r \in Requests, NEW tokens, Request(c, r, tokens),
             call[c] = Idle, UNCHANGED sent
      PROVE  /\ AllUses' \subseteq AllUses \cup
                    {[token |-> Mark(t), slot |-> SlotOf(r), origin |-> r.origin] : t \in tokens}
             /\ \A d \in Calls : Revealing(d)' => call'[d] = call[d]
  <2>1. CASE call' = call
    <3>1. AllUses' = AllUses
      BY <1>3, <2>1 DEF AllUses, UsesOf, SlotOf, Mark, InFlight
    <3> QED BY <2>1, <3>1
  <2>2. ASSUME NEW cookies,
               call' = [call EXCEPT ![c] = [phase |-> "resolving", req |-> r,
                                            tokens |-> tokens, cookies |-> cookies]]
        PROVE  /\ AllUses' \subseteq AllUses \cup
                      {[token |-> Mark(t), slot |-> SlotOf(r), origin |-> r.origin] :
                          t \in tokens}
               /\ \A d \in Calls : Revealing(d)' => call'[d] = call[d]
    <3> DEFINE k == [phase |-> "resolving", req |-> r, tokens |-> tokens, cookies |-> cookies]
    <3>1. UsesOf(k) = {[token |-> Mark(t), slot |-> SlotOf(r), origin |-> r.origin] :
                          t \in tokens}
      BY DEF UsesOf, InFlight
    <3>2. AllUses' \subseteq AllUses \cup UsesOf(k)
      BY <1>3, <2>2, UsesAfter
    <3>3. \A d \in Calls : Revealing(d)' => call'[d] = call[d]
      BY <2>2 DEF Revealing, WebTypes
    <3> QED BY <3>1, <3>2, <3>3
  <2> QED
    BY <1>3, <2>1, <2>2 DEF Request
<1>4. ASSUME NEW c \in Calls, NEW r \in Requests, HttpSession(c, r)
      PROVE  TokenInv'
  <2>1. Request(c, r, {}) /\ call[c] = Idle /\ UNCHANGED <<slot, sent>> /\ begun' = begun + 1
    BY <1>4 DEF HttpSession, Starts
  <2>2. AllUses' \subseteq AllUses /\ \A d \in Calls : Revealing(d)' => call'[d] = call[d]
    BY <1>3, <2>1
  <2> QED
    BY <1>1, <1>2, <2>1, <2>2, QuietStep
<1>5. ASSUME NEW c \in Calls, NEW r \in Requests, AuthSession(c, r)
      PROVE  TokenInv'
  <2> DEFINE t == slot[SlotOf(r)]
  <2>1. /\ t.origin \in {Unbound, r.origin}
        /\ slot' = IF t = NoToken THEN slot ELSE [slot EXCEPT ![SlotOf(r)].origin = r.origin]
        /\ call[c] = Idle /\ UNCHANGED sent /\ begun' = begun + 1
    BY <1>5 DEF AuthSession, Starts
  <2>2. t \in TokenType
    BY RequestsHaveTables DEF WebTypes
  <2>3. \A v \in Carried(r) : t # NoToken /\ Mark(v) = Mark(t)
    BY <2>2 DEF Carried, Mark, TokenType
  <2>4. /\ \A u \in AllUses' :
              \/ u \in AllUses
              \/ t # NoToken /\ u = [token |-> Mark(t), slot |-> SlotOf(r), origin |-> r.origin]
        /\ \A d \in Calls : Revealing(d)' => call'[d] = call[d]
    <3>1. CASE InjectFails(r)
      <4>1. call' = call
        BY <1>5, <3>1 DEF AuthSession
      <4>2. AllUses' = AllUses
        BY <2>1, <4>1 DEF AllUses, UsesOf, SlotOf, Mark, InFlight
      <4> QED BY <4>1, <4>2
    <3>2. CASE ~InjectFails(r)
      <4>1. Request(c, r, Carried(r))
        BY <1>5, <3>2 DEF AuthSession
      <4>2. /\ AllUses' \subseteq AllUses \cup
                  {[token |-> Mark(v), slot |-> SlotOf(r), origin |-> r.origin] :
                      v \in Carried(r)}
            /\ \A d \in Calls : Revealing(d)' => call'[d] = call[d]
        BY <1>3, <2>1, <4>1
      <4> HIDE DEF t
      <4> QED BY <2>3, <4>2
    <3> QED BY <3>1, <3>2
  <2> QED
    BY <1>1, <1>2, <2>1, <2>4, UseStep
<1>6. ASSUME NEW c \in Calls, NEW e \in Engs, NEW n \in Names, MintUnsigned(c, e, n)
      PROVE  TokenInv'
  <2>1. Signed(e, n, begun + 1) /\ UNCHANGED <<call, sent>> /\ begun' = begun + 1
    BY <1>6 DEF MintUnsigned, Starts
  <2>2. AllUses' = AllUses
    BY <2>1 DEF AllUses, UsesOf, SlotOf, Mark, InFlight
  <2>3. \A s \in Slots : slot[s].kind = "signed" => slot[s].n # begun + 1
    BY <1>2 DEF WebTypes, TokenType, TokenInv, NumbersOK
  <2>4. \A u \in AllUses : u.token.kind = "signed" => u.token.n # begun + 1
    BY <1>2 DEF TokenInv, UsesOK, UseType, NumbersOK
  <2>5. \A d \in Calls : Revealing(d)' => call'[d] = call[d] /\ call[d].number # begun + 1
    BY <1>2, <2>1 DEF Revealing, WebTypes, CallType, Idle, InFlight, TokenInv, NumbersOK
  <2> QED
    BY <1>1, <1>2, <2>1, <2>2, <2>3, <2>4, <2>5, SignStep
<1>7. ASSUME NEW c \in Calls, NEW e \in Engs, NEW n \in Names, JwtSign(c, e, n)
      PROVE  TokenInv'
  BY <1>1, <1>7, WaitStep DEF JwtSign, Starts
<1>8. ASSUME NEW c \in Calls, Send(c)
      PROVE  TokenInv'
  <2>1. call[c] \in [phase : InFlight, req : Requests, tokens : SUBSET TokenType,
                     cookies : SUBSET CookieType]
    BY <1>8 DEF Send, WebTypes, CallType, Idle, InFlight
  <2> DEFINE k == [call[c] EXCEPT !.phase = "sent"]
  <2>2. k.phase = "sent" /\ k.req = call[c].req /\ k.tokens = call[c].tokens
    BY <2>1
  <2>3. UsesOf(k) = UsesOf(call[c])
    BY <1>8, <2>2 DEF Send, UsesOf, InFlight
  <2>4. call' = [call EXCEPT ![c] = k] /\ sent' = sent \cup UsesOf(call[c])
    BY <1>8 DEF Send
  <2> HIDE DEF k
  <2>5. \A d \in Calls : call'[d] = IF d = c THEN k ELSE call[d]
    BY <2>4 DEF WebTypes
  <2>6. AllUses' = sent' \cup UNION {UsesOf(call'[d]) : d \in Calls}
    BY DEF AllUses, UsesOf, InFlight, SlotOf, Mark
  <2>7. \A d \in Calls : UsesOf(call'[d]) = UsesOf(call[d])
    BY <2>3, <2>5
  <2>8. AllUses' \subseteq AllUses
    BY <2>4, <2>6, <2>7 DEF AllUses
  <2>9. \A d \in Calls : Revealing(d)' => call'[d] = call[d]
    BY <2>2, <2>5 DEF Revealing
  <2> QED
    BY <1>1, <1>2, <1>8, <2>8, <2>9, QuietStep DEF Send
<1>9. ASSUME NEW c \in Calls, call' = [call EXCEPT ![c] = Idle], UNCHANGED sent
      PROVE  /\ AllUses' \subseteq AllUses
             /\ \A d \in Calls : Revealing(d)' => call'[d] = call[d] /\ d # c
  <2>1. UsesOf(Idle) = {}
    BY DEF UsesOf, Idle, InFlight
  <2>2. AllUses' \subseteq AllUses
    BY <1>9, <2>1, UsesAfter
  <2> QED
    BY <1>9, <2>2 DEF Revealing, WebTypes, Idle
<1>10. ASSUME NEW c \in Calls, Fail(c)
       PROVE  TokenInv'
  <2>1. call' = [call EXCEPT ![c] = Idle] /\ UNCHANGED <<slot, begun, sent>>
    BY <1>10 DEF Fail
  <2>2. /\ AllUses' \subseteq AllUses
        /\ \A d \in Calls : Revealing(d)' => call'[d] = call[d]
    BY <1>9, <2>1
  <2> QED
    BY <1>1, <1>2, <2>1, <2>2, QuietStep
<1>11. ASSUME NEW c \in Calls, Respond(c)
       PROVE  TokenInv'
  <2>1. call[c].req \in Requests
    BY <1>11 DEF Respond, WebTypes, CallType, Idle, InFlight
  <2>2. \E found \in BOOLEAN : KeepToken(call[c].req, found)
    BY <1>11 DEF Respond
  <2>3. call' = [call EXCEPT ![c] = Idle] /\ UNCHANGED <<begun, sent>>
    BY <1>11 DEF Respond
  <2> QED
    BY <1>1, <1>9, <2>1, <2>2, <2>3, IssueStep
<1>12. ASSUME NEW c \in Calls, Revealed(c)
       PROVE  TokenInv'
  <2>1. /\ call' = [call EXCEPT ![c] = Idle] /\ UNCHANGED <<begun, sent>> /\ Revealing(c)
        /\ Signed(call[c].eng, call[c].name, call[c].number) \/ UNCHANGED slot
    BY <1>12 DEF Revealed, Revealing
  <2>2. /\ AllUses' \subseteq AllUses
        /\ \A d \in Calls : Revealing(d)' => call'[d] = call[d] /\ d # c
    BY <1>9, <2>1
  <2>3. CASE UNCHANGED slot
    BY <1>1, <1>2, <2>1, <2>2, <2>3, QuietStep
  <2>4. CASE Signed(call[c].eng, call[c].name, call[c].number)
    <3>1. call[c].eng \in Engs /\ call[c].name \in Names /\ call[c].number \in Nat
      BY <2>1 DEF Revealing, WebTypes, CallType, Idle, InFlight
    <3>2. \A d \in Calls : Revealing(d)' => Revealing(d)
      BY <2>2 DEF Revealing
    <3>3. /\ call[c].number <= begun
          /\ \A s \in Slots : slot[s].kind = "signed" => slot[s].n # call[c].number
          /\ \A u \in AllUses : u.token.kind = "signed" => u.token.n # call[c].number
          /\ \A d \in Calls : Revealing(d)' => call[d].number # call[c].number
      BY <2>1, <2>2, <3>2 DEF TokenInv, NumbersOK
    <3> QED
      BY <1>1, <1>2, <2>1, <2>2, <2>4, <3>1, <3>3, SignStep
  <2> QED BY <2>1, <2>3, <2>4
<1>13. CASE WebRestore \/ Tick \/ UNCHANGED webVars
  <2>1. UNCHANGED <<slot, call, begun, sent>>
    BY <1>13 DEF WebRestore, Tick, webVars
  <2>2. AllUses' = AllUses
    BY <2>1 DEF AllUses, UsesOf, SlotOf, Mark, InFlight
  <2> QED
    BY <1>1, <1>2, <2>1, <2>2, QuietStep
<1> QED
  BY <1>4, <1>5, <1>6, <1>7, <1>8, <1>10, <1>11, <1>12, <1>13 DEF WebNext

\* Every token leaves towards one origin only, its issuer or the first it was
\* used at, and from the slot it was stored in.
THEOREM TokensAtHome == WebSpec => []TokensStayHome
<1>1. WebInit => WebTypes /\ TokenInv
  BY InitTypes, InitTokens
<1>2. WebTypes /\ TokenInv /\ [WebNext]_webVars => (WebTypes /\ TokenInv)'
  BY NextTypes, NextTokens
<1>3. TokenInv => TokensStayHome
  BY DEF TokenInv, UsesOK, AllUses, TokensStayHome
<1> QED
  BY <1>1, <1>2, <1>3, PTL DEF WebSpec

\* Type correctness, with one cookie per name and path in a jar and every
\* issued token bound to its issuer.
THEOREM TypeCorrect == WebSpec => []WebTypeOK
<1>1. WebInit => WebTypes /\ TokenInv /\ CookieInv
  BY InitTypes, InitTokens, InitCookies
<1>2. WebTypes /\ TokenInv /\ CookieInv /\ [WebNext]_webVars => (WebTypes /\ TokenInv /\ CookieInv)'
  BY NextTypes, NextTokens, NextCookies
<1>3. ASSUME WebTypes, TokenInv, CookieInv PROVE WebTypeOK
  <2>1. /\ active \subseteq Engs
        /\ DOMAIN slot = Slots /\ DOMAIN jar = Jars /\ DOMAIN call = Calls
        /\ clock \in 1..MaxTime /\ begun \in 0..MaxBegun
    BY <1>3 DEF WebTypes
  <2>2. \A s \in Slots :
            slot[s].kind = "issued" => slot[s].origin = slot[s].by /\ slot[s].by \in Origins
    BY <1>3 DEF TokenInv, SlotsOK
  <2>3. \A j \in Jars : \A k, m \in jar[j] : Same(k, m) => k = m
    BY <1>3 DEF CookieInv
  <2> QED
    BY <2>1, <2>2, <2>3 DEF WebTypeOK
<1> QED
  BY <1>1, <1>2, <1>3, PTL DEF WebSpec

\* No credential is ever where it does not belong, for any requests in any order.
THEOREM CredentialsAtHome == WebSpec => []WebInv
<1>1. WebTypeOK /\ TokensStayHome /\ CookiesStayHome => WebInv
  BY DEF WebInv
<1> QED
  BY TypeCorrect, TokensAtHome, CookiesAtHome, <1>1, PTL
================================================================================
