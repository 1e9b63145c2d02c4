-------------------------------- MODULE Memory --------------------------------
(***************************************************************************)
(* The memory store (src/halgate/memory/store.py): facts kept as lines of  *)
(* append-only shards, one shard per running instance, hidden by           *)
(* time-scoped tombstones and read back as the union of all shards with    *)
(* near-duplicates collapsed.                                              *)
(*                                                                         *)
(* No lock is held over an operation: an instance reads the tombstones,    *)
(* then the shards, decides, and appends its lines one at a time; other    *)
(* instances do the same in between, and any of them may die.              *)
(* One subject is modelled, in which the text of a fact is its id.         *)
(***************************************************************************)
EXTENDS Naturals, FiniteSets, Sequences, SequencesExt

CONSTANTS
    N,            \* instances, in the order their shards are read
    Texts,        \* fact texts
    Near,         \* pairs of texts whose similarity reaches dup_similarity
    Length,       \* length of a text
    Sources,      \* how a fact was learnt: stated, scanned, inferred
    Categories,   \* scope, insight, ...
    Confidence,   \* confidence of a source
    MaxFacts,     \* memory.max_entries
    InferredCap,  \* memory.inferred_daily_cap
    InsightCap,   \* 3 in the code
    RecallLimit,  \* memory.recall_limit
    MaxOps        \* bound: operations begun

ASSUME MemoryAssumption ==
    /\ N \in Nat \ {0} /\ MaxOps \in Nat
    /\ Near \subseteq Texts \X Texts
    /\ \A p \in Near : <<p[2], p[1]>> \in Near
    /\ Length \in [Texts -> Nat]
    /\ Confidence \in [Sources -> Nat]

Instances == 1..N

VARIABLES
    shards,  \* per instance, its long_term lines
    tombs,   \* per text, the latest tombstone in any shard (0: none)
    op,      \* the operation each instance is in
    clock,   \* wall-clock time; no two timestamps are equal
    begun    \* operations begun

vars == <<shards, tombs, op, clock, begun>>

Idle == [name |-> "idle"]
-----------------------------------------------------------------------------
(* Reading: read_long_term over the lines of all shards *)

Hidden(line, dead) == dead[line.id] > 0 /\ line.ts <= dead[line.id]

\* The lines of all shards, in the order in which they are read.
Lines(files) ==
    LET Upto[i \in 0..N] == IF i = 0 THEN <<>> ELSE Upto[i - 1] \o files[i]
    IN Upto[N]

\* A line that is shown takes the place of an older one of its fact.
Updated(seen, line, dead) ==
    IF Hidden(line, dead) THEN seen
    ELSE IF \A k \in DOMAIN seen : seen[k].id # line.id THEN Append(seen, line)
    ELSE [k \in DOMAIN seen |->
            IF seen[k].id = line.id /\ line.ts >= seen[k].ts THEN line ELSE seen[k]]

\* The newest line of each fact, in the order in which the facts were met.
Latest(lines, dead) ==
    LET Seen[k \in 0..Len(lines)] ==
            IF k = 0 THEN <<>> ELSE Updated(Seen[k - 1], lines[k], dead)
    IN Seen[Len(lines)]

Rank_Unpinned(e) == <<Confidence[e.source], Length[e.id], e.ts>>
Rank(e) == <<IF e.pinned THEN 1 ELSE 0, Confidence[e.source], Length[e.id], e.ts>>

AtLeast(a, b) ==
    a = b \/ \E k \in DOMAIN a : a[k] > b[k] /\ \A j \in 1..k - 1 : a[j] = b[j]

\* Each fact is compared with the first similar one kept so far; the higher
\* rank stays, in its place.
Merged(kept, e) ==
    LET similar == {k \in DOMAIN kept : <<e.id, kept[k].id>> \in Near}
        first == CHOOSE k \in similar : \A j \in similar : k <= j
    IN IF similar = {} THEN Append(kept, e)
       ELSE IF AtLeast(Rank(e), Rank(kept[first])) THEN [kept EXCEPT ![first] = e]
       ELSE kept

Collapsed(facts) ==
    LET Kept[k \in 0..Len(facts)] ==
            IF k = 0 THEN <<>> ELSE Merged(Kept[k - 1], facts[k])
    IN Kept[Len(facts)]

Live(files, dead) == Latest(Lines(files), dead)
ReadLongTerm(files, dead) == ToSet(Collapsed(Live(files, dead)))
Visible == ReadLongTerm(shards, tombs)
Ids(facts) == {e.id : e \in facts}
-----------------------------------------------------------------------------
(* Beginning an operation, and what it decides to append *)

\* Every operation reads the tombstones first.
Begin(i) ==
    /\ op[i] = Idle
    /\ begun < MaxOps
    /\ begun' = begun + 1
    /\ op' = [op EXCEPT ![i] = [name |-> "reading", dead |-> tombs]]
    /\ UNCHANGED <<shards, tombs, clock>>

Reading(i) == op[i].name = "reading"
Existing(i) == ReadLongTerm(shards, op[i].dead)

Line(t, source, category, pinned) ==
    [id |-> t, ts |-> clock + 1, source |-> source, category |-> category,
     pinned |-> pinned]

\* The appends still to be made: a line, or a set of ids to bury.
Bury(ids) == [kind |-> "tombstones", ids |-> ids]
Put(line) == [kind |-> "line", line |-> line]

Decide(i, name, from, to, todo) ==
    /\ op' = [op EXCEPT ![i] = IF todo = <<>> THEN Idle
                ELSE [name |-> name, from |-> from, to |-> to, ts |-> clock + 1,
                      todo |-> todo]]
    /\ clock' = clock + 1
    /\ UNCHANGED <<shards, tombs, begun>>

Superseded_AnyWeaker(i, t) == {e \in Existing(i) : e.source # "stated"}
Superseded(i, t) == {e \in Existing(i) : <<e.id, t>> \in Near}

\* remember() is refused: an exact duplicate that is no correction, a
\* near-duplicate that is not stated, or one of the caps.
Refused(i, t, source, category) ==
    LET old == Existing(i)
        similar == Superseded(i, t)
    IN \/ \E e \in old : e.id = t /\ ~(source = "stated" /\ e.source # "stated")
       \/ similar # {} /\ source # "stated"
       \/ similar = {} /\ Cardinality(old) >= MaxFacts
       \/ /\ source = "inferred"
          /\ Cardinality({e \in old : e.source = "inferred"}) >= InferredCap
       \/ /\ source = "inferred" /\ category = "insight"
          /\ Cardinality({e \in old \ similar : e.category = "insight"}) >= InsightCap

Remember(i, t, source, category) ==
    /\ Reading(i)
    /\ LET line == Line(t, source, category, source = "stated" /\ category = "scope")
           old == Ids(Superseded(i, t))
       IN Decide(i, "remember", t, t,
                 IF Refused(i, t, source, category) THEN <<>>
                 ELSE IF old = {} THEN <<Put(line)>> ELSE <<Bury(old), Put(line)>>)

\* The best matches, pinned facts first, are appended again with only their
\* last_confirmed changed.
Recall(i, top) ==
    /\ Reading(i)
    /\ top \subseteq Existing(i)
    /\ Cardinality(top) <= RecallLimit
    /\ Cardinality(top) < RecallLimit => top = Existing(i)
    /\ \A e \in Existing(i) \ top, f \in top : e.pinned => f.pinned
    /\ Decide(i, "recall", {}, {}, SetToSeq({Put(e) : e \in top}))

Forget(i, t) ==
    /\ Reading(i)
    /\ t \in Ids(Existing(i))
    /\ Decide(i, "forget", t, t, <<Bury({t})>>)

Edit_BuriesFirst(i, t, u) ==
    /\ Reading(i)
    /\ t # u /\ u \notin Ids(Existing(i))
    /\ \E old \in Existing(i) :
        /\ old.id = t
        /\ Decide(i, "edit", t, u,
                  <<Bury({t}), Put(Line(u, old.source, old.category, old.pinned))>>)

\* Refused when the new text is a fact of its own already; it may be similar
\* to one.
Edit(i, t, u) ==
    /\ Reading(i)
    /\ t # u /\ u \notin Ids(Existing(i))
    /\ \E old \in Existing(i) :
        /\ old.id = t
        /\ Decide(i, "edit", t, u,
                  <<Put(Line(u, old.source, old.category, old.pinned)), Bury({t})>>)

\* The line is written again with the other pin state and a new time.
Pin(i, t) ==
    /\ Reading(i)
    /\ \E old \in Existing(i) :
        /\ old.id = t
        /\ Decide(i, "pin", t, t, <<Put(Line(t, old.source, old.category, ~old.pinned))>>)
-----------------------------------------------------------------------------
(* Appending *)

Writing(i) == op[i].name \notin {"idle", "reading"}

Next1(i) == IF Len(op[i].todo) = 1 THEN Idle ELSE [op[i] EXCEPT !.todo = Tail(@)]

\* _append to the instance's own shard of long_term.
AppendLine(i) ==
    /\ Writing(i)
    /\ Head(op[i].todo).kind = "line"
    /\ shards' = [shards EXCEPT ![i] = Append(@, Head(op[i].todo).line)]
    /\ op' = [op EXCEPT ![i] = Next1(i)]
    /\ UNCHANGED <<tombs, clock, begun>>

\* _add_tombstone: the time of burial is taken now.
AddTombstones(i) ==
    /\ Writing(i)
    /\ Head(op[i].todo).kind = "tombstones"
    /\ tombs' = [t \in Texts |-> IF t \in Head(op[i].todo).ids THEN clock + 1 ELSE tombs[t]]
    /\ clock' = clock + 1
    /\ op' = [op EXCEPT ![i] = Next1(i)]
    /\ UNCHANGED <<shards, begun>>

\* The instance dies; another one with its place has its own new shard, which
\* is as good as going on with the old one.
Crash(i) ==
    /\ Writing(i)
    /\ op' = [op EXCEPT ![i] = Idle]
    /\ UNCHANGED <<shards, tombs, clock, begun>>
-----------------------------------------------------------------------------
Init ==
    /\ shards = [i \in Instances |-> <<>>]
    /\ tombs = [t \in Texts |-> 0]
    /\ op = [i \in Instances |-> Idle]
    /\ clock = 0
    /\ begun = 0

Step(i) ==
    \/ Begin(i)
    \/ \E t \in Texts, s \in Sources, c \in Categories : Remember(i, t, s, c)
    \/ Reading(i) /\ \E top \in SUBSET Existing(i) : Recall(i, top)
    \/ \E t \in Texts : Forget(i, t)
    \/ \E t, u \in Texts : Edit(i, t, u)
    \/ \E t \in Texts : Pin(i, t)
    \/ AppendLine(i) \/ AddTombstones(i) \/ Crash(i)

Next == \E i \in Instances : Step(i)

Spec == Init /\ [][Next]_vars
-----------------------------------------------------------------------------
(* Properties *)

\* The type invariant; no line or tombstone is dated in the future, and two
\* lines of a fact with one timestamp are copies of each other.
TypeOK ==
    /\ DOMAIN shards = Instances /\ DOMAIN op = Instances
    /\ begun \in 0..MaxOps
    /\ \A t \in Texts : tombs[t] \in 0..clock
    /\ \A i \in Instances : \A k \in DOMAIN shards[i] :
        /\ shards[i][k].id \in Texts
        /\ shards[i][k].ts \in 1..clock
    /\ \A l, m \in ToSet(Lines(shards)) : l.id = m.id /\ l.ts = m.ts => l = m

\* The facts the files hold, before any is left out as a near-duplicate.
Facts(files, dead) == ToSet(Live(files, dead))

\* The texts of T that a chain of similar ones, all of T, ties to t.
Chain(t, T) ==
    {u \in T : \A S \in SUBSET T :
        t \in S /\ (\A p \in Near : p[1] \in S /\ p[2] \in T => p[2] \in S) => u \in S}

\* The facts tied to t, and whether their similarity leaves no doubt: each of
\* them is similar to each other one.
Tied(t, files, dead) ==
    LET facts == Facts(files, dead)
        chain == Chain(t, Ids(facts))
    IN  {e \in facts : e.id \in chain}
Clear(facts) == \A d, e \in facts : d.id = e.id \/ <<d.id, e.id>> \in Near

\* Similarity is no equivalence, and a fact that is left out need not be
\* similar to any that is shown.  But nothing is left out without a trace: a
\* fact which a chain of similar ones ties to it is shown, and a pinned one for
\* a pinned one.
StandIns ==
    \A e \in Facts(shards, tombs) :
        \E v \in Visible \cap Tied(e.id, shards, tombs) : e.pinned => v.pinned

\* While an edit is written, and after it or a crash in the middle, the fact
\* is kept under its old or its new text, unless another operation buried it.
EditLosesNothing ==
    [][\A i \in Instances, t, u \in Texts :
             /\ op[i].name = "edit" /\ op[i].from = t /\ op[i].to = u
             /\ op'[i] # op[i]
             /\ t \in Ids(Facts(shards, tombs))
          => \/ t \in Ids(Facts(shards', tombs')) \/ u \in Ids(Facts(shards', tombs'))
             \/ tombs[u] > op[i].ts]_vars

FactOf(t, files, dead) == {e \in Facts(files, dead) : e.id = t}

\* What is held of a text changes only by a deliberate write about it: as
\* instances interleave and die between their appends, a fact is lost, changed
\* or brought back only by a step of a remember, forget, edit or pin of its own
\* text, or of a similar one that it supersedes, never of an operation on
\* something else.  Nor of a recall: the copies it appends, of what it read a
\* while ago, neither revive a fact another instance has forgotten or edited
\* since nor undo its pin.
OnlyTheAddressedChange ==
    [][\A t \in Texts : FactOf(t, shards', tombs') # FactOf(t, shards, tombs) =>
          \E i \in Instances :
              /\ op'[i] # op[i]
              /\ op[i].name \in {"remember", "forget", "edit", "pin"}
              /\ t \in {op[i].from, op[i].to} \/ <<t, op[i].from>> \in Near]_vars

\* What is shown for a text is a matter of the facts tied to it, whatever is
\* appended about others and in whatever order the shards give them.  Where
\* their similarity is not clear this is false: there a recall, which copies
\* lines into another shard, can change which of them are shown.
ShownFollowsFacts ==
    [][\A t \in Texts :
          LET tied == Tied(t, shards, tombs)
          IN  tied = Tied(t, shards', tombs') /\ Clear(tied) =>
                tied \cap ReadLongTerm(shards', tombs') = tied \cap Visible]_vars

\* The files at every instant: their types and dates, and what stands for what
\* the collapse leaves out.
MemoryInv == TypeOK /\ StandIns

\* What is known changes only by a deliberate write about it, not by reading
\* and not by a write about something else.
KnowledgeIsDeliberate == OnlyTheAddressedChange /\ ShownFollowsFacts
=============================================================================
