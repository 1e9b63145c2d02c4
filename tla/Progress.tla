------------------------------- MODULE Progress -------------------------------
(***************************************************************************)
(* The guard that decides whether a turn of the agent still gets anywhere  *)
(* (halgate/progress.py).  A turn owns one controller: a record that holds *)
(* what it has seen and counted.  A call stands for its signature (name    *)
(* and arguments without the reason), a result for its fingerprint.        *)
(***************************************************************************)
EXTENDS Naturals, Sequences, FiniteSets, Functions

CONSTANTS
    Calls,          \* the signatures of the calls the model may make
    PaneReads,      \* those that are pane_read calls
    Results,        \* the fingerprints of the results
    Transient,      \* those that report a timeout, a 5xx, a rate limit
    NoOutput,       \* the result of a pane_read that has nothing new
    EmergencyLimit, \* max_tool_iterations_per_turn
    MaxStalled,     \* max_stalled_tool_batches
    MaxRepeated,    \* max_repeated_tool_calls
    MaxUnchanged,   \* max_unchanged_pane_reads
    CheckpointEvery \* checkpoint_every_tool_actions, 0 for never

ASSUME LimitsAssumption ==
    /\ PaneReads \subseteq Calls /\ Transient \subseteq Results
    /\ {EmergencyLimit, MaxStalled, MaxRepeated, MaxUnchanged} \subseteq Nat \ {0}
    /\ CheckpointEvery \in Nat

\* A controller that has counted nothing yet.  unsaved is the number of
\* actions completed since the last checkpoint of this turn.
NewProgress ==
    [batches |-> 0, seen |-> {}, stalled |-> 0, unchanged |-> 0,
     counts |-> [c \in Calls |-> 0], unsaved |-> 0]

\* A controller of a turn that goes on: no limit has been reached.
ProgressType ==
    [batches : 0 .. EmergencyLimit - 1, seen : SUBSET Results,
     stalled : 0 .. MaxStalled - 1, unchanged : 0 .. MaxUnchanged - 1,
     counts : [Calls -> Nat], unsaved : Nat]

\* The independent limits, asked before every request to the model.
BeforeNextBatch_NoClock(p, expired) == p.batches < EmergencyLimit
BeforeNextBatch(p, expired) == ~expired /\ p.batches < EmergencyLimit

\* The results that count as observations: an empty poll never does.
Observed(calls, results) ==
    {results[i] : i \in {j \in DOMAIN calls :
                            ~(calls[j] \in PaneReads /\ results[j] = NoOutput)}}

Novel(p, calls, results) == ~(Observed(calls, results) \subseteq p.seen)

\* Either kind of progress starts the counting of repetitions over.
Excused_OnlyTransient(p, calls, results) == Range(results) \cap Transient # {}
Excused(p, calls, results) ==
    Novel(p, calls, results) \/ Range(results) \cap Transient # {}

Occurrences(calls, c) == Cardinality({i \in DOMAIN calls : calls[i] = c})

CheckpointDue(p, calls) ==
    CheckpointEvery > 0 /\ p.unsaved + Len(calls) >= CheckpointEvery

RecordBatch(p, calls, results) ==
    LET excused == Excused(p, calls, results)
    IN  [batches   |-> p.batches + 1,
         seen      |-> p.seen \cup Observed(calls, results),
         stalled   |-> IF excused THEN 0 ELSE p.stalled + 1,
         unchanged |-> IF Range(calls) \subseteq PaneReads /\ ~excused
                       THEN p.unchanged + 1 ELSE 0,
         counts    |-> [c \in Calls |-> Occurrences(calls, c)
                            + IF excused THEN 0 ELSE p.counts[c]],
         unsaved   |-> IF CheckpointDue(p, calls) THEN 0
                       ELSE p.unsaved + Len(calls)]

\* The verdict on the batch that took the controller from p to q: the turn
\* goes in circles and ends.
Looping(p, q, calls) ==
    \/ q.unchanged >= MaxUnchanged
    \/ q.seen = p.seen /\ \A c \in Range(calls) : q.counts[c] > MaxRepeated
    \/ q.stalled >= MaxStalled
===============================================================================
