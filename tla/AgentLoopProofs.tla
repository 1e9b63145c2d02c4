---------------------------- MODULE AgentLoopProofs ----------------------------
(***************************************************************************)
(* Theorems about the agent loop, for every set of calls, results and      *)
(* batches and for all limits: the counters of a turn that goes on stay    *)
(* below their limits, the loop detection never ends a turn that has just  *)
(* learnt something, no exchange is ever torn, and nothing is forgotten.   *)
(*                                                                         *)
(* The last two rest on one invariant.  A transcript is Ordered: whatever  *)
(* is a result belongs to a complete block of results right behind its     *)
(* calls.  Tells says what each message contributes to the next request,   *)
(* and Remembered that this adds up to all that was learned, at every      *)
(* await: with a request still open, or with a cut still pending.          *)
(***************************************************************************)
EXTENDS AgentLoop, FiniteSetTheorems, SequenceTheorems, TLAPS

--------------------------------------------------------------------------------
(* The controller *)

\* The controller before the verdict on the batch it has just recorded.
Recorded ==
    [batches : Nat, seen : SUBSET Results, stalled : Nat, unchanged : Nat,
     counts : [Calls -> Nat], unsaved : Nat]

\* A recorded batch leaves a controller whose counters are numbers.
LEMMA RecordBatchType ==
    ASSUME NEW p \in ProgressType, NEW cs \in Batches,
           NEW rs \in [DOMAIN cs -> Results]
    PROVE  RecordBatch(p, cs, rs) \in Recorded
<1>1. cs \in Seq(Calls) /\ Len(cs) \in Nat /\ DOMAIN cs = 1 .. Len(cs)
  BY BoundsAssumption
<1>2. p.batches \in Nat /\ p.seen \in SUBSET Results /\ p.stalled \in Nat
      /\ p.unchanged \in Nat /\ p.counts \in [Calls -> Nat] /\ p.unsaved \in Nat
  BY DEF ProgressType
<1>3. Observed(cs, rs) \in SUBSET Results
  BY DEF Observed
<1>4. ASSUME NEW c \in Calls
      PROVE  Occurrences(cs, c) \in Nat
  <2>1. IsFiniteSet(1 .. Len(cs))
    BY <1>1, FS_Interval
  <2>2. IsFiniteSet({i \in DOMAIN cs : cs[i] = c})
    BY <1>1, <2>1, FS_Subset
  <2> QED
    BY <2>2, FS_CardinalityType DEF Occurrences
<1> DEFINE excused == Excused(p, cs, rs)
<1>5. [c \in Calls |-> Occurrences(cs, c) + IF excused THEN 0 ELSE p.counts[c]]
         \in [Calls -> Nat]
  BY <1>2, <1>4
<1>6. /\ p.batches + 1 \in Nat
      /\ p.seen \cup Observed(cs, rs) \in SUBSET Results
      /\ (IF excused THEN 0 ELSE p.stalled + 1) \in Nat
      /\ (IF Range(cs) \subseteq PaneReads /\ ~excused
          THEN p.unchanged + 1 ELSE 0) \in Nat
      /\ (IF CheckpointDue(p, cs) THEN 0 ELSE p.unsaved + Len(cs)) \in Nat
  BY <1>1, <1>2, <1>3
<1> QED
  BY <1>5, <1>6 DEF RecordBatch, Recorded

\* The verdict lets a turn go on only while the counters are below their
\* limits: what the loop works with is again of the controller's type.
LEMMA RecordedBelowLimits ==
    ASSUME NEW p \in ProgressType, NEW cs \in Batches,
           NEW rs \in [DOMAIN cs -> Results], NEW expired,
           ~Looping(p, RecordBatch(p, cs, rs), cs),
           BeforeNextBatch(RecordBatch(p, cs, rs), expired)
    PROVE  RecordBatch(p, cs, rs) \in ProgressType
<1> DEFINE q == RecordBatch(p, cs, rs)
<1>1. q \in Recorded
  BY RecordBatchType
<1>2. q.batches < EmergencyLimit /\ q.stalled < MaxStalled
      /\ q.unchanged < MaxUnchanged
  <2>1. q.batches < EmergencyLimit /\ ~(q.stalled >= MaxStalled)
        /\ ~(q.unchanged >= MaxUnchanged)
    BY DEF Looping, BeforeNextBatch
  <2>2. q.stalled \in Nat /\ q.unchanged \in Nat
        /\ MaxStalled \in Nat /\ MaxUnchanged \in Nat
    BY <1>1, LimitsAssumption DEF Recorded
  <2> HIDE DEF q
  <2> QED
    BY <2>1, <2>2
<1>3. EmergencyLimit \in Nat /\ MaxStalled \in Nat /\ MaxUnchanged \in Nat
  BY LimitsAssumption
<1> HIDE DEF q
<1>4. q \in ProgressType
  BY <1>1, <1>2, <1>3 DEF Recorded, ProgressType
<1> QED
  BY <1>4 DEF q

\* A batch that brings a new result is never a loop, whatever was counted
\* before it (progress.py:113-116).
LEMMA NewResultIsNoLoop ==
    ASSUME NEW p, NEW cs, NEW rs,
           RecordBatch(p, cs, rs).seen # p.seen
    PROVE  ~Looping(p, RecordBatch(p, cs, rs), cs)
<1>1. Novel(p, cs, rs)
  BY DEF RecordBatch, Novel
<1>2. /\ RecordBatch(p, cs, rs).stalled = 0
      /\ RecordBatch(p, cs, rs).unchanged = 0
  BY <1>1 DEF RecordBatch, Excused
<1>3. ~(0 >= MaxUnchanged) /\ ~(0 >= MaxStalled)
  BY LimitsAssumption
<1> QED
  BY <1>2, <1>3 DEF Looping

--------------------------------------------------------------------------------
(* Type correctness *)

\* The parts of TypeOK that a step of the prompt task can disturb, with the
\* types of the locals.  cut is compared with NoCut through its position.
CutOK == IF pc = "compacting" THEN cut.at # 0 ELSE cut = NoCut

Shape ==
    /\ session \in Sessions /\ stopped \in BOOLEAN
    /\ saved = [s \in Sessions |-> saved[s]]
    /\ pc \in {"idle", "compacting", "asking", "sleeping", "dispatching"}
    /\ turn \in TurnType
    /\ CutOK
    /\ pc = "dispatching" => turn.calls \in Batches
    /\ nextId \in 1 .. MaxId + 1

\* The shape of the state includes its types.
LEMMA ShapeIsType == Shape => TypeOK
  BY DEF Shape, TypeOK, CutOK, NoCut

\* A new turn, and the locals that are left of a turn that ends, are well
\* formed.
LEMMA NewTurnType ==
    /\ NewTurn \in TurnType
    /\ \A S \in SUBSET Results : [NewTurn EXCEPT !.progress.seen = S] \in TurnType
<1>1. NewProgress \in ProgressType
  BY LimitsAssumption DEF NewProgress, ProgressType
<1>2. NewTurn \in TurnType
  BY <1>1 DEF NewTurn, TurnType
<1>3. ASSUME NEW S \in SUBSET Results
      PROVE  [NewTurn EXCEPT !.progress.seen = S] \in TurnType
  <2>1. [NewProgress EXCEPT !.seen = S] \in ProgressType
    BY <1>1 DEF ProgressType
  <2> QED
    BY <1>2, <2>1 DEF NewTurn, TurnType
<1> QED
  BY <1>2, <1>3

\* A turn of the right type has seen results.
LEMMA TurnSeen ==
    ASSUME NEW t \in TurnType PROVE t.progress.seen \in SUBSET Results
  BY DEF TurnType, ProgressType

\* A turn that ends leaves the task idle and no cut behind.
LEMMA RestShape ==
    ASSUME NEW t, t.progress.seen \in SUBSET Results, Rest(t)
    PROVE  pc' = "idle" /\ turn' \in TurnType /\ CutOK'
  BY NewTurnType DEF Rest, CutOK

\* The head of the loop, for a turn whose controller need only be below its
\* limits if the loop lets it go on.
LEMMA ProceedShape ==
    ASSUME NEW ms, NEW t, t.progress.seen \in SUBSET Results,
           BeforeNextBatch(t.progress, t.expired) => t \in TurnType,
           Proceed(ms, t)
    PROVE  /\ pc' \in {"idle", "compacting", "asking"}
           /\ turn' \in TurnType /\ CutOK'
<1>1. CASE Rest(t)
  BY <1>1, RestShape
<1>2. CASE /\ BeforeNextBatch(t.progress, t.expired) /\ turn' = t
           /\ \E n \in Cuts(ms) : StartCompact(ms, n, "ask")
  BY <1>2 DEF StartCompact, CutOK
<1>3. CASE /\ BeforeNextBatch(t.progress, t.expired) /\ turn' = t
           /\ pc' = "asking" /\ cut' = NoCut
  BY <1>3 DEF CutOK
<1> QED
  BY <1>1, <1>2, <1>3 DEF Proceed, Say

\* The shape holds at the start, of an empty transcript.
LEMMA ShapeInit == Init => Shape
<1> SUFFICES ASSUME Init PROVE Shape
  OBVIOUS
<1>1. nextId \in 1 .. MaxId + 1
  BY BoundsAssumption DEF Init
<1> QED
  BY <1>1, NewTurnType DEF Init, Shape, CutOK

\* Every step of the task, the operator and the clock keeps the shape.
LEMMA ShapeStep == Shape /\ [Next]_vars => Shape'
<1> SUFFICES ASSUME Shape, [Next]_vars PROVE Shape'
  OBVIOUS
<1> USE DEF Shape
<1>t. turn.progress.seen \in SUBSET Results
  BY TurnSeen
<1>0. nextId <= MaxId => nextId + 1 \in 1 .. MaxId + 1
  BY BoundsAssumption
<1>1. CASE Submit
  <2>1. NewTurn.progress.seen \in SUBSET Results
    BY NewTurnType, TurnSeen
  <2> QED
    BY <1>1, <1>0, <2>1, NewTurnType, ProceedShape DEF Submit
<1>2. CASE Answer
  BY <1>2, <1>t, RestShape DEF Answer, Say, Unmoved
<1>3. CASE AnswerEmpty
  <2> DEFINE t == [turn EXCEPT !.emptied = TRUE]
  <2>1. t \in TurnType /\ t.progress.seen \in SUBSET Results
    BY <1>t DEF TurnType
  <2>2. pc' \in {"idle", "compacting", "asking"} /\ turn' \in TurnType /\ CutOK'
    <3>1. CASE turn.emptied
      BY <1>3, <3>1, <1>t, RestShape DEF AnswerEmpty, Say
    <3>2. CASE ~turn.emptied
      <4>1. Proceed(messages, t)
        BY <1>3, <3>2 DEF AnswerEmpty
      <4> HIDE DEF t
      <4> QED
        BY <4>1, <2>1, ProceedShape
    <3> QED
      BY <3>1, <3>2
  <2> QED
    BY <1>3, <2>2 DEF AnswerEmpty, Unmoved
<1>4. CASE CallTools
  <2>1. PICK cs \in Batches : turn' = [turn EXCEPT !.calls = cs]
    BY <1>4 DEF CallTools
  <2>2. turn' \in TurnType /\ turn'.calls \in Batches
    BY <2>1 DEF TurnType
  <2> QED
    BY <1>4, <1>0, <2>2 DEF CallTools, CutOK
<1>5. ASSUME NEW kinds \in SUBSET {"transient", "limit"}, Fault(kinds)
      PROVE  Shape'
  <2>1. CASE "transient" \in kinds /\ MayRetry(turn)
    <3>1. turn.retries + 1 \in 0 .. 2
      BY <2>1 DEF TurnType, MayRetry
    <3>2. turn' = [turn EXCEPT !.retries = @ + 1] /\ pc' = "sleeping" /\ cut' = cut
      BY <1>5, <2>1 DEF Fault
    <3>3. turn' \in TurnType
      BY <3>1, <3>2 DEF TurnType
    <3>4. pc = "asking"
      BY <1>5 DEF Fault
    <3> QED
      BY <1>5, <3>2, <3>3, <3>4 DEF Fault, Unmoved, CutOK
  <2>2. CASE ~("transient" \in kinds /\ MayRetry(turn))
    <3>1. \/ Rest(turn)
          \/ StartCompact(messages, Len(messages) - 2, "retry") /\ turn' = turn
      BY <1>5, <2>2 DEF Fault, Say
    <3>2. pc' \in {"idle", "compacting"} /\ turn' \in TurnType /\ CutOK'
      <4>1. CASE Rest(turn)
        BY <4>1, <1>t, RestShape
      <4>2. CASE StartCompact(messages, Len(messages) - 2, "retry") /\ turn' = turn
        BY <4>2 DEF StartCompact, CutOK
      <4> QED
        BY <3>1, <4>1, <4>2
    <3> QED
      BY <1>5, <3>2 DEF Fault, Unmoved
  <2> QED
    BY <2>1, <2>2
<1>6. CASE Awake
  BY <1>6, <1>t, ProceedShape DEF Awake, Unmoved
<1>7. CASE CollectResults
  <2>1. PICK rs \in Results_OfBatch(turn.calls) :
          LET ms == WithReplies
              q  == RecordBatch(turn.progress, turn.calls, rs)
              t  == [turn EXCEPT !.progress = q, !.calls = <<>>]
          IN  /\ saved' = IF CheckpointDue(turn.progress, turn.calls)
                          THEN [saved EXCEPT ![session] = ms] ELSE saved
              /\ IF Looping(turn.progress, q, turn.calls)
                 THEN Say(ms, t)
                 ELSE Proceed(ms, t)
    BY <1>7 DEF CollectResults
  <2> DEFINE ms == WithReplies
             q  == RecordBatch(turn.progress, turn.calls, rs)
             t  == [turn EXCEPT !.progress = q, !.calls = <<>>]
  <2>2. /\ turn.progress \in ProgressType /\ turn.calls \in Batches
        /\ rs \in [DOMAIN turn.calls -> Results]
    BY <1>7 DEF CollectResults, TurnType, Results_OfBatch
  <2>3. q \in Recorded
    BY <2>2, RecordBatchType
  <2>4. t.progress = q /\ t.expired = turn.expired
    BY DEF TurnType
  <2>5. t.progress.seen \in SUBSET Results
    BY <2>3, <2>4 DEF Recorded
  <2>6. q \in ProgressType => t \in TurnType
    BY DEF TurnType
  <2>7. pc' \in {"idle", "compacting", "asking"} /\ turn' \in TurnType /\ CutOK'
    <3>1. CASE Looping(turn.progress, q, turn.calls)
      <4>1. Rest(t)
        BY <2>1, <3>1 DEF Say
      <4> QED
        BY <4>1, <2>5, RestShape
    <3>2. CASE ~Looping(turn.progress, q, turn.calls)
      <4>1. Proceed(ms, t)
        BY <2>1, <3>2
      <4>2. BeforeNextBatch(t.progress, t.expired) => t \in TurnType
        BY <2>2, <2>4, <2>6, <3>2, RecordedBelowLimits
      <4> HIDE DEF t, ms
      <4> QED
        BY <4>1, <4>2, <2>5, ProceedShape
    <3> QED
      BY <3>1, <3>2
  <2>8. saved' = [s \in Sessions |-> saved'[s]]
    BY <2>1
  <2> QED
    BY <1>7, <2>7, <2>8 DEF CollectResults, Unmoved
<1>8. CASE DispatchRaises
  BY <1>8, <1>t, RestShape DEF DispatchRaises, Unmoved
<1>8a. CASE CheckpointFails
  <2>1. saved' = [s \in Sessions |-> saved'[s]]
    BY <1>8a DEF CheckpointFails
  <2> QED
    BY <1>8a, <1>t, <2>1, RestShape DEF CheckpointFails, Unmoved
<1>9. CASE Summarized
  <2> DEFINE ms == <<Summary(cut.covers)>> \o Retained(messages, cut.at)
  <2>1. \/ pc' = "asking" /\ cut' = NoCut /\ turn' = turn
        \/ Proceed(ms, turn)
        \/ Rest(turn)
    BY <1>9 DEF Summarized
  <2>2. pc' \in {"idle", "compacting", "asking"} /\ turn' \in TurnType /\ CutOK'
    <3>1. CASE pc' = "asking" /\ cut' = NoCut /\ turn' = turn
      BY <3>1 DEF CutOK
    <3>2. CASE Proceed(ms, turn)
      BY <3>2, <1>t, ProceedShape
    <3>3. CASE Rest(turn)
      BY <3>3, <1>t, RestShape
    <3> QED
      BY <2>1, <3>1, <3>2, <3>3
  <2> QED
    BY <1>9, <2>2 DEF Summarized, Unmoved
<1>10. CASE SummaryFails
  <2>1. CASE pc' = "asking" /\ cut' = NoCut /\ turn' = turn
    BY <1>10, <2>1 DEF SummaryFails, Unmoved, CutOK
  <2>2. CASE Rest(turn)
    BY <1>10, <2>2, <1>t, RestShape DEF SummaryFails, Unmoved
  <2> QED
    BY <1>10, <2>1, <2>2 DEF SummaryFails, Say
<1>11. CASE Cancel
  BY <1>11, <1>t, RestShape DEF Cancel, Unmoved
<1>12. CASE Compact
  BY <1>12 DEF Compact, StartCompact, Unmoved, CutOK
<1>13. CASE Expire
  <2>1. turn' \in TurnType /\ turn'.calls = turn.calls
    BY <1>13 DEF Expire, TurnType
  <2> QED
    BY <1>13, <2>1 DEF Expire, CutOK
<1>14. CASE Checkpoint
  BY <1>14 DEF Checkpoint, CutOK
<1>15. CASE SetLock
  BY <1>15 DEF SetLock, CutOK
<1>16. ASSUME NEW s \in Sessions, Restore(s) PROVE Shape'
  BY <1>16 DEF Restore, CutOK
<1>17. CASE UNCHANGED vars
  BY <1>17 DEF vars, CutOK
<1> QED
  BY <1>1, <1>2, <1>3, <1>4, <1>5, <1>6, <1>7, <1>8, <1>9, <1>10, <1>11, <1>12,
     <1>13, <1>14, <1>15, <1>16, <1>17, <1>8a DEF Next, Work

\* Type correctness of the loop (Halgate.run), whatever the limits: at every
\* await the counters of the turn are below their limits, at most two faults
\* have been retried, and a cut is pending exactly while a summary is awaited.
THEOREM AgentLoopTypeCorrect == Spec => []TypeOK
<1>1. Spec => []Shape
  BY ShapeInit, ShapeStep, PTL DEF Spec
<1> QED
  BY <1>1, ShapeIsType, PTL

\* The loop detection (progress.py) never ends a turn in the step that brought
\* it a new result, for every set of calls and results and for all limits.
THEOREM NewResultGoesOn == Spec => NewResultKeepsTurn
<1> DEFINE Kept ==
      (/\ pc = "dispatching"
       /\ turn'.progress.seen # turn.progress.seen
       /\ ~turn.expired /\ turn.progress.batches + 1 < EmergencyLimit
       /\ ~stopped)
      => pc' # "idle"
<1>1. Shape /\ [Next]_vars => [Kept]_vars
  <2> SUFFICES ASSUME Shape, Next, pc = "dispatching", ~stopped,
                      turn'.progress.seen # turn.progress.seen, ~turn.expired,
                      turn.progress.batches + 1 < EmergencyLimit
               PROVE  pc' # "idle"
    OBVIOUS
  <2>1. ~Rest(turn)
    BY DEF Rest, NewTurn, NewProgress
  <2>2. CollectResults \/ Expire \/ Checkpoint
    BY <2>1 DEF Next, Work, Submit, Answer, AnswerEmpty, CallTools, Fault, Awake,
                CheckpointFails, DispatchRaises, Summarized, SummaryFails, Cancel, Compact,
                SetLock, Restore
  <2>3. CASE CollectResults
    <3>1. PICK rs \in Results_OfBatch(turn.calls) :
            LET ms == WithReplies
                q  == RecordBatch(turn.progress, turn.calls, rs)
                t  == [turn EXCEPT !.progress = q, !.calls = <<>>]
            IN  IF Looping(turn.progress, q, turn.calls)
                THEN Say(ms, t)
                ELSE Proceed(ms, t)
      BY <2>3 DEF CollectResults
    <3> DEFINE ms == WithReplies
               q  == RecordBatch(turn.progress, turn.calls, rs)
               t  == [turn EXCEPT !.progress = q, !.calls = <<>>]
    <3>2. t.progress = q /\ t.expired = turn.expired
      BY DEF Shape, TurnType
    <3>3. turn'.progress.seen = q.seen
      <4>1. Rest(t) \/ turn' = t
        BY <3>1 DEF Say, Proceed
      <4> HIDE DEF q
      <4>2. CASE Rest(t)
        BY <4>2, <3>2 DEF Rest, NewTurn, NewProgress
      <4> QED
        BY <4>1, <4>2, <3>2
    <3>4. ~Looping(turn.progress, q, turn.calls)
      BY <3>3, NewResultIsNoLoop
    <3>5. BeforeNextBatch(t.progress, t.expired)
      BY <3>2 DEF BeforeNextBatch, RecordBatch
    <3>6. Proceed(ms, t)
      BY <3>1, <3>4
    <3> HIDE DEF ms, t
    <3> QED
      BY <3>5, <3>6 DEF Proceed, StartCompact
  <2>4. CASE Expire
    BY <2>4 DEF Expire
  <2>5. CASE Checkpoint
    BY <2>5 DEF Checkpoint
  <2> QED
    BY <2>2, <2>3, <2>4, <2>5
<1> QED
  BY <1>1, ShapeInit, ShapeStep, PTL DEF Spec, NewResultKeepsTurn

--------------------------------------------------------------------------------
(* Least and greatest elements *)

\* A set of naturals that is not empty has a least element.
LEMMA LeastOf ==
    ASSUME NEW S \in SUBSET Nat, S # {}
    PROVE  Min(S) \in S /\ \A y \in S : Min(S) <= y
<1> DEFINE T == {0 .. n : n \in S}
<1>1. T \subseteq FiniteSubsetsOf(Nat) /\ T # {}
  <2>1. ASSUME NEW n \in S PROVE 0 .. n \in FiniteSubsetsOf(Nat)
    <3>1. 0 .. n \in SUBSET Nat /\ IsFiniteSet(0 .. n)
      BY FS_Interval
    <3> QED
      BY <3>1, Zenon DEF FiniteSubsetsOf
  <2> QED
    BY <2>1
<1>2. PICK X \in T : \A Y \in T : ~ <<Y, X>> \in StrictSubsetOrdering(Nat)
  <2>1. IsWellFoundedOn(StrictSubsetOrdering(Nat), FiniteSubsetsOf(Nat))
    BY FS_StrictSubsetOrderingWellFounded
  <2> HIDE DEF T
  <2> QED
    BY <1>1, <2>1, WFMin
<1>3. PICK n \in S : X = 0 .. n
  OBVIOUS
<1>4. ASSUME NEW m \in S, m < n PROVE FALSE
  <2>1. 0 .. m \in T /\ 0 .. m \subseteq 0 .. n /\ 0 .. m # 0 .. n /\ 0 .. n \subseteq Nat
    BY <1>4
  <2> QED
    BY <1>2, <1>3, <2>1 DEF StrictSubsetOrdering
<1>5. \A y \in S : n <= y
  BY <1>4
<1> QED
  BY <1>5 DEF Min

\* And a greatest one if it is bounded.
LEMMA GreatestOf ==
    ASSUME NEW b \in Nat, NEW S \in SUBSET (0 .. b), S # {}
    PROVE  Max(S) \in S /\ \A y \in S : y <= Max(S)
<1> DEFINE T == {b - s : s \in S}
<1>1. T \in SUBSET Nat /\ T # {}
  <2>1. \A s \in S : b - s \in Nat
    OBVIOUS
  <2> QED
    BY <2>1
<1>2. Min(T) \in T /\ \A y \in T : Min(T) <= y
  <2> HIDE DEF T
  <2> QED
    BY <1>1, LeastOf
<1>3. PICK s \in S : Min(T) = b - s
  BY <1>2
<1>4. \A y \in S : b - s <= b - y
  BY <1>2, <1>3
<1>5. \A y \in S : s >= y
  BY <1>4
<1> QED
  BY <1>5 DEF Max

--------------------------------------------------------------------------------
(* Transcripts *)

Ids == 1 .. MaxId

Message ==
    {User(x) : x \in Ids} \cup {Text}
    \cup {Request(x, cs) : x \in Ids, cs \in Batches}
    \cup {Reply(x, i) : x \in Ids, i \in Nat \ {0}}
    \cup {Summary(X) : X \in SUBSET Ids}

Transcript == Seq(Message)

\* The calls of message i were answered: their results follow it, in order.
Answered(ms, i) ==
    /\ IsCalls(ms, i)
    /\ i + Len(ms[i].calls) <= Len(ms)
    /\ \A k \in 1 .. Len(ms[i].calls) : ms[i + k] = Reply(ms[i].x, k)

\* Every result follows the calls it answers, with all the others.
Ordered(ms) ==
    \A j \in 1 .. Len(ms) : IsTool(ms, j) =>
        \E i \in 1 .. j - 1 : Answered(ms, i) /\ j <= i + Len(ms[i].calls)

\* The messages of a transcript, by their roles.
LEMMA MessageKinds ==
    ASSUME NEW ms \in Transcript
    PROVE  /\ Len(ms) \in Nat /\ DOMAIN ms = 1 .. Len(ms)
           /\ \A i \in 1 .. Len(ms) :
                /\ ms[i] \in Message
                /\ IsCalls(ms, i) =>
                     /\ ms[i].x \in Ids /\ ms[i].calls \in Batches
                     /\ Len(ms[i].calls) \in Nat \ {0}
                     /\ DOMAIN ms[i].calls = 1 .. Len(ms[i].calls)
                     /\ ~IsTool(ms, i)
                /\ ms[i].role = "user" => ms[i].x \in Ids
                /\ ms[i].role = "summary" => ms[i].covers \subseteq Ids
<1>1. Len(ms) \in Nat /\ DOMAIN ms = 1 .. Len(ms) /\ \A i \in 1 .. Len(ms) : ms[i] \in Message
  BY LenProperties, ElementOfSeq DEF Transcript
<1>2. ASSUME NEW cs \in Batches
      PROVE  Len(cs) \in Nat \ {0} /\ DOMAIN cs = 1 .. Len(cs)
  BY BoundsAssumption, LenProperties, EmptySeq
<1>3. ASSUME NEW m \in Message
      PROVE  /\ m.role = "calls" => m.x \in Ids /\ m.calls \in Batches
             /\ m.role = "user" => m.x \in Ids
             /\ m.role = "summary" => m.covers \subseteq Ids
  BY DEF Message, User, Text, Request, Reply, Summary
<1> QED
  BY <1>1, <1>2, <1>3 DEF IsCalls, IsTool

\* A result is a tool message.
LEMMA ReplyIsTool ==
    \A x, k : Reply(x, k).role = "tool" /\ Reply(x, k).x = x /\ Reply(x, k).call = k
  BY DEF Reply

\* Where an exchange ends: after the last of the results that follow.
LEMMA EndOfExchange ==
    ASSUME NEW ms \in Transcript, NEW i \in 1 .. Len(ms)
    PROVE  /\ ExchangeEnd(ms, i) \in i .. Len(ms)
           /\ \A j \in i + 1 .. ExchangeEnd(ms, i) : IsTool(ms, j)
           /\ ExchangeEnd(ms, i) = Len(ms) \/ ~IsTool(ms, ExchangeEnd(ms, i) + 1)
<1> DEFINE S == {e \in i .. Len(ms) : e = Len(ms) \/ ~IsTool(ms, e + 1)}
<1>1. Len(ms) \in Nat
  BY MessageKinds
<1>2. S \in SUBSET Nat /\ S # {}
  BY <1>1
<1>3. ExchangeEnd(ms, i) = Min(S)
  BY DEF ExchangeEnd
<1> DEFINE e == Min(S)
<1>4. e \in S /\ \A y \in S : e <= y
  <2> HIDE DEF S
  <2> QED
    BY <1>2, LeastOf
<1>5. ASSUME NEW j \in i + 1 .. e PROVE IsTool(ms, j)
  <2>1. j - 1 \in i .. Len(ms) /\ j - 1 < e
    BY <1>1, <1>4
  <2>2. j - 1 \notin S
    BY <1>4, <2>1
  <2> QED
    BY <1>1, <2>1, <2>2
<1> QED
  BY <1>3, <1>4, <1>5

\* The results that answer a message are the exchange, no more and no less.
LEMMA AnsweredEnd ==
    ASSUME NEW ms \in Transcript, Ordered(ms), NEW i \in 1 .. Len(ms), IsCalls(ms, i)
    PROVE  ExchangeEnd(ms, i) = IF Answered(ms, i) THEN i + Len(ms[i].calls) ELSE i
<1> DEFINE n == Len(ms[i].calls)
           e == ExchangeEnd(ms, i)
<1>1. /\ Len(ms) \in Nat /\ n \in Nat \ {0} /\ ~IsTool(ms, i)
      /\ e \in i .. Len(ms)
      /\ \A j \in i + 1 .. e : IsTool(ms, j)
      /\ e = Len(ms) \/ ~IsTool(ms, e + 1)
  BY MessageKinds, EndOfExchange
<1>2. \A b \in 1 .. Len(ms), j \in 1 .. Len(ms) :
         Answered(ms, b) /\ j > b /\ j <= b + Len(ms[b].calls) => IsTool(ms, j)
  <2> SUFFICES ASSUME NEW b \in 1 .. Len(ms), NEW j \in 1 .. Len(ms),
                      Answered(ms, b), j > b, j <= b + Len(ms[b].calls)
               PROVE  IsTool(ms, j)
    OBVIOUS
  <2>1. Len(ms[b].calls) \in Nat
    BY MessageKinds DEF Answered
  <2>2. j - b \in 1 .. Len(ms[b].calls) /\ b + (j - b) = j
    BY <1>1, <2>1
  <2>3. ms[j] = Reply(ms[b].x, j - b)
    BY <2>2 DEF Answered
  <2> QED
    BY <2>3, ReplyIsTool DEF IsTool
\* Whoever answers a later message of the exchange is message i.
<1>3. ASSUME NEW j \in i + 1 .. e + 1, j <= Len(ms), IsTool(ms, j)
      PROVE  Answered(ms, i) /\ j <= i + n
  <2>1. PICK b \in 1 .. j - 1 : Answered(ms, b) /\ j <= b + Len(ms[b].calls)
    BY <1>1, <1>3 DEF Ordered
  <2>2. ~(b < i)
    BY <1>1, <1>2, <1>3, <2>1
  <2>3. ~(b > i)
    <3>1. b \in i + 1 .. e => IsTool(ms, b)
      BY <1>1
    <3>2. b \in 1 .. Len(ms) /\ ~IsTool(ms, b)
      BY <1>1, <1>3, <2>1, MessageKinds DEF Answered
    <3> QED
      BY <1>1, <1>3, <3>1, <3>2
  <2> QED
    BY <1>1, <2>1, <2>2, <2>3
<1>4. CASE Answered(ms, i)
  <2>1. i + n <= Len(ms)
    BY <1>4 DEF Answered
  <2>2. ~(e < i + n)
    BY <1>1, <1>2, <1>4, <2>1
  <2>3. ~(e > i + n)
    <3> SUFFICES ASSUME e > i + n PROVE FALSE
      OBVIOUS
    <3> QED
      BY <1>1, <1>3
  <2> QED
    BY <1>1, <1>4, <2>1, <2>2, <2>3
<1>5. CASE ~Answered(ms, i)
  <2>1. ~(e > i)
    BY <1>1, <1>3, <1>5
  <2> QED
    BY <1>1, <1>5, <2>1
<1> QED
  BY <1>4, <1>5

\* An exchange has all of its results, if it was answered, or none.
LEMMA AllOrNothing ==
    ASSUME NEW ms \in Transcript, Ordered(ms), NEW i \in 1 .. Len(ms), IsCalls(ms, i)
    PROVE  /\ Received(ms, i) = IF Answered(ms, i) THEN Expected(ms[i]) ELSE {}
           /\ Expected(ms[i]) # {}
<1> DEFINE n == Len(ms[i].calls)
<1>1. n \in Nat \ {0} /\ DOMAIN ms[i].calls = 1 .. n /\ Len(ms) \in Nat
  BY MessageKinds
<1>2. Expected(ms[i]) = {<<ms[i].x, k>> : k \in 1 .. n}
  BY <1>1 DEF Expected
<1>5. Expected(ms[i]) # {}
  <2>1. 1 \in 1 .. n
    BY <1>1
  <2>2. <<ms[i].x, 1>> \in {<<ms[i].x, k>> : k \in 1 .. n}
    BY <2>1
  <2> QED
    BY <1>2, <2>2
<1>3. CASE Answered(ms, i)
  <2>1. ExchangeEnd(ms, i) = i + n
    BY <1>3, AnsweredEnd
  <2>2. Received(ms, i) = {<<ms[j].x, ms[j].call>> : j \in i + 1 .. i + n}
    BY <2>1 DEF Received
  <2>3. \A k \in 1 .. n : ms[i + k].x = ms[i].x /\ ms[i + k].call = k
    BY <1>3, ReplyIsTool DEF Answered
  <2>4. \A j \in i + 1 .. i + n : j - i \in 1 .. n /\ i + (j - i) = j
    BY <1>1
  <2>5. \A k \in 1 .. n : i + k \in i + 1 .. i + n
    BY <1>1
  <2>6. {<<ms[j].x, ms[j].call>> : j \in i + 1 .. i + n} = {<<ms[i].x, k>> : k \in 1 .. n}
    <3> HIDE DEF n
    <3>1. ASSUME NEW j \in i + 1 .. i + n
          PROVE  <<ms[j].x, ms[j].call>> = <<ms[i].x, j - i>> /\ j - i \in 1 .. n
      <4>1. j - i \in 1 .. n /\ i + (j - i) = j
        BY <2>4
      <4>2. ms[i + (j - i)].x = ms[i].x /\ ms[i + (j - i)].call = j - i
        BY <2>3, <4>1
      <4> QED
        BY <4>1, <4>2
    <3>2. ASSUME NEW k \in 1 .. n
          PROVE  <<ms[i + k].x, ms[i + k].call>> = <<ms[i].x, k>> /\ i + k \in i + 1 .. i + n
      BY <2>3, <2>5
    <3> QED
      BY <3>1, <3>2
  <2> QED
    BY <1>2, <1>3, <1>5, <2>2, <2>6
<1>4. CASE ~Answered(ms, i)
  <2>1. ExchangeEnd(ms, i) = i
    BY <1>4, AnsweredEnd
  <2>2. Received(ms, i) = {}
    BY <2>1 DEF Received
  <2> QED
    BY <1>4, <1>5, <2>2
<1> QED
  BY <1>3, <1>4

\* No exchange lies across position n.
SafeCut(ms, n) ==
    \A i \in 1 .. Len(ms) : Answered(ms, i) => i > n \/ i + Len(ms[i].calls) <= n

\* What message i tells of: an exchange with panes only until it is answered.
Tells(ms, i) ==
    IF ms[i].role = "summary" THEN ms[i].covers
    ELSE IF ms[i].role = "user" THEN {ms[i].x}
    ELSE IF IsCalls(ms, i) /\ ~(Answered(ms, i) /\ Range(ms[i].calls) \subseteq PaneReads)
    THEN {ms[i].x} ELSE {}

Told(ms, I) == UNION {Tells(ms, i) : i \in I}

\* A message tells the same wherever it stands.
LEMMA SameTells ==
    ASSUME NEW ms, NEW ns, NEW i, NEW j, ns[j] = ms[i], Answered(ns, j) <=> Answered(ms, i)
    PROVE  Tells(ns, j) = Tells(ms, i)
BY DEF Tells, IsCalls

\* A message that is no result is added: nothing before it changes.
LEMMA AddMessage ==
    ASSUME NEW ms \in Transcript, Ordered(ms), NEW m \in Message, m.role # "tool"
    PROVE  LET ns == Append(ms, m) IN
           /\ ns \in Transcript /\ Ordered(ns)
           /\ Len(ns) = Len(ms) + 1 /\ ns[Len(ns)] = m /\ ~Answered(ns, Len(ns))
           /\ \A i \in 1 .. Len(ms) : ns[i] = ms[i] /\ Tells(ns, i) = Tells(ms, i)
<1> DEFINE ns == Append(ms, m)
           l == Len(ms)
<1>1. /\ ns \in Transcript /\ Len(ns) = l + 1 /\ ns[l + 1] = m
      /\ \A i \in 1 .. l : ns[i] = ms[i]
      /\ l \in Nat
  BY AppendProperties, LenProperties DEF Transcript
<1> HIDE DEF ns, l
<1>2. \A i \in 1 .. l + 1 : IsCalls(ns, i) => Len(ns[i].calls) \in Nat \ {0}
  BY <1>1, MessageKinds
<1>3. ASSUME NEW i \in 1 .. l + 1, Answered(ns, i) PROVE i + Len(ns[i].calls) <= l
  <2> SUFFICES ASSUME i + Len(ns[i].calls) = l + 1 PROVE FALSE
    BY <1>1, <1>2, <1>3 DEF Answered
  <2>1. ns[i + Len(ns[i].calls)] = Reply(ns[i].x, Len(ns[i].calls))
    BY <1>2, <1>3 DEF Answered
  <2> QED
    BY <1>1, <2>1, ReplyIsTool
<1>4. ASSUME NEW i \in 1 .. l PROVE Answered(ns, i) <=> Answered(ms, i)
  <2>1. ns[i] = ms[i] /\ (IsCalls(ns, i) <=> IsCalls(ms, i))
    BY <1>1 DEF IsCalls
  <2>2. ASSUME IsCalls(ns, i), i + Len(ns[i].calls) <= l
        PROVE  \A k \in 1 .. Len(ns[i].calls) : ns[i + k] = ms[i + k]
    BY <1>1, <1>2, <2>2
  <2>3. ASSUME Answered(ns, i) PROVE Answered(ms, i)
    BY <1>3, <2>1, <2>2, <2>3 DEF Answered, l
  <2>4. ASSUME Answered(ms, i) PROVE Answered(ns, i)
    <3>1. IsCalls(ns, i) /\ i + Len(ns[i].calls) <= l
      BY <2>1, <2>4 DEF Answered, l
    <3>2. i + Len(ns[i].calls) <= Len(ns)
      BY <1>1, <1>2, <3>1
    <3> QED
      BY <2>1, <2>2, <2>4, <3>1, <3>2 DEF Answered
  <2> QED
    BY <2>3, <2>4
<1>5. Ordered(ns)
  <2> SUFFICES ASSUME NEW j \in 1 .. l + 1, IsTool(ns, j)
               PROVE  \E i \in 1 .. j - 1 : Answered(ns, i) /\ j <= i + Len(ns[i].calls)
    BY <1>1 DEF Ordered
  <2>1. j \in 1 .. l /\ IsTool(ms, j)
    BY <1>1 DEF IsTool
  <2>2. PICK i \in 1 .. j - 1 : Answered(ms, i) /\ j <= i + Len(ms[i].calls)
    BY <2>1 DEF Ordered, l
  <2>3. i \in 1 .. l
    BY <1>1, <2>1
  <2> QED
    BY <1>1, <1>4, <2>2, <2>3
<1>6. ~Answered(ns, l + 1)
  <2> SUFFICES ASSUME Answered(ns, l + 1) PROVE FALSE
    OBVIOUS
  <2>1. l + 1 \in 1 .. l + 1
    BY <1>1
  <2>2. IsCalls(ns, l + 1) /\ l + 1 + Len(ns[l + 1].calls) <= l
    BY <1>3, <2>1 DEF Answered
  <2> DEFINE c == Len(ns[l + 1].calls)
  <2>3. c \in Nat /\ l + 1 + c <= l
    BY <1>2, <2>1, <2>2
  <2> HIDE DEF c
  <2> QED
    BY <1>1, <2>3
<1>7. \A i \in 1 .. l : Tells(ns, i) = Tells(ms, i)
  BY <1>1, <1>4, SameTells
<1> QED
  BY <1>1, <1>5, <1>6, <1>7 DEF ns, l

\* The results of a batch are added behind its calls, all of them at once.
LEMMA AddReplies ==
    ASSUME NEW ms \in Transcript, Ordered(ms), NEW x \in Ids, NEW cs \in Batches,
           Len(ms) > 0, ms[Len(ms)] = Request(x, cs)
    PROVE  LET ns == ms \o [k \in DOMAIN cs |-> Reply(x, k)] IN
           /\ ns \in Transcript /\ Ordered(ns)
           /\ Answered(ns, Len(ms)) /\ Len(ns) = Len(ms) + Len(cs)
           /\ \A i \in 1 .. Len(ms) : ns[i] = ms[i]
           /\ \A i \in 1 .. Len(ms) - 1 : Tells(ns, i) = Tells(ms, i)
<1> DEFINE rs == [k \in DOMAIN cs |-> Reply(x, k)]
           ns == ms \o rs
           l == Len(ms)
           n == Len(cs)
<1>1. l \in Nat /\ n \in Nat \ {0} /\ DOMAIN cs = 1 .. n
  BY MessageKinds, BoundsAssumption, LenProperties, EmptySeq
<1>2. rs \in Seq(Message) /\ Len(rs) = n
  <2>1. \A k \in 1 .. n : Reply(x, k) \in Message
    BY <1>1 DEF Message
  <2>2. rs = [k \in 1 .. n |-> Reply(x, k)]
    BY <1>1
  <2>3. rs \in [1 .. n -> Message]
    BY <2>1, <2>2
  <2> QED
    BY <1>1, <2>3, SeqDef
<1>3. /\ ns \in Transcript /\ Len(ns) = l + n
      /\ \A i \in 1 .. l : ns[i] = ms[i]
      /\ \A k \in 1 .. n : ns[l + k] = Reply(x, k)
  <2>1. /\ ns \in Seq(Message) /\ Len(ns) = l + n
        /\ \A i \in 1 .. l + n : ns[i] = IF i <= l THEN ms[i] ELSE rs[i - l]
    BY <1>1, <1>2, ConcatProperties DEF Transcript
  <2>2. \A k \in 1 .. n : l + k \in 1 .. l + n /\ ~(l + k <= l) /\ (l + k) - l = k
    BY <1>1
  <2>3. \A i \in 1 .. l : i \in 1 .. l + n /\ i <= l
    BY <1>1
  <2>4. \A k \in 1 .. n : rs[k] = Reply(x, k)
    BY <1>1
  <2> HIDE DEF ns, rs, l, n
  <2> QED
    BY <2>1, <2>2, <2>3, <2>4 DEF Transcript
<1>4. ms[l].calls = cs /\ ms[l].x = x /\ ms[l].role = "calls"
  BY DEF Request
<1> HIDE DEF ns, rs, l, n
<1>5. Answered(ns, l)
  <2>1. ns[l] = ms[l] /\ l \in 1 .. l
    BY <1>1, <1>3 DEF l
  <2> QED
    BY <1>3, <1>4, <2>1 DEF Answered, IsCalls, n
<1>6. \A i \in 1 .. l + n : IsCalls(ns, i) => Len(ns[i].calls) \in Nat \ {0}
  BY <1>3, MessageKinds
\* The results of an earlier exchange cannot reach beyond the request.
<1>7. ASSUME NEW i \in 1 .. l - 1 PROVE Answered(ns, i) <=> Answered(ms, i)
  <2>1. ns[i] = ms[i] /\ (IsCalls(ns, i) <=> IsCalls(ms, i)) /\ l \in 1 .. l
    BY <1>1, <1>3 DEF IsCalls
  <2>2. ASSUME IsCalls(ns, i), i + Len(ns[i].calls) <= l
        PROVE  \A k \in 1 .. Len(ns[i].calls) : ns[i + k] = ms[i + k]
    BY <1>1, <1>3, <1>6, <2>2
  <2>3. ASSUME Answered(ns, i) PROVE Answered(ms, i)
    <3>1. IsCalls(ns, i) /\ Len(ns[i].calls) \in Nat \ {0}
      BY <1>1, <1>6, <2>3 DEF Answered
    <3>2. ~(i + Len(ns[i].calls) >= l)
      <4> SUFFICES ASSUME i + Len(ns[i].calls) >= l PROVE FALSE
        OBVIOUS
      <4>1. l - i \in 1 .. Len(ns[i].calls) /\ i + (l - i) = l
        BY <1>1, <3>1
      <4>2. ns[l] = Reply(ns[i].x, l - i)
        BY <2>3, <4>1 DEF Answered
      <4>3. ns[l].role = "calls"
        BY <1>3, <1>4, <2>1 DEF l
      <4> QED
        BY <4>2, <4>3, ReplyIsTool
    <3>3. i + Len(ns[i].calls) <= l
      BY <1>1, <3>1, <3>2
    <3> QED
      BY <2>1, <2>2, <2>3, <3>1, <3>3 DEF Answered, l
  <2>4. ASSUME Answered(ms, i) PROVE Answered(ns, i)
    <3>1. IsCalls(ns, i) /\ i + Len(ns[i].calls) <= l
      BY <2>1, <2>4 DEF Answered, l
    <3>2. i + Len(ns[i].calls) <= Len(ns)
      BY <1>1, <1>3, <1>6, <3>1
    <3> QED
      BY <2>1, <2>2, <2>4, <3>1, <3>2 DEF Answered
  <2> QED
    BY <2>3, <2>4
<1>8. Ordered(ns)
  <2> SUFFICES ASSUME NEW j \in 1 .. l + n, IsTool(ns, j)
               PROVE  \E i \in 1 .. j - 1 : Answered(ns, i) /\ j <= i + Len(ns[i].calls)
    BY <1>3 DEF Ordered
  <2>1. CASE j > l
    <3>1. l \in 1 .. j - 1 /\ ns[l].calls = cs
      BY <1>1, <1>3, <1>4, <2>1 DEF l
    <3> QED
      BY <1>1, <1>5, <2>1, <3>1 DEF n
  <2>2. CASE j <= l
    <3>1. j \in 1 .. l /\ IsTool(ms, j)
      BY <1>1, <1>3, <2>2 DEF IsTool
    <3>2. PICK i \in 1 .. j - 1 : Answered(ms, i) /\ j <= i + Len(ms[i].calls)
      BY <3>1 DEF Ordered, l
    <3>3. i \in 1 .. l - 1 /\ ns[i] = ms[i]
      BY <1>1, <1>3, <3>1
    <3> QED
      BY <1>7, <3>2, <3>3
  <2> QED
    BY <1>1, <2>1, <2>2
<1>9. \A i \in 1 .. l - 1 : Tells(ns, i) = Tells(ms, i)
  <2>1. \A i \in 1 .. l - 1 : ns[i] = ms[i]
    BY <1>1, <1>3
  <2> QED
    BY <1>7, <2>1, SameTells
<1> QED
  BY <1>3, <1>5, <1>8, <1>9 DEF ns, l, n, rs

\* A part of a transcript between two safe cuts is a transcript, and tells what
\* it told there.
LEMMA PartBetweenCuts ==
    ASSUME NEW ms \in Transcript, Ordered(ms), NEW a \in 0 .. Len(ms), NEW b \in a .. Len(ms),
           SafeCut(ms, a), SafeCut(ms, b)
    PROVE  LET ps == SubSeq(ms, a + 1, b) IN
           /\ ps \in Transcript /\ Ordered(ps) /\ Len(ps) = b - a
           /\ \A j \in 1 .. b - a : ps[j] = ms[a + j] /\ Tells(ps, j) = Tells(ms, a + j)
<1> DEFINE ps == SubSeq(ms, a + 1, b)
           n == b - a
<1>1. Len(ms) \in Nat /\ \A i \in 1 .. Len(ms) : ms[i] \in Message
  BY MessageKinds
<1>2. ps \in Transcript /\ Len(ps) = n /\ \A j \in 1 .. n : ps[j] = ms[a + j]
  <2>1. a + 1 \in Int /\ b \in Int /\ \A i \in a + 1 .. b : ms[i] \in Message
    BY <1>1
  <2>2. /\ ps \in Seq(Message) /\ Len(ps) = (IF a + 1 <= b THEN b - (a + 1) + 1 ELSE 0)
        /\ \A j \in 1 .. b - (a + 1) + 1 : ps[j] = ms[(a + 1) + j - 1]
    BY <2>1, SubSeqProperties
  <2>3. b - (a + 1) + 1 = n /\ \A j \in 1 .. n : (a + 1) + j - 1 = a + j
    BY <1>1
  <2> HIDE DEF ps
  <2> QED
    BY <1>1, <2>2, <2>3 DEF Transcript
<1> HIDE DEF ps
<1>3. \A j \in 1 .. n : IsCalls(ps, j) => Len(ps[j].calls) \in Nat \ {0}
  BY <1>2, MessageKinds
<1>4. ASSUME NEW j \in 1 .. n PROVE Answered(ps, j) <=> Answered(ms, a + j)
  <2>1. /\ ps[j] = ms[a + j] /\ (IsCalls(ps, j) <=> IsCalls(ms, a + j))
        /\ a + j \in 1 .. Len(ms) /\ ~(a + j > b)
    BY <1>1, <1>2 DEF IsCalls
  <2>2. ASSUME IsCalls(ps, j), j + Len(ps[j].calls) <= n
        PROVE  \A k \in 1 .. Len(ps[j].calls) : ps[j + k] = ms[a + j + k]
    <3> SUFFICES ASSUME NEW k \in 1 .. Len(ps[j].calls) PROVE ps[j + k] = ms[a + j + k]
      OBVIOUS
    <3>1. j + k \in 1 .. n /\ a + (j + k) = a + j + k
      BY <1>1, <1>3, <2>2
    <3> QED
      BY <1>2, <3>1
  <2>3. ASSUME Answered(ps, j) PROVE Answered(ms, a + j)
    <3>1. IsCalls(ps, j) /\ j + Len(ps[j].calls) <= n
      BY <1>2, <2>3 DEF Answered
    <3>2. a + j + Len(ps[j].calls) <= Len(ms)
      <4> DEFINE c == Len(ps[j].calls)
      <4>1. c \in Nat /\ j + c <= n
        BY <1>3, <3>1
      <4> HIDE DEF c
      <4>2. a + j + c <= Len(ms)
        BY <1>1, <4>1
      <4> QED
        BY <4>2 DEF c
    <3> QED
      BY <2>1, <2>2, <2>3, <3>1, <3>2 DEF Answered
  <2>4. ASSUME Answered(ms, a + j) PROVE Answered(ps, j)
    <3>1. IsCalls(ps, j) /\ a + j + Len(ps[j].calls) <= b
      BY <2>1, <2>4 DEF Answered, SafeCut
    <3>2. j + Len(ps[j].calls) <= n
      <4> DEFINE c == Len(ps[j].calls)
      <4>1. c \in Nat /\ a + j + c <= b
        BY <1>3, <3>1
      <4> HIDE DEF c
      <4>2. j + c <= n
        BY <1>1, <4>1
      <4> QED
        BY <4>2 DEF c
    <3> QED
      BY <1>2, <2>1, <2>2, <2>4, <3>1, <3>2 DEF Answered
  <2> QED
    BY <2>3, <2>4
<1>5. Ordered(ps)
  <2> SUFFICES ASSUME NEW j \in 1 .. n, IsTool(ps, j)
               PROVE  \E i \in 1 .. j - 1 : Answered(ps, i) /\ j <= i + Len(ps[i].calls)
    BY <1>2 DEF Ordered
  <2>1. a + j \in 1 .. Len(ms) /\ IsTool(ms, a + j)
    BY <1>1, <1>2 DEF IsTool
  <2>2. PICK i \in 1 .. a + j - 1 : Answered(ms, i) /\ a + j <= i + Len(ms[i].calls)
    BY <2>1 DEF Ordered
  <2>3. Len(ms[i].calls) \in Nat /\ i \in 1 .. Len(ms)
    BY <1>1, <2>1, <2>2, MessageKinds DEF Answered
  <2>4. i > a
    BY <1>1, <2>2, <2>3 DEF SafeCut
  <2>5. i - a \in 1 .. j - 1 /\ i - a \in 1 .. n /\ a + (i - a) = i
    BY <1>1, <2>3, <2>4
  <2>6. Answered(ps, i - a) /\ ps[i - a] = ms[i]
    BY <1>2, <1>4, <2>2, <2>5
  <2>7. j <= (i - a) + Len(ps[i - a].calls)
    BY <1>1, <2>2, <2>3, <2>6
  <2> QED
    BY <2>5, <2>6, <2>7
<1>6. \A j \in 1 .. n : Tells(ps, j) = Tells(ms, a + j)
  BY <1>2, <1>4, SameTells
<1> QED
  BY <1>2, <1>5, <1>6 DEF ps

\* A summary put in front of a transcript leaves it as it is.
LEMMA AddSummary ==
    ASSUME NEW ps \in Transcript, Ordered(ps), NEW X \in SUBSET Ids
    PROVE  LET ns == <<Summary(X)>> \o ps IN
           /\ ns \in Transcript /\ Ordered(ns) /\ Len(ns) = Len(ps) + 1
           /\ Tells(ns, 1) = X
           /\ \A j \in 1 .. Len(ps) : Tells(ns, j + 1) = Tells(ps, j)
<1> DEFINE s == <<Summary(X)>>
           ns == s \o ps
           n == Len(ps)
<1>1. s \in Seq(Message) /\ Len(s) = 1 /\ s[1] = Summary(X) /\ n \in Nat
  <2>1. Summary(X) \in Message
    BY DEF Message
  <2> QED
    BY <2>1, MessageKinds
<1>2. /\ ns \in Transcript /\ Len(ns) = n + 1 /\ ns[1] = Summary(X)
      /\ \A j \in 1 .. n : ns[j + 1] = ps[j]
  <2> HIDE DEF s
  <2>1. /\ ns \in Seq(Message) /\ Len(ns) = 1 + n
        /\ \A i \in 1 .. 1 + n : ns[i] = IF i <= 1 THEN s[i] ELSE ps[i - 1]
    <3>1. ps \in Seq(Message)
      BY DEF Transcript
    <3>2. /\ s \o ps \in Seq(Message) /\ Len(s \o ps) = Len(s) + Len(ps)
          /\ \A i \in 1 .. Len(s) + Len(ps) : (s \o ps)[i] =
                 IF i <= Len(s) THEN s[i] ELSE ps[i - Len(s)]
      BY <1>1, <3>1, ConcatProperties
    <3> QED
      BY <1>1, <3>2
  <2>2. \A j \in 1 .. n : j + 1 \in 1 .. 1 + n /\ ~(j + 1 <= 1) /\ (j + 1) - 1 = j
    BY <1>1
  <2>3. 1 \in 1 .. 1 + n
    BY <1>1
  <2> HIDE DEF ns, n
  <2> QED
    BY <1>1, <2>1, <2>2, <2>3 DEF Transcript
<1> HIDE DEF ns, s
<1>3. \A j \in 1 .. n : IsCalls(ps, j) => Len(ps[j].calls) \in Nat
  BY MessageKinds
<1>4. ASSUME NEW j \in 1 .. n PROVE Answered(ns, j + 1) <=> Answered(ps, j)
  <2>1. ns[j + 1] = ps[j] /\ (IsCalls(ns, j + 1) <=> IsCalls(ps, j))
    BY <1>2 DEF IsCalls
  <2>2. ASSUME IsCalls(ps, j), j + Len(ps[j].calls) <= n
        PROVE  \A k \in 1 .. Len(ps[j].calls) : ns[j + 1 + k] = ps[j + k]
    <3> SUFFICES ASSUME NEW k \in 1 .. Len(ps[j].calls) PROVE ns[j + 1 + k] = ps[j + k]
      OBVIOUS
    <3>1. j + k \in 1 .. n /\ (j + k) + 1 = j + 1 + k
      BY <1>1, <1>3, <2>2
    <3> QED
      BY <1>2, <3>1
  <2>3. IsCalls(ps, j) => (j + 1 + Len(ps[j].calls) <= n + 1 <=> j + Len(ps[j].calls) <= n)
    <3> DEFINE c == Len(ps[j].calls)
    <3>1. IsCalls(ps, j) => c \in Nat
      BY <1>3
    <3> HIDE DEF c
    <3>2. c \in Nat => (j + 1 + c <= n + 1 <=> j + c <= n)
      BY <1>1
    <3> QED
      BY <3>1, <3>2 DEF c
  <2> QED
    BY <1>2, <2>1, <2>2, <2>3 DEF Answered
<1>5. Ordered(ns)
  <2> SUFFICES ASSUME NEW j \in 1 .. n + 1, IsTool(ns, j)
               PROVE  \E i \in 1 .. j - 1 : Answered(ns, i) /\ j <= i + Len(ns[i].calls)
    BY <1>2 DEF Ordered
  <2>1. j # 1
    BY <1>2 DEF IsTool, Summary
  <2>2. j - 1 \in 1 .. n /\ (j - 1) + 1 = j
    BY <1>1, <2>1
  <2>3. IsTool(ps, j - 1)
    BY <1>2, <2>2 DEF IsTool
  <2>4. PICK i \in 1 .. (j - 1) - 1 : Answered(ps, i) /\ j - 1 <= i + Len(ps[i].calls)
    BY <2>2, <2>3 DEF Ordered
  <2>5. i \in 1 .. n /\ i + 1 \in 1 .. j - 1 /\ Len(ps[i].calls) \in Nat
    BY <1>1, <1>3, <2>2, <2>4 DEF Answered
  <2>6. Answered(ns, i + 1) /\ ns[i + 1] = ps[i]
    BY <1>2, <1>4, <2>4, <2>5
  <2>7. j <= (i + 1) + Len(ns[i + 1].calls)
    <3> DEFINE c == Len(ps[i].calls)
    <3>1. c \in Nat /\ j - 1 <= i + c
      BY <2>4, <2>5
    <3> HIDE DEF c
    <3>2. j <= (i + 1) + c
      BY <1>1, <2>5, <3>1
    <3> QED
      BY <2>6, <3>2 DEF c
  <2> QED
    BY <2>5, <2>6, <2>7
<1>6. \A j \in 1 .. n : Tells(ns, j + 1) = Tells(ps, j)
  <2>1. ASSUME NEW j \in 1 .. n PROVE Tells(ns, j + 1) = Tells(ps, j)
    BY <1>2, <1>4, SameTells
  <2> QED
    BY <2>1
<1>7. Tells(ns, 1) = X
  BY <1>2 DEF Tells, Summary
<1> QED
  BY <1>2, <1>5, <1>6, <1>7 DEF ns, s

\* SafeEnd finds a safe cut at or before the one that was asked for.
LEMMA SafeEndIsSafe ==
    ASSUME NEW ms \in Transcript, Ordered(ms), NEW n \in 0 .. Len(ms)
    PROVE  SafeEnd(ms, n) \in 0 .. n /\ SafeCut(ms, SafeEnd(ms, n))
<1> DEFINE inside == UNION {i .. ExchangeEnd(ms, i) - 1 : i \in {j \in DOMAIN ms : IsCalls(ms, j)}}
           S == (0 .. n) \ inside
           m == Max(S)
<1>1. Len(ms) \in Nat /\ DOMAIN ms = 1 .. Len(ms)
  BY MessageKinds
<1>2. 0 \in S
  BY <1>1
<1>3. m \in S
  <2>1. n \in Nat /\ S \in SUBSET (0 .. n) /\ S # {}
    BY <1>1, <1>2
  <2> HIDE DEF S
  <2> QED
    BY <2>1, GreatestOf
<1>4. SafeEnd(ms, n) = m
  BY DEF SafeEnd
<1>5. ASSUME NEW i \in 1 .. Len(ms), Answered(ms, i)
      PROVE  i > m \/ i + Len(ms[i].calls) <= m
  <2>1. IsCalls(ms, i) /\ Len(ms[i].calls) \in Nat
    BY <1>5, MessageKinds DEF Answered
  <2>2. ExchangeEnd(ms, i) = i + Len(ms[i].calls)
    BY <1>5, <2>1, AnsweredEnd
  <2>3. m \notin i .. ExchangeEnd(ms, i) - 1
    BY <1>1, <1>3, <2>1
  <2>4. m \in Nat
    BY <1>1, <1>3
  <2> HIDE DEF m
  <2> QED
    BY <1>1, <2>1, <2>2, <2>3, <2>4
<1> HIDE DEF m
<1> QED
  BY <1>3, <1>4, <1>5 DEF SafeCut

--------------------------------------------------------------------------------
(* The projection *)

\* An exchange the builder takes for closed was answered, and if the last one
\* is closed too, every answered one is.
LEMMA ClosedIsAnswered ==
    ASSUME NEW ms \in Transcript, Ordered(ms), NEW i \in 1 .. Len(ms), IsCalls(ms, i),
           NEW closeFinal
    PROVE  /\ Closed(ms, i, closeFinal) => Answered(ms, i)
           /\ Answered(ms, i) => Closed(ms, i, TRUE)
BY AllOrNothing DEF Closed

\* Whatever a transcript tells is in the context that is sent, or summarised.
LEMMA BuildTellsAll ==
    ASSUME NEW ms \in Transcript, Ordered(ms), NEW closeFinal
    PROVE  Told(ms, 1 .. Len(ms)) \subseteq Said(Build(ms, closeFinal))
<1> DEFINE closed == {i \in DOMAIN ms : IsCalls(ms, i) /\ Closed(ms, i, closeFinal)}
           silent == {i \in closed : Range(ms[i].calls) \subseteq PaneReads}
           absorbed == silent \cup UNION {i + 1 .. ExchangeEnd(ms, i) : i \in closed}
           built == Build(ms, closeFinal)
<1> SUFFICES ASSUME NEW i \in 1 .. Len(ms), NEW x \in Tells(ms, i)
             PROVE  x \in Said(built)
  BY DEF Told
<1>1. DOMAIN ms = 1 .. Len(ms) /\ Len(ms) \in Nat
  BY MessageKinds
<1>2. built = [j \in DOMAIN ms \ absorbed |-> IF j \in closed THEN Finding(ms[j].x) ELSE ms[j]]
  BY DEF Build
<1>3. i \notin silent
  <2> SUFFICES ASSUME i \in silent PROVE FALSE
    OBVIOUS
  <2>1. Answered(ms, i) /\ IsCalls(ms, i) /\ Range(ms[i].calls) \subseteq PaneReads
    BY <1>1, ClosedIsAnswered
  <2>2. Tells(ms, i) = {}
    BY <2>1 DEF Tells, IsCalls
  <2> QED
    BY <2>2
<1>4. ASSUME NEW j \in closed PROVE i \notin j + 1 .. ExchangeEnd(ms, j)
  <2> SUFFICES ASSUME i \in j + 1 .. ExchangeEnd(ms, j) PROVE FALSE
    OBVIOUS
  <2>1. IsTool(ms, i)
    BY <1>1, EndOfExchange
  <2>2. Tells(ms, i) = {}
    BY <2>1 DEF Tells, IsTool, IsCalls
  <2> QED
    BY <2>2
<1>5. i \in DOMAIN ms \ absorbed
  BY <1>1, <1>3, <1>4
<1> DEFINE m == built[i]
<1>6. m = (IF i \in closed THEN Finding(ms[i].x) ELSE ms[i]) /\ m \in Range(built)
  <2> HIDE DEF closed, absorbed, built
  <2> QED
    BY <1>2, <1>5 DEF Range
<1> DEFINE told == IF m.role = "summary" THEN m.covers
                   ELSE IF m.role \in {"user", "calls", "finding"} THEN {m.x} ELSE {}
<1>7. x \in told
  <2>1. CASE i \in closed
    <3>1. IsCalls(ms, i) /\ x = ms[i].x
      BY <2>1 DEF Tells, IsCalls
    <3>2. m = Finding(ms[i].x)
      BY <1>6, <2>1
    <3> HIDE DEF m
    <3> QED
      BY <3>1, <3>2 DEF Finding
  <2>2. CASE i \notin closed
    <3>1. m = ms[i]
      BY <1>6, <2>2
    <3> HIDE DEF m
    <3> QED
      BY <3>1 DEF Tells, IsCalls
  <2> QED
    BY <2>1, <2>2
<1> HIDE DEF m, built
<1> QED
  BY <1>6, <1>7 DEF Said

\* The projection of a part that is summarised, or of a transcript that is
\* restored, tells nothing more.
LEMMA BuildTellsNoMore ==
    ASSUME NEW ms \in Transcript, Ordered(ms)
    PROVE  Said(Build(ms, TRUE)) \subseteq Told(ms, 1 .. Len(ms))
<1> DEFINE closed == {i \in DOMAIN ms : IsCalls(ms, i) /\ Closed(ms, i, TRUE)}
           silent == {i \in closed : Range(ms[i].calls) \subseteq PaneReads}
           absorbed == silent \cup UNION {i + 1 .. ExchangeEnd(ms, i) : i \in closed}
           built == Build(ms, TRUE)
<1> SUFFICES ASSUME NEW x \in Said(built)
             PROVE  \E i \in 1 .. Len(ms) : x \in Tells(ms, i)
  BY DEF Told
<1>1. DOMAIN ms = 1 .. Len(ms) /\ Len(ms) \in Nat
  BY MessageKinds
<1>2. built = [j \in DOMAIN ms \ absorbed |-> IF j \in closed THEN Finding(ms[j].x) ELSE ms[j]]
  BY DEF Build
<1>3. PICK m \in Range(built) :
        x \in IF m.role = "summary" THEN m.covers
              ELSE IF m.role \in {"user", "calls", "finding"} THEN {m.x} ELSE {}
  <2> HIDE DEF built
  <2> QED
    BY DEF Said
<1>4. PICK i \in DOMAIN ms \ absorbed : m = IF i \in closed THEN Finding(ms[i].x) ELSE ms[i]
  <2> HIDE DEF closed, absorbed, built
  <2> QED
    BY <1>2 DEF Range
<1>5. CASE i \in closed
  <2>1. IsCalls(ms, i) /\ ~(Range(ms[i].calls) \subseteq PaneReads)
    BY <1>4, <1>5
  <2>2. m = Finding(ms[i].x)
    BY <1>4, <1>5
  <2>3. x = ms[i].x
    BY <1>3, <2>2 DEF Finding
  <2>4. x \in Tells(ms, i)
    BY <2>1, <2>3 DEF Tells, IsCalls
  <2> QED
    BY <1>1, <2>4
<1>6. CASE i \notin closed
  <2>1. m = ms[i] /\ i \in 1 .. Len(ms)
    BY <1>1, <1>4, <1>6
  <2>2. m.role # "finding"
    BY <2>1, MessageKinds DEF Message, User, Text, Request, Reply, Summary
  <2>3. IsCalls(ms, i) => ~Answered(ms, i)
    BY <1>1, <1>6, <2>1, ClosedIsAnswered
  <2>4. x \in Tells(ms, i)
    BY <1>3, <2>1, <2>2, <2>3 DEF Tells, IsCalls
  <2> QED
    BY <2>1, <2>4
<1> QED
  BY <1>5, <1>6

\* A transcript tells of prompts and exchanges.
LEMMA ToldAreIds ==
    ASSUME NEW ms \in Transcript PROVE Told(ms, 1 .. Len(ms)) \subseteq Ids
<1> SUFFICES ASSUME NEW i \in 1 .. Len(ms) PROVE Tells(ms, i) \subseteq Ids
  BY DEF Told
<1> QED
  BY MessageKinds DEF Tells

--------------------------------------------------------------------------------
(* What the loop works with *)

\* A cut taken before the await of compact fits the transcript after it.
Fits(c, ms) ==
    /\ c.at \in 1 .. Len(ms) /\ SafeCut(ms, c.at)
    /\ Told(ms, 1 .. c.at) \subseteq c.covers /\ c.covers \subseteq Ids

\* Outside of dispatch: the transcript is in order, tells all that was learned,
\* and a pending cut fits it.
Settled ==
    /\ messages \in Transcript /\ Ordered(messages)
    /\ learned \subseteq Told(messages, 1 .. Len(messages))
    /\ pc = "compacting" => Fits(cut, messages)

\* During dispatch: the batch is the last message, and only a batch that is for
\* more than panes will be missed if its results do not come.
Open ==
    /\ messages \in Transcript /\ Ordered(messages) /\ Len(messages) > 0
    /\ \E x \in Ids :
          /\ messages[Len(messages)] = Request(x, turn.calls)
          /\ learned \subseteq Told(messages, 1 .. Len(messages) - 1) \cup
                 (IF Range(turn.calls) \subseteq PaneReads THEN {} ELSE {x})

Checkpoints == \A s \in Sessions : saved[s] \in Transcript /\ Ordered(saved[s])

Remembered ==
    /\ Checkpoints
    /\ IF pc = "dispatching" THEN Open ELSE Settled

\* A request without its results tells of itself: at every await the whole
\* transcript tells all that was learned.
LEMMA WhatIsKnown ==
    ASSUME Remembered
    PROVE  /\ messages \in Transcript /\ Ordered(messages)
           /\ learned \subseteq Told(messages, 1 .. Len(messages))
<1>1. CASE pc # "dispatching"
  BY <1>1 DEF Remembered, Settled
<1>2. CASE pc = "dispatching"
  <2>1. Open
    BY <1>2 DEF Remembered
  <2> DEFINE l == Len(messages)
  <2>2. messages \in Transcript /\ l \in Nat /\ l > 0
    BY <2>1, MessageKinds DEF Open
  <2>3. PICK x \in Ids : /\ messages[l] = Request(x, turn.calls)
                         /\ learned \subseteq Told(messages, 1 .. l - 1) \cup
                                (IF Range(turn.calls) \subseteq PaneReads THEN {} ELSE {x})
    BY <2>1 DEF Open
  <2>4. Tells(messages, l) = {x} \/ Range(turn.calls) \subseteq PaneReads
    BY <2>3 DEF Tells, IsCalls, Request
  <2> HIDE DEF l
  <2>5. Told(messages, 1 .. l) = Told(messages, 1 .. l - 1) \cup Tells(messages, l)
    <3>1. 1 .. l = (1 .. l - 1) \cup {l}
      BY <2>2
    <3> QED
      BY <3>1 DEF Told
  <2> QED
    BY <2>1, <2>3, <2>4, <2>5 DEF Open, l
<1> QED
  BY <1>1, <1>2

\* compact's projection of what lies before the cut leaves nothing out.
LEMMA StartCompactSettles ==
    ASSUME NEW ms \in Transcript, Ordered(ms), NEW n \in 0 .. Len(ms), NEW r,
           StartCompact(ms, n, r), learned' \subseteq Told(ms, 1 .. Len(ms))
    PROVE  Settled'
<1> DEFINE a == SafeEnd(ms, n)
           ps == SubSeq(ms, 1, a)
           X == Said(Build(ps, TRUE))
<1>1. a \in 1 .. n /\ SafeCut(ms, a) /\ Len(ms) \in Nat
  <2>1. a \in 0 .. n /\ SafeCut(ms, a) /\ Len(ms) \in Nat
    BY SafeEndIsSafe, MessageKinds
  <2>2. a > 0
    BY DEF StartCompact
  <2> QED
    BY <2>1, <2>2
<1>2. messages' = ms /\ cut' = [at |-> a, resume |-> r, covers |-> X]
  BY DEF StartCompact
<1> HIDE DEF a
<1>3. SafeCut(ms, 0)
  BY DEF SafeCut
<1>4. /\ ps \in Transcript /\ Ordered(ps) /\ Len(ps) = a
      /\ \A j \in 1 .. a : Tells(ps, j) = Tells(ms, j)
  <2> DEFINE qs == SubSeq(ms, 0 + 1, a)
  <2>1. /\ qs \in Transcript /\ Ordered(qs) /\ Len(qs) = a - 0
        /\ \A j \in 1 .. a - 0 : Tells(qs, j) = Tells(ms, 0 + j)
    <3>1. 0 \in 0 .. Len(ms) /\ a \in 0 .. Len(ms)
      BY <1>1
    <3> QED
      BY <1>1, <1>3, <3>1, PartBetweenCuts
  <2>2. a - 0 = a /\ 0 + 1 = 1 /\ \A j \in 1 .. a : 0 + j = j
    BY <1>1
  <2> HIDE DEF ps, qs
  <2>3. qs = ps
    BY <2>2 DEF qs, ps
  <2> QED
    BY <2>1, <2>2, <2>3
<1>5. Told(ps, 1 .. Len(ps)) = Told(ms, 1 .. a)
  BY <1>4 DEF Told
<1>6. Told(ms, 1 .. a) \subseteq X /\ X \subseteq Ids
  <2> HIDE DEF ps
  <2> QED
    BY <1>4, <1>5, BuildTellsAll, BuildTellsNoMore, ToldAreIds
<1> HIDE DEF X
<1>7. a \in 1 .. Len(ms)
  BY <1>1
<1> QED
  BY <1>1, <1>2, <1>6, <1>7 DEF Settled, Fits

\* A text ends the turn.
LEMMA SaySettles ==
    ASSUME NEW ms \in Transcript, Ordered(ms), NEW t, Say(ms, t),
           learned' \subseteq Told(ms, 1 .. Len(ms))
    PROVE  Settled' /\ pc' = "idle"
<1> DEFINE ns == Append(ms, Text)
<1>1. Text \in Message /\ Text.role # "tool"
  BY DEF Message, Text
<1>2. /\ ns \in Transcript /\ Ordered(ns) /\ Len(ns) = Len(ms) + 1
      /\ \A i \in 1 .. Len(ms) : Tells(ns, i) = Tells(ms, i)
      /\ Len(ms) \in Nat
  BY <1>1, AddMessage, MessageKinds
<1>3. messages' = ns /\ pc' = "idle"
  BY DEF Say, Rest
<1> HIDE DEF ns
<1>4. Told(ms, 1 .. Len(ms)) \subseteq Told(ns, 1 .. Len(ns))
  BY <1>2 DEF Told
<1> QED
  BY <1>2, <1>3, <1>4 DEF Settled

\* And so does every way out of the loop's head.
LEMMA ProceedSettles ==
    ASSUME NEW ms \in Transcript, Ordered(ms), NEW t, Proceed(ms, t),
           learned' \subseteq Told(ms, 1 .. Len(ms))
    PROVE  Settled' /\ pc' # "dispatching"
<1>1. CASE Say(ms, t)
  BY <1>1, SaySettles
<1>2. CASE messages' = ms /\ Rest(t)
  BY <1>2 DEF Rest, Settled
<1>3. CASE \E n \in Cuts(ms) : StartCompact(ms, n, "ask")
  <2>1. PICK n \in Cuts(ms) : StartCompact(ms, n, "ask")
    BY <1>3
  <2>2. PICK i \in 1 .. Len(ms) - 1 : n = SafeEnd(ms, i)
    BY DEF Cuts
  <2>3. i \in 0 .. Len(ms) /\ Len(ms) \in Nat
    BY MessageKinds
  <2>4. n \in 0 .. Len(ms)
    BY <2>2, <2>3, SafeEndIsSafe
  <2>5. pc' = "compacting"
    BY <2>1 DEF StartCompact
  <2> QED
    BY <2>1, <2>4, <2>5, StartCompactSettles
<1>4. CASE messages' = ms /\ pc' = "asking"
  BY <1>4 DEF Settled
<1> QED
  BY <1>1, <1>2, <1>3, <1>4 DEF Proceed

\* The summary takes the place of what it covers.
LEMMA SummaryReplaces ==
    ASSUME NEW ms \in Transcript, Ordered(ms), NEW c, Fits(c, ms), NEW L,
           L \subseteq Told(ms, 1 .. Len(ms))
    PROVE  LET ns == <<Summary(c.covers)>> \o Retained(ms, c.at) IN
           /\ ns \in Transcript /\ Ordered(ns) /\ L \subseteq Told(ns, 1 .. Len(ns))
<1> DEFINE a == c.at
           n == Len(ms)
           ps == SubSeq(ms, a + 1, n)
           ns == <<Summary(c.covers)>> \o ps
<1>1. /\ n \in Nat /\ a \in 1 .. n /\ SafeCut(ms, a)
      /\ Told(ms, 1 .. a) \subseteq c.covers /\ c.covers \in SUBSET Ids
  BY MessageKinds DEF Fits
<1>2. SafeCut(ms, n)
  BY DEF SafeCut, Answered
<1>3. /\ ps \in Transcript /\ Ordered(ps) /\ Len(ps) = n - a
      /\ \A j \in 1 .. n - a : Tells(ps, j) = Tells(ms, a + j)
  <2>1. a \in 0 .. Len(ms) /\ n \in a .. Len(ms)
    BY <1>1
  <2> HIDE DEF a
  <2> QED
    BY <1>1, <1>2, <2>1, PartBetweenCuts
<1> HIDE DEF ps
<1>4. /\ ns \in Transcript /\ Ordered(ns) /\ Len(ns) = Len(ps) + 1
      /\ Tells(ns, 1) = c.covers
      /\ \A j \in 1 .. Len(ps) : Tells(ns, j + 1) = Tells(ps, j)
  BY <1>1, <1>3, AddSummary
<1>5. ns = <<Summary(c.covers)>> \o Retained(ms, c.at)
  BY DEF Retained, ps
<1> HIDE DEF ns, a, n
<1>6. L \subseteq Told(ns, 1 .. Len(ns))
  <2> SUFFICES ASSUME NEW i \in 1 .. n, NEW x \in Tells(ms, i)
               PROVE  \E j \in 1 .. Len(ns) : x \in Tells(ns, j)
    BY DEF Told, n
  <2>1. CASE i <= a
    <3>1. x \in c.covers
      BY <1>1, <2>1 DEF Told
    <3>2. 1 \in 1 .. Len(ns)
      BY <1>1, <1>3, <1>4
    <3> QED
      BY <1>4, <3>1, <3>2
  <2>2. CASE i > a
    <3>1. i - a \in 1 .. n - a /\ a + (i - a) = i
      BY <1>1, <2>2
    <3>2. Tells(ns, (i - a) + 1) = Tells(ms, i)
      BY <1>3, <1>4, <3>1
    <3>3. (i - a) + 1 \in 1 .. Len(ns)
      BY <1>1, <1>3, <1>4, <3>1
    <3> QED
      BY <3>2, <3>3
  <2> QED
    BY <1>1, <2>1, <2>2
<1> QED
  BY <1>4, <1>5, <1>6

\* At the start there is nothing to remember.
LEMMA RememberedInit == Init => Remembered
<1> SUFFICES ASSUME Init PROVE Remembered
  OBVIOUS
<1>1. ASSUME NEW s \in Sessions
      PROVE  /\ <<User(s), Text>> \in Transcript /\ Ordered(<<User(s), Text>>)
             /\ s \in Told(<<User(s), Text>>, 1 .. Len(<<User(s), Text>>))
  <2> DEFINE ms == <<User(s), Text>>
  <2>1. s \in Ids
    BY BoundsAssumption DEF Sessions, Ids
  <2>2. ms \in Transcript /\ Len(ms) = 2 /\ ms[1] = User(s) /\ ms[2] = Text
    BY <2>1 DEF Transcript, Message
  <2> HIDE DEF ms
  <2>3. \A j \in 1 .. 2 : ~IsTool(ms, j)
    BY <2>2 DEF IsTool, User, Text
  <2>4. s \in Tells(ms, 1)
    BY <2>2 DEF Tells, User
  <2>5. Ordered(ms) /\ s \in Told(ms, 1 .. Len(ms))
    BY <2>2, <2>3, <2>4 DEF Ordered, Told
  <2> QED
    BY <2>2, <2>5 DEF ms
<1>2. saved = [s \in Sessions |-> <<User(s), Text>>] /\ session \in Sessions
      /\ messages = <<User(session), Text>> /\ learned = {session} /\ pc = "idle"
  BY DEF Init
<1>3. Checkpoints
  BY <1>1, <1>2 DEF Checkpoints
<1>4. Settled
  BY <1>1, <1>2 DEF Settled
<1> QED
  BY <1>2, <1>3, <1>4 DEF Remembered

\* Every step of the task, the operator and the clock keeps the transcript in
\* order and forgets nothing.
LEMMA RememberedStep == Shape /\ Remembered /\ [Next]_vars => Remembered'
<1> SUFFICES ASSUME Shape, Remembered, [Next]_vars PROVE Remembered'
  OBVIOUS
<1>0. /\ messages \in Transcript /\ Ordered(messages) /\ Len(messages) \in Nat
      /\ learned \subseteq Told(messages, 1 .. Len(messages))
      /\ Checkpoints
  BY WhatIsKnown, MessageKinds DEF Remembered
<1>n. nextId <= MaxId => nextId \in Ids
  BY BoundsAssumption DEF Shape, Ids
<1>s. saved' = saved => Checkpoints'
  BY <1>0 DEF Checkpoints
<1>e. ASSUME messages' = messages, learned' = learned, saved' = saved,
             pc' \in {"idle", "asking", "sleeping"}
      PROVE  Remembered'
  BY <1>0, <1>s, <1>e DEF Remembered, Settled
<1>1. CASE Submit
  <2> DEFINE m == User(nextId)
             ns == Append(messages, m)
  <2>1. m \in Message /\ m.role # "tool" /\ m.role = "user" /\ m.x = nextId
    BY <1>1, <1>n DEF Submit, Message, User
  <2> HIDE DEF m
  <2>2. /\ ns \in Transcript /\ Ordered(ns)
        /\ Len(ns) = Len(messages) + 1 /\ ns[Len(ns)] = m
        /\ \A i \in 1 .. Len(messages) : Tells(ns, i) = Tells(messages, i)
    BY <1>0, <2>1, AddMessage
  <2>3. Proceed(ns, NewTurn) /\ learned' = learned \cup {nextId} /\ saved' = saved
    BY <1>1 DEF Submit, m
  <2> HIDE DEF ns
  <2>4. Told(messages, 1 .. Len(messages)) \subseteq Told(ns, 1 .. Len(ns))
    BY <1>0, <2>2 DEF Told
  <2>5. nextId \in Told(ns, 1 .. Len(ns))
    <3>1. Len(ns) \in 1 .. Len(ns)
      BY <1>0, <2>2
    <3>2. nextId \in Tells(ns, Len(ns))
      BY <2>1, <2>2 DEF Tells
    <3> QED
      BY <3>1, <3>2 DEF Told
  <2>6. Settled' /\ pc' # "dispatching"
    BY <1>0, <2>2, <2>3, <2>4, <2>5, ProceedSettles
  <2> QED
    BY <1>s, <2>3, <2>6 DEF Remembered
<1>2. CASE Answer
  BY <1>0, <1>2, <1>s, SaySettles DEF Answer, Unmoved, Remembered
<1>3. CASE AnswerEmpty
  <2>1. Settled' /\ pc' # "dispatching"
    <3>1. learned' = learned
      BY <1>3 DEF AnswerEmpty, Unmoved
    <3>2. CASE turn.emptied
      BY <1>0, <1>3, <3>1, <3>2, SaySettles DEF AnswerEmpty
    <3>3. CASE ~turn.emptied
      <4> DEFINE t == [turn EXCEPT !.emptied = TRUE]
      <4>1. Proceed(messages, t)
        BY <1>3, <3>3 DEF AnswerEmpty
      <4> HIDE DEF t
      <4> QED
        BY <1>0, <3>1, <4>1, ProceedSettles
    <3> QED
      BY <3>2, <3>3
  <2> QED
    BY <1>3, <1>s, <2>1 DEF AnswerEmpty, Remembered
<1>4. CASE CallTools
  <2>1. PICK cs \in Batches :
          /\ messages' = Append(messages, Request(nextId, cs))
          /\ turn' = [turn EXCEPT !.calls = cs]
          /\ learned' = IF Range(cs) \subseteq PaneReads THEN learned
                        ELSE learned \cup {nextId}
    BY <1>4 DEF CallTools
  <2> DEFINE m == Request(nextId, cs)
             ns == Append(messages, m)
  <2>2. nextId \in Ids /\ pc' = "dispatching" /\ saved' = saved
    BY <1>4, <1>n DEF CallTools
  <2>3. m \in Message /\ m.role # "tool"
    BY <2>2 DEF Message, Request
  <2> HIDE DEF m
  <2>4. /\ ns \in Transcript /\ Ordered(ns)
        /\ Len(ns) = Len(messages) + 1 /\ ns[Len(ns)] = m
        /\ \A i \in 1 .. Len(messages) : Tells(ns, i) = Tells(messages, i)
    BY <1>0, <2>3, AddMessage
  <2>5. messages' = ns /\ turn'.calls = cs
    BY <2>1 DEF Shape, TurnType, m
  <2> HIDE DEF ns
  <2>6. Len(ns) > 0 /\ Len(ns) - 1 = Len(messages)
    BY <1>0, <2>4
  <2>7. Told(messages, 1 .. Len(messages)) \subseteq Told(ns, 1 .. Len(ns) - 1)
    BY <2>4, <2>6 DEF Told
  <2>8. learned' \subseteq Told(ns, 1 .. Len(ns) - 1) \cup
                 (IF Range(turn'.calls) \subseteq PaneReads THEN {} ELSE {nextId})
    BY <1>0, <2>1, <2>5, <2>7
  <2>9. Open'
    BY <2>2, <2>4, <2>5, <2>6, <2>8 DEF Open, m
  <2> QED
    BY <1>s, <2>2, <2>9 DEF Remembered
<1>5. ASSUME NEW kinds \in SUBSET {"transient", "limit"}, Fault(kinds)
      PROVE  Remembered'
  <2>0. learned' = learned /\ saved' = saved
    BY <1>5 DEF Fault, Unmoved
  <2>1. \/ messages' = messages /\ pc' \in {"idle", "sleeping"}
        \/ /\ Len(messages) > 2
           /\ StartCompact(messages, Len(messages) - 2, "retry")
        \/ Say(messages, turn)
    BY <1>5 DEF Fault, Rest
  <2>2. CASE messages' = messages /\ pc' \in {"idle", "sleeping"}
    BY <1>e, <2>0, <2>2
  <2>3. CASE Len(messages) > 2 /\ StartCompact(messages, Len(messages) - 2, "retry")
    <3>1. Len(messages) - 2 \in 0 .. Len(messages)
      BY <1>0, <2>3
    <3>2. Settled'
      BY <1>0, <2>0, <2>3, <3>1, StartCompactSettles
    <3> QED
      BY <1>s, <2>0, <2>3, <3>2 DEF Remembered, StartCompact
  <2>4. CASE Say(messages, turn)
    BY <1>0, <1>s, <2>0, <2>4, SaySettles DEF Remembered
  <2> QED
    BY <2>1, <2>2, <2>3, <2>4
<1>6. CASE Awake
  BY <1>0, <1>6, <1>s, ProceedSettles DEF Awake, Unmoved, Remembered
<1>7. CASE CollectResults \/ CheckpointFails
  <2> DEFINE l == Len(messages)
             ns == WithReplies
  <2>1. /\ \/ pc' = "idle" /\ messages' = ns
           \/ \E t : Say(ns, t) \/ Proceed(ns, t)
        /\ saved' = saved \/ saved' = [saved EXCEPT ![session] = ns]
    <3>1. CASE CollectResults
      BY <3>1 DEF CollectResults
    <3>2. CASE CheckpointFails
      BY <3>2 DEF CheckpointFails, Rest
    <3> QED
      BY <1>7, <3>1, <3>2
  <2>2. /\ Open /\ pc = "dispatching" /\ learned' = learned
        /\ turn.calls \in Batches /\ session \in Sessions
    BY <1>7 DEF CollectResults, CheckpointFails, Unmoved, Remembered, Shape
  <2>3. PICK x \in Ids :
          /\ messages[l] = Request(x, turn.calls)
          /\ learned \subseteq Told(messages, 1 .. l - 1) \cup
                 (IF Range(turn.calls) \subseteq PaneReads THEN {} ELSE {x})
    BY <2>2 DEF Open
  <2>4. messages[l].x = x /\ l > 0 /\ l \in Nat
    BY <1>0, <2>2, <2>3 DEF Open, Request
  <2>5. /\ ns \in Transcript /\ Ordered(ns)
        /\ Answered(ns, l) /\ Len(ns) = l + Len(turn.calls)
        /\ ns[l] = Request(x, turn.calls)
        /\ \A i \in 1 .. l - 1 : Tells(ns, i) = Tells(messages, i)
    <3>1. ns = messages \o [k \in DOMAIN turn.calls |-> Reply(x, k)]
      BY <2>4 DEF WithReplies
    <3>2. l \in 1 .. l
      BY <2>4
    <3> QED
      BY <1>0, <2>2, <2>3, <2>4, <3>1, <3>2, AddReplies
  <2>6. Len(turn.calls) \in Nat
    BY <2>2, BoundsAssumption, LenProperties
  <2> HIDE DEF ns
  <2>7. learned' \subseteq Told(ns, 1 .. Len(ns))
    <3> HIDE DEF l
    <3>1. Told(messages, 1 .. l - 1) \subseteq Told(ns, 1 .. Len(ns))
      <4>1. \A i \in 1 .. l - 1 : i \in 1 .. Len(ns)
        BY <2>4, <2>5, <2>6
      <4> QED
        BY <2>5, <4>1 DEF Told
    <3>2. ~(Range(turn.calls) \subseteq PaneReads) => x \in Tells(ns, l)
      BY <2>5 DEF Tells, IsCalls, Request
    <3>3. Tells(ns, l) \subseteq Told(ns, 1 .. Len(ns))
      <4>1. l \in 1 .. Len(ns)
        BY <2>4, <2>5, <2>6
      <4> QED
        BY <4>1 DEF Told
    <3> QED
      BY <2>2, <2>3, <3>1, <3>2, <3>3
  <2>8. Settled' /\ pc' # "dispatching"
    <3>1. CASE pc' = "idle" /\ messages' = ns
      BY <2>5, <2>7, <3>1 DEF Settled
    <3>2. ASSUME NEW t, Say(ns, t) \/ Proceed(ns, t)
          PROVE  Settled' /\ pc' # "dispatching"
      BY <2>5, <2>7, <3>2, SaySettles, ProceedSettles
    <3> QED
      BY <2>1, <3>1, <3>2
  <2>9. Checkpoints'
    <3>1. saved' = saved \/ saved' = [saved EXCEPT ![session] = ns]
      BY <2>1
    <3>2. saved = [s \in Sessions |-> saved[s]]
      BY DEF Shape
    <3>3. \A s \in Sessions : saved'[s] = saved[s] \/ saved'[s] = ns
      BY <3>1, <3>2
    <3> QED
      BY <1>0, <2>5, <3>3 DEF Checkpoints
  <2> QED
    BY <2>8, <2>9 DEF Remembered
<1>8. CASE DispatchRaises
  BY <1>8, <1>e DEF DispatchRaises, Rest, Unmoved
<1>9. CASE Summarized
  <2> DEFINE ns == <<Summary(cut.covers)>> \o Retained(messages, cut.at)
  <2>1. Fits(cut, messages)
    BY <1>9 DEF Summarized, Remembered, Settled
  <2>2. learned' = learned /\ saved' = saved
    BY <1>9 DEF Summarized, Unmoved
  <2>3. ns \in Transcript /\ Ordered(ns) /\ learned' \subseteq Told(ns, 1 .. Len(ns))
    BY <1>0, <2>1, <2>2, SummaryReplaces
  <2>4. \/ messages' = ns /\ pc' \in {"idle", "asking"}
        \/ Proceed(ns, turn)
    BY <1>9 DEF Summarized, Rest
  <2> HIDE DEF ns
  <2>5. Settled' /\ pc' # "dispatching"
    <3>1. CASE messages' = ns /\ pc' \in {"idle", "asking"}
      BY <2>3, <3>1 DEF Settled
    <3>2. CASE Proceed(ns, turn)
      BY <2>3, <3>2, ProceedSettles
    <3> QED
      BY <2>4, <3>1, <3>2
  <2> QED
    BY <1>s, <2>2, <2>5 DEF Remembered
<1>10. CASE SummaryFails
  <2>1. learned' = learned /\ saved' = saved
    BY <1>10 DEF SummaryFails, Unmoved
  <2>2. CASE Say(messages, turn)
    BY <1>0, <1>s, <2>1, <2>2, SaySettles DEF Remembered
  <2>3. CASE messages' = messages /\ pc' \in {"idle", "asking"}
    BY <1>e, <2>1, <2>3
  <2> QED
    BY <1>10, <2>2, <2>3 DEF SummaryFails, Rest
<1>11. CASE Cancel
  BY <1>11, <1>e DEF Cancel, Rest, Unmoved
<1>12. CASE Compact
  <2>1. PICK n \in 1 .. Len(messages) : StartCompact(messages, n, "command")
    BY <1>12 DEF Compact
  <2>2. n \in 0 .. Len(messages)
    BY <1>0
  <2>3. learned' = learned /\ saved' = saved /\ pc' = "compacting"
    BY <1>12, <2>1 DEF Compact, Unmoved, StartCompact
  <2>4. Settled'
    BY <1>0, <2>1, <2>2, <2>3, StartCompactSettles
  <2> QED
    BY <1>s, <2>3, <2>4 DEF Remembered
<1>13. CASE Expire
  <2>1. /\ messages' = messages /\ learned' = learned /\ saved' = saved
        /\ pc' = pc /\ cut' = cut /\ turn'.calls = turn.calls
    BY <1>13 DEF Expire, Shape, TurnType
  <2>2. CASE pc = "dispatching"
    <3>1. Open'
      BY <2>1, <2>2 DEF Remembered, Open
    <3> QED
      BY <1>s, <2>1, <2>2, <3>1 DEF Remembered
  <2>3. CASE pc # "dispatching"
    <3>1. Settled'
      BY <2>1, <2>3 DEF Remembered, Settled
    <3> QED
      BY <1>s, <2>1, <2>3, <3>1 DEF Remembered
  <2> QED
    BY <2>2, <2>3
<1>14. CASE Checkpoint
  <2>1. saved = [s \in Sessions |-> saved[s]]
    BY DEF Shape
  <2>2. Checkpoints'
    <3>1. \A s \in Sessions : saved'[s] = saved[s] \/ saved'[s] = messages
      BY <1>14, <2>1 DEF Checkpoint
    <3> QED
      BY <1>0, <3>1 DEF Checkpoints
  <2> QED
    BY <1>14, <2>2 DEF Checkpoint, Remembered, Open, Settled
<1>15. CASE SetLock
  BY <1>15, <1>0, <1>s DEF SetLock, Remembered, Settled
<1>16. ASSUME NEW s \in Sessions, Restore(s) PROVE Remembered'
  <2>1. saved[s] \in Transcript /\ Ordered(saved[s])
    BY <1>0 DEF Checkpoints
  <2>2. /\ messages' = saved[s] /\ learned' = Said(Build(saved[s], TRUE))
        /\ saved' = saved /\ pc' = "idle"
    BY <1>16 DEF Restore
  <2>3. learned' \subseteq Told(saved[s], 1 .. Len(saved[s]))
    BY <2>1, <2>2, BuildTellsNoMore
  <2> QED
    BY <1>s, <2>1, <2>2, <2>3 DEF Remembered, Settled
<1>17. CASE UNCHANGED vars
  <2>1. CASE pc = "dispatching"
    <3>1. Open'
      BY <1>17, <2>1 DEF vars, Remembered, Open
    <3> QED
      BY <1>17, <1>s, <2>1, <3>1 DEF vars, Remembered
  <2>2. CASE pc # "dispatching"
    <3>1. Settled'
      BY <1>17, <2>2 DEF vars, Remembered, Settled
    <3> QED
      BY <1>17, <1>s, <2>2, <3>1 DEF vars, Remembered
  <2> QED
    BY <2>1, <2>2
<1> QED
  BY <1>1, <1>2, <1>3, <1>4, <1>5, <1>6, <1>7, <1>8, <1>9, <1>10, <1>11, <1>12,
     <1>13, <1>14, <1>15, <1>16, <1>17 DEF Next, Work

\* A transcript in order has every exchange in one piece.
LEMMA OrderedInOnePiece ==
    ASSUME NEW ms \in Transcript, Ordered(ms) PROVE InOnePiece(ms)
<1>1. DOMAIN ms = 1 .. Len(ms) /\ Len(ms) \in Nat
  BY MessageKinds
<1>2. ASSUME NEW i \in DOMAIN ms, IsCalls(ms, i)
      PROVE  Received(ms, i) \in {{}, Expected(ms[i])}
  BY <1>1, <1>2, AllOrNothing
<1>3. ASSUME NEW j \in DOMAIN ms, IsTool(ms, j)
      PROVE  \E i \in {k \in DOMAIN ms : IsCalls(ms, k)} : i < j /\ j <= ExchangeEnd(ms, i)
  <2>1. PICK i \in 1 .. j - 1 : Answered(ms, i) /\ j <= i + Len(ms[i].calls)
    BY <1>1, <1>3 DEF Ordered
  <2>2. i \in DOMAIN ms /\ i < j /\ IsCalls(ms, i)
    BY <1>1, <2>1 DEF Answered
  <2>3. ExchangeEnd(ms, i) = i + Len(ms[i].calls)
    BY <1>1, <2>1, <2>2, AnsweredEnd
  <2> QED
    BY <2>1, <2>2, <2>3
<1> QED
  BY <1>2, <1>3 DEF InOnePiece

\* The memory of the loop holds at every instant.
LEMMA AlwaysRemembered == Spec => []Remembered
<1>1. Init => Shape /\ Remembered
  BY ShapeInit, RememberedInit
<1>2. Shape /\ Remembered /\ [Next]_vars => Shape' /\ Remembered'
  BY ShapeStep, RememberedStep
<1> QED
  BY <1>1, <1>2, PTL DEF Spec

\* No compaction, cancellation or checkpoint parts a result from its call, in
\* the transcript and in every saved session, for all batches of calls.
THEOREM ExchangesHold == Spec => []ExchangesInOnePiece
<1>1. Remembered => ExchangesInOnePiece
  BY WhatIsKnown, OrderedInOnePiece DEF Remembered, Checkpoints, ExchangesInOnePiece
<1> QED
  BY <1>1, AlwaysRemembered, PTL

\* What was said in the live transcript is in the next request or under a
\* summary in it, however often it is compacted, cancelled or restored.
THEOREM NothingIsForgotten == Spec => []NothingForgotten
<1>1. Remembered => NothingForgotten
  BY WhatIsKnown, BuildTellsAll DEF NothingForgotten
<1> QED
  BY <1>1, AlwaysRemembered, PTL
================================================================================
