------------------------------- MODULE AgentLoop -------------------------------
(***************************************************************************)
(* One prompt of the operator (Halgate.run): requests to the model and     *)
(* batches of tool calls in turn, over a transcript that is compacted,     *)
(* checkpointed and exchanged for that of another session.                 *)
(*                                                                         *)
(* The loop is cut at its awaits.  pc says which one the prompt task is    *)
(* in; everything between two awaits is one step, as it is in the event    *)
(* loop.  The interface runs a single prompt task: a prompt, /compact,     *)
(* /sessions and /panic are refused while it is busy, while Escape and the *)
(* settings dialogs, which write a checkpoint, are not.                    *)
(***************************************************************************)
EXTENDS Progress, SequencesExt

CONSTANTS
    NumSessions, \* bound: the saved sessions
    MaxId,      \* bound: prompts and tool batches of a behaviour
    Batches     \* bound: the batches of calls the model may ask for

ASSUME BoundsAssumption ==
    /\ MaxId \in Nat
    /\ Batches \subseteq Seq(Calls) \ {<<>>}
    /\ NumSessions \in 1 .. MaxId

Sessions == 1 .. NumSessions

VARIABLES
    messages,   \* Halgate.messages
    session,    \* Halgate.session_id
    saved,      \* the transcript in each session's checkpoint
    stopped,    \* SafetyController._stopped
    pc,         \* the await the prompt task is in, "idle" without a task
    turn,       \* the locals of run: controller, retries, clock
    cut,        \* the locals of compact during its request
    learned,    \* history: what the live transcript was ever told
    nextId

vars == <<messages, session, saved, stopped, pc, turn, cut, learned, nextId>>

--------------------------------------------------------------------------------
(* The transcript *)

User(x)        == [role |-> "user", x |-> x]
Text           == [role |-> "text"]
Request(x, cs) == [role |-> "calls", x |-> x, calls |-> cs]
Reply(x, i)    == [role |-> "tool", x |-> x, call |-> i]
Finding(x)     == [role |-> "finding", x |-> x]
Summary(X)     == [role |-> "summary", covers |-> X]

IsCalls(ms, i) == ms[i].role = "calls"
IsTool(ms, i)  == ms[i].role = "tool"

\* The last of the tool messages that directly follow message i.
ExchangeEnd(ms, i) ==
    Min({e \in i .. Len(ms) : e = Len(ms) \/ ~IsTool(ms, e + 1)})

Expected(m) == {<<m.x, i>> : i \in DOMAIN m.calls}

Received(ms, i) ==
    {<<ms[j].x, ms[j].call>> : j \in i + 1 .. ExchangeEnd(ms, i)}

\* An exchange the model has answered is sent as an observation only; the
\* last one is still open and is sent word for word.
Closed(ms, i, closeFinal) ==
    /\ Expected(ms[i]) \subseteq Received(ms, i)
    /\ ExchangeEnd(ms, i) < Len(ms) \/ closeFinal

\* The context that is sent to the model, each message at its place in the
\* transcript: panes leave no observation.
Build(ms, closeFinal) ==
    LET closed  == {i \in DOMAIN ms : IsCalls(ms, i) /\ Closed(ms, i, closeFinal)}
        silent == {i \in closed : Range(ms[i].calls) \subseteq PaneReads}
        absorbed == silent \cup UNION {i + 1 .. ExchangeEnd(ms, i) : i \in closed}
    IN  [i \in DOMAIN ms \ absorbed |-> IF i \in closed THEN Finding(ms[i].x) ELSE ms[i]]

\* What a reader of these messages knows of: prompts and exchanges.
Said(ms) ==
    UNION {IF m.role = "summary" THEN m.covers
           ELSE IF m.role \in {"user", "calls", "finding"} THEN {m.x} ELSE {}
           : m \in Range(ms)}

\* The last cut at or before n that leaves every exchange in one piece.
SafeEnd_AsAsked(ms, n) == n
SafeEnd(ms, n) ==
    LET inside == UNION {i .. ExchangeEnd(ms, i) - 1 :
                            i \in {j \in DOMAIN ms : IsCalls(ms, j)}}
    IN  Max((0 .. n) \ inside)

\* The cuts the automatic compaction may choose, by the size of the suffix.
Cuts(ms) == {SafeEnd(ms, i) : i \in 1 .. Len(ms) - 1} \ {0}

--------------------------------------------------------------------------------
(* The locals of run and of compact *)

NewTurn == [progress |-> NewProgress, calls |-> <<>>, retries |-> 0,
            emptied |-> FALSE, expired |-> FALSE]

NoCut == [at |-> 0, covers |-> {}, resume |-> "none"]

\* An endpoint that fails for the moment is asked again twice.
MayRetry(t) == t.retries < 2

\* The prompt task ends and its locals with it.  What the turn had seen is
\* kept for NewResultKeepsTurn, the next turn starts with NewTurn.
Rest(t) ==
    /\ pc' = "idle" /\ cut' = NoCut
    /\ turn' = [NewTurn EXCEPT !.progress.seen = t.progress.seen]

Unmoved == UNCHANGED <<session, stopped, nextId, learned>>

\* compact up to its request.  The cut and the projection of what lies
\* before it are computed here; the transcript is replaced after the await.
StartCompact(ms, n, resume) ==
    /\ SafeEnd(ms, n) > 0
    /\ messages' = ms
    /\ pc' = "compacting"
    /\ cut' = [at |-> SafeEnd(ms, n), resume |-> resume,
               covers |-> Said(Build(SubSeq(ms, 1, SafeEnd(ms, n)), TRUE))]

Retained_SkipsOne(ms, n) == SubSeq(ms, n + 2, Len(ms))
Retained(ms, n) == SubSeq(ms, n + 1, Len(ms))

\* The turn ends with a text of the harness or of the model.
Say(ms, t) == messages' = Append(ms, Text) /\ Rest(t)

\* The head of the loop: the limits, the lock, the automatic compaction (it
\* depends on sizes the model leaves open) and the next request.
Proceed(ms, t) ==
    \/ /\ ~BeforeNextBatch(t.progress, t.expired)
       /\ Say(ms, t)
    \/ /\ BeforeNextBatch(t.progress, t.expired)
       /\ stopped
       /\ messages' = ms /\ Rest(t)
    \/ /\ BeforeNextBatch(t.progress, t.expired)
       /\ ~stopped
       /\ turn' = t
       /\ \/ \E n \in Cuts(ms) : StartCompact(ms, n, "ask")
          \/ messages' = ms /\ pc' = "asking" /\ cut' = NoCut

--------------------------------------------------------------------------------
(* The prompt task *)

\* A prompt is submitted: run appends it and enters its loop.
Submit ==
    /\ pc = "idle"
    /\ nextId <= MaxId
    /\ nextId' = nextId + 1
    /\ learned' = learned \cup {nextId}
    /\ Proceed(Append(messages, User(nextId)), NewTurn)
    /\ UNCHANGED <<session, saved, stopped>>

\* The model answers with text.
Answer ==
    /\ pc = "asking"
    /\ Say(messages, turn)
    /\ Unmoved /\ UNCHANGED saved

\* An empty answer is asked for once more, then given up.
AnswerEmpty ==
    /\ pc = "asking"
    /\ IF turn.emptied THEN Say(messages, turn)
                       ELSE Proceed(messages, [turn EXCEPT !.emptied = TRUE])
    /\ Unmoved /\ UNCHANGED saved

\* The model asks for a batch of tool calls.
CallTools ==
    /\ pc = "asking"
    /\ nextId <= MaxId
    /\ nextId' = nextId + 1
    /\ \E cs \in Batches :
          /\ messages' = Append(messages, Request(nextId, cs))
          /\ turn' = [turn EXCEPT !.calls = cs]
          /\ learned' = IF Range(cs) \subseteq PaneReads THEN learned
                        ELSE learned \cup {nextId}
    /\ pc' = "dispatching"
    /\ UNCHANGED <<session, saved, stopped, cut>>

\* The endpoint fails.  A passing fault is retried after a pause, a full
\* context is compacted, anything else leaves run.
Fault(kinds) ==
    /\ pc = "asking"
    /\ IF "transient" \in kinds /\ MayRetry(turn)
       THEN /\ turn' = [turn EXCEPT !.retries = @ + 1]
            /\ pc' = "sleeping"
            /\ UNCHANGED <<messages, cut>>
       ELSE IF "limit" \notin kinds THEN Rest(turn) /\ UNCHANGED messages
       ELSE IF Len(messages) > 2 /\ SafeEnd(messages, Len(messages) - 2) > 0
       THEN StartCompact(messages, Len(messages) - 2, "retry") /\ UNCHANGED turn
       ELSE Say(messages, turn)
    /\ Unmoved /\ UNCHANGED saved

Awake ==
    /\ pc = "sleeping"
    /\ Proceed(messages, turn)
    /\ Unmoved /\ UNCHANGED saved

\* The transcript once the calls of the batch have their results.
WithReplies ==
    messages \o [i \in DOMAIN turn.calls |-> Reply(messages[Len(messages)].x, i)]

\* dispatch_parallel returns one result per call, in the order of the calls.
\* The batch is recorded, a due checkpoint saved, and the loop goes on.
Results_OfBatch(cs) ==
    {rs \in [DOMAIN cs -> Results] :
        \A i \in DOMAIN cs : rs[i] = NoOutput => cs[i] \in PaneReads}

CollectResults ==
    /\ pc = "dispatching"
    /\ \E rs \in Results_OfBatch(turn.calls) :
          LET ms == WithReplies
              p  == turn.progress
              q  == RecordBatch(p, turn.calls, rs)
              t  == [turn EXCEPT !.progress = q, !.calls = <<>>]
          IN  /\ saved' = IF CheckpointDue(p, turn.calls)
                          THEN [saved EXCEPT ![session] = ms] ELSE saved
              /\ IF Looping(p, q, turn.calls)
                 THEN Say(ms, t)
                 ELSE Proceed(ms, t)
    /\ Unmoved

\* The due checkpoint of a batch raises, with its file written or not: the
\* results stay in the transcript and the exception leaves run before the loop
\* detection is asked.  (A file that is torn by it: module Sessions.)
CheckpointFails ==
    /\ pc = "dispatching"
    /\ CheckpointDue(turn.progress, turn.calls)
    /\ messages' = WithReplies
    /\ saved' = saved \/ saved' = [saved EXCEPT ![session] = WithReplies]
    /\ Rest(turn)
    /\ Unmoved

\* An exception of a call leaves dispatch_parallel, and run.
DispatchRaises ==
    /\ pc = "dispatching"
    /\ Rest(turn)
    /\ Unmoved /\ UNCHANGED <<messages, saved>>

\* The summary arrives.  compact replaces what it had projected and returns
\* to the head of the request, to the loop's head or to the command line.
Summarized ==
    /\ pc = "compacting"
    /\ LET ms == <<Summary(cut.covers)>> \o Retained(messages, cut.at)
       IN  \/ cut.resume = "ask" /\ messages' = ms /\ pc' = "asking"
              /\ cut' = NoCut /\ UNCHANGED turn
           \/ cut.resume = "retry" /\ Proceed(ms, turn)
           \/ cut.resume = "command" /\ messages' = ms /\ Rest(turn)
    /\ Unmoved /\ UNCHANGED saved

SummaryFails ==
    /\ pc = "compacting"
    /\ \/ cut.resume = "ask" /\ pc' = "asking" /\ cut' = NoCut
          /\ UNCHANGED <<messages, turn>>
       \/ cut.resume = "retry" /\ Say(messages, turn)
       \/ cut.resume = "command" /\ Rest(turn) /\ UNCHANGED messages
    /\ Unmoved /\ UNCHANGED saved

--------------------------------------------------------------------------------
(* The operator, the clock and the other handlers *)

\* Escape, twice: CancelledError at the await the task is in.
Cancel ==
    /\ pc # "idle"
    /\ Rest(turn)
    /\ Unmoved /\ UNCHANGED <<messages, saved>>

\* /compact n
Compact ==
    /\ pc = "idle"
    /\ \E n \in 1 .. Len(messages) : StartCompact(messages, n, "command")
    /\ Unmoved /\ UNCHANGED <<saved, turn>>

\* max_turn_runtime_seconds have passed since the turn began.
Expire ==
    /\ pc # "idle"
    /\ turn' = [turn EXCEPT !.expired = TRUE]
    /\ UNCHANGED <<messages, session, saved, stopped, pc, cut, learned, nextId>>

\* /checkpoint, or a settings dialog that is saved while a prompt runs.
Checkpoint ==
    /\ saved' = [saved EXCEPT ![session] = messages]
    /\ UNCHANGED <<messages, session, stopped, pc, turn, cut, learned, nextId>>

\* A session is picked from /new or /sessions.
Restore(s) ==
    /\ pc = "idle"
    /\ session' = s
    /\ messages' = saved[s]
    /\ learned' = Said(Build(saved[s], TRUE))
    /\ UNCHANGED <<saved, stopped, pc, turn, cut, nextId>>

\* /panic and /resume-actions; what panic does to the panes is in Panes.
SetLock ==
    /\ pc = "idle"
    /\ stopped' = ~stopped
    /\ UNCHANGED <<messages, session, saved, pc, turn, cut, learned, nextId>>

--------------------------------------------------------------------------------

\* The program was started on one of the saved sessions, each with a prompt
\* and its answer.
Init ==
    /\ session \in Sessions
    /\ saved = [s \in Sessions |-> <<User(s), Text>>]
    /\ messages = saved[session]
    /\ stopped = FALSE
    /\ pc = "idle"
    /\ turn = NewTurn
    /\ cut = NoCut
    /\ learned = {session}
    /\ nextId = NumSessions + 1

Work ==
    \/ Answer \/ AnswerEmpty \/ CallTools \/ Awake
    \/ \E kinds \in SUBSET {"transient", "limit"} : Fault(kinds)
    \/ CollectResults \/ CheckpointFails \/ DispatchRaises \/ Summarized \/ SummaryFails

Next ==
    \/ Submit \/ Work
    \/ Cancel \/ Compact \/ Expire \/ Checkpoint \/ SetLock
    \/ \E s \in Sessions : Restore(s)

Spec == Init /\ [][Next]_vars

\* The endpoint's client and dispatch have timeouts, so every await ends, and
\* time passes.
FairSpec == Spec /\ WF_vars(Work) /\ WF_vars(Expire)

--------------------------------------------------------------------------------
(* Properties *)

\* The variables keep their shape, a turn that goes on has reached none of its
\* limits and sleeps at most twice, and a cut is pending exactly while the
\* summary is being asked for.
TurnType ==
    [progress : ProgressType, calls : Batches \cup {<<>>}, retries : 0 .. 2,
     emptied : BOOLEAN, expired : BOOLEAN]

TypeOK ==
    /\ session \in Sessions
    /\ DOMAIN saved = Sessions
    /\ stopped \in BOOLEAN
    /\ pc \in {"idle", "compacting", "asking", "sleeping", "dispatching"}
    /\ turn \in TurnType
    /\ (cut = NoCut) <=> (pc # "compacting")
    /\ nextId \in 1 .. MaxId + 1

\* An exchange is in one piece or has no results at all, in the transcript
\* and in every checkpoint: neither a compaction, a cancellation nor a
\* checkpoint in the middle of a batch parts a result from its call
\* (halgate.py:606, "A cut inside a call/result exchange leaves orphan
\* protocol messages in the retained suffix").
InOnePiece(ms) ==
    LET calls == {i \in DOMAIN ms : IsCalls(ms, i)}
    IN  /\ \A i \in calls : Received(ms, i) \in {{}, Expected(ms[i])}
        /\ \A j \in DOMAIN ms : IsTool(ms, j) =>
               \E i \in calls : i < j /\ j <= ExchangeEnd(ms, i)

ExchangesInOnePiece ==
    InOnePiece(messages) /\ \A s \in Sessions : InOnePiece(saved[s])

\* Whatever was said in the live transcript, prompts and the results of
\* tools other than panes, is in the next request or under a summary it
\* contains: the cut taken before the await of compact still fits after it,
\* and the projection of the summarised part leaves nothing out.
NothingForgotten == learned \subseteq Said(Build(messages, FALSE))

\* A batch that brought something new is never taken for a loop: unless a
\* limit of the whole turn is reached, the turn goes on after it.
NewResultKeepsTurn ==
    [][ /\ pc = "dispatching"
        /\ turn'.progress.seen # turn.progress.seen
        /\ ~turn.expired /\ turn.progress.batches + 1 < EmergencyLimit
        /\ ~stopped
        => pc' # "idle" ]_vars

\* Every turn ends: what neither the retry counters nor the batch ceiling
\* bounds, such as a context that stays too large however often it is
\* compacted, the clock does.
TurnEnds == pc # "idle" ~> pc = "idle"
=============================================================================
