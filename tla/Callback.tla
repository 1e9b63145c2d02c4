------------------------------- MODULE Callback -------------------------------
(***************************************************************************)
(* Callback listeners (src/halgate/tools/callback_endpoint.py): a server   *)
(* the operator approved records a bounded number of callbacks of the      *)
(* target, and ends by its last capture, by its timer or by a read that    *)
(* closes it.                                                              *)
(*                                                                         *)
(* A connection is read under timeouts, answered and closed before its     *)
(* record is stored; a read polls while it waits.  Captures, the timer,    *)
(* and other reads run at each of these awaits.  What a record holds       *)
(* beyond "matched" is left out.                                           *)
(***************************************************************************)
EXTENDS Naturals, FiniteSets, Sequences, SequencesExt

CONSTANTS
    Listeners,   \* the listeners that are requested
    MaxMatched,  \* MAX_MATCHED_REQUESTS
    MaxTotal,    \* MAX_TOTAL_CAPTURES
    Peers,       \* the callbacks of the target, connections and datagrams
    Reads        \* calls of read_callback_endpoint

ASSUME CallbackAssumption ==
    /\ MaxMatched \in Nat \ {0}
    /\ MaxTotal \in Nat \ {0}

VARIABLES
    asked,    \* what was approved for a listener: protocol and max_requests
    status,   \* of a listener; "none" before it is provisioned
    up,       \* its server or transport is open
    timer,    \* its expiry handle is pending
    captured, \* its records, oldest first
    peer,     \* the handler task of a callback
    read      \* the locals of a read, and what it returned

endpoint == <<asked, status, up, timer, captured>>
callbackVars == <<endpoint, peer, read>>

Ended == {"completed", "expired", "closed"}
Proposal == [protocol : {"http", "tcp", "dns"}, max_requests : 1..MaxMatched]
Protocol(l) == asked[l].protocol
MaxRequests(l) == asked[l].max_requests

Record == [from : Peers, matched : BOOLEAN, answered : BOOLEAN]
NoRecord == [lost |-> TRUE]
NoPeer == [at |-> "idle"]
NoRead == [at |-> "idle"]
-----------------------------------------------------------------------------
(* Records *)

\* _capture_http: the path may match; a request line is answered with 200.
CaptureHttp(p) == {r \in Record : r.from = p}

\* _capture_tcp: the record has no field "matched", which reads as false.
CaptureTcp(p) == {[from |-> p, matched |-> FALSE, answered |-> FALSE]}

\* _capture_dns: what can match is answered.
CaptureDns(p) == {r \in Record : r.from = p /\ (r.matched => r.answered)}

Matched(records) == {k \in DOMAIN records : records[k].matched}
Confirmed(l) == Cardinality(Matched(captured[l]))

\* _finish of a listener: only the first end counts.
Finish(l, how) ==
    IF status[l] = "listening" THEN
        /\ status' = [status EXCEPT ![l] = how]
        /\ up' = [up EXCEPT ![l] = FALSE]
        /\ timer' = [timer EXCEPT ![l] = FALSE]
    ELSE UNCHANGED <<status, up, timer>>

\* _store_capture
StoreCapture_OffByOne(l, r) ==
    LET records == Append(captured[l], r) IN
    /\ captured' = [captured EXCEPT ![l] = records]
    /\ IF \/ r.matched /\ Cardinality(Matched(records)) > MaxRequests(l)
          \/ Len(records) >= MaxTotal
       THEN Finish(l, "completed") ELSE UNCHANGED <<status, up, timer>>
StoreCapture(l, r) ==
    LET records == Append(captured[l], r) IN
    /\ captured' = [captured EXCEPT ![l] = records]
    /\ IF \/ r.matched /\ Cardinality(Matched(records)) >= MaxRequests(l)
          \/ Len(records) >= MaxTotal
       THEN Finish(l, "completed") ELSE UNCHANGED <<status, up, timer>>
-----------------------------------------------------------------------------
(* A listener and its callbacks *)

\* handle_request_callback_endpoint, when its port could be bound.
Provision_NoTimer(l, proposal) ==
    /\ status[l] = "none"
    /\ asked' = [asked EXCEPT ![l] = proposal]
    /\ status' = [status EXCEPT ![l] = "listening"]
    /\ up' = [up EXCEPT ![l] = TRUE]
    /\ UNCHANGED <<timer, captured, peer, read>>
Provision(l, proposal) ==
    /\ status[l] = "none"
    /\ asked' = [asked EXCEPT ![l] = proposal]
    /\ status' = [status EXCEPT ![l] = "listening"]
    /\ up' = [up EXCEPT ![l] = TRUE]
    /\ timer' = [timer EXCEPT ![l] = TRUE]
    /\ UNCHANGED <<captured, peer, read>>

Expire(l) ==
    /\ timer[l]
    /\ Finish(l, "expired")
    /\ UNCHANGED <<asked, captured, peer, read>>

Connect(p, l) ==
    /\ peer[p] = NoPeer
    /\ up[l] /\ Protocol(l) # "dns"
    /\ peer' = [peer EXCEPT ![p] = [at |-> "reading", to |-> l]]
    /\ UNCHANGED <<endpoint, read>>

\* The request is read, as far as it comes within the timeouts, and answered;
\* a connection error leaves no record.
Answer(p) ==
    /\ peer[p].at = "reading"
    /\ LET l == peer[p].to IN
       \E r \in {NoRecord} \cup
                 (IF Protocol(l) = "http" THEN CaptureHttp(p) ELSE CaptureTcp(p)) :
            peer' = [peer EXCEPT ![p] = [at |-> "closing", to |-> l, record |-> r]]
    /\ UNCHANGED <<endpoint, read>>

\* The connection is closed: its record counts if the listener still listens.
Close_Unchecked(p) ==
    /\ peer[p].at = "closing"
    /\ peer' = [peer EXCEPT ![p].at = "gone"]
    /\ IF peer[p].record # NoRecord THEN StoreCapture(peer[p].to, peer[p].record)
                                    ELSE UNCHANGED endpoint
    /\ UNCHANGED <<asked, read>>
Close_MatchedOnly(p) ==
    /\ peer[p].at = "closing"
    /\ peer' = [peer EXCEPT ![p].at = "gone"]
    /\ LET l == peer[p].to
           r == peer[p].record
       IN IF status[l] = "listening" /\ r # NoRecord /\ r.matched
          THEN StoreCapture(l, r) ELSE UNCHANGED endpoint
    /\ UNCHANGED <<asked, read>>
Close(p) ==
    /\ peer[p].at = "closing"
    /\ peer' = [peer EXCEPT ![p].at = "gone"]
    /\ LET l == peer[p].to
           r == peer[p].record
       IN IF status[l] = "listening" /\ r # NoRecord
          THEN StoreCapture(l, r) ELSE UNCHANGED endpoint
    /\ UNCHANGED <<asked, read>>

\* A datagram is answered and stored at once.
Datagram(p, l) ==
    /\ peer[p] = NoPeer
    /\ Protocol(l) = "dns" /\ status[l] = "listening"
    /\ \E r \in CaptureDns(p) :
          /\ StoreCapture(l, r)
          /\ peer' = [peer EXCEPT ![p] = [at |-> "gone", to |-> l, record |-> r]]
    /\ UNCHANGED <<asked, read>>
-----------------------------------------------------------------------------
(* Reading back *)

\* handle_read_callback_endpoint up to its polling.
Read(i, l, wait, close) ==
    /\ read[i] = NoRead
    /\ status[l] # "none"
    /\ read' = [read EXCEPT ![i] =
          [at |-> "waiting", of |-> l, close |-> close, late |-> ~wait,
           need |-> IF Confirmed(l) > 1 THEN Confirmed(l) ELSE 1]]
    /\ UNCHANGED <<endpoint, peer>>

\* wait_seconds have passed.
Deadline(i) ==
    /\ read[i].at = "waiting" /\ ~read[i].late
    /\ read' = [read EXCEPT ![i].late = TRUE]
    /\ UNCHANGED <<endpoint, peer>>

StillWaits(w) ==
    status[w.of] = "listening" /\ Confirmed(w.of) < w.need /\ ~w.late

\* The result, and the end of the listener if the read was asked to close it.
Return(i) ==
    /\ read[i].at = "waiting" /\ ~StillWaits(read[i])
    /\ LET l == read[i].of
           closing == read[i].close /\ status[l] = "listening"
       IN /\ read' = [read EXCEPT ![i] =
                [at |-> "done", of |-> l, captured |-> captured[l],
                 status |-> IF closing THEN "closed" ELSE status[l]]]
          /\ IF closing THEN Finish(l, "closed") ELSE UNCHANGED <<status, up, timer>>
    /\ UNCHANGED <<asked, captured, peer>>

\* The prompt is cancelled while the read waits.
CancelRead(i) ==
    /\ read[i].at = "waiting"
    /\ read' = [read EXCEPT ![i] = [at |-> "cancelled", of |-> read[i].of]]
    /\ UNCHANGED <<endpoint, peer>>
-----------------------------------------------------------------------------
CallbackInit ==
    /\ asked = [l \in Listeners |-> [protocol |-> "http", max_requests |-> 1]]
    /\ status = [l \in Listeners |-> "none"]
    /\ up = [l \in Listeners |-> FALSE]
    /\ timer = [l \in Listeners |-> FALSE]
    /\ captured = [l \in Listeners |-> <<>>]
    /\ peer = [p \in Peers |-> NoPeer]
    /\ read = [i \in Reads |-> NoRead]

CallbackNext ==
    \/ \E l \in Listeners : Expire(l) \/ \E proposal \in Proposal : Provision(l, proposal)
    \/ \E p \in Peers :
          Answer(p) \/ Close(p) \/ \E l \in Listeners : Connect(p, l) \/ Datagram(p, l)
    \/ \E i \in Reads :
          \/ \E l \in Listeners : \E wait, close \in BOOLEAN : Read(i, l, wait, close)
          \/ Deadline(i) \/ Return(i) \/ CancelRead(i)

CallbackSpec == CallbackInit /\ [][CallbackNext]_callbackVars

\* Timers fire, and the event loop runs the handler of a connection, whose
\* reads have timeouts, and a polling read.
CallbackFairSpec ==
    /\ CallbackSpec
    /\ \A l \in Listeners : WF_callbackVars(Expire(l))
    /\ \A p \in Peers : WF_callbackVars(Answer(p)) /\ WF_callbackVars(Close(p))
    /\ \A i \in Reads : WF_callbackVars(Deadline(i)) /\ WF_callbackVars(Return(i))
-----------------------------------------------------------------------------
(* Properties *)

\* The variables keep their shape, and a listener has a server and a timer
\* exactly while it listens.
CallbackTypeOK ==
    /\ asked \in [Listeners -> Proposal]
    /\ status \in [Listeners -> {"none", "listening"} \cup Ended]
    /\ up = [l \in Listeners |-> status[l] = "listening"]
    /\ timer = up
    /\ \A l \in Listeners : captured[l] \in Seq(Record)
    /\ \A p \in Peers : peer[p].at \in {"idle", "reading", "closing", "gone"}
    /\ \A i \in Reads : read[i].at \in {"idle", "waiting", "done", "cancelled"}

\* The operator approved max_requests confirmations, and MAX_TOTAL_CAPTURES
\* bounds the records: however many connections are being read when the last
\* one is stored, no more are, and the listener has ended by then.
WithinLimits(l) ==
    /\ Confirmed(l) <= MaxRequests(l) /\ Len(captured[l]) <= MaxTotal
    /\ status[l] = "listening" =>
          Confirmed(l) < MaxRequests(l) /\ Len(captured[l]) < MaxTotal

\* A listener that completed has what was approved, or is full.
CompletedAtALimit(l) ==
    status[l] = "completed" =>
        Confirmed(l) = MaxRequests(l) \/ Len(captured[l]) = MaxTotal

\* "The listener tears itself down after the captured confirmations or when it
\* expires" (callback_endpoint.py:559) and max_requests is "Confirmations to
\* capture before the listener closes" (70-72).  What a tcp listener captures
\* never counts as a confirmation, so the approved number does not end it: it
\* completes only when it is full.
TcpIsOnlyCapped(l) ==
    Protocol(l) = "tcp" =>
        /\ Confirmed(l) = 0
        /\ status[l] = "completed" => Len(captured[l]) = MaxTotal

\* "The target calls back a bounded number of times" (callback_endpoint.py:6),
\* by the number that was approved where callbacks can match, and by
\* MAX_TOTAL_CAPTURES alone over tcp.
CapturesBounded ==
    \A l \in Listeners : WithinLimits(l) /\ CompletedAtALimit(l) /\ TcpIsOnlyCapped(l)

\* A read that says the listener has ended says the last word: no connection
\* still in flight, timer or other read changes the status or adds a capture.
FinalReadIsFinal ==
    \A i \in Reads : read[i].at = "done" /\ read[i].status \in Ended =>
        /\ status[read[i].of] = read[i].status
        /\ captured[read[i].of] = read[i].captured

\* While a listener listens, every callback whose peer was answered is kept,
\* once its connection is closed; only the end of the listener loses any.
AnsweredIsKept ==
    \A p \in Peers :
        /\ peer[p].at = "gone" /\ peer[p].record # NoRecord
        /\ peer[p].record.answered
        /\ status[peer[p].to] = "listening"
        => Contains(captured[peer[p].to], peer[p].record)

\* Every listener ends, called back or not.
ListenerEnds == \A l \in Listeners : status[l] = "listening" ~> status[l] \in Ended

\* A listener at every instant: a server and a timer exactly while it listens,
\* and nothing it has answered dropped.
CallbackInv == CallbackTypeOK /\ AnsweredIsKept
=============================================================================
