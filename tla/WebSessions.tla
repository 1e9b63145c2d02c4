------------------------------ MODULE WebSessions ------------------------------
(***************************************************************************)
(* Named web sessions of an engagement: the cookies http_session keeps     *)
(* (src/halgate/tools/http_session.py), the token auth_session takes out   *)
(* of a response or jwt_sign mints (auth_session.py, jwt_sign.py), and the *)
(* requests that carry them (http.py).                                     *)
(*                                                                         *)
(* Cookies and token are read in one step, together with the binding of a  *)
(* fresh token to an origin; the request is sent after name resolution and *)
(* its answer is used later still.  Tool calls run in parallel, jwt_sign   *)
(* waits for the operator's phrase, and sessions are switched in between:  *)
(* the tables outlive the session in which they were filled.               *)
(*                                                                         *)
(* A token is the act that made it, so the same text signed twice is two   *)
(* tokens.  Headers, bodies and paths into JSON are left out; a path of a  *)
(* URL or cookie is the sequence of its components.                        *)
(***************************************************************************)
EXTENDS Naturals, FiniteSets, Sequences, SequencesExt

CONSTANTS
    Engs,       \* engagement ids
    Names,      \* session names, as cut and stripped by the handlers
    Origins,    \* scheme, host and port of a URL
    Unbound,    \* the origin of a signed token before its first use
    Calls,      \* tool calls that can be under way together
    Requests,   \* the arguments of auth_session and http_session
    SetCookies, \* Set-Cookie headers of answers
    MaxBegun,   \* bound: tool calls
    MaxTime     \* bound: clock

ASSUME WebAssumption ==
    /\ Unbound \notin Origins
    /\ \A r \in Requests : r.eng \in Engs /\ r.name \in Names /\ r.origin \in Origins
    /\ \A s \in SetCookies : s.life \in Nat
    /\ MaxBegun \in Nat /\ MaxTime \in Nat \ {0}

VARIABLES
    active,     \* engagements of the live session
    slot,       \* auth_session_tokens
    jar,        \* http_sessions
    call,       \* where each tool call is
    clock, begun,
    sent,       \* history: which token went where, from which session
    withdrawn   \* history: cookies a server has expired and not set since

webVars == <<active, slot, jar, call, clock, begun, sent, withdrawn>>

Slots == Engs \X Names
Jars == Engs \X Names \X Origins
NoToken == [kind |-> "none", by |-> Unbound, n |-> 0, origin |-> Unbound]
Idle == [phase |-> "idle"]

SlotOf(r) == <<r.eng, r.name>>
Source(r) == <<r.eng, r.name, r.origin>>
JarOf(r) == <<r.eng, r.name, r.origin>>
-----------------------------------------------------------------------------
(* Beginning a request: everything up to the resolution of its host *)

Starts(c) == call[c] = Idle /\ begun < MaxBegun /\ begun' = begun + 1

\* Cookies that have not expired; 0 stands for no expiry.
Fresh(cookies) == {k \in cookies : k.until = 0 \/ k.until > clock}

\* _path_matches
Covers(cookie, path) == IsPrefix(cookie.path, path)

\* handle_http_session prunes the jar and picks the cookies, handle_http asks
\* whether the engagement is active and resolves the host.
Request(c, r, tokens) ==
    LET kept == Fresh(jar[JarOf(r)]) IN
    /\ jar' = [jar EXCEPT ![JarOf(r)] = kept]
    /\ call' = IF r.eng \notin active THEN call
               ELSE [call EXCEPT ![c] =
                       [phase |-> "resolving", req |-> r, tokens |-> tokens,
                        cookies |-> IF r.ownCookie THEN {}
                                    ELSE {k \in kept : Covers(k, r.path)}]]

HttpSession(c, r) ==
    /\ r.tool = "http_session"
    /\ Starts(c)
    /\ Request(c, r, {})
    /\ UNCHANGED <<active, slot, clock, sent, withdrawn>>

\* The token goes into its header, unless the caller gives that header, and
\* into the body when the caller asks for it.
Carried(r) ==
    LET t == slot[SlotOf(r)] IN
    IF t # NoToken /\ (~r.ownToken \/ r.inject = "field")
    THEN {[t EXCEPT !.origin = r.origin]} ELSE {}

\* No token to inject, or a body without the place for it.
InjectFails(r) ==
    r.inject # "no" /\ (slot[SlotOf(r)] = NoToken \/ r.inject = "misplaced")

AuthSession_NeverBinds(c, r) ==
    LET t == slot[SlotOf(r)] IN
    /\ r.tool = "auth_session"
    /\ t.origin \in {Unbound, r.origin}
    /\ Starts(c)
    /\ UNCHANGED slot
    /\ IF InjectFails(r) THEN UNCHANGED <<jar, call>> ELSE Request(c, r, Carried(r))
    /\ UNCHANGED <<active, clock, sent, withdrawn>>

\* A token bound to another origin ends the call with nothing changed.  The
\* binding stays when the call fails later on.
AuthSession(c, r) ==
    LET t == slot[SlotOf(r)] IN
    /\ r.tool = "auth_session"
    /\ t.origin \in {Unbound, r.origin}
    /\ Starts(c)
    /\ slot' = IF t = NoToken THEN slot ELSE [slot EXCEPT ![SlotOf(r)].origin = r.origin]
    /\ IF InjectFails(r) THEN UNCHANGED <<jar, call>> ELSE Request(c, r, Carried(r))
    /\ UNCHANGED <<active, clock, sent, withdrawn>>
-----------------------------------------------------------------------------
(* The request and its answer *)

InFlight == {"resolving", "sent"}

\* A token without its binding, and where a request carries it.
Mark(t) == [kind |-> t.kind, by |-> t.by, n |-> t.n]
UsesOf(k) ==
    IF k.phase \in InFlight
    THEN {[token |-> Mark(t), slot |-> SlotOf(k.req), origin |-> k.req.origin] :
             t \in k.tokens}
    ELSE {}

Send(c) ==
    /\ call[c].phase = "resolving"
    /\ call' = [call EXCEPT ![c].phase = "sent"]
    /\ sent' = sent \cup UsesOf(call[c])
    /\ UNCHANGED <<active, slot, jar, clock, begun, withdrawn>>

\* The host is unknown or out of scope, the byte budget is used up, the
\* connection fails or times out: no cookie and no token of the answer is kept.
Fail(c) ==
    /\ call[c].phase \in InFlight
    /\ call' = [call EXCEPT ![c] = Idle]
    /\ UNCHANGED <<active, slot, jar, clock, begun, sent, withdrawn>>

Same(k, s) == k.key = s.key /\ k.path = s.path

\* Set-Cookie with a life of 0 has expired already; a session cookie has no
\* expiry.  At most one header per answer.
Merged_KeepsExpired(cookies, from, new) ==
    {k \in cookies : \A s \in new : s.life = 0 \/ ~Same(k, s)} \cup
    {[key |-> s.key, path |-> s.path, from |-> from,
      until |-> IF s.session THEN 0 ELSE clock + s.life] : s \in {s \in new : s.life > 0}}
Merged(cookies, from, new) ==
    {k \in cookies : \A s \in new : ~Same(k, s)} \cup
    {[key |-> s.key, path |-> s.path, from |-> from,
      until |-> IF s.session THEN 0 ELSE clock + s.life] : s \in {s \in new : s.life > 0}}

\* The jar and the slot are written as they are now, whatever happened since
\* the request was begun.
KeepCookies(r, new) ==
    /\ jar' = [jar EXCEPT ![JarOf(r)] = Merged(@, Source(r), new)]
    /\ withdrawn' =
          {w \in withdrawn : ~(w.from = Source(r) /\ \E s \in new : Same(w, s))} \cup
          {[key |-> s.key, path |-> s.path, from |-> Source(r)] :
              s \in {s \in new : s.life = 0}}

\* The token found at the path asked for replaces what the slot held.  (At the
\* path "$" the call then fails, saying that nothing was stored.)
KeepToken(r, found) ==
    slot' = IF r.tool = "auth_session" /\ r.extract /\ found
            THEN [slot EXCEPT ![SlotOf(r)] =
                     [kind |-> "issued", by |-> r.origin, n |-> 0, origin |-> r.origin]]
            ELSE slot

Respond(c) ==
    /\ call[c].phase = "sent"
    /\ \E new \in {{}} \cup {{s} : s \in SetCookies}, found \in BOOLEAN :
        /\ KeepCookies(call[c].req, new)
        /\ KeepToken(call[c].req, found)
    /\ call' = [call EXCEPT ![c] = Idle]
    /\ UNCHANGED <<active, clock, begun, sent>>
-----------------------------------------------------------------------------
(* Signing *)

Signed(e, n, number) ==
    slot' = [slot EXCEPT ![<<e, n>>] =
                [kind |-> "signed", by |-> Unbound, n |-> number, origin |-> Unbound]]

\* An unsigned token is minted at once.
MintUnsigned(c, e, n) ==
    /\ e \in active
    /\ Starts(c)
    /\ Signed(e, n, begun + 1)
    /\ UNCHANGED <<active, jar, call, clock, sent, withdrawn>>

\* Others wait for the key, which may take the operator's phrase.
JwtSign(c, e, n) ==
    /\ e \in active
    /\ Starts(c)
    /\ call' = [call EXCEPT ![c] = [phase |-> "revealing", eng |-> e, name |-> n,
                                    number |-> begun + 1]]
    /\ UNCHANGED <<active, slot, jar, clock, sent, withdrawn>>

\* The token goes to the engagement the call was made for, which need not be
\* active any longer.
Revealed(c) ==
    /\ call[c].phase = "revealing"
    /\ \/ Signed(call[c].eng, call[c].name, call[c].number)
       \/ UNCHANGED slot
    /\ call' = [call EXCEPT ![c] = Idle]
    /\ UNCHANGED <<active, jar, clock, begun, sent, withdrawn>>
-----------------------------------------------------------------------------
\* A session is restored or an engagement changes its status; the tables stay.
WebRestore ==
    /\ active' \in SUBSET Engs \ {active}
    /\ UNCHANGED <<slot, jar, call, clock, begun, sent, withdrawn>>

Tick ==
    /\ clock < MaxTime
    /\ clock' = clock + 1
    /\ UNCHANGED <<active, slot, jar, call, begun, sent, withdrawn>>

WebInit ==
    /\ active = Engs
    /\ slot = [s \in Slots |-> NoToken]
    /\ jar = [j \in Jars |-> {}]
    /\ call = [c \in Calls |-> Idle]
    /\ clock = 1 /\ begun = 0
    /\ sent = {} /\ withdrawn = {}

WebNext ==
    \/ \E c \in Calls :
        \/ \E r \in Requests : HttpSession(c, r) \/ AuthSession(c, r)
        \/ \E e \in Engs, n \in Names : MintUnsigned(c, e, n) \/ JwtSign(c, e, n)
        \/ Send(c) \/ Fail(c) \/ Respond(c) \/ Revealed(c)
    \/ WebRestore \/ Tick

WebSpec == WebInit /\ [][WebNext]_webVars
-----------------------------------------------------------------------------
(* Properties *)

\* The type invariant; a jar holds one cookie per name and path, and every
\* token out of a response is bound to the origin of that response.
WebTypeOK ==
    /\ active \subseteq Engs
    /\ DOMAIN slot = Slots /\ DOMAIN jar = Jars /\ DOMAIN call = Calls
    /\ clock \in 1..MaxTime /\ begun \in 0..MaxBegun
    /\ \A s \in Slots :
        slot[s].kind = "issued" => slot[s].origin = slot[s].by /\ slot[s].by \in Origins
    /\ \A j \in Jars : \A k, m \in jar[j] : Same(k, m) => k = m

\* A token leaves halgate only towards one origin, the one that issued it or,
\* if it was signed here, the first it was used at, and only from the session
\* of the engagement it was stored in: with first uses at two origins at once,
\* a later extraction or signing in the same slot, and session switches.
TokensStayHome ==
    \A m \in sent :
        /\ m.token.kind = "issued" => m.token.by = m.origin
        /\ m.token.kind = "signed" =>
            \A o \in sent : o.token = m.token => o.origin = m.origin /\ o.slot = m.slot

\* A cookie is sent back only to the origin that set it, in the engagement and
\* the session it was set in, and only below its path.
CookiesStayHome ==
    \A c \in Calls : call[c].phase \in InFlight =>
        LET r == call[c].req IN
        \A k \in call[c].cookies : k.from = Source(r) /\ Covers(k, r.path)

\* A request is begun with no cookie whose time is over and none its server
\* has withdrawn, unless an answer handled after that set it again.
NoStaleCookie ==
    [][\A c \in Calls : call[c] = Idle /\ call'[c].phase = "resolving" =>
          \A k \in call'[c].cookies :
              /\ k.until = 0 \/ k.until > clock
              /\ [key |-> k.key, path |-> k.path, from |-> k.from] \notin withdrawn]_webVars

\* Tables and requests at every instant: no credential where it does not belong.
WebInv == WebTypeOK /\ TokensStayHome /\ CookiesStayHome
=============================================================================
