---------------------------- MODULE MCWebSessions ----------------------------
EXTENDS WebSessions

Use(tool, eng, origin, path) ==
    [tool |-> tool, eng |-> eng, name |-> "n", origin |-> origin, path |-> path,
     ownToken |-> FALSE, ownCookie |-> FALSE, inject |-> "no", extract |-> FALSE]

\* Both origins and both engagements, and one request of each special kind.
MCRequests ==
    {[Use("auth_session", "e", o, <<"a">>) EXCEPT !.extract = TRUE] : o \in {"o", "p"}}
    \cup {Use("auth_session", "f", "o", <<"a">>),
          [Use("auth_session", "e", "p", <<>>) EXCEPT !.ownToken = TRUE, !.inject = "field"],
          [Use("auth_session", "e", "o", <<>>) EXCEPT !.ownCookie = TRUE, !.inject = "misplaced"],
          Use("http_session", "e", "o", <<>>)}

\* A cookie that lasts, a short-lived one in its place or below it, and its
\* withdrawal.
MCSetCookies ==
    {[key |-> "k", path |-> <<>>, life |-> 1, session |-> TRUE],
     [key |-> "k", path |-> <<"a">>, life |-> 1, session |-> FALSE],
     [key |-> "k", path |-> <<>>, life |-> 0, session |-> FALSE]}
=============================================================================
