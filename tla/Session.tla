------------------------------ MODULE Session ------------------------------
(***************************************************************************)
(* The session of a browser tab: login and registration, the token that    *)
(* requests carry, and how a session ends: by logging out, when it has     *)
(* expired, or when the API refuses a request.                             *)
(*                                                                         *)
(* Time is counted in steps.  The clocks of tab and API may differ by any  *)
(* constant: neither compares its own with the other's.                    *)
(***************************************************************************)
EXTENDS Integers, SequencesExt

CONSTANTS TTL,          \* how long a token is valid
          Skew,         \* SKEW_MS: how long before its end it is no longer sent
          Leeway,       \* how long after its end the API takes it
          MaxTime,      \* bound: time
          MaxSends      \* bound: requests under way or refused since the page was loaded

ASSUME SessionAssumption == {TTL, Skew, Leeway, MaxTime} \subseteq Nat /\ Skew < TTL

VARIABLES
    now,
    session,    \* the token in memory: when it was issued, and until when the tab takes it
    stored,     \* what local storage has
    page,       \* "guest": login or registration, "app": everything else
    sends       \* the requests under way, and those that were refused

sessionVars == <<now, session, stored, page, sends>>

NoSession == [issued |-> 0, until |-> -1]
Sessions == [issued : 0 .. MaxTime, until : 0 .. MaxTime + TTL] \cup {NoSession}

\* Mutant: tokens are sent to the very end.
AuthenticatedToTheEnd(s) == s # NoSession /\ now < s.until

\* useIsAuthenticated, and what currentToken returns.
Authenticated(s) == s # NoSession /\ now < s.until - Skew

\* When the answer with the token came in.
Received(s) == s.until - TTL

\* What the routes show for a session.
PageOf(s) == IF Authenticated(s) THEN "app" ELSE "guest"

-----------------------------------------------------------------------------
SessionInit ==
    /\ now = 0 /\ session = NoSession /\ stored = NoSession /\ page = "guest" /\ sends = << >>

\* The store and the storage change together, and the routes follow the store.
SetStore(s) == session' = s /\ stored' = s /\ page' = PageOf(s)

Waits(kind) == \E n \in DOMAIN sends : sends[n].kind = kind /\ sends[n].phase # "told" /\ sends[n].mounted

Sent(kind, token) ==
    /\ Len(sends) < MaxSends
    /\ sends' = Append(sends, [kind |-> kind, token |-> token, at |-> now, checked |-> 0,
                               reply |-> "none", phase |-> "sent", mounted |-> TRUE])

\* Login and registration send no token; the button waits for the answer.
Enter ==
    /\ page = "guest" /\ ~Waits("enter")
    /\ Sent("enter", NoSession)
    /\ UNCHANGED <<now, session, stored, page>>

\* The other form does not know of a request of this one.
SwitchForm ==
    /\ page = "guest" /\ Waits("enter")
    /\ sends' = [n \in DOMAIN sends |-> [sends[n] EXCEPT !.mounted = FALSE]]
    /\ UNCHANGED <<now, session, stored, page>>

\* Mutant: a session that has expired stays in the store.
CurrentTokenOnly == UNCHANGED <<session, stored, page>>

\* currentToken drops a session that has expired.
CurrentToken ==
    IF Authenticated(session) \/ session = NoSession
    THEN UNCHANGED <<session, stored, page>>
    ELSE SetStore(NoSession)

\* A page asks for its data, or changes something.
Ask ==
    /\ page = "app"
    /\ Sent("data", IF Authenticated(session) THEN session ELSE NoSession)
    /\ CurrentToken
    /\ UNCHANGED now

Logout ==
    /\ page = "app"
    /\ SetStore(NoSession)
    /\ UNCHANGED <<now, sends>>

\* A change of page evaluates the session again; the store is left alone.
Navigate ==
    /\ page = "app"
    /\ page' = PageOf(session)
    /\ UNCHANGED <<now, session, stored, sends>>

\* initAuth.  Nothing is left of what was under way.
Reload ==
    /\ IF Authenticated(stored)
       THEN session' = stored /\ page' = "app" /\ UNCHANGED stored
       ELSE SetStore(NoSession)
    /\ sends' = << >>
    /\ UNCHANGED now

\* Another tab logs in or out: the storage is shared, the memory is not.
OtherTab ==
    /\ stored' \in {NoSession, [issued |-> now, until |-> now + TTL]} \ {stored}
    /\ UNCHANGED <<now, session, page, sends>>

-----------------------------------------------------------------------------
TokenAccepted(token) == token # NoSession /\ now <= token.issued + TTL + Leeway

\* The API checks the token, or the name and the password.
Check(n) ==
    /\ sends[n].phase = "sent"
    /\ \/ /\ sends[n].kind = "data"
          /\ sends' = [sends EXCEPT ![n].phase = "checked", ![n].checked = now,
                            ![n].reply = IF TokenAccepted(sends[n].token) THEN "ok" ELSE "401"]
       \/ /\ sends[n].kind = "enter"
          /\ \E reply \in {"ok", "refused"} :
                sends' = [sends EXCEPT ![n].phase = "checked", ![n].checked = now, ![n].reply = reply]
    /\ UNCHANGED <<now, session, stored, page>>

\* What is remembered of a request that has been answered.
Told(n) ==
    IF sends[n].reply = "401" THEN [sends EXCEPT ![n].phase = "told"] ELSE RemoveAt(sends, n)

\* A token that is refused ends the session, the one there is by then; the
\* answer of a form that is gone still begins one.
AnswerIn(n) ==
    /\ sends[n].phase = "checked"
    /\ sends' = Told(n)
    /\ CASE sends[n].reply = "401" /\ sends[n].token # NoSession -> SetStore(NoSession)
         [] sends[n].kind = "enter" /\ sends[n].reply = "ok" ->
                SetStore([issued |-> sends[n].checked, until |-> now + TTL])
         [] OTHER -> UNCHANGED <<session, stored, page>>
    /\ UNCHANGED now

\* No answer: an error of the page, and nothing else.
NoAnswer(n) ==
    /\ sends[n].phase # "told"
    /\ sends' = RemoveAt(sends, n)
    /\ UNCHANGED <<now, session, stored, page>>

Tick ==
    /\ now < MaxTime /\ now' = now + 1
    /\ UNCHANGED <<session, stored, page, sends>>

SessionNext ==
    \/ Enter \/ SwitchForm \/ Ask \/ Logout \/ Navigate \/ Reload \/ OtherTab \/ Tick
    \/ \E n \in DOMAIN sends : Check(n) \/ AnswerIn(n) \/ NoAnswer(n)

SessionSpec == SessionInit /\ [][SessionNext]_sessionVars

-----------------------------------------------------------------------------
SessionTypeOK ==
    /\ now \in 0 .. MaxTime /\ {session, stored} \subseteq Sessions
    /\ page \in {"guest", "app"}
    /\ \A n \in DOMAIN sends :
        /\ sends[n].kind \in {"enter", "data"} /\ sends[n].token \in Sessions
        /\ sends[n].reply \in {"none", "ok", "401", "refused"}
        /\ sends[n].phase \in {"sent", "checked", "told"}

\* A token is refused only if the answer that brought it and the request that
\* carried it took, together, longer than the tab and the API allow for
\* (SKEW_MS, leeway): nobody is logged out on a prompt network.
RefusedOnlyWhenSlow ==
    \A n \in DOMAIN sends : sends[n].reply = "401" /\ sends[n].token # NoSession =>
        LET token == sends[n].token
        IN  Received(token) - token.issued + sends[n].checked - sends[n].at > Skew + Leeway

\* Whoever has been told that a request is refused is shown the login, unless a
\* session has begun since the request (currentToken, the listener of initAuth,
\* RequireAuth).
RefusedIsGuest ==
    \A n \in DOMAIN sends : sends[n].reply = "401" /\ sends[n].phase = "told" =>
        page = "guest" \/ Received(session) >= sends[n].at
=============================================================================
