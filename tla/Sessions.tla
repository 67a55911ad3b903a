------------------------------ MODULE Sessions ------------------------------
(***************************************************************************)
(* Sessions: the refresh tokens of AuthService (issueTokens, refresh,      *)
(* logout) and the web server's side of them, the jwt callback of          *)
(* lib/auth.ts, whose refreshPromise is shared by the requests it serves   *)
(* together.  A request carries the cookie as it was when the browser sent *)
(* it; only requests that find the access token stale are modelled.        *)
(***************************************************************************)
EXTENDS Naturals, FiniteSets

CONSTANTS
  Tokens,    \* refresh tokens; each is the session of one browser
  Requests,  \* page requests with a stale access token
  NoToken,   \* no token
  Cuts       \* bound on logouts and on tokens that expire

ASSUME SessionsAssumption == Tokens # {} /\ NoToken \notin Tokens /\ Cuts \in Nat

VARIABLES
  live,     \* the rows of refresh_tokens that have not expired
  cookie,   \* cookie[t]: the token in the cookie of the browser that got t
  request,  \* request[r]: where it is, its browser, cookie snapshot, answer
  flight,   \* the refresh under way: where it is, and with which token
  cuts      \* logouts and expired tokens so far

sessionVars == <<live, cookie, request, flight, cuts>>

-----------------------------------------------------------------------------
(* Types.                                                                  *)

\* same: was the refresh it waited for made with its own token?
\* cut: has its token been ended since the browser sent the request?
\* failed: did the call that refreshes fail, whatever became of the token?
Request == [pc : {"new", "sent", "waiting", "answered", "refused", "done"},
            browser : Tokens, token : Tokens, answer : Tokens, same : BOOLEAN,
            cut : BOOLEAN, failed : BOOLEAN]

Flight == [pc : {"none", "sent", "read"}, token : Tokens]

SessionsTypeOK ==
  /\ live \subseteq Tokens
  /\ cookie \in [Tokens -> Tokens \cup {NoToken}]
  /\ request \in [Requests -> Request]
  /\ flight \in Flight
  /\ cuts \in 0..Cuts

SomeToken == CHOOSE t \in Tokens : TRUE

SessionsInit ==
  /\ live = {}
  /\ cookie = [t \in Tokens |-> NoToken]
  /\ request = [r \in Requests |->
                  [pc |-> "new", browser |-> SomeToken, token |-> SomeToken,
                   answer |-> SomeToken, same |-> FALSE, cut |-> FALSE,
                   failed |-> FALSE]]
  /\ flight = [pc |-> "none", token |-> SomeToken]
  /\ cuts = 0

-----------------------------------------------------------------------------
(* The API.                                                                *)

\* issueTokens, and the cookie of the browser that signs in.
IssueTokens(t) ==
  /\ live' = live \cup {t}
  /\ cookie' = [cookie EXCEPT ![t] = t]
  /\ UNCHANGED <<request, flight, cuts>>

\* Requests under way learn that the tokens T are no more.
CutRequests(T) ==
  request' = [r \in Requests |-> IF request[r].token \in T
                                 THEN [request[r] EXCEPT !.cut = TRUE] ELSE request[r]]

\* logout and resetPassword delete every token of the account.
EndSessions ==
  /\ live' = {}
  /\ CutRequests(live)
  /\ UNCHANGED <<cookie, flight>>

Logout ==
  /\ cuts < Cuts /\ live # {}
  /\ cuts' = cuts + 1
  /\ EndSessions

\* Thirty days without a refresh.
TokenExpire(t) ==
  /\ cuts < Cuts /\ t \in live
  /\ cuts' = cuts + 1
  /\ live' = live \ {t}
  /\ CutRequests({t})
  /\ UNCHANGED <<cookie, flight>>

-----------------------------------------------------------------------------
(* The web server.                                                         *)

RequestSend(r, t) ==
  /\ request[r].pc = "new"
  /\ cookie[t] # NoToken
  /\ request' = [request EXCEPT ![r] =
       [@ EXCEPT !.pc = "sent", !.browser = t, !.token = cookie[t],
                 !.cut = cookie[t] \notin live]]
  /\ UNCHANGED <<live, cookie, flight, cuts>>

\* The first request of a batch starts the refresh.
RequestLead(r) ==
  /\ request[r].pc = "sent"
  /\ flight.pc = "none"
  /\ flight' = [pc |-> "sent", token |-> request[r].token]
  /\ request' = [request EXCEPT ![r].pc = "waiting", ![r].same = TRUE]
  /\ UNCHANGED <<live, cookie, cuts>>

\* The others wait for its answer, whatever token they carry.
RequestJoin(r) ==
  /\ request[r].pc = "sent"
  /\ flight.pc # "none"
  /\ request' = [request EXCEPT ![r].pc = "waiting",
                                ![r].same = (flight.token = request[r].token)]
  /\ UNCHANGED <<live, cookie, flight, cuts>>

\* All that wait get the one answer, and the promise is reset.
Settle(pc, failed) ==
  /\ request' = [r \in Requests |->
                   IF request[r].pc = "waiting"
                   THEN [request[r] EXCEPT !.pc = pc, !.answer = flight.token, !.failed = failed]
                   ELSE request[r]]
  /\ flight' = [flight EXCEPT !.pc = "none"]

\* The throttle of the API, the network, the database, or a restart of the API:
\* the call fails before or after any of its steps, and the callback catches it.
FlightFail ==
  /\ flight.pc # "none"
  /\ Settle("refused", TRUE)
  /\ UNCHANGED <<live, cookie, cuts>>

\* refresh reads the row, then moves its expiry; the update fails on a row
\* that has gone in between.
FlightRead ==
  /\ flight.pc = "sent"
  /\ IF flight.token \in live
     THEN flight' = [flight EXCEPT !.pc = "read"] /\ UNCHANGED request
     ELSE Settle("refused", FALSE)
  /\ UNCHANGED <<live, cookie, cuts>>

\* A plausible bug: a refresh token is good for one refresh.
FlightSlideOnce ==
  /\ flight.pc = "read"
  /\ Settle(IF flight.token \in live THEN "answered" ELSE "refused", FALSE)
  /\ live' = live \ {flight.token}
  /\ UNCHANGED <<cookie, cuts>>

FlightSlide ==
  /\ flight.pc = "read"
  /\ Settle(IF flight.token \in live THEN "answered" ELSE "refused", FALSE)
  /\ UNCHANGED <<live, cookie, cuts>>

\* The response sets the cookie, in whatever order responses arrive; an error
\* leaves it and sends the user to the login page.
RequestDone(r) ==
  LET q == request[r] IN
  /\ q.pc \in {"answered", "refused"}
  /\ request' = [request EXCEPT ![r].pc = "done"]
  /\ cookie' = [cookie EXCEPT ![q.browser] =
                  IF q.pc = "answered" THEN q.answer ELSE @]
  /\ UNCHANGED <<live, flight, cuts>>

RequestStep(r) ==
  \/ \E t \in Tokens : RequestSend(r, t)
  \/ RequestLead(r) \/ RequestJoin(r) \/ RequestDone(r)

SessionsStep ==
  \/ Logout
  \/ \E t \in Tokens : TokenExpire(t)
  \/ \E r \in Requests : RequestStep(r)
  \/ FlightRead \/ FlightSlide \/ FlightFail

-----------------------------------------------------------------------------
(* Properties.                                                             *)

\* Requests that a browser sends together all carry one cookie.  However
\* refreshes, joins, answers and failures interleave, such a request finds its
\* session alive unless somebody ended it, is refused only when the call failed,
\* and is answered with its own token: a refresh leaves the token good for the
\* others, and a refusal for the next attempt (refresh,
\* auth.service.ts:310-341; jwt, lib/auth.ts:107-125).  A request that joined
\* the refresh of another session may get that session's answer.
LiveSessionsRefresh ==
  \A r \in Requests :
    request[r].pc \in {"answered", "refused"} /\ ~request[r].cut =>
      /\ request[r].token \in live
      /\ request[r].same =>
           /\ request[r].pc = "refused" => request[r].failed
           /\ request[r].pc = "answered" => request[r].answer = request[r].token
=============================================================================
