--------------------------- MODULE AccountsProofs ---------------------------
(***************************************************************************)
(* Proofs about Accounts and Sessions, about the limits on attempts and    *)
(* requests (Limits), and about the cached plans (Plans).                  *)
(***************************************************************************)
EXTENDS Accounts, Limits, Plans, FiniteSetTheorems, TLAPS

vars == <<sessionVars, accountVars>>

Shape ==
  /\ live \subseteq Tokens
  /\ cookie \in [Tokens -> Tokens \cup {NoToken}]
  /\ request \in [Requests -> Request]
  /\ flight \in Flight
  /\ user \in User
  /\ link \in [Links -> Link]
  /\ code \in Codes \cup {NoCode}
  /\ sent \subseteq Codes
  /\ attempt \in [Tokens -> Attempt]

\* The pcs of a login that has not passed its check.
Unchecked == {"new", "read", "found", "create", "verify"}

\* Only a login that has passed its check has a password.
NotYetChecked ==
  \A t \in Tokens : attempt[t].pc \in Unchecked => attempt[t].password = NoPassword

\* A verified account exists, and so does one that a handler verifies or resets.
VerifiedInv ==
  /\ VerifiedBeforeLogin
  /\ user.verified => user.exists
  /\ \A t \in Tokens : attempt[t].pc = "verify" => user.exists
  /\ \A l \in Links : link[l].kind = "reset" => user.exists

\* Once a reset is over, whoever is in or about to come in knows its password or
\* was on the way in when the sessions ended.
ResetHolds ==
  \A l \in Links, t \in Tokens :
    /\ link[l].kind = "reset" /\ link[l].pc = "done" /\ user.password = l
    /\ t \in live \/ attempt[t].pc = "issue"
    => attempt[t].password \in {NoPassword, l} \/ attempt[t].raced

\* A request whose token has not been ended carries a live one; if it waits for
\* a refresh of its own token, that is the refresh under way.
RequestsAreLive ==
  \A r \in Requests :
    /\ request[r].pc # "new" /\ ~request[r].cut => request[r].token \in live
    /\ request[r].pc = "waiting" /\ request[r].same =>
         flight.pc # "none" /\ flight.token = request[r].token

ResetInv == NotYetChecked /\ ResetHolds
RequestInv == RequestsAreLive /\ LiveSessionsRefresh
IInv == Shape /\ VerifiedInv /\ ResetInv /\ RequestInv

-----------------------------------------------------------------------------
(* The initial states.                                                     *)

LEMMA Start == AccountsInit => IInv
<1> SUFFICES ASSUME AccountsInit PROVE IInv
  OBVIOUS
<1>1. SomeToken \in Tokens
  BY SessionsAssumption DEF SessionsAssumption, SomeToken
<1>2. request \in [Requests -> Request] /\ flight \in Flight
  BY <1>1 DEF AccountsInit, SessionsInit, Request, Flight
<1>3. user \in User /\ link \in [Links -> Link] /\ attempt \in [Tokens -> Attempt]
  BY DEF AccountsInit, User, Link, Attempt, Passwords
<1>4. Shape
  BY <1>2, <1>3 DEF AccountsInit, SessionsInit, Shape
<1>5. VerifiedInv
  BY DEF AccountsInit, SessionsInit, VerifiedInv, VerifiedBeforeLogin
<1>6. ResetInv
  BY DEF AccountsInit, ResetInv, NotYetChecked, ResetHolds, Unchecked
<1>7. RequestInv
  BY DEF AccountsInit, SessionsInit, RequestInv, RequestsAreLive, LiveSessionsRefresh
<1> QED
  BY <1>4, <1>5, <1>6, <1>7 DEF IInv

-----------------------------------------------------------------------------
(* What a step must leave alone for each part of the invariant.            *)

\* An account that stays proved, and logins that come no further.
LEMMA VerifiedAlone ==
  ASSUME VerifiedInv, live' \subseteq live,
         user.exists => user'.exists, user.verified => user'.verified, user'.verified => user'.exists,
         \A l \in Links : link'[l].kind = "reset" => link[l].kind = "reset",
         \A t \in Tokens : /\ attempt'[t].pc = "verify" => attempt[t].pc = "verify"
                           /\ attempt'[t].pc = "issue" => attempt[t].pc = "issue"
  PROVE  VerifiedInv'
BY DEF VerifiedInv, VerifiedBeforeLogin

\* Sessions that end, and an account that keeps its password, disturb no reset.
LEMMA ResetsAlone ==
  ASSUME ResetInv, live' \subseteq live, user'.password = user.password,
         \A l \in Links : link'[l].kind = "reset" /\ link'[l].pc = "done" =>
                            link[l].kind = "reset" /\ link[l].pc = "done",
         \A t \in Tokens : /\ attempt'[t].password = attempt[t].password
                           /\ attempt'[t].raced = attempt[t].raced
                           /\ attempt'[t].pc \in Unchecked =>
                                attempt[t].pc \in Unchecked
                           /\ attempt'[t].pc = "issue" =>
                                attempt[t].pc \in Unchecked \cup {"issue"}
  PROVE  ResetInv'
<1>1. NotYetChecked'
  BY DEF ResetInv, NotYetChecked
<1>2. ResetHolds'
  BY DEF ResetInv, NotYetChecked, ResetHolds
<1> QED
  BY <1>1, <1>2 DEF ResetInv

\* New sessions disturb no request.
LEMMA RequestsAlone ==
  ASSUME RequestInv, live \subseteq live', request' = request, flight' = flight
  PROVE  RequestInv'
BY DEF RequestInv, RequestsAreLive, LiveSessionsRefresh

-----------------------------------------------------------------------------
(* The steps of the sessions.                                              *)

LEMMA CutKeeps ==
  ASSUME IInv, NEW T \in SUBSET Tokens, live' = live \ T, CutRequests(T), UNCHANGED flight
  PROVE  request' \in [Requests -> Request] /\ RequestInv'
<1>1. request' \in [Requests -> Request]
  BY DEF IInv, Shape, CutRequests, Request
<1>2. ASSUME NEW r \in Requests
      PROVE  /\ request'[r].pc = request[r].pc /\ request'[r].token = request[r].token
             /\ request'[r].same = request[r].same /\ request'[r].answer = request[r].answer
             /\ request'[r].failed = request[r].failed
             /\ ~request'[r].cut => ~request[r].cut /\ request[r].token \notin T
  BY DEF IInv, Shape, CutRequests, Request
<1>3. RequestsAreLive'
  BY <1>2 DEF IInv, RequestInv, RequestsAreLive
<1>4. LiveSessionsRefresh'
  BY <1>2 DEF IInv, RequestInv, LiveSessionsRefresh, RequestsAreLive
<1> QED
  BY <1>1, <1>3, <1>4 DEF RequestInv

\* What the web server does with requests and the refresh, one by one.
LEMMA RequestKeeps ==
  ASSUME IInv, NEW r \in Requests, RequestStep(r)
  PROVE  /\ request' \in [Requests -> Request] /\ flight' \in Flight
         /\ cookie' \in [Tokens -> Tokens \cup {NoToken}] /\ live' = live
         /\ RequestInv'
<1>1. ASSUME NEW t \in Tokens, RequestSend(r, t) PROVE request' \in [Requests -> Request] /\ RequestInv'
  <2>1. cookie[t] \in Tokens
    BY <1>1 DEF RequestSend, IInv, Shape
  <2>2. request' \in [Requests -> Request]
    BY <1>1, <2>1 DEF RequestSend, IInv, Shape, Request
  <2>3. /\ request'[r].pc = "sent" /\ request'[r].token = cookie[t]
        /\ request'[r].cut = (cookie[t] \notin live)
        /\ \A q \in Requests : q # r => request'[q] = request[q]
    BY <1>1, <2>1 DEF RequestSend, IInv, Shape, Request
  <2>4. live' = live /\ flight' = flight
    BY <1>1 DEF RequestSend
  <2>5. RequestsAreLive'
    BY <2>3, <2>4 DEF IInv, RequestInv, RequestsAreLive
  <2>6. LiveSessionsRefresh'
    BY <2>3, <2>4 DEF IInv, RequestInv, LiveSessionsRefresh
  <2> QED
    BY <2>2, <2>5, <2>6 DEF RequestInv
<1>2. ASSUME RequestLead(r) PROVE request' \in [Requests -> Request] /\ flight' \in Flight /\ RequestInv'
  <2>1. request' \in [Requests -> Request] /\ flight' \in Flight
    BY <1>2 DEF RequestLead, IInv, Shape, Request, Flight
  <2>2. /\ request[r].pc = "sent" /\ request'[r].pc = "waiting"
        /\ request'[r].token = request[r].token /\ request'[r].cut = request[r].cut
        /\ \A q \in Requests : q # r => request'[q] = request[q]
    BY <1>2 DEF RequestLead, IInv, Shape, Request
  <2>3. /\ flight.pc = "none" /\ flight'.pc = "sent" /\ flight'.token = request[r].token
        /\ live' = live
    BY <1>2 DEF RequestLead
  <2>4. RequestsAreLive'
    BY <2>2, <2>3 DEF IInv, RequestInv, RequestsAreLive
  <2>5. LiveSessionsRefresh'
    BY <2>2, <2>3 DEF IInv, RequestInv, LiveSessionsRefresh
  <2> QED
    BY <2>1, <2>4, <2>5 DEF RequestInv
<1>3. ASSUME RequestJoin(r) PROVE request' \in [Requests -> Request] /\ RequestInv'
  <2>1. request' \in [Requests -> Request]
    BY <1>3 DEF RequestJoin, IInv, Shape, Request
  <2>2. /\ request[r].pc = "sent" /\ request'[r].pc = "waiting"
        /\ request'[r].token = request[r].token /\ request'[r].cut = request[r].cut
        /\ request'[r].same = (flight.token = request[r].token)
        /\ \A q \in Requests : q # r => request'[q] = request[q]
    BY <1>3 DEF RequestJoin, IInv, Shape, Request
  <2>3. flight.pc # "none" /\ flight' = flight /\ live' = live
    BY <1>3 DEF RequestJoin
  <2>4. RequestsAreLive'
    BY <2>2, <2>3 DEF IInv, RequestInv, RequestsAreLive
  <2>5. LiveSessionsRefresh'
    BY <2>2, <2>3 DEF IInv, RequestInv, LiveSessionsRefresh
  <2> QED
    BY <2>1, <2>4, <2>5 DEF RequestInv
<1>4. ASSUME RequestDone(r)
      PROVE  /\ request' \in [Requests -> Request] /\ RequestInv'
             /\ cookie' \in [Tokens -> Tokens \cup {NoToken}]
  <2>1. request' \in [Requests -> Request]
    BY <1>4 DEF RequestDone, IInv, Shape, Request
  <2>2. cookie' \in [Tokens -> Tokens \cup {NoToken}]
    BY <1>4 DEF RequestDone, IInv, Shape, Request
  <2>3. /\ request[r].pc \in {"answered", "refused"} /\ request'[r].pc = "done"
        /\ request'[r].token = request[r].token /\ request'[r].cut = request[r].cut
        /\ \A q \in Requests : q # r => request'[q] = request[q]
    BY <1>4 DEF RequestDone, IInv, Shape, Request
  <2>4. live' = live /\ flight' = flight
    BY <1>4 DEF RequestDone
  <2>5. RequestsAreLive'
    BY <2>3, <2>4 DEF IInv, RequestInv, RequestsAreLive
  <2>6. LiveSessionsRefresh'
    BY <2>3, <2>4 DEF IInv, RequestInv, LiveSessionsRefresh
  <2> QED
    BY <2>1, <2>2, <2>5, <2>6 DEF RequestInv
<1> QED
  BY <1>1, <1>2, <1>3, <1>4 DEF RequestStep, RequestSend, RequestLead, RequestJoin, RequestDone, IInv, Shape

\* The refresh answers those that wait for it, or fails for all of them.
LEMMA SettleKeeps ==
  ASSUME IInv, NEW pc \in {"answered", "refused"}, NEW failed \in BOOLEAN, Settle(pc, failed), live' = live,
         pc = "refused" => failed \/ flight.token \notin live
  PROVE  request' \in [Requests -> Request] /\ flight' \in Flight /\ RequestInv'
<1>1. request' \in [Requests -> Request] /\ flight' \in Flight
  BY DEF Settle, IInv, Shape, Request, Flight
<1>2. \A r \in Requests :
        /\ request[r].pc # "waiting" => request'[r] = request[r]
        /\ request[r].pc = "waiting" =>
             /\ request'[r].pc = pc /\ request'[r].answer = flight.token /\ request'[r].failed = failed
             /\ request'[r].token = request[r].token /\ request'[r].cut = request[r].cut
             /\ request'[r].same = request[r].same
  BY DEF Settle, IInv, Shape, Request, Flight
<1>3. RequestsAreLive'
  BY <1>2 DEF IInv, RequestInv, RequestsAreLive
<1>4. LiveSessionsRefresh'
  BY <1>2 DEF IInv, RequestInv, RequestsAreLive, LiveSessionsRefresh
<1> QED
  BY <1>1, <1>3, <1>4 DEF RequestInv

LEMMA FlightKeeps ==
  ASSUME IInv, FlightRead \/ FlightSlide \/ FlightFail
  PROVE  request' \in [Requests -> Request] /\ flight' \in Flight /\ live' = live /\ RequestInv'
<1>1. CASE FlightSlide
  BY <1>1, SettleKeeps DEF FlightSlide
<1>2. CASE FlightFail
  BY <1>2, SettleKeeps DEF FlightFail
<1>3. CASE FlightRead /\ flight.token \notin live
  BY <1>3, SettleKeeps DEF FlightRead
<1>4. CASE FlightRead /\ flight.token \in live
  <2>1. flight' = [flight EXCEPT !.pc = "read"] /\ request' = request /\ live' = live /\ flight.pc = "sent"
    BY <1>4 DEF FlightRead
  <2>2. flight' \in Flight /\ flight'.pc = "read" /\ flight'.token = flight.token
    BY <2>1 DEF IInv, Shape, Flight
  <2> QED
    BY <2>1, <2>2 DEF IInv, Shape, RequestInv, RequestsAreLive, LiveSessionsRefresh
<1> QED
  BY <1>1, <1>2, <1>3, <1>4

LEMMA SessionsKeep == ASSUME IInv, SessionsStep, UNCHANGED accountVars PROVE IInv'
<1> DEFINE Kept == /\ live' \subseteq live /\ cookie' \in [Tokens -> Tokens \cup {NoToken}]
                   /\ request' \in [Requests -> Request] /\ flight' \in Flight /\ RequestInv'
<1>1. Kept
  <2>1. CASE Logout
    <3>1. live' = live \ live /\ CutRequests(live) /\ UNCHANGED <<cookie, flight>> /\ live \in SUBSET Tokens
      BY <2>1 DEF Logout, EndSessions, IInv, Shape
    <3> QED
      BY <3>1, CutKeeps DEF IInv, Shape
  <2>2. ASSUME NEW t \in Tokens, TokenExpire(t) PROVE Kept
    BY <2>2, CutKeeps DEF TokenExpire, IInv, Shape
  <2>3. ASSUME NEW r \in Requests, RequestStep(r) PROVE Kept
    BY <2>3, RequestKeeps
  <2>4. CASE FlightRead \/ FlightSlide \/ FlightFail
    BY <2>4, FlightKeeps DEF FlightRead, FlightSlide, FlightFail, IInv, Shape
  <2> QED
    BY <2>1, <2>2, <2>3, <2>4 DEF SessionsStep
<1>2. VerifiedInv'
  BY <1>1, VerifiedAlone DEF IInv, VerifiedInv, accountVars
<1>3. ResetInv'
  BY <1>1, ResetsAlone DEF IInv, accountVars
<1> QED
  BY <1>1, <1>2, <1>3 DEF IInv, Shape, accountVars

-----------------------------------------------------------------------------
(* The steps of the accounts.                                              *)

LEMMA LinkKeeps == ASSUME IInv, NEW l \in Links, LinkStep(l), ~ResetEnd(l) PROVE IInv'
<1> DEFINE Done(m) == link'[m].kind = "reset" /\ link'[m].pc = "done"
           Written == /\ user' \in User /\ user'.password \in {user.password, l}
                      /\ user.exists => user'.exists
                      /\ user.verified => user'.verified
                      /\ user'.verified => user'.exists
                      /\ link'[l].kind = "reset" => user'.exists
                      /\ link' \in [Links -> Link] /\ ~Done(l)
                      /\ \A m \in Links : m # l => link'[m] = link[m]
<1>1. UNCHANGED <<code, sent, changed, attempt, sessionVars>>
  BY DEF LinkStep, Signup, Resend, Forgot, Mail, LinkExpire, LinkClick, VerifyFind, VerifyWrite, ResetWrite
<1>2. Written
  <2>1. ASSUME NEW purpose \in {"signup", "verify", "reset"}, Mail(l, purpose), purpose = "reset" => user.exists
        PROVE  Written
    BY <2>1 DEF Signup, Resend, Forgot, Mail, IInv, Shape, Link, User, VerifiedInv
  <2>2. CASE LinkExpire(l) \/ LinkClick(l) \/ VerifyFind(l)
    BY <2>2 DEF LinkExpire, LinkClick, VerifyFind, LinkGoes, IInv, Shape, Link, User, VerifiedInv
  <2>3. CASE VerifyWrite(l)
    <3>1. link' \in [Links -> Link] /\ ~Done(l) /\ \A m \in Links : m # l => link'[m] = link[m]
      BY <2>3 DEF VerifyWrite, LinkGoes, IInv, Shape, Link
    <3>2. LinkPassword(l) \in Passwords /\ LinkPassword(l) \in {user.password, l}
      BY DEF LinkPassword, IInv, Shape, User, Passwords
    <3>3. /\ user' \in User /\ user'.password \in {user.password, LinkPassword(l)}
          /\ user' = user \/ (user'.exists /\ user'.verified)
      <4>1. \/ user' = user
            \/ user' = [exists |-> TRUE, verified |-> TRUE, password |-> LinkPassword(l)]
        BY <2>3, Zenon DEF VerifyWrite
      <4>2. CASE user' = user
        BY <4>2 DEF IInv, Shape
      <4>3. ASSUME NEW p \in Passwords, user' = [exists |-> TRUE, verified |-> TRUE, password |-> p]
            PROVE  user' \in User /\ user'.password = p /\ user'.exists /\ user'.verified
        BY <4>3 DEF User
      <4> QED
        BY <3>2, <4>1, <4>2, <4>3
    <3>4. link'[l].kind = "reset" => user'.exists
      BY <2>3 DEF VerifyWrite, LinkGoes, IInv, Shape, Link
    <3> QED
      BY <3>1, <3>2, <3>3, <3>4 DEF IInv, VerifiedInv
  <2>4. CASE ResetWrite(l)
    <3>1. link' \in [Links -> Link] /\ ~Done(l) /\ \A m \in Links : m # l => link'[m] = link[m]
      BY <2>4 DEF ResetWrite, LinkGoes, IInv, Shape, Link
    <3>2. user' \in User /\ user'.password = l /\ user'.verified /\ user'.exists = user.exists
      BY <2>4 DEF ResetWrite, IInv, Shape, User, Passwords
    <3>3. user.exists
      BY <2>4 DEF ResetWrite, IInv, VerifiedInv
    <3> QED
      BY <3>1, <3>2, <3>3
  <2> QED
    BY <2>1, <2>2, <2>3, <2>4 DEF LinkStep, Signup, Resend, Forgot
<1>3. ASSUME NEW m \in Links, Done(m) PROVE m # l /\ link[m].kind = "reset" /\ link[m].pc = "done"
  BY <1>2, <1>3
<1>4. Shape'
  BY <1>1, <1>2 DEF IInv, Shape, sessionVars
<1>5. VerifiedInv'
  BY <1>1, <1>2 DEF IInv, VerifiedInv, VerifiedBeforeLogin, sessionVars
<1>6. NotYetChecked'
  BY <1>1 DEF IInv, ResetInv, NotYetChecked
<1>7. ResetHolds'
  BY <1>1, <1>2, <1>3 DEF IInv, ResetInv, ResetHolds, sessionVars
<1>8. RequestInv'
  BY <1>1, RequestsAlone DEF IInv, sessionVars
<1> QED
  BY <1>4, <1>5, <1>6, <1>7, <1>8 DEF IInv, ResetInv

\* The end of a reset marks the logins that are on the way in.
LEMMA ResetEndKeeps == ASSUME IInv, NEW l \in Links, ResetEnd(l) PROVE IInv'
<1>1. /\ live' = {} /\ CutRequests(live) /\ UNCHANGED <<cookie, flight, user, code, sent>>
      /\ link' = [link EXCEPT ![l].pc = "done"]
      /\ attempt' = [t \in Tokens |-> [attempt[t] EXCEPT !.raced = @ \/ attempt[t].pc = "issue"]]
  BY DEF ResetEnd, EndSessions, LinkGoes
<1>2. live' = live \ live /\ live \in SUBSET Tokens
  BY <1>1 DEF IInv, Shape
<1>3. request' \in [Requests -> Request] /\ RequestInv'
  BY <1>1, <1>2, CutKeeps
<1>4. attempt' \in [Tokens -> Attempt]
  BY <1>1 DEF IInv, Shape, Attempt
<1>5. ASSUME NEW t \in Tokens
      PROVE  /\ attempt'[t].pc = attempt[t].pc
             /\ attempt'[t].password = attempt[t].password
             /\ attempt[t].pc = "issue" => attempt'[t].raced
  BY <1>1 DEF IInv, Shape, Attempt
<1>6. Shape'
  BY <1>1, <1>3, <1>4 DEF IInv, Shape, Link
<1>7. VerifiedInv'
  <2>1. \A m \in Links : link'[m].kind = link[m].kind
    BY <1>1 DEF IInv, Shape, Link
  <2> QED
    BY <1>1, <1>5, <2>1, VerifiedAlone DEF IInv, VerifiedInv
<1>8. NotYetChecked' /\ ResetHolds'
  BY <1>1, <1>5 DEF IInv, ResetInv, NotYetChecked, ResetHolds
<1> QED
  BY <1>3, <1>6, <1>7, <1>8 DEF IInv, ResetInv

LEMMA AttemptKeeps == ASSUME IInv, NEW t \in Tokens, AttemptStep(t) PROVE IInv'
<1>1. CASE LoginCheck(t)
  <2>1. /\ UNCHANGED <<user, link, code, sent, changed, sessionVars>> /\ user.verified
        /\ attempt' \in [Tokens -> Attempt] /\ \A u \in Tokens : u # t => attempt'[u] = attempt[u]
        /\ attempt'[t].pc = "issue" /\ attempt'[t].password = user.password
    BY <1>1 DEF LoginCheck, IInv, Shape, Attempt, User
  <2>2. Shape'
    BY <2>1 DEF IInv, Shape, sessionVars
  <2>3. VerifiedInv'
    BY <2>1 DEF IInv, VerifiedInv, VerifiedBeforeLogin, sessionVars
  <2>4. NotYetChecked' /\ ResetHolds'
    BY <2>1 DEF IInv, ResetInv, NotYetChecked, ResetHolds, Unchecked, sessionVars
  <2>5. RequestInv'
    BY <2>1, RequestsAlone DEF IInv, sessionVars
  <2> QED
    BY <2>2, <2>3, <2>4, <2>5 DEF IInv, ResetInv
<1>2. CASE LoginIssue(t)
  <2>1. /\ UNCHANGED <<user, link, code, sent, request, flight>>
        /\ live' = live \cup {t} /\ cookie' \in [Tokens -> Tokens \cup {NoToken}]
        /\ attempt' \in [Tokens -> Attempt] /\ \A u \in Tokens : u # t => attempt'[u] = attempt[u]
        /\ attempt[t].pc = "issue" /\ attempt'[t].pc = "done"
        /\ attempt'[t].password = attempt[t].password /\ attempt'[t].raced = attempt[t].raced
    BY <1>2 DEF LoginIssue, IssueTokens, IInv, Shape, Attempt
  <2>2. Shape'
    BY <2>1 DEF IInv, Shape
  <2>3. VerifiedInv'
    BY <2>1 DEF IInv, VerifiedInv, VerifiedBeforeLogin
  <2>4. NotYetChecked' /\ ResetHolds'
    BY <2>1 DEF IInv, ResetInv, NotYetChecked, ResetHolds, Unchecked
  <2>5. RequestInv'
    BY <2>1, RequestsAlone DEF IInv
  <2> QED
    BY <2>2, <2>3, <2>4, <2>5 DEF IInv, ResetInv
<1>3. CASE OtpRead(t) \/ OtpDelete(t) \/ OtpFind(t) \/ OtpCreate(t) \/ OtpVerify(t)
  <2>1. /\ UNCHANGED <<link, sent, sessionVars>> /\ code' \in Codes \cup {NoCode}
        /\ user' \in User /\ user'.password = user.password
        /\ user.exists => user'.exists
        /\ user.verified => user'.verified
    BY <1>3 DEF OtpRead, OtpDelete, OtpFind, OtpCreate, OtpVerify, IInv, Shape, User
  <2>2. attempt[t].pc \in Unchecked
    BY <1>3 DEF OtpRead, OtpDelete, OtpFind, OtpCreate, OtpVerify, Unchecked
  <2>3. PICK pc \in Unchecked \cup {"refused", "issue"} : attempt' = [attempt EXCEPT ![t].pc = pc]
    BY <1>3 DEF OtpRead, OtpDelete, OtpFind, OtpCreate, OtpVerify, AttemptGoes, Unchecked
  <2>4. /\ attempt' \in [Tokens -> Attempt] /\ \A u \in Tokens : u # t => attempt'[u] = attempt[u]
        /\ attempt'[t].pc = pc
        /\ attempt'[t].password = attempt[t].password /\ attempt'[t].raced = attempt[t].raced
    BY <2>3 DEF IInv, Shape, Attempt, Unchecked
  <2>5. /\ user'.verified => user'.exists
        /\ pc = "verify" => user'.exists
        /\ pc = "issue" => user'.verified
    <3>1. CASE OtpRead(t) \/ OtpDelete(t)
      <4>1. user' = user /\ pc \in {"read", "found"}
        BY <2>4, <3>1 DEF OtpRead, OtpDelete, AttemptGoes, IInv, Shape, Attempt
      <4> QED
        BY <4>1 DEF IInv, VerifiedInv
    <3>2. CASE OtpFind(t)
      BY <2>4, <3>2 DEF OtpFind, AttemptGoes, IInv, VerifiedInv, Shape
    <3>3. CASE OtpCreate(t)
      BY <2>4, <3>3 DEF OtpCreate, AttemptGoes, IInv, Shape, User
    <3>4. CASE OtpVerify(t)
      BY <2>4, <3>4 DEF OtpVerify, AttemptGoes, IInv, VerifiedInv, Shape, User
    <3> QED
      BY <1>3, <3>1, <3>2, <3>3, <3>4
  <2>6. Shape'
    BY <2>1, <2>4 DEF IInv, Shape, sessionVars
  <2>7. VerifiedInv'
    BY <2>1, <2>4, <2>5 DEF IInv, VerifiedInv, VerifiedBeforeLogin, sessionVars
  <2>8. ResetInv'
    BY <2>1, <2>2, <2>4, ResetsAlone DEF IInv, sessionVars
  <2>9. RequestInv'
    BY <2>1, RequestsAlone DEF IInv, sessionVars
  <2> QED
    BY <2>6, <2>7, <2>8, <2>9 DEF IInv
<1> QED
  BY <1>1, <1>2, <1>3 DEF AttemptStep

LEMMA OthersKeep ==
  ASSUME IInv, \/ \E s \in Changes : SetPassword(s)
               \/ \E c \in Codes : SendOtp(c)
               \/ CodeExpire \/ AccountsRestart
  PROVE  IInv'
<1>1. ASSUME NEW s \in Changes, SetPassword(s) PROVE IInv'
  <2>1. /\ UNCHANGED <<link, code, sent, attempt, sessionVars>> /\ user' \in User
        /\ user'.password = s /\ s \notin Links /\ user'.verified /\ user'.exists = user.exists
        /\ live # {}
    BY <1>1, AccountsAssumption DEF SetPassword, IInv, Shape, User, Passwords, AccountsAssumption
  <2>2. Shape' /\ RequestInv' /\ VerifiedInv'
    BY <2>1, RequestsAlone DEF IInv, Shape, VerifiedInv, VerifiedBeforeLogin, sessionVars
  <2>3. NotYetChecked' /\ ResetHolds'
    BY <2>1 DEF IInv, ResetInv, NotYetChecked, ResetHolds
  <2> QED
    BY <2>2, <2>3 DEF IInv, ResetInv
<1>2. ASSUME NEW c \in Codes, SendOtp(c) PROVE IInv'
  <2>1. /\ UNCHANGED <<user, link, attempt, sessionVars>> /\ c \notin sent
        /\ sent' = sent \cup {c} /\ code' = c
    BY <1>2 DEF SendOtp
  <2>3. Shape' /\ RequestInv'
    BY <2>1, RequestsAlone DEF IInv, Shape, sessionVars
  <2>4. VerifiedInv'
    BY <2>1, VerifiedAlone DEF IInv, VerifiedInv, sessionVars
  <2>5. ResetInv'
    BY <2>1 DEF IInv, ResetInv, NotYetChecked, ResetHolds, sessionVars
  <2> QED
    BY <2>3, <2>4, <2>5 DEF IInv
<1>3. CASE CodeExpire
  <2>1. UNCHANGED <<user, link, sent, attempt, sessionVars>> /\ code' = NoCode
    BY <1>3 DEF CodeExpire
  <2>2. Shape' /\ RequestInv' /\ VerifiedInv'
    BY <2>1, VerifiedAlone, RequestsAlone DEF IInv, Shape, VerifiedInv, sessionVars
  <2>3. ResetInv'
    BY <2>1 DEF IInv, ResetInv, NotYetChecked, ResetHolds, sessionVars
  <2> QED
    BY <2>2, <2>3 DEF IInv
<1>4. CASE AccountsRestart
  <2>1. UNCHANGED <<user, sent, live, cookie>> /\ code' = NoCode /\ Settle("refused", TRUE)
    BY <1>4 DEF AccountsRestart
  <2>2. /\ link' \in [Links -> Link]
        /\ \A l \in Links : link'[l].kind = link[l].kind /\ link'[l].pc \in {link[l].pc, "gone"}
    BY <1>4 DEF AccountsRestart, IInv, Shape, Link
  <2>3. /\ attempt' \in [Tokens -> Attempt]
        /\ \A t \in Tokens : /\ attempt'[t].password = attempt[t].password
                             /\ attempt'[t].raced = attempt[t].raced
                             /\ attempt'[t].pc \in {attempt[t].pc, "dead"}
    BY <1>4 DEF AccountsRestart, IInv, Shape, Attempt
  <2>4. request' \in [Requests -> Request] /\ flight' \in Flight /\ RequestInv'
    BY <2>1, SettleKeeps
  <2>5. Shape' /\ VerifiedInv'
    BY <2>1, <2>2, <2>3, <2>4, VerifiedAlone DEF IInv, Shape, VerifiedInv
  <2>6. ResetInv'
    BY <2>1, <2>2, <2>3, ResetsAlone DEF IInv, Unchecked
  <2> QED
    BY <2>4, <2>5, <2>6 DEF IInv
<1> QED
  BY <1>1, <1>2, <1>3, <1>4

-----------------------------------------------------------------------------
(* The theorems.                                                           *)

LEMMA Invariance == AccountsSpec => []IInv
<1>1. ASSUME IInv, [AccountsNext]_vars PROVE IInv'
  <2>1. CASE AccountsNext
    BY <1>1, <2>1, SessionsKeep, LinkKeeps, ResetEndKeeps, AttemptKeeps, OthersKeep DEF AccountsNext
  <2>2. CASE UNCHANGED vars
    BY <1>1, <2>2 DEF vars, sessionVars, accountVars, IInv, Shape, VerifiedInv, VerifiedBeforeLogin,
                      ResetInv, NotYetChecked, ResetHolds, RequestInv, RequestsAreLive, LiveSessionsRefresh
  <2> QED
    BY <1>1, <2>1, <2>2
<1> QED
  BY <1>1, Start, PTL DEF AccountsSpec, vars

\* However many logins, links, restarts and resets overlap, a session, or a login
\* about to store one, has a verified account behind it (verify-before-login:
\* verifyOtp, auth.service.ts:251-298; login, :70-107).
THEOREM SessionsAreVerified == AccountsSpec => []VerifiedBeforeLogin
<1>1. IInv => VerifiedBeforeLogin
  BY DEF IInv, VerifiedInv
<1> QED
  BY <1>1, Invariance, PTL

\* However many links, logins and changes of the password overlap, the only
\* sessions that survive a reset with an older password are those of logins that
\* were past their check when it ended the sessions (resetPassword,
\* auth.service.ts:205-221).
THEOREM ResetsEndSessions == AccountsSpec => []ResetEndsOldSessions
<1>1. ASSUME IInv PROVE ResetEndsOldSessions
  BY <1>1 DEF IInv, Shape, ResetInv, ResetHolds, ResetEndsOldSessions
<1> QED
  BY <1>1, Invariance, PTL

\* However many requests, refreshes and sessions overlap, and whichever calls
\* fail: the session of a request that nobody ended is alive when it has its
\* answer; if the refresh was made with its own token, a refusal means that the
\* call failed (refresh, auth.service.ts:310-341; jwt, lib/auth.ts:107-125).
THEOREM SessionsAreRefreshed == AccountsSpec => []LiveSessionsRefresh
<1>1. IInv => LiveSessionsRefresh
  BY DEF IInv, RequestInv
<1> QED
  BY <1>1, Invariance, PTL

-----------------------------------------------------------------------------
(* Limits.                                                                 *)

-----------------------------------------------------------------------------
(* The counters.                                                           *)

CounterShape ==
  /\ kind \in Kinds
  /\ now \in Nat /\ count \in Nat /\ until \in Nat
  /\ allowed \subseteq Nat \X Nat

\* An entry lives on for a window after each call that it has counted, has
\* counted every call of that window, and never the same number twice.
CallsAreNumbered ==
  /\ \A a \in allowed : /\ a[1] <= now /\ a[2] \in 1 .. Allows
                        /\ a[1] + Window <= until
                        /\ now <= a[1] + Window => a[2] <= count
  /\ \A a, b \in allowed : a[1] <= b[1] /\ b[1] - a[1] <= Window /\ a[2] = b[2] => a = b

CounterInv == CounterShape /\ CallsAreNumbered

\* What lies in one window has different numbers, up to the limit.
LEMMA WindowsFit == ASSUME CounterInv PROVE WindowsAreKept
<1> SUFFICES ASSUME NEW t \in 0 .. MaxTime PROVE Cardinality(Used(t)) <= Allows
  BY DEF WindowsAreKept
<1> DEFINE number == [a \in Used(t) |-> a[2]]
<1>1. Allows \in Nat
  BY LimitsAssumption DEF LimitsAssumption, Allows
<1>2. MaxTime \in Nat /\ Window \in Nat
  BY LimitsAssumption DEF LimitsAssumption
<1>3. \A a \in Used(t) : a \in allowed /\ a[2] \in 1 .. Allows
  BY DEF Used, CounterInv, CallsAreNumbered
<1>4. \A a, b \in Used(t) : a[2] = b[2] => a = b
  <2> SUFFICES ASSUME NEW a \in Used(t), NEW b \in Used(t), a[2] = b[2] PROVE a = b
    OBVIOUS
  <2>1. /\ a[1] \in Nat /\ b[1] \in Nat /\ a \in allowed /\ b \in allowed
        /\ a[1] <= t /\ t - a[1] <= Window /\ b[1] <= t /\ t - b[1] <= Window
    BY DEF Used, CounterInv, CounterShape
  <2>2. CASE a[1] <= b[1]
    <3>1. b[1] - a[1] <= Window
      BY <1>2, <2>1, <2>2
    <3> QED
      BY <2>1, <2>2, <3>1 DEF CounterInv, CallsAreNumbered
  <2>3. CASE b[1] <= a[1]
    <3>1. a[1] - b[1] <= Window
      BY <1>2, <2>1, <2>3
    <3> QED
      BY <2>1, <2>3, <3>1 DEF CounterInv, CallsAreNumbered
  <2> QED
    BY <2>1, <2>2, <2>3
<1>5. number \in Injection(Used(t), 1 .. Allows)
  BY <1>3, <1>4 DEF Injection, IsInjective
<1>6. IsFiniteSet(1 .. Allows) /\ Cardinality(1 .. Allows) = Allows
  BY <1>1, FS_Interval
<1> HIDE DEF number
<1> QED
  BY <1>5, <1>6, FS_Injection

LEMMA CountKeeps == ASSUME CounterInv, CountCall, UNCHANGED <<kind, now>> PROVE CounterInv'
<1> DEFINE new == <<now, Stored + 1>>
<1>1. /\ Window \in Nat /\ Allows \in Nat /\ Allows' = Allows
      /\ now \in Nat /\ until \in Nat /\ count \in Nat /\ Stored \in Nat /\ Stored < Allows
  BY LimitsAssumption DEF LimitsAssumption, CounterInv, CounterShape, CountCall, Allows, Stored
<1>2. count' = Stored + 1 /\ until' = now + Window /\ allowed' = allowed \cup {new} /\ now' = now
  BY DEF CountCall
<1>3. CounterShape'
  BY <1>1, <1>2 DEF CounterInv, CounterShape
<1>4. ASSUME NEW a \in allowed
      PROVE  /\ a[1] \in Nat /\ a[2] \in Nat /\ a[1] <= now /\ a[1] + Window <= until
             /\ now <= a[1] + Window => a[2] <= Stored
  <2>1. /\ a[1] \in Nat /\ a[2] \in Nat /\ a[1] <= now /\ a[1] + Window <= until
        /\ now <= a[1] + Window => a[2] <= count
    BY DEF CounterInv, CounterShape, CallsAreNumbered
  <2> QED
    BY <1>1, <2>1 DEF Stored
<1>5. ASSUME NEW a \in allowed'
      PROVE  /\ a[1] <= now' /\ a[2] \in 1 .. Allows' /\ a[1] + Window <= until'
             /\ now' <= a[1] + Window => a[2] <= count'
  <2>1. CASE a \in allowed
    BY <1>1, <1>2, <1>4, <2>1 DEF CounterInv, CallsAreNumbered
  <2>2. CASE a = new
    BY <1>1, <1>2, <2>2
  <2> QED
    BY <1>2, <2>1, <2>2
<1>6. ASSUME NEW a \in allowed', NEW b \in allowed',
             a[1] <= b[1], b[1] - a[1] <= Window, a[2] = b[2]
      PROVE  a = b
  <2>1. CASE a \in allowed /\ b \in allowed
    BY <1>6, <2>1 DEF CounterInv, CallsAreNumbered
  <2>2. CASE a \in allowed /\ b = new
    <3>1. now <= a[1] + Window
      BY <1>1, <1>4, <1>6, <2>2
    <3> QED
      BY <1>1, <1>4, <1>6, <2>2, <3>1
  <2>3. CASE a = new /\ b \in allowed
    <3>1. now <= b[1] + Window /\ a[2] = Stored + 1
      BY <1>1, <1>4, <1>6, <2>3
    <3> QED
      BY <1>1, <1>4, <1>6, <2>3, <3>1
  <2> QED
    BY <1>2, <2>1, <2>2, <2>3
<1>7. CallsAreNumbered'
  BY <1>5, <1>6 DEF CallsAreNumbered
<1> QED
  BY <1>3, <1>7 DEF CounterInv

LEMMA ForgetKeeps == ASSUME CounterInv, Forget, UNCHANGED <<kind, now>> PROVE CounterInv'
BY DEF Forget, CounterInv, CounterShape, CallsAreNumbered

\* A window that is over needs no count.
LEMMA TickKeeps == ASSUME CounterInv, Tick PROVE CounterInv'
<1>1. /\ now' = now + 1 /\ UNCHANGED <<kind, count, until, allowed>> /\ Allows' = Allows
      /\ now \in Nat /\ Window \in Nat
  BY LimitsAssumption DEF LimitsAssumption, Tick, Allows, CounterInv, CounterShape
<1>2. CounterShape'
  BY <1>1 DEF CounterInv, CounterShape
<1>3. ASSUME NEW a \in allowed
      PROVE  /\ a[1] <= now'
             /\ now' <= a[1] + Window => a[2] <= count
             /\ a[2] \in 1 .. Allows' /\ a[1] + Window <= until
  <2>1. a[1] \in Nat /\ a[1] <= now
    BY DEF CounterInv, CounterShape, CallsAreNumbered
  <2> QED
    BY <1>1, <2>1 DEF CounterInv, CallsAreNumbered
<1>4. \A a, b \in allowed : a[1] <= b[1] /\ b[1] - a[1] <= Window /\ a[2] = b[2] => a = b
  BY DEF CounterInv, CallsAreNumbered
<1>5. CallsAreNumbered'
  <2>1. allowed' = allowed /\ until' = until /\ count' = count
    BY <1>1
  <2> QED
    BY <1>3, <1>4, <2>1 DEF CallsAreNumbered
<1> QED
  BY <1>2, <1>5 DEF CounterInv

-----------------------------------------------------------------------------
(* The daily spend.                                                        *)

Calling == {c \in Callers : caller[c]}

\* Each call under way has seen a spend below the cap, and may still add its cost.
SpendInv ==
  /\ spent \in Nat /\ caller \in [Callers -> BOOLEAN]
  /\ spent + Cost * Cardinality(Calling) < Cap + Cost * Cardinality(Callers)

LEMMA CallersAreFinite ==
  ASSUME NEW C, C \subseteq Callers
  PROVE  /\ IsFiniteSet(C) /\ Cardinality(C) \in Nat /\ Cardinality(Callers) \in Nat
         /\ Cardinality(C) <= Cardinality(Callers)
         /\ C # Callers => Cardinality(C) < Cardinality(Callers)
<1>1. IsFiniteSet(Callers)
  BY LimitsAssumption DEF LimitsAssumption
<1> QED
  BY <1>1, FS_Subset, FS_CardinalityType

LEMMA CostsGrow ==
  ASSUME NEW m \in Nat, NEW n \in Nat, m <= n
  PROVE  /\ Cost * m \in Nat /\ Cost * m <= Cost * n /\ Cost * (m + 1) = Cost * m + Cost
<1>1. Cost \in Nat
  BY LimitsAssumption DEF LimitsAssumption
<1>2. PICK d \in Nat : n = m + d
  <2>1. n - m \in Nat /\ n = m + (n - m)
    OBVIOUS
  <2> QED
    BY <2>1
<1>3. Cost * n = Cost * m + Cost * d
  BY <1>1, <1>2
<1>4. Cost * d \in Nat /\ Cost * m \in Nat /\ Cost * (m + 1) = Cost * m + Cost
  BY <1>1, <1>2
<1> QED
  BY <1>3, <1>4

LEMMA CheckKeeps == ASSUME SpendInv, NEW c \in Callers, CheckSpendCap(c) PROVE SpendInv'
<1>1. /\ ~caller[c] /\ spent < Cap /\ spent' = spent
      /\ caller' = [caller EXCEPT ![c] = TRUE]
  BY DEF CheckSpendCap
<1>2. Cardinality(Calling') \in Nat /\ Cardinality(Callers) \in Nat /\ Cardinality(Calling') <= Cardinality(Callers)
  <2>1. Calling' \subseteq Callers
    BY DEF Calling
  <2> QED
    BY <2>1, CallersAreFinite
<1>3. Cost * Cardinality(Calling') <= Cost * Cardinality(Callers) /\ Cost * Cardinality(Calling') \in Nat
  BY <1>2, CostsGrow
<1>4. Cost * Cardinality(Callers) \in Nat /\ Cap \in Nat /\ spent \in Nat
  BY <1>2, CostsGrow, LimitsAssumption DEF LimitsAssumption, SpendInv
<1>5. caller' \in [Callers -> BOOLEAN]
  BY <1>1 DEF SpendInv
<1> QED
  BY <1>1, <1>3, <1>4, <1>5 DEF SpendInv

LEMMA TrackKeeps == ASSUME SpendInv, NEW c \in Callers, TrackSpend(c) PROVE SpendInv'
<1>1. PICK cost \in 0 .. Cost : spent' = spent + cost
  BY DEF TrackSpend
<1>2. caller[c] /\ caller' = [caller EXCEPT ![c] = FALSE] /\ caller' \in [Callers -> BOOLEAN]
  BY DEF TrackSpend, SpendInv
<1>3. Calling' = Calling \ {c} /\ c \in Calling
  BY <1>2 DEF Calling, SpendInv
<1>4. Cardinality(Calling) = Cardinality(Calling') + 1 /\ Cardinality(Calling') \in Nat
  <2>1. IsFiniteSet(Calling) /\ IsFiniteSet(Calling') /\ Cardinality(Calling) \in Nat /\ Cardinality(Calling') \in Nat
    BY <1>3, CallersAreFinite DEF Calling
  <2>2. Cardinality(Calling \ {c}) = IF c \in Calling THEN Cardinality(Calling) - 1 ELSE Cardinality(Calling)
    BY <2>1, FS_RemoveElement
  <2> QED
    BY <1>3, <2>1, <2>2
<1>5. /\ Cost * Cardinality(Calling) = Cost * Cardinality(Calling') + Cost
      /\ Cost * Cardinality(Calling') \in Nat /\ Cost \in Nat
  BY <1>4, CostsGrow, LimitsAssumption DEF LimitsAssumption
<1>6. Cost * Cardinality(Callers) \in Nat /\ Cap \in Nat /\ spent \in Nat
  BY CallersAreFinite, CostsGrow, LimitsAssumption DEF LimitsAssumption, SpendInv
<1>7. spent + cost + Cost * Cardinality(Calling') <= spent + Cost * Cardinality(Calling)
  BY <1>1, <1>5, <1>6
<1> QED
  BY <1>1, <1>2, <1>5, <1>6, <1>7 DEF SpendInv

\* A new day, or a new process, has spent nothing.
LEMMA NothingIsBelow ==
  ASSUME NEW C, C \subseteq Callers
  PROVE  0 + Cost * Cardinality(C) < Cap + Cost * Cardinality(Callers)
<1>1. Cardinality(C) \in Nat /\ Cardinality(Callers) \in Nat /\ Cardinality(C) <= Cardinality(Callers)
  BY CallersAreFinite
<1>2. Cost * Cardinality(C) <= Cost * Cardinality(Callers) /\ Cost * Cardinality(C) \in Nat
  BY <1>1, CostsGrow
<1>3. Cost * Cardinality(Callers) \in Nat /\ Cap \in Nat \ {0}
  BY <1>1, CostsGrow, LimitsAssumption DEF LimitsAssumption
<1> QED
  BY <1>2, <1>3

LEMMA NothingSpent ==
  ASSUME spent' = 0, caller' \in [Callers -> BOOLEAN] PROVE SpendInv'
<1>1. Calling' \subseteq Callers
  BY DEF Calling
<1> QED
  BY <1>1, NothingIsBelow DEF SpendInv

-----------------------------------------------------------------------------

LimitsInv == CounterInv /\ SpendInv

LEMMA LimitsStart == LimitsInit => LimitsInv
<1> SUFFICES ASSUME LimitsInit PROVE LimitsInv
  OBVIOUS
<1>1. CounterInv
  BY DEF LimitsInit, CounterInv, CounterShape, CallsAreNumbered
<1>2. SpendInv
  <2>1. Calling \subseteq Callers
    BY DEF Calling
  <2> QED
    BY <2>1, NothingIsBelow DEF LimitsInit, SpendInv
<1> QED
  BY <1>1, <1>2 DEF LimitsInv

LEMMA LimitsKeep == ASSUME LimitsInv, [LimitsNext]_limitVars PROVE LimitsInv'
<1>1. CASE CounterStep
  <2>1. CounterInv'
    BY <1>1, CountKeeps, ForgetKeeps
       DEF LimitsInv, CounterStep, CheckRateLimit, CheckOtpRateLimit, CheckOtpVerifyAttempts, CheckLoginAttempts,
           CheckSurveySend, ClearLoginAttempts, ClearOtpVerifyAttempts
  <2>2. SpendInv'
    BY <1>1 DEF LimitsInv, CounterStep, SpendInv, Calling
  <2> QED
    BY <2>1, <2>2 DEF LimitsInv
<1>2. CASE Tick
  BY <1>2, TickKeeps DEF LimitsInv, Tick, SpendInv, Calling
<1>3. CASE SpendStep
  <2>1. CounterInv'
    BY <1>3 DEF LimitsInv, SpendStep, CheckSpendCap, TrackSpend, NextDay, counterVars,
                CounterInv, CounterShape, CallsAreNumbered, Allows
  <2>2. CASE NextDay
    <3>1. spent' = 0 /\ caller' \in [Callers -> BOOLEAN]
      BY <2>2 DEF NextDay, LimitsInv, SpendInv
    <3> QED
      BY <2>1, <3>1, NothingSpent DEF LimitsInv
  <2>3. ASSUME NEW c \in Callers, CheckSpendCap(c) PROVE SpendInv'
    BY <2>3, CheckKeeps DEF LimitsInv
  <2>4. ASSUME NEW c \in Callers, TrackSpend(c) PROVE SpendInv'
    BY <2>4, TrackKeeps DEF LimitsInv
  <2> QED
    BY <1>3, <2>1, <2>2, <2>3, <2>4 DEF LimitsInv, SpendStep
<1>4. CASE LimitsRestart
  <2>1. CounterInv'
    BY <1>4, ForgetKeeps DEF LimitsRestart, LimitsInv
  <2>2. spent' = 0 /\ caller' \in [Callers -> BOOLEAN]
    BY <1>4 DEF LimitsRestart
  <2> QED
    BY <2>1, <2>2, NothingSpent DEF LimitsInv
<1>5. CASE UNCHANGED limitVars
  BY <1>5 DEF limitVars, counterVars, LimitsInv, CounterInv, CounterShape, CallsAreNumbered, Allows, SpendInv, Calling
<1> QED
  BY <1>1, <1>2, <1>3, <1>4, <1>5 DEF LimitsNext

\* No window lets more calls through than the limit, and the daily cap is
\* exceeded by no more than the calls at once cost, for every limit, window, cap
\* and number of callers (redis.service.ts:94-157).
THEOREM TheLimitsBind == LimitsSpec => []LimitsBind
<1>1. LimitsSpec => []LimitsInv
  BY LimitsStart, LimitsKeep, PTL DEF LimitsSpec
<1>2. ASSUME LimitsInv PROVE LimitsBind
  <2>1. WindowsAreKept
    BY <1>2, WindowsFit DEF LimitsInv
  <2>2. /\ Cost * Cardinality(Calling) \in Nat /\ Cost * Cardinality(Callers) \in Nat
        /\ spent \in Nat /\ Cap \in Nat
    BY <1>2, CallersAreFinite, CostsGrow, LimitsAssumption DEF LimitsAssumption, Calling, LimitsInv, SpendInv
  <2>3. SpendOvershootIsBounded
    BY <1>2, <2>2 DEF LimitsInv, SpendInv, SpendOvershootIsBounded
  <2> QED
    BY <2>1, <2>3 DEF LimitsBind
<1> QED
  BY <1>1, <1>2, PTL

-----------------------------------------------------------------------------
(* Plans.                                                                  *)

\* What an entry may still become: its age at the end of its time.
StoreEnd == IF cached = "all" THEN AllTtl + ReadTime + 1 ELSE PlanTtl + ReadTime + 1
LocalEnd == AllTtl + ReadTime + 1 + LocalTtl

AnyReader == [pc : {"idle", "query", "read"}, at : Instances \cup {NoReader.at}, age : Nat, time : Nat]
AnyEntry == [set : BOOLEAN, age : Nat, left : Nat]

\* An entry ages as its time runs out.
EndsBy(e, end) == e \in AnyEntry /\ e.age + e.left <= end /\ e.left < end

\* An answer is as old as its query at most.
AsOldAsTheQuery(q) ==
  /\ q \in AnyReader
  /\ q.pc # "read" => q.age = 0
  /\ q.age <= q.time + 1
  /\ q.time <= ReadTime

PlansInv ==
  /\ cached \in {"all", "plan"}
  /\ DOMAIN store = Instances /\ store = [i \in Instances |-> store[i]]
  /\ DOMAIN local = Instances /\ local = [i \in Instances |-> local[i]]
  /\ DOMAIN reader = Readers /\ reader = [r \in Readers |-> reader[r]]
  /\ \A i \in Instances : EndsBy(store[i], StoreEnd) /\ EndsBy(local[i], LocalEnd)
  /\ \A r \in Readers : AsOldAsTheQuery(reader[r])
  /\ got \in Nat /\ StalenessIsBounded

LEMMA PlansNumbers ==
  /\ AllTtl \in Nat /\ LocalTtl \in Nat /\ ReadTime \in Nat /\ PlanTtl \in Nat
  /\ PlanTtl <= AllTtl /\ LocalTtl >= 1
  /\ Oldest \in Nat /\ LocalEnd \in Nat /\ StoreEnd \in Nat
BY PlansAssumption DEF PlansAssumption, Oldest, LocalEnd, StoreEnd

LEMMA OlderByOne ==
  ASSUME NEW age \in Nat
  PROVE  Older(age) \in Nat /\ Older(age) <= age + 1 /\ (age = 0 => Older(age) = 0)
BY PlansNumbers DEF Older

LEMMA ReplacedEntry ==
  ASSUME NEW e, NEW end \in Nat, EndsBy(e, end) PROVE EndsBy(Replace(e), end)
BY DEF Replace, EndsBy, AnyEntry

LEMMA WornEntry ==
  ASSUME NEW e, NEW end \in Nat, EndsBy(e, end) PROVE EndsBy(Wear(e), end)
<1>1. Older(e.age) \in Nat /\ Older(e.age) <= e.age + 1
  BY OlderByOne DEF EndsBy, AnyEntry
<1>2. CASE e.set /\ e.left > 0
  <2>1. Wear(e) = [set |-> e.set, age |-> Older(e.age), left |-> e.left - 1]
    BY <1>2 DEF Wear, EndsBy, AnyEntry
  <2> QED
    BY <1>1, <1>2, <2>1 DEF EndsBy, AnyEntry
<1>3. CASE ~(e.set /\ e.left > 0)
  <2>1. Wear(e) = NoEntry /\ 0 < end
    BY <1>3 DEF Wear, EndsBy, AnyEntry
  <2> QED
    BY <2>1 DEF EndsBy, AnyEntry, NoEntry
<1> QED
  BY <1>2, <1>3

LEMMA EntryGone == ASSUME NEW end \in Nat, end >= 1 PROVE EndsBy(NoEntry, end)
BY DEF EndsBy, AnyEntry, NoEntry

LEMMA EntryStored ==
  ASSUME NEW end \in Nat, NEW age \in Nat, NEW ttl \in Nat, age + ttl <= end, ttl < end
  PROVE  EndsBy(Fresh(age, ttl), end)
BY DEF EndsBy, AnyEntry, Fresh

LEMMA AskingReader ==
  ASSUME NEW idle, NEW j, NEW i, idle = [pc |-> "idle", at |-> j, age |-> 0, time |-> 0]
  PROVE  [idle EXCEPT !.pc = "query", !.at = i] = [pc |-> "query", at |-> i, age |-> 0, time |-> 0]
<1>1. [idle EXCEPT !.pc = "query"] = [pc |-> "query", at |-> j, age |-> 0, time |-> 0]
  OBVIOUS
<1>2. [[pc |-> "query", at |-> j, age |-> 0, time |-> 0] EXCEPT !.at = i]
        = [pc |-> "query", at |-> i, age |-> 0, time |-> 0]
  OBVIOUS
<1> QED
  BY <1>1, <1>2

LEMMA IdleReader == AsOldAsTheQuery(NoReader)
BY PlansNumbers DEF AsOldAsTheQuery, AnyReader, NoReader

LEMMA PlansStart == PlansInit => PlansInv
<1> SUFFICES ASSUME PlansInit PROVE PlansInv
  OBVIOUS
<1>1. StoreEnd >= 1 /\ LocalEnd >= 1
  BY PlansNumbers DEF PlansInit, StoreEnd, LocalEnd
<1>2. EndsBy(NoEntry, StoreEnd) /\ EndsBy(NoEntry, LocalEnd)
  BY <1>1, PlansNumbers, EntryGone
<1>3. StalenessIsBounded
  BY PlansNumbers DEF PlansInit, StalenessIsBounded
<1> QED
  BY <1>2, <1>3, IdleReader DEF PlansInit, PlansInv

LEMMA HitKeeps == ASSUME PlansInv, NEW i \in Instances, AllPlansHit(i) \/ PlanHit(i) PROVE PlansInv'
<1>1. /\ UNCHANGED <<cached, store, reader, editor>> /\ StoreEnd' = StoreEnd /\ LocalEnd' = LocalEnd
  BY DEF AllPlansHit, PlanHit, StoreEnd, LocalEnd
<1>2. EndsBy(store[i], StoreEnd) /\ EndsBy(local[i], LocalEnd)
  BY DEF PlansInv
<1>3. ASSUME cached = "all", LocalHit(i), got' = local[i].age, UNCHANGED local
      PROVE  PlansInv'
  <2>1. got' \in Nat /\ got' <= AllTtl + LocalTtl + ReadTime
    BY <1>2, <1>3, PlansNumbers DEF EndsBy, AnyEntry, LocalHit, LocalEnd
  <2> QED
    BY <1>1, <1>3, <2>1 DEF PlansInv, StalenessIsBounded
<1>4. ASSUME cached = "all", got' = store[i].age, local' = [local EXCEPT ![i] = Fresh(store[i].age, LocalTtl)]
      PROVE  PlansInv'
  <2>1. store[i].age \in Nat /\ store[i].age <= AllTtl + ReadTime + 1
    BY <1>2, <1>4, PlansNumbers DEF EndsBy, AnyEntry, StoreEnd
  <2>2. EndsBy(Fresh(store[i].age, LocalTtl), LocalEnd)
    BY <2>1, EntryStored, PlansNumbers DEF LocalEnd
  <2>3. got' \in Nat /\ got' <= AllTtl + LocalTtl + ReadTime
    BY <1>4, <2>1, PlansNumbers
  <2> QED
    BY <1>1, <1>4, <2>2, <2>3 DEF PlansInv, StalenessIsBounded
<1>5. ASSUME cached = "plan", got' = store[i].age, UNCHANGED local
      PROVE  PlansInv'
  <2>1. got' \in Nat /\ got' <= PlanTtl + ReadTime + 1
    BY <1>2, <1>5, PlansNumbers DEF EndsBy, AnyEntry, StoreEnd
  <2> QED
    BY <1>1, <1>5, <2>1 DEF PlansInv, StalenessIsBounded
<1> QED
  BY <1>3, <1>4, <1>5 DEF AllPlansHit, PlanHit

LEMMA QueryKeeps == ASSUME PlansInv, NEW r \in Readers, QueryPlans(r) \/ \E i \in Instances : PlansMiss(r, i) PROVE PlansInv'
<1>1. /\ UNCHANGED <<cached, store, local, editor, got>> /\ StoreEnd' = StoreEnd /\ LocalEnd' = LocalEnd
  BY DEF QueryPlans, PlansMiss, StoreEnd, LocalEnd
<1>2. CASE QueryPlans(r)
  <2>1. AsOldAsTheQuery([reader[r] EXCEPT !.pc = "read"])
    BY <1>2 DEF QueryPlans, PlansInv, AsOldAsTheQuery, AnyReader
  <2> QED
    BY <1>1, <1>2, <2>1 DEF QueryPlans, PlansInv, StalenessIsBounded
<1>3. ASSUME NEW i \in Instances, PlansMiss(r, i) PROVE PlansInv'
  <2> DEFINE q == [NoReader EXCEPT !.pc = "query", !.at = i]
  <2>1. q = [pc |-> "query", at |-> i, age |-> 0, time |-> 0]
    BY AskingReader DEF NoReader
  <2>2. AsOldAsTheQuery(q)
    <3> HIDE DEF q
    <3> QED
      BY <2>1, PlansNumbers DEF AsOldAsTheQuery, AnyReader
  <2> QED
    BY <1>1, <1>3, <2>2 DEF PlansMiss, PlansInv, StalenessIsBounded
<1> QED
  BY <1>2, <1>3

\* A slow reader stores an old answer again, for the full time.
LEMMA PlansStoreKeeps == ASSUME PlansInv, NEW r \in Readers, PlansStore(r) PROVE PlansInv'
<1> DEFINE q == reader[r]
           ttl == IF cached = "all" THEN AllTtl ELSE PlanTtl
<1>1. q.age \in Nat /\ q.age <= ReadTime + 1
  BY PlansNumbers DEF PlansInv, AsOldAsTheQuery, AnyReader
<1>2. /\ UNCHANGED <<cached, editor>> /\ StoreEnd' = StoreEnd /\ LocalEnd' = LocalEnd
      /\ store' = [store EXCEPT ![q.at] = Fresh(q.age, ttl)]
      /\ local' = local \/ local' = [local EXCEPT ![q.at] = Fresh(q.age, LocalTtl)]
      /\ got' = q.age /\ reader' = [reader EXCEPT ![r] = NoReader]
  BY DEF PlansStore, StoreEnd, LocalEnd
<1>3. EndsBy(Fresh(q.age, ttl), StoreEnd) /\ EndsBy(Fresh(q.age, LocalTtl), LocalEnd)
  <2>1. cached \in {"all", "plan"} /\ ttl \in Nat /\ q.age + ttl <= StoreEnd /\ ttl < StoreEnd
    BY <1>1, PlansNumbers DEF PlansInv, StoreEnd
  <2>2. q.age + LocalTtl <= LocalEnd /\ LocalTtl < LocalEnd
    BY <1>1, PlansNumbers DEF LocalEnd
  <2> HIDE DEF q, ttl
  <2> QED
    BY <1>1, <2>1, <2>2, EntryStored, PlansNumbers
<1>4. got' \in Nat /\ StalenessIsBounded'
  BY <1>1, <1>2, PlansNumbers DEF StalenessIsBounded
<1> HIDE DEF q, ttl
<1> QED
  BY <1>2, <1>3, <1>4, IdleReader DEF PlansInv

LEMMA EditKeeps == ASSUME PlansInv, NEW i \in Instances, PlanWrite(i) \/ InvalidateCache(i) PROVE PlansInv'
<1>1. /\ cached' = cached /\ StoreEnd' = StoreEnd /\ LocalEnd' = LocalEnd
      /\ StoreEnd >= 1 /\ LocalEnd >= 1 /\ cached \in {"all", "plan"}
  BY PlansNumbers DEF PlanWrite, InvalidateCache, StoreEnd, LocalEnd, PlansInv
<1>2. CASE PlanWrite(i)
  <2>1. \A j \in Instances : EndsBy(Replace(store[j]), StoreEnd) /\ EndsBy(Replace(local[j]), LocalEnd)
    BY ReplacedEntry, PlansNumbers DEF PlansInv
  <2>2. ASSUME NEW r \in Readers PROVE AsOldAsTheQuery(reader'[r])
    BY <1>2, PlansNumbers DEF PlanWrite, PlansInv, AsOldAsTheQuery, AnyReader
  <2>3. got' \in Nat /\ StalenessIsBounded'
    BY <1>1, <1>2, PlansNumbers DEF PlanWrite, StalenessIsBounded
  <2>4. DOMAIN reader' = Readers /\ reader' = [r \in Readers |-> reader'[r]]
    BY <1>2 DEF PlanWrite
  <2> QED
    BY <1>1, <1>2, <2>1, <2>2, <2>3, <2>4 DEF PlanWrite, PlansInv
<1>3. CASE InvalidateCache(i)
  <2>1. EndsBy(NoEntry, StoreEnd) /\ EndsBy(NoEntry, LocalEnd)
    BY <1>1, PlansNumbers, EntryGone
  <2> QED
    BY <1>1, <1>3, <2>1 DEF InvalidateCache, PlansInv, StalenessIsBounded
<1> QED
  BY <1>2, <1>3

LEMMA PlansTickKeeps == ASSUME PlansInv, PlansTick PROVE PlansInv'
<1>1. /\ cached' = cached /\ StoreEnd' = StoreEnd /\ LocalEnd' = LocalEnd
  BY DEF PlansTick, StoreEnd, LocalEnd
<1>2. \A j \in Instances : EndsBy(Wear(store[j]), StoreEnd) /\ EndsBy(Wear(local[j]), LocalEnd)
  BY WornEntry, PlansNumbers DEF PlansInv
<1>3. ASSUME NEW r \in Readers PROVE AsOldAsTheQuery(reader'[r])
  <2>1. AsOldAsTheQuery(reader[r]) /\ reader[r].age \in Nat /\ reader[r].time \in Nat
    BY DEF PlansInv, AsOldAsTheQuery, AnyReader
  <2>2. /\ Older(reader[r].age) \in Nat /\ Older(reader[r].age) <= reader[r].age + 1
        /\ reader[r].age = 0 => Older(reader[r].age) = 0
    BY <2>1, OlderByOne
  <2>3. CASE reader[r].pc = "idle"
    BY <2>1, <2>3 DEF PlansTick
  <2>4. CASE reader[r].pc # "idle"
    <3>1. /\ reader'[r] = [reader[r] EXCEPT !.time = @ + 1, !.age = Older(@)] /\ reader[r].time < ReadTime
      BY <2>4 DEF PlansTick
    <3>2. reader'[r] = [pc |-> reader[r].pc, at |-> reader[r].at,
                        age |-> Older(reader[r].age), time |-> reader[r].time + 1]
      BY <2>1, <3>1 DEF AsOldAsTheQuery, AnyReader
    <3> QED
      BY <2>1, <2>2, <3>1, <3>2, PlansNumbers DEF AsOldAsTheQuery, AnyReader
  <2> QED
    BY <2>3, <2>4
<1>4. got' \in Nat /\ StalenessIsBounded'
  <2>1. got' = 0
    BY DEF PlansTick
  <2> QED
    BY <1>1, <2>1, PlansNumbers DEF StalenessIsBounded
<1>5. DOMAIN reader' = Readers /\ reader' = [r \in Readers |-> reader'[r]]
  BY DEF PlansTick
<1> QED
  BY <1>1, <1>2, <1>3, <1>4, <1>5 DEF PlansTick, PlansInv

LEMMA PlansKeep == ASSUME PlansInv, [PlansNext]_planVars PROVE PlansInv'
<1>1. CASE UNCHANGED planVars
  BY <1>1 DEF planVars, PlansInv, StalenessIsBounded, StoreEnd, LocalEnd
<1> QED
  BY <1>1, HitKeeps, QueryKeeps, PlansStoreKeeps, EditKeeps, PlansTickKeeps DEF PlansNext

\* What a read returns was replaced no longer ago than the times to live and one
\* query together, for every number of instances and readers and every time to
\* live (getPlan, getAllPlans, entitlements.service.ts:46-83).
THEOREM PlansAreFresh == PlansSpec => []StalenessIsBounded
<1>1. PlansInv => StalenessIsBounded
  BY DEF PlansInv
<1> QED
  BY <1>1, PlansStart, PlansKeep, PTL DEF PlansSpec
=============================================================================
