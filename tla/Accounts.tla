------------------------------ MODULE Accounts ------------------------------
(***************************************************************************)
(* One e-mail address and its account: AuthService's signup, e-mailed      *)
(* links, password reset, one-time codes, login and setPassword, with the  *)
(* links and codes that RedisService keeps in the process (its in-memory   *)
(* fallback, which every build runs: see README).                          *)
(*                                                                         *)
(* A password is named by the call that chooses it.  A login by code       *)
(* reads the code, deletes what is stored, and finds, creates and verifies *)
(* the account in awaits of their own; a code that is wrong changes only   *)
(* the counters of Limits.                                                 *)
(***************************************************************************)
EXTENDS Sessions

CONSTANTS
  Links,       \* signup, resend and forgot calls, and the links they mail
  Changes,     \* setPassword calls
  Codes,       \* sendOtp calls
  NoPassword,  \* no password
  NoCode       \* no code

ASSUME AccountsAssumption ==
  /\ NoPassword \notin Links \cup Changes
  /\ NoCode \notin Codes
  /\ Links \cap Changes = {}

VARIABLES
  user,     \* the row of users
  link,     \* link[l]: where it is, what for, the password it carries
  code,     \* the one-time code that is stored
  sent,     \* the codes sent so far
  changed,  \* the setPassword calls so far
  attempt   \* attempt[t]: the login that issues token t

accountVars == <<user, link, code, sent, changed, attempt>>

-----------------------------------------------------------------------------
(* Types.                                                                  *)

Passwords == Links \cup Changes \cup {NoPassword}

User == [exists : BOOLEAN, verified : BOOLEAN, password : Passwords]

\* found: has the handler of the link seen the account?
Link == [pc : {"new", "mailed", "read", "write", "end", "done", "refused", "gone"},
         kind : {"signup", "verify", "reset"}, found : BOOLEAN]

\* By password or by code.  raced: has a reset deleted the sessions between
\* the check of the password and the issue of the token?
Attempt == [pc : {"new", "read", "found", "create", "verify", "issue", "done",
                  "refused", "dead"},
            password : Passwords, raced : BOOLEAN]

AccountsTypeOK ==
  /\ user \in User
  /\ link \in [Links -> Link]
  /\ code \in Codes \cup {NoCode}
  /\ sent \subseteq Codes
  /\ changed \subseteq Changes
  /\ attempt \in [Tokens -> Attempt]

AccountsInit ==
  /\ SessionsInit
  /\ user = [exists |-> FALSE, verified |-> FALSE, password |-> NoPassword]
  /\ link = [l \in Links |-> [pc |-> "new", kind |-> "signup", found |-> FALSE]]
  /\ code = NoCode
  /\ sent = {}
  /\ changed = {}
  /\ attempt = [t \in Tokens |-> [pc |-> "new", password |-> NoPassword, raced |-> FALSE]]

-----------------------------------------------------------------------------
(* Links.                                                                  *)

LinkGoes(l, pc) == link' = [link EXCEPT ![l].pc = pc]

Mail(l, kind) ==
  /\ link[l].pc = "new"
  /\ link' = [link EXCEPT ![l] = [pc |-> "mailed", kind |-> kind, found |-> FALSE]]
  /\ UNCHANGED <<user, code, sent, changed, attempt, sessionVars>>

\* signup: the password rides in the link.
Signup(l) == ~user.verified /\ Mail(l, "signup")

\* resendVerification.
Resend(l) == user.exists /\ ~user.verified /\ Mail(l, "verify")

\* forgotPassword.
Forgot(l) == user.exists /\ Mail(l, "reset")

LinkExpire(l) ==
  /\ link[l].pc = "mailed"
  /\ LinkGoes(l, "gone")
  /\ UNCHANGED <<user, code, sent, changed, attempt, sessionVars>>

\* The first click consumes the link.
LinkClick(l) ==
  /\ link[l].pc = "mailed"
  /\ LinkGoes(l, IF link[l].kind = "reset" THEN "write" ELSE "read")
  /\ UNCHANGED <<user, code, sent, changed, attempt, sessionVars>>

\* verifyEmail looks the account up, then creates or updates it.
VerifyFind(l) ==
  /\ link[l].pc = "read"
  /\ link' = [link EXCEPT ![l].pc = "write", ![l].found = user.exists]
  /\ UNCHANGED <<user, code, sent, changed, attempt, sessionVars>>

\* The password that a link brings, if any, replaces the one there is.
LinkPassword(l) == IF link[l].kind = "signup" THEN l ELSE user.password

VerifyWrite(l) ==
  /\ link[l].pc = "write" /\ link[l].kind # "reset"
  /\ IF ~link[l].found /\ user.exists   \* the e-mail is unique
     THEN LinkGoes(l, "refused") /\ UNCHANGED user
     ELSE /\ user' = [exists |-> TRUE, verified |-> TRUE, password |-> LinkPassword(l)]
          /\ LinkGoes(l, "done")
  /\ UNCHANGED <<code, sent, changed, attempt, sessionVars>>

\* resetPassword writes the password, then deletes the sessions.
ResetWrite(l) ==
  /\ link[l].pc = "write" /\ link[l].kind = "reset"
  /\ user' = [user EXCEPT !.verified = TRUE, !.password = l]
  /\ LinkGoes(l, "end")
  /\ UNCHANGED <<code, sent, changed, attempt, sessionVars>>

\* A plausible bug: the reset leaves the sessions alone, as setPassword does.
ResetEndNothing(l) ==
  /\ link[l].pc = "end"
  /\ LinkGoes(l, "done")
  /\ UNCHANGED <<user, code, sent, changed, attempt, sessionVars>>

ResetEnd(l) ==
  /\ link[l].pc = "end"
  /\ EndSessions
  /\ attempt' = [t \in Tokens |-> [attempt[t] EXCEPT !.raced = @ \/ attempt[t].pc = "issue"]]
  /\ LinkGoes(l, "done")
  /\ UNCHANGED <<user, code, sent, changed, cuts>>

-----------------------------------------------------------------------------
(* Login.                                                                  *)

\* The password is compared with the row that was read; tokens come later.
LoginCheck(t) ==
  /\ attempt[t].pc = "new"
  /\ user.password # NoPassword /\ user.verified
  /\ attempt' = [attempt EXCEPT ![t].pc = "issue", ![t].password = user.password]
  /\ UNCHANGED <<user, link, code, sent, changed, sessionVars>>

LoginIssue(t) ==
  /\ attempt[t].pc = "issue"
  /\ IssueTokens(t)
  /\ attempt' = [attempt EXCEPT ![t].pc = "done"]
  /\ UNCHANGED <<user, link, code, sent, changed>>

\* setPassword, by somebody with a session; it ends none.
SetPassword(s) ==
  /\ s \notin changed
  /\ live # {}
  /\ changed' = changed \cup {s}
  /\ user' = [user EXCEPT !.verified = TRUE, !.password = s]
  /\ UNCHANGED <<link, code, sent, attempt, sessionVars>>

-----------------------------------------------------------------------------
(* One-time codes.                                                         *)

\* A new code replaces the old one.
SendOtp(c) ==
  /\ c \notin sent
  /\ sent' = sent \cup {c}
  /\ code' = c
  /\ UNCHANGED <<user, link, changed, attempt, sessionVars>>

CodeExpire ==
  /\ code # NoCode
  /\ code' = NoCode
  /\ UNCHANGED <<user, link, sent, changed, attempt, sessionVars>>

AttemptGoes(t, pc) == attempt' = [attempt EXCEPT ![t].pc = pc]

\* Two calls may read one code.
OtpRead(t) ==
  /\ attempt[t].pc = "new"
  /\ code # NoCode
  /\ AttemptGoes(t, "read")
  /\ UNCHANGED <<user, link, code, sent, changed, sessionVars>>

\* The code that is stored goes, a newer one too.
OtpDelete(t) ==
  /\ attempt[t].pc = "read"
  /\ AttemptGoes(t, "found")
  /\ code' = NoCode
  /\ UNCHANGED <<user, link, sent, changed, sessionVars>>

\* A plausible bug: an account that exists counts as verified.
OtpFindAny(t) ==
  /\ attempt[t].pc = "found"
  /\ AttemptGoes(t, IF user.exists THEN "issue" ELSE "create")
  /\ UNCHANGED <<user, link, code, sent, changed, sessionVars>>

OtpFind(t) ==
  /\ attempt[t].pc = "found"
  /\ AttemptGoes(t, IF ~user.exists THEN "create"
                    ELSE IF ~user.verified THEN "verify" ELSE "issue")
  /\ UNCHANGED <<user, link, code, sent, changed, sessionVars>>

\* The account of a new address is made unverified; the e-mail is unique.
OtpCreate(t) ==
  /\ attempt[t].pc = "create"
  /\ user' = [user EXCEPT !.exists = TRUE]
  /\ AttemptGoes(t, IF user.exists THEN "refused" ELSE "verify")
  /\ UNCHANGED <<link, code, sent, changed, sessionVars>>

\* The code proves the address.
OtpVerify(t) ==
  /\ attempt[t].pc = "verify"
  /\ user' = [user EXCEPT !.verified = TRUE]
  /\ AttemptGoes(t, "issue")
  /\ UNCHANGED <<link, code, sent, changed, sessionVars>>

-----------------------------------------------------------------------------

\* A restart empties the store of links and codes and ends the handlers; a
\* refresh that is under way fails.
AccountsRestart ==
  /\ cuts < Cuts
  /\ cuts' = cuts + 1
  /\ code' = NoCode
  /\ link' = [l \in Links |-> IF link[l].pc \in {"mailed", "read", "write", "end"}
                              THEN [link[l] EXCEPT !.pc = "gone"] ELSE link[l]]
  /\ attempt' = [t \in Tokens |-> IF attempt[t].pc \in {"read", "found", "create", "verify", "issue"}
                                  THEN [attempt[t] EXCEPT !.pc = "dead"] ELSE attempt[t]]
  /\ Settle("refused", TRUE)
  /\ UNCHANGED <<user, sent, changed, live, cookie>>

LinkStep(l) ==
  \/ Signup(l) \/ Resend(l) \/ Forgot(l) \/ LinkExpire(l) \/ LinkClick(l)
  \/ VerifyFind(l) \/ VerifyWrite(l) \/ ResetWrite(l) \/ ResetEnd(l)

AttemptStep(t) ==
  \/ LoginCheck(t) \/ LoginIssue(t)
  \/ OtpRead(t) \/ OtpDelete(t) \/ OtpFind(t) \/ OtpCreate(t) \/ OtpVerify(t)

AccountsNext ==
  \/ SessionsStep /\ UNCHANGED accountVars
  \/ \E l \in Links : LinkStep(l)
  \/ \E t \in Tokens : AttemptStep(t)
  \/ \E s \in Changes : SetPassword(s)
  \/ \E c \in Codes : SendOtp(c)
  \/ CodeExpire
  \/ AccountsRestart

AccountsSpec == AccountsInit /\ [][AccountsNext]_<<sessionVars, accountVars>>

-----------------------------------------------------------------------------
(* Properties.                                                             *)

\* Whoever has a session, or is about to, has an account whose address has been
\* proved, although a login by code creates the account and marks it verified in
\* two writes, with other logins, links and restarts in between
\* (verify-before-login: verifyOtp, auth.service.ts:251-298; login, :70-107).
VerifiedBeforeLogin ==
  live # {} \/ (\E t \in Tokens : attempt[t].pc = "issue") => user.exists /\ user.verified

\* While the password of a finished reset stands, a session that began with an
\* older password is one whose login had passed the check and not yet stored
\* its token when the reset deleted the sessions: the password is written
\* before the delete, so no other login slips in between (resetPassword,
\* auth.service.ts:205-221; login, :70-107).
ResetEndsOldSessions ==
  \A l \in Links, t \in live :
    /\ link[l].kind = "reset" /\ link[l].pc = "done" /\ user.password = l
    /\ attempt[t].password \notin {NoPassword, l}
    => attempt[t].raced
=============================================================================
