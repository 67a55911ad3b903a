------------------------------- MODULE Limits -------------------------------
(***************************************************************************)
(* The counters of RedisService: how often one key (a user, an e-mail, a   *)
(* person) may call, and how much the AI may cost a day.  Every build runs *)
(* their in-memory fallback (see README): a counter is read and written in *)
(* one turn of the event loop, each write gives it its full time to live   *)
(* again, and a restart forgets it.                                        *)
(***************************************************************************)
EXTENDS Naturals, FiniteSets

CONSTANTS
  Limit,    \* calls that a window allows
  Window,   \* its length in ticks
  MaxTime,  \* bound on the clock
  Callers,  \* generate calls that may run at once
  Cap,      \* DAILY_CAP_CENTS
  Cost      \* what one call costs at most

ASSUME LimitsAssumption ==
  /\ Limit \in Nat \ {0} /\ Window \in Nat \ {0} /\ MaxTime \in Nat
  /\ IsFiniteSet(Callers)
  /\ Cap \in Nat \ {0} /\ Cost \in Nat

VARIABLES
  kind,     \* whose counter this is
  now,      \* the clock
  count,    \* the value stored under the key; 0: none
  until,    \* expiresAt of the entry
  allowed,  \* the calls allowed and not forgotten since: when, and what they counted
  spent,    \* spend:daily:<today>
  caller    \* caller[c]: is call c between checkSpendCap and trackSpend?

counterVars == <<kind, now, count, until, allowed>>
limitVars == <<counterVars, spent, caller>>

Kinds == {"suggestions", "otp", "otp-verify", "login", "survey"}

LimitsTypeOK ==
  /\ kind \in Kinds
  /\ now \in 0..MaxTime
  /\ count \in 0..Limit
  /\ until \in 0..MaxTime + Window
  /\ allowed \subseteq (0..MaxTime) \X (1..Limit)
  /\ spent \in Nat
  /\ caller \in [Callers -> BOOLEAN]

LimitsInit ==
  /\ kind \in Kinds
  /\ now = 0
  /\ count = 0
  /\ until = 0
  /\ allowed = {}
  /\ spent = 0
  /\ caller = [c \in Callers |-> FALSE]

-----------------------------------------------------------------------------
(* The counters.                                                           *)

\* memGet: an entry is gone once its time has passed.
Stored == IF now > until THEN 0 ELSE count

\* The survey counter is a mark: one mail per person and window.
Allows == IF kind = "survey" THEN 1 ELSE Limit

\* A plausible bug: the counter is not compared with the limit.
CountCallUnlimited ==
  /\ count' = Stored + 1
  /\ until' = now + Window
  /\ allowed' = allowed \cup {<<now, Stored + 1>>}

\* A plausible bug: the window is fixed when its first call comes.
CountCallFixed ==
  /\ Stored < Allows
  /\ count' = Stored + 1
  /\ until' = IF Stored = 0 THEN now + Window ELSE until
  /\ allowed' = allowed \cup {<<now, Stored + 1>>}

\* At the limit the call is refused and nothing changes; else memSet starts the
\* time to live anew.
CountCall ==
  /\ Stored < Allows
  /\ count' = Stored + 1
  /\ until' = now + Window
  /\ allowed' = allowed \cup {<<now, Stored + 1>>}

CheckRateLimit == kind = "suggestions" /\ CountCall
CheckOtpRateLimit == kind = "otp" /\ CountCall
CheckOtpVerifyAttempts == kind = "otp-verify" /\ CountCall
CheckLoginAttempts == kind = "login" /\ CountCall
CheckSurveySend == kind = "survey" /\ CountCall

\* A right password or code, or a restart, forgets the attempts.
Forget ==
  /\ count' = 0
  /\ until' = 0
  /\ allowed' = {}

ClearLoginAttempts == kind = "login" /\ Forget
ClearOtpVerifyAttempts == kind = "otp-verify" /\ Forget

CounterStep ==
  /\ \/ CheckRateLimit \/ CheckOtpRateLimit \/ CheckOtpVerifyAttempts
     \/ CheckLoginAttempts \/ CheckSurveySend
     \/ ClearLoginAttempts \/ ClearOtpVerifyAttempts
  /\ UNCHANGED <<kind, now, spent, caller>>

Tick ==
  /\ now < MaxTime
  /\ now' = now + 1
  /\ UNCHANGED <<kind, count, until, allowed, spent, caller>>

-----------------------------------------------------------------------------
(* The daily spend.                                                        *)

\* A plausible bug: the cap is not checked.
CheckSpendCapNever(c) ==
  /\ ~caller[c]
  /\ caller' = [caller EXCEPT ![c] = TRUE]
  /\ UNCHANGED <<counterVars, spent>>

CheckSpendCap(c) ==
  /\ ~caller[c]
  /\ spent < Cap
  /\ caller' = [caller EXCEPT ![c] = TRUE]
  /\ UNCHANGED <<counterVars, spent>>

\* Between the two the call asks the AI, and may fail.
TrackSpend(c) ==
  /\ caller[c]
  /\ \E cost \in 0..Cost : spent' = spent + cost
  /\ caller' = [caller EXCEPT ![c] = FALSE]
  /\ UNCHANGED counterVars

\* The key holds the date.
NextDay ==
  /\ spent' = 0
  /\ UNCHANGED <<counterVars, caller>>

SpendStep == (\E c \in Callers : CheckSpendCap(c) \/ TrackSpend(c)) \/ NextDay

\* The store is in the process.
LimitsRestart ==
  /\ Forget
  /\ spent' = 0
  /\ caller' = [c \in Callers |-> FALSE]
  /\ UNCHANGED <<kind, now>>

LimitsNext == CounterStep \/ Tick \/ SpendStep \/ LimitsRestart

LimitsSpec == LimitsInit /\ [][LimitsNext]_limitVars

-----------------------------------------------------------------------------
(* Properties.                                                             *)

Used(t) == {a \in allowed : a[1] <= t /\ t - a[1] <= Window}

\* No window, wherever it starts, lets more calls through than the limit: no
\* two bursts on both sides of a window's end, because a counter lives on as
\* long as calls are counted (checkRateLimit and its like, redis.service.ts:94-116,
\* 189-208, 221-238, 312-327, 342-355).
WindowsAreKept == \A t \in 0..MaxTime : Cardinality(Used(t)) <= Allows

\* The daily cap is checked before a call and charged after it, so it can be
\* exceeded, but by no more than the calls that run at once cost, however many
\* calls come (checkSpendCap, trackSpend, redis.service.ts:126-157).
SpendOvershootIsBounded == spent < Cap + Cost * Cardinality(Callers)

\* What the counters let through is bounded, the windows' and the daily spend.
LimitsBind == WindowsAreKept /\ SpendOvershootIsBounded
=============================================================================
