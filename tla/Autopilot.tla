----------------------------- MODULE Autopilot -----------------------------
(***************************************************************************)
(* The daily autopilot cron for one rule (one user and person) and one     *)
(* event inside its lead window: AutopilotScheduler.processRule, which     *)
(* drives generate and selectSuggestion beside the user's own calls, and   *)
(* the operations on the rule of AutopilotService.                         *)
(*                                                                         *)
(* Each day of the cron uses the generate call and the pick of its name.   *)
(* Cron days do not overlap: a day ends long before the next begins.       *)
(***************************************************************************)
EXTENDS Picks

CONSTANT Days   \* the days on which the cron finds the event in the window

ASSUME AutopilotAssumption == Days \subseteq Calls /\ Days \subseteq Picks

VARIABLES
  rule,     \* the row of autopilot_rules
  runs,     \* the rows of autopilot_runs of rule and event
  cron,     \* cron[d]: where the cron of day d is
  deleted   \* has the rule ever been deleted?

autopilotVars == <<rule, runs, cron, deleted>>
vars == <<rerollVars, pickVars, autopilotVars>>

-----------------------------------------------------------------------------
(* Types.                                                                  *)

RunStatus == {"ready_for_review", "failed", "skipped_budget", "skipped_confidence",
              "skipped_no_suggestion"}
CronRunning == {"look", "cap", "generate", "check", "select", "ready", "notify", "fail"}

AutopilotTypeOK ==
  /\ rule \in {"none", "active", "paused"}
  /\ runs \subseteq [day : Days, status : RunStatus]
  /\ cron \in [Days -> {"start", "done", "dead"} \cup CronRunning]
  /\ deleted \in BOOLEAN

TypeOK == RerollsTypeOK /\ PicksTypeOK /\ AutopilotTypeOK

Init ==
  /\ RerollsInit
  /\ PicksInit
  /\ rule = "none"
  /\ runs = {}
  /\ cron = [d \in Days |-> "start"]
  /\ deleted = FALSE

-----------------------------------------------------------------------------
(* The rule.                                                               *)

\* createRule: one rule per user and person.
RuleCreate ==
  /\ rule = "none"
  /\ rule' = "active"
  /\ UNCHANGED <<runs, cron, deleted, rerollVars, pickVars>>

\* updateRule, which pauses and resumes.
RuleToggle ==
  /\ rule # "none"
  /\ rule' = IF rule = "active" THEN "paused" ELSE "active"
  /\ UNCHANGED <<runs, cron, deleted, rerollVars, pickVars>>

\* deleteRule; the runs go with the rule.
RuleDelete ==
  /\ rule # "none"
  /\ rule' = "none"
  /\ runs' = {}
  /\ deleted' = TRUE
  /\ UNCHANGED <<cron, rerollVars, pickVars>>

-----------------------------------------------------------------------------
(* runAutopilot and processRule.                                           *)

CronGoes(d, pc) == cron' = [cron EXCEPT ![d] = pc]

\* The insert of a run fails when the rule is gone; a failure of the run that
\* reports a failure leaves processRule.
WriteRun(d, status, ok, failed) ==
  IF rule = "none"
  THEN CronGoes(d, failed) /\ UNCHANGED runs
  ELSE CronGoes(d, ok) /\ runs' = runs \cup {[day |-> d, status |-> status]}

\* The rules of the day are read once.
CronStart(d) ==
  /\ cron[d] = "start"
  /\ \A e \in Days : cron[e] \notin CronRunning
  /\ rule = "active"
  /\ CronGoes(d, "look")
  /\ UNCHANGED <<rule, runs, deleted, rerollVars, pickVars>>

\* A plausible bug: only a run of the same day counts.
CronLookToday(d) ==
  /\ cron[d] = "look"
  /\ CronGoes(d, IF \E r \in runs : r.day = d THEN "done" ELSE "cap")
  /\ UNCHANGED <<rule, runs, deleted, rerollVars, pickVars>>

\* existingRun.
CronLook(d) ==
  /\ cron[d] = "look"
  /\ CronGoes(d, IF runs # {} THEN "done" ELSE "cap")
  /\ UNCHANGED <<rule, runs, deleted, rerollVars, pickVars>>

\* checkSpendingCap throws without a rule.  The cap is the rule's own and may lie
\* below the price of one gift; what the month has cost so far is always 0, for no
\* run is ever 'order_placed'.
OverCap(d) ==
  \/ rule = "none" /\ CronGoes(d, "done") /\ UNCHANGED runs
  \/ rule # "none" /\ WriteRun(d, "skipped_budget", "done", "done")

\* The cap, and the address, which comes from the person as it happens to be.
CronCap(d) ==
  /\ cron[d] = "cap"
  /\ \/ OverCap(d)
     \/ rule # "none" /\ CronGoes(d, "generate") /\ UNCHANGED runs
     \/ rule # "none" /\ WriteRun(d, "failed", "done", "done")
  /\ UNCHANGED <<rule, deleted, rerollVars, pickVars>>

CronGenerate(d) ==
  /\ cron[d] = "generate"
  /\ GenCount(d)
  /\ CronGoes(d, "check")
  /\ UNCHANGED <<rule, runs, deleted, pickVars>>

\* generate has answered.  A set that was in the cache comes without the
\* suggestions dismissed since; confidence and price decide whether it is
\* picked or handed to the user.
CronCheck(d) ==
  /\ cron[d] = "check"
  /\ gen[d] \in GenEnded
  /\ \/ gen[d] \in {"failed", "limit"} /\ WriteRun(d, "failed", "done", "done")
     \/ /\ gen[d] = "cached" /\ answer[d] \in dismissed
        /\ WriteRun(d, "skipped_no_suggestion", "done", "done")
     \/ /\ gen[d] \in {"done", "cached"}
        /\ \/ \E s \in {"skipped_confidence", "skipped_budget"} : WriteRun(d, s, "done", "done")
           \/ CronGoes(d, "select") /\ UNCHANGED runs
  /\ UNCHANGED <<rule, deleted, rerollVars, pickVars>>

CronSelect(d) ==
  /\ cron[d] = "select"
  /\ PickRead(d, answer[d])
  /\ CronGoes(d, "ready")
  /\ UNCHANGED <<rule, runs, deleted>>

\* selectSuggestion has returned or thrown.
CronReady(d) ==
  /\ cron[d] = "ready"
  /\ \/ pick[d].pc = "ok" /\ WriteRun(d, "ready_for_review", "notify", "fail")
     \/ pick[d].pc = "failed" /\ CronGoes(d, "fail") /\ UNCHANGED runs
  /\ UNCHANGED <<rule, deleted, rerollVars, pickVars>>

\* The notification; its failure is taken for one of the pick.
CronNotify(d) ==
  /\ cron[d] = "notify"
  /\ \/ CronGoes(d, "done") /\ UNCHANGED faults
     \/ CronGoes(d, "fail") /\ Fault
  /\ UNCHANGED <<rule, runs, deleted, gen, index, answer, claimed, sets, cache, pickVars>>

\* The catch of the pick.
CronFail(d) ==
  /\ cron[d] = "fail"
  /\ WriteRun(d, "failed", "done", "done")
  /\ UNCHANGED <<rule, deleted, rerollVars, pickVars>>

Restart ==
  /\ GenRestart
  /\ PicksDie
  /\ cron' = [d \in Days |-> IF cron[d] \in CronRunning THEN "dead" ELSE cron[d]]
  /\ UNCHANGED <<rule, runs, deleted>>

-----------------------------------------------------------------------------

Suggest ==
  /\ \/ \E c \in Calls \ Days : GenCount(c)
     \/ \E c \in Calls : GenStep(c)
     \/ \E k \in Keys : CacheExpire(k)
  /\ UNCHANGED <<pickVars, autopilotVars>>

Choose ==
  /\ \/ \E p \in Picks \ Days, s \in sets : PickRead(p, s)
     \/ \E p \in Picks : PickStep(p) \/ GiftStep(p)
     \/ \E d \in Drops : DropStep(d) \/ \E s \in sets : DropRead(d, s)
  /\ UNCHANGED autopilotVars

CronStep(d) ==
  \/ CronStart(d) \/ CronLook(d) \/ CronCap(d) \/ CronGenerate(d) \/ CronCheck(d)
  \/ CronSelect(d) \/ CronReady(d) \/ CronNotify(d) \/ CronFail(d)

Next ==
  \/ Suggest
  \/ Choose
  \/ RuleCreate \/ RuleToggle \/ RuleDelete
  \/ \E d \in Days : CronStep(d)
  \/ Restart

Spec == Init /\ [][Next]_vars

-----------------------------------------------------------------------------
(* Properties.                                                             *)

\* The autopilot replaces the user's pick for an event at most once, however
\* the days fail, the rule is paused meanwhile, or the notification is lost:
\* only a restart before the run is written, or a rule made anew, repeats it
\* (existingRun and the catch of the pick, autopilot.scheduler.ts:107-110,
\* 240-283; docs/slices/S8-S9-order-tracking-autopilot.md "Skip if an
\* AutopilotRun already exists for this rule+event (idempotent)").
AutopilotPicksOnce ==
  ~deleted /\ (\A d \in Days : cron[d] # "dead")
    => Cardinality({d \in Days : pick[d].pc # "start"}) <= 1
=============================================================================
