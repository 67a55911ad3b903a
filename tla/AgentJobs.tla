----------------------------- MODULE AgentJobs -----------------------------
(***************************************************************************)
(* Purchases by the browser agent, of one user: AgentOrdersService         *)
(* (preview, place, cancelJob), the virtual cards of StripeIssuingService, *)
(* the credit of ServiceCreditService, the runs of services/browser-agent  *)
(* and the cron AgentJobReconciliationScheduler that cleans up after it.   *)
(*                                                                         *)
(* As in Orders, one action is one stretch of a handler between two        *)
(* awaits; neighbouring writes that no property tells apart are one        *)
(* action.  A job is named by the preview call that creates it, a card and *)
(* an agent run by the place call that starts them.                        *)
(***************************************************************************)
EXTENDS Naturals, FiniteSets

CONSTANTS
  Jobs,          \* POST /orders/agent/preview calls, and the rows they create
  Places,        \* POST /orders/agent/place calls
  Cancels,       \* POST /orders/agent/:jobId/cancel calls
  NoCard,        \* a null stripeVirtualCardId
  MaxConcurrentJobs,  \* MAX_CONCURRENT_JOBS
  AnswerSteps,   \* does an answer of the agent carry steps?
  StripeFails,   \* may Stripe refuse to cancel a card or fail to mint one?
  MaxFaults      \* bound on database errors and restarts of the API

ASSUME AgentJobsAssumption ==
  /\ Jobs # {}
  /\ NoCard \notin Places
  /\ MaxConcurrentJobs \in Nat
  /\ AnswerSteps \subseteq BOOLEAN
  /\ StripeFails \in BOOLEAN
  /\ MaxFaults \in Nat

VARIABLES
  status, reason, jobCard, steps,  \* the columns of agent_jobs, and has j steps?
  preview,          \* preview[j]: where the preview handler of j is
  place, target,    \* place[p]: where the place handler is; target[p]: its job
  card,             \* card[p]: the virtual card minted by p, at Stripe
  agent, answer,    \* agent[p]: the agent's run for p, and what it answers
  bought,           \* bought[p]: did the retailer accept the order of that run?
  ordered,          \* ordered[p]: did p create an orders row?
  review,           \* jobs with a failure_reviews row
  credited,         \* jobs with a service_credits row of this billing cycle
  cancel, aim,      \* cancel[c]: where the cancel handler is; aim[c]: its job
  sweep, swept,     \* where the reconciliation cron is, and at which job
  sweptCard,        \* the card id it has read
  faults            \* database errors and restarts so far

jobVars == <<status, reason, jobCard, steps>>
placeVars == <<place, target>>
agentVars == <<agent, answer, bought>>
bookVars == <<ordered, review, credited>>
cancelVars == <<cancel, aim>>
sweepVars == <<sweep, swept, sweptCard>>

vars == <<jobVars, preview, placeVars, card, agentVars, bookVars, cancelVars,
          sweepVars, faults>>

-----------------------------------------------------------------------------
(* Types.                                                                  *)

JobStatus == {"none", "queued", "running", "previewing", "placing",
              "completed", "failed", "aborted"}
Closed == {"completed", "failed", "aborted"}
Counted == {"queued", "running", "placing"}
FailureReason == {"none", "uncertain", "other"}

PreviewRunning == {"created", "run", "saveFound", "saveFailed", "stats",
                   "handle", "catch"}
PreviewPc == {"start", "done", "refused", "thrown", "dead"} \cup PreviewRunning

\* The handler owns the job from its claim on, and a card from "execute" on.
Unpaid == {"look", "mint", "rollback"}
Paid == {"execute", "await", "steps", "order", "complete", "fail", "handle", "closeCard"}
PlaceRunning == Unpaid \cup Paid
PlacePc == {"start", "refused", "thrown", "done", "dead"} \cup PlaceRunning

CancelPc == {"start", "write", "done", "refused", "dead"}
SweepPc == {"idle", "stuckCard", "stuckMark", "stuckReview", "cardCancel", "cardClear"}

TypeOK ==
  /\ status \in [Jobs -> JobStatus]
  /\ reason \in [Jobs -> FailureReason]
  /\ jobCard \in [Jobs -> Places \cup {NoCard}]
  /\ steps \in [Jobs -> BOOLEAN]
  /\ preview \in [Jobs -> PreviewPc]
  /\ place \in [Places -> PlacePc]
  /\ target \in [Places -> Jobs]
  /\ card \in [Places -> {"none", "active", "cancelled"}]
  /\ agent \in [Places -> {"idle", "running", "done"}]
  /\ answer \in [Places -> {"none", "completed", "uncertain", "other"}]
  /\ bought \in [Places -> BOOLEAN]
  /\ ordered \in [Places -> BOOLEAN]
  /\ review \in SUBSET Jobs
  /\ credited \in SUBSET Jobs
  /\ cancel \in [Cancels -> CancelPc]
  /\ aim \in [Cancels -> Jobs]
  /\ sweep \in SweepPc
  /\ swept \in Jobs
  /\ sweptCard \in Places \cup {NoCard}
  /\ faults \in 0..MaxFaults

Init ==
  /\ status = [j \in Jobs |-> "none"]
  /\ reason = [j \in Jobs |-> "none"]
  /\ jobCard = [j \in Jobs |-> NoCard]
  /\ steps = [j \in Jobs |-> FALSE]
  /\ preview = [j \in Jobs |-> "start"]
  /\ place = [p \in Places |-> "start"]
  /\ target = [p \in Places |-> CHOOSE j \in Jobs : TRUE]
  /\ card = [p \in Places |-> "none"]
  /\ agent = [p \in Places |-> "idle"]
  /\ answer = [p \in Places |-> "none"]
  /\ bought = [p \in Places |-> FALSE]
  /\ ordered = [p \in Places |-> FALSE]
  /\ review = {}
  /\ credited = {}
  /\ cancel = [c \in Cancels |-> "start"]
  /\ aim = [c \in Cancels |-> CHOOSE j \in Jobs : TRUE]
  /\ sweep = "idle"
  /\ swept = CHOOSE j \in Jobs : TRUE
  /\ sweptCard = NoCard
  /\ faults = 0

-----------------------------------------------------------------------------
(* Helpers.                                                                *)

SetStatus(j, s) == status' = [status EXCEPT ![j] = s]
SetReason(j, r) == reason' = [reason EXCEPT ![j] = r]
PreviewGo(j, pc) == preview' = [preview EXCEPT ![j] = pc]
PlaceGo(p, pc) == place' = [place EXCEPT ![p] = pc]

\* A caller learns the id of a job from the answer to its preview call.
Told(j) == preview[j] = "done"

Owns(p, j) == target[p] = j /\ place[p] \in PlaceRunning

\* cancelCard logs an error of Stripe and returns as if it had worked.
CancelCard(p) ==
  \/ card' = [card EXCEPT ![p] = "cancelled"]
  \/ StripeFails /\ UNCHANGED card

\* (mutant) every failed run is credited.
HandleFailureAlwaysCredits(j, r) ==
  /\ review' = review \cup {j}
  /\ credited' = IF credited = {} THEN {j} ELSE credited

\* An order that may have gone through goes to a human.  Any other failure is
\* credited too, once per user and billing cycle: a second insert violates
\* uq_service_credit_user_cycle and is ignored.
HandleFailure(j, r) ==
  /\ review' = review \cup {j}
  /\ credited' = IF r # "uncertain" /\ credited = {} THEN {j} ELSE credited

-----------------------------------------------------------------------------
(* preview.                                                                *)

\* The count and the create are one serializable transaction.
PreviewCreate(j) ==
  /\ preview[j] = "start"
  /\ Cardinality({i \in Jobs : status[i] \in Counted}) < MaxConcurrentJobs
  /\ SetStatus(j, "queued")
  /\ PreviewGo(j, "created")
  /\ UNCHANGED <<reason, jobCard, steps, placeVars, card, agentVars, bookVars,
                 cancelVars, sweepVars, faults>>

\* The limit is reached, or the transaction conflicts with another's (P2034).
PreviewRefuse(j) ==
  /\ preview[j] = "start"
  /\ \/ Cardinality({i \in Jobs : status[i] \in Counted}) >= MaxConcurrentJobs
     \/ \E i \in Jobs \ {j} : preview[i] = "created"
  /\ PreviewGo(j, "refused")
  /\ UNCHANGED <<jobVars, placeVars, card, agentVars, bookVars, cancelVars,
                 sweepVars, faults>>

PreviewRun(j) ==
  /\ preview[j] = "created"
  /\ SetStatus(j, "running")
  /\ PreviewGo(j, "run")
  /\ UNCHANGED <<reason, jobCard, steps, placeVars, card, agentVars, bookVars,
                 cancelVars, sweepVars, faults>>

\* The agent answers and its steps are stored.  It buys nothing in this mode.
PreviewAnswer(j) ==
  /\ preview[j] = "run"
  /\ \E carries \in AnswerSteps : steps' = [steps EXCEPT ![j] = carries]
  /\ \E next \in {"saveFound", "saveFailed"} : PreviewGo(j, next)
  /\ UNCHANGED <<status, reason, jobCard, placeVars, card, agentVars, bookVars,
                 cancelVars, sweepVars, faults>>

\* The 200 s of the HTTP client are over, or the call fails.
PreviewNoAnswer(j) ==
  /\ preview[j] = "run"
  /\ PreviewGo(j, "catch")
  /\ UNCHANGED <<jobVars, placeVars, card, agentVars, bookVars, cancelVars,
                 sweepVars, faults>>

PreviewSaveFound(j) ==
  /\ preview[j] = "saveFound"
  /\ SetStatus(j, "previewing")
  /\ PreviewGo(j, "stats")
  /\ UNCHANGED <<reason, jobCard, steps, placeVars, card, agentVars, bookVars,
                 cancelVars, sweepVars, faults>>

PreviewSaveFailed(j) ==
  /\ preview[j] = "saveFailed"
  /\ SetStatus(j, "failed")
  /\ SetReason(j, "other")
  /\ PreviewGo(j, "handle")
  /\ UNCHANGED <<jobCard, steps, placeVars, card, agentVars, bookVars,
                 cancelVars, sweepVars, faults>>

\* recordAttempt, and the answer to the caller.
PreviewStats(j) ==
  /\ preview[j] = "stats"
  /\ PreviewGo(j, "done")
  /\ UNCHANGED <<jobVars, placeVars, card, agentVars, bookVars, cancelVars,
                 sweepVars, faults>>

PreviewHandle(j) ==
  /\ preview[j] = "handle"
  /\ HandleFailure(j, "other")
  /\ PreviewGo(j, "done")
  /\ UNCHANGED <<jobVars, placeVars, card, agentVars, ordered, cancelVars,
                 sweepVars, faults>>

PreviewCatch(j) ==
  /\ preview[j] = "catch"
  /\ SetStatus(j, "failed")
  /\ SetReason(j, "other")
  /\ PreviewGo(j, "thrown")
  /\ UNCHANGED <<jobCard, steps, placeVars, card, agentVars, bookVars,
                 cancelVars, sweepVars, faults>>

\* A query of the try block fails; the steps after the saved answer are in it.
PreviewDbError(j) ==
  /\ preview[j] \in PreviewRunning
  /\ faults < MaxFaults
  /\ faults' = faults + 1
  /\ PreviewGo(j, IF preview[j] = "catch" THEN "thrown" ELSE "catch")
  /\ UNCHANGED <<jobVars, placeVars, card, agentVars, bookVars, cancelVars,
                 sweepVars>>

-----------------------------------------------------------------------------
(* place.                                                                  *)

\* (mutant) the status is checked by a read before the claim.
PlaceClaimUnchecked(p, j) ==
  /\ place[p] = "start"
  /\ Told(j)
  /\ target' = [target EXCEPT ![p] = j]
  /\ \/ /\ status[j] \in {"previewing", "placing"}
        /\ SetStatus(j, "placing")
        /\ PlaceGo(p, "look")
     \/ /\ status[j] \notin {"previewing", "placing"}
        /\ PlaceGo(p, "refused")
        /\ UNCHANGED status
  /\ UNCHANGED <<reason, jobCard, steps, preview, card, agentVars, bookVars,
                 cancelVars, sweepVars, faults>>

\* updateMany where status = 'previewing': one write checks and claims.
PlaceClaim(p, j) ==
  /\ place[p] = "start"
  /\ Told(j)
  /\ target' = [target EXCEPT ![p] = j]
  /\ \/ /\ status[j] = "previewing"
        /\ SetStatus(j, "placing")
        /\ PlaceGo(p, "look")
     \/ /\ status[j] # "previewing"
        /\ PlaceGo(p, "refused")
        /\ UNCHANGED status
  /\ UNCHANGED <<reason, jobCard, steps, preview, card, agentVars, bookVars,
                 cancelVars, sweepVars, faults>>

\* The suggestion may have been deleted with its event since the preview: then
\* there is nobody to attribute the order to, and the job is left as it is.
PlaceLook(p) ==
  /\ place[p] = "look"
  /\ \E next \in {"mint", "thrown"} : PlaceGo(p, next)
  /\ UNCHANGED <<jobVars, preview, target, card, agentVars, bookVars, cancelVars,
                 sweepVars, faults>>

\* cards.create makes an active card; it is cards.retrieve that may fail then.
PlaceMint(p) ==
  /\ place[p] = "mint"
  /\ \/ /\ card' = [card EXCEPT ![p] = "active"]
        /\ PlaceGo(p, "execute")
     \/ /\ StripeFails
        /\ \E made \in {"none", "active"} : card' = [card EXCEPT ![p] = made]
        /\ PlaceGo(p, "rollback")
  /\ UNCHANGED <<jobVars, preview, target, agentVars, bookVars, cancelVars,
                 sweepVars, faults>>

PlaceRollback(p) ==
  /\ place[p] = "rollback"
  /\ SetStatus(target[p], "previewing")
  /\ PlaceGo(p, "thrown")
  /\ UNCHANGED <<reason, jobCard, steps, preview, target, card, agentVars,
                 bookVars, cancelVars, sweepVars, faults>>

\* The card is attached to the job and the agent is called.
PlaceExecute(p) ==
  /\ place[p] = "execute"
  /\ jobCard' = [jobCard EXCEPT ![target[p]] = p]
  /\ agent' = [agent EXCEPT ![p] = "running"]
  /\ PlaceGo(p, "await")
  /\ UNCHANGED <<status, reason, steps, preview, target, card, answer, bought,
                 bookVars, cancelVars, sweepVars, faults>>

PlaceAnswer(p) ==
  /\ place[p] = "await"
  /\ agent[p] = "done"
  /\ PlaceGo(p, "steps")
  /\ UNCHANGED <<jobVars, preview, target, card, agentVars, bookVars, cancelVars,
                 sweepVars, faults>>

\* The agent numbers the steps of every request from 1, and (job, number) is
\* unique: createMany rejects steps of a job that has some (P2002).
PlaceSteps(p) ==
  /\ place[p] = "steps"
  /\ \E carries \in AnswerSteps :
       \/ /\ carries /\ steps[target[p]]
          /\ PlaceGo(p, "closeCard")
          /\ UNCHANGED steps
       \/ /\ ~(carries /\ steps[target[p]])
          /\ PlaceGo(p, IF answer[p] = "completed" THEN "order" ELSE "fail")
          /\ steps' = [steps EXCEPT ![target[p]] = @ \/ carries]
  /\ UNCHANGED <<status, reason, jobCard, preview, target, card, agentVars,
                 bookVars, cancelVars, sweepVars, faults>>

\* (mutant) a call without an answer is handled as a failed order.
PlaceNoAnswerFails(p) ==
  /\ place[p] = "await"
  /\ PlaceGo(p, "closeCard")
  /\ SetStatus(target[p], "failed")
  /\ SetReason(target[p], "other")
  /\ HandleFailure(target[p], "other")
  /\ UNCHANGED <<jobCard, steps, preview, target, card, agentVars, ordered,
                 cancelVars, sweepVars, faults>>

\* (mutant) a call without an answer offers the job again.
PlaceNoAnswerReleases(p) ==
  /\ place[p] = "await"
  /\ PlaceGo(p, "closeCard")
  /\ SetStatus(target[p], "previewing")
  /\ UNCHANGED <<reason, jobCard, steps, preview, target, card, agentVars,
                 bookVars, cancelVars, sweepVars, faults>>

\* The 200 s of the HTTP client are over, or the call fails: the agent may go on.
PlaceNoAnswer(p) ==
  /\ place[p] = "await"
  /\ PlaceGo(p, "closeCard")
  /\ UNCHANGED <<jobVars, preview, target, card, agentVars, bookVars, cancelVars,
                 sweepVars, faults>>

PlaceOrder(p) ==
  /\ place[p] = "order"
  /\ ordered' = [ordered EXCEPT ![p] = TRUE]
  /\ PlaceGo(p, "complete")
  /\ UNCHANGED <<jobVars, preview, target, card, agentVars, review, credited,
                 cancelVars, sweepVars, faults>>

PlaceComplete(p) ==
  /\ place[p] = "complete"
  /\ SetStatus(target[p], "completed")
  /\ PlaceGo(p, "closeCard")
  /\ UNCHANGED <<reason, jobCard, steps, preview, target, card, agentVars,
                 bookVars, cancelVars, sweepVars, faults>>

PlaceFail(p) ==
  /\ place[p] = "fail"
  /\ SetStatus(target[p], "failed")
  /\ SetReason(target[p], answer[p])
  /\ PlaceGo(p, "handle")
  /\ UNCHANGED <<jobCard, steps, preview, target, card, agentVars, bookVars,
                 cancelVars, sweepVars, faults>>

PlaceHandle(p) ==
  /\ place[p] = "handle"
  /\ HandleFailure(target[p], answer[p])
  /\ PlaceGo(p, "closeCard")
  /\ UNCHANGED <<jobVars, preview, target, card, agentVars, ordered, cancelVars,
                 sweepVars, faults>>

\* The finally block.
PlaceCloseCard(p) ==
  /\ place[p] = "closeCard"
  /\ CancelCard(p)
  /\ PlaceGo(p, "done")
  /\ UNCHANGED <<jobVars, preview, target, agentVars, bookVars, cancelVars,
                 sweepVars, faults>>

\* A query of the handler fails: what follows the mint is under the finally.
PlaceDbError(p) ==
  /\ place[p] \in PlaceRunning \ {"mint", "await", "closeCard"}
  /\ faults < MaxFaults
  /\ faults' = faults + 1
  /\ PlaceGo(p, IF place[p] \in Paid THEN "closeCard" ELSE "thrown")
  /\ UNCHANGED <<jobVars, preview, target, card, agentVars, bookVars, cancelVars,
                 sweepVars>>

-----------------------------------------------------------------------------
(* The agent's run of a place request, in its own service.                 *)

\* The retailer accepts the order, if the card is still good.  The limit of
\* the card lets one order through.
AgentBuy(p) ==
  /\ agent[p] = "running"
  /\ card[p] = "active"
  /\ ~bought[p]
  /\ bought' = [bought EXCEPT ![p] = TRUE]
  /\ UNCHANGED <<jobVars, preview, placeVars, card, agent, answer, bookVars,
                 cancelVars, sweepVars, faults>>

\* An attempt that fails before the confirming click bought nothing; one that
\* fails after it is uncertain; one that completes may have found no button.
AgentEnd(p) ==
  /\ agent[p] = "running"
  /\ \E a \in {"completed", "uncertain", "other"} :
       /\ a = "other" => ~bought[p]
       /\ answer' = [answer EXCEPT ![p] = a]
  /\ agent' = [agent EXCEPT ![p] = "done"]
  /\ UNCHANGED <<jobVars, preview, placeVars, card, bought, bookVars, cancelVars,
                 sweepVars, faults>>

-----------------------------------------------------------------------------
(* cancelJob.  A job in one of these statuses has no card to cancel.       *)

CancelRead(c, j) ==
  /\ cancel[c] = "start"
  /\ Told(j)
  /\ aim' = [aim EXCEPT ![c] = j]
  /\ cancel' = [cancel EXCEPT ![c] =
       IF status[j] \in {"queued", "running", "previewing"} THEN "write" ELSE "refused"]
  /\ UNCHANGED <<jobVars, preview, placeVars, card, agentVars, bookVars,
                 sweepVars, faults>>

CancelWrite(c) ==
  /\ cancel[c] = "write"
  /\ SetStatus(aim[c], "aborted")
  /\ cancel' = [cancel EXCEPT ![c] = "done"]
  /\ UNCHANGED <<reason, jobCard, steps, preview, placeVars, card, agentVars,
                 bookVars, aim, sweepVars, faults>>

-----------------------------------------------------------------------------
(* The reconciliation cron, one job at a time.                             *)

\* updatedAt is 10 minutes old.  A live handler writes the row more often.
Stuck(j) == status[j] = "placing" /\ \A p \in Places : ~Owns(p, j)

StuckSelect(j) ==
  /\ sweep = "idle"
  /\ Stuck(j)
  /\ sweep' = IF jobCard[j] = NoCard THEN "stuckMark" ELSE "stuckCard"
  /\ swept' = j
  /\ sweptCard' = jobCard[j]
  /\ UNCHANGED <<jobVars, preview, placeVars, card, agentVars, bookVars,
                 cancelVars, faults>>

StuckCard ==
  /\ sweep = "stuckCard"
  /\ CancelCard(sweptCard)
  /\ sweep' = "stuckMark"
  /\ UNCHANGED <<jobVars, preview, placeVars, agentVars, bookVars, cancelVars,
                 swept, sweptCard, faults>>

\* (mutant) a stuck job is closed as an ordinary failure.
StuckMarkOther ==
  /\ sweep = "stuckMark"
  /\ SetStatus(swept, "failed")
  /\ SetReason(swept, "other")
  /\ jobCard' = [jobCard EXCEPT ![swept] = NoCard]
  /\ sweep' = "stuckReview"
  /\ UNCHANGED <<steps, preview, placeVars, card, agentVars, bookVars, cancelVars,
                 swept, sweptCard, faults>>

StuckMark ==
  /\ sweep = "stuckMark"
  /\ SetStatus(swept, "failed")
  /\ SetReason(swept, "uncertain")
  /\ jobCard' = [jobCard EXCEPT ![swept] = NoCard]
  /\ sweep' = "stuckReview"
  /\ UNCHANGED <<steps, preview, placeVars, card, agentVars, bookVars, cancelVars,
                 swept, sweptCard, faults>>

StuckReview ==
  /\ sweep = "stuckReview"
  /\ review' = review \cup {swept}
  /\ sweep' = "idle"
  /\ UNCHANGED <<jobVars, preview, placeVars, card, agentVars, ordered, credited,
                 cancelVars, swept, sweptCard, faults>>

\* (mutant) only failed jobs are looked at.
CardSelectFailed(j) ==
  /\ sweep = "idle"
  /\ status[j] = "failed"
  /\ jobCard[j] # NoCard
  /\ sweep' = "cardCancel"
  /\ swept' = j
  /\ sweptCard' = jobCard[j]
  /\ UNCHANGED <<jobVars, preview, placeVars, card, agentVars, bookVars,
                 cancelVars, faults>>

CardSelect(j) ==
  /\ sweep = "idle"
  /\ status[j] \in Closed
  /\ jobCard[j] # NoCard
  /\ sweep' = "cardCancel"
  /\ swept' = j
  /\ sweptCard' = jobCard[j]
  /\ UNCHANGED <<jobVars, preview, placeVars, card, agentVars, bookVars,
                 cancelVars, faults>>

CardCancel ==
  /\ sweep = "cardCancel"
  /\ CancelCard(sweptCard)
  /\ sweep' = "cardClear"
  /\ UNCHANGED <<jobVars, preview, placeVars, agentVars, bookVars, cancelVars,
                 swept, sweptCard, faults>>

CardClear ==
  /\ sweep = "cardClear"
  /\ jobCard' = [jobCard EXCEPT ![swept] = NoCard]
  /\ sweep' = "idle"
  /\ UNCHANGED <<status, reason, steps, preview, placeVars, card, agentVars,
                 bookVars, cancelVars, swept, sweptCard, faults>>

\* The catch of the loop logs the error; the next run selects again.
SweepDbError ==
  /\ sweep \in {"stuckMark", "stuckReview", "cardClear"}
  /\ faults < MaxFaults
  /\ faults' = faults + 1
  /\ sweep' = "idle"
  /\ UNCHANGED <<jobVars, preview, placeVars, card, agentVars, bookVars,
                 cancelVars, swept, sweptCard>>

-----------------------------------------------------------------------------
(* The API process dies and comes back; the agent service goes on.         *)
Restart ==
  /\ faults < MaxFaults
  /\ faults' = faults + 1
  /\ preview' = [j \in Jobs |->
                   IF preview[j] \in PreviewRunning THEN "dead" ELSE preview[j]]
  /\ place' = [p \in Places |->
                 IF place[p] \in PlaceRunning THEN "dead" ELSE place[p]]
  /\ cancel' = [c \in Cancels |-> IF cancel[c] = "write" THEN "dead" ELSE cancel[c]]
  /\ sweep' = "idle"
  /\ UNCHANGED <<jobVars, target, card, agentVars, bookVars, aim, swept, sweptCard>>

-----------------------------------------------------------------------------
PreviewStep(j) ==
  \/ PreviewCreate(j) \/ PreviewRefuse(j) \/ PreviewRun(j) \/ PreviewAnswer(j)
  \/ PreviewNoAnswer(j) \/ PreviewSaveFound(j) \/ PreviewSaveFailed(j)
  \/ PreviewStats(j) \/ PreviewHandle(j) \/ PreviewCatch(j) \/ PreviewDbError(j)

PlaceStep(p) ==
  \/ PlaceLook(p) \/ PlaceMint(p) \/ PlaceRollback(p) \/ PlaceExecute(p)
  \/ PlaceAnswer(p) \/ PlaceNoAnswer(p) \/ PlaceSteps(p) \/ PlaceOrder(p)
  \/ PlaceComplete(p) \/ PlaceFail(p) \/ PlaceHandle(p) \/ PlaceCloseCard(p)

AgentStep(p) == AgentBuy(p) \/ AgentEnd(p)

SweepStep == StuckCard \/ StuckMark \/ StuckReview \/ CardCancel \/ CardClear

Next ==
  \/ \E j \in Jobs : PreviewStep(j)
  \/ \E p \in Places, j \in Jobs : PlaceClaim(p, j)
  \/ \E p \in Places : PlaceStep(p) \/ PlaceDbError(p) \/ AgentStep(p)
  \/ \E c \in Cancels, j \in Jobs : CancelRead(c, j)
  \/ \E c \in Cancels : CancelWrite(c)
  \/ \E j \in Jobs : StuckSelect(j) \/ CardSelect(j)
  \/ SweepStep \/ SweepDbError
  \/ Restart

Spec == Init /\ [][Next]_vars

\* A handler that runs goes on, a run of the agent ends, and the cron runs every
\* five minutes and gets to every job it selects.
Fairness ==
  /\ \A j \in Jobs : WF_vars(StuckSelect(j)) /\ WF_vars(CardSelect(j))
  /\ \A p \in Places : WF_vars(PlaceStep(p)) /\ WF_vars(AgentEnd(p))
  /\ WF_vars(SweepStep)

FairSpec == Spec /\ Fairness

-----------------------------------------------------------------------------
(* Safety.                                                                 *)

\* A job is bought at most once, whatever retries, timeouts, failed mints and
\* cancellations happen (the claim of place, agent-orders.service.ts:184-195).
BoughtOnce ==
  \A p, q \in Places : bought[p] /\ bought[q] /\ target[p] = target[q] => p = q

\* The apology credit never goes to a job whose order went through, then or
\* later (_handleFailure, agent-orders.service.ts:390-413).
CreditedJobsBoughtNothing ==
  \A p \in Places : bought[p] => target[p] \notin credited

\* The jobs that a cancel call has written to: cancelJob ignores a claim made
\* after its read, so what follows for these jobs is another story (see README).
Aborted == {aim[c] : c \in {d \in Cancels : cancel[d] = "done"}}

\* Once its handler is over, an order that a retailer accepted has an orders
\* row, or its job is still 'placing' for the cron to find, or is marked
\* uncertain, unless a cancel call got in between (place and the cron).
PurchasesAreAccounted ==
  \A p \in Places : bought[p] /\ place[p] \notin PlaceRunning =>
    \/ ordered[p]
    \/ status[target[p]] = "placing"
    \/ reason[target[p]] = "uncertain"
    \/ target[p] \in Aborted

\* What S-10 says of the agent, and place before it creates the row: an order
\* that the agent reports as completed is recorded like an order of the API
\* (agent-orders.service.ts:274-276), unless the database fails.
CompletedAnswersAreOrdered ==
  [][\A p \in Places :
       place[p] = "steps" /\ place'[p] # "steps" /\ answer[p] = "completed" =>
         place'[p] = "order" \/ faults' # faults]_vars

(* Liveness.                                                               *)

\* Every accepted order ends up as an orders row or with a human, through
\* timeouts and answers that cannot be stored (place and the cron), unless a
\* cancel call gets in between or the API fails.
PurchasesAreFollowedUp ==
  \A p \in Places :
    bought[p] ~> \/ ordered[p] \/ target[p] \in review
                 \/ target[p] \in Aborted \/ faults > 0

\* A card that a job points to is cancelled, if Stripe does cancel cards
\* (the finally of place, and the cron).
KnownCardsAreCancelled ==
  \A p \in Places : (\E j \in Jobs : jobCard[j] = p) ~> card[p] = "cancelled"
=============================================================================
