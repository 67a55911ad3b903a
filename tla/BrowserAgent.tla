---------------------------- MODULE BrowserAgent ----------------------------
(***************************************************************************)
(* One POST /agent/execute of the Python agent (services/browser-agent):   *)
(* up to 1 + MaxRetries attempts, each in a browser session of its own,    *)
(* that walk from the retailer's home page to the confirming click.        *)
(* AgentJobs sees only the answer; the retailer sees the clicks.           *)
(*                                                                         *)
(* Pages, selectors and the two clocks are abstracted: a step of the walk  *)
(* may meet a captcha or raise, _check_timeout may find the attempt's time *)
(* over wherever it looks, and the wall clock may be over before any       *)
(* retry. Which product is found, and at what price, is a choice.          *)
(***************************************************************************)
EXTENDS Integers, Sequences, SequencesExt

CONSTANTS
    Modes,        \* the modes of a request: "preview", "place"
    MaxRetries,   \* config.MAX_RETRIES
    Buttons       \* the number of selectors _confirm_order tries

ASSUME BrowserAgentAssumption ==
    Modes \subseteq {"preview", "place"} /\ MaxRetries \in Nat /\ Buttons \in Nat

VARIABLES
    mode,       \* of the request
    round,      \* the attempt: of the loop in execute(), from 0
    at,         \* where the attempt is
    button,     \* the selector _confirm_order tries next
    confirmed,  \* the flag of the attempt
    session,    \* the browser session of the attempt
    stepNumbers,\* self._steps: their numbers, in the order they were appended
    counter,    \* self._step_counter
    verdict,    \* the answer of the attempt: status and failure_reason
    clicks,     \* the confirming clicks: attempt, selector, and did what followed raise?
    accepted,   \* the number of orders the retailer has accepted
    leaked      \* a session was left that the agent has no id of

agentVars == <<mode, round, at, button, confirmed, session, stepNumbers, counter,
               verdict, clicks, accepted, leaked>>

Nothing == [status |-> "none", reason |-> "none"]

\* Every step of the walk but the choice of a product and the confirmation, with the next one.
Walk == [navigate |-> "search", search |-> "select_product", add_to_cart |-> "enter_address",
         enter_address |-> "enter_payment", enter_payment |-> "confirm_order"]

\* The steps that _check_timeout precedes.
Timed == {"add_to_cart", "enter_address", "enter_payment", "confirm_order", "capture_confirmation"}

TransientReasonsCaptcha == {"timeout", "unknown", "captcha"}  \* a plausible bug: captchas are retried

TransientReasons == {"timeout", "unknown"}   \* config.TRANSIENT_FAILURE_REASONS

AgentInit ==
    /\ mode \in Modes
    /\ round = 0 /\ at = "open" /\ button = 1 /\ confirmed = FALSE
    /\ session = "none" /\ stepNumbers = <<>> /\ counter = 0
    /\ verdict = Nothing
    /\ clicks = <<>> /\ accepted = 0 /\ leaked = FALSE

-----------------------------------------------------------------------------
(* Leaving an attempt. Every return and every except block goes through    *)
(* the finally block, which is the place "close".                          *)

Leave(status, reason) ==
    /\ verdict' = [status |-> status, reason |-> reason]
    /\ at' = "close"

\* A plausible bug: the confirming click is not taken into account.
BlameReason(reason) == reason

\* The except blocks: what was raised, unless the click may have gone through.
Blame(reason) == IF confirmed THEN "post_confirmation_uncertain" ELSE reason

Raise(reason) == Leave("failed", Blame(reason))

\* _detect_out_of_stock finds a text or a button that says so; what it raises counts as no.
OutOfStock == Leave("failed", "out_of_stock")

\* _extract_checkout_price read a total, the product has a price, and the total is too far above it.
TotalTooHigh == Leave("failed", "price_mismatch")

\* _extract_confirmation: a number or none, both are an order.
Confirmed == Leave("completed", "none")

\* self._step_counter += 1 and the append of _step.
Step == /\ counter' = counter + 1
        /\ stepNumbers' = Append(stepNumbers, counter + 1)

\* A step that was begun meets a captcha: detect_captcha is appended under the next number,
\* and the counter stays.
Captcha ==
    /\ Leave("aborted", Blame("captcha"))
    /\ counter' = counter + 1
    /\ stepNumbers' = stepNumbers \o <<counter + 1, counter + 2>>

Unchanged(v) == UNCHANGED <<mode, clicks, accepted, leaked, v>>

-----------------------------------------------------------------------------
(* _execute_single_attempt                                                 *)

\* create_session and the connection; sessions.debug may raise after sessions.create.
OpenSession ==
    /\ at = "open"
    /\ \/ session' = "held" /\ at' = "navigate" /\ UNCHANGED <<verdict, leaked>>
       \/ session' \in {"none", "held"} /\ Raise("unknown") /\ UNCHANGED leaked
       \/ leaked' = TRUE /\ Raise("unknown") /\ UNCHANGED session
    /\ UNCHANGED <<mode, round, button, confirmed, stepNumbers, counter, clicks, accepted>>

WalkStep ==
    /\ at \in DOMAIN Walk
    /\ \/ at' = Walk[at] /\ Step /\ UNCHANGED verdict
       \/ Raise("unknown") /\ Step
       \/ Captcha
    /\ Unchanged(<<round, button, confirmed, session>>)

\* _check_timeout, before the step is begun.
Late ==
    /\ at \in Timed
    /\ Raise("timeout")
    /\ Unchanged(<<round, button, confirmed, session, stepNumbers, counter>>)

SelectProduct ==
    /\ at = "select_product"
    /\ Step
    /\ \/ OutOfStock
       \/ Leave("failed", "price_mismatch")   \* over the budget
       \/ Raise("unknown")
       \/ mode = "preview" /\ Leave("previewing", "none")
       \/ mode = "place" /\ at' = "add_to_cart" /\ UNCHANGED verdict
    /\ Unchanged(<<round, button, confirmed, session>>)

\* The price of the checkout page is compared if it and that of the product could be read.
VerifyPrice ==
    /\ at = "confirm_order"
    /\ Step
    /\ \/ TotalTooHigh
       \/ at' = "click" /\ UNCHANGED verdict
    /\ Unchanged(<<round, button, confirmed, session>>)

\* The click is dispatched, and may place the order or not.
Click(raised) ==
    /\ clicks' = Append(clicks, [round |-> round, button |-> button, raised |-> raised])
    /\ accepted' \in {accepted, accepted + 1}

\* A plausible bug: what raises after the click is not swallowed, and the flag not yet set.
TryButtonRaises ==
    /\ at = "click" /\ button <= Buttons
    /\ Click(TRUE)
    /\ Raise("unknown")
    /\ UNCHANGED <<mode, round, button, confirmed, session, stepNumbers, counter, leaked>>

\* _confirm_order tries its selectors in turn: one is not found; or it is clicked and whatever
\* raises after that (the page that does not load) is swallowed, and the next selector is tried,
\* which may be clicked as well; or it is clicked and the method returns. When no selector is
\* left it returns as if it had clicked.
TryButton ==
    /\ at = "click" /\ button <= Buttons
    /\ \/ button' = button + 1 /\ UNCHANGED <<at, confirmed, clicks, accepted>>
       \/ Click(TRUE) /\ button' = button + 1 /\ UNCHANGED <<at, confirmed>>
       \/ Click(FALSE) /\ at' = "confirmed" /\ confirmed' = TRUE /\ UNCHANGED button
    /\ UNCHANGED <<mode, round, session, stepNumbers, counter, verdict, leaked>>

NoButtonLeft ==
    /\ at = "click" /\ button > Buttons
    /\ at' = "confirmed" /\ confirmed' = TRUE
    /\ Unchanged(<<round, button, session, stepNumbers, counter, verdict>>)

\* The check of the page after the click; the step was begun by VerifyPrice.
AfterClick ==
    /\ at = "confirmed"
    /\ \/ at' = "capture_confirmation" /\ UNCHANGED <<verdict, stepNumbers>>
       \/ Raise("unknown") /\ UNCHANGED stepNumbers
       \/ /\ Leave("aborted", Blame("captcha"))
          /\ stepNumbers' = Append(stepNumbers, counter + 1)
    /\ Unchanged(<<round, button, confirmed, session, counter>>)

\* No confirmation number is needed for the answer 'completed'.
CaptureConfirmation ==
    /\ at = "capture_confirmation"
    /\ Step
    /\ Confirmed \/ Raise("unknown")
    /\ Unchanged(<<round, button, confirmed, session>>)

\* The finally block; close_session swallows the provider's error.
CloseSession ==
    /\ at = "close"
    /\ session' \in (IF session = "held" THEN {"closed", "left"} ELSE {session})
    /\ at' = "judge"
    /\ Unchanged(<<round, button, confirmed, stepNumbers, counter, verdict>>)

-----------------------------------------------------------------------------
(* execute(): the loop over the attempts                                   *)

\* Return the answer: it is final, the last attempt is over, or the wall clock is.
Finish ==
    /\ at = "judge"
    /\ at' = "end"
    /\ Unchanged(<<round, button, confirmed, session, stepNumbers, counter, verdict>>)

\* The back-off has a step of its own, and the next attempt starts from nothing.
Retry ==
    /\ at = "judge" /\ verdict.reason \in TransientReasons /\ round < MaxRetries
    /\ round' = round + 1
    /\ Step
    /\ at' = "open" /\ button' = 1 /\ confirmed' = FALSE /\ session' = "none" /\ verdict' = Nothing
    /\ UNCHANGED <<mode, clicks, accepted, leaked>>

AgentNext ==
    \/ OpenSession \/ WalkStep \/ Late \/ SelectProduct \/ VerifyPrice
    \/ TryButton \/ NoButtonLeft \/ AfterClick \/ CaptureConfirmation
    \/ CloseSession \/ Finish \/ Retry

AgentSpec == AgentInit /\ [][AgentNext]_agentVars

-----------------------------------------------------------------------------
AgentPlaces == DOMAIN Walk \cup Timed
          \cup {"open", "select_product", "click", "confirmed", "close", "judge", "end"}

AgentTypeOK ==
    /\ mode \in Modes /\ round \in 0..MaxRetries /\ at \in AgentPlaces
    /\ button \in 1..(Buttons + 1) /\ confirmed \in BOOLEAN
    /\ session \in {"none", "held", "closed", "left"}
    /\ counter \in Nat /\ stepNumbers \in Seq(1..(counter + 1))
    /\ verdict.status \in {"none", "completed", "previewing", "failed", "aborted"}
    /\ clicks \in Seq([round : 0..MaxRetries, button : 1..Buttons, raised : BOOLEAN])
    /\ accepted \in Nat /\ leaked \in BOOLEAN

(* The API stores the steps of an answer under one unique (job, number):   *)
(* whatever is raised, in whatever attempt, no number is used twice in one *)
(* answer, although the captcha step is numbered past the counter.         *)
StepNumbersAreUnique == IsInjective(stepNumbers)

(* "any failure past this point must never be classified as retryable"     *)
(* (browser_order_agent.py:140): once a click has been dispatched, by      *)
(* whichever selector and with whatever raised around it, no later attempt *)
(* clicks with the same card. Within the attempt a second selector may be  *)
(* clicked, but only when what followed the click before it raised, and no *)
(* selector is clicked twice: the retailer accepts no more orders than     *)
(* that.                                                                   *)
OneCheckoutPerRun ==
    /\ \A i \in DOMAIN clicks : clicks[i].round = round
    /\ \A i, j \in DOMAIN clicks : i < j =>
          clicks[i].raised /\ clicks[i].button < clicks[j].button
    /\ accepted <= Len(clicks)

(* The API refunds, credits and re-offers a job on any failure but         *)
(* 'post_confirmation_uncertain': an answer that denies the purchase is     *)
(* only given if the retailer has accepted nothing in any attempt.         *)
NoOrderBehindAFailure ==
    at = "end" /\ accepted > 0
        => verdict.status = "completed" \/ verdict.reason = "post_confirmation_uncertain"

(* The API can go by an answer: what a click may have bought is not        *)
(* denied, is not tried again by a later attempt, and in its own attempt   *)
(* only by another selector after a click that raised; and the steps can   *)
(* be stored (the loop of attempts, the except blocks and _confirm_order,  *)
(* browser_order_agent.py:78-132, 329-372, 501-519).                       *)
AnswersCanBeTrusted == OneCheckoutPerRun /\ NoOrderBehindAFailure /\ StepNumbersAreUnique
=============================================================================
