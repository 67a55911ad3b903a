--------------------------- MODULE ServicesProofs ---------------------------
(***************************************************************************)
(* Proofs about what the API asks of others: that it can go by an answer   *)
(* of the browser agent, that what it stores of an answer of the AI        *)
(* service fits the call, and that the searches for products give the best *)
(* of their hits, in time - for any number of retries, pages and hits.     *)
(***************************************************************************)
EXTENDS BrowserAgent, GiftBrain, ProductSearch, FiniteSetTheorems, TLAPS

-----------------------------------------------------------------------------
(* The browser agent (BrowserAgent).                                       *)

Over == {"close", "judge", "end"}

Shape ==
  /\ round \in Nat /\ button \in Nat /\ counter \in Nat /\ accepted \in Nat
  /\ confirmed \in BOOLEAN
  /\ stepNumbers \in Seq(Nat)

\* The flag is set behind the last button, and taken back by a retry only.
Confirming == confirmed => at \in {"confirmed", "capture_confirmation"} \cup Over

\* An attempt that has clicked is still at the buttons or has set its flag; at
\* the buttons every click so far has raised, at a selector before this one.
Clicking ==
  /\ clicks \in Seq([round : Nat, button : Nat, raised : BOOLEAN])
  /\ OneCheckoutPerRun
  /\ clicks # <<>> => at = "click" \/ confirmed
  /\ at = "click" => \A i \in DOMAIN clicks : clicks[i].raised /\ clicks[i].button < button

\* An attempt that has set its flag ends as an order or as an uncertain one.
Judging ==
  at \in Over /\ confirmed =>
    \/ verdict.status = "completed" /\ verdict.reason = "none"
    \/ verdict.reason = "post_confirmation_uncertain"

\* While steps may still be added, their numbers are up to the counter: the
\* captcha step, which is numbered past it, is the last one.
Numbering ==
  /\ IsInjective(stepNumbers)
  /\ at \notin Over \/ verdict.reason \in TransientReasons =>
       \A i \in DOMAIN stepNumbers : stepNumbers[i] <= counter

IInv == Shape /\ Confirming /\ Clicking /\ Judging /\ Numbering

-----------------------------------------------------------------------------
(* The numbers of the steps.                                               *)

LEMMA AppendAbove ==
  ASSUME NEW s \in Seq(Nat), NEW n \in Nat, IsInjective(s), \A i \in DOMAIN s : s[i] < n
  PROVE  /\ Append(s, n) \in Seq(Nat) /\ IsInjective(Append(s, n))
         /\ \A i \in DOMAIN Append(s, n) : Append(s, n)[i] <= n
<1>1. /\ Append(s, n) \in Seq(Nat) /\ Len(s) \in Nat
      /\ DOMAIN Append(s, n) = 1 .. Len(s) + 1 /\ DOMAIN s = 1 .. Len(s)
      /\ Append(s, n)[Len(s) + 1] = n
      /\ \A i \in 1 .. Len(s) : Append(s, n)[i] = s[i] /\ s[i] \in Nat
  OBVIOUS
<1>2. \A i \in DOMAIN Append(s, n) : Append(s, n)[i] <= n
  BY <1>1
<1>3. ASSUME NEW i \in DOMAIN Append(s, n), NEW j \in DOMAIN Append(s, n),
             Append(s, n)[i] = Append(s, n)[j]
      PROVE  i = j
  <2>1. CASE i \in 1 .. Len(s) /\ j \in 1 .. Len(s)
    BY <1>1, <1>3, <2>1 DEF IsInjective
  <2>2. CASE ~(i \in 1 .. Len(s) /\ j \in 1 .. Len(s))
    BY <1>1, <1>3, <2>2
  <2> QED
    BY <2>1, <2>2
<1> QED
  BY <1>1, <1>2, <1>3 DEF IsInjective

\* A step that an attempt appends while it runs.
LEMMA StepNumbers ==
  ASSUME Shape, Numbering, at \notin Over \/ verdict.reason \in TransientReasons, Step
  PROVE  /\ stepNumbers' \in Seq(Nat) /\ counter' \in Nat /\ IsInjective(stepNumbers')
         /\ \A i \in DOMAIN stepNumbers' : stepNumbers'[i] <= counter'
<1>1. \A i \in DOMAIN stepNumbers : stepNumbers[i] < counter + 1
  BY DEF Shape, Numbering
<1> QED
  BY <1>1, AppendAbove DEF Shape, Numbering, Step

LEMMA CaptchaNumbers ==
  ASSUME Shape, Numbering, at \notin Over, Captcha
  PROVE  stepNumbers' \in Seq(Nat) /\ counter' \in Nat /\ IsInjective(stepNumbers')
<1> DEFINE s == Append(stepNumbers, counter + 1)
<1>1. \A i \in DOMAIN stepNumbers : stepNumbers[i] < counter + 1
  BY DEF Shape, Numbering
<1>2. s \in Seq(Nat) /\ IsInjective(s) /\ \A i \in DOMAIN s : s[i] <= counter + 1
  BY <1>1, AppendAbove DEF Shape, Numbering
<1>3. stepNumbers' = Append(s, counter + 2)
  BY DEF Captcha, Shape
<1>4. \A i \in DOMAIN s : s[i] < counter + 2
  BY <1>2 DEF Shape
<1> HIDE DEF s
<1>5. Append(s, counter + 2) \in Seq(Nat) /\ IsInjective(Append(s, counter + 2))
  BY <1>2, <1>4, AppendAbove DEF Shape
<1>6. counter' \in Nat
  BY DEF Captcha, Shape
<1> QED
  BY <1>3, <1>5, <1>6

-----------------------------------------------------------------------------
(* The steps.                                                              *)

LEMMA Start == AgentInit => IInv
<1> SUFFICES ASSUME AgentInit PROVE IInv
  OBVIOUS
<1>1. stepNumbers \in Seq(Nat) /\ DOMAIN stepNumbers = {}
  BY DEF AgentInit
<1>2. Shape
  BY <1>1 DEF AgentInit, Shape
<1>3. Confirming /\ Judging
  BY DEF AgentInit, Confirming, Judging
<1>4. Clicking
  BY DEF AgentInit, Clicking, OneCheckoutPerRun
<1>5. Numbering
  BY <1>1 DEF Numbering, IsInjective
<1> QED
  BY <1>2, <1>3, <1>4, <1>5 DEF IInv

\* Before the buttons an attempt has not set its flag, nor clicked.
LEMMA Early ==
  ASSUME IInv, at \notin {"click", "confirmed", "capture_confirmation"} \cup Over
  PROVE  ~confirmed /\ clicks = <<>>
BY DEF IInv, Confirming, Clicking

\* An action before the buttons goes on, or ends the attempt.
LEMMA EarlyKeeps ==
  ASSUME IInv, at \notin {"click", "confirmed", "capture_confirmation"} \cup Over,
         UNCHANGED <<round, button, confirmed, clicks, accepted>>,
         stepNumbers' \in Seq(Nat), counter' \in Nat, IsInjective(stepNumbers'),
         \/ \A i \in DOMAIN stepNumbers' : stepNumbers'[i] <= counter'
         \/ at' \in Over /\ verdict'.reason \notin TransientReasons
  PROVE  IInv'
BY Early DEF IInv, Shape, Confirming, Clicking, OneCheckoutPerRun, Judging, Numbering

LEMMA WalkKeeps ==
  ASSUME IInv, OpenSession \/ WalkStep \/ SelectProduct \/ VerifyPrice PROVE IInv'
<1>1. CASE OpenSession
  BY <1>1, EarlyKeeps DEF OpenSession, Raise, Leave, IInv, Shape, Numbering, Over
<1>2. CASE WalkStep
  <2>1. at \notin {"click", "confirmed", "capture_confirmation"} \cup Over /\ at \notin Over
    BY <1>2 DEF WalkStep, Walk, Over
  <2>2. UNCHANGED <<round, button, confirmed, clicks, accepted>>
    BY <1>2 DEF WalkStep, Unchanged
  <2>3. CASE Captcha
    <3>1. at' \in Over /\ verdict'.reason \notin TransientReasons
      BY <2>1, <2>3, Early DEF Captcha, Leave, Blame, TransientReasons, Over
    <3> QED
      BY <2>1, <2>2, <2>3, <3>1, CaptchaNumbers, EarlyKeeps DEF IInv
  <2>4. CASE Step
    BY <2>1, <2>2, <2>4, StepNumbers, EarlyKeeps DEF IInv
  <2>5. Captcha \/ Step
    BY <1>2 DEF WalkStep, Walk, Raise, Leave
  <2> QED
    BY <2>3, <2>4, <2>5
<1>3. CASE SelectProduct \/ VerifyPrice
  <2>1. /\ at \notin {"click", "confirmed", "capture_confirmation"} \cup Over /\ at \notin Over
        /\ Step /\ UNCHANGED <<round, button, confirmed, clicks, accepted>>
    BY <1>3 DEF SelectProduct, VerifyPrice, Unchanged, Over
  <2> QED
    BY <2>1, StepNumbers, EarlyKeeps DEF IInv
<1> QED
  BY <1>1, <1>2, <1>3

\* What a click adds to the clicks.
LEMMA ClickAdds ==
  ASSUME IInv, NEW raised \in BOOLEAN, at = "click", Click(raised), UNCHANGED round
  PROVE  /\ clicks' \in Seq([round : Nat, button : Nat, raised : BOOLEAN])
         /\ DOMAIN clicks' = 1 .. Len(clicks) + 1 /\ DOMAIN clicks = 1 .. Len(clicks)
         /\ clicks'[Len(clicks) + 1].raised = raised /\ clicks'[Len(clicks) + 1].button = button
         /\ \A i \in 1 .. Len(clicks) : clicks'[i] = clicks[i]
         /\ accepted' \in Nat /\ OneCheckoutPerRun'
<1> DEFINE click == [round |-> round, button |-> button, raised |-> raised]
           Clicked == [round : Nat, button : Nat, raised : BOOLEAN]
<1>1. /\ click \in Clicked /\ click.round = round /\ click.button = button /\ click.raised = raised
  BY DEF IInv, Shape
<1>2. clicks' = Append(clicks, click) /\ accepted' \in {accepted, accepted + 1}
  BY DEF Click
<1>3. clicks \in Seq(Clicked)
  BY DEF IInv, Clicking
<1> HIDE DEF click, Clicked
<1>4. /\ clicks' \in Seq(Clicked) /\ Len(clicks) \in Nat /\ Len(clicks') = Len(clicks) + 1
      /\ DOMAIN clicks' = 1 .. Len(clicks) + 1 /\ DOMAIN clicks = 1 .. Len(clicks)
      /\ clicks'[Len(clicks) + 1] = click
      /\ \A i \in 1 .. Len(clicks) : clicks'[i] = clicks[i]
  BY <1>1, <1>2, <1>3
<1>5. \A i \in DOMAIN clicks : clicks[i].round = round /\ clicks[i].raised /\ clicks[i].button < button
  BY DEF IInv, Clicking, OneCheckoutPerRun
<1>6. accepted' \in Nat /\ accepted' <= Len(clicks')
  BY <1>2, <1>4 DEF IInv, Shape, Clicking, OneCheckoutPerRun
<1>7. \A i \in DOMAIN clicks' : clicks'[i].round = round'
  BY <1>1, <1>4, <1>5
<1>8. ASSUME NEW i \in DOMAIN clicks', NEW j \in DOMAIN clicks', i < j
      PROVE  clicks'[i].raised /\ clicks'[i].button < clicks'[j].button
  <2>1. i \in 1 .. Len(clicks) /\ clicks'[i] = clicks[i]
    BY <1>4, <1>8
  <2>2. CASE j \in 1 .. Len(clicks)
    BY <1>4, <1>8, <2>1, <2>2 DEF IInv, Clicking, OneCheckoutPerRun
  <2>3. CASE j = Len(clicks) + 1
    BY <1>1, <1>4, <1>5, <2>1, <2>3
  <2> QED
    BY <1>4, <2>2, <2>3
<1> QED
  BY <1>1, <1>4, <1>6, <1>7, <1>8 DEF OneCheckoutPerRun, Clicked

LEMMA ClickedButtons ==
  ASSUME IInv, at = "click", NEW i \in DOMAIN clicks
  PROVE  clicks[i].raised /\ clicks[i].button < button /\ clicks[i].button \in Nat
<1> DEFINE Clicked == [round : Nat, button : Nat, raised : BOOLEAN]
<1>1. clicks \in Seq(Clicked)
  BY DEF IInv, Clicking
<1>2. clicks[i].button \in Nat
  <2>1. \A C : clicks \in Seq(C) => clicks[i] \in C
    OBVIOUS
  <2>2. clicks[i] \in Clicked
    BY <1>1, <2>1
  <2> QED
    BY <2>2
<1> QED
  BY <1>2 DEF IInv, Clicking

LEMMA ClickKeeps == ASSUME IInv, TryButton \/ NoButtonLeft PROVE IInv'
<1>1. at = "click" /\ ~confirmed /\ at \notin Over /\ button \in Nat
  BY DEF TryButton, NoButtonLeft, IInv, Shape, Confirming, Over
<1>2. UNCHANGED <<round, stepNumbers, counter, verdict>>
  BY DEF TryButton, NoButtonLeft, Unchanged
<1>3. ASSUME UNCHANGED <<clicks, accepted>>,
             \/ at' = at /\ confirmed' = confirmed /\ button' = button + 1
             \/ at' = "confirmed" /\ confirmed' = TRUE /\ button' = button
      PROVE  IInv'
  <2>1. Shape' /\ Confirming' /\ Judging' /\ Numbering'
    <3>1. confirmed' \in BOOLEAN
      BY <1>3, Zenon DEF IInv, Shape
    <3>2. at' \in {"click", "confirmed"} /\ at' \notin Over
      BY <1>1, <1>3 DEF Over
    <3> QED
      BY <1>1, <1>2, <1>3, <3>1, <3>2 DEF IInv, Shape, Confirming, Judging, Numbering
  <2>2. Clicking'
    <3>1. OneCheckoutPerRun'
      BY <1>2, <1>3 DEF IInv, Clicking, OneCheckoutPerRun
    <3>2. clicks' # <<>> => at' = "click" \/ confirmed'
      BY <1>1, <1>3
    <3>3. ASSUME at' = "click", NEW i \in DOMAIN clicks
          PROVE  clicks[i].raised /\ clicks[i].button < button'
      <4>1. /\ clicks[i].raised /\ clicks[i].button < button /\ clicks[i].button \in Nat
            /\ button' = button + 1
        BY <1>1, <1>3, <3>3, ClickedButtons
      <4> QED
        BY <1>1, <4>1
    <3> QED
      BY <1>3, <3>1, <3>2, <3>3 DEF IInv, Clicking
  <2> QED
    BY <2>1, <2>2 DEF IInv
<1>4. CASE TryButton /\ Click(TRUE) /\ button' = button + 1 /\ UNCHANGED <<at, confirmed>>
  <2>1. /\ clicks' \in Seq([round : Nat, button : Nat, raised : BOOLEAN])
        /\ DOMAIN clicks' = 1 .. Len(clicks) + 1 /\ DOMAIN clicks = 1 .. Len(clicks)
        /\ clicks'[Len(clicks) + 1].raised = TRUE /\ clicks'[Len(clicks) + 1].button = button
        /\ \A i \in 1 .. Len(clicks) : clicks'[i] = clicks[i]
        /\ accepted' \in Nat /\ OneCheckoutPerRun'
    BY <1>1, <1>2, <1>4, ClickAdds
  <2>2. Shape' /\ Confirming' /\ Judging' /\ Numbering'
    BY <1>1, <1>2, <1>4, <2>1 DEF IInv, Shape, Confirming, Judging, Numbering
  <2>3. ASSUME NEW i \in DOMAIN clicks' PROVE clicks'[i].raised /\ clicks'[i].button < button'
    <3>1. CASE i \in 1 .. Len(clicks)
      <4>1. clicks[i].raised /\ clicks[i].button < button /\ clicks[i].button \in Nat
        BY <1>1, <2>1, <3>1, ClickedButtons
      <4> QED
        BY <1>1, <1>4, <2>1, <3>1, <4>1
    <3>2. CASE i = Len(clicks) + 1
      BY <1>1, <1>4, <2>1, <3>2
    <3>3. Len(clicks) \in Nat
      BY DEF IInv, Clicking
    <3> QED
      BY <2>1, <3>1, <3>2, <3>3
  <2>4. Clicking'
    BY <1>1, <1>4, <2>1, <2>3 DEF Clicking
  <2> QED
    BY <2>2, <2>4 DEF IInv
<1>5. CASE TryButton /\ Click(FALSE) /\ at' = "confirmed" /\ confirmed' = TRUE /\ UNCHANGED button
  <2>1. /\ clicks' \in Seq([round : Nat, button : Nat, raised : BOOLEAN])
        /\ accepted' \in Nat /\ OneCheckoutPerRun'
    BY <1>1, <1>2, <1>5, ClickAdds
  <2>2. confirmed' \in BOOLEAN /\ at' \notin Over
    BY <1>5, Zenon DEF Over
  <2>3. Shape' /\ Confirming' /\ Judging' /\ Numbering'
    BY <1>1, <1>2, <1>5, <2>1, <2>2 DEF IInv, Shape, Confirming, Judging, Numbering
  <2>4. Clicking'
    BY <1>5, <2>1 DEF Clicking
  <2> QED
    BY <2>3, <2>4 DEF IInv
<1>6. CASE NoButtonLeft
  <2>1. UNCHANGED <<clicks, accepted>> /\ at' = "confirmed" /\ confirmed' = TRUE /\ button' = button
    BY <1>6 DEF NoButtonLeft, Unchanged
  <2> QED
    BY <1>3, <2>1
<1>7. CASE TryButton /\ button' = button + 1 /\ UNCHANGED <<at, confirmed, clicks, accepted>>
  BY <1>3, <1>7
<1> QED
  BY <1>4, <1>5, <1>6, <1>7 DEF TryButton

\* Behind the buttons the flag is set, and every answer is an order or uncertain.
LEMMA BehindKeeps == ASSUME IInv, AfterClick \/ CaptureConfirmation PROVE IInv'
<1>1. UNCHANGED <<round, button, confirmed, clicks, accepted>> /\ at \notin Over
  BY DEF AfterClick, CaptureConfirmation, Unchanged, Over
<1>2. confirmed = TRUE => Blame("unknown") = "post_confirmation_uncertain"
                          /\ Blame("captcha") = "post_confirmation_uncertain"
  BY DEF Blame
<1>3. ASSUME ~confirmed, Blame("captcha") \in TransientReasons PROVE FALSE
  BY <1>3 DEF Blame, TransientReasons
<1>4. CASE CaptureConfirmation
  <2>1. Step /\ at' \in Over
    BY <1>4 DEF CaptureConfirmation, Confirmed, Raise, Leave, Over
  <2>2. /\ stepNumbers' \in Seq(Nat) /\ counter' \in Nat /\ IsInjective(stepNumbers')
        /\ \A i \in DOMAIN stepNumbers' : stepNumbers'[i] <= counter'
    BY <1>1, <2>1, StepNumbers DEF IInv
  <2>3. Judging'
    BY <1>1, <1>2, <1>4 DEF CaptureConfirmation, Confirmed, Raise, Leave, Judging, IInv, Shape
  <2>4. Clicking' /\ Confirming'
    BY <1>1, <1>4, <2>1 DEF CaptureConfirmation, IInv, Clicking, OneCheckoutPerRun, Confirming, Over
  <2> QED
    BY <1>1, <2>2, <2>3, <2>4 DEF IInv, Shape, Numbering
<1>5. CASE AfterClick
  <2>1. at = "confirmed" /\ counter' = counter /\ at' \in {"capture_confirmation"} \cup Over
    BY <1>5 DEF AfterClick, Unchanged, Raise, Leave, Over
  <2>2. Clicking' /\ Confirming'
    BY <1>1, <2>1 DEF IInv, Clicking, OneCheckoutPerRun, Confirming, Over
  <2>3. Judging'
    BY <1>1, <1>2, <1>5 DEF AfterClick, Raise, Leave, Judging, IInv, Shape, Over
  <2>4. CASE stepNumbers' = stepNumbers
    BY <1>1, <2>1, <2>2, <2>3, <2>4 DEF IInv, Shape, Numbering
  <2>5. CASE Leave("aborted", Blame("captcha")) /\ stepNumbers' = Append(stepNumbers, counter + 1)
    <3>1. \A i \in DOMAIN stepNumbers : stepNumbers[i] < counter + 1
      BY <1>1 DEF IInv, Shape, Numbering
    <3>2. stepNumbers' \in Seq(Nat) /\ IsInjective(stepNumbers')
      BY <2>5, <3>1, AppendAbove DEF IInv, Shape, Numbering
    <3>3. at' \in Over /\ verdict'.reason \notin TransientReasons
      BY <1>2, <1>3, <2>5 DEF Leave, Over, TransientReasons, IInv, Shape
    <3> QED
      BY <1>1, <2>1, <2>2, <2>3, <3>2, <3>3 DEF IInv, Shape, Numbering
  <2> QED
    BY <1>5, <2>4, <2>5 DEF AfterClick
<1> QED
  BY <1>4, <1>5

\* Time may be over before the buttons, or behind them.
LEMMA LateKeeps == ASSUME IInv, Late PROVE IInv'
<1>1. /\ UNCHANGED <<round, button, confirmed, clicks, accepted, stepNumbers, counter>>
      /\ at \in Timed /\ at \notin Over /\ at # "click" /\ at' \in Over
      /\ verdict' = [status |-> "failed", reason |-> Blame("timeout")]
  BY DEF Late, Unchanged, Raise, Leave, Timed, Over
<1>2. Judging'
  BY <1>1 DEF Judging, Blame, IInv, Shape
<1>3. Clicking' /\ Confirming'
  BY <1>1 DEF IInv, Clicking, OneCheckoutPerRun, Confirming, Over
<1> QED
  BY <1>1, <1>2, <1>3 DEF IInv, Shape, Numbering

\* Only an attempt that has clicked nothing is repeated.
LEMMA LoopKeeps == ASSUME IInv, CloseSession \/ Finish \/ Retry PROVE IInv'
<1>1. CASE CloseSession \/ Finish
  <2>1. /\ UNCHANGED <<round, button, confirmed, clicks, accepted, stepNumbers, counter, verdict>>
        /\ at \in Over /\ at' \in Over /\ at # "click"
    BY <1>1 DEF CloseSession, Finish, Unchanged, Over
  <2> QED
    BY <2>1 DEF IInv, Shape, Confirming, Clicking, OneCheckoutPerRun, Judging, Numbering, Over
<1>2. CASE Retry
  <2>1. /\ at \in Over /\ at # "click" /\ verdict.reason \in TransientReasons /\ Step
        /\ round' = round + 1 /\ at' = "open" /\ confirmed' = FALSE /\ button' = 1
        /\ UNCHANGED <<clicks, accepted>>
    BY <1>2 DEF Retry, Over
  <2>2. ~confirmed
    BY <2>1 DEF IInv, Judging, TransientReasons
  <2>3. clicks = <<>>
    BY <2>1, <2>2 DEF IInv, Clicking
  <2>4. /\ stepNumbers' \in Seq(Nat) /\ counter' \in Nat /\ IsInjective(stepNumbers')
        /\ \A i \in DOMAIN stepNumbers' : stepNumbers'[i] <= counter'
    BY <2>1, StepNumbers DEF IInv
  <2>5. Shape'
    <3>1. confirmed' \in BOOLEAN
      BY <2>1, Zenon
    <3>2. round' \in Nat /\ button' \in Nat /\ accepted' \in Nat
      BY <2>1 DEF IInv, Shape
    <3> QED
      BY <2>4, <3>1, <3>2 DEF Shape
  <2>6. Confirming' /\ Judging'
    BY <2>1 DEF Confirming, Judging
  <2>7. Clicking' /\ Numbering'
    BY <2>1, <2>3, <2>4 DEF IInv, Clicking, OneCheckoutPerRun, Numbering
  <2> QED
    BY <2>5, <2>6, <2>7 DEF IInv
<1> QED
  BY <1>1, <1>2

LEMMA StepKeeps == ASSUME IInv, [AgentNext]_agentVars PROVE IInv'
<1>1. CASE AgentNext
  BY <1>1, WalkKeeps, ClickKeeps, BehindKeeps, LateKeeps, LoopKeeps DEF AgentNext
<1>2. CASE UNCHANGED agentVars
  BY <1>2 DEF agentVars, IInv, Shape, Confirming, Clicking, OneCheckoutPerRun, Judging, Numbering
<1> QED
  BY <1>1, <1>2

-----------------------------------------------------------------------------

\* For any number of retries and buttons: the answer does not deny what a click
\* may have bought; one attempt at most clicks, and clicks another button only
\* when what followed the click before raised; no more orders are accepted than
\* clicks were made; and no step number comes twice (the loop of attempts, the
\* except blocks and _confirm_order, browser_order_agent.py:78-132, 329-372,
\* 501-519).
THEOREM AnswersAreTrue == AgentSpec => []AnswersCanBeTrusted
<1>1. AgentSpec => []IInv
  BY Start, StepKeeps, PTL DEF AgentSpec
<1>2. ASSUME IInv PROVE AnswersCanBeTrusted
  <2>1. OneCheckoutPerRun /\ StepNumbersAreUnique
    BY <1>2 DEF IInv, Clicking, Numbering, StepNumbersAreUnique
  <2>2. NoOrderBehindAFailure
    <3>1. ASSUME at = "end", accepted > 0 PROVE confirmed
      <4>1. Len(clicks) \in Nat /\ accepted <= Len(clicks) /\ accepted \in Nat
        BY <1>2 DEF IInv, Shape, Clicking, OneCheckoutPerRun
      <4>2. clicks # <<>>
        BY <3>1, <4>1
      <4> QED
        BY <1>2, <3>1, <4>2 DEF IInv, Clicking
    <3> QED
      BY <1>2, <3>1 DEF IInv, Judging, NoOrderBehindAFailure, Over
  <2> QED
    BY <2>1, <2>2 DEF AnswersCanBeTrusted
<1> QED
  BY <1>1, <1>2, PTL

-----------------------------------------------------------------------------
(* Lists in order (Ranks).                                                 *)

\* R puts any two members of S in an order.
Orders(S, R) ==
  /\ \A a \in S : <<a, a>> \notin R
  /\ \A a, b \in S : a # b => <<a, b>> \in R \/ <<b, a>> \in R
  /\ \A a, b, c \in S : <<a, b>> \in R /\ <<b, c>> \in R => <<a, c>> \in R

UpTo(S, R, a) == {b \in S : b = a \/ <<b, a>> \in R}

LEMMA PlacesAreOrdered ==
  ASSUME NEW S, IsFiniteSet(S), NEW R, Orders(S, R)
  PROVE  /\ \A a \in S : Cardinality(UpTo(S, R, a)) \in 1 .. Cardinality(S)
         /\ \A a, b \in S : <<a, b>> \in R => Cardinality(UpTo(S, R, a)) < Cardinality(UpTo(S, R, b))
<1>1. Cardinality(S) \in Nat
  BY FS_CardinalityType
<1>2. \A a \in S : /\ IsFiniteSet(UpTo(S, R, a)) /\ Cardinality(UpTo(S, R, a)) \in Nat
                   /\ Cardinality(UpTo(S, R, a)) <= Cardinality(S) /\ Cardinality(UpTo(S, R, a)) # 0
  <2> SUFFICES ASSUME NEW a \in S
               PROVE  /\ IsFiniteSet(UpTo(S, R, a)) /\ Cardinality(UpTo(S, R, a)) \in Nat
                      /\ Cardinality(UpTo(S, R, a)) <= Cardinality(S) /\ Cardinality(UpTo(S, R, a)) # 0
    OBVIOUS
  <2>1. UpTo(S, R, a) \in SUBSET S /\ a \in UpTo(S, R, a)
    BY DEF UpTo
  <2>2. IsFiniteSet(UpTo(S, R, a)) /\ Cardinality(UpTo(S, R, a)) <= Cardinality(S)
    BY <2>1, FS_Subset
  <2> QED
    BY <2>1, <2>2, FS_CardinalityType, FS_EmptySet
<1>3. ASSUME NEW a \in S, NEW b \in S, <<a, b>> \in R
      PROVE  Cardinality(UpTo(S, R, a)) < Cardinality(UpTo(S, R, b))
  <2>1. UpTo(S, R, a) \in SUBSET UpTo(S, R, b)
    BY <1>3 DEF UpTo, Orders
  <2>2. b \in UpTo(S, R, b) /\ b \notin UpTo(S, R, a)
    BY <1>3 DEF UpTo, Orders
  <2>3. Cardinality(UpTo(S, R, a)) <= Cardinality(UpTo(S, R, b))
        /\ Cardinality(UpTo(S, R, a)) # Cardinality(UpTo(S, R, b))
    BY <1>2, <2>1, <2>2, FS_Subset
  <2> QED
    BY <1>2, <2>3
<1> QED
  BY <1>1, <1>2, <1>3

\* InOrder lists every member of S once, and in the order R.
LEMMA InOrderIsAList ==
  ASSUME NEW S, IsFiniteSet(S), NEW R, Orders(S, R)
  PROVE  /\ Cardinality(S) \in Nat
         /\ InOrder(S, R) \in [1 .. Cardinality(S) -> S]
         /\ \A a \in S : \E n \in 1 .. Cardinality(S) : InOrder(S, R)[n] = a
         /\ \A n, m \in 1 .. Cardinality(S) : n < m => <<InOrder(S, R)[n], InOrder(S, R)[m]>> \in R
         /\ \A n, m \in 1 .. Cardinality(S) : InOrder(S, R)[n] = InOrder(S, R)[m] => n = m
<1> DEFINE N == Cardinality(S)
           place == [a \in S |-> Cardinality(UpTo(S, R, a))]
           f == InOrder(S, R)
<1>1. N \in Nat /\ IsFiniteSet(1 .. N) /\ Cardinality(1 .. N) = N
  BY FS_CardinalityType, FS_Interval
<1>2. place \in [S -> 1 .. N] /\ \A a, b \in S : <<a, b>> \in R => place[a] < place[b]
  BY PlacesAreOrdered
<1>3. \A a, b \in S : place[a] = place[b] => a = b
  <2> SUFFICES ASSUME NEW a \in S, NEW b \in S, a # b
               PROVE  place[a] # place[b]
    OBVIOUS
  <2> HIDE DEF place
  <2>1. place[a] \in Nat /\ place[b] \in Nat
    BY <1>1, <1>2
  <2>2. place[a] < place[b] \/ place[b] < place[a]
    BY <1>2 DEF Orders
  <2> QED
    BY <2>1, <2>2
<1> HIDE DEF place
<1>4. place \in Injection(S, 1 .. N)
  BY <1>2, <1>3 DEF Injection, IsInjective
<1>5. place \in Surjection(S, 1 .. N)
  BY <1>1, <1>4, FS_Injection
<1>6. \A n \in 1 .. N : \E a \in S : place[a] = n
  BY <1>5 DEF Surjection
<1>7. f = [n \in 1 .. N |-> CHOOSE a \in S : Cardinality(UpTo(S, R, a)) = n]
  BY DEF InOrder, UpTo
<1>8. \A n \in 1 .. N : f[n] \in S /\ place[f[n]] = n
  <2> SUFFICES ASSUME NEW n \in 1 .. N
               PROVE  f[n] \in S /\ place[f[n]] = n
    OBVIOUS
  <2>1. PICK a \in S : place[a] = n
    BY <1>6
  <2>2. Cardinality(UpTo(S, R, a)) = n
    BY <2>1 DEF place
  <2>3. f[n] = CHOOSE q \in S : Cardinality(UpTo(S, R, q)) = n
    BY <1>7
  <2> HIDE DEF f
  <2>4. f[n] \in S /\ Cardinality(UpTo(S, R, f[n])) = n
    BY <2>2, <2>3
  <2> QED
    BY <2>4 DEF place
<1>9. f \in [1 .. N -> S]
  BY <1>7, <1>8
<1> HIDE DEF N, place, f
<1>10. \A a \in S : \E n \in 1 .. N : f[n] = a
  BY <1>2, <1>3, <1>8
<1>11. \A n, m \in 1 .. N : n < m => <<f[n], f[m]>> \in R
  <2> SUFFICES ASSUME NEW n \in 1 .. N, NEW m \in 1 .. N, n < m
               PROVE  <<f[n], f[m]>> \in R
    OBVIOUS
  <2>1. f[n] # f[m] /\ ~(place[f[m]] < place[f[n]])
    BY <1>1, <1>8
  <2> QED
    BY <1>2, <1>8, <2>1 DEF Orders
<1>12. \A n, m \in 1 .. N : f[n] = f[m] => n = m
  BY <1>8
<1> QED
  BY <1>1, <1>9, <1>10, <1>11, <1>12 DEF N, f

LEMMA PlacesAreFinite ==
  ASSUME NEW X, NEW list \in Seq(X), NEW S \in SUBSET DOMAIN list
  PROVE  IsFiniteSet(S) /\ S \subseteq Nat
<1>1. DOMAIN list = 1 .. Len(list) /\ Len(list) \in Nat
  OBVIOUS
<1>2. IsFiniteSet(1 .. Len(list))
  BY <1>1, FS_Interval
<1> QED
  BY <1>1, <1>2, FS_Subset

\* What is picked of a list, in an order of its places.
LEMMA PickedIsAList ==
  ASSUME NEW X, NEW list \in Seq(X), NEW S \in SUBSET DOMAIN list, NEW R, Orders(S, R)
  PROVE  /\ Picked(list, S, R) \in Seq(X)
         /\ Cardinality(S) \in Nat /\ Len(Picked(list, S, R)) = Cardinality(S)
         /\ DOMAIN Picked(list, S, R) = 1 .. Cardinality(S)
         /\ InOrder(S, R) \in [1 .. Cardinality(S) -> S]
         /\ \A n \in 1 .. Cardinality(S) : Picked(list, S, R)[n] = list[InOrder(S, R)[n]]
         /\ \A n, m \in 1 .. Cardinality(S) : n < m => <<InOrder(S, R)[n], InOrder(S, R)[m]>> \in R
         /\ \A n, m \in 1 .. Cardinality(S) : InOrder(S, R)[n] = InOrder(S, R)[m] => n = m
         /\ \A k \in S : \E n \in 1 .. Cardinality(S) : Picked(list, S, R)[n] = list[k]
<1> DEFINE N == Cardinality(S)
           f == InOrder(S, R)
<1>1. /\ N \in Nat /\ f \in [1 .. N -> S] /\ \A a \in S : \E n \in 1 .. N : f[n] = a
      /\ \A n, m \in 1 .. N : n < m => <<f[n], f[m]>> \in R
      /\ \A n, m \in 1 .. N : f[n] = f[m] => n = m
  BY PlacesAreFinite, InOrderIsAList
<1>2. Picked(list, S, R) = [n \in 1 .. N |-> list[f[n]]]
  BY DEF Picked
<1> HIDE DEF N, f
<1>3. \A n \in 1 .. N : list[f[n]] \in X
  BY <1>1
<1>4. Picked(list, S, R) \in Seq(X) /\ Len(Picked(list, S, R)) = N /\ DOMAIN Picked(list, S, R) = 1 .. N
  BY <1>1, <1>2, <1>3
<1>5. \A k \in S : \E n \in 1 .. N : Picked(list, S, R)[n] = list[k]
  BY <1>1, <1>2
<1> QED
  BY <1>1, <1>2, <1>4, <1>5 DEF N, f

LEMMA EarlierOrders ==
  ASSUME NEW S \in SUBSET Nat
  PROVE  Orders(S, Earlier(S))
BY DEF Orders, Earlier

LEMMA UpToCounts ==
  ASSUME NEW n \in Nat
  PROVE  IsFiniteSet(1 .. n) /\ Cardinality(1 .. n) = n
BY FS_Interval

\* The first of some places.
LEMMA SmallestExists ==
  ASSUME NEW n \in Nat, NEW S \in SUBSET (1 .. n), S # {}
  PROVE  \E i \in S : \A j \in S : i <= j
<1>1. IsFiniteSet(S) /\ S \subseteq Nat
  <2>1. IsFiniteSet(1 .. n)
    BY FS_Interval
  <2>2. IsFiniteSet(S)
    BY <2>1, FS_Subset
  <2> QED
    BY <2>2
<1>2. /\ Cardinality(S) \in Nat /\ InOrder(S, Earlier(S)) \in [1 .. Cardinality(S) -> S]
      /\ \A a \in S : \E k \in 1 .. Cardinality(S) : InOrder(S, Earlier(S))[k] = a
      /\ \A k, m \in 1 .. Cardinality(S) :
           k < m => <<InOrder(S, Earlier(S))[k], InOrder(S, Earlier(S))[m]>> \in Earlier(S)
  BY <1>1, EarlierOrders, InOrderIsAList
<1> DEFINE f == InOrder(S, Earlier(S))
           N == Cardinality(S)
<1> HIDE DEF f, N
<1>3. N \in Nat /\ f \in [1 .. N -> S] /\ \A a \in S : \E k \in 1 .. N : f[k] = a
  BY <1>2 DEF f, N
<1>4. \A k, m \in 1 .. N : k < m => f[k] < f[m]
  <2>1. \A k, m \in 1 .. N : k < m => <<f[k], f[m]>> \in Earlier(S)
    BY <1>2 DEF f, N
  <2> QED
    BY <2>1 DEF Earlier
<1>5. 1 \in 1 .. N
  <2>1. PICK a \in S, k \in 1 .. N : f[k] = a
    BY <1>3
  <2> QED
    BY <1>3, <2>1
<1>6. f[1] \in S
  BY <1>3, <1>5
<1>7. \A j \in S : f[1] <= j
  <2> SUFFICES ASSUME NEW j \in S
               PROVE  f[1] <= j
    OBVIOUS
  <2>1. PICK k \in 1 .. N : f[k] = j
    BY <1>3
  <2>2. k = 1 \/ 1 < k
    BY <1>3
  <2>3. f[1] \in Nat /\ j \in Nat
    BY <1>1, <1>6
  <2> QED
    BY <1>4, <1>5, <2>1, <2>2, <2>3
<1> QED
  BY <1>6, <1>7

-----------------------------------------------------------------------------
(* The AI service and its callers (GiftBrain).                             *)

LEMMA ScoresAreNumbers ==
  ASSUME NEW i \in Items, NEW bold \in BOOLEAN
  PROVE  Score(i, bold) \in Nat
<1>1. i.delight \in 0 .. 10 /\ i.novelty \in 0 .. 10
  BY Zenon, GiftBrainAssumption DEF GiftBrainAssumption
<1>2. i.delight \in Nat /\ i.novelty \in Nat
  BY <1>1
<1>3. Score(i, bold) = IF bold THEN 3 * i.delight + 7 * i.novelty ELSE 6 * i.delight + 4 * i.novelty
  BY DEF Score
<1> HIDE DEF Score
<1> QED
  BY <1>2, <1>3

LEMMA AheadOrders ==
  ASSUME NEW items \in Seq(Items), NEW bold \in BOOLEAN, NEW left \in SUBSET DOMAIN items
  PROVE  Orders(left, Ahead(items, bold, left))
<1> DEFINE value(k) == Score(items[k], bold)
<1>1. \A k \in left : value(k) \in Nat /\ k \in Nat
  <2> SUFFICES ASSUME NEW k \in left
               PROVE  value(k) \in Nat /\ k \in Nat
    OBVIOUS
  <2>1. items[k] \in Items /\ k \in Nat
    OBVIOUS
  <2> QED
    BY <2>1, ScoresAreNumbers
<1>2. Ahead(items, bold, left) =
        {p \in left \X left : value(p[1]) > value(p[2]) \/ (value(p[1]) = value(p[2]) /\ p[1] < p[2])}
  BY DEF Ahead
<1>3. \A a, b \in left : <<a, b>> \in Ahead(items, bold, left)
                            <=> value(a) > value(b) \/ (value(a) = value(b) /\ a < b)
  BY <1>2
<1> HIDE DEF value
<1> QED
  BY <1>1, <1>3 DEF Orders

LEMMA PipelineIsAList ==
  ASSUME NEW items \in Seq(Items), NEW rules, rules.bold \in BOOLEAN
  PROVE  run_pipeline(items, rules) \in Seq(Items)
<1> DEFINE left == {k \in DOMAIN items : Allowed(items[k], rules)}
           order == Ahead(items, rules.bold, left)
<1>1. left \in SUBSET DOMAIN items
  OBVIOUS
<1>2. run_pipeline(items, rules) = Picked(items, left, order)
  BY DEF run_pipeline
<1>3. Orders(left, order)
  BY <1>1, AheadOrders
<1> HIDE DEF left, order
<1>4. Picked(items, left, order) \in Seq(Items)
  BY <1>1, <1>3, PickedIsAList
<1> QED
  BY <1>2, <1>4

LEMMA PipelineCounts ==
  ASSUME NEW items \in Seq(Items), NEW rules, rules.bold \in BOOLEAN
  PROVE  Len(run_pipeline(items, rules)) = Cardinality({k \in DOMAIN items : Allowed(items[k], rules)})
<1> DEFINE left == {k \in DOMAIN items : Allowed(items[k], rules)}
           order == Ahead(items, rules.bold, left)
<1>1. left \in SUBSET DOMAIN items
  OBVIOUS
<1>2. run_pipeline(items, rules) = Picked(items, left, order)
  BY DEF run_pipeline
<1>3. Orders(left, order)
  BY <1>1, AheadOrders
<1> HIDE DEF left, order
<1>4. Len(Picked(items, left, order)) = Cardinality(left)
  BY <1>1, <1>3, PickedIsAList
<1> QED
  BY <1>2, <1>4 DEF left

\* What run_pipeline leaves of an answer.
LEMMA PipelineKeeps ==
  ASSUME NEW items \in Seq(Items), NEW rules, rules.bold \in BOOLEAN
  PROVE  /\ \A i \in ToSet(items) : Allowed(i, rules) => i \in ToSet(run_pipeline(items, rules))
         /\ \A i \in ToSet(run_pipeline(items, rules)) : i \in ToSet(items) /\ Allowed(i, rules)
<1> DEFINE left == {k \in DOMAIN items : Allowed(items[k], rules)}
           order == Ahead(items, rules.bold, left)
           f == InOrder(left, order)
           rows == run_pipeline(items, rules)
           N == Cardinality(left)
<1>1. left \in SUBSET DOMAIN items
  OBVIOUS
<1>2. Orders(left, order)
  BY <1>1, AheadOrders
<1>3. rows = Picked(items, left, order)
  BY DEF run_pipeline
<1>4. /\ Len(rows) = N /\ DOMAIN rows = 1 .. N
      /\ f \in [1 .. N -> left]
      /\ \A n \in 1 .. N : rows[n] = items[f[n]]
      /\ \A k \in left : \E n \in 1 .. N : rows[n] = items[k]
  <2> HIDE DEF left, order, rows
  <2>1. Len(Picked(items, left, order)) = N /\ DOMAIN Picked(items, left, order) = 1 .. N
    BY <1>1, <1>2, PickedIsAList
  <2>2. f \in [1 .. N -> left]
    BY <1>1, <1>2, PickedIsAList
  <2>3. \A n \in 1 .. N : Picked(items, left, order)[n] = items[f[n]]
    BY <1>1, <1>2, PickedIsAList
  <2>4. \A k \in left : \E n \in 1 .. N : Picked(items, left, order)[n] = items[k]
    BY <1>1, <1>2, PickedIsAList
  <2> QED
    BY <1>3, <2>1, <2>2, <2>3, <2>4
<1>5. \A i \in ToSet(items) : Allowed(i, rules) => \E k \in left : i = items[k]
  BY DEF ToSet
<1>6. \A k \in left : Allowed(items[k], rules) /\ items[k] \in ToSet(items)
  BY DEF ToSet
<1> HIDE DEF left, order, f, rows, N
<1>8. ToSet(rows) = {rows[n] : n \in 1 .. N}
  BY <1>4 DEF ToSet
<1>9. \A i \in ToSet(items) : Allowed(i, rules) => i \in ToSet(rows)
  BY <1>4, <1>5, <1>8
<1>10. \A i \in ToSet(rows) : i \in ToSet(items) /\ Allowed(i, rules)
  BY <1>4, <1>6, <1>8
<1> QED
  BY <1>9, <1>10 DEF rows

\* And in which order.
LEMMA PipelineSorts ==
  ASSUME NEW items \in Seq(Items), NEW rules, rules.bold \in BOOLEAN
  PROVE  \A k \in 1 .. Len(run_pipeline(items, rules)) - 1 :
            Score(run_pipeline(items, rules)[k], rules.bold)
              >= Score(run_pipeline(items, rules)[k + 1], rules.bold)
<1> DEFINE left == {k \in DOMAIN items : Allowed(items[k], rules)}
           order == Ahead(items, rules.bold, left)
           f == InOrder(left, order)
           rows == run_pipeline(items, rules)
           N == Cardinality(left)
<1>1. left \in SUBSET DOMAIN items
  OBVIOUS
<1>2. Orders(left, order)
  BY <1>1, AheadOrders
<1>3. rows = Picked(items, left, order)
  BY DEF run_pipeline
<1>4. /\ Len(rows) = N /\ N \in Nat /\ f \in [1 .. N -> left]
      /\ \A n \in 1 .. N : rows[n] = items[f[n]]
      /\ \A n, m \in 1 .. N : n < m => <<f[n], f[m]>> \in order
  <2> HIDE DEF left, order, rows
  <2>1. Len(Picked(items, left, order)) = N /\ N \in Nat
    BY <1>1, <1>2, PickedIsAList
  <2>2. f \in [1 .. N -> left]
    BY <1>1, <1>2, PickedIsAList
  <2>3. /\ \A n \in 1 .. N : Picked(items, left, order)[n] = items[f[n]]
        /\ \A n, m \in 1 .. N : n < m => <<f[n], f[m]>> \in order
    BY <1>1, <1>2, PickedIsAList
  <2> QED
    BY <1>3, <2>1, <2>2, <2>3
<1>5. \A a, b \in left : <<a, b>> \in order => Score(items[a], rules.bold) >= Score(items[b], rules.bold)
  <2> SUFFICES ASSUME NEW a \in left, NEW b \in left, <<a, b>> \in order
               PROVE  Score(items[a], rules.bold) >= Score(items[b], rules.bold)
    OBVIOUS
  <2>1. Score(items[a], rules.bold) > Score(items[b], rules.bold)
        \/ Score(items[a], rules.bold) = Score(items[b], rules.bold)
    BY DEF Ahead
  <2>2. items[b] \in Items /\ items[a] \in Items
    BY <1>1
  <2>3. Score(items[b], rules.bold) \in Nat /\ Score(items[a], rules.bold) \in Nat
    BY <2>2, ScoresAreNumbers
  <2> QED
    BY <2>1, <2>3
<1> HIDE DEF left, order, f, rows, N
<1> SUFFICES ASSUME NEW k \in 1 .. Len(rows) - 1
             PROVE  Score(rows[k], rules.bold) >= Score(rows[k + 1], rules.bold)
  BY DEF rows
<1>6. k \in 1 .. N /\ k + 1 \in 1 .. N /\ k < k + 1
  BY <1>4
<1> QED
  BY <1>4, <1>5, <1>6

Marks == {"sure", "unsure", "error"}

\* What is kept of a wishlist.
LEMMA SureOnes ==
  ASSUME NEW list \in Seq(SUBSET Marks)
  PROVE  /\ Sure(list) \in Seq(SUBSET Marks)
         /\ Len(Sure(list)) = Cardinality({k \in 1 .. Len(list) : "sure" \in list[k]})
<1> DEFINE sure == {k \in DOMAIN list : list[k] # Failed /\ "sure" \in list[k]}
<1>1. sure \in SUBSET DOMAIN list /\ sure \in SUBSET Nat
  OBVIOUS
<1>2. sure = {k \in 1 .. Len(list) : "sure" \in list[k]}
  BY DEF Failed
<1>3. Sure(list) = Picked(list, sure, Earlier(sure))
  BY DEF Sure
<1> HIDE DEF sure
<1> QED
  BY <1>1, <1>2, <1>3, EarlierOrders, PickedIsAList

Bodies == Seq(Items) \cup Seq(SUBSET Marks) \cup Seq({"text"})
Rules == [never : SUBSET Titles, history : SUBSET Titles, bold : BOOLEAN]
Ask == [pc : {"new", "waiting", "answered", "done"}, endpoint : Endpoints, tier : Tiers, age : Nat,
        rules : Rules, status : Statuses, body : Bodies]
Work == [at : {"none", "queued", "page", "model", "over"}, attempt : 0 .. ModelRetries, time : Nat,
         urls : Nat, said : Bodies]

BrainShape ==
  /\ ask \in [Asks -> Ask] /\ work \in [Asks -> Work]
  /\ kept \in [Asks -> [told : Statuses, rows : Bodies]]
  /\ never \in SUBSET Titles /\ given \in SUBSET Titles

\* How far a call is, at its caller and in the service.
Along(c) ==
  /\ ask[c].pc = "new" => work[c].at = "none" /\ work[c].said = <<>>
  /\ ask[c].pc \in {"new", "waiting"} => ask[c].status = "none" /\ kept[c].told = "none"
  /\ ask[c].pc = "waiting" => work[c].at \in {"queued", "page", "model"}
  /\ ask[c].pc = "answered" => kept[c].told = "none" /\ ask[c].status # "none"
  /\ ask[c].status # "none" => work[c].at = "over"
  /\ work[c].at = "page" => ask[c].endpoint = "parse"
  /\ work[c].at \in {"queued", "page", "model"} /\ ask[c].endpoint = "parse" =>
       work[c].said \in Seq(SUBSET Marks) /\ Len(work[c].said) < work[c].urls

\* What was sent with it.
Sent(c) ==
  /\ ask[c].rules.never \subseteq never
  /\ ask[c].pc \in {"waiting", "answered"} \/ ask[c].status = "ok" =>
       /\ ask[c].rules.history = IF ask[c].tier = "free" THEN {} ELSE given
       /\ ask[c].tier = "free" => ~ask[c].rules.bold

\* What was answered.
Answered(c) ==
  /\ ask[c].endpoint = "suggest" /\ ask[c].status = "ok" =>
       work[c].said \in Seq(Items) /\ ask[c].body = run_pipeline(work[c].said, ask[c].rules)
  /\ ask[c].endpoint = "parse" /\ ask[c].status \notin {"none", "422"} =>
       /\ ask[c].status = "ok" /\ ask[c].body = work[c].said
       /\ work[c].said \in Seq(SUBSET Marks) /\ Len(work[c].said) = work[c].urls

\* What was stored.
StoredAs(c) ==
  kept[c].told = "ok" => ask[c].pc = "done" /\ ask[c].status = "ok" /\ kept[c].rows = ToStore(c)

Call(c) == Along(c) /\ Sent(c) /\ Answered(c) /\ StoredAs(c)

BrainInv == BrainShape /\ \A c \in Asks : Call(c)

\* The others are as they were.
LEMMA OneCall ==
  ASSUME BrainInv, BrainShape', NEW c \in Asks, Call(c)', UNCHANGED <<never, given>>,
         \A d \in Asks : d # c => ask'[d] = ask[d] /\ work'[d] = work[d] /\ kept'[d] = kept[d]
  PROVE  BrainInv'
<1>1. ASSUME NEW d \in Asks, d # c
      PROVE  Call(d)'
  <2>1. Call(d) /\ ask'[d] = ask[d] /\ work'[d] = work[d] /\ kept'[d] = kept[d] /\ never' = never /\ given' = given
    BY <1>1 DEF BrainInv
  <2>2. ToStore(d)' = ToStore(d)
    BY <2>1 DEF ToStore
  <2> QED
    BY <2>1, <2>2 DEF Call, Along, Sent, Answered, StoredAs
<1> QED
  BY <1>1 DEF BrainInv

Busy == {"queued", "page", "model"}

\* Nothing has been told of a call that the service has.
LEMMA NothingTold ==
  ASSUME BrainInv, NEW c \in Asks, work[c].at \in Busy
  PROVE  /\ ask[c].status = "none" /\ kept[c].told # "ok" /\ ask[c].pc \in {"waiting", "done"}
         /\ ask[c] \in Ask /\ work[c] \in Work
<1>1. Call(c) /\ work[c].at \notin {"none", "over"} /\ ask[c] \in Ask /\ work[c] \in Work
  BY DEF BrainInv, BrainShape, Busy
<1>2. ask[c].status = "none" /\ ask[c].pc \notin {"new", "answered"}
  BY <1>1 DEF Call, Along
<1>3. kept[c].told # "ok"
  BY <1>1, <1>2 DEF Call, StoredAs
<1> QED
  BY <1>1, <1>2, <1>3 DEF Ask

LEMMA RepliesFit ==
  ASSUME BrainInv, NEW c \in Asks, work[c].at \in Busy, NEW status \in Statuses \ {"none"},
         NEW said \in Bodies, NEW body \in Bodies, ReplyTo(c, status, said, body),
         ask[c].endpoint = "suggest" /\ status = "ok" => said \in Seq(Items) /\ body = run_pipeline(said, ask[c].rules),
         ask[c].endpoint = "parse" /\ status # "422" =>
           /\ status = "ok" /\ body = said /\ said \in Seq(SUBSET Marks) /\ Len(said) = work[c].urls
  PROVE  BrainInv'
<1>1. /\ ask[c].status = "none" /\ kept[c].told # "ok" /\ ask[c].pc \in {"waiting", "done"}
      /\ work[c] \in Work /\ ask[c] \in Ask
  BY NothingTold
<1>2. /\ work' = [work EXCEPT ![c] = [work[c] EXCEPT !.at = "over", !.time = 0, !.said = said]]
      /\ UNCHANGED <<never, given, kept>>
  BY <1>1 DEF ReplyTo, BrainInv, BrainShape, Work
<1>3. [work[c] EXCEPT !.at = "over", !.time = 0, !.said = said] \in Work
  BY <1>1 DEF Work
<1>4. /\ work' \in [Asks -> Work] /\ \A d \in Asks : d # c => work'[d] = work[d]
      /\ work'[c].at = "over" /\ work'[c].said = said /\ work'[c].urls = work[c].urls
  BY <1>1, <1>2, <1>3 DEF BrainInv, BrainShape, Work
<1>5. CASE ask[c].pc = "waiting"
  <2>1. ask' = [ask EXCEPT ![c] = [ask[c] EXCEPT !.pc = "answered", !.status = status, !.body = body]]
    BY <1>1, <1>5 DEF ReplyTo, BrainInv, BrainShape, Ask
  <2>2. [ask[c] EXCEPT !.pc = "answered", !.status = status, !.body = body] \in Ask
    BY <1>1 DEF Ask
  <2>3. /\ ask' \in [Asks -> Ask] /\ \A d \in Asks : d # c => ask'[d] = ask[d]
        /\ ask'[c].pc = "answered" /\ ask'[c].status = status /\ ask'[c].body = body
        /\ ask'[c].endpoint = ask[c].endpoint /\ ask'[c].rules = ask[c].rules /\ ask'[c].tier = ask[c].tier
    BY <1>1, <2>1, <2>2 DEF BrainInv, BrainShape, Ask
  <2>4. BrainShape'
    BY <1>2, <1>4, <2>3 DEF BrainInv, BrainShape
  <2>5. kept[c].told = "none"
    BY <1>5 DEF BrainInv, Call, Along
  <2>6. Along(c)' /\ StoredAs(c)'
    BY <1>2, <1>4, <2>3, <2>5 DEF Along, StoredAs
  <2>7. Sent(c)'
    BY <1>2, <1>5, <2>3 DEF BrainInv, Call, Sent
  <2>8. Answered(c)'
    BY <1>4, <2>3 DEF Answered
  <2> QED
    BY <1>2, <1>4, <2>3, <2>4, <2>6, <2>7, <2>8, OneCall DEF Call
<1>6. CASE ask[c].pc # "waiting"
  <2>1. ask' = ask
    BY <1>6 DEF ReplyTo
  <2>2. BrainShape'
    BY <1>2, <1>4, <2>1 DEF BrainInv, BrainShape
  <2>3. Along(c)' /\ StoredAs(c)' /\ Answered(c)'
    BY <1>1, <1>2, <1>4, <1>6, <2>1 DEF Along, StoredAs, Answered
  <2>4. Sent(c)'
    BY <1>2, <2>1 DEF BrainInv, Call, Sent
  <2> QED
    BY <1>2, <1>4, <2>1, <2>2, <2>3, <2>4, OneCall DEF Call
<1> QED
  BY <1>5, <1>6

LEMMA WorkGoesOn ==
  ASSUME BrainInv, NEW c \in Asks, work[c].at \in Busy, UNCHANGED <<ask, never, given, kept>>,
         NEW w \in Work, work' = [work EXCEPT ![c] = w], w.at \in {"page", "model"},
         w.at = "page" => ask[c].endpoint = "parse",
         ask[c].endpoint = "parse" => w.said \in Seq(SUBSET Marks) /\ Len(w.said) < w.urls
  PROVE  BrainInv'
<1>1. ask[c].status = "none" /\ kept[c].told # "ok" /\ ask[c].pc \in {"waiting", "done"}
  BY NothingTold
<1>2. work' \in [Asks -> Work] /\ work'[c] = w /\ \A d \in Asks : d # c => work'[d] = work[d]
  BY DEF BrainInv, BrainShape
<1>3. BrainShape'
  BY <1>2 DEF BrainInv, BrainShape
<1>4. Along(c)' /\ StoredAs(c)' /\ Answered(c)'
  BY <1>1, <1>2 DEF BrainInv, Call, Along, StoredAs, Answered
<1>5. Sent(c)'
  BY DEF BrainInv, Call, Sent
<1> QED
  BY <1>2, <1>3, <1>4, <1>5, OneCall DEF Call

LEMMA StartFits ==
  ASSUME BrainInv, NEW c \in Asks, ServiceStart(c)
  PROVE  BrainInv'
<1>1. work[c].at \in Busy /\ work[c].at = "queued" /\ work[c] \in Work
  BY DEF ServiceStart, Busy, BrainInv, BrainShape
<1>2. <<>> \in Bodies
  BY DEF Bodies
<1>3. CASE ReplyTo(c, "422", <<>>, <<>>)
  BY <1>1, <1>2, <1>3, RepliesFit DEF Statuses
<1>4. CASE ask[c].endpoint # "parse" /\ ReplyTo(c, "403", <<>>, <<>>)
  BY <1>1, <1>2, <1>4, RepliesFit DEF Statuses
<1>5. CASE Goes(c, IF ask[c].endpoint = "parse" THEN "page" ELSE "model")
  <2> DEFINE w == [work[c] EXCEPT !.at = IF ask[c].endpoint = "parse" THEN "page" ELSE "model", !.time = 0]
  <2>1. w \in Work /\ w.at = (IF ask[c].endpoint = "parse" THEN "page" ELSE "model")
        /\ w.said = work[c].said /\ w.urls = work[c].urls
    BY <1>1 DEF Work
  <2>2. work' = [work EXCEPT ![c] = w] /\ UNCHANGED <<ask, never, given, kept>>
    BY <1>1, <1>5 DEF Goes, BrainInv, BrainShape, Work
  <2>3. ask[c].endpoint = "parse" => work[c].said \in Seq(SUBSET Marks) /\ Len(work[c].said) < work[c].urls
    BY <1>1 DEF BrainInv, Call, Along
  <2> HIDE DEF w
  <2> QED
    BY <1>1, <2>1, <2>2, <2>3, WorkGoesOn
<1> QED
  BY <1>3, <1>4, <1>5 DEF ServiceStart, Reply

\* A page of a wishlist that is over, with what was found on it.
LEMMA PagesFit ==
  ASSUME BrainInv, NEW c \in Asks, work[c].at \in {"page", "model"}, ask[c].endpoint = "parse",
         NEW page \in SUBSET Marks, PageOver(c, page)
  PROVE  BrainInv'
<1> DEFINE said == Append(work[c].said, page)
<1>1. work[c].at \in Busy /\ work[c] \in Work
  BY DEF Busy, BrainInv, BrainShape
<1>2. work[c].said \in Seq(SUBSET Marks) /\ Len(work[c].said) < work[c].urls /\ work[c].urls \in Nat
  BY <1>1 DEF BrainInv, Call, Along, Work
<1>3. said \in Seq(SUBSET Marks) /\ Len(said) = Len(work[c].said) + 1 /\ said \in Bodies /\ Len(said) <= work[c].urls
  BY <1>2 DEF Bodies
<1> HIDE DEF said
<1>4. CASE Len(said) = work[c].urls
  <2>1. ReplyTo(c, "ok", said, said)
    BY <1>4 DEF PageOver, NextPage, said
  <2> QED
    BY <1>1, <1>3, <1>4, <2>1, RepliesFit DEF Statuses
<1>5. CASE Len(said) # work[c].urls
  <2> DEFINE w == [work[c] EXCEPT !.at = "page", !.time = 0, !.said = said]
  <2>1. w \in Work /\ w.at = "page" /\ w.said = said /\ w.urls = work[c].urls
    BY <1>1, <1>3 DEF Work
  <2>2. work' = [work EXCEPT ![c] = w] /\ UNCHANGED <<ask, never, given, kept>>
    BY <1>1, <1>5 DEF PageOver, NextPage, said, BrainInv, BrainShape, Work
  <2>3. Len(said) < work[c].urls
    BY <1>2, <1>3, <1>5
  <2> HIDE DEF w
  <2> QED
    BY <1>1, <1>3, <2>1, <2>2, <2>3, WorkGoesOn
<1> QED
  BY <1>4, <1>5

LEMMA FetchFits ==
  ASSUME BrainInv, NEW c \in Asks, FetchPage(c)
  PROVE  BrainInv'
<1>1. work[c].at \in Busy /\ work[c].at = "page" /\ work[c] \in Work /\ ask[c].endpoint = "parse"
  BY DEF FetchPage, Busy, BrainInv, BrainShape, Call, Along
<1>2. CASE Goes(c, "model")
  <2> DEFINE w == [work[c] EXCEPT !.at = "model", !.time = 0]
  <2>1. w \in Work /\ w.at = "model" /\ w.said = work[c].said /\ w.urls = work[c].urls
    BY <1>1 DEF Work
  <2>2. work' = [work EXCEPT ![c] = w] /\ UNCHANGED <<ask, never, given, kept>>
    BY <1>1, <1>2 DEF Goes, BrainInv, BrainShape, Work
  <2>3. work[c].said \in Seq(SUBSET Marks) /\ Len(work[c].said) < work[c].urls
    BY <1>1 DEF BrainInv, Call, Along
  <2> HIDE DEF w
  <2> QED
    BY <1>1, <2>1, <2>2, <2>3, WorkGoesOn
<1>3. CASE PageOver(c, Failed)
  BY <1>1, <1>3, PagesFit DEF Failed, Marks
<1> QED
  BY <1>2, <1>3 DEF FetchPage

LEMMA ModelFits ==
  ASSUME BrainInv, NEW c \in Asks, NEW said \in {"json", "junk", "429", "502", "504"}, ModelSays(c, said)
  PROVE  BrainInv'
<1>1. /\ work[c].at \in Busy /\ work[c].at = "model" /\ work[c] \in Work /\ ask[c] \in Ask
      /\ ask[c].rules.bold \in BOOLEAN /\ ask[c].endpoint \in Endpoints
  BY DEF ModelSays, Busy, BrainInv, BrainShape, Ask, Rules
<1>2. <<>> \in Bodies /\ <<"text">> \in Bodies
  BY DEF Bodies
<1>3. ASSUME ask[c].endpoint # "parse", NEW status \in Statuses \ {"none"}, Reply(c, status), status # "ok"
      PROVE  BrainInv'
  BY <1>1, <1>2, <1>3, RepliesFit DEF Reply
<1>4. CASE ask[c].endpoint = "suggest"
  <2>6. work[c].attempt \in Nat /\ ModelRetries \in Nat
    BY <1>1, GiftBrainAssumption DEF GiftBrainAssumption, Work
  <2>1. CASE said = "json"
    <3>1. PICK items \in SeqOf(Items, MaxItems) : ReplyTo(c, "ok", items, run_pipeline(items, ask[c].rules))
      BY <1>4, <2>1 DEF ModelSays, SuggestSays
    <3>2. items \in Seq(Items)
      BY <3>1 DEF SeqOf
    <3>3. run_pipeline(items, ask[c].rules) \in Seq(Items)
      BY <1>1, <3>2, PipelineIsAList
    <3> QED
      BY <1>1, <1>4, <3>1, <3>2, <3>3, RepliesFit DEF Statuses, Bodies
  <2>2. CASE said = "junk" /\ work[c].attempt < ModelRetries
    <3> DEFINE w == [work[c] EXCEPT !.attempt = work[c].attempt + 1, !.time = 0]
    <3>0. work[c].attempt + 1 \in 0 .. ModelRetries
      BY <1>1, <2>2, GiftBrainAssumption DEF GiftBrainAssumption, Work
    <3>1. w \in Work /\ w.at = "model"
      BY <1>1, <3>0 DEF Work
    <3>2. work' = [work EXCEPT ![c] = w] /\ UNCHANGED <<ask, never, given, kept>>
      <4>0. SuggestSays(c, said)
        BY <1>4 DEF ModelSays
      <4>1. /\ work' = [work EXCEPT ![c].attempt = @ + 1, ![c].time = 0]
            /\ UNCHANGED ask /\ UNCHANGED never /\ UNCHANGED given /\ UNCHANGED kept
        BY <2>2, <2>6, <4>0 DEF SuggestSays
      <4>2. work \in [Asks -> Work]
        BY DEF BrainInv, BrainShape
      <4> QED
        BY <1>1, <4>1, <4>2 DEF Work
    <3> HIDE DEF w
    <3> QED
      BY <1>1, <1>4, <3>1, <3>2, WorkGoesOn
  <2>3. CASE said = "junk" /\ work[c].attempt = ModelRetries
    <3>1. Reply(c, "500")
      BY <1>4, <2>3, <2>6 DEF ModelSays, SuggestSays
    <3> QED
      BY <1>3, <1>4, <3>1 DEF Statuses
  <2>4. CASE said \in {"429", "502", "504"}
    <3>1. Reply(c, said)
      BY <1>4, <2>4 DEF ModelSays, SuggestSays
    <3> QED
      BY <1>3, <1>4, <2>4, <3>1 DEF Statuses
  <2>5. work[c].attempt < ModelRetries \/ work[c].attempt = ModelRetries
    BY <1>1, GiftBrainAssumption DEF GiftBrainAssumption, Work
  <2> QED
    BY <2>1, <2>2, <2>3, <2>4, <2>5
<1>5. CASE ask[c].endpoint = "parse"
  <2>1. PICK page \in SUBSET Marks : PageOver(c, page)
    BY <1>5 DEF ModelSays, Products, Failed, Marks
  <2> QED
    BY <1>1, <1>5, <2>1, PagesFit
<1>6. CASE ask[c].endpoint \in {"tags", "insight", "photo"}
  <2>0. OneShotSays(c, said)
    BY <1>6 DEF ModelSays
  <2>1. CASE said = "json"
    <3>1. ReplyTo(c, "ok", <<"text">>, <<"text">>)
      BY <2>0, <2>1 DEF OneShotSays
    <3> QED
      BY <1>1, <1>2, <1>6, <3>1, RepliesFit DEF Statuses
  <2>2. CASE said = "junk"
    <3>1. PICK status \in {"500", "403"} : Reply(c, status)
      BY <2>0, <2>2 DEF OneShotSays
    <3> QED
      BY <1>3, <1>6, <3>1 DEF Statuses
  <2>3. CASE said \in {"429", "502", "504"}
    <3>1. Reply(c, said)
      BY <2>0, <2>3 DEF OneShotSays
    <3> QED
      BY <1>3, <1>6, <2>3, <3>1 DEF Statuses
  <2> QED
    BY <2>1, <2>2, <2>3
<1> QED
  BY <1>1, <1>4, <1>5, <1>6 DEF Endpoints

LEMMA SendFits ==
  ASSUME BrainInv, NEW c \in Asks, NEW endpoint \in Endpoints, NEW tier \in Tiers, NEW bold \in BOOLEAN,
         AskSend(c, endpoint, tier, bold)
  PROVE  BrainInv'
<1>1. /\ ask[c].pc = "new" /\ ask[c].status = "none" /\ kept[c].told = "none" /\ UNCHANGED <<never, given>>
      /\ work[c].at = "none" /\ work[c].said = <<>> /\ ask[c] \in Ask /\ work[c] \in Work /\ Sent(c)
      /\ kept[c] \in [told : Statuses, rows : Bodies]
  BY DEF AskSend, BrainInv, BrainShape, Call, Along
<1>2. CASE PlanRank(tier) < PlanRank(MinTier(endpoint))
  <2> DEFINE a == [ask[c] EXCEPT !.pc = "done", !.endpoint = endpoint, !.tier = tier]
             k == [kept[c] EXCEPT !.told = "402"]
  <2>1. ask' = [ask EXCEPT ![c] = a] /\ kept' = [kept EXCEPT ![c] = k] /\ work' = work
    BY <1>1, <1>2 DEF AskSend, BrainInv, BrainShape, Ask
  <2>2. a \in Ask /\ k \in [told : Statuses, rows : Bodies]
    BY <1>1 DEF Ask, Statuses
  <2>3. a.pc = "done" /\ a.status = "none" /\ a.rules = ask[c].rules /\ k.told = "402"
    BY <1>1 DEF Ask
  <2> HIDE DEF a, k
  <2>4. /\ ask' \in [Asks -> Ask] /\ ask'[c] = a /\ \A d \in Asks : d # c => ask'[d] = ask[d]
        /\ kept' \in [Asks -> [told : Statuses, rows : Bodies]] /\ kept'[c] = k
        /\ \A d \in Asks : d # c => kept'[d] = kept[d]
    BY <2>1, <2>2 DEF BrainInv, BrainShape
  <2>5. BrainShape'
    BY <1>1, <2>1, <2>4 DEF BrainInv, BrainShape
  <2>6. Call(c)'
    BY <1>1, <2>1, <2>3, <2>4 DEF Call, Along, Sent, Answered, StoredAs
  <2> QED
    BY <1>1, <2>1, <2>4, <2>5, <2>6, OneCall
<1>3. CASE ~(PlanRank(tier) < PlanRank(MinTier(endpoint)))
  <2>0. PICK urls \in 1 .. Urls :
          work' = [work EXCEPT ![c].at = "queued", ![c].urls = IF endpoint = "parse" THEN urls ELSE 0]
    BY <1>3 DEF AskSend
  <2> DEFINE a == [ask[c] EXCEPT !.pc = "waiting", !.endpoint = endpoint, !.tier = tier, !.rules = RulesFor(tier, bold)]
             w == [work[c] EXCEPT !.at = "queued", !.urls = IF endpoint = "parse" THEN urls ELSE 0]
  <2>1. ask' = [ask EXCEPT ![c] = a] /\ work' = [work EXCEPT ![c] = w] /\ kept' = kept
    BY <1>1, <1>3, <2>0 DEF AskSend, BrainInv, BrainShape, Ask, Work
  <2>2. RulesFor(tier, bold) \in Rules /\ urls \in Nat
    BY GiftBrainAssumption DEF RulesFor, Rules, BrainInv, BrainShape, GiftBrainAssumption
  <2>3. a \in Ask /\ w \in Work
    BY <1>1, <2>2 DEF Ask, Work
  <2>4. /\ a.pc = "waiting" /\ a.status = "none" /\ a.rules = RulesFor(tier, bold) /\ a.tier = tier
        /\ a.endpoint = endpoint /\ w.at = "queued" /\ w.said = <<>> /\ (endpoint = "parse" => w.urls = urls)
    BY <1>1 DEF Ask, Work
  <2>5. /\ RulesFor(tier, bold).never = never /\ RulesFor(tier, bold).history = IF tier = "free" THEN {} ELSE given
        /\ tier = "free" => ~RulesFor(tier, bold).bold
    BY DEF RulesFor
  <2> HIDE DEF a, w
  <2>6. /\ ask' \in [Asks -> Ask] /\ ask'[c] = a /\ \A d \in Asks : d # c => ask'[d] = ask[d]
        /\ work' \in [Asks -> Work] /\ work'[c] = w /\ \A d \in Asks : d # c => work'[d] = work[d]
    BY <2>1, <2>3 DEF BrainInv, BrainShape
  <2>7. BrainShape'
    BY <1>1, <2>1, <2>6 DEF BrainInv, BrainShape
  <2>8. <<>> \in Seq(SUBSET Marks) /\ Len(<<>>) = 0 /\ 0 < urls
    BY <2>2
  <2>9. Along(c)' /\ Answered(c)' /\ StoredAs(c)'
    BY <1>1, <2>1, <2>4, <2>6, <2>8 DEF Along, Answered, StoredAs
  <2>10. Sent(c)'
    BY <1>1, <2>4, <2>5, <2>6 DEF Sent
  <2> QED
    BY <1>1, <2>1, <2>6, <2>7, <2>9, <2>10, OneCall DEF Call
<1> QED
  BY <1>2, <1>3

LEMMA AbortFits ==
  ASSUME BrainInv, NEW c \in Asks, AskAbort(c)
  PROVE  BrainInv'
<1> DEFINE a == [ask[c] EXCEPT !.pc = "done"]
<1>1. /\ ask[c].pc = "waiting" /\ ask[c].status = "none" /\ UNCHANGED <<work, never, given>> /\ ask[c] \in Ask
      /\ kept[c] \in [told : Statuses, rows : Bodies] /\ Along(c) /\ Sent(c)
  BY DEF AskAbort, BrainInv, BrainShape, Call, Along
<1>2. PICK told \in {"504", "500"} : kept' = [kept EXCEPT ![c].told = told]
  BY DEF AskAbort
<1>3. ask' = [ask EXCEPT ![c] = a] /\ kept' = [kept EXCEPT ![c] = [kept[c] EXCEPT !.told = told]]
  BY <1>1, <1>2 DEF AskAbort, BrainInv, BrainShape, Ask
<1>4. /\ a \in Ask /\ a.pc = "done" /\ a.status = "none" /\ a.rules = ask[c].rules /\ a.endpoint = ask[c].endpoint
      /\ [kept[c] EXCEPT !.told = told] \in [told : Statuses, rows : Bodies] /\ [kept[c] EXCEPT !.told = told].told = told
  BY <1>1 DEF Ask, Statuses
<1> HIDE DEF a
<1>5. /\ ask' \in [Asks -> Ask] /\ ask'[c] = a /\ \A d \in Asks : d # c => ask'[d] = ask[d]
      /\ kept' \in [Asks -> [told : Statuses, rows : Bodies]] /\ kept'[c].told # "ok"
      /\ \A d \in Asks : d # c => kept'[d] = kept[d]
  BY <1>3, <1>4 DEF BrainInv, BrainShape
<1>6. BrainShape'
  BY <1>1, <1>5 DEF BrainInv, BrainShape
<1>7. Call(c)'
  BY <1>1, <1>4, <1>5 DEF Call, Along, Sent, Answered, StoredAs
<1> QED
  BY <1>1, <1>5, <1>6, <1>7, OneCall

\* The handler is done with an answer, and has stored all or some of it.
LEMMA StoringFits ==
  ASSUME BrainInv, NEW c \in Asks, ask[c].pc = "answered", ask' = [ask EXCEPT ![c].pc = "done"],
         UNCHANGED <<work, never, given>>, NEW k \in [told : Statuses, rows : Bodies],
         kept' = [kept EXCEPT ![c] = k], k.told = "ok" => ask[c].status = "ok" /\ k.rows = ToStore(c)
  PROVE  BrainInv'
<1> DEFINE a == [ask[c] EXCEPT !.pc = "done"]
<1>1. ask[c] \in Ask /\ Call(c) /\ ask[c].status # "none"
  BY DEF BrainInv, BrainShape, Call, Along
<1>2. ask' = [ask EXCEPT ![c] = a]
  BY <1>1 DEF BrainInv, BrainShape, Ask
<1>3. /\ a \in Ask /\ a.pc = "done" /\ a.status = ask[c].status /\ a.rules = ask[c].rules /\ a.tier = ask[c].tier
      /\ a.endpoint = ask[c].endpoint /\ a.body = ask[c].body
  BY <1>1 DEF Ask
<1> HIDE DEF a
<1>4. /\ ask' \in [Asks -> Ask] /\ ask'[c] = a /\ \A d \in Asks : d # c => ask'[d] = ask[d]
      /\ kept' \in [Asks -> [told : Statuses, rows : Bodies]] /\ kept'[c] = k
      /\ \A d \in Asks : d # c => kept'[d] = kept[d]
  BY <1>2, <1>3 DEF BrainInv, BrainShape
<1>5. BrainShape'
  BY <1>4 DEF BrainInv, BrainShape
<1>6. ToStore(c)' = ToStore(c)
  BY <1>3, <1>4 DEF ToStore
<1>7. Along(c)' /\ Sent(c)' /\ Answered(c)' /\ StoredAs(c)'
  BY <1>1, <1>3, <1>4, <1>6 DEF Call, Along, Sent, Answered, StoredAs
<1> QED
  BY <1>4, <1>5, <1>7, OneCall DEF Call

\* What there is to store is a list.
LEMMA ToStoreIsAList ==
  ASSUME BrainInv, NEW c \in Asks, ask[c].status = "ok"
  PROVE  ToStore(c) \in Bodies
<1>1. ask[c].body \in Bodies /\ Answered(c)
  BY DEF BrainInv, BrainShape, Ask, Call
<1>2. CASE ask[c].endpoint = "parse"
  BY <1>1, <1>2, SureOnes DEF ToStore, Answered, Bodies
<1> QED
  BY <1>1, <1>2 DEF ToStore

LEMMA StoreFits ==
  ASSUME BrainInv, NEW c \in Asks, AskStore(c) \/ AskStoreFails(c)
  PROVE  BrainInv'
<1>1. /\ ask[c].pc = "answered" /\ ask' = [ask EXCEPT ![c].pc = "done"] /\ UNCHANGED <<work, never, given>>
      /\ ask[c].status \in Statuses
  BY DEF AskStore, AskStoreFails, BrainInv, BrainShape, Ask
<1>2. CASE AskStore(c) /\ ask[c].status = "ok"
  <2>1. kept' = [kept EXCEPT ![c] = [told |-> "ok", rows |-> ToStore(c)]]
    BY <1>2 DEF AskStore
  <2> QED
    BY <1>1, <1>2, <2>1, ToStoreIsAList, StoringFits DEF Statuses
<1>3. CASE AskStore(c) /\ ask[c].status # "ok"
  <2>1. kept' = [kept EXCEPT ![c] = [told |-> Reported(ask[c].endpoint, ask[c].status), rows |-> <<>>]]
    BY <1>3 DEF AskStore
  <2>2. Reported(ask[c].endpoint, ask[c].status) \in Statuses \ {"ok"} /\ <<>> \in Bodies
    BY <1>1, <1>3 DEF Reported, Statuses, Bodies
  <2> QED
    BY <1>1, <2>1, <2>2, StoringFits
<1>4. CASE AskStoreFails(c)
  <2>1. PICK some \in SUBSET DOMAIN ToStore(c) :
          kept' = [kept EXCEPT ![c] = [told |-> "500", rows |-> Picked(ToStore(c), some, Earlier(some))]]
    BY <1>4 DEF AskStoreFails
  <2>2. ToStore(c) \in Bodies
    BY <1>4, ToStoreIsAList DEF AskStoreFails
  <2>3. \A X : ToStore(c) \in Seq(X) => Picked(ToStore(c), some, Earlier(some)) \in Seq(X)
    BY PlacesAreFinite, EarlierOrders, PickedIsAList
  <2>4. Picked(ToStore(c), some, Earlier(some)) \in Bodies
    BY <2>2, <2>3 DEF Bodies
  <2> QED
    BY <1>1, <2>1, <2>4, StoringFits DEF Statuses
<1> QED
  BY <1>2, <1>3, <1>4

LEMMA NeverFits ==
  ASSUME BrainInv, NEW t \in Titles, AddNever(t)
  PROVE  BrainInv'
<1>1. UNCHANGED <<ask, work, given, kept>> /\ never' = never \cup {t}
  BY DEF AddNever
<1>2. BrainShape'
  BY <1>1 DEF BrainInv, BrainShape
<1>3. ASSUME NEW c \in Asks
      PROVE  Call(c)'
  <2>1. Call(c) /\ ToStore(c)' = ToStore(c)
    BY <1>1 DEF BrainInv, ToStore
  <2> QED
    BY <1>1, <2>1 DEF Call, Along, Sent, Answered, StoredAs
<1> QED
  BY <1>2, <1>3 DEF BrainInv

LEMMA TickFits ==
  ASSUME BrainInv, BrainTick
  PROVE  BrainInv'
<1>1. UNCHANGED <<never, given, kept>>
  BY DEF BrainTick
<1>2. ASSUME NEW c \in Asks
      PROVE  /\ ask'[c] \in Ask /\ ask'[c].pc = ask[c].pc /\ ask'[c].endpoint = ask[c].endpoint
             /\ ask'[c].tier = ask[c].tier /\ ask'[c].rules = ask[c].rules /\ ask'[c].status = ask[c].status
             /\ ask'[c].body = ask[c].body
             /\ work'[c] \in Work /\ work'[c].at = work[c].at /\ work'[c].said = work[c].said
             /\ work'[c].urls = work[c].urls
  <2>1. ask[c] \in Ask /\ work[c] \in Work
    BY DEF BrainInv, BrainShape
  <2>2. ask'[c] = IF ask[c].pc = "waiting" THEN [ask[c] EXCEPT !.age = ask[c].age + 1] ELSE ask[c]
    BY DEF BrainTick
  <2>3. work'[c] = IF work[c].at = "model" THEN [work[c] EXCEPT !.time = work[c].time + 1] ELSE work[c]
    BY DEF BrainTick
  <2>4. ask[c].age + 1 \in Nat /\ work[c].time + 1 \in Nat
    BY <2>1 DEF Ask, Work
  <2> QED
    BY <2>1, <2>2, <2>3, <2>4 DEF Ask, Work
<1>3. ask' \in [Asks -> Ask] /\ work' \in [Asks -> Work]
  BY <1>2 DEF BrainTick
<1>4. BrainShape'
  BY <1>1, <1>3 DEF BrainInv, BrainShape
<1>5. ASSUME NEW c \in Asks
      PROVE  Call(c)'
  <2>1. Call(c) /\ ToStore(c)' = ToStore(c)
    BY <1>2 DEF BrainInv, ToStore
  <2> QED
    BY <1>1, <1>2, <2>1 DEF Call, Along, Sent, Answered, StoredAs
<1> QED
  BY <1>4, <1>5 DEF BrainInv

LEMMA BrainStarts == BrainInit => BrainInv
<1> SUFFICES ASSUME BrainInit
             PROVE  BrainInv
  OBVIOUS
<1>1. Ranking[1] = "free" /\ "free" \in Tiers
  BY DEF Tiers, ToSet, Ranking
<1>2. <<>> \in Bodies /\ ModelRetries \in Nat
  BY GiftBrainAssumption DEF Bodies, GiftBrainAssumption
<1>3. NewAsk \in Ask /\ NewAsk.pc = "new" /\ NewAsk.status = "none" /\ NewAsk.rules.never = {}
  BY <1>1, <1>2 DEF NewAsk, NoRules, Ask, Rules, Endpoints, Statuses
<1>4. NewWork \in Work /\ NewWork.at = "none" /\ NewWork.said = <<>>
  BY <1>2 DEF NewWork, Work
<1>5. BrainShape
  BY <1>2, <1>3, <1>4 DEF BrainInit, BrainShape, Statuses
<1>6. ASSUME NEW c \in Asks
      PROVE  Call(c)
  <2>1. ask[c] = NewAsk /\ work[c] = NewWork /\ kept[c].told = "none"
    BY DEF BrainInit
  <2> QED
    BY <1>3, <1>4, <2>1 DEF Call, Along, Sent, Answered, StoredAs
<1> QED
  BY <1>5, <1>6 DEF BrainInv

LEMMA BrainGoesOn == BrainInv /\ [BrainNext]_brainVars => BrainInv'
<1> SUFFICES ASSUME BrainInv, [BrainNext]_brainVars
             PROVE  BrainInv'
  OBVIOUS
<1>1. CASE BrainNext
  BY <1>1, SendFits, AbortFits, StoreFits, StartFits, FetchFits, ModelFits, NeverFits, TickFits DEF BrainNext
<1>2. CASE UNCHANGED brainVars
  <2>1. BrainShape'
    BY <1>2 DEF brainVars, BrainInv, BrainShape
  <2>2. ASSUME NEW c \in Asks
        PROVE  Call(c)'
    BY <1>2 DEF brainVars, BrainInv, Call, Along, Sent, Answered, StoredAs, ToStore
  <2> QED
    BY <2>1, <2>2 DEF BrainInv
<1> QED
  BY <1>1, <1>2

LEMMA ServedFit == BrainInv => ServedAsAsked
<1> SUFFICES ASSUME BrainInv, NEW c \in Asks, ask[c].endpoint = "suggest", kept[c].told = "ok"
             PROVE  LET rows == kept[c].rows
                        said == work[c].said
                        hates == never \cap ask[c].rules.never
                        fits(i) == /\ i.price * 100 <= Budget * 110 /\ ~i.blocked
                                   /\ ~\E t \in hates : <<i.title, t>> \in Alike
                                   /\ ask[c].tier # "free" => ~\E t \in given : <<i.title, t>> \in Alike
                        value(i) == IF ask[c].rules.bold THEN 3 * i.delight + 7 * i.novelty
                                    ELSE 6 * i.delight + 4 * i.novelty IN
                    /\ ToSet(rows) = {i \in ToSet(said) : fits(i)}
                    /\ Len(rows) = Cardinality({k \in DOMAIN said : fits(said[k])})
                    /\ \A k \in 1 .. Len(rows) - 1 : value(rows[k]) >= value(rows[k + 1])
                    /\ ask[c].tier = "free" => ~ask[c].rules.bold
  BY DEF ServedAsAsked
<1> DEFINE rows == kept[c].rows
           said == work[c].said
           rules == ask[c].rules
           hates == never \cap ask[c].rules.never
           fits(i) == /\ i.price * 100 <= Budget * 110 /\ ~i.blocked
                      /\ ~\E t \in hates : <<i.title, t>> \in Alike
                      /\ ask[c].tier # "free" => ~\E t \in given : <<i.title, t>> \in Alike
           value(i) == IF ask[c].rules.bold THEN 3 * i.delight + 7 * i.novelty ELSE 6 * i.delight + 4 * i.novelty
<1>1. Call(c) /\ ask[c].status = "ok" /\ rules \in Rules
  BY DEF BrainInv, BrainShape, Ask, Call, StoredAs
<1>2. said \in Seq(Items) /\ rows = run_pipeline(said, rules)
  BY <1>1 DEF Call, Answered, StoredAs, ToStore
<1>3. /\ hates = rules.never /\ rules.history = (IF ask[c].tier = "free" THEN {} ELSE given)
      /\ ask[c].tier = "free" => ~rules.bold
  BY <1>1 DEF Call, Sent
<1>4. \A i \in Items : i.price \in Nat
  BY Zenon, GiftBrainAssumption DEF GiftBrainAssumption
<1>5. \A i \in Items : fits(i) <=> Allowed(i, rules)
  <2> SUFFICES ASSUME NEW i \in Items
               PROVE  fits(i) <=> Allowed(i, rules)
    OBVIOUS
  <2>1. i.price * 100 <= Budget * 110 <=> 10 * i.price <= 11 * Budget
    BY <1>4, GiftBrainAssumption DEF GiftBrainAssumption
  <2>2. (ask[c].tier # "free" => ~\E t \in given : <<i.title, t>> \in Alike)
          <=> \A t \in rules.history : <<i.title, t>> \notin Alike
    BY <1>3
  <2> QED
    BY <1>3, <2>1, <2>2 DEF Allowed
<1>6. rules.bold \in BOOLEAN
  BY <1>1 DEF Rules
<1> HIDE DEF fits, rows, said, rules
<1>7. /\ rows \in Seq(Items) /\ Len(rows) = Cardinality({k \in DOMAIN said : Allowed(said[k], rules)})
      /\ ToSet(rows) = {i \in ToSet(said) : Allowed(i, rules)}
      /\ \A k \in 1 .. Len(rows) - 1 : Score(rows[k], rules.bold) >= Score(rows[k + 1], rules.bold)
  <2>0. said \in Seq(Items)
    BY <1>2
  <2>1. run_pipeline(said, rules) \in Seq(Items)
    BY <1>2, <1>6, PipelineIsAList
  <2>2. Len(run_pipeline(said, rules)) = Cardinality({k \in DOMAIN said : Allowed(said[k], rules)})
    BY <1>6, <2>0, PipelineCounts
  <2>3. \A i \in ToSet(said) : Allowed(i, rules) => i \in ToSet(run_pipeline(said, rules))
    BY <1>6, <2>0, PipelineKeeps
  <2>4. \A i \in ToSet(run_pipeline(said, rules)) : i \in ToSet(said) /\ Allowed(i, rules)
    BY <1>6, <2>0, PipelineKeeps
  <2>5. \A k \in 1 .. Len(run_pipeline(said, rules)) - 1 :
           Score(run_pipeline(said, rules)[k], rules.bold) >= Score(run_pipeline(said, rules)[k + 1], rules.bold)
    BY <1>6, <2>0, PipelineSorts
  <2>6. ToSet(rows) = {i \in ToSet(said) : Allowed(i, rules)}
    BY <1>2, <2>3, <2>4
  <2> QED
    BY <1>2, <2>1, <2>2, <2>5, <2>6
<1>8. {i \in ToSet(said) : Allowed(i, rules)} = {i \in ToSet(said) : fits(i)}
  BY <1>2, <1>5 DEF ToSet
<1>9. {k \in DOMAIN said : Allowed(said[k], rules)} = {k \in DOMAIN said : fits(said[k])}
  BY <1>2, <1>5
<1>10. \A i : value(i) = Score(i, rules.bold)
  BY DEF Score, rules
<1> QED
  BY <1>3, <1>7, <1>8, <1>9, <1>10 DEF fits, rows, said, rules

LEMMA PagesCount == BrainInv => PagesCountAlone
<1> SUFFICES ASSUME BrainInv, NEW c \in Asks, ask[c].endpoint = "parse", ask[c].status \notin {"none", "422"}
             PROVE  /\ ask[c].status = "ok" /\ Len(work[c].said) = work[c].urls
                    /\ kept[c].told = "ok" =>
                         Len(kept[c].rows) = Cardinality({k \in 1 .. work[c].urls : "sure" \in work[c].said[k]})
  BY DEF PagesCountAlone
<1>1. /\ ask[c].status = "ok" /\ ask[c].body = work[c].said
      /\ work[c].said \in Seq(SUBSET Marks) /\ Len(work[c].said) = work[c].urls
  BY DEF BrainInv, Call, Answered
<1>2. kept[c].told = "ok" => kept[c].rows = Sure(work[c].said)
  BY <1>1 DEF BrainInv, Call, StoredAs, ToStore
<1> QED
  BY <1>1, <1>2, SureOnes

\* Whatever overlaps, times out or is asked for again: what is stored of an
\* answer is what the rules sent with the call leave of it, best first, and
\* the pages of a wishlist count each for itself (run_pipeline,
\* parse_wishlist), for any answers, scores, lists, retries and time limits.
THEOREM AnswersFit == BrainSpec => []AnswersFitTheCall
<1>1. BrainSpec => []BrainInv
  BY BrainStarts, BrainGoesOn, PTL DEF BrainSpec
<1>2. BrainInv => AnswersFitTheCall
  BY ServedFit, PagesCount DEF AnswersFitTheCall
<1> QED
  BY <1>1, <1>2, PTL

-----------------------------------------------------------------------------
(* The search for products (ProductSearch).                                *)

LookupShape ==
  /\ DOMAIN lookup = {"pc", "hits", "clock", "status", "link", "row"}
  /\ lookup.pc \in {"idle", "query", "check", "found", "done"}
  /\ lookup.hits \in Seq(Hits) /\ lookup.clock \in Nat
  /\ DOMAIN lookup.status = DOMAIN lookup.hits /\ DOMAIN pages = DOMAIN lookup.hits
  /\ \A i \in DOMAIN lookup.hits : lookup.status[i] \in {"open", "live", "gone", "unknown"}
  /\ lookup.pc \in {"idle", "query"} =>
       lookup.clock = 0 /\ lookup.hits = <<>> /\ lookup.link = NoLink

\* Hits with a picture are asked for before the others.
PhotosLead ==
  \A i, j \in DOMAIN lookup.hits : i < j /\ lookup.hits[j].photo => lookup.hits[i].photo

\* A page that has answered is known to be gone if it is; one that has not at
\* the abort is too slow.
PagesTold ==
  \A i \in DOMAIN lookup.hits :
    /\ lookup.status[i] # "open" => (lookup.status[i] = "gone" <=> pages[i] = "gone")
    /\ lookup.status[i] = "open" /\ lookup.clock >= AbortAfter => pages[i] \in {"slow", "stuck"}

LookupInv == LookupShape /\ PhotosLead /\ PagesTold /\ LinksAreUsable

LEMMA PhotosFirstOrders ==
  ASSUME NEW answer \in Seq(Hits), NEW relevant \in SUBSET DOMAIN answer
  PROVE  Orders(relevant, PhotosFirst(answer, relevant))
<1> DEFINE photo(k) == answer[k].photo
<1>1. \A k \in relevant : photo(k) \in BOOLEAN /\ k \in Nat
  <2> SUFFICES ASSUME NEW k \in relevant
               PROVE  photo(k) \in BOOLEAN /\ k \in Nat
    OBVIOUS
  <2>1. answer[k] \in Hits /\ k \in Nat
    OBVIOUS
  <2> QED
    BY Zenon, <2>1, ProductSearchAssumption DEF ProductSearchAssumption
<1>2. \A a, b \in relevant : <<a, b>> \in PhotosFirst(answer, relevant)
                               <=> (photo(a) /\ ~photo(b)) \/ (photo(a) = photo(b) /\ a < b)
  BY DEF PhotosFirst
<1> HIDE DEF photo
<1> QED
  BY <1>1, <1>2 DEF Orders

LEMMA LookupHitsFits ==
  ASSUME LookupInv, NEW answer \in Seq(Hits), LookupHits(answer)
  PROVE  LookupInv'
<1> DEFINE relevant == {i \in DOMAIN answer : isRelevantCandidate(answer[i])}
           order == PhotosFirst(answer, relevant)
           ordered == Picked(answer, relevant, order)
           f == InOrder(relevant, order)
           N == Cardinality(relevant)
<1>1. relevant \in SUBSET DOMAIN answer
  OBVIOUS
<1>2. Orders(relevant, order)
  BY <1>1, PhotosFirstOrders
<1>3. /\ lookup.pc = "query" /\ lookup.clock = 0 /\ lookup.hits = <<>> /\ lookup.link = NoLink
  BY DEF LookupHits, LookupInv, LookupShape
<1>4. CASE ordered = <<>>
  <2>1. lookup' = [lookup EXCEPT !.pc = "found", !.link = NoLink] /\ UNCHANGED pages
    BY <1>4 DEF LookupHits, LookupFound
  <2>2. LookupShape'
    BY <1>3, <2>1 DEF LookupInv, LookupShape
  <2>3. lookup'.hits = <<>> /\ lookup'.link = NoLink /\ lookup'.pc = "found"
    BY <1>3, <2>1 DEF LookupInv, LookupShape
  <2>4. PhotosLead' /\ PagesTold'
    BY <2>3 DEF PhotosLead, PagesTold
  <2>5. LinksAreUsable'
    BY <2>3 DEF LinksAreUsable
  <2> QED
    BY <2>2, <2>4, <2>5 DEF LookupInv
<1>5. CASE ordered # <<>>
  <2>1. /\ lookup' = [lookup EXCEPT !.pc = "check", !.hits = ordered,
                                    !.status = [i \in DOMAIN ordered |-> "open"]]
        /\ pages' \in [DOMAIN ordered -> Behaviours]
    BY <1>5 DEF LookupHits
  <2> HIDE DEF ordered, relevant, order
  <2>2. Picked(answer, relevant, order) \in Seq(Hits)
    BY <1>1, <1>2, PickedIsAList
  <2>3. N \in Nat /\ DOMAIN Picked(answer, relevant, order) = 1 .. N /\ f \in [1 .. N -> relevant]
    BY <1>1, <1>2, PickedIsAList
  <2>4. \A n \in 1 .. N : Picked(answer, relevant, order)[n] = answer[f[n]]
    BY <1>1, <1>2, PickedIsAList
  <2>5. \A n, m \in 1 .. N : n < m => <<f[n], f[m]>> \in order
    BY <1>1, <1>2, PickedIsAList
  <2>6. ordered \in Seq(Hits) /\ DOMAIN ordered = 1 .. N /\ \A n \in 1 .. N : ordered[n] = answer[f[n]]
    BY <2>2, <2>3, <2>4 DEF ordered
  <2>7. \A a, b \in relevant : <<a, b>> \in order /\ answer[b].photo => answer[a].photo
    BY DEF order, PhotosFirst
  <2> HIDE DEF f, N
  <2>8. \A i, j \in DOMAIN ordered : i < j /\ ordered[j].photo => ordered[i].photo
    BY <2>3, <2>5, <2>6, <2>7
  <2>9. /\ lookup'.hits = ordered /\ lookup'.pc = "check" /\ lookup'.clock = 0
        /\ lookup'.status = [i \in DOMAIN ordered |-> "open"]
        /\ DOMAIN lookup' = {"pc", "hits", "clock", "status", "link", "row"}
    BY <1>3, <2>1 DEF LookupInv, LookupShape
  <2>10. LookupShape'
    BY <2>1, <2>6, <2>9 DEF LookupShape
  <2>11. PhotosLead'
    BY <2>8, <2>9 DEF PhotosLead
  <2>12. PagesTold'
    BY <2>9, ProductSearchAssumption DEF PagesTold, ProductSearchAssumption
  <2>13. LinksAreUsable'
    BY <2>9, ProductSearchAssumption DEF LinksAreUsable, ProductSearchAssumption
  <2> QED
    BY <2>10, <2>11, <2>12, <2>13 DEF LookupInv
<1> QED
  BY <1>4, <1>5

\* A page that answers, or that the abort or the deadline gives up.
LEMMA PageFits ==
  ASSUME LookupInv, NEW i \in DOMAIN lookup.hits, PageAnswers(i) \/ PageTimeout(i)
  PROVE  LookupInv'
<1>1. lookup.pc = "check" /\ lookup.status[i] = "open"
  BY DEF PageAnswers, PageTimeout
<1>2. PICK status \in {"live", "gone", "unknown"} : PageIs(i, status) /\ (status = "gone" <=> pages[i] = "gone")
  <2>1. CASE PageAnswers(i)
    BY <2>1 DEF PageAnswers
  <2>2. CASE PageTimeout(i)
    <3>1. lookup.clock >= AbortAfter
      BY <2>2, ProductSearchAssumption DEF PageTimeout, Fires, ProductSearchAssumption, LookupInv, LookupShape
    <3>2. pages[i] \in {"slow", "stuck"}
      BY <1>1, <3>1 DEF LookupInv, PagesTold
    <3> QED
      BY <2>2, <3>2 DEF PageTimeout
  <2> QED
    BY <2>1, <2>2
<1>3. /\ lookup'.pc = "check" /\ lookup'.hits = lookup.hits /\ lookup'.clock = lookup.clock
      /\ lookup'.link = lookup.link /\ UNCHANGED pages
      /\ lookup'.status = [lookup.status EXCEPT ![i] = status]
      /\ DOMAIN lookup' = DOMAIN lookup
  BY <1>1, <1>2 DEF PageIs, LookupInv, LookupShape
<1>4. \A j \in DOMAIN lookup.hits : lookup'.status[j] = IF j = i THEN status ELSE lookup.status[j]
  BY <1>3 DEF LookupInv, LookupShape
<1>5. LookupShape'
  BY <1>2, <1>3, <1>4 DEF LookupInv, LookupShape
<1>6. PhotosLead'
  BY <1>3 DEF LookupInv, PhotosLead
<1>7. PagesTold'
  BY <1>2, <1>3, <1>4 DEF LookupInv, PagesTold
<1>8. LinksAreUsable'
  BY <1>1, <1>3 DEF LookupInv, LinksAreUsable
<1> QED
  BY <1>5, <1>6, <1>7, <1>8 DEF LookupInv

LEMMA TimeFits ==
  ASSUME LookupInv, LookupTick
  PROVE  LookupInv'
<1>1. /\ lookup.pc = "check" /\ lookup.clock \in Nat /\ AbortAfter \in Nat /\ HardDeadline \in Nat
      /\ lookup.clock <= HardDeadline
  BY ProductSearchAssumption DEF LookupTick, LookupInv, LookupShape, ProductSearchAssumption
<1>2. lookup.clock # HardDeadline
  BY DEF LookupTick, Fires
<1>3. /\ lookup'.pc = "check" /\ lookup'.hits = lookup.hits /\ lookup'.clock = lookup.clock + 1
      /\ lookup'.link = lookup.link /\ UNCHANGED pages
      /\ lookup'.status = lookup.status /\ DOMAIN lookup' = DOMAIN lookup
  BY <1>1 DEF LookupTick, LookupInv, LookupShape
<1>4. LookupShape'
  BY <1>1, <1>3 DEF LookupInv, LookupShape
<1>5. PhotosLead'
  BY <1>3 DEF LookupInv, PhotosLead
<1>6. \A i \in DOMAIN lookup.hits :
        lookup.status[i] = "open" /\ lookup.clock + 1 = AbortAfter => pages[i] \in {"slow", "stuck"}
  BY DEF LookupTick
<1>7. lookup.clock + 1 >= AbortAfter => lookup.clock + 1 = AbortAfter \/ lookup.clock >= AbortAfter
  BY <1>1
<1>8. PagesTold'
  BY <1>3, <1>6, <1>7 DEF LookupInv, PagesTold
<1>9. LinksAreUsable'
  BY <1>1, <1>2, <1>3 DEF LinksAreUsable
<1> QED
  BY <1>4, <1>5, <1>8, <1>9 DEF LookupInv

LEMMA ChoiceFits ==
  ASSUME LookupInv, LookupChoose
  PROVE  LookupInv'
<1> DEFINE shown == {i \in DOMAIN lookup.hits : Shown(i)}
           gone == {i \in DOMAIN lookup.hits : pages[i] = "gone"}
<1>1. lookup.pc = "check" /\ \A i \in DOMAIN lookup.hits : lookup.status[i] # "open"
  BY DEF LookupChoose
<1>2. \A i \in DOMAIN lookup.hits : Shown(i) <=> pages[i] # "gone"
  BY <1>1 DEF LookupInv, PagesTold, Shown
<1>3. shown = DOMAIN lookup.hits \ gone
  BY <1>2
<1>4. PICK link : LookupFound(link) /\ UNCHANGED pages
                  /\ \/ shown = {} /\ link = NoLink
                     \/ \E i \in shown : /\ link.hit = lookup.hits[i] /\ link.photo = lookup.hits[i].photo
                                         /\ \A j \in shown : i <= j
  <2>1. CASE shown = {}
    BY <2>1 DEF LookupChoose
  <2>2. CASE shown # {}
    <3> DEFINE first == CHOOSE i \in shown : \A j \in shown : i <= j
               best == lookup.hits[first]
    <3>1. Len(lookup.hits) \in Nat /\ shown \in SUBSET (1 .. Len(lookup.hits))
      BY DEF LookupInv, LookupShape
    <3>2. \E i \in shown : \A j \in shown : i <= j
      BY <2>2, <3>1, SmallestExists
    <3>3. first \in shown /\ \A j \in shown : first <= j
      BY <3>2
    <3>4. LookupFound([hit |-> best, photo |-> best.photo, price |-> pickBestPrice(best.prices, estimate)])
          /\ UNCHANGED pages
      BY <2>2 DEF LookupChoose
    <3> QED
      BY <3>3, <3>4
  <2> QED
    BY <2>1, <2>2
<1>5. /\ lookup'.pc = "found" /\ lookup'.hits = lookup.hits /\ lookup'.clock = lookup.clock
      /\ lookup'.link = link /\ pages' = pages /\ lookup'.status = lookup.status /\ DOMAIN lookup' = DOMAIN lookup
  BY <1>1, <1>4 DEF LookupFound, LookupInv, LookupShape
<1>6. LookupShape'
  BY <1>5 DEF LookupInv, LookupShape
<1>7. PhotosLead'
  BY <1>5 DEF LookupInv, PhotosLead
<1>8. PagesTold'
  BY <1>5 DEF LookupInv, PagesTold
<1>9. \/ shown = {} /\ link = NoLink
      \/ \E i \in shown : /\ link.hit = lookup.hits[i] /\ 1 .. i - 1 \subseteq gone
                          /\ (\E j \in shown : lookup.hits[j].photo) => link.photo
  <2>1. CASE shown = {} /\ link = NoLink
    BY <2>1
  <2>2. ASSUME NEW i \in shown, link.hit = lookup.hits[i], link.photo = lookup.hits[i].photo,
               \A j \in shown : i <= j
        PROVE  1 .. i - 1 \subseteq gone /\ ((\E j \in shown : lookup.hits[j].photo) => link.photo)
    <3>1. i \in DOMAIN lookup.hits /\ DOMAIN lookup.hits = 1 .. Len(lookup.hits) /\ Len(lookup.hits) \in Nat
      BY DEF LookupInv, LookupShape
    <3>2. \A j \in 1 .. i - 1 : j \in DOMAIN lookup.hits /\ j \notin shown
      BY <2>2, <3>1
    <3>3. 1 .. i - 1 \subseteq gone
      BY <1>3, <3>2
    <3>4. ASSUME NEW j \in shown, lookup.hits[j].photo
          PROVE  link.photo
      <4>1. j = i \/ i < j
        BY <2>2, <3>1
      <4> QED
        BY <2>2, <3>4, <4>1, <3>1 DEF LookupInv, PhotosLead
    <3> QED
      BY <3>3, <3>4
  <2> QED
    BY <1>4, <2>1, <2>2
<1>10. LinksAreUsable'
  BY <1>3, <1>5, <1>9 DEF LinksAreUsable
<1> QED
  BY <1>6, <1>7, <1>8, <1>10 DEF LookupInv

LEMMA LookupStarts == SearchInit => LookupInv
BY ProductSearchAssumption
   DEF SearchInit, LookupInv, LookupShape, PhotosLead, PagesTold, LinksAreUsable, ProductSearchAssumption

\* The steps that leave the hits and the pages alone.
LEMMA OtherLookupsFit ==
  ASSUME LookupInv, LookupStart \/ LookupFails \/ EnrichStore \/ EnrichFails \/ UNCHANGED <<lookup, pages>>
  PROVE  LookupInv'
<1>1. CASE LookupStart
  <2>1. /\ lookup'.pc = "query" /\ lookup'.hits = lookup.hits /\ lookup'.clock = lookup.clock
        /\ lookup'.link = lookup.link /\ UNCHANGED pages /\ lookup'.status = lookup.status
        /\ DOMAIN lookup' = DOMAIN lookup /\ lookup.pc = "idle"
    BY <1>1 DEF LookupStart, LookupInv, LookupShape
  <2> QED
    BY <2>1 DEF LookupInv, LookupShape, PhotosLead, PagesTold, LinksAreUsable
<1>2. CASE LookupFails
  <2>1. /\ lookup'.pc = "found" /\ lookup'.hits = lookup.hits /\ lookup'.clock = lookup.clock
        /\ lookup'.link = NoLink /\ UNCHANGED pages /\ lookup'.status = lookup.status
        /\ DOMAIN lookup' = DOMAIN lookup /\ lookup.hits = <<>>
    BY <1>2 DEF LookupFails, LookupFound, LookupInv, LookupShape
  <2> QED
    BY <2>1 DEF LookupInv, LookupShape, PhotosLead, PagesTold, LinksAreUsable
<1>3. CASE EnrichStore \/ EnrichFails
  <2>1. /\ lookup'.pc = "done" /\ lookup'.hits = lookup.hits /\ lookup'.clock = lookup.clock
        /\ lookup'.link = lookup.link /\ UNCHANGED pages /\ lookup'.status = lookup.status
        /\ DOMAIN lookup' = DOMAIN lookup /\ lookup.pc = "found"
    BY <1>3 DEF EnrichStore, EnrichFails, LookupInv, LookupShape
  <2> QED
    BY <2>1 DEF LookupInv, LookupShape, PhotosLead, PagesTold, LinksAreUsable
<1>4. CASE UNCHANGED <<lookup, pages>>
  BY <1>4 DEF LookupInv, LookupShape, PhotosLead, PagesTold, LinksAreUsable
<1> QED
  BY <1>1, <1>2, <1>3, <1>4

-----------------------------------------------------------------------------
(* What the offers are made of.                                            *)

LEMMA HitsAreHits ==
  ASSUME NEW h \in Hits
  PROVE  h.prices \in Seq(Nat \ {0}) /\ h.photo \in BOOLEAN
BY Zenon, ProductSearchAssumption DEF ProductSearchAssumption

LEMMA EstimatesAreNumbers ==
  ASSUME NEW e \in Estimates
  PROVE  e.low \in Nat /\ e.high \in Nat
BY Zenon, ProductSearchAssumption DEF ProductSearchAssumption

LEMMA NearerOrders ==
  ASSUME NEW prices \in Seq(Nat \ {0}), NEW plausible \in SUBSET DOMAIN prices, NEW e \in Estimates
  PROVE  Orders(plausible, Nearer(prices, plausible, e))
<1> DEFINE far(k) == Distance(prices[k], e)
<1>1. \A k \in plausible : far(k) \in Nat /\ k \in Nat
  <2> SUFFICES ASSUME NEW k \in plausible
               PROVE  far(k) \in Nat /\ k \in Nat
    OBVIOUS
  <2>1. prices[k] \in Nat /\ k \in Nat
    OBVIOUS
  <2> QED
    BY <2>1, EstimatesAreNumbers DEF Distance
<1>2. \A a, b \in plausible : <<a, b>> \in Nearer(prices, plausible, e)
                                <=> far(a) < far(b) \/ (far(a) = far(b) /\ a < b)
  BY DEF Nearer
<1> HIDE DEF far
<1> QED
  BY <1>1, <1>2 DEF Orders

\* What is found of a price is one of the figures in the text.
LEMMA PricesAreNumbers ==
  ASSUME NEW prices \in Seq(Nat \ {0}), NEW e \in Estimates, pickBestPrice(prices, e) # NoPrice
  PROVE  pickBestPrice(prices, e) \in Nat
<1> DEFINE plausible == {k \in DOMAIN prices : isPlausiblePrice(prices[k], e)}
           order == Nearer(prices, plausible, e)
<1>1. plausible \in SUBSET DOMAIN prices /\ plausible # {}
  BY DEF pickBestPrice
<1>2. pickBestPrice(prices, e) = IF e.low = 0 THEN prices[1] ELSE prices[InOrder(plausible, order)[1]]
  BY <1>1 DEF pickBestPrice
<1>3. Orders(plausible, order) /\ IsFiniteSet(plausible)
  <2>1. Orders(plausible, order)
    BY <1>1, NearerOrders
  <2> HIDE DEF order, plausible
  <2>2. IsFiniteSet(plausible)
    BY <1>1, PlacesAreFinite
  <2> QED
    BY <2>1, <2>2
<1> HIDE DEF plausible, order
<1>4. PICK k \in DOMAIN prices : k \in plausible
  BY <1>1
<1>5. 1 \in DOMAIN prices
  BY <1>4
<1>6. InOrder(plausible, order)[1] \in plausible
  <2> DEFINE N == Cardinality(plausible)
             f == InOrder(plausible, order)
  <2>1. N \in Nat /\ f \in [1 .. N -> plausible] /\ \A a \in plausible : \E n \in 1 .. N : f[n] = a
    BY <1>3, InOrderIsAList
  <2> HIDE DEF N, f
  <2>2. 1 \in 1 .. N
    BY <1>4, <2>1
  <2>3. f[1] \in plausible
    BY <2>1, <2>2
  <2> QED
    BY <2>3 DEF f
<1>7. prices[1] \in Nat /\ prices[InOrder(plausible, order)[1]] \in Nat
  BY <1>1, <1>5, <1>6
<1> QED
  BY <1>2, <1>7

\* The candidates of a list of hits: of each shop the first usable hit.
Candidates(cs, hits, e) ==
  /\ cs \in Seq(Hits)
  /\ \A n \in DOMAIN cs : \E i \in FirstOfShops(hits, e) : cs[n] = hits[i]
  /\ \A i \in FirstOfShops(hits, e) : \E n \in DOMAIN cs : cs[n] = hits[i]
  /\ \A n, m \in DOMAIN cs : cs[n].shop = cs[m].shop => n = m

LEMMA OneOfEachShop ==
  ASSUME NEW hits \in Seq(Hits), NEW e,
         NEW i \in FirstOfShops(hits, e), NEW j \in FirstOfShops(hits, e), hits[i].shop = hits[j].shop
  PROVE  i = j
<1>1. i \in Nat /\ j \in Nat /\ i \in DOMAIN hits /\ j \in DOMAIN hits
  BY DEF FirstOfShops
<1>2. Usable(hits[i], e) /\ Usable(hits[j], e)
  BY DEF FirstOfShops
<1>3. ~(i \in 1 .. j - 1) /\ ~(j \in 1 .. i - 1)
  BY <1>2 DEF FirstOfShops
<1>4. i >= 1 /\ j >= 1
  BY <1>1
<1> QED
  BY <1>1, <1>3, <1>4

\* A shop with a usable hit has a first one.
LEMMA FirstExists ==
  ASSUME NEW hits \in Seq(Hits), NEW e, NEW k \in DOMAIN hits, Usable(hits[k], e)
  PROVE  \E i \in FirstOfShops(hits, e) : hits[i].shop = hits[k].shop /\ i <= k
<1> DEFINE same == {i \in 1 .. Len(hits) : hits[i].shop = hits[k].shop /\ Usable(hits[i], e)}
<1>1. Len(hits) \in Nat /\ DOMAIN hits = 1 .. Len(hits)
  OBVIOUS
<1>2. same \in SUBSET (1 .. Len(hits)) /\ k \in same
  BY <1>1
<1> HIDE DEF same
<1>3. PICK i \in same : \A j \in same : i <= j
  BY <1>1, <1>2, SmallestExists
<1>4. \A j \in 1 .. i - 1 : j \notin same /\ j \in 1 .. Len(hits)
  BY <1>1, <1>2, <1>3
<1>5. i \in FirstOfShops(hits, e)
  BY <1>1, <1>3, <1>4 DEF FirstOfShops, same
<1> QED
  BY <1>2, <1>3, <1>5 DEF same

\* buildCandidates, and what it adds to the shops that were seen.
LEMMA BuildPicks ==
  ASSUME NEW answer \in Seq(Hits), NEW seen, NEW e
  PROVE  /\ buildCandidates(answer, seen, e) \in Seq(Hits)
         /\ \A n \in DOMAIN buildCandidates(answer, seen, e) :
              \E i \in FirstOfShops(answer, e) :
                answer[i].shop \notin seen /\ buildCandidates(answer, seen, e)[n] = answer[i]
         /\ \A i \in FirstOfShops(answer, e) : answer[i].shop \notin seen =>
              \E n \in DOMAIN buildCandidates(answer, seen, e) : buildCandidates(answer, seen, e)[n] = answer[i]
         /\ \A n, m \in DOMAIN buildCandidates(answer, seen, e) :
              buildCandidates(answer, seen, e)[n].shop = buildCandidates(answer, seen, e)[m].shop => n = m
<1> DEFINE first == {i \in FirstOfShops(answer, e) : answer[i].shop \notin seen}
           order == Earlier(first)
           cs == Picked(answer, first, order)
           f == InOrder(first, order)
           N == Cardinality(first)
<1>0. first \in SUBSET Nat
  BY DEF FirstOfShops
<1>1. first \in SUBSET DOMAIN answer
  BY DEF FirstOfShops
<1>2. buildCandidates(answer, seen, e) = cs
  BY DEF buildCandidates
<1>3. \A i \in first : i \in FirstOfShops(answer, e) /\ answer[i].shop \notin seen
  OBVIOUS
<1>4. \A i \in FirstOfShops(answer, e) : answer[i].shop \notin seen => i \in first
  OBVIOUS
<1> HIDE DEF first
<1>5. Orders(first, order)
  BY <1>0, EarlierOrders
<1> HIDE DEF order
<1>6. Picked(answer, first, order) \in Seq(Hits)
  BY <1>1, <1>5, PickedIsAList
<1>7. DOMAIN Picked(answer, first, order) = 1 .. N /\ f \in [1 .. N -> first]
  BY <1>1, <1>5, PickedIsAList
<1>8. \A n \in 1 .. N : Picked(answer, first, order)[n] = answer[f[n]]
  BY <1>1, <1>5, PickedIsAList
<1>9. \A n, m \in 1 .. N : f[n] = f[m] => n = m
  BY <1>1, <1>5, PickedIsAList
<1>10. \A k \in first : \E n \in 1 .. N : Picked(answer, first, order)[n] = answer[k]
  BY <1>1, <1>5, PickedIsAList
<1>11. /\ cs \in Seq(Hits) /\ DOMAIN cs = 1 .. N /\ \A n \in 1 .. N : cs[n] = answer[f[n]]
       /\ \A k \in first : \E n \in 1 .. N : cs[n] = answer[k]
  BY <1>6, <1>7, <1>8, <1>10
<1> HIDE DEF cs, f, N
<1>12. \A n \in DOMAIN cs : \E i \in FirstOfShops(answer, e) : answer[i].shop \notin seen /\ cs[n] = answer[i]
  BY <1>3, <1>7, <1>11
<1>13. \A i \in FirstOfShops(answer, e) : answer[i].shop \notin seen => \E n \in DOMAIN cs : cs[n] = answer[i]
  BY <1>4, <1>11
<1>14. \A n, m \in DOMAIN cs : cs[n].shop = cs[m].shop => n = m
  <2> SUFFICES ASSUME NEW n \in DOMAIN cs, NEW m \in DOMAIN cs, cs[n].shop = cs[m].shop
               PROVE  n = m
    OBVIOUS
  <2>1. /\ f[n] \in FirstOfShops(answer, e) /\ f[m] \in FirstOfShops(answer, e)
        /\ answer[f[n]].shop = answer[f[m]].shop
    BY <1>3, <1>7, <1>11
  <2>2. f[n] = f[m]
    BY <2>1, OneOfEachShop
  <2> QED
    BY <1>9, <1>11, <2>2
<1> QED
  BY <1>2, <1>11, <1>12, <1>13, <1>14

LEMMA FirstAnswer ==
  ASSUME NEW answer \in Seq(Hits), NEW e
  PROVE  Candidates(buildCandidates(answer, {}, e), answer, e)
<1> DEFINE cs == buildCandidates(answer, {}, e)
<1>1. cs \in Seq(Hits)
  BY BuildPicks
<1>2. \A n \in DOMAIN cs : \E i \in FirstOfShops(answer, e) : answer[i].shop \notin {} /\ cs[n] = answer[i]
  BY BuildPicks
<1>3. \A i \in FirstOfShops(answer, e) : answer[i].shop \notin {} => \E n \in DOMAIN cs : cs[n] = answer[i]
  BY BuildPicks
<1>4. \A n, m \in DOMAIN cs : cs[n].shop = cs[m].shop => n = m
  BY BuildPicks
<1> HIDE DEF cs
<1>5. Candidates(cs, answer, e)
  BY <1>1, <1>2, <1>3, <1>4 DEF Candidates
<1> QED
  BY <1>5 DEF cs

\* mergeCandidates: the candidates of two answers are those of the one list
\* that has the second behind the first.
LEMMA MergedAnswers ==
  ASSUME NEW a \in Seq(Hits), NEW b \in Seq(Hits), NEW e, NEW cs, Candidates(cs, a, e)
  PROVE  Candidates(mergeCandidates(cs, b, e), a \o b, e)
<1> DEFINE h == a \o b
           la == Len(a)
           seen == Shops(cs)
           new == buildCandidates(b, seen, e)
           all == cs \o new
<1>1. /\ h \in Seq(Hits) /\ la \in Nat /\ Len(b) \in Nat /\ DOMAIN h = 1 .. la + Len(b)
      /\ DOMAIN a = 1 .. la /\ DOMAIN b = 1 .. Len(b)
      /\ \A i \in 1 .. la : h[i] = a[i]
      /\ \A i \in 1 .. Len(b) : h[la + i] = b[i]
  OBVIOUS
<1>2. cs \in Seq(Hits)
  BY DEF Candidates
<1>3. \A k \in DOMAIN a : Usable(a[k], e) => a[k].shop \in seen
  <2> SUFFICES ASSUME NEW k \in DOMAIN a, Usable(a[k], e)
               PROVE  a[k].shop \in Shops(cs)
    OBVIOUS
  <2>1. PICK i \in FirstOfShops(a, e) : a[i].shop = a[k].shop
    BY FirstExists
  <2>2. PICK n \in DOMAIN cs : cs[n] = a[i]
    BY DEF Candidates
  <2>3. cs[n] \in ToSet(cs)
    BY DEF ToSet
  <2> QED
    BY <2>1, <2>2, <2>3 DEF Shops
<1>4. \A s \in seen : \E i \in FirstOfShops(a, e) : a[i].shop = s
  <2> SUFFICES ASSUME NEW s \in Shops(cs)
               PROVE  \E i \in FirstOfShops(a, e) : a[i].shop = s
    OBVIOUS
  <2>1. PICK n \in DOMAIN cs : cs[n].shop = s
    BY DEF Shops, ToSet
  <2> QED
    BY <2>1 DEF Candidates
<1>5. new \in Seq(Hits)
  BY BuildPicks
<1>6. \A n \in DOMAIN new : \E i \in FirstOfShops(b, e) : b[i].shop \notin seen /\ new[n] = b[i]
  BY BuildPicks
<1>7. \A i \in FirstOfShops(b, e) : b[i].shop \notin seen => \E n \in DOMAIN new : new[n] = b[i]
  BY BuildPicks
<1>8. \A n, m \in DOMAIN new : new[n].shop = new[m].shop => n = m
  BY BuildPicks
<1>9. /\ all \in Seq(Hits) /\ DOMAIN all = 1 .. Len(cs) + Len(new) /\ Len(cs) \in Nat /\ Len(new) \in Nat
      /\ DOMAIN cs = 1 .. Len(cs) /\ DOMAIN new = 1 .. Len(new)
      /\ \A n \in 1 .. Len(cs) : all[n] = cs[n]
      /\ \A n \in 1 .. Len(new) : all[Len(cs) + n] = new[n]
  <2> HIDE DEF new
  <2> QED
    BY <1>2, <1>5
<1>10. mergeCandidates(cs, b, e) = all
  BY DEF mergeCandidates
<1>11. \A n \in DOMAIN cs : cs[n].shop \in seen
  BY DEF Shops, ToSet
<1> HIDE DEF h, la, seen, new, all
<1>12. \A i \in FirstOfShops(a, e) : i \in FirstOfShops(h, e)
  <2> SUFFICES ASSUME NEW i \in FirstOfShops(a, e)
               PROVE  i \in FirstOfShops(h, e)
    OBVIOUS
  <2>1. i \in 1 .. la /\ i \in DOMAIN h /\ h[i] = a[i]
    BY <1>1 DEF FirstOfShops
  <2>2. \A j \in 1 .. i - 1 : h[j] = a[j]
    BY <1>1, <2>1
  <2> QED
    BY <2>1, <2>2 DEF FirstOfShops
<1>13. \A i \in FirstOfShops(b, e) : b[i].shop \notin seen => la + i \in FirstOfShops(h, e)
  <2> SUFFICES ASSUME NEW i \in FirstOfShops(b, e), b[i].shop \notin seen
               PROVE  la + i \in FirstOfShops(h, e)
    OBVIOUS
  <2>1. i \in 1 .. Len(b) /\ la + i \in DOMAIN h /\ h[la + i] = b[i] /\ Usable(b[i], e)
    BY <1>1 DEF FirstOfShops
  <2>2. ASSUME NEW j \in 1 .. la + i - 1, h[j].shop = h[la + i].shop
        PROVE  ~Usable(h[j], e)
    <3>1. CASE j \in 1 .. la
      BY <1>1, <1>3, <2>1, <2>2, <3>1
    <3>2. CASE j \notin 1 .. la
      <4>1. j - la \in 1 .. i - 1 /\ j = la + (j - la) /\ j - la \in 1 .. Len(b)
        BY <1>1, <2>1, <3>2
      <4>2. h[j] = b[j - la]
        BY <1>1, <4>1
      <4> QED
        BY <2>1, <2>2, <4>1, <4>2 DEF FirstOfShops
    <3> QED
      BY <3>1, <3>2
  <2>3. Usable(h[la + i], e)
    BY <2>1
  <2> DEFINE k == la + i
  <2> HIDE DEF k
  <2>4. k \in DOMAIN h /\ Usable(h[k], e)
    BY <2>1, <2>3 DEF k
  <2>6. ASSUME NEW j \in 1 .. k - 1, h[j].shop = h[k].shop
        PROVE  ~Usable(h[j], e)
    <3>1. k = la + i
      BY DEF k
    <3>2. j \in 1 .. la + i - 1
      BY <1>1, <2>1, <3>1
    <3>3. h[j].shop = h[la + i].shop
      BY <2>6, <3>1
    <3> QED
      BY <2>2, <3>2, <3>3
  <2>5. k \in FirstOfShops(h, e)
    BY <2>4, <2>6 DEF FirstOfShops
  <2> QED
    BY <2>5 DEF k
<1>14. ASSUME NEW k \in FirstOfShops(h, e)
       PROVE  \/ k \in FirstOfShops(a, e) /\ h[k] = a[k]
              \/ \E i \in FirstOfShops(b, e) : b[i].shop \notin seen /\ h[k] = b[i]
  <2>1. /\ k \in 1 .. la + Len(b) /\ Usable(h[k], e)
        /\ \A j \in 1 .. k - 1 : h[j].shop = h[k].shop => ~Usable(h[j], e)
    BY <1>1 DEF FirstOfShops
  <2>2. CASE k \in 1 .. la
    <3>1. \A j \in 1 .. k - 1 : h[j] = a[j]
      BY <1>1, <2>2
    <3> QED
      BY <1>1, <2>1, <2>2, <3>1 DEF FirstOfShops
  <2>3. CASE k \notin 1 .. la
    <3>1. k - la \in 1 .. Len(b) /\ k = la + (k - la)
      BY <1>1, <2>1, <2>3
    <3>2. h[k] = b[k - la]
      BY <1>1, <3>1
    <3>3. ASSUME NEW j \in 1 .. (k - la) - 1
          PROVE  la + j \in 1 .. k - 1 /\ h[la + j] = b[j]
      BY <1>1, <3>1
    <3>4. k - la \in FirstOfShops(b, e)
      BY <1>1, <2>1, <3>1, <3>2, <3>3 DEF FirstOfShops
    <3>5. b[k - la].shop \notin seen
      <4> SUFFICES ASSUME b[k - la].shop \in seen
                   PROVE  FALSE
        OBVIOUS
      <4>1. PICK i \in FirstOfShops(a, e) : a[i].shop = h[k].shop
        BY <1>4, <3>2
      <4>2. i \in 1 .. k - 1 /\ h[i] = a[i] /\ Usable(a[i], e)
        BY <1>1, <2>1, <2>3 DEF FirstOfShops
      <4> QED
        BY <2>1, <4>1, <4>2
    <3> QED
      BY <3>2, <3>4, <3>5
  <2> QED
    BY <2>2, <2>3
<1>15. \A n \in DOMAIN all : \E i \in FirstOfShops(h, e) : all[n] = h[i]
  <2> SUFFICES ASSUME NEW n \in DOMAIN all
               PROVE  \E i \in FirstOfShops(h, e) : all[n] = h[i]
    OBVIOUS
  <2>1. CASE n \in 1 .. Len(cs)
    <3>1. PICK i \in FirstOfShops(a, e) : cs[n] = a[i]
      BY <1>9, <2>1 DEF Candidates
    <3>2. i \in 1 .. la
      BY <1>1 DEF FirstOfShops
    <3> QED
      BY <1>1, <1>9, <1>12, <2>1, <3>1, <3>2
  <2>2. CASE n \notin 1 .. Len(cs)
    <3>1. n - Len(cs) \in 1 .. Len(new) /\ n = Len(cs) + (n - Len(cs))
      BY <1>9, <2>2
    <3>2. all[n] = new[n - Len(cs)]
      BY <1>9, <3>1
    <3>3. PICK i \in FirstOfShops(b, e) : b[i].shop \notin seen /\ new[n - Len(cs)] = b[i]
      BY <1>6, <1>9, <3>1
    <3>4. i \in 1 .. Len(b)
      BY <1>1 DEF FirstOfShops
    <3> QED
      BY <1>1, <1>13, <3>2, <3>3, <3>4
  <2> QED
    BY <2>1, <2>2
<1>16. \A i \in FirstOfShops(h, e) : \E n \in DOMAIN all : all[n] = h[i]
  <2> SUFFICES ASSUME NEW k \in FirstOfShops(h, e)
               PROVE  \E n \in DOMAIN all : all[n] = h[k]
    OBVIOUS
  <2>1. CASE k \in FirstOfShops(a, e) /\ h[k] = a[k]
    <3>1. PICK n \in DOMAIN cs : cs[n] = a[k]
      BY <2>1 DEF Candidates
    <3> QED
      BY <1>9, <2>1, <3>1
  <2>2. CASE \E i \in FirstOfShops(b, e) : b[i].shop \notin seen /\ h[k] = b[i]
    <3>1. PICK n \in DOMAIN new : new[n] = h[k]
      BY <1>7, <2>2
    <3>2. Len(cs) + n \in DOMAIN all /\ all[Len(cs) + n] = new[n]
      BY <1>9
    <3> QED
      BY <3>1, <3>2
  <2> QED
    BY <1>14, <2>1, <2>2
<1>17. \A n \in DOMAIN new : new[n].shop \notin seen
  BY <1>6
<1>18. ASSUME NEW n \in DOMAIN all, NEW m \in DOMAIN all, all[n].shop = all[m].shop
       PROVE  n = m
  <2>1. ASSUME NEW k \in DOMAIN all
        PROVE  \/ k \in DOMAIN cs /\ all[k] = cs[k]
               \/ k - Len(cs) \in DOMAIN new /\ all[k] = new[k - Len(cs)]
    <3>1. CASE k \in 1 .. Len(cs)
      BY <1>9, <3>1
    <3>2. CASE k \notin 1 .. Len(cs)
      <4>1. k - Len(cs) \in 1 .. Len(new) /\ k = Len(cs) + (k - Len(cs))
        BY <1>9, <3>2
      <4> QED
        BY <1>9, <4>1
    <3> QED
      BY <3>1, <3>2
  <2>2. n \in Int /\ m \in Int /\ Len(cs) \in Int
    BY <1>9
  <2>3. CASE n \in DOMAIN cs /\ all[n] = cs[n] /\ m \in DOMAIN cs /\ all[m] = cs[m]
    BY <1>18, <2>3 DEF Candidates
  <2>4. CASE /\ n - Len(cs) \in DOMAIN new /\ all[n] = new[n - Len(cs)]
             /\ m - Len(cs) \in DOMAIN new /\ all[m] = new[m - Len(cs)]
    <3>1. n - Len(cs) = m - Len(cs)
      BY <1>8, <1>18, <2>4
    <3> QED
      BY <2>2, <3>1
  <2> QED
    BY <1>11, <1>17, <1>18, <2>1, <2>3, <2>4
<1>19. Candidates(all, h, e)
  BY <1>9, <1>15, <1>16, <1>18 DEF Candidates
<1> QED
  BY <1>10, <1>19 DEF h

LEMMA CandidatesAreUsable ==
  ASSUME NEW cs, NEW hits \in Seq(Hits), NEW e \in Estimates, Candidates(cs, hits, e), NEW n \in DOMAIN cs
  PROVE  cs[n] \in Hits /\ pickBestPrice(cs[n].prices, e) \in Nat
<1>1. PICK i \in FirstOfShops(hits, e) : cs[n] = hits[i]
  BY DEF Candidates
<1>2. hits[i] \in Hits /\ pickBestPrice(hits[i].prices, e) # NoPrice
  BY DEF FirstOfShops, Usable
<1>3. hits[i].prices \in Seq(Nat \ {0})
  BY <1>2, HitsAreHits
<1> QED
  BY <1>1, <1>2, <1>3, PricesAreNumbers

\* As many candidates as shops with a usable hit.
LEMMA CandidatesCount ==
  ASSUME NEW cs, NEW hits \in Seq(Hits), NEW e, Candidates(cs, hits, e)
  PROVE  Len(cs) = Cardinality(FirstOfShops(hits, e))
<1> DEFINE first == FirstOfShops(hits, e)
           g == [n \in 1 .. Len(cs) |-> CHOOSE i \in first : cs[n] = hits[i]]
<1>1. Len(cs) \in Nat /\ DOMAIN cs = 1 .. Len(cs)
  BY DEF Candidates
<1>2. \A n \in 1 .. Len(cs) : \E i \in first : cs[n] = hits[i]
  BY <1>1 DEF Candidates
<1> HIDE DEF first
<1>3. \A n \in 1 .. Len(cs) : g[n] \in first /\ cs[n] = hits[g[n]]
  BY <1>2
<1>4. g \in [1 .. Len(cs) -> first]
  BY <1>3
<1> HIDE DEF g
<1>5. \A n, m \in 1 .. Len(cs) : g[n] = g[m] => n = m
  BY <1>1, <1>3 DEF Candidates
<1>6. \A i \in first : \E n \in 1 .. Len(cs) : g[n] = i
  <2> SUFFICES ASSUME NEW i \in first
               PROVE  \E n \in 1 .. Len(cs) : g[n] = i
    OBVIOUS
  <2>1. PICK n \in 1 .. Len(cs) : cs[n] = hits[i]
    BY <1>1 DEF Candidates, first
  <2>2. hits[g[n]].shop = hits[i].shop /\ g[n] \in FirstOfShops(hits, e)
    BY <1>3, <2>1 DEF first
  <2>3. g[n] = i
    BY <2>2, OneOfEachShop DEF first
  <2> QED
    BY <2>3
<1>7. g \in Bijection(1 .. Len(cs), first)
  BY <1>4, <1>5, <1>6 DEF Bijection, Injection, Surjection, IsInjective
<1>8. IsFiniteSet(1 .. Len(cs)) /\ Cardinality(1 .. Len(cs)) = Len(cs)
  BY <1>1, UpToCounts
<1>9. Cardinality(1 .. Len(cs)) = Cardinality(first)
  <2> DEFINE S == 1 .. Len(cs)
  <2>1. IsFiniteSet(S) /\ g \in Bijection(S, first)
    BY <1>7, <1>8
  <2> HIDE DEF S
  <2>2. Cardinality(S) = Cardinality(first)
    BY <2>1, FS_Bijection DEF ExistsBijection
  <2> QED
    BY <2>2 DEF S
<1> QED
  BY <1>8, <1>9 DEF first

-----------------------------------------------------------------------------
(* The offers are the first of the candidates, known shops and low prices  *)
(* first.                                                                  *)

LEMMA BeforeOrNot ==
  ASSUME NEW a, NEW b, NEW e, pickBestPrice(a.prices, e) \in Nat, pickBestPrice(b.prices, e) \in Nat,
         Before(a, b, e)
  PROVE  ~Before(b, a, e)
<1>1. Rank(a) \in Nat /\ Rank(b) \in Nat
  BY DEF Rank
<1> QED
  BY <1>1 DEF Before

LEMMA SoonerOrders ==
  ASSUME NEW cs, NEW hits \in Seq(Hits), NEW e \in Estimates, Candidates(cs, hits, e)
  PROVE  Orders(DOMAIN cs, Sooner(cs, e))
<1> DEFINE rank(k) == Rank(cs[k])
           price(k) == pickBestPrice(cs[k].prices, e)
           wins(a, b) == rank(a) < rank(b) \/ (rank(a) = rank(b) /\ price(a) < price(b))
<1>1. \A k \in DOMAIN cs : rank(k) \in Nat /\ price(k) \in Nat /\ k \in Nat
  <2> SUFFICES ASSUME NEW k \in DOMAIN cs
               PROVE  rank(k) \in Nat /\ price(k) \in Nat /\ k \in Nat
    OBVIOUS
  <2>1. price(k) \in Nat
    BY CandidatesAreUsable
  <2>2. rank(k) \in Nat
    BY DEF Rank
  <2>3. k \in Nat
    BY DEF Candidates
  <2> QED
    BY <2>1, <2>2, <2>3
<1>2. \A a, b \in DOMAIN cs : Before(cs[a], cs[b], e) <=> wins(a, b)
  BY DEF Before
<1>3. \A a, b \in DOMAIN cs : <<a, b>> \in Sooner(cs, e)
                                <=> Before(cs[a], cs[b], e) \/ (~Before(cs[b], cs[a], e) /\ a < b)
  BY DEF Sooner
<1>4. \A a, b \in DOMAIN cs : <<a, b>> \in Sooner(cs, e) <=> wins(a, b) \/ (~wins(b, a) /\ a < b)
  BY <1>2, <1>3
<1> HIDE DEF rank, price
<1>5. \A a, b \in DOMAIN cs : <<a, b>> \in Sooner(cs, e)
          <=> \/ rank(a) < rank(b)
              \/ rank(a) = rank(b) /\ (price(a) < price(b) \/ (price(a) = price(b) /\ a < b))
  <2> SUFFICES ASSUME NEW a \in DOMAIN cs, NEW b \in DOMAIN cs
               PROVE  wins(a, b) \/ (~wins(b, a) /\ a < b)
                        <=> \/ rank(a) < rank(b)
                            \/ rank(a) = rank(b) /\ (price(a) < price(b) \/ (price(a) = price(b) /\ a < b))
    BY <1>4
  <2>1. rank(a) \in Nat /\ price(a) \in Nat /\ rank(b) \in Nat /\ price(b) \in Nat
    BY <1>1
  <2> QED
    BY <2>1
<1> QED
  BY <1>1, <1>5 DEF Orders

LEMMA DistinctCount ==
  ASSUME NEW n \in Nat, NEW s, DOMAIN s = 1 .. n, \A k, m \in 1 .. n : s[k] = s[m] => k = m
  PROVE  Cardinality(ToSet(s)) = n
<1> DEFINE S == 1 .. n
           g == [k \in S |-> s[k]]
<1>1. IsFiniteSet(S) /\ Cardinality(S) = n
  BY UpToCounts
<1>2. ToSet(s) = {s[k] : k \in S}
  BY DEF ToSet
<1>3. \A k \in S : s[k] \in ToSet(s)
  BY <1>2
<1>4. \A t \in ToSet(s) : \E k \in S : s[k] = t
  BY <1>2
<1>5. \A k, m \in S : s[k] = s[m] => k = m
  OBVIOUS
<1> HIDE DEF S
<1>6. g \in Bijection(S, ToSet(s))
  BY <1>3, <1>4, <1>5 DEF Bijection, Injection, Surjection, IsInjective
<1> HIDE DEF g
<1>7. Cardinality(S) = Cardinality(ToSet(s))
  BY <1>1, <1>6, FS_Bijection DEF ExistsBijection
<1> QED
  BY <1>1, <1>7

\* What is promised of the offers, for the hits they are made of.
Best(offers, hits, e) ==
  LET first == FirstOfShops(hits, e)
      offered == ToSet(offers) IN
  /\ offered \subseteq {hits[i] : i \in first}
  /\ Cardinality(offered) = Len(offers)
  /\ Len(offers) = IF Cardinality(first) < MaxOffers THEN Cardinality(first) ELSE MaxOffers
  /\ \A k \in 1 .. Len(offers) - 1 : ~Before(offers[k + 1], offers[k], e)
  /\ \A i \in first : hits[i] \notin offered => \A h \in offered : ~Before(hits[i], h, e)

LEMMA OffersAreBest ==
  ASSUME NEW cs, NEW hits \in Seq(Hits), NEW e \in Estimates, Candidates(cs, hits, e)
  PROVE  Best(sortOffers(cs, e), hits, e)
<1> DEFINE first == FirstOfShops(hits, e)
           order == Sooner(cs, e)
           D == DOMAIN cs
           sorted == Picked(cs, D, order)
           f == InOrder(D, order)
           N == Len(cs)
           M == IF N < MaxOffers THEN N ELSE MaxOffers
           offers == [k \in 1 .. M |-> sorted[k]]
<1>1. sortOffers(cs, e) = offers
  BY DEF sortOffers
<1>0. cs \in Seq(Hits)
  BY DEF Candidates
<1>2. cs \in Seq(Hits) /\ N \in Nat /\ D = 1 .. N
  BY DEF Candidates
<1>3. Cardinality(D) = N
  BY <1>2, UpToCounts
<1>4. Orders(D, order)
  BY SoonerOrders
<1>5. D \in SUBSET DOMAIN cs
  OBVIOUS
<1>6. Cardinality(first) = N
  BY CandidatesCount
<1> HIDE DEF D, order
<1>7. f \in [1 .. Cardinality(D) -> D]
  BY <1>0, <1>4, <1>5, PickedIsAList
<1>8. \A n \in 1 .. Cardinality(D) : Picked(cs, D, order)[n] = cs[f[n]]
  BY <1>0, <1>4, <1>5, PickedIsAList
<1>9. \A n, m \in 1 .. Cardinality(D) : n < m => <<f[n], f[m]>> \in order
  BY <1>0, <1>4, <1>5, PickedIsAList
<1>10. \A n, m \in 1 .. Cardinality(D) : f[n] = f[m] => n = m
  BY <1>0, <1>4, <1>5, PickedIsAList
<1>11. \A k \in D : \E n \in 1 .. Cardinality(D) : Picked(cs, D, order)[n] = cs[k]
  <2> SUFFICES ASSUME NEW k \in D
               PROVE  \E n \in 1 .. Cardinality(D) : Picked(cs, D, order)[n] = cs[k]
    OBVIOUS
  <2>1. IsFiniteSet(D)
    BY <1>0, <1>5, PlacesAreFinite
  <2>2. \A a \in D : \E n \in 1 .. Cardinality(D) : InOrder(D, order)[n] = a
    BY <1>4, <2>1, InOrderIsAList
  <2>3. PICK n \in 1 .. Cardinality(D) : f[n] = k
    BY <2>2
  <2> QED
    BY <1>8, <2>3
<1>12. /\ \A n \in 1 .. N : f[n] \in DOMAIN cs /\ sorted[n] = cs[f[n]]
       /\ \A k \in DOMAIN cs : \E n \in 1 .. N : sorted[n] = cs[k]
  BY <1>2, <1>3, <1>7, <1>8, <1>11 DEF D
<1>13. \A n, m \in 1 .. N : sorted[n].shop = sorted[m].shop => n = m
  <2> SUFFICES ASSUME NEW n \in 1 .. N, NEW m \in 1 .. N, sorted[n].shop = sorted[m].shop
               PROVE  n = m
    OBVIOUS
  <2>1. f[n] \in DOMAIN cs /\ f[m] \in DOMAIN cs /\ cs[f[n]].shop = cs[f[m]].shop
    BY <1>12
  <2>2. f[n] = f[m]
    BY <2>1 DEF Candidates
  <2> QED
    BY <1>3, <1>10, <2>2
<1>14. \A n \in 1 .. N : pickBestPrice(sorted[n].prices, e) \in Nat
  <2> SUFFICES ASSUME NEW n \in 1 .. N
               PROVE  pickBestPrice(sorted[n].prices, e) \in Nat
    OBVIOUS
  <2>1. f[n] \in DOMAIN cs /\ sorted[n] = cs[f[n]]
    BY <1>12
  <2>2. pickBestPrice(cs[f[n]].prices, e) \in Nat
    BY <2>1, CandidatesAreUsable
  <2> QED
    BY <2>1, <2>2
<1>15. \A n, m \in 1 .. N : n < m => ~Before(sorted[m], sorted[n], e)
  <2> SUFFICES ASSUME NEW n \in 1 .. N, NEW m \in 1 .. N, n < m
               PROVE  ~Before(sorted[m], sorted[n], e)
    OBVIOUS
  <2>1. <<f[n], f[m]>> \in Sooner(cs, e)
    BY <1>3, <1>9 DEF order
  <2>2. sorted[n] = cs[f[n]] /\ sorted[m] = cs[f[m]]
    BY <1>12
  <2>3. Before(sorted[n], sorted[m], e) \/ ~Before(sorted[m], sorted[n], e)
    BY <2>1, <2>2 DEF Sooner
  <2> QED
    BY <1>14, <2>3, BeforeOrNot
<1> HIDE DEF sorted, f, N
<1>16. MaxOffers \in Nat
  BY ProductSearchAssumption DEF ProductSearchAssumption
<1>17. M \in Nat /\ M <= N /\ M = IF N < MaxOffers THEN N ELSE MaxOffers
  BY <1>2, <1>16
<1> HIDE DEF M
<1>18. Len(offers) = M /\ DOMAIN offers = 1 .. M /\ \A k \in 1 .. M : offers[k] = sorted[k] /\ k \in 1 .. N
  BY <1>2, <1>17
<1> HIDE DEF offers
<1>19. \A k \in 1 .. M : \E i \in first : offers[k] = hits[i]
  <2> SUFFICES ASSUME NEW k \in 1 .. M
               PROVE  \E i \in first : offers[k] = hits[i]
    OBVIOUS
  <2>1. f[k] \in DOMAIN cs /\ offers[k] = cs[f[k]]
    BY <1>12, <1>18
  <2> QED
    BY <2>1 DEF Candidates
<1>20. ToSet(offers) = {offers[k] : k \in 1 .. M}
  BY <1>18 DEF ToSet
<1>21. ToSet(offers) \subseteq {hits[i] : i \in first}
  <2> HIDE DEF first
  <2> QED
    BY <1>19, <1>20
<1>22. Cardinality(ToSet(offers)) = Len(offers)
  <2>1. \A k, m \in 1 .. M : offers[k] = offers[m] => k = m
    BY <1>13, <1>18
  <2> QED
    BY <1>17, <1>18, <2>1, DistinctCount
<1>23. \A k \in 1 .. Len(offers) - 1 : ~Before(offers[k + 1], offers[k], e)
  <2> SUFFICES ASSUME NEW k \in 1 .. M - 1
               PROVE  ~Before(offers[k + 1], offers[k], e)
    BY <1>18
  <2>0. M \in Nat
    BY <1>17
  <2>1. k \in 1 .. M /\ k + 1 \in 1 .. M /\ k < k + 1
    BY <2>0
  <2> QED
    BY <1>15, <1>18, <2>1
<1>24. ASSUME NEW i \in first, hits[i] \notin ToSet(offers), NEW h \in ToSet(offers)
       PROVE  ~Before(hits[i], h, e)
  <2>1. PICK j \in DOMAIN cs : cs[j] = hits[i]
    BY DEF Candidates
  <2>2. PICK m \in 1 .. N : sorted[m] = hits[i]
    BY <1>12, <2>1
  <2>3. PICK k \in 1 .. M : offers[k] = h
    BY <1>20
  <2>4. m \notin 1 .. M
    BY <1>18, <1>20, <1>24, <2>2
  <2>5. k < m /\ k \in 1 .. N /\ sorted[k] = h
    BY <1>17, <1>18, <1>2, <2>3, <2>4
  <2> QED
    BY <1>15, <2>2, <2>5
<1>25. Len(offers) = IF Cardinality(first) < MaxOffers THEN Cardinality(first) ELSE MaxOffers
  BY <1>6, <1>17, <1>18
<1> HIDE DEF first
<1>26. /\ ToSet(offers) \subseteq {hits[i] : i \in first}
       /\ \A i \in first : hits[i] \notin ToSet(offers) => \A h \in ToSet(offers) : ~Before(hits[i], h, e)
  BY <1>21, <1>24
<1>27. Best(offers, hits, e)
  BY <1>22, <1>23, <1>25, <1>26 DEF Best, first
<1> QED
  BY <1>1, <1>27

-----------------------------------------------------------------------------
(* findBuyOptions.                                                         *)

BuyInv ==
  /\ estimate \in Estimates
  /\ DOMAIN buy = {"pc", "asked", "offers"} /\ buy.asked \in Seq(Hits)
  /\ buy.pc \in {"idle", "primary"} => buy.asked = <<>> /\ buy.offers = <<>>
  /\ buy.pc = "fallback" => Candidates(buy.offers, buy.asked, estimate)
  /\ buy.pc = "done" => Best(buy.offers, buy.asked, estimate)

LEMMA NothingIsBest ==
  ASSUME NEW e
  PROVE  Best(<<>>, <<>>, e)
<1>1. FirstOfShops(<<>>, e) = {}
  BY DEF FirstOfShops
<1>2. ToSet(<<>>) = {}
  BY DEF ToSet
<1>3. Cardinality({}) = 0 /\ MaxOffers \in Nat
  BY FS_EmptySet, ProductSearchAssumption DEF ProductSearchAssumption
<1> QED
  BY <1>1, <1>2, <1>3 DEF Best

LEMMA BuyFits ==
  ASSUME BuyInv, SearchNext \/ UNCHANGED searchVars
  PROVE  BuyInv'
<1>1. CASE UNCHANGED <<estimate, buy>>
  BY <1>1 DEF BuyInv
<1>2. CASE BuyStart
  <2>1. buy.pc = "idle" /\ buy' = [buy EXCEPT !.pc = "primary"] /\ estimate' = estimate
    BY <1>2 DEF BuyStart
  <2>2. /\ buy'.pc = "primary" /\ buy'.asked = buy.asked /\ buy'.offers = buy.offers
        /\ DOMAIN buy' = {"pc", "asked", "offers"}
    BY <2>1 DEF BuyInv
  <2> QED
    BY <2>1, <2>2 DEF BuyInv
<1>3. CASE BuyFails
  <2>1. buy.pc = "primary" /\ buy' = [buy EXCEPT !.pc = "done"] /\ estimate' = estimate
    BY <1>3 DEF BuyFails
  <2>2. /\ buy'.pc = "done" /\ buy'.asked = <<>> /\ buy'.offers = <<>>
        /\ DOMAIN buy' = {"pc", "asked", "offers"}
    BY <2>1 DEF BuyInv
  <2> QED
    BY <2>1, <2>2, NothingIsBest DEF BuyInv
<1>4. ASSUME NEW answer \in Answers, BuyPrimary(answer)
      PROVE  BuyInv'
  <2> DEFINE candidates == buildCandidates(answer, {}, estimate)
  <2>1. answer \in Seq(Hits)
    BY DEF Answers, SeqOf
  <2>2. Candidates(candidates, answer, estimate)
    BY <2>1, FirstAnswer
  <2>3. /\ estimate' = estimate
        /\ \/ buy' = [buy EXCEPT !.pc = "fallback", !.asked = answer, !.offers = candidates]
           \/ buy' = [buy EXCEPT !.pc = "done", !.asked = answer, !.offers = sortOffers(candidates, estimate)]
    BY <1>4 DEF BuyPrimary
  <2>4. Best(sortOffers(candidates, estimate), answer, estimate)
    BY <2>1, <2>2, OffersAreBest DEF BuyInv
  <2> HIDE DEF candidates
  <2>5. CASE buy' = [buy EXCEPT !.pc = "fallback", !.asked = answer, !.offers = candidates]
    <3>1. /\ buy'.pc = "fallback" /\ buy'.asked = answer /\ buy'.offers = candidates
          /\ DOMAIN buy' = {"pc", "asked", "offers"}
      BY <2>5 DEF BuyInv
    <3> QED
      BY <2>1, <2>2, <2>3, <3>1 DEF BuyInv
  <2>6. CASE buy' = [buy EXCEPT !.pc = "done", !.asked = answer, !.offers = sortOffers(candidates, estimate)]
    <3>1. /\ buy'.pc = "done" /\ buy'.asked = answer /\ buy'.offers = sortOffers(candidates, estimate)
          /\ DOMAIN buy' = {"pc", "asked", "offers"}
      BY <2>6 DEF BuyInv
    <3> QED
      BY <2>1, <2>3, <2>4, <3>1 DEF BuyInv
  <2> QED
    BY <2>3, <2>5, <2>6
<1>5. ASSUME NEW answer \in Answers, BuyFallback(answer)
      PROVE  BuyInv'
  <2> DEFINE merged == mergeCandidates(buy.offers, answer, estimate)
             asked == buy.asked \o answer
  <2>1. answer \in Seq(Hits) /\ buy.asked \in Seq(Hits)
    BY DEF Answers, SeqOf, BuyInv
  <2>2. asked \in Seq(Hits)
    BY <2>1
  <2>3. Candidates(buy.offers, buy.asked, estimate) /\ estimate \in Estimates
    BY <1>5 DEF BuyInv, BuyFallback
  <2>4. Candidates(merged, asked, estimate)
    BY <2>1, <2>3, MergedAnswers
  <2>5. /\ estimate' = estimate
        /\ buy' = [buy EXCEPT !.pc = "done", !.asked = asked, !.offers = sortOffers(merged, estimate)]
    BY <1>5 DEF BuyFallback, BuyInv
  <2> HIDE DEF merged, asked
  <2>6. Best(sortOffers(merged, estimate), asked, estimate)
    BY <2>2, <2>3, <2>4, OffersAreBest
  <2>7. /\ buy'.pc = "done" /\ buy'.asked = asked /\ buy'.offers = sortOffers(merged, estimate)
        /\ DOMAIN buy' = {"pc", "asked", "offers"}
    BY <2>5 DEF BuyInv
  <2> QED
    BY <2>2, <2>3, <2>5, <2>6, <2>7 DEF BuyInv
<1>6. CASE BuyFallbackFails
  <2>1. /\ buy.pc = "fallback" /\ estimate' = estimate
        /\ buy' = [buy EXCEPT !.pc = "done", !.offers = sortOffers(buy.offers, estimate)]
    BY <1>6 DEF BuyFallbackFails, BuyInv
  <2>2. Best(sortOffers(buy.offers, estimate), buy.asked, estimate)
    BY <2>1, OffersAreBest DEF BuyInv
  <2>3. /\ buy'.pc = "done" /\ buy'.asked = buy.asked /\ buy'.offers = sortOffers(buy.offers, estimate)
        /\ DOMAIN buy' = {"pc", "asked", "offers"}
    BY <2>1 DEF BuyInv
  <2> QED
    BY <2>1, <2>2, <2>3 DEF BuyInv
<1>7. ASSUME SearchNext, ~UNCHANGED <<estimate, buy>>
      PROVE  \/ BuyStart \/ BuyFails \/ BuyFallbackFails
             \/ \E answer \in Answers : BuyPrimary(answer) \/ BuyFallback(answer)
  BY <1>7 DEF SearchNext, LookupStart, LookupFails, LookupTick, LookupChoose, EnrichStore, EnrichFails,
              LookupHits, PageAnswers, PageTimeout, PageIs
<1> QED
  BY <1>1, <1>2, <1>3, <1>4, <1>5, <1>6, <1>7 DEF searchVars

LEMMA LookupFits ==
  ASSUME LookupInv, SearchNext \/ UNCHANGED searchVars
  PROVE  LookupInv'
<1>1. ASSUME NEW answer \in Answers, LookupHits(answer)
      PROVE  LookupInv'
  <2>1. answer \in Seq(Hits)
    BY DEF Answers, SeqOf
  <2> QED
    BY <1>1, <2>1, LookupHitsFits
<1>2. ASSUME NEW i \in DOMAIN lookup.hits, PageAnswers(i) \/ PageTimeout(i)
      PROVE  LookupInv'
  BY <1>2, PageFits
<1>3. CASE UNCHANGED <<lookup, pages>>
  BY <1>3, OtherLookupsFit
<1>4. ASSUME SearchNext, ~UNCHANGED <<lookup, pages>>
      PROVE  \/ LookupStart \/ LookupFails \/ LookupTick \/ LookupChoose \/ EnrichStore \/ EnrichFails
             \/ \E answer \in Answers : LookupHits(answer)
             \/ \E i \in DOMAIN lookup.hits : PageAnswers(i) \/ PageTimeout(i)
  BY <1>4 DEF SearchNext, BuyStart, BuyFails, BuyFallbackFails, BuyPrimary, BuyFallback
<1> QED
  BY <1>1, <1>2, <1>3, <1>4, TimeFits, ChoiceFits, OtherLookupsFit DEF searchVars

LEMMA BestAreTheBest == BuyInv => OffersAreTheBest
<1> SUFFICES ASSUME BuyInv, buy.pc = "done"
             PROVE  OffersAreTheBest
  BY DEF OffersAreTheBest
<1> DEFINE hits == buy.asked
           first == {i \in DOMAIN hits : Usable(hits[i], estimate)
                       /\ ~\E j \in 1 .. i - 1 : hits[j].shop = hits[i].shop /\ Usable(hits[j], estimate)}
<1>1. Best(buy.offers, buy.asked, estimate)
  BY DEF BuyInv
<1>2. first = FirstOfShops(hits, estimate)
  BY DEF FirstOfShops
<1> HIDE DEF first
<1>3. Best(buy.offers, buy.asked, estimate) <=>
        LET offered == ToSet(buy.offers) IN
        /\ offered \subseteq {hits[i] : i \in first}
        /\ Cardinality(offered) = Len(buy.offers)
        /\ Len(buy.offers) = IF Cardinality(first) < MaxOffers THEN Cardinality(first) ELSE MaxOffers
        /\ \A k \in 1 .. Len(buy.offers) - 1 : ~Before(buy.offers[k + 1], buy.offers[k], estimate)
        /\ \A i \in first : hits[i] \notin offered => \A h \in offered : ~Before(hits[i], h, estimate)
  BY <1>2 DEF Best
<1> QED
  BY <1>1, <1>3 DEF OffersAreTheBest, first

\* However slow or gone the pages, and whatever the two answers: a link is to
\* the first page that is left, by the hard deadline, and the offers are the
\* best of each shop (searchProduct, findBuyOptions), for any hits, prices,
\* words, shops and time limits.
THEOREM SearchesHold == SearchSpec => []SearchesHoldUp
<1>1. SearchInit => BuyInv
  BY DEF SearchInit, BuyInv
<1>2. SearchSpec => [](LookupInv /\ BuyInv)
  BY <1>1, LookupStarts, LookupFits, BuyFits, PTL DEF SearchSpec
<1>3. LookupInv /\ BuyInv => SearchesHoldUp
  BY BestAreTheBest DEF LookupInv, SearchesHoldUp
<1> QED
  BY <1>2, <1>3, PTL
=============================================================================
