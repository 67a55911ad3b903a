------------------------------ MODULE GiftPage ------------------------------
(***************************************************************************)
(* The gift ideas on an event's page: what is loaded, generated, selected, *)
(* dismissed and polled for pictures, next to what the API has meanwhile.  *)
(* Every request may be answered late, in any order, refused or lost, and  *)
(* a new access token loads the list again.                                *)
(***************************************************************************)
EXTENDS Naturals, FiniteSets

CONSTANTS
  Slots,      \* the ideas of a set, numbers in the order of confidence
  MaxSets,    \* sets that the plan allows for an event
  Paid,       \* the user's plan is not the free one
  Questions,  \* questions of the guided interview
  MaxPolls,   \* polls for pictures after a set was generated
  AtOnce,      \* bound on the page's requests under way at once, polls aside
  MaxStarted,    \* bound on the requests that the user makes the page send
  MaxLoads    \* bound on the runs of the page's load effect

ASSUME GiftPageAssumption ==
  Slots \subseteq Nat /\ Paid \in BOOLEAN /\ {MaxSets, Questions, MaxPolls, AtOnce, MaxStarted, MaxLoads} \subseteq Nat \ {0}

Cards == (1 .. MaxSets) \X Slots
Lines == 1 .. AtOnce

VARIABLES
  latest, dropped, picked,  \* the API's rows of the event: the latest set, the cards dismissed and selected
  pictured,   \* the sets whose pictures were found
  sparse,     \* the dossier is nearly empty
  view,       \* what the page shows
  interview,  \* the guided interview
  calls,      \* the page's requests under way
  started,       \* requests sent so far, loads and polls aside
  poll,       \* the poll that is not superseded
  loads,      \* runs of the load effect
  tainted     \* an answer was lost, or two calls overlapped that must not

apiRows == <<latest, dropped, picked, pictured, sparse>>
giftPageVars == <<apiRows, view, interview, calls, started, poll, loads, tainted>>

Served == {c \in Cards : c[1] = latest} \ dropped
Answer == [cards |-> Served, picked |-> picked \cap Served, pictured |-> latest \in pictured, more |-> latest < MaxSets,
           sparse |-> sparse]
NoAnswer == [cards |-> {}, picked |-> {}, pictured |-> FALSE, more |-> FALSE, sparse |-> FALSE]
NoCard == <<0, 0>>
NewCall == [kind |-> "load", stage |-> "list", card |-> NoCard, pc |-> "new", answer |-> NoAnswer]

GiftPageTypeOK ==
  /\ latest \in 0 .. MaxSets /\ {dropped, picked} \subseteq SUBSET Cards /\ Cardinality(picked) <= 1
  /\ pictured \subseteq 1 .. MaxSets /\ started \in 0 .. MaxStarted
  /\ sparse \in BOOLEAN /\ tainted \in BOOLEAN /\ loads \in 0 .. MaxLoads
  /\ view.shown \subseteq Cards /\ view.chosen \subseteq view.shown
  /\ \A flag \in {"pictures", "more", "loading", "selecting", "generated", "guidance", "error"} : view[flag] \in BOOLEAN
  /\ interview \in [step : 0 .. Questions - 1, filled : BOOLEAN, saving : BOOLEAN, show : BOOLEAN, checked : BOOLEAN]
  /\ \A n \in Lines : /\ calls[n].kind \in {"load", "generate", "select", "dismiss", "answers"}
                        /\ calls[n].stage \in {"list", "meta", "person"}
                        /\ calls[n].pc \in {"new", "sent", "served", "refused"}
  /\ poll.pc \in {"off", "wait", "sent", "served"} /\ poll.tries \in 0 .. MaxPolls

GiftPageInit ==
  /\ latest \in {0, 1} /\ dropped = {} /\ picked = {} /\ pictured = {} /\ sparse \in BOOLEAN
  /\ view = [shown |-> {}, chosen |-> {}, pictures |-> FALSE, more |-> FALSE, loading |-> FALSE,
             selecting |-> FALSE, generated |-> FALSE, guidance |-> FALSE, error |-> FALSE]
  /\ interview = [step |-> 0, filled |-> FALSE, saving |-> FALSE, show |-> FALSE, checked |-> FALSE]
  /\ calls = [n \in Lines |-> NewCall]
  /\ poll = [pc |-> "off", tries |-> 0, answer |-> NoAnswer]
  /\ started = 0 /\ loads = 0 /\ tainted = FALSE

-----------------------------------------------------------------------------
(* The page's requests.                                                    *)

InFlight == {n \in Lines : calls[n].pc # "new"}
Free == CHOOSE n \in Lines : n \notin InFlight

\* A load next to a change, or two selections at once: the last answer wins.
Clashes(kind) ==
  \E n \in InFlight :
    \/ kind = "load" /\ calls[n].kind \in {"generate", "select", "dismiss"}
    \/ kind \in {"generate", "select", "dismiss"} /\ calls[n].kind = "load"
    \/ kind = "select" /\ calls[n].kind = "select"

Send(kind, card) ==
  /\ InFlight # Lines
  /\ calls' = [calls EXCEPT ![Free] = [NewCall EXCEPT !.kind = kind, !.card = card, !.pc = "sent"]]
  /\ tainted' = (tainted \/ Clashes(kind))

\* On mount, and again whenever the session has a new access token.
Load ==
  /\ loads < MaxLoads /\ Send("load", NoCard)
  /\ loads' = loads + 1
  /\ UNCHANGED <<apiRows, view, interview, started, poll>>

SendNow(kind, card) == started < MaxStarted /\ started' = started + 1 /\ Send(kind, card)

StartGenerate ==
  /\ SendNow("generate", NoCard)
  /\ view' = [view EXCEPT !.loading = TRUE, !.error = FALSE]

Interviewing == ~view.loading /\ ~view.generated /\ interview.checked /\ interview.show

\* "Find Gift Ideas" needs no set, but not the answer whether there is one;
\* "Go" and "Skip" follow "Try Again", which any failed request offers, too.
PressGenerate ==
  /\ ~view.loading /\ ~Interviewing
  /\ view.generated => view.guidance \/ view.error
  /\ StartGenerate
  /\ UNCHANGED <<apiRows, interview, poll, loads>>

AskGuidance ==
  /\ ~view.loading /\ view.generated /\ Paid /\ view.more /\ ~view.guidance
  /\ view' = [view EXCEPT !.guidance = TRUE]
  /\ UNCHANGED <<apiRows, interview, calls, started, poll, loads, tainted>>

NextQuestion(typed) ==
  /\ Interviewing /\ ~interview.saving /\ interview.step < Questions - 1
  /\ interview' = [interview EXCEPT !.step = @ + 1, !.filled = @ \/ typed]
  /\ UNCHANGED <<apiRows, view, calls, started, poll, loads, tainted>>

\* The last question submits what was typed; nothing typed is a skip.
FinishInterview(typed) ==
  /\ Interviewing /\ ~interview.saving /\ interview.step = Questions - 1
  /\ IF interview.filled \/ typed
     THEN /\ SendNow("answers", NoCard) /\ UNCHANGED view
          /\ interview' = [interview EXCEPT !.saving = TRUE, !.filled = TRUE]
     ELSE StartGenerate /\ interview' = [interview EXCEPT !.show = FALSE]
  /\ UNCHANGED <<apiRows, poll, loads>>

PreviousQuestion ==
  /\ Interviewing /\ ~interview.saving /\ interview.step > 0
  /\ interview' = [interview EXCEPT !.step = @ - 1]
  /\ UNCHANGED <<apiRows, view, calls, started, poll, loads, tainted>>

SkipInterview ==
  /\ Interviewing /\ ~interview.saving /\ interview.step = 0
  /\ StartGenerate /\ interview' = [interview EXCEPT !.show = FALSE]
  /\ UNCHANGED <<apiRows, poll, loads>>

ShowsCards == view.generated /\ ~view.loading

Select(card) ==
  /\ SendNow("select", card)
  /\ view' = [view EXCEPT !.selecting = TRUE]
  /\ UNCHANGED <<apiRows, interview, poll, loads>>

SelectThis(card) == ShowsCards /\ card \in view.shown \ view.chosen /\ ~view.selecting /\ Select(card)

\* Does not look whether a selection is on its way.
SurpriseMe(card) ==
  /\ ShowsCards /\ Paid /\ view.chosen = {}
  /\ card \in view.shown /\ \A other \in view.shown : card[2] <= other[2]
  /\ Select(card)

Dismiss(card) ==
  /\ ShowsCards /\ card \in view.shown \ view.chosen /\ SendNow("dismiss", card)
  /\ UNCHANGED <<apiRows, view, interview, poll, loads>>

-----------------------------------------------------------------------------
(* The API.                                                                *)

Refuse(n) == calls' = [calls EXCEPT ![n].pc = "refused"]
Replied(n) == calls' = [calls EXCEPT ![n].pc = "served", ![n].answer = Answer']

ServeRead(n) == calls[n].kind = "load" \/ calls[n].stage = "meta"

\* A set is stored at once, or, without a claim or the model, not at all.
ServeGenerate(n) ==
  /\ calls[n].kind = "generate" /\ calls[n].stage = "list"
  /\ \/ latest < MaxSets /\ latest' = latest + 1 /\ UNCHANGED <<dropped, picked, pictured, sparse>> /\ Replied(n)
     \/ UNCHANGED apiRows /\ Refuse(n)

ServeSelect(n) ==
  /\ calls[n].kind = "select"
  /\ IF calls[n].card \in dropped THEN UNCHANGED apiRows /\ Refuse(n)
     ELSE picked' = {calls[n].card} /\ UNCHANGED <<latest, dropped, pictured, sparse>> /\ Replied(n)

ServeDismiss(n) ==
  /\ calls[n].kind = "dismiss"
  /\ dropped' = dropped \cup {calls[n].card} /\ picked' = picked \ {calls[n].card}
  /\ UNCHANGED <<latest, pictured, sparse>> /\ Replied(n)

Serve(n) ==
  /\ calls[n].pc = "sent"
  /\ \/ ServeRead(n) /\ UNCHANGED apiRows /\ Replied(n)
     \/ ServeGenerate(n) \/ ServeSelect(n) \/ ServeDismiss(n)
     \/ /\ calls[n].kind = "answers" /\ sparse' = FALSE
        /\ UNCHANGED <<latest, dropped, picked, pictured>> /\ Replied(n)
  /\ UNCHANGED <<view, interview, started, poll, loads, tainted>>

\* The pictures of a set are looked up after it was answered.
Enrich(set) ==
  /\ set \in 1 .. latest /\ set \notin pictured
  /\ pictured' = pictured \cup {set}
  /\ UNCHANGED <<latest, dropped, picked, sparse, view, interview, calls, started, poll, loads, tainted>>

-----------------------------------------------------------------------------
(* What the page hears.                                                    *)

Heard(n) == calls' = [calls EXCEPT ![n] = NewCall]
Continue(n, stage) == calls' = [calls EXCEPT ![n].stage = stage, ![n].pc = "sent", ![n].answer = NoAnswer]

\* The list and its pictures, of a load or of a new set.
Shows(answer) ==
  [view EXCEPT !.shown = answer.cards, !.chosen = answer.picked, !.pictures = answer.pictured, !.generated = TRUE]

HearLoad(n) ==
  /\ calls[n].kind = "load" /\ UNCHANGED poll
  /\ LET answer == calls[n].answer IN
     CASE calls[n].stage = "list" ->
            /\ view' = IF answer.cards # {} THEN Shows(answer) ELSE view
            /\ Continue(n, "meta") /\ UNCHANGED interview
       [] calls[n].stage = "meta" ->
            /\ view' = [view EXCEPT !.more = answer.more]
            /\ Continue(n, "person") /\ UNCHANGED interview
       [] calls[n].stage = "person" ->
            /\ interview' = [interview EXCEPT !.checked = TRUE, !.show = @ \/ answer.sparse]
            /\ Heard(n) /\ UNCHANGED view

\* A new set supersedes the poll for the pictures of the last one.
HearGenerate(n) ==
  /\ calls[n].kind = "generate" /\ UNCHANGED interview
  /\ IF calls[n].stage = "list"
     THEN /\ view' = [Shows(calls[n].answer) EXCEPT !.guidance = FALSE]
          /\ poll' = IF calls[n].answer.pictured THEN poll
                     ELSE [pc |-> "wait", tries |-> 0, answer |-> NoAnswer]
          /\ Continue(n, "meta")
     ELSE /\ view' = [view EXCEPT !.more = calls[n].answer.more, !.loading = FALSE]
          /\ Heard(n) /\ UNCHANGED poll

HearSelect(n) ==
  /\ calls[n].kind = "select" /\ Heard(n) /\ UNCHANGED <<interview, poll>>
  /\ view' = [view EXCEPT !.chosen = {calls[n].card} \cap view.shown, !.selecting = FALSE]

HearDismiss(n) ==
  /\ calls[n].kind = "dismiss" /\ Heard(n) /\ UNCHANGED <<interview, poll>>
  /\ view' = [view EXCEPT !.shown = @ \ {calls[n].card}, !.chosen = @ \ {calls[n].card}]

Hear(n) ==
  /\ calls[n].pc = "served"
  /\ HearLoad(n) \/ HearGenerate(n) \/ HearSelect(n) \/ HearDismiss(n)
  /\ UNCHANGED <<apiRows, started, loads, tainted>>

\* The dossier is saved: the interview ends in a generation.
HearAnswers(n) ==
  /\ calls[n].kind = "answers" /\ calls[n].pc = "served"
  /\ calls' = [calls EXCEPT ![n] = [NewCall EXCEPT !.kind = "generate", !.pc = "sent"]]
  /\ tainted' = (tainted \/ Clashes("generate"))
  /\ view' = [view EXCEPT !.loading = TRUE, !.error = FALSE]
  /\ interview' = [interview EXCEPT !.show = FALSE]
  /\ UNCHANGED <<apiRows, started, poll, loads>>

\* Refused, or lost on the way there or back. A load says nothing of it.
Fail(n) ==
  /\ n \in InFlight
  /\ tainted' = (tainted \/ calls[n].pc # "refused")
  /\ CASE calls[n].kind = "load" /\ calls[n].stage # "person" -> Continue(n, "person") /\ UNCHANGED <<view, interview>>
       [] calls[n].kind = "load" /\ calls[n].stage = "person" ->
            Heard(n) /\ interview' = [interview EXCEPT !.checked = TRUE] /\ UNCHANGED view
       [] calls[n].kind = "answers" ->
            Heard(n) /\ interview' = [interview EXCEPT !.saving = FALSE] /\ UNCHANGED view
       [] calls[n].kind \in {"generate", "select", "dismiss"} ->
            /\ Heard(n) /\ UNCHANGED interview
            /\ view' = [view EXCEPT !.error = TRUE,
                          !.loading = @ /\ calls[n].kind # "generate",
                          !.selecting = @ /\ calls[n].kind # "select"]
  /\ UNCHANGED <<apiRows, started, poll, loads>>

-----------------------------------------------------------------------------
(* The poll for pictures.                                                  *)

PollTick ==
  /\ poll.pc = "wait"
  /\ poll' = [poll EXCEPT !.pc = "sent", !.tries = @ + 1]
  /\ UNCHANGED <<apiRows, view, interview, calls, started, loads, tainted>>

PollServed ==
  /\ poll.pc = "sent"
  /\ poll' = [poll EXCEPT !.pc = "served", !.answer = Answer]
  /\ UNCHANGED <<apiRows, view, interview, calls, started, loads, tainted>>

PollGoesOn(p) == [p EXCEPT !.pc = IF p.tries < MaxPolls THEN "wait" ELSE "off", !.answer = NoAnswer]

\* A plausible bug: the poll shows the list it was answered with.
PatchWithList(answer) ==
  [view EXCEPT !.shown = answer.cards, !.chosen = answer.picked]

\* Only the pictures are taken, and only by the cards that are shown.
Patch(answer) ==
  [view EXCEPT !.pictures = @ \/ (answer.pictured /\ view.shown \cap answer.cards # {})]

PollHeard ==
  /\ poll.pc = "served"
  /\ view' = Patch(poll.answer)
  /\ poll' = IF poll.answer.cards # {} /\ poll.answer.pictured
             THEN [poll EXCEPT !.pc = "off", !.answer = NoAnswer] ELSE PollGoesOn(poll)
  /\ UNCHANGED <<apiRows, interview, calls, started, loads, tainted>>

PollLost ==
  /\ poll.pc \in {"sent", "served"}
  /\ poll' = PollGoesOn(poll)
  /\ UNCHANGED <<apiRows, view, interview, calls, started, loads, tainted>>

GiftPageNext ==
  \/ Load \/ PressGenerate \/ AskGuidance \/ PreviousQuestion \/ SkipInterview
  \/ \E typed \in BOOLEAN : NextQuestion(typed) \/ FinishInterview(typed)
  \/ \E card \in Cards : SelectThis(card) \/ SurpriseMe(card) \/ Dismiss(card)
  \/ \E n \in Lines : Serve(n) \/ Hear(n) \/ HearAnswers(n) \/ Fail(n)
  \/ \E set \in 1 .. MaxSets : Enrich(set)
  \/ PollTick \/ PollServed \/ PollHeard \/ PollLost

GiftPageSpec == GiftPageInit /\ [][GiftPageNext]_giftPageVars

-----------------------------------------------------------------------------
(* Properties.                                                             *)

\* When nothing is on its way, the page shows what the API has: the latest
\* set without what was dismissed, its selection, and whether another set may
\* be asked for - whatever selections, dismissals, a new set and the poll for
\* pictures of an older one overlapped - unless an answer was lost, a load ran
\* into a change, or two selections overlapped. And no spinner is left over.
ShownAsServed ==
  InFlight = {} /\ loads > 0 =>
    /\ ~view.loading /\ ~view.selecting
    /\ ~tainted => /\ view.shown = Served /\ view.chosen = picked \cap Served
                   /\ view.more = (latest < MaxSets)
=============================================================================
