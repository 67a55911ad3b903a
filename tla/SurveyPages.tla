----------------------------- MODULE SurveyPages -----------------------------
(***************************************************************************)
(* The two pages of a survey: the recipient's form, and the section on the *)
(* person's page from which the owner sends surveys and reviews answers.   *)
(* A call may be refused, fail halfway or lose its answer, and the API     *)
(* works on for a page that has stopped waiting.  What the API does is     *)
(* module Surveys; here it is the rows the pages show.                     *)
(***************************************************************************)
EXTENDS Naturals, FiniteSets

CONSTANTS
  Keys,     \* the questions of a survey
  Mails,    \* the links
  Tabs,     \* the forms somebody opens
  Replies,  \* the responses
  Trips,    \* calls that may be under way at once
  NoReply, NoMail, NoTab,
  MaxPressed, MaxFetches

ASSUME SurveyPagesAssumption ==
  /\ NoReply \notin Replies /\ NoMail \notin Mails /\ NoTab \notin Tabs
  /\ {MaxPressed, MaxFetches} \subseteq Nat

VARIABLES
  mail,      \* mail[l]: the row of a link, its questions, and whether it was mailed
  reply,     \* reply[r]: the row of a response, and what of it was saved
  section,   \* the owner's section: cards, ticks, busy buttons
  dialog,    \* its dialog to send a survey
  sheet,     \* sheet[f]: what a tab shows
  trip,      \* the calls under way
  mind,      \* mind[r]: what the owner has left ticked of r, by hand
  meant,     \* meant[r]: mind[r] when Apply was last pressed
  pressed, fetches,
  broken,    \* a call failed halfway, or its answer was lost
  outrun,    \* a review was over before a list read earlier came in
  reticked   \* a list came in after the owner had unticked something

pageRows == <<mail, reply>>
pageFlags == <<broken, outrun, reticked>>
surveyPageVars == <<pageRows, section, dialog, sheet, trip, mind, meant, pressed, fetches, pageFlags>>

NoTrip == [kind |-> "load", pc |-> "idle", deaf |-> FALSE, reply |-> NoReply, accept |-> FALSE,
           keys |-> {}, view |-> {}, tab |-> NoTab, mail |-> NoMail]

Trip == [kind : {"load", "review", "send", "submit"},
         pc : {"idle", "sent", "read", "made", "served", "refused", "completed", "expired"}, deaf : BOOLEAN,
         reply : Replies \cup {NoReply}, accept : BOOLEAN, keys : SUBSET Keys, view : SUBSET Replies,
         tab : Tabs \cup {NoTab}, mail : Mails \cup {NoMail}]

SurveyPagesTypeOK ==
  /\ mail \in [Mails -> [row : {"none", "live", "over", "answered"}, asks : SUBSET Keys, mailed : BOOLEAN]]
  /\ reply \in [Replies -> [row : {"none", "pending", "approved", "dismissed"}, says : SUBSET Keys,
                            saved : SUBSET Keys, tab : Tabs \cup {NoTab}]]
  /\ section \in [cards : SUBSET Replies, ticks : [Replies -> SUBSET Keys], busy : SUBSET Replies, loading : BOOLEAN]
  /\ dialog \in [on : BOOLEAN, questions : SUBSET Keys, sending : BOOLEAN]
  /\ sheet \in [Tabs -> [mail : Mails \cup {NoMail}, filled : SUBSET Keys, sending : BOOLEAN,
                        shows : {"nothing", "form", "thanks", "over"},
                        told : {"none", "completed", "expired", "again"}]]
  /\ trip \in [Trips -> Trip]
  /\ mind \in [Replies -> SUBSET Keys] /\ meant \in [Replies -> SUBSET Keys]
  /\ pressed \in 0 .. MaxPressed /\ fetches \in 0 .. MaxFetches
  /\ {broken, outrun, reticked} \subseteq BOOLEAN

\* Responses that are there already are pending.
SurveyPagesInit ==
  /\ mail = [l \in Mails |-> [row |-> "none", asks |-> {}, mailed |-> FALSE]]
  /\ \E old \in SUBSET Replies :
       reply = [r \in Replies |-> [row |-> IF r \in old THEN "pending" ELSE "none",
                  says |-> IF r \in old THEN Keys ELSE {}, saved |-> {}, tab |-> NoTab]]
  /\ section = [cards |-> {}, ticks |-> [r \in Replies |-> {}], busy |-> {}, loading |-> TRUE]
  /\ dialog = [on |-> FALSE, questions |-> Keys, sending |-> FALSE]
  /\ sheet = [f \in Tabs |-> [mail |-> NoMail, filled |-> {}, sending |-> FALSE, shows |-> "nothing",
                         told |-> "none"]]
  /\ trip = [n \in Trips |-> NoTrip]
  /\ mind = [r \in Replies |-> reply[r].says] /\ meant = [r \in Replies |-> {}]
  /\ pressed = 0 /\ fetches = 0
  /\ broken = FALSE /\ outrun = FALSE /\ reticked = FALSE

-----------------------------------------------------------------------------
(* Calls.                                                                  *)

OnTrip == {n \in Trips : trip[n].pc # "idle"}
FreeTrip == CHOOSE n \in Trips : n \notin OnTrip

Calls(call) ==
  /\ OnTrip # Trips
  /\ trip' = [trip EXCEPT ![FreeTrip] = call]

Posts(call) == pressed < MaxPressed /\ pressed' = pressed + 1 /\ Calls(call)

Flipped(keys, k) == IF k \in keys THEN keys \ {k} ELSE keys \cup {k}

-----------------------------------------------------------------------------
(* The owner's section.                                                    *)

\* On mount, and with every new access token; nothing cancels an earlier one.
LoadReplies ==
  /\ fetches < MaxFetches /\ fetches' = fetches + 1
  /\ Calls([NoTrip EXCEPT !.pc = "sent"])
  /\ UNCHANGED <<pageRows, section, dialog, sheet, mind, meant, pressed, pageFlags>>

\* The boxes stay open while a review is under way.
ToggleField(r, k) ==
  /\ r \in section.cards /\ k \in reply[r].says
  /\ section' = [section EXCEPT !.ticks[r] = Flipped(@, k)]
  /\ mind' = [mind EXCEPT ![r] = Flipped(section.ticks[r], k)]
  /\ UNCHANGED <<pageRows, dialog, sheet, trip, meant, pressed, fetches, pageFlags>>

\* A plausible bug: the buttons of a card stay open during its review.
PressReviewTwice(r, accept) ==
  /\ r \in section.cards
  /\ accept => section.ticks[r] # {}
  /\ section' = [section EXCEPT !.busy = @ \cup {r}]
  /\ Posts([NoTrip EXCEPT !.kind = "review", !.pc = "sent", !.reply = r, !.accept = accept,
                          !.keys = IF accept THEN section.ticks[r] ELSE {}])
  /\ meant' = IF accept THEN [meant EXCEPT ![r] = mind[r]] ELSE meant
  /\ UNCHANGED <<pageRows, dialog, sheet, mind, fetches, pageFlags>>

\* handleReview(), up to its call.
PressReview(r, accept) ==
  /\ r \in section.cards /\ r \notin section.busy
  /\ accept => section.ticks[r] # {}
  /\ section' = [section EXCEPT !.busy = @ \cup {r}]
  /\ Posts([NoTrip EXCEPT !.kind = "review", !.pc = "sent", !.reply = r, !.accept = accept,
                          !.keys = IF accept THEN section.ticks[r] ELSE {}])
  /\ meant' = IF accept THEN [meant EXCEPT ![r] = mind[r]] ELSE meant
  /\ UNCHANGED <<pageRows, dialog, sheet, mind, fetches, pageFlags>>

\* The questions stay as they were the last time.
OpenDialog(on) ==
  /\ dialog.on # on
  /\ dialog' = [dialog EXCEPT !.on = on]
  /\ UNCHANGED <<pageRows, section, sheet, trip, mind, meant, pressed, fetches, pageFlags>>

\* One question, or all of them.
ChooseQuestions(keys) ==
  /\ dialog.on
  /\ \/ keys = IF dialog.questions = Keys THEN {} ELSE Keys
     \/ \E k \in Keys : keys = Flipped(dialog.questions, k)
  /\ dialog' = [dialog EXCEPT !.questions = keys]
  /\ UNCHANGED <<pageRows, section, sheet, trip, mind, meant, pressed, fetches, pageFlags>>

\* handleSend(), up to its call.
PressSend ==
  /\ dialog.on /\ ~dialog.sending /\ dialog.questions # {}
  /\ dialog' = [dialog EXCEPT !.sending = TRUE]
  /\ Posts([NoTrip EXCEPT !.kind = "send", !.pc = "sent", !.keys = dialog.questions])
  /\ UNCHANGED <<pageRows, section, sheet, mind, meant, fetches, pageFlags>>

-----------------------------------------------------------------------------
(* The recipient's form.                                                   *)

\* getValidLink: what is said of a link that takes no answers any more.
Over(l) == IF mail[l].row = "answered" THEN "completed" ELSE "expired"

\* The page asks for the survey before there is a form.
OpenSheet(f, l) ==
  /\ sheet[f].shows = "nothing" /\ mail[l].mailed
  /\ sheet' = [sheet EXCEPT ![f].mail = l,
                          ![f].shows = IF mail[l].row = "live" THEN "form" ELSE "over",
                          ![f].told = IF mail[l].row = "live" THEN "none" ELSE Over(l)]
  /\ UNCHANGED <<pageRows, section, dialog, trip, mind, meant, pressed, fetches, pageFlags>>

\* setField() and toggleListValue(); the fields stay open while answers are sent.
FillIn(f, k) ==
  /\ sheet[f].shows = "form" /\ k \in mail[sheet[f].mail].asks
  /\ sheet' = [sheet EXCEPT ![f].filled = Flipped(@, k)]
  /\ UNCHANGED <<pageRows, section, dialog, trip, mind, meant, pressed, fetches, pageFlags>>

\* handleSubmit(), up to its call: what is blank is left out.
PressSubmit(f) ==
  /\ sheet[f].shows = "form" /\ ~sheet[f].sending
  /\ sheet' = [sheet EXCEPT ![f].sending = TRUE, ![f].told = "none"]
  /\ Posts([NoTrip EXCEPT !.kind = "submit", !.pc = "sent", !.keys = sheet[f].filled, !.tab = f])
  /\ UNCHANGED <<pageRows, section, dialog, mind, meant, fetches, pageFlags>>

-----------------------------------------------------------------------------
(* The API.                                                                *)

\* Nobody waits for the answer of a call that is deaf.
Ends(n, pc) == trip' = [trip EXCEPT ![n] = IF trip[n].deaf THEN NoTrip ELSE [trip[n] EXCEPT !.pc = pc]]
GoesOn(n, pc) == trip' = [trip EXCEPT ![n].pc = pc]

ServeList(n) ==
  /\ trip[n].kind = "load" /\ trip[n].pc = "sent"
  /\ trip' = [trip EXCEPT ![n].pc = "served", ![n].view = {r \in Replies : reply[r].row = "pending"}]
  /\ UNCHANGED <<pageRows, broken>>

\* What is not pending is refused.
ReadReply(n) ==
  /\ trip[n].kind = "review" /\ trip[n].pc = "sent"
  /\ IF reply[trip[n].reply].row = "pending" THEN GoesOn(n, "read") ELSE Ends(n, "refused")
  /\ UNCHANGED <<pageRows, broken>>

DismissReply(n) ==
  /\ trip[n].kind = "review" /\ trip[n].pc = "read" /\ ~trip[n].accept
  /\ reply' = [reply EXCEPT ![trip[n].reply].row = "dismissed"]
  /\ Ends(n, "served")
  /\ UNCHANGED <<mail, broken>>

\* The person first, the response then.
SaveReply(n) ==
  /\ trip[n].kind = "review" /\ trip[n].pc = "read" /\ trip[n].accept
  /\ reply' = [reply EXCEPT ![trip[n].reply].saved = @ \cup (trip[n].keys \cap reply[trip[n].reply].says)]
  /\ GoesOn(n, "made")
  /\ UNCHANGED <<mail, broken>>

ApproveReply(n) ==
  /\ trip[n].kind = "review" /\ trip[n].pc = "made"
  /\ reply' = [reply EXCEPT ![trip[n].reply].row = "approved"]
  /\ Ends(n, "served")
  /\ UNCHANGED <<mail, broken>>

\* The links before this one end.
CreateMail(n, l) ==
  /\ trip[n].kind = "send" /\ trip[n].pc = "sent" /\ mail[l].row = "none"
  /\ mail' = [m \in Mails |->
       IF m = l THEN [row |-> "live", asks |-> trip[n].keys, mailed |-> FALSE]
       ELSE [mail[m] EXCEPT !.row = IF @ = "live" THEN "over" ELSE @]]
  /\ trip' = [trip EXCEPT ![n].pc = "made", ![n].mail = l]
  /\ UNCHANGED <<reply, broken>>

SendTheMail(n) ==
  /\ trip[n].kind = "send" /\ trip[n].pc = "made"
  /\ mail' = [mail EXCEPT ![trip[n].mail].mailed = TRUE]
  /\ Ends(n, "served")
  /\ UNCHANGED <<reply, broken>>

MailExpires(l) ==
  /\ mail[l].row = "live"
  /\ mail' = [mail EXCEPT ![l].row = "over"]
  /\ UNCHANGED <<reply, section, dialog, sheet, trip, mind, meant, pressed, fetches, pageFlags>>

\* A plausible bug: a link that takes no answers any more has been answered.
TakeAnswersExpired(n, r) ==
  LET f == trip[n].tab  l == sheet[f].mail IN
  /\ trip[n].kind = "submit" /\ trip[n].pc = "sent" /\ reply[r].row = "none"
  /\ IF mail[l].row = "live"
     THEN /\ reply' = [reply EXCEPT ![r].row = "pending", ![r].says = trip[n].keys, ![r].tab = f]
          /\ GoesOn(n, "made")
     ELSE Ends(n, "completed") /\ UNCHANGED reply
  /\ UNCHANGED <<mail, broken>>

TakeAnswers(n, r) ==
  LET f == trip[n].tab  l == sheet[f].mail IN
  /\ trip[n].kind = "submit" /\ trip[n].pc = "sent" /\ reply[r].row = "none"
  /\ IF mail[l].row = "live"
     THEN /\ reply' = [reply EXCEPT ![r].row = "pending", ![r].says = trip[n].keys, ![r].tab = f]
          /\ GoesOn(n, "made")
     ELSE Ends(n, Over(l)) /\ UNCHANGED reply
  /\ UNCHANGED <<mail, broken>>

MarkAnswered(n) ==
  /\ trip[n].kind = "submit" /\ trip[n].pc = "made"
  /\ mail' = [mail EXCEPT ![sheet[trip[n].tab].mail].row = "answered"]
  /\ \/ Ends(n, "served") /\ UNCHANGED broken
     \/ Ends(n, "refused") /\ broken' = TRUE
  /\ UNCHANGED reply

\* A limit, a plan, a database or a mail service that says no.
CallFails(n) ==
  /\ trip[n].kind # "load" /\ trip[n].pc \in {"sent", "read", "made"}
  /\ Ends(n, "refused")
  /\ broken' = (broken \/ trip[n].pc = "made")
  /\ UNCHANGED pageRows

ServeTrip(n) ==
  /\ \/ ServeList(n) \/ ReadReply(n) \/ DismissReply(n) \/ SaveReply(n) \/ ApproveReply(n)
     \/ SendTheMail(n) \/ MarkAnswered(n) \/ CallFails(n)
     \/ \E l \in Mails : CreateMail(n, l)
     \/ \E r \in Replies : TakeAnswers(n, r)
  /\ mind' = [r \in Replies |-> IF reply[r].row = "none" THEN reply'[r].says ELSE mind[r]]
  /\ UNCHANGED <<section, dialog, sheet, meant, pressed, fetches, outrun, reticked>>

-----------------------------------------------------------------------------
(* What the pages hear.                                                    *)

\* Every answer of every response listed is ticked.
HearReplies(n) ==
  LET view == trip[n].view IN
  /\ trip[n].kind = "load" /\ trip[n].pc = "served"
  /\ section' = [section EXCEPT !.cards = view, !.loading = FALSE,
                                !.ticks = [r \in Replies |-> IF r \in view THEN reply[r].says ELSE {}]]
  /\ reticked' = (reticked \/ \E r \in view : mind[r] # reply[r].says)
  /\ UNCHANGED <<dialog, sheet, outrun>>

LoseReplies(n) ==
  /\ trip[n].kind = "load"
  /\ section' = [section EXCEPT !.loading = FALSE]
  /\ UNCHANGED <<dialog, sheet, outrun, reticked>>

\* The card goes with the answer.
HearReview(n) ==
  /\ trip[n].kind = "review" /\ trip[n].pc = "served"
  /\ section' = [section EXCEPT !.cards = @ \ {trip[n].reply}, !.busy = @ \ {trip[n].reply}]
  /\ outrun' = (outrun \/ \E m \in Trips : trip[n].reply \in trip[m].view)
  /\ UNCHANGED <<dialog, sheet, reticked>>

MissReview(n) ==
  /\ trip[n].kind = "review"
  /\ section' = [section EXCEPT !.busy = @ \ {trip[n].reply}]
  /\ UNCHANGED <<dialog, sheet, outrun, reticked>>

\* It closes whatever dialog is there by now.
HearSent(n) ==
  /\ trip[n].kind = "send" /\ trip[n].pc = "served"
  /\ dialog' = [dialog EXCEPT !.on = FALSE, !.sending = FALSE]
  /\ UNCHANGED <<section, sheet, outrun, reticked>>

MissSent(n) ==
  /\ trip[n].kind = "send"
  /\ dialog' = [dialog EXCEPT !.sending = FALSE]
  /\ UNCHANGED <<section, sheet, outrun, reticked>>

HearTaken(n) ==
  /\ trip[n].kind = "submit" /\ trip[n].pc \in {"served", "completed", "expired"}
  /\ sheet' = [sheet EXCEPT ![trip[n].tab].sending = FALSE,
                          ![trip[n].tab].shows = IF trip[n].pc = "served" THEN "thanks" ELSE @,
                          ![trip[n].tab].told = IF trip[n].pc = "served" THEN @ ELSE trip[n].pc]
  /\ UNCHANGED <<section, dialog, outrun, reticked>>

MissTaken(n) ==
  /\ trip[n].kind = "submit"
  /\ sheet' = [sheet EXCEPT ![trip[n].tab].sending = FALSE, ![trip[n].tab].told = "again"]
  /\ UNCHANGED <<section, dialog, outrun, reticked>>

Misses(n) == LoseReplies(n) \/ MissReview(n) \/ MissSent(n) \/ MissTaken(n)

HearTrip(n) ==
  /\ ~trip[n].deaf
  /\ trip' = [trip EXCEPT ![n] = NoTrip]
  /\ HearReplies(n) \/ HearReview(n) \/ HearSent(n) \/ HearTaken(n) \/ (trip[n].pc = "refused" /\ Misses(n))
  /\ UNCHANGED <<pageRows, mind, meant, pressed, fetches, broken>>

\* The connection breaks: before the API has the call, or with the call on its
\* way or its answer on the way back.
LoseTrip(n) ==
  /\ trip[n].pc # "idle" /\ ~trip[n].deaf
  /\ \/ /\ trip[n].pc = "sent" \/ trip[n].kind = "load"
        /\ trip' = [trip EXCEPT ![n] = NoTrip] /\ UNCHANGED broken
     \/ /\ trip[n].kind # "load"
        /\ trip' = [trip EXCEPT ![n] = IF trip[n].pc \in {"sent", "read", "made"} THEN [trip[n] EXCEPT !.deaf = TRUE]
                                       ELSE NoTrip]
        /\ broken' = TRUE
  /\ Misses(n)
  /\ UNCHANGED <<pageRows, mind, meant, pressed, fetches>>

SurveyPagesNext ==
  \/ LoadReplies \/ PressSend
  \/ \E r \in Replies : \/ \E k \in Keys : ToggleField(r, k)
                        \/ \E accept \in BOOLEAN : PressReview(r, accept)
  \/ \E on \in BOOLEAN : OpenDialog(on)
  \/ \E keys \in SUBSET Keys : ChooseQuestions(keys)
  \/ \E f \in Tabs : \/ \E l \in Mails : OpenSheet(f, l)
                     \/ \E k \in Keys : FillIn(f, k)
                     \/ PressSubmit(f)
  \/ \E l \in Mails : MailExpires(l)
  \/ \E n \in Trips : ServeTrip(n) \/ HearTrip(n) \/ LoseTrip(n)

SurveyPagesSpec == SurveyPagesInit /\ [][SurveyPagesNext]_surveyPageVars

-----------------------------------------------------------------------------
(* Properties.                                                             *)

\* A card whose response was reviewed goes with the answer to that review; and
\* what is saved of a response is what the owner has left ticked of it, by
\* hand: all of it when it is approved, nothing when it is dismissed
\* (handleReview, survey-section.tsx:120-134).  Not so if a call failed halfway
\* or lost its answer, if the list that was loaded is older than the review,
\* or - which ticks everything - if a list came in after a box was cleared.
ReviewsAsMeant ==
  /\ \A r \in section.cards :
       \/ reply[r].row = "pending" \/ broken \/ outrun
       \/ \E n \in Trips : trip[n].kind = "review" /\ trip[n].reply = r /\ trip[n].pc = "served"
  /\ ~broken => \A r \in Replies :
       /\ reply[r].row = "dismissed" => reply[r].saved = {}
       /\ reply[r].row = "approved" => reply[r].saved = meant[r] \/ outrun \/ reticked

\* "someone who never submitted anything isn't told their non-existent
\* submission was received" (survey/[token]/page.tsx:20-22); who is thanked has
\* sent one response, and who is asked to try again none, unless a call failed
\* halfway or lost its answer.
FormsToldRight ==
  \A f \in Tabs :
    LET own == {r \in Replies : reply[r].tab = f} IN
    /\ sheet[f].told = "completed" => \E r \in Replies : /\ reply[r].tab # NoTab
                                                         /\ sheet[reply[r].tab].mail = sheet[f].mail
    /\ sheet[f].shows = "thanks" => own # {}
    /\ ~broken => /\ \A r, q \in own : r = q
                  /\ own # {} => sheet[f].shows = "thanks" \/ sheet[f].sending

\* Nothing stays disabled once nothing is under way.
ButtonsComeBack ==
  OnTrip = {} => section.busy = {} /\ ~dialog.sending /\ \A f \in Tabs : ~sheet[f].sending

\* The pages of a survey show what became of it.
SurveyPagesAsServed == ReviewsAsMeant /\ FormsToldRight /\ ButtonsComeBack
=============================================================================
