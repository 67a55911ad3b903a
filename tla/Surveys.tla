------------------------------ MODULE Surveys ------------------------------
(***************************************************************************)
(* Surveys about one person (SurveyService): the links that are mailed,    *)
(* the answers that come back, and their review, which saves the approved  *)
(* ones through PersonsService.update, like the owner's own saves.         *)
(***************************************************************************)
EXTENDS Naturals, FiniteSets

CONSTANTS
  Fields,      \* fields of the person that count for its completeness
  Sends,       \* calls of sendSurvey, and the links they make
  Submits,     \* calls of submitSurvey, and the responses they make
  Updates,     \* updates of the person: the owner's, and reviews
  NoSubmit,    \* no response: the owner's own save
  NoLink,      \* no link
  MaxRestarts  \* bound on restarts

ASSUME SurveysAssumption ==
  /\ NoSubmit \notin Submits /\ NoLink \notin Sends /\ MaxRestarts \in Nat

VARIABLES
  sendMark,   \* the mark of checkSurveySendRateLimit: sent within a day
  surveyLink, \* surveyLink[s]: the call, and the row of its link
  submit,     \* submit[b]: the call, its link, and its response
  filled,     \* the fields of the person that are filled in
  score,      \* its completeness_score: here the number of such fields
  update,     \* update[u]: where it is, and what it read
  jumbled,    \* have two updates overlapped, or a restart cut one short?
  restarts    \* restarts so far

surveyVars == <<sendMark, surveyLink, submit, filled, score, update, jumbled, restarts>>

-----------------------------------------------------------------------------
(* Types.                                                                  *)

SurveyLink == [pc : {"new", "supersede", "create", "mail", "done", "dead"},
               row : {"none", "live", "over", "answered"}]
Submit == [pc : {"new", "read", "mark", "done", "dead"}, link : Sends \cup {NoLink},
           status : {"none", "pending", "approved", "dismissed"}, applied : BOOLEAN]
Update == [pc : {"new", "read", "write", "score", "mark", "done"},
           response : Submits \cup {NoSubmit}, fields : SUBSET Fields,
           seen : SUBSET Fields, seenScore : 0..Cardinality(Fields)]

SurveysTypeOK ==
  /\ sendMark \in BOOLEAN
  /\ surveyLink \in [Sends -> SurveyLink]
  /\ submit \in [Submits -> Submit]
  /\ filled \subseteq Fields
  /\ score \in 0..Cardinality(Fields)
  /\ update \in [Updates -> Update]
  /\ jumbled \in BOOLEAN
  /\ restarts \in 0..MaxRestarts

NewUpdate == [pc |-> "new", response |-> NoSubmit, fields |-> {}, seen |-> {}, seenScore |-> 0]

SurveysInit ==
  /\ sendMark = FALSE
  /\ surveyLink = [s \in Sends |-> [pc |-> "new", row |-> "none"]]
  /\ submit = [b \in Submits |-> [pc |-> "new", link |-> NoLink, status |-> "none",
                                  applied |-> FALSE]]
  /\ filled = {}
  /\ score = 0
  /\ update = [u \in Updates |-> NewUpdate]
  /\ jumbled = FALSE
  /\ restarts = 0

personVars == <<filled, score, update, jumbled>>

-----------------------------------------------------------------------------
(* Links.                                                                  *)

\* One survey a day and person: the mark is read and set in one turn.
SendCheck(s) ==
  /\ surveyLink[s].pc = "new" /\ ~sendMark
  /\ sendMark' = TRUE
  /\ surveyLink' = [surveyLink EXCEPT ![s].pc = "supersede"]
  /\ UNCHANGED <<submit, personVars, restarts>>

\* A plausible bug: the links before this one stay.
SendSupersedeNone(s) ==
  /\ surveyLink[s].pc = "supersede"
  /\ surveyLink' = [surveyLink EXCEPT ![s].pc = "create"]
  /\ UNCHANGED <<sendMark, submit, personVars, restarts>>

\* The links before this one end.
SendSupersede(s) ==
  /\ surveyLink[s].pc = "supersede"
  /\ surveyLink' = [t \in Sends |->
       IF t = s THEN [surveyLink[t] EXCEPT !.pc = "create"]
       ELSE [surveyLink[t] EXCEPT !.row = IF @ = "live" THEN "over" ELSE @]]
  /\ UNCHANGED <<sendMark, submit, personVars, restarts>>

SendCreate(s) ==
  /\ surveyLink[s].pc = "create"
  /\ surveyLink' = [surveyLink EXCEPT ![s] = [pc |-> "mail", row |-> "live"]]
  /\ UNCHANGED <<sendMark, submit, personVars, restarts>>

\* The mail goes out, or fails: then nobody has the link, and the mark stays.
SendMail(s) ==
  /\ surveyLink[s].pc = "mail"
  /\ \E pc \in {"done", "dead"} : surveyLink' = [surveyLink EXCEPT ![s].pc = pc]
  /\ UNCHANGED <<sendMark, submit, personVars, restarts>>

\* Fourteen days, and one.
SurveyLinkExpire(s) ==
  /\ surveyLink[s].row = "live"
  /\ surveyLink' = [surveyLink EXCEPT ![s].row = "over"]
  /\ UNCHANGED <<sendMark, submit, personVars, restarts>>

Sending == {s \in Sends : surveyLink[s].pc \in {"supersede", "create", "mail"}}

SendDayEnds ==
  /\ sendMark /\ Sending = {}
  /\ sendMark' = FALSE
  /\ UNCHANGED <<surveyLink, submit, personVars, restarts>>

-----------------------------------------------------------------------------
(* Answers.                                                                *)

\* getValidLink; only who got the mail has the link.
SubmitRead(b, s) ==
  /\ submit[b].pc = "new"
  /\ surveyLink[s].pc = "done" /\ surveyLink[s].row = "live"
  /\ submit' = [submit EXCEPT ![b].pc = "read", ![b].link = s]
  /\ UNCHANGED <<sendMark, surveyLink, personVars, restarts>>

SubmitCreate(b) ==
  /\ submit[b].pc = "read"
  /\ submit' = [submit EXCEPT ![b].pc = "mark", ![b].status = "pending"]
  /\ UNCHANGED <<sendMark, surveyLink, personVars, restarts>>

\* responded_at, and the owner is notified.
SubmitMark(b) ==
  /\ submit[b].pc = "mark"
  /\ submit' = [submit EXCEPT ![b].pc = "done"]
  /\ surveyLink' = [surveyLink EXCEPT ![submit[b].link].row = "answered"]
  /\ UNCHANGED <<sendMark, personVars, restarts>>

-----------------------------------------------------------------------------
(* Updates of the person.                                                  *)

Updating == {u \in Updates : update[u].pc \in {"read", "write", "score", "mark"}}

\* ensureOwnership reads the row that the score is computed from later.
UpdateRead(u, response, fields) ==
  /\ update[u].pc \in {"new", "read"}
  /\ update' = [update EXCEPT ![u] =
       [pc |-> "write", response |-> response, fields |-> fields, seen |-> filled,
        seenScore |-> score]]

OwnerSave(u, fields) ==
  /\ update[u].pc = "new" /\ fields # {}
  /\ UpdateRead(u, NoSubmit, fields)
  /\ jumbled' = (jumbled \/ Updating # {})
  /\ UNCHANGED <<sendMark, surveyLink, submit, filled, score, restarts>>

UpdateWrite(u) ==
  /\ update[u].pc = "write"
  /\ filled' = filled \cup update[u].fields
  /\ update' = [update EXCEPT ![u].pc = "score"]
  /\ submit' = [b \in Submits |-> IF b = update[u].response
                                  THEN [submit[b] EXCEPT !.applied = TRUE] ELSE submit[b]]
  /\ UNCHANGED <<sendMark, surveyLink, score, jumbled, restarts>>

\* A plausible bug: the score is that of the row that was read.
UpdateScoreSeen(u) ==
  LET q == update[u]
      new == Cardinality(q.seen) IN
  /\ q.pc = "score"
  /\ score' = IF new # q.seenScore THEN new ELSE score
  /\ update' = [update EXCEPT ![u] =
       IF q.response = NoSubmit THEN [NewUpdate EXCEPT !.pc = "done"]
       ELSE [@ EXCEPT !.pc = "mark", !.seen = {}, !.seenScore = 0]]
  /\ UNCHANGED <<sendMark, surveyLink, submit, filled, jumbled, restarts>>

\* The score of what was read and what is saved, written if it differs from
\* the score that was read.
UpdateScore(u) ==
  LET q == update[u]
      new == Cardinality(q.seen \cup q.fields) IN
  /\ q.pc = "score"
  /\ score' = IF new # q.seenScore THEN new ELSE score
  /\ update' = [update EXCEPT ![u] =
       IF q.response = NoSubmit THEN [NewUpdate EXCEPT !.pc = "done"]
       ELSE [@ EXCEPT !.pc = "mark", !.seen = {}, !.seenScore = 0]]
  /\ UNCHANGED <<sendMark, surveyLink, submit, filled, jumbled, restarts>>

\* reviewResponse: a pending response is dismissed or approved.
ReviewRead(u, b) ==
  /\ update[u].pc = "new" /\ submit[b].status = "pending"
  /\ update' = [update EXCEPT ![u].pc = "read", ![u].response = b]
  /\ jumbled' = (jumbled \/ Updating # {})
  /\ UNCHANGED <<sendMark, surveyLink, submit, filled, score, restarts>>

Review(u, status) ==
  /\ submit' = [submit EXCEPT ![update[u].response].status = status]
  /\ update' = [update EXCEPT ![u] = [NewUpdate EXCEPT !.pc = "done"]]
  /\ UNCHANGED <<sendMark, surveyLink, filled, score, jumbled, restarts>>

ReviewDismiss(u) == update[u].pc = "read" /\ Review(u, "dismissed")

\* What the owner accepts is saved before the response is marked.
ReviewApprove(u, fields) ==
  /\ update[u].pc = "read" /\ fields # {}
  /\ UpdateRead(u, update[u].response, fields)
  /\ UNCHANGED <<sendMark, surveyLink, submit, filled, score, jumbled, restarts>>

ReviewMark(u) == update[u].pc = "mark" /\ Review(u, "approved")

-----------------------------------------------------------------------------

\* A restart ends the calls and forgets the mark.
SurveysRestart ==
  /\ restarts < MaxRestarts
  /\ restarts' = restarts + 1
  /\ sendMark' = FALSE
  /\ surveyLink' = [s \in Sends |-> IF s \in Sending THEN [surveyLink[s] EXCEPT !.pc = "dead"]
                                    ELSE surveyLink[s]]
  /\ submit' = [b \in Submits |-> IF submit[b].pc \in {"read", "mark"}
                                  THEN [submit[b] EXCEPT !.pc = "dead"] ELSE submit[b]]
  /\ update' = [u \in Updates |-> IF u \in Updating THEN [NewUpdate EXCEPT !.pc = "done"]
                                  ELSE update[u]]
  /\ jumbled' = (jumbled \/ Updating # {})
  /\ UNCHANGED <<filled, score>>

SurveysNext ==
  \/ \E s \in Sends : \/ SendCheck(s) \/ SendSupersede(s) \/ SendCreate(s) \/ SendMail(s)
                      \/ SurveyLinkExpire(s)
  \/ SendDayEnds
  \/ \E b \in Submits : \/ (\E s \in Sends : SubmitRead(b, s))
                        \/ SubmitCreate(b) \/ SubmitMark(b)
  \/ \E u \in Updates :
       \/ \E fields \in SUBSET Fields : OwnerSave(u, fields) \/ ReviewApprove(u, fields)
       \/ \E b \in Submits : ReviewRead(u, b)
       \/ UpdateWrite(u) \/ UpdateScore(u) \/ ReviewDismiss(u) \/ ReviewMark(u)
  \/ SurveysRestart

SurveysSpec == SurveysInit /\ [][SurveysNext]_surveyVars

-----------------------------------------------------------------------------
(* Properties.                                                             *)

\* "only the most recently sent link for a person is ever valid"
\* (survey.service.ts:79-80), through sends of other days, restarts that forget
\* the daily mark and links that nobody got.
OneLiveLink ==
  \A s, t \in Sends : surveyLink[s].row = "live" /\ surveyLink[t].row = "live" => s = t

\* The score is that of the fields, although it is computed from a row read
\* before the save and only written if it differs from the score in that row:
\* unless two updates overlap or one is cut short (update,
\* persons.service.ts:137-203).
ScoreAgrees == ~jumbled /\ Updating = {} => score = Cardinality(filled)

\* What sends, answers, reviews and updates of the person leave behind adds up:
\* one live link, and the score of the fields.
SurveysAddUp == OneLiveLink /\ ScoreAgrees
=============================================================================
