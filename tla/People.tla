------------------------------- MODULE People -------------------------------
(***************************************************************************)
(* The people of one user: adding one under the plan's limit, with the     *)
(* count and the insert in one serializable transaction, removing one, and *)
(* the form that edits a dossier.                                          *)
(***************************************************************************)
EXTENDS Naturals, FiniteSets

CONSTANTS
  Newcomers,   \* requests to add a person, named after it
  OldFriends,  \* people the user had before
  MaxPeople,   \* the plan's limit
  Details,     \* the optional fields of the form
  Words,       \* what may be typed into one
  Blank,       \* an empty field; in a request: a field that is not sent
  Submissions        \* bound on the submissions of the form

ASSUME PeopleAssumption ==
  /\ Newcomers \cap OldFriends = {} /\ IsFiniteSet(OldFriends)
  /\ MaxPeople \in Nat /\ Cardinality(OldFriends) <= MaxPeople
  /\ Blank \notin Words /\ Submissions \in Nat

VARIABLES
  people,     \* the persons that are not deleted
  unlimited,  \* the user has moved to a plan without a limit
  newcomer,   \* newcomer[n]: a request to add n
  dossier,    \* one person's optional fields
  page,       \* the form that edits them
  saves       \* submissions so far

peopleVars == <<people, unlimited, newcomer, dossier, page, saves>>

Newcomer == [pc : {"new", "limit", "counted", "made", "full", "conflict"},
             capped : BOOLEAN,   \* the plan that was read has a limit
             count : Nat,        \* the people the transaction counted
             overtaken : BOOLEAN,  \* a capped transaction was committed meanwhile
             crowded : BOOLEAN]  \* the limit was reached at some time since
Typed == [Details -> Words \cup {Blank}]

PeopleTypeOK ==
  /\ people \subseteq Newcomers \cup OldFriends /\ unlimited \in BOOLEAN /\ newcomer \in [Newcomers -> Newcomer]
  /\ dossier \in Typed /\ saves \in 0 .. Submissions
  /\ page.pc \in {"away", "open", "sent", "saved"} /\ page.typed \in Typed

PeopleInit ==
  /\ people = OldFriends /\ unlimited = FALSE
  /\ newcomer = [n \in Newcomers |->
       [pc |-> "new", capped |-> TRUE, count |-> 0, overtaken |-> FALSE, crowded |-> FALSE]]
  /\ dossier \in Typed
  /\ page = [pc |-> "away", typed |-> dossier]
  /\ saves = 0

-----------------------------------------------------------------------------
(* create() and softDelete().                                              *)

\* The requests under way note that the limit is reached.
Crowd(requests, now) ==
  [n \in Newcomers |-> IF requests[n].pc \in {"limit", "counted"} /\ Cardinality(now) >= MaxPeople
                       THEN [requests[n] EXCEPT !.crowded = TRUE] ELSE requests[n]]

AddReadLimit(n) ==
  /\ newcomer[n].pc = "new"
  /\ newcomer' = Crowd([newcomer EXCEPT ![n].pc = "limit", ![n].capped = ~unlimited], people)
  /\ UNCHANGED <<people, unlimited, dossier, page, saves>>

\* The transaction begins with the count, if there is a limit to count for.
AddCount(n) ==
  /\ newcomer[n].pc = "limit"
  /\ newcomer' = [newcomer EXCEPT ![n].pc = IF newcomer[n].capped /\ Cardinality(people) >= MaxPeople
                                            THEN "full" ELSE "counted",
                                  ![n].count = Cardinality(people)]
  /\ UNCHANGED <<people, unlimited, dossier, page, saves>>

\* A plausible bug: the default isolation level.
ConflictsNot(n) == FALSE

\* Postgres lets one of two transactions commit if each has counted before the
\* other inserted; one that counted nothing conflicts with none.
Conflicts(n) == newcomer[n].capped /\ newcomer[n].overtaken

\* The loser is answered as if the limit had been reached.
AddCommit(n) ==
  /\ newcomer[n].pc = "counted"
  /\ IF Conflicts(n)
     THEN newcomer' = [newcomer EXCEPT ![n].pc = "conflict"] /\ UNCHANGED people
     ELSE /\ people' = people \cup {n}
          /\ newcomer' = Crowd([m \in Newcomers |->
               IF m = n THEN [newcomer[n] EXCEPT !.pc = "made"]
               ELSE [newcomer[m] EXCEPT !.overtaken = @ \/ (newcomer[m].pc = "counted" /\ newcomer[n].capped)]],
               people')
  /\ UNCHANGED <<unlimited, dossier, page, saves>>

Remove(p) ==
  /\ p \in people
  /\ people' = people \ {p}
  /\ UNCHANGED <<unlimited, newcomer, dossier, page, saves>>

Upgrade ==
  /\ ~unlimited /\ unlimited' = TRUE
  /\ UNCHANGED <<people, newcomer, dossier, page, saves>>

-----------------------------------------------------------------------------
(* The form.                                                               *)

\* The form starts with the dossier, an absent field as an empty one.
OpenForm ==
  /\ page.pc \in {"away", "saved"}
  /\ page' = [pc |-> "open", typed |-> dossier]
  /\ UNCHANGED <<people, unlimited, newcomer, dossier, saves>>

Type(f, word) ==
  /\ page.pc = "open"
  /\ page' = [page EXCEPT !.typed[f] = word]
  /\ UNCHANGED <<people, unlimited, newcomer, dossier, saves>>

\* onFormSubmit(): an empty field becomes undefined and is not sent.
Sent(typed) == [f \in {g \in Details : typed[g] # Blank} |-> typed[f]]

SubmitForm ==
  /\ page.pc = "open" /\ saves < Submissions
  /\ saves' = saves + 1
  /\ page' = [page EXCEPT !.pc = "sent"]
  /\ UNCHANGED <<people, unlimited, newcomer, dossier>>

\* update() leaves alone what it was not sent.
Updated == [f \in Details |-> IF f \in DOMAIN Sent(page.typed) THEN Sent(page.typed)[f] ELSE dossier[f]]

\* The page says "Updated."
SaveForm ==
  /\ page.pc = "sent"
  /\ dossier' = Updated
  /\ page' = [page EXCEPT !.pc = "saved"]
  /\ UNCHANGED <<people, unlimited, newcomer, saves>>

\* An error, or an answer that is lost: the form stays as it was typed.
SaveFails ==
  /\ page.pc = "sent"
  /\ dossier' \in {dossier, Updated}
  /\ page' = [page EXCEPT !.pc = "open"]
  /\ UNCHANGED <<people, unlimited, newcomer, saves>>

PeopleNext ==
  \/ \E n \in Newcomers : AddReadLimit(n) \/ AddCount(n) \/ AddCommit(n)
  \/ \E p \in Newcomers \cup OldFriends : Remove(p)
  \/ \E f \in Details, word \in Words \cup {Blank} : Type(f, word)
  \/ Upgrade \/ OpenForm \/ SubmitForm \/ SaveForm \/ SaveFails

PeopleSpec == PeopleInit /\ [][PeopleNext]_peopleVars

-----------------------------------------------------------------------------
(* Properties.                                                             *)

\* However many requests race, a plan with a limit never has more people than
\* that: of two that have counted the same, one is refused.
PeopleWithinPlan == unlimited \/ Cardinality(people) <= MaxPeople

\* Who is told "You've hit the Free limit" met a full list at some time of the
\* request, also when the database has aborted the transaction.
RefusedMeansFull ==
  \A n \in Newcomers : newcomer[n].pc \in {"full", "conflict"} => newcomer[n].crowded

\* When the form says that it has saved, the dossier is what was typed.
SavedAsTyped == page.pc = "saved" => dossier = page.typed
=============================================================================
