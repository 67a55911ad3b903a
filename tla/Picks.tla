------------------------------- MODULE Picks -------------------------------
(***************************************************************************)
(* What the user does with the suggestions of an event: selectSuggestion   *)
(* and dismissSuggestion of SuggestionsService, and the operations on gift *)
(* records of GiftsService and OrdersService that meet them.               *)
(*                                                                         *)
(* A set stands for one suggestion of it.  A gift record is named by the   *)
(* pick that creates it.                                                   *)
(***************************************************************************)
EXTENDS Rerolls

CONSTANTS
  Picks,   \* selectSuggestion calls, and the gift records they create
  Drops,   \* dismissSuggestion calls
  NoPick   \* no gift record

ASSUME PicksAssumption == NoPick \notin Picks

VARIABLES
  selected,   \* the suggestions with is_selected
  dismissed,  \* the suggestions with is_dismissed
  record,     \* record[p]: the gift record that pick p has created
  pick,       \* pick[p]: where it is, its suggestion, the record it has found
  drop,       \* drop[d]: where it is, its suggestion, was it selected
  mixed       \* have two calls overlapped, one failed, or a gift been ordered?

pickVars == <<selected, dismissed, record, pick, drop, mixed>>

-----------------------------------------------------------------------------
(* Types.                                                                  *)

\* suggestion NoCall: there is no such row.
Gift == [suggestion : Calls \cup {NoCall}, source : {"suggestion", "ordered"},
         scored : BOOLEAN]
NoGift == [suggestion |-> NoCall, source |-> "suggestion", scored |-> FALSE]

PickRunning == {"clear", "set", "find", "save"}
Pick == [pc : {"start", "ok", "failed", "dead"} \cup PickRunning,
         suggestion : Calls \cup {NoCall}, found : Picks \cup {NoPick}]

DropRunning == {"mark", "clear", "delete"}
Drop == [pc : {"start", "done", "dead"} \cup DropRunning,
         suggestion : Calls \cup {NoCall}, was : BOOLEAN]

PicksTypeOK ==
  /\ selected \subseteq sets
  /\ dismissed \subseteq sets
  /\ record \in [Picks -> Gift]
  /\ pick \in [Picks -> Pick]
  /\ drop \in [Drops -> Drop]
  /\ mixed \in BOOLEAN

PicksInit ==
  /\ selected = {}
  /\ dismissed = {}
  /\ record = [p \in Picks |-> NoGift]
  /\ pick = [p \in Picks |-> [pc |-> "start", suggestion |-> NoCall, found |-> NoPick]]
  /\ drop = [d \in Drops |-> [pc |-> "start", suggestion |-> NoCall, was |-> FALSE]]
  /\ mixed = FALSE

-----------------------------------------------------------------------------
(* Helpers.                                                                *)

Gifts == {p \in Picks : record[p].suggestion # NoCall}
OpenGifts == {p \in Gifts : record[p].source = "suggestion"}

\* suggestion_id of gift_records is unique.
GiftTaken(s, r) == \E p \in Gifts \ {r} : record[p].suggestion = s

Busy == (\E p \in Picks : pick[p].pc \in PickRunning)
        \/ (\E d \in Drops : drop[d].pc \in DropRunning)

PickGoes(p, pc) == pick' = [pick EXCEPT ![p].pc = pc]
DropGoes(d, pc) == drop' = [drop EXCEPT ![d].pc = pc]

\* invalidateByPattern(suggest:<person>:*).
Invalidate ==
  /\ cache' = EmptyCache
  /\ UNCHANGED <<gen, index, answer, claimed, sets, faults>>

-----------------------------------------------------------------------------
(* selectSuggestion.                                                       *)

PickRead(p, s) ==
  /\ pick[p].pc = "start"
  /\ s \in sets
  /\ pick' = [pick EXCEPT ![p].pc = IF s \in dismissed THEN "failed" ELSE "clear",
                          ![p].suggestion = s]
  /\ mixed' = (mixed \/ Busy)
  /\ UNCHANGED <<selected, dismissed, record, drop, rerollVars>>

PickClear(p) ==
  /\ pick[p].pc = "clear"
  /\ selected' = {}
  /\ PickGoes(p, "set")
  /\ UNCHANGED <<dismissed, record, drop, mixed, rerollVars>>

PickSet(p) ==
  /\ pick[p].pc = "set"
  /\ selected' = selected \cup {pick[p].suggestion}
  /\ PickGoes(p, "find")
  /\ UNCHANGED <<dismissed, record, drop, mixed, rerollVars>>

\* A plausible bug: every pick creates a gift record.
PickFindNone(p) ==
  /\ pick[p].pc = "find"
  /\ pick' = [pick EXCEPT ![p].pc = "save", ![p].found = NoPick]
  /\ UNCHANGED <<selected, dismissed, record, drop, mixed, rerollVars>>

\* findFirst without an order: any record of the event that is not ordered.
PickFind(p) ==
  /\ pick[p].pc = "find"
  /\ \E r \in IF OpenGifts = {} THEN {NoPick} ELSE OpenGifts :
       pick' = [pick EXCEPT ![p].pc = "save", ![p].found = r]
  /\ UNCHANGED <<selected, dismissed, record, drop, mixed, rerollVars>>

\* Update the record that was found, or create one; then forget the cached
\* sets.  The update may find the record gone, and both the suggestion taken.
PickSave(p) ==
  LET r == IF pick[p].found = NoPick THEN p ELSE pick[p].found
      s == pick[p].suggestion
      Fails == GiftTaken(s, r) \/ (r # p /\ r \notin Gifts) IN
  /\ pick[p].pc = "save"
  /\ ~Fails
  /\ record' = [record EXCEPT ![r].suggestion = s]
  /\ PickGoes(p, "ok")
  /\ Invalidate
  /\ UNCHANGED <<selected, dismissed, drop, mixed>>

PickSaveFails(p) ==
  LET r == IF pick[p].found = NoPick THEN p ELSE pick[p].found
      Fails == GiftTaken(pick[p].suggestion, r) \/ (r # p /\ r \notin Gifts) IN
  /\ pick[p].pc = "save"
  /\ Fails
  /\ PickGoes(p, "failed")
  /\ mixed' = TRUE
  /\ UNCHANGED <<selected, dismissed, record, drop, rerollVars>>

-----------------------------------------------------------------------------
(* dismissSuggestion.                                                      *)

DropRead(d, s) ==
  /\ drop[d].pc = "start"
  /\ s \in sets
  /\ drop' = [drop EXCEPT ![d] = [pc |-> "mark", suggestion |-> s, was |-> s \in selected]]
  /\ mixed' = (mixed \/ Busy)
  /\ UNCHANGED <<selected, dismissed, record, pick, rerollVars>>

DropMark(d) ==
  /\ drop[d].pc = "mark"
  /\ dismissed' = dismissed \cup {drop[d].suggestion}
  /\ DropGoes(d, IF drop[d].was THEN "clear" ELSE "done")
  /\ UNCHANGED <<selected, record, pick, mixed, rerollVars>>

DropClear(d) ==
  /\ drop[d].pc = "clear"
  /\ selected' = selected \ {drop[d].suggestion}
  /\ DropGoes(d, "delete")
  /\ UNCHANGED <<dismissed, record, pick, mixed, rerollVars>>

DropDelete(d) ==
  /\ drop[d].pc = "delete"
  /\ record' = [p \in Picks |->
                  IF record[p].suggestion = drop[d].suggestion /\ ~record[p].scored
                  THEN NoGift ELSE record[p]]
  /\ DropGoes(d, "done")
  /\ UNCHANGED <<selected, dismissed, pick, mixed, rerollVars>>

-----------------------------------------------------------------------------
(* Gift records.                                                           *)

\* recordFeedback.
GiftScore(p) ==
  /\ p \in Gifts /\ ~record[p].scored
  /\ record' = [record EXCEPT ![p].scored = TRUE]
  /\ Invalidate
  /\ UNCHANGED <<selected, dismissed, pick, drop, mixed>>

\* deleteGiftRecord.
GiftDelete(p) ==
  /\ p \in Gifts
  /\ record' = [record EXCEPT ![p] = NoGift]
  /\ mixed' = TRUE
  /\ Invalidate
  /\ UNCHANGED <<selected, dismissed, pick, drop>>

\* OrdersService marks a record as ordered, and takes that back on a cancel.
GiftOrder(p) ==
  /\ p \in OpenGifts
  /\ record' = [record EXCEPT ![p].source = "ordered"]
  /\ mixed' = TRUE
  /\ UNCHANGED <<selected, dismissed, pick, drop, rerollVars>>

GiftUnorder(p) ==
  /\ p \in Gifts \ OpenGifts
  /\ record' = [record EXCEPT ![p].source = "suggestion"]
  /\ UNCHANGED <<selected, dismissed, pick, drop, mixed, rerollVars>>

PickStep(p) == PickClear(p) \/ PickSet(p) \/ PickFind(p) \/ PickSave(p) \/ PickSaveFails(p)

DropStep(d) == DropMark(d) \/ DropClear(d) \/ DropDelete(d)

GiftStep(p) == GiftScore(p) \/ GiftDelete(p) \/ GiftOrder(p) \/ GiftUnorder(p)

\* The half-done calls of a process that dies.
PicksDie ==
  /\ pick' = [p \in Picks |-> IF pick[p].pc \in PickRunning
                              THEN [pick[p] EXCEPT !.pc = "dead"] ELSE pick[p]]
  /\ drop' = [d \in Drops |-> IF drop[d].pc \in DropRunning
                              THEN [drop[d] EXCEPT !.pc = "dead"] ELSE drop[d]]
  /\ mixed' = (mixed \/ Busy)
  /\ UNCHANGED <<selected, dismissed, record>>

-----------------------------------------------------------------------------
(* Properties.                                                             *)

\* As long as picks and dismissals run one after another and no gift is ordered
\* or removed by hand, the event has at most one selected suggestion, it is not
\* dismissed, and it is the one of the event's gift record: a new pick moves
\* both, a dismissal drops both (selectSuggestion, dismissSuggestion,
\* suggestions.service.ts:538-600, 614-632).  A rated gift outlives the
\* dismissal of its suggestion.
PickAndGiftAgree ==
  ~mixed /\ ~Busy =>
    /\ Cardinality(selected) <= 1
    /\ selected \cap dismissed = {}
    /\ \A s \in selected : {record[p].suggestion : p \in OpenGifts} = {s}
    /\ selected = {} => \A p \in Gifts : record[p].scored
=============================================================================
