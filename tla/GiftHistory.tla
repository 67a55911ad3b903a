----------------------------- MODULE GiftHistory -----------------------------
(***************************************************************************)
(* The gift history on a person's page: the list with its filter by year,  *)
(* and the dialogs to log a gift, rate it, ban it and delete it.  Every    *)
(* request may be answered late, in any order, refused or lost, and a      *)
(* dialog may be left while its request is under way.                      *)
(***************************************************************************)
EXTENDS Naturals, FiniteSets

CONSTANTS
  Gifts,     \* gift records, logged already or to be logged
  NoGift,
  YearOf,    \* YearOf[g]: the year the gift g was given
  AllYears,  \* the filter's other choice
  Pro,       \* the plan may filter by year
  Lines,     \* requests that may be under way at once
  MaxSends,  \* bound on the requests to change something
  MaxLists   \* bound on the loads of the list

ASSUME GiftHistoryAssumption ==
  NoGift \notin Gifts /\ Pro \in BOOLEAN /\ AllYears \notin {YearOf[g] : g \in Gifts}

Kinds == {"add", "rate", "ban", "delete"}
Ratings == {0, 1, 5}

VARIABLES
  row, stars,  \* the API's gift records and their ratings, 0 for none
  banned,      \* gifts whose title is on the person's never-again list
  list,        \* what the section shows
  dialogs,     \* dialogs[k]: the dialog of the kind k
  asked,       \* the section's requests under way
  sends, lists, \* requests sent so far
  mixed        \* an answer was lost, or two requests overlapped that must not

historyRows == <<row, stars, banned>>
historyVars == <<historyRows, list, dialogs, asked, sends, lists, mixed>>

Shut == [gift |-> NoGift, open |-> FALSE, busy |-> FALSE]
NoAnswer == [gifts |-> {}, stars |-> [g \in Gifts |-> 0]]
NoAsk == [kind |-> "list", gift |-> NoGift, stars |-> 0, dialog |-> FALSE, year |-> AllYears, pc |-> "idle",
          answer |-> NoAnswer]

Matching(year) == {g \in Gifts : row[g] = "there" /\ year \in {AllYears, YearOf[g]}}

HistoryTypeOK ==
  /\ row \in [Gifts -> {"none", "there", "gone"}] /\ stars \in [Gifts -> Ratings] /\ banned \subseteq Gifts
  /\ list.shown \subseteq Gifts /\ list.stars \in [Gifts -> Ratings] /\ list.loading \in BOOLEAN
  /\ dialogs \in [Kinds -> [gift : Gifts \cup {NoGift}, open : BOOLEAN, busy : BOOLEAN]]
  /\ \A n \in Lines : /\ asked[n].kind \in Kinds \cup {"list"}
                      /\ asked[n].pc \in {"idle", "sent", "served", "refused"}
  /\ sends \in 0 .. MaxSends /\ lists \in 0 .. MaxLists /\ mixed \in BOOLEAN

HistoryInit ==
  /\ row \in [Gifts -> {"none", "there"}] /\ stars = [g \in Gifts |-> 0] /\ banned = {}
  /\ list = [shown |-> {}, stars |-> stars, filter |-> AllYears, loading |-> TRUE]
  /\ dialogs = [k \in Kinds |-> Shut]
  /\ asked = [n \in Lines |-> NoAsk]
  /\ sends = 0 /\ lists = 0 /\ mixed = FALSE

-----------------------------------------------------------------------------
(* The section.                                                            *)

Open == {n \in Lines : asked[n].pc # "idle"}
Line == CHOOSE n \in Lines : n \notin Open

\* A load next to anything but a ban; two ratings of one gift.
Collides(kind, gift) ==
  \E n \in Open :
    \/ kind = "list" /\ asked[n].kind # "ban"
    \/ kind # "ban" /\ asked[n].kind = "list"
    \/ kind = "rate" /\ asked[n].kind = "rate" /\ asked[n].gift = gift

Ask(kind, gift, rating, inDialog) ==
  /\ Open # Lines /\ sends < MaxSends /\ sends' = sends + 1
  /\ asked' = [asked EXCEPT ![Line] =
       [NoAsk EXCEPT !.kind = kind, !.gift = gift, !.stars = rating, !.dialog = inDialog,
                     !.year = list.filter, !.pc = "sent"]]
  /\ mixed' = (mixed \/ Collides(kind, gift))

\* loadGifts(): on mount, with a new access token, or for another year.
LoadGifts(year) ==
  /\ Open # Lines /\ lists < MaxLists /\ lists' = lists + 1
  /\ asked' = [asked EXCEPT ![Line] = [NoAsk EXCEPT !.year = year, !.pc = "sent"]]
  /\ list' = [list EXCEPT !.filter = year, !.loading = TRUE]
  /\ mixed' = (mixed \/ Collides("list", NoGift))

Load ==
  /\ LoadGifts(list.filter)
  /\ UNCHANGED <<historyRows, dialogs, sends>>

NoDialogOpen == \A k \in Kinds : ~dialogs[k].open

\* The choice is offered if the list shows gifts of two years.
Filter(year) ==
  /\ NoDialogOpen /\ Cardinality({YearOf[g] : g \in list.shown}) > 1
  /\ year \in {AllYears} \cup {YearOf[g] : g \in list.shown} /\ year # list.filter
  /\ Pro \/ year = AllYears
  /\ LoadGifts(year)
  /\ UNCHANGED <<historyRows, dialogs, sends>>

OnRow(g) == NoDialogOpen /\ ~list.loading /\ g \in list.shown

NailedIt(g) ==
  /\ OnRow(g) /\ list.stars[g] = 0 /\ Ask("rate", g, 5, FALSE)
  /\ UNCHANGED <<historyRows, list, dialogs, lists>>

OpenOnRow(kind, g) ==
  /\ OnRow(g) /\ kind \in {"rate", "delete"} /\ (kind = "rate" => list.stars[g] = 0)
  /\ dialogs' = [dialogs EXCEPT ![kind] = [gift |-> g, open |-> TRUE, busy |-> FALSE]]
  /\ UNCHANGED <<historyRows, list, asked, sends, lists, mixed>>

\* The form that logs a gift is kept when it is closed.
OpenAdd ==
  /\ NoDialogOpen
  /\ dialogs' = [dialogs EXCEPT !["add"].open = TRUE]
  /\ UNCHANGED <<historyRows, list, asked, sends, lists, mixed>>

LeaveDialog(kind) ==
  /\ dialogs[kind].open
  /\ dialogs' = [dialogs EXCEPT ![kind] = IF kind = "add" THEN [@ EXCEPT !.open = FALSE] ELSE Shut]
  /\ UNCHANGED <<historyRows, list, asked, sends, lists, mixed>>

\* Save, Ban It Forever or Delete; Save Feedback with a rating. What is logged
\* is a new record each time, also after an answer that was lost.
SubmitDialog(kind, g, rating) ==
  /\ dialogs[kind].open /\ ~dialogs[kind].busy
  /\ IF kind = "add" THEN row[g] = "none" ELSE g = dialogs[kind].gift
  /\ rating = 0 <=> kind # "rate"
  /\ Ask(kind, g, rating, TRUE)
  /\ dialogs' = [dialogs EXCEPT ![kind].busy = TRUE]
  /\ UNCHANGED <<historyRows, list, lists>>

-----------------------------------------------------------------------------
(* The API.                                                                *)

Serves(n) ==
  LET g == asked[n].gift IN
  CASE asked[n].kind = "list" -> UNCHANGED historyRows
    [] asked[n].kind = "add" -> row' = [row EXCEPT ![g] = "there"] /\ UNCHANGED <<stars, banned>>
    [] asked[n].kind = "rate" -> stars' = [stars EXCEPT ![g] = asked[n].stars] /\ UNCHANGED <<row, banned>>
    [] asked[n].kind = "ban" -> banned' = banned \cup {g} /\ UNCHANGED <<row, stars>>
    [] asked[n].kind = "delete" -> row' = [row EXCEPT ![g] = "gone"] /\ UNCHANGED <<stars, banned>>

\* A gift that is deleted can be neither rated nor deleted again.
ServeAsk(n) ==
  /\ asked[n].pc = "sent"
  /\ IF asked[n].kind \in {"rate", "delete"} /\ row[asked[n].gift] # "there"
     THEN UNCHANGED historyRows /\ asked' = [asked EXCEPT ![n].pc = "refused"]
     ELSE /\ Serves(n)
          /\ asked' = [asked EXCEPT ![n].pc = "served",
                                    ![n].answer = [gifts |-> Matching(asked[n].year), stars |-> stars']]
  /\ UNCHANGED <<list, dialogs, sends, lists, mixed>>

-----------------------------------------------------------------------------
(* What the section hears.                                                 *)

Done(n) == asked' = [asked EXCEPT ![n] = NoAsk]

HearList(n) ==
  /\ asked[n].kind = "list" /\ Done(n)
  /\ list' = [list EXCEPT !.shown = asked[n].answer.gifts, !.stars = asked[n].answer.stars, !.loading = FALSE]
  /\ UNCHANGED <<dialogs, lists, mixed>>

\* The new gift is shown by loading the list, for the year it was added in.
HearAdd(n) ==
  /\ asked[n].kind = "add" /\ lists < MaxLists /\ lists' = lists + 1
  /\ dialogs' = [dialogs EXCEPT !["add"] = Shut]
  /\ asked' = [asked EXCEPT ![n] = [NoAsk EXCEPT !.year = asked[n].year, !.pc = "sent"]]
  /\ mixed' = (mixed \/ asked[n].year # list.filter \/ \E m \in Open \ {n} : asked[m].kind # "ban")
  /\ list' = [list EXCEPT !.loading = TRUE]

\* A plausible bug: a row that is not in the list is put into it.
RatedPutBack(n) == [list EXCEPT !.stars[asked[n].gift] = asked[n].stars, !.shown = @ \cup {asked[n].gift}]

\* The row is replaced where the list still has it.
Rated(n) == [list EXCEPT !.stars[asked[n].gift] = asked[n].stars]

\* One star in the dialog asks about a ban; the answer closes whatever
\* rating dialog is open.
HearRate(n) ==
  /\ asked[n].kind = "rate" /\ Done(n)
  /\ list' = Rated(n)
  /\ dialogs' = IF ~asked[n].dialog THEN dialogs
                ELSE [dialogs EXCEPT !["rate"] = Shut,
                        !["ban"] = IF asked[n].stars = 1 THEN [gift |-> asked[n].gift, open |-> TRUE, busy |-> FALSE]
                                   ELSE @]
  /\ UNCHANGED <<lists, mixed>>

HearBan(n) ==
  /\ asked[n].kind = "ban" /\ Done(n)
  /\ dialogs' = [dialogs EXCEPT !["ban"] = Shut]
  /\ UNCHANGED <<list, lists, mixed>>

HearDelete(n) ==
  /\ asked[n].kind = "delete" /\ Done(n)
  /\ dialogs' = [dialogs EXCEPT !["delete"] = Shut]
  /\ list' = [list EXCEPT !.shown = @ \ {asked[n].gift}]
  /\ UNCHANGED <<lists, mixed>>

HearAnswer(n) ==
  /\ asked[n].pc = "served"
  /\ HearList(n) \/ HearAdd(n) \/ HearRate(n) \/ HearBan(n) \/ HearDelete(n)
  /\ UNCHANGED <<historyRows, sends>>

\* Refused or lost: the dialog, if it is still the same, may be tried again.
HearFailure(n) ==
  /\ n \in Open /\ Done(n)
  /\ mixed' = (mixed \/ asked[n].pc # "refused")
  /\ list' = [list EXCEPT !.loading = @ /\ asked[n].kind # "list"]
  /\ dialogs' = IF asked[n].dialog /\ dialogs[asked[n].kind].gift \in {asked[n].gift, NoGift}
                THEN [dialogs EXCEPT ![asked[n].kind].busy = FALSE] ELSE dialogs
  /\ UNCHANGED <<historyRows, sends, lists>>

HistoryNext ==
  \/ Load \/ OpenAdd
  \/ \E year \in {AllYears} \cup {YearOf[g] : g \in Gifts} : Filter(year)
  \/ \E g \in Gifts : NailedIt(g) \/ \E kind \in Kinds : OpenOnRow(kind, g)
  \/ \E kind \in Kinds : LeaveDialog(kind) \/ \E g \in Gifts, rating \in Ratings : SubmitDialog(kind, g, rating)
  \/ \E n \in Lines : ServeAsk(n) \/ HearAnswer(n) \/ HearFailure(n)

HistorySpec == HistoryInit /\ [][HistoryNext]_historyVars

-----------------------------------------------------------------------------
(* Properties.                                                             *)

\* When nothing is on its way, the section shows the API's gifts of the year
\* it is set to, with their ratings - whatever ratings, deletions and bans
\* overlapped, and in whatever order their answers came - unless an answer was
\* lost, a load ran into a change, or one gift was rated twice at once. And no
\* dialog or list is left waiting.
HistoryAsServed ==
  Open = {} /\ lists > 0 =>
    /\ ~list.loading /\ \A k \in Kinds : ~dialogs[k].busy
    /\ ~mixed => /\ list.shown = Matching(list.filter)
                 /\ \A g \in list.shown : list.stars[g] = stars[g]
=============================================================================
