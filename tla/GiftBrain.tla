----------------------------- MODULE GiftBrain -----------------------------
(***************************************************************************)
(* services/ai and its callers in the API: suggestions, wishlists, tags,   *)
(* insights and photos.  The service is one event loop, and its calls to   *)
(* the language model block it, so that requests wait for each other; a    *)
(* caller gives up after a while, and the service works on for nobody.     *)
(* What the model says is checked, filtered and ranked before it is stored.*)
(***************************************************************************)
EXTENDS Naturals, FiniteSets, Sequences, SequencesExt, Ranks

CONSTANTS
  Asks,        \* calls of the API's handlers
  Titles,
  Alike,       \* pairs of titles that _fuzzy_match takes for each other
  Items,       \* what the model may suggest
  MaxItems,    \* bound on its answer
  Budget,      \* budget_max_cents
  Urls,        \* bound on the pages of a wishlist
  ModelRetries,
  AiTimeout, PhotoTimeout,  \* AI_TIMEOUT_MS of the callers, in ticks
  AttemptTime               \* ANTHROPIC_TIMEOUT_S, in ticks

\* Scores are in tenths.
ASSUME GiftBrainAssumption ==
  /\ Alike \subseteq Titles \X Titles /\ \A t \in Titles : <<t, t>> \in Alike
  /\ \A i \in Items : /\ DOMAIN i = {"title", "price", "delight", "novelty", "blocked"}
                      /\ i.title \in Titles /\ i.price \in Nat /\ i.blocked \in BOOLEAN
                      /\ i.delight \in 0 .. 10 /\ i.novelty \in 0 .. 10
  /\ {MaxItems, Budget, Urls, ModelRetries, AiTimeout, PhotoTimeout, AttemptTime} \subseteq Nat

VARIABLES
  ask,      \* ask[c]: the call as its handler sees it
  work,     \* work[c]: the call as the service sees it
  never,    \* the never-again list of the person
  given,    \* titles of the gift history
  kept      \* kept[c]: what the handler stored, and what it told the user

brainVars == <<ask, work, never, given, kept>>

\* The plans of the API, the lowest first.
Ranking == <<"free", "pro", "elite", "family">>
Tiers == ToSet(Ranking)

\* The plans that services/ai takes for valid.
SubscriptionTier == {"free", "pro", "elite"}

Endpoints == {"suggest", "parse", "tags", "insight", "photo"}
Statuses == {"none", "ok", "402", "403", "422", "429", "500", "502", "504"}
NoRules == [never |-> {}, history |-> {}, bold |-> FALSE]

BrainTypeOK ==
  /\ \A c \in Asks :
       /\ ask[c].pc \in {"new", "waiting", "answered", "done"}
       /\ ask[c].endpoint \in Endpoints /\ ask[c].tier \in Tiers
       /\ ask[c].age \in 0 .. AiTimeout /\ ask[c].status \in Statuses
       /\ ask[c].rules.never \in SUBSET Titles /\ ask[c].rules.history \in SUBSET Titles
       /\ work[c].at \in {"none", "queued", "page", "model", "over"}
       /\ work[c].attempt \in 0 .. ModelRetries /\ work[c].time \in 0 .. AttemptTime
       /\ work[c].urls \in 0 .. Urls /\ Len(work[c].said) <= Urls + MaxItems
       /\ kept[c].told \in Statuses
  /\ never \in SUBSET Titles /\ given \in SUBSET Titles

NewAsk == [pc |-> "new", endpoint |-> "suggest", tier |-> Ranking[1], age |-> 0,
           rules |-> NoRules, status |-> "none", body |-> <<>>]
NewWork == [at |-> "none", attempt |-> 0, time |-> 0, urls |-> 0, said |-> <<>>]

BrainInit ==
  /\ ask = [c \in Asks |-> NewAsk]
  /\ work = [c \in Asks |-> NewWork]
  /\ never = {} /\ given \in SUBSET Titles
  /\ kept = [c \in Asks |-> [told |-> "none", rows |-> <<>>]]

-----------------------------------------------------------------------------
(* The callers.                                                            *)

\* The rank of a plan; one that is not in the list ranks lowest.
PlanRank(tier) == IF tier \in Tiers THEN CHOOSE i \in DOMAIN Ranking : Ranking[i] = tier ELSE 1

\* SubscriptionGuard on the routes, the feature flags in the handlers; the
\* queue of photos is only filled for plans with analysis.
MinTier(endpoint) ==
  CASE endpoint = "suggest" -> "free" [] endpoint \in {"parse", "tags", "photo"} -> "pro"
    [] endpoint = "insight" -> "elite"

\* The plan decides whether the history is sent, and forces safe suggestions.
RulesFor(tier, bold) ==
  [never |-> never, history |-> IF tier = "free" THEN {} ELSE given, bold |-> bold /\ tier # "free"]

AskSend(c, endpoint, tier, bold) ==
  /\ ask[c].pc = "new"
  /\ IF PlanRank(tier) < PlanRank(MinTier(endpoint))
     THEN /\ ask' = [ask EXCEPT ![c].pc = "done", ![c].endpoint = endpoint, ![c].tier = tier]
          /\ kept' = [kept EXCEPT ![c].told = "402"]
          /\ UNCHANGED work
     ELSE /\ ask' = [ask EXCEPT ![c].pc = "waiting", ![c].endpoint = endpoint, ![c].tier = tier,
                                ![c].rules = RulesFor(tier, bold)]
          /\ \E urls \in 1 .. Urls :
               work' = [work EXCEPT ![c].at = "queued", ![c].urls = IF endpoint = "parse" THEN urls ELSE 0]
          /\ UNCHANGED kept
  /\ UNCHANGED <<never, given>>

\* The user goes on editing the dossier.
AddNever(t) ==
  /\ t \notin never
  /\ never' = never \cup {t}
  /\ UNCHANGED <<ask, work, given, kept>>

Patience(c) == IF ask[c].endpoint = "photo" THEN PhotoTimeout ELSE AiTimeout

\* The handler's abort; the service does not notice.
AskAbort(c) ==
  /\ ask[c].pc = "waiting" /\ ask[c].age = Patience(c)
  /\ ask' = [ask EXCEPT ![c].pc = "done"]
  /\ kept' = [kept EXCEPT ![c].told = IF ask[c].endpoint = "suggest" THEN "504" ELSE "500"]
  /\ UNCHANGED <<work, never, given>>

-----------------------------------------------------------------------------
(* The service.                                                            *)

\* Nobody else runs while a call to the model is under way.
LoopFree == \A c \in Asks : work[c].at # "model"

\* An answer reaches a caller that still waits.
ReplyTo(c, status, said, body) ==
  /\ work' = [work EXCEPT ![c].at = "over", ![c].time = 0, ![c].said = said]
  /\ ask' = IF ask[c].pc = "waiting"
            THEN [ask EXCEPT ![c].pc = "answered", ![c].status = status, ![c].body = body]
            ELSE ask
  /\ UNCHANGED <<never, given, kept>>

Reply(c, status) == ReplyTo(c, status, <<>>, <<>>)

Goes(c, at) ==
  /\ work' = [work EXCEPT ![c].at = at, ![c].time = 0]
  /\ UNCHANGED <<ask, never, given, kept>>

\* The request is validated, then the tier checked by the endpoints that do.
ServiceStart(c) ==
  /\ work[c].at = "queued" /\ LoopFree
  /\ LET tier == ask[c].tier  endpoint == ask[c].endpoint IN
     CASE tier \notin SubscriptionTier -> Reply(c, "422")
       [] tier \in SubscriptionTier /\ ((endpoint = "insight" /\ tier # "elite") \/ (endpoint = "photo" /\ tier = "free"))
            -> Reply(c, "403")
       [] OTHER -> Goes(c, IF endpoint = "parse" THEN "page" ELSE "model")

\* run_pipeline.  Prices may be a tenth over the budget.
Allowed(item, rules) ==
  /\ 10 * item.price <= 11 * Budget
  /\ \A t \in rules.never : <<item.title, t>> \notin Alike
  /\ \A t \in rules.history : <<item.title, t>> \notin Alike
  /\ ~item.blocked

Score(item, bold) == IF bold THEN 3 * item.delight + 7 * item.novelty ELSE 6 * item.delight + 4 * item.novelty

\* sorted() is stable in reverse order, too.
Ahead(items, bold, left) ==
  {p \in left \X left : LET a == Score(items[p[1]], bold)  b == Score(items[p[2]], bold) IN
                        a > b \/ (a = b /\ p[1] < p[2])}

\* A plausible bug: the list is ranked, and what is not allowed stays in it.
run_pipelineUnfiltered(items, rules) ==
  Picked(items, DOMAIN items, Ahead(items, rules.bold, DOMAIN items))

run_pipeline(items, rules) ==
  LET left == {k \in DOMAIN items : Allowed(items[k], rules)} IN
  Picked(items, left, Ahead(items, rules.bold, left))

\* suggest: what cannot be parsed is asked for again, everything else is not.
SuggestSays(c, said) ==
  \/ said = "json" /\ \E items \in SeqOf(Items, MaxItems) :
                        ReplyTo(c, "ok", items, run_pipeline(items, ask[c].rules))
  \/ /\ said = "junk" /\ work[c].attempt < ModelRetries
     /\ work' = [work EXCEPT ![c].attempt = @ + 1, ![c].time = 0]
     /\ UNCHANGED <<ask, never, given, kept>>
  \/ said = "junk" /\ work[c].attempt = ModelRetries /\ Reply(c, "500")
  \/ said \in {"429", "502", "504"} /\ Reply(c, said)

\* json.JSONDecodeError is a ValueError, so that two endpoints answer 403.
OneShotSays(c, said) ==
  CASE said = "json" -> ReplyTo(c, "ok", <<"text">>, <<"text">>)
    [] said = "junk" -> Reply(c, IF ask[c].endpoint = "tags" THEN "500" ELSE "403")
    [] said \in {"429", "502", "504"} -> Reply(c, said)

\* What a page gave: products the model is sure of, others, or an error.
Products == SUBSET {"sure", "unsure"}
Failed == {"error"}

NextPage(c, page) ==
  LET said == Append(work[c].said, page) IN
  IF Len(said) = work[c].urls THEN ReplyTo(c, "ok", said, said)
  ELSE /\ work' = [work EXCEPT ![c].at = "page", ![c].time = 0, ![c].said = said]
       /\ UNCHANGED <<ask, never, given, kept>>

\* A plausible bug: an error ends the whole wishlist.
PageOverRaises(c, page) ==
  IF page = Failed THEN Reply(c, "502") ELSE NextPage(c, page)

\* parse_wishlist notes what became of a page and goes on to the next.
PageOver(c, page) == NextPage(c, page)

\* safe_fetch and _extract_page_text: no page, or too little text on it.
FetchPage(c) ==
  /\ work[c].at = "page" /\ LoopFree
  /\ Goes(c, "model") \/ PageOver(c, Failed)

ModelSays(c, said) ==
  /\ work[c].at = "model"
  /\ said = "504" => work[c].time = AttemptTime
  /\ CASE ask[c].endpoint = "suggest" -> SuggestSays(c, said)
       [] ask[c].endpoint = "parse" -> IF said = "json" THEN \E page \in Products : PageOver(c, page)
                                                        ELSE PageOver(c, Failed)
       [] ask[c].endpoint \in {"tags", "insight", "photo"} -> OneShotSays(c, said)

\* A tick ages what waits; it does not pass a timer that is due.
BrainTick ==
  /\ \A c \in Asks : /\ ask[c].pc = "waiting" => ask[c].age < Patience(c)
                     /\ work[c].at = "model" => work[c].time < AttemptTime
  /\ \E c \in Asks : ask[c].pc = "waiting" \/ work[c].at = "model"
  /\ ask' = [c \in Asks |-> IF ask[c].pc = "waiting" THEN [ask[c] EXCEPT !.age = @ + 1] ELSE ask[c]]
  /\ work' = [c \in Asks |-> IF work[c].at = "model" THEN [work[c] EXCEPT !.time = @ + 1] ELSE work[c]]
  /\ UNCHANGED <<never, given, kept>>

-----------------------------------------------------------------------------
(* The handlers store what was answered, and report the rest.              *)

\* What the user is told of a failure.
Reported(endpoint, status) ==
  IF status = "429" \/ (status = "504" /\ endpoint = "suggest") THEN status ELSE "502"

\* A wishlist keeps the products the model is sure of, of pages without error.
\* If one of the writes fails the user is told so, and some rows are there.
Sure(list) ==
  LET sure == {k \in DOMAIN list : list[k] # Failed /\ "sure" \in list[k]} IN Picked(list, sure, Earlier(sure))

ToStore(c) == IF ask[c].endpoint = "parse" THEN Sure(ask[c].body) ELSE ask[c].body

AskStore(c) ==
  /\ ask[c].pc = "answered"
  /\ ask' = [ask EXCEPT ![c].pc = "done"]
  /\ kept' = [kept EXCEPT ![c] = IF ask[c].status = "ok" THEN [told |-> "ok", rows |-> ToStore(c)]
                                 ELSE [told |-> Reported(ask[c].endpoint, ask[c].status), rows |-> <<>>]]
  /\ UNCHANGED <<work, never, given>>

AskStoreFails(c) ==
  /\ ask[c].pc = "answered" /\ ask[c].status = "ok"
  /\ ask' = [ask EXCEPT ![c].pc = "done"]
  /\ \E some \in SUBSET DOMAIN ToStore(c) :
       kept' = [kept EXCEPT ![c] = [told |-> "500", rows |-> Picked(ToStore(c), some, Earlier(some))]]
  /\ UNCHANGED <<work, never, given>>

BrainNext ==
  \/ \E c \in Asks, endpoint \in Endpoints, tier \in Tiers, bold \in BOOLEAN : AskSend(c, endpoint, tier, bold)
  \/ \E c \in Asks : AskAbort(c) \/ AskStore(c) \/ AskStoreFails(c) \/ ServiceStart(c) \/ FetchPage(c)
  \/ \E c \in Asks, said \in {"json", "junk", "429", "502", "504"} : ModelSays(c, said)
  \/ \E t \in Titles : AddNever(t)
  \/ BrainTick

BrainSpec == BrainInit /\ [][BrainNext]_brainVars

-----------------------------------------------------------------------------
(* Properties.                                                             *)

\* What is stored of suggestions is exactly what the model said that keeps to
\* the rules sent with the call: a tenth over the budget at most, nothing like
\* an item of the never-again list or - on the plans that send it - the gift
\* history, nothing blocked; best first, on the scale that was asked for.
ServedAsAsked ==
  \A c \in Asks : ask[c].endpoint = "suggest" /\ kept[c].told = "ok" =>
    LET rows == kept[c].rows
        said == work[c].said
        hates == never \cap ask[c].rules.never
        fits(i) == /\ i.price * 100 <= Budget * 110 /\ ~i.blocked
                   /\ ~\E t \in hates : <<i.title, t>> \in Alike
                   /\ ask[c].tier # "free" => ~\E t \in given : <<i.title, t>> \in Alike
        value(i) == IF ask[c].rules.bold THEN 3 * i.delight + 7 * i.novelty ELSE 6 * i.delight + 4 * i.novelty IN
    /\ ToSet(rows) = {i \in ToSet(said) : fits(i)}
    /\ Len(rows) = Cardinality({k \in DOMAIN said : fits(said[k])})
    /\ \A k \in 1 .. Len(rows) - 1 : value(rows[k]) >= value(rows[k + 1])
    /\ ask[c].tier = "free" => ~ask[c].rules.bold

\* The pages of a wishlist count each for itself: whatever becomes of the
\* others, a call that is served keeps the products of every page that was
\* read; it only ends otherwise if the caller's patience does.
PagesCountAlone ==
  \A c \in Asks : ask[c].endpoint = "parse" /\ ask[c].pc = "done" /\ ask[c].status \notin {"none", "422"} =>
    /\ ask[c].status = "ok" /\ Len(work[c].said) = work[c].urls
    /\ kept[c].told = "ok" =>
         Len(kept[c].rows) = Cardinality({k \in 1 .. work[c].urls : "sure" \in work[c].said[k]})

\* What the service answers is what was asked of it, of a model's answer and of
\* a list of pages (run_pipeline, services/ai/app/postprocess.py:93-122;
\* parse_wishlist, services/ai/app/enrichment.py:141-217).
AnswersFitTheCall == ServedAsAsked /\ PagesCountAlone

\* Every plan is served: what the API's guard lets through on a plan the
\* service does not refuse for the plan.
EveryPlanIsServed == \A c \in Asks : ask[c].status # "422"
=============================================================================
