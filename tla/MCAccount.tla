----------------------------- MODULE MCAccount -----------------------------
(* What one user asks of the API, on small instances: signing in, the      *)
(* counters, the cached plans, suggestions with the autopilot, one run of  *)
(* the browser agent, the AI service, the search for products, and the     *)
(* event's page with its gift ideas and its order dialog.  These           *)
(* components share no state; a behaviour is about one of them, with a     *)
(* cast: the calls that happen in it.  Both are chosen at the start, so    *)
(* that one run covers all of them at the cost of their sum.               *)
EXTENDS Accounts, Limits, Plans, Autopilot, BrowserAgent, GiftBrain, ProductSearch,
        Checkout, GiftPage

CONSTANTS AccountCasts, SuggestCasts, BrainCasts,  \* the sets of actors a behaviour may have
          a1, a2,          \* the calls of the AI service
          ta, tb,          \* titles
          wa, wb, wc       \* words of a title

VARIABLES part, cast

accountsVars == <<sessionVars, accountVars>>

\* Actors that are not in the cast stay where they were.
AccountsOffStage ==
  /\ \A l \in Links \ cast : link'[l].pc = "new"
  /\ \A t \in Tokens \ cast : attempt'[t].pc = "new"
  /\ \A r \in Requests \ cast : request'[r].pc = "new"
  /\ changed' \subseteq cast /\ sent' \subseteq cast

SuggestOffStage ==
  /\ \A c \in Calls \ cast : gen'[c] = "start"
  /\ \A p \in Picks \ cast : pick'[p].pc = "start"
  /\ \A d \in Drops \ cast : drop'[d].pc = "start"
  /\ \A d \in Days \ cast : cron'[d] = "start"
  /\ cast \cap Days = {} => rule' = "none"
  /\ cast \cap Days # {} /\ (cast \cap Picks) \ Days # {} => faults' = 0

\* The AI service: of two calls the first is a wishlist and the second
\* analyses a photo or asks for tags, and nobody edits the dossier.
BrainOffStage ==
  /\ \A a \in Asks \ cast : ask'[a].pc = "new"
  /\ never' \subseteq {ta}
  /\ cast = Asks =>
       /\ never' = never
       /\ \A a \in Asks : ask'[a].pc # "new" =>
            /\ ask'[a].tier = "elite" /\ ~ask'[a].rules.bold
            /\ ask'[a].endpoint \in IF a = a1 THEN {"parse"} ELSE {"photo", "tags"}

\* The page: after a clash or a lost answer nothing new is asked for, only
\* what is under way ends; a third request goes out when no other is; and an
\* empty dossier has no set of ideas yet.
PageOffStage ==
  /\ tainted => started' = started /\ loads' = loads
  /\ started' > started /\ started' > AtOnce => InFlight = {}

\* The two searches share what is asked for, and nothing that changes.
SearchOffStage ==
  /\ "lookup" \notin cast => lookup' = lookup
  /\ "buy" \notin cast => buy' = buy

SameTitle == {<<ta, ta>>, <<tb, tb>>}
Item(title, price, delight, novelty, blocked) ==
  [title |-> title, price |-> price, delight |-> delight, novelty |-> novelty, blocked |-> blocked]

\* Prices at the budget's tolerance and just over it; scores that change
\* places on the other scale.
ItemPool == {Item(ta, 110, 9, 3, FALSE), Item(tb, 50, 4, 8, FALSE), Item(tb, 111, 5, 5, FALSE),
             Item(ta, 60, 2, 2, TRUE)}

Hit(shop, page, title, photo, prices) ==
  [shop |-> shop, page |-> page, title |-> title, photo |-> photo, prices |-> prices]

\* Two pages of one shop, a page without a title, a collection, a page of
\* another product, and one whose price only a range makes plausible.
HitPool == {Hit("amazon", "product", {wa, wb}, TRUE, <<20, 120>>),
            Hit("amazon", "product", {wa, wb, wc}, FALSE, <<100>>),
            Hit("brand", "product", NoTitle, TRUE, <<90>>),
            Hit("brand", "collection", {wa, wb}, TRUE, <<80>>),
            Hit("outlet", "product", {wa}, TRUE, <<70>>),
            Hit("outlet", "product", {wa, wc}, FALSE, <<700, 130>>)}
EstimatePool == {[low |-> 0, high |-> 0], [low |-> 110, high |-> 0], [low |-> 110, high |-> 200]}

MCInit ==
  /\ AccountsInit /\ LimitsInit /\ PlansInit /\ Init /\ AgentInit /\ BrainInit /\ SearchInit
  /\ CheckoutInit /\ GiftPageInit
  /\ \/ part = "accounts" /\ cast \in AccountCasts
     \/ part \in {"limits", "plans", "agent", "checkout", "page"} /\ cast = {}
     \/ part = "suggest" /\ cast \in SuggestCasts
     \/ part = "brain" /\ cast \in BrainCasts
     \/ part = "search" /\ cast \in {{"lookup"}, {"buy"}}
  /\ part # "limits" => kind = "otp"
  /\ part # "plans" => cached = "all"
  /\ part # "agent" => mode = "place"
  /\ given = IF part = "brain" THEN {tb} ELSE {}
  /\ part # "search" => estimate.low = 0 /\ hint
  /\ IF part = "page" THEN sparse => latest = 0 ELSE latest = 0 /\ ~sparse

MCNext ==
  /\ UNCHANGED <<part, cast>>
  /\ \/ /\ part = "accounts" /\ AccountsNext /\ AccountsOffStage
        /\ UNCHANGED <<limitVars, planVars, vars, agentVars, brainVars, searchVars, checkoutVars, giftPageVars>>
     \/ /\ part = "limits" /\ LimitsNext
        /\ UNCHANGED <<accountsVars, planVars, vars, agentVars, brainVars, searchVars, checkoutVars, giftPageVars>>
     \/ /\ part = "plans" /\ PlansNext
        /\ UNCHANGED <<accountsVars, limitVars, vars, agentVars, brainVars, searchVars, checkoutVars, giftPageVars>>
     \/ /\ part = "suggest" /\ Next /\ SuggestOffStage
        /\ UNCHANGED <<accountsVars, limitVars, planVars, agentVars, brainVars, searchVars, checkoutVars, giftPageVars>>
     \/ /\ part = "agent" /\ AgentNext
        /\ UNCHANGED <<accountsVars, limitVars, planVars, vars, brainVars, searchVars, checkoutVars, giftPageVars>>
     \/ /\ part = "brain" /\ BrainNext /\ BrainOffStage
        /\ UNCHANGED <<accountsVars, limitVars, planVars, vars, agentVars, searchVars, checkoutVars, giftPageVars>>
     \/ /\ part = "search" /\ SearchNext /\ SearchOffStage
        /\ UNCHANGED <<accountsVars, limitVars, planVars, vars, agentVars, brainVars, checkoutVars, giftPageVars>>
     \/ /\ part = "checkout" /\ CheckoutNext
        /\ UNCHANGED <<accountsVars, limitVars, planVars, vars, agentVars, brainVars, searchVars, giftPageVars>>
     \/ /\ part = "page" /\ GiftPageNext /\ PageOffStage
        /\ UNCHANGED <<accountsVars, limitVars, planVars, vars, agentVars, brainVars, searchVars, checkoutVars>>

MCSpec ==
  MCInit /\ [][MCNext]_<<part, cast, accountsVars, limitVars, planVars, vars, agentVars, brainVars, searchVars,
                          checkoutVars, giftPageVars>>

AccountTypeOK ==
  /\ SessionsTypeOK /\ AccountsTypeOK /\ LimitsTypeOK /\ PlansTypeOK /\ TypeOK /\ AgentTypeOK
  /\ BrainTypeOK /\ SearchTypeOK /\ CheckoutTypeOK /\ GiftPageTypeOK
=============================================================================
