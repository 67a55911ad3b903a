--------------------------- MODULE ProductSearch ---------------------------
(***************************************************************************)
(* ProductSearchService: searchProduct finds the link, picture and price   *)
(* of a new suggestion in the background and asks every page it found      *)
(* whether the product is still there; findBuyOptions searches again when  *)
(* the user wants to buy, and asks no page.  The search engine may fail or *)
(* time out, pages may be gone, blocked, or so slow that not even the      *)
(* abort of the fetch ends it.                                             *)
(***************************************************************************)
EXTENDS Naturals, FiniteSets, SequencesExt, Ranks

CONSTANTS
  Hits,           \* what the search engine may answer with
  MaxHits,        \* bound on the length of an answer
  Words,          \* significant words of the suggestion's title
  Reliable,       \* KNOWN_RELIABLE_RETAILERS
  Estimates,      \* estimated prices [low, high]; 0: there is none
  NoTitle, NoPrice, NoHit,
  FewShops,       \* MIN_DISTINCT_RETAILERS
  MaxOffers,      \* MAX_BUY_OPTIONS
  AbortAfter,     \* LIVENESS_TIMEOUT_MS, in ticks
  HardDeadline    \* LIVENESS_HARD_DEADLINE_MS, in ticks

\* A hit: the page it leads to, the shop, the words of the title it has (or
\* NoTitle), whether it has a picture, and the dollar figures in its text.
ASSUME ProductSearchAssumption ==
  /\ \A h \in Hits : /\ DOMAIN h = {"shop", "page", "title", "photo", "prices"}
                     /\ h.page \in {"product", "collection"} /\ h.photo \in BOOLEAN
                     /\ h.title \in (SUBSET Words) \cup {NoTitle}
                     /\ h.prices \in Seq(Nat \ {0})
  /\ \A e \in Estimates : DOMAIN e = {"low", "high"} /\ e.low \in Nat /\ e.high \in Nat
  /\ {FewShops, MaxOffers, AbortAfter, HardDeadline} \subseteq Nat
  /\ 0 < AbortAfter /\ AbortAfter < HardDeadline

VARIABLES
  estimate,   \* of the suggestion
  hint,       \* does the suggestion name a retailer?
  lookup,     \* searchProduct: what it has, and what it found
  pages,      \* pages[i]: what the page of the i-th hit does when it is asked
  buy         \* findBuyOptions: the answers so far, and the offers

searchVars == <<estimate, hint, lookup, pages, buy>>

Answers == SeqOf(Hits, MaxHits)
Behaviours == {"sold", "gone", "blocked", "slow", "stuck"}
NoLink == [hit |-> NoHit, photo |-> FALSE, price |-> NoPrice]

\* Time is watched until a tick after the deadline.
SearchTypeOK ==
  /\ estimate \in Estimates /\ hint \in BOOLEAN
  /\ DOMAIN lookup = {"pc", "hits", "clock", "status", "link", "row"}
  /\ lookup.pc \in {"idle", "query", "check", "found", "done"} /\ lookup.clock \in 0 .. HardDeadline + 1
  /\ Len(lookup.status) = Len(lookup.hits) /\ Len(pages) = Len(lookup.hits)
  /\ lookup.link.hit \in ToSet(lookup.hits) \cup {NoHit} /\ lookup.row \in {NoLink, lookup.link}
  /\ DOMAIN buy = {"pc", "asked", "offers"}
  /\ buy.pc \in {"idle", "primary", "fallback", "done"} /\ Len(buy.asked) <= 2 * MaxHits

SearchInit ==
  /\ estimate \in Estimates /\ hint \in BOOLEAN
  /\ lookup = [pc |-> "idle", hits |-> <<>>, clock |-> 0, status |-> <<>>,
              link |-> NoLink, row |-> NoLink]
  /\ pages = <<>>
  /\ buy = [pc |-> "idle", asked |-> <<>>, offers |-> <<>>]

-----------------------------------------------------------------------------
(* What a hit is worth.                                                    *)

\* A majority of the words, rounded up; nothing to compare means yes.
isRelevantCandidate(h) ==
  h.title = NoTitle \/ 2 * Cardinality(h.title) >= Cardinality(Words)

Ceiling(e) == IF e.high = 0 THEN e.low ELSE e.high

\* Within 20 % of the low and 300 % of the high estimate.
isPlausiblePrice(p, e) ==
  e.low = 0 \/ (5 * p >= e.low /\ p <= 3 * Ceiling(e))

\* Twice the distance from the middle of the estimate.
Distance(p, e) ==
  LET middle == IF e.high = 0 THEN 2 * e.low ELSE e.low + e.high IN
  IF 2 * p > middle THEN 2 * p - middle ELSE middle - 2 * p

\* Of two figures as near the first stays.
Nearer(prices, plausible, e) ==
  {p \in plausible \X plausible : LET a == Distance(prices[p[1]], e)  b == Distance(prices[p[2]], e) IN
                                 a < b \/ (a = b /\ p[1] < p[2])}

\* The first figure without an estimate, else the nearest plausible one.
pickBestPrice(prices, e) ==
  LET plausible == {k \in DOMAIN prices : isPlausiblePrice(prices[k], e)} IN
  IF plausible = {} THEN NoPrice
  ELSE IF e.low = 0 THEN prices[1]
  ELSE prices[InOrder(plausible, Nearer(prices, plausible, e))[1]]

-----------------------------------------------------------------------------
(* searchProduct, for the row that enrichSuggestionImages updates.         *)

LookupStart ==
  /\ lookup.pc = "idle"
  /\ lookup' = [lookup EXCEPT !.pc = "query"]
  /\ UNCHANGED <<estimate, hint, pages, buy>>

LookupFound(link) == lookup' = [lookup EXCEPT !.pc = "found", !.link = link]

\* No key, an error, an abort: queryExa answers null.
LookupFails ==
  /\ lookup.pc = "query"
  /\ LookupFound(NoLink)
  /\ UNCHANGED <<estimate, hint, pages, buy>>

PhotosFirst(answer, relevant) ==
  {p \in relevant \X relevant : LET a == answer[p[1]].photo  b == answer[p[2]].photo IN
                               (a /\ ~b) \/ (a = b /\ p[1] < p[2])}

\* Those with a picture first; every page is asked at the same time.
LookupHits(answer) ==
  /\ lookup.pc = "query"
  /\ LET relevant == {i \in DOMAIN answer : isRelevantCandidate(answer[i])}
         ordered == Picked(answer, relevant, PhotosFirst(answer, relevant)) IN
     IF ordered = <<>> THEN LookupFound(NoLink) /\ UNCHANGED pages
     ELSE /\ lookup' = [lookup EXCEPT !.pc = "check", !.hits = ordered,
                                      !.status = [i \in DOMAIN ordered |-> "open"]]
          /\ pages' \in [DOMAIN ordered -> Behaviours]
  /\ UNCHANGED <<estimate, hint, buy>>

PageIs(i, status) ==
  /\ lookup' = [lookup EXCEPT !.status[i] = status]
  /\ UNCHANGED <<estimate, hint, pages, buy>>

\* The page answers before the abort: with 404, 410 or a text that says so,
\* with another error, or with the product.
PageAnswers(i) ==
  /\ lookup.pc = "check" /\ lookup.status[i] = "open" /\ lookup.clock < AbortAfter
  /\ \/ pages[i] = "sold" /\ PageIs(i, "live")
     \/ pages[i] = "gone" /\ PageIs(i, "gone")
     \/ pages[i] = "blocked" /\ PageIs(i, "unknown")

\* A plausible bug: no deadline beside the abort.
FiresOnAbort(i) == lookup.clock = AbortAfter /\ pages[i] = "slow"

\* The abort ends the fetch of a slow page, not of a stuck one; the race is
\* decided by the hard deadline.
Fires(i) == (lookup.clock = AbortAfter /\ pages[i] = "slow") \/ lookup.clock = HardDeadline

PageTimeout(i) ==
  /\ lookup.pc = "check" /\ lookup.status[i] = "open" /\ Fires(i)
  /\ PageIs(i, "unknown")

\* Time passes, but not past a timer that is due, nor an answer in time.
LookupTick ==
  /\ lookup.pc = "check" /\ lookup.clock <= HardDeadline
  /\ \E i \in DOMAIN lookup.hits : lookup.status[i] = "open"
  /\ \A i \in DOMAIN lookup.hits : lookup.status[i] = "open" =>
       /\ ~Fires(i)
       /\ lookup.clock + 1 = AbortAfter => pages[i] \in {"slow", "stuck"}
  /\ lookup' = [lookup EXCEPT !.clock = @ + 1]
  /\ UNCHANGED <<estimate, hint, pages, buy>>

Shown(i) == lookup.status[i] # "gone"

\* Promise.all, then the first that is not known to be gone.
LookupChoose ==
  /\ lookup.pc = "check" /\ \A i \in DOMAIN lookup.hits : lookup.status[i] # "open"
  /\ LET shown == {i \in DOMAIN lookup.hits : Shown(i)} IN
     IF shown = {} THEN LookupFound(NoLink)
     ELSE LET best == lookup.hits[CHOOSE i \in shown : \A j \in shown : i <= j] IN
          LookupFound([hit |-> best, photo |-> best.photo, price |-> pickBestPrice(best.prices, estimate)])
  /\ UNCHANGED <<estimate, hint, pages, buy>>

\* enrichSuggestionImages writes the rows of a set in one transaction; if that
\* fails the suggestions stay as they are.
EnrichStore ==
  /\ lookup.pc = "found"
  /\ lookup' = [lookup EXCEPT !.pc = "done", !.row = lookup.link]
  /\ UNCHANGED <<estimate, hint, pages, buy>>

EnrichFails ==
  /\ lookup.pc = "found"
  /\ lookup' = [lookup EXCEPT !.pc = "done"]
  /\ UNCHANGED <<estimate, hint, pages, buy>>

-----------------------------------------------------------------------------
(* findBuyOptions.                                                         *)

Usable(h, e) ==
  h.page = "product" /\ isRelevantCandidate(h) /\ pickBestPrice(h.prices, e) # NoPrice

\* The places of the hits that are the first usable one of their shop.
FirstOfShops(hits, e) ==
  {i \in DOMAIN hits : /\ Usable(hits[i], e)
                      /\ \A j \in 1 .. i - 1 : hits[j].shop = hits[i].shop => ~Usable(hits[j], e)}

\* The first usable hit of every shop not seen yet.
buildCandidates(answer, seen, e) ==
  LET first == {i \in FirstOfShops(answer, e) : answer[i].shop \notin seen} IN
  Picked(answer, first, Earlier(first))

Shops(candidates) == {h.shop : h \in ToSet(candidates)}

\* A plausible bug: the second answer starts with no shop seen.
mergeCandidatesAnew(candidates, answer, e) == candidates \o buildCandidates(answer, {}, e)

mergeCandidates(candidates, answer, e) ==
  candidates \o buildCandidates(answer, Shops(candidates), e)

Rank(h) == IF h.shop \in Reliable THEN 0 ELSE 1

Before(a, b, e) ==
  \/ Rank(a) < Rank(b)
  \/ Rank(a) = Rank(b) /\ pickBestPrice(a.prices, e) < pickBestPrice(b.prices, e)

\* The sort is stable: of two equal ones the earlier found comes first.
Sooner(candidates, e) ==
  {p \in (DOMAIN candidates) \X (DOMAIN candidates) :
     LET a == candidates[p[1]]  b == candidates[p[2]] IN Before(a, b, e) \/ (~Before(b, a, e) /\ p[1] < p[2])}

sortOffers(candidates, e) ==
  LET sorted == Picked(candidates, DOMAIN candidates, Sooner(candidates, e)) IN
  [k \in 1 .. (IF Len(candidates) < MaxOffers THEN Len(candidates) ELSE MaxOffers) |-> sorted[k]]

BuyStart ==
  /\ buy.pc = "idle"
  /\ buy' = [buy EXCEPT !.pc = "primary"]
  /\ UNCHANGED <<estimate, hint, lookup, pages>>

BuyFails ==
  /\ buy.pc = "primary"
  /\ buy' = [buy EXCEPT !.pc = "done"]
  /\ UNCHANGED <<estimate, hint, lookup, pages>>

\* Too few shops, and the query named one: ask once more, for the title only.
BuyPrimary(answer) ==
  /\ buy.pc = "primary"
  /\ LET candidates == buildCandidates(answer, {}, estimate) IN
     buy' = IF Len(candidates) < FewShops /\ hint
            THEN [buy EXCEPT !.pc = "fallback", !.asked = answer, !.offers = candidates]
            ELSE [buy EXCEPT !.pc = "done", !.asked = answer, !.offers = sortOffers(candidates, estimate)]
  /\ UNCHANGED <<estimate, hint, lookup, pages>>

BuyFallback(answer) ==
  /\ buy.pc = "fallback"
  /\ buy' = [buy EXCEPT !.pc = "done", !.asked = @ \o answer,
                        !.offers = sortOffers(mergeCandidates(@, answer, estimate), estimate)]
  /\ UNCHANGED <<estimate, hint, lookup, pages>>

\* The second query fails: what there is is offered.
BuyFallbackFails ==
  /\ buy.pc = "fallback"
  /\ buy' = [buy EXCEPT !.pc = "done", !.offers = sortOffers(@, estimate)]
  /\ UNCHANGED <<estimate, hint, lookup, pages>>

-----------------------------------------------------------------------------
SearchNext ==
  \/ LookupStart \/ LookupFails \/ LookupTick \/ LookupChoose \/ EnrichStore \/ EnrichFails
  \/ \E answer \in Answers : LookupHits(answer)
  \/ \E i \in DOMAIN lookup.hits : PageAnswers(i) \/ PageTimeout(i)
  \/ BuyStart \/ BuyFails \/ BuyFallbackFails
  \/ \E answer \in Answers : BuyPrimary(answer) \/ BuyFallback(answer)

SearchSpec == SearchInit /\ [][SearchNext]_searchVars

-----------------------------------------------------------------------------
(* Properties.                                                             *)

\* Liveness of pages is advice, and has an end: the checks are over by the
\* hard deadline, and then the link is the first relevant hit, one with a
\* picture if possible, whose page did not answer that the product is gone.  A
\* blocked, slow or stuck page neither holds the search up nor costs the
\* suggestion its link, and a product that is gone is never linked to.
LinksAreUsable ==
  LET gone == {i \in DOMAIN lookup.hits : pages[i] = "gone"}
      left == DOMAIN lookup.hits \ gone IN
  /\ lookup.pc = "check" => lookup.clock <= HardDeadline
  /\ lookup.pc \in {"found", "done"} =>
       \/ left = {} /\ lookup.link = NoLink
       \/ \E i \in left : /\ lookup.link.hit = lookup.hits[i] /\ 1 .. i - 1 \subseteq gone
                          /\ (\E j \in left : lookup.hits[j].photo) => lookup.link.photo

\* Of the usable hits in the answers that were fetched, the offers have one of
\* each shop, the earliest; known retailers first, then the cheaper; and no
\* shop is left out for one that would come after it.
OffersAreTheBest ==
  buy.pc = "done" =>
    LET hits == buy.asked
        first == {i \in DOMAIN hits : Usable(hits[i], estimate)
                    /\ ~\E j \in 1 .. i - 1 : hits[j].shop = hits[i].shop /\ Usable(hits[j], estimate)}
        offered == ToSet(buy.offers) IN
    /\ offered \subseteq {hits[i] : i \in first}
    /\ Cardinality(offered) = Len(buy.offers)
    /\ Len(buy.offers) = IF Cardinality(first) < MaxOffers THEN Cardinality(first) ELSE MaxOffers
    /\ \A k \in 1 .. Len(buy.offers) - 1 : ~Before(buy.offers[k + 1], buy.offers[k], estimate)
    /\ \A i \in first : hits[i] \notin offered => \A h \in offered : ~Before(hits[i], h, estimate)

\* Both searches give the best of what is left of their hits, in time.
SearchesHoldUp == LinksAreUsable /\ OffersAreTheBest
=============================================================================
