----------------------------- MODULE PriceWatch -----------------------------
(***************************************************************************)
(* PriceWatchScheduler: once a day, one after the other, it asks for the   *)
(* price of every pick that is still worth watching, keeps the price and   *)
(* tells the user of a drop or of a product that is back.  Meanwhile the   *)
(* user picks, dismisses and orders, the market moves, and the process may *)
(* restart between the two writes of one check.                            *)
(***************************************************************************)
EXTENDS Integers, FiniteSets

CONSTANTS
  Watched,     \* suggestions
  Prices,      \* prices in cents
  NoPrice,     \* the column is null, or the page shows no price
  Checks,      \* MAX_WATCHED_PER_CYCLE
  Moves        \* bound on changes of the market and on restarts, each

ASSUME PriceWatchAssumption ==
  /\ Prices \subseteq Nat \ {0} /\ NoPrice \notin Prices
  /\ Checks \in Nat /\ Moves \in Nat

VARIABLES
  wish,     \* wish[s]: the columns of the suggestion that matter here
  market,   \* market[s]: what the shops ask for it; NoPrice: nobody sells it
  watch,    \* the job: where it is, the rows it read, the check under way
  told,     \* told[s]: the last drop told of, until a higher price is stored
  moves     \* changes of the market, and restarts, so far

watchVars == <<wish, market, watch, told, moves>>

-----------------------------------------------------------------------------
(* Types.                                                                  *)

Wish == [pick : {"no", "picked", "ordered"}, url : BOOLEAN, price : Prices \cup {NoPrice}]

\* rows: the suggestions as they were read; left: those still to be checked.
Watch == [pc : {"idle", "next", "price", "search", "drop", "restock"}, rows : [Watched -> Wish],
          left : SUBSET Watched, checked : 0..Checks, on : Watched, new : Prices \cup {NoPrice}]

WatchTypeOK ==
  /\ wish \in [Watched -> Wish]
  /\ market \in [Watched -> Prices \cup {NoPrice}]
  /\ watch \in Watch
  /\ told \in [Watched -> Prices \cup {NoPrice}]
  /\ moves \in [market : 0..Moves, restarts : 0..Moves]

NewWish == [pick |-> "no", url |-> FALSE, price |-> NoPrice]
Idle == [pc |-> "idle", rows |-> [s \in Watched |-> NewWish], left |-> {}, checked |-> 0,
         on |-> CHOOSE s \in Watched : TRUE, new |-> NoPrice]

\* A suggestion is stored; the link and the price found for it, if any, follow
\* in the background, long before the job's next day.
WatchInit ==
  /\ market \in [Watched -> Prices]
  /\ \E found \in SUBSET Watched :
       wish = [s \in Watched |-> IF s \in found
                                THEN [pick |-> "no", url |-> TRUE, price |-> market[s]]
                                ELSE NewWish]
  /\ watch = Idle
  /\ told = [s \in Watched |-> NoPrice]
  /\ moves = [market |-> 0, restarts |-> 0]

-----------------------------------------------------------------------------
(* The user and the market.                                                *)

\* Selecting, dismissing or selecting another, ordering.
WishPick(s, pick) ==
  /\ wish[s].pick # "ordered" /\ wish[s].pick # pick
  /\ pick = "ordered" => wish[s].pick = "picked"
  /\ wish' = [wish EXCEPT ![s].pick = pick]
  /\ UNCHANGED <<market, watch, told, moves>>

MarketMove(s, price) ==
  /\ moves.market < Moves /\ market[s] # price
  /\ market' = [market EXCEPT ![s] = price]
  /\ moves' = [moves EXCEPT !.market = @ + 1]
  /\ UNCHANGED <<wish, watch, told>>

-----------------------------------------------------------------------------
(* The job.                                                                *)

\* Picked, not dismissed, the event ahead, nothing ordered.
Candidates == {s \in Watched : wish[s].pick = "picked"}

WatchRead ==
  /\ watch.pc = "idle"
  /\ watch' = [Idle EXCEPT !.pc = "next", !.rows = wish, !.left = Candidates]
  /\ UNCHANGED <<wish, market, told, moves>>

Known == watch.rows[watch.on]

\* A plausible bug: the checks of a day have no end.
CheckNextAll(s) ==
  /\ watch.pc = "next" /\ s \in watch.left
  /\ watch' = [watch EXCEPT !.on = s, !.left = @ \ {s}, !.checked = @ + 1,
                 !.pc = IF watch.rows[s].url THEN "price" ELSE "search"]
  /\ UNCHANGED <<wish, market, told, moves>>

\* The next check, of the link that is known or of the whole web.
CheckNext(s) ==
  /\ watch.pc = "next" /\ s \in watch.left /\ watch.checked < Checks
  /\ watch' = [watch EXCEPT !.on = s, !.left = @ \ {s}, !.checked = @ + 1,
                 !.pc = IF watch.rows[s].url THEN "price" ELSE "search"]
  /\ UNCHANGED <<wish, market, told, moves>>

CheckDone ==
  /\ watch.pc = "next" /\ (watch.left = {} \/ watch.checked = Checks)
  /\ watch' = Idle
  /\ UNCHANGED <<wish, market, told, moves>>

\* checkPriceAndLiveness: a page may be blocked, or show no plausible price.
Pages(s) == {<<status, NoPrice>> : status \in {"unknown", "gone", "live"}}
            \cup {<<"live", market[s]>>}

MeaningfulDrop(old, new) == old # NoPrice /\ new * 10 <= old * 9

Store(url, price, pc) ==
  /\ wish' = [wish EXCEPT ![watch.on].url = url, ![watch.on].price = price]
  /\ watch' = [watch EXCEPT !.pc = pc, !.new = price]
  /\ told' = IF price = NoPrice \/ (told[watch.on] # NoPrice /\ price > told[watch.on])
             THEN [told EXCEPT ![watch.on] = NoPrice] ELSE told

\* A plausible bug: the price is not kept when the user is told of it.
CheckPriceForgets ==
  /\ watch.pc = "price"
  /\ \E page \in Pages(watch.on) :
       IF page[2] = NoPrice
       THEN /\ watch' = [watch EXCEPT !.pc = IF page[1] = "gone" THEN "search" ELSE "next"]
            /\ UNCHANGED <<wish, told>>
       ELSE IF MeaningfulDrop(Known.price, page[2])
       THEN watch' = [watch EXCEPT !.pc = "drop", !.new = page[2]] /\ UNCHANGED <<wish, told>>
       ELSE Store(wish[watch.on].url, page[2], "next")
  /\ UNCHANGED <<market, moves>>

\* The price is kept before the user is told.
CheckPrice ==
  /\ watch.pc = "price"
  /\ \E page \in Pages(watch.on) :
       IF page[2] # NoPrice
       THEN Store(wish[watch.on].url, page[2],
                  IF MeaningfulDrop(Known.price, page[2]) THEN "drop" ELSE "next")
       ELSE /\ watch' = [watch EXCEPT !.pc = IF page[1] = "gone" THEN "search" ELSE "next"]
            /\ UNCHANGED <<wish, told>>
  /\ UNCHANGED <<market, moves>>

\* searchProduct: nothing, or a listing with or without a price.
CheckSearch ==
  /\ watch.pc = "search"
  /\ \/ IF Known.url THEN Store(FALSE, NoPrice, "next")
        ELSE watch' = [watch EXCEPT !.pc = "next"] /\ UNCHANGED <<wish, told>>
     \/ /\ market[watch.on] # NoPrice
        /\ \E price \in {NoPrice, market[watch.on]} : Store(TRUE, price, "restock")
  /\ UNCHANGED <<market, moves>>

TellDrop ==
  /\ watch.pc = "drop"
  /\ told' = [told EXCEPT ![watch.on] = watch.new]
  /\ watch' = [watch EXCEPT !.pc = "next"]
  /\ UNCHANGED <<wish, market, moves>>

TellRestock ==
  /\ watch.pc = "restock"
  /\ watch' = [watch EXCEPT !.pc = "next"]
  /\ UNCHANGED <<wish, market, told, moves>>

\* The job of the day is lost, and with it a notice that was due.
WatchRestart ==
  /\ moves.restarts < Moves /\ watch.pc # "idle"
  /\ moves' = [moves EXCEPT !.restarts = @ + 1]
  /\ watch' = Idle
  /\ UNCHANGED <<wish, market, told>>

WatchNext ==
  \/ \E s \in Watched : \/ \E pick \in {"no", "picked", "ordered"} : WishPick(s, pick)
                        \/ \E price \in Prices \cup {NoPrice} : MarketMove(s, price)
                        \/ CheckNext(s)
  \/ WatchRead \/ CheckDone \/ CheckPrice \/ CheckSearch \/ TellDrop \/ TellRestock
  \/ WatchRestart

WatchSpec == WatchInit /\ [][WatchNext]_watchVars

-----------------------------------------------------------------------------
(* Properties.                                                             *)

\* One drop is told once, through restarts, failing pages and picks that come
\* and go: a notice names a price below that of the notice before, unless a
\* higher price or none was stored in between.  It is compared with a row read
\* before all the checks of the day (checkOne, price-watch.scheduler.ts:106-190).
DropsAreToldOnce ==
  [][TellDrop => told[watch.on] = NoPrice \/ watch.new < told[watch.on]]_watchVars
=============================================================================
