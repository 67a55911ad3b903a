# Broflo in TLA+

Broflo is a gift concierge: a NestJS API (`src/apps/api`), a Next.js front end (`src/apps/web`)
and two Python services (`src/services/ai`, `src/services/browser-agent`) over PostgreSQL, Redis,
Stripe and retailers. This directory holds TLA+ models of it, the TLC configurations that check them
on small instances, and proofs, checked by TLAPS, for instances of any size.

Paths below are relative to `src/apps/api/src/` unless they start with `src/`.

    Money
      Orders            the life of an order placed through the API
      PurchaseLedger    what one Idempotency-Key promises; Orders implements it
      AgentJobs         purchases by the browser agent, with cards, credits and the clean-up cron
      BrowserAgent      one run of that agent: attempts, clicks, clocks, the answer
      Checkout          the order dialog of the web page over place() and cancel()
      Family            family groups, seats and invites, and the billing webhooks that end them
    Suggestions
      Rerolls           generate: the count, the cache, the claim around the AI call
      Picks             (extends Rerolls) selecting and dismissing, and the gift records
      Autopilot         (extends Picks) the daily cron that generates and selects by itself
      GiftBrain         services/ai and its callers: what is asked, filtered, ranked and stored
      ProductSearch     links, pictures and offers for a suggestion
      Ranks             orders of the places of a list: how GiftBrain and ProductSearch rank and pick
      GiftPage          the page that shows, polls, selects and asks for more
      PriceWatch        the daily check of the prices of picks
    People
      People            adding people under the plan's limit; the form of a dossier
      Calendar          birthdays, automatic events, recurring dates, reminders
      Surveys           links, answers, reviews, the completeness score
      SurveyPages       the recipient's form, and the owner's section that sends and reviews
      Photos, Tags      uploads and their analysis; (Photos extends Tags) the tags of a person
      GiftHistory       the gift history on a person's page
      Gallery           the photos on a person's page: polls, uploads, viewer
      Exchanges         Secret Santa and gift pools
    Foundations
      Sessions          refresh tokens and the web server's shared refresh
      Accounts          (extends Sessions) links, passwords, codes, logins
      Limits            rate limits and the daily spend
      Plans             cached plans on several instances
      Vault             encrypted columns, and the script for old rows
    Instances for TLC   MCOrders, MCAgentJobs, MCFamily, MCAccount, MCHousehold
    Theorems
      OrdersProofs      Orders, Checkout
      AgentJobsProofs, FamilyProofs
      ServicesProofs    BrowserAgent, GiftBrain, ProductSearch
      AccountsProofs    Accounts with Sessions, Limits, Plans
      SuggestionsProofs Rerolls, Autopilot, Picks, GiftPage
      HouseholdProofs   People, Photos, Tags, Surveys, Calendar, PriceWatch, Exchanges, Gallery
      VaultProofs       Vault, GiftHistory, SurveyPages

To check a module: `tlc -config OrdersRaces.cfg MCOrders`; to check the proofs: `tlapm OrdersProofs.tla`.

## How the program runs, and how that is modelled

The API is one Node process. A handler runs undisturbed from one `await` to the next; at an
`await` any other handler, cron or webhook may run. So **one action is one stretch between two
awaits**, and the program counter of a handler (`place[r]`, `gen[c]`, `save[s].pc`, ...) names
the await it is at. Neighbouring writes of one handler which no property tells apart (a timeline row,
an audit entry) are one action. What a handler has read and still uses is part of its
state (`task[t].seen`, `hook[e].members`, `newcomer[n].count`): that is where stale reads come from.

The front end is the same with responses in the place of awaits: a page's request is sent, served by
the API, and heard by the page, each a step of its own, so that answers come late, in any order, after
a dialog was left, or not at all. `services/ai` is the opposite: its calls of the language model are synchronous inside `async`
handlers of one worker (`src/services/ai/Dockerfile:12`), so they block the event loop, and requests wait for each other.

Three things fail: an outside call (Stripe, retailer, AI, a page) answers with an error or loses its
answer, at no cost; a database query fails, and the whole process restarts, both bounded
(`MaxFaults`, `Crashes`, `MaxRestarts`, `Cuts`, `MaxFails`). A database error takes the branch of the source: into the enclosing
`catch` or `finally`, or out of the handler.

**Redis** is two things. The queue of photo analyses (Bull) uses the server and outlives the process. `RedisService`
does not: `isConnected` (`redis/redis.service.ts:29-31`) is never true, because the client is created by `getClient()`, which is called only where it is true, so every
counter, token and cache of it is the in-memory fallback - atomic within one turn of the event loop, forgotten by a
restart, and one per instance. That is what Limits, Accounts, Rerolls and Plans model.

## Inventory

| component | state | operations | hard parts | correct when | modules |
|---|---|---|---|---|---|
| **orders** (`orders/`) | `orders`, `order_status_history`, PaymentIntents, the retailer's orders | place, cancel, mark-manual, manual entry, tracking, webhook, poll | handlers overwrite each other's status; lost answers; restarts | one charge and purchase per key; money can be found; a cancel undoes both sides; timeline legal and complete; nothing stays pending | Orders, PurchaseLedger, Checkout |
| **orders/agent** | `agent_jobs`, `agent_steps`, `failure_reviews`, `service_credits`, virtual cards | preview, place, cancelJob, reconciliation cron | the agent outlives the HTTP call; a card is minted before its id is stored | a job bought at most once; no credit for a purchase; every purchase recorded or reviewed; cards closed | AgentJobs |
| **services/browser-agent** | one browser session per attempt | execute with retries | a click whose effect is unknown | an answer never denies a purchase, no attempt clicks after another one has | BrowserAgent |
| **family** (+ **billing** webhooks) | groups, memberships, invites, `users.subscription_tier` | create, invite, accept, remove, leave, cascade; Stripe events | seats and tiers under concurrent accepts and cascades; late and repeated events | seats within the plan; a member is on the tier; a downgrade reaches the family | Family |
| **secret santa**, **gift pools** | participants, pairs, pledges | join, exclude, assign; pledge | join against assign, two draws; a backtracking search | every participant gives and receives once, never an excluded pair; a pairing is found if there is one | Exchanges |
| **suggestions** | claims, suggestions, gift records, cache | generate, select, dismiss | a claim around a slow AI call; selection in several writes | the plan's re-rolls; one pick, and its gift record | Rerolls, Picks, GiftBrain, ProductSearch, GiftPage |
| **autopilot** | rules, runs | daily cron, rules | check-then-create around slow calls | one pick per rule and event | Autopilot |
| **auth** | users, refresh tokens, links, OTP codes | signup, verify, login, reset, OTP, refresh, logout | tokens consumed in several steps, logins racing a reset, a refresh that is shared and may fail | only proved addresses have sessions; a reset ends older sessions; live sessions are refreshed | Accounts, Sessions |
| **redis**, **entitlements** | counters, tokens, cached plans | limits, consume, invalidate | expiry, instances, a slow reader that stores an old plan again | limits hold in every window; staleness is bounded | Limits, Plans |
| **persons** | persons | create, update, delete, the form | count and insert under a limit | the plan's limit | People |
| **events**, **reminders** | events, reminders | create, update, remove, sync, roll, generate | recurring dates; automatic events and user's edits | the event follows the birthday; each due reminder exists | Calendar |
| **photos**, **enrichment** | photos, blobs, queue, tags | upload, re-analyse, delete, analyse; generate, add, merge | jobs about deleted or re-analysed photos; three writers of tags | no orphan blob; every promised analysis ends; the user's tags stand | Photos, Tags, Gallery |
| **survey** | links, responses, score | send, submit, review | two sends, overlapping saves | one live link; the score is that of the fields; the pages show it | Surveys, SurveyPages |
| **price-watch** | prices | daily job | a restart between price and notice | a drop is told once | PriceWatch |
| **gifts** | gift records | history, feedback | a page with a filter and four dialogs | the page shows what the API has | GiftHistory, Picks |
| **crypto**, PII middleware | encrypted columns | client extension, back-fill script | rows written while the script runs | encrypted once, and all in the end | Vault |
| **services/ai** | none | five endpoints | one blocked event loop; a model's answer | what is stored fits what was asked | GiftBrain |
| **apps/web** | pages | load, press, poll | answers out of order | what is shown is what the API has; one order per gift | Checkout, GiftPage, GiftHistory, Gallery, SurveyPages, People, Sessions |
| **notifications**, **email**, **storage**, **admin** | single rows, outside calls | - | little | - | - |

How they interact: `orders` and `orders/agent` take suggestions and write gifts; autopilot drives
suggestions; generate asks services/ai and starts the product search in the background; surveys and the owner save persons, which
moves events and scores; photo analyses merge tags; billing calls
`family.cascadeDowngradeIfOwnerLostFamilyTier`; almost every service asks entitlements and the counters of redis.

`PROJECT.json` lists every component with its status and, under `hazards`, the lines where this code
is hard to test, each with the properties that cover it.

## Orders

**State.** `db[o]` keeps the columns of an order that handlers read: status, whether there is a
PaymentIntent id and a retailer order id. `timeline[o]` is the set of its history rows, `stripe[r]`
and `shop[r]` are the truth at Stripe and at the retailer. A row is named by the place request
(`Requests`) or the manual entry (`Entries`) that creates it; `Tasks` are all other calls. Requests
with the same `KeyOf` carry the same Idempotency-Key; one without the header is a request with a key
of its own.

**Actions.** `PlaceLookup` to `PlaceRecordFailed` are `place()` (`orders/orders.service.ts:82-310`) in
its order, with both catch blocks; `ManualCreate/Record` are `createManualOrder`; `CancelRead`,
`CancelRefund`, `CancelShop`, `CancelWrite`, `CancelRecord` are `cancel()`; `WebhookRead`, `PollSelect`,
`PollAsk`, `PollTransition`, `TrackRead` are the ways into `transitionStatus`/`updateTracking`,
whose writes are `TransitionWrite/Record`; `MarkRead/MarkWrite` are `markManuallyPurchased`. The
retailer is the `MockAdapter`, the only one there is: its orders live in a `Map` that a restart
empties ("forgotten"), it treats unknown ids as cancelled, and it derives a status from the order's age.

**Time** enters through comparisons with 1 h, 2 h, 4 h and 2 days, so a clock is one of five stages;
`age` is that of `placedAt`, `shopAge` the retailer's, which may start later.

**Charging.** `getConnectedAccountId` returns null for every retailer today, so the deployed build is
`Charging = FALSE`; the code behind it is complete, and the runs about money set it TRUE.

**Properties.**

- `LedgerSpec`: `PurchaseLedger` is a twelve-line state machine with three steps, Charge, Refund
  and Buy, per key. Orders implements it under `charged`, `refunded` and `bought` read off Stripe
  and the retailer: replays, create races, lost answers, failed writes and restarts never charge or buy
  twice, and when customers are charged a purchase is made for the request that paid.
- `GoodsAreRefundable`: a purchase that was paid for has its PaymentIntent on the row, whatever fails.
- `CancelUndoesPurchase`: a cancel answered with success, of an order whose retailer id it had read,
  has refunded it, and the retailer's order is not live - although both the row and the retailer may have
  moved between its steps.
- `TimelineIsLegal`: every history row not made by hand is an edge of `VALID_TRANSITIONS`, although
  handlers act on stale copies and overwrite each other.
- `StatusIsRecorded`: without faults, the current status is in the timeline or about to be put there
  by the handler that set it. Rows marked by hand are excepted (see below).
- `PendingIsDecided`: under fairness no order stays pending, unless a fault happens.

## AgentJobs

**State.** The columns of `agent_jobs` (`status`, `reason`, `jobCard`) and whether the job has stored
steps; the handlers' program counters; for each place call `p` its card at Stripe, the agent's run,
its answer and `bought[p]`, whether the retailer accepted the order - which the API never sees; the
orders row (`ordered`), the reviews and the credits; the cancel handlers; the cron. All jobs are
one user's, as the limit and the credit are per user. The billing cycle does not change during a
behaviour: that is the harder case, as a new cycle only permits another credit.

**Actions.** `Preview*` are `preview()` with its serializable transaction (one action, or a refusal on
P2034), its catch and its failure handling; `Place*` are `place()`: the compare-and-swap of the
claim, the look at the suggestion, mint, roll-back, the agent's call with or without an answer, storing
the steps, order, completion, failure, and the `finally`. `AgentBuy` and `AgentEnd` are the agent: it may
buy while the card is good, and then still answer 'completed', 'uncertain'
(`post_confirmation_uncertain`) or not in time; an answer with any other failure means the
confirming click was not reached (`browser_order_agent.py:299-363`). A 'completed' answer does not
imply a purchase, as `_confirm_order` ends quietly when it finds no button. `Stuck*` and `Card*` are
the two halves of the cron.

**AnswerSteps.** The agent of this repository (BrowserAgent) numbers the steps of every request from 1 and always
has some when it finds a product, so the steps of `place` collide with those stored by `preview`
(finding AgentSteps). With `{TRUE}` nothing behind that insert is reachable; the other runs let
answers come without steps (`schemas.py` defaults the list to empty, and the unit tests send
answers like that), so that they say something about the rest of `place` too.

**Stuck** is "placing and no live handler": `updatedAt` older than ten minutes, against a client
timeout of 200 s (`orders/agent/agent-job-reconciliation.scheduler.ts:7-10`). The cron is assumed
to be enabled and to run in one process.

**Properties.**

- `BoughtOnce`: of all place calls for a job at most one makes the retailer accept an order - under
  double submits, failed mints that release the job, restarts and cancels.
- `CreditedJobsBoughtNothing`: a credited job has no purchase, and will not get one later.
- `PurchasesAreAccounted`: once its handler is over, a purchase has an orders row, or its job is still
  'placing' for the cron, or is marked uncertain - two jobs, failing calls and faults notwithstanding.
  Jobs that a cancel call has written to (`Aborted`) are out of it: `cancelJob` writes 'aborted'
  without a condition, and over a claimed job it hides a purchase whose answer is lost.
- `PurchasesAreFollowedUp`: under fairness, each purchase ends as an orders row or a review, unless its
  job is cancelled or a fault happens. (A fault between the mark and the review loses the review: `SweepDbError` after
  `StuckMark`; see hazards.)
- `KnownCardsAreCancelled`: under fairness every card a job points to is cancelled, if Stripe does cancel;
  `cancelCard` swallows Stripe's errors, and the cron then forgets the id.

## Family

**State.** The tables `users.subscription_tier` (`tier`), `family_groups` (`live`, `owner`), `family_memberships`
(`seat[u]`, unique per user) and `family_invites` (`invite`), and the calls under way. A group, an invite and a
membership are named by the call that creates them. `Subscribers` are the users with a plan of their own: Stripe
knows them, and the developer override is theirs. The tiers other than 'family' are one value, 'free', as the
code compares with 'family' only; the seats of the plan are a constant, which no administrator changes meanwhile.

**Actions.** `Create*`, `Invite*`, `Accept*` and `Depart*` are `createGroup`, `inviteMember`, `acceptInvite`, and
`removeMember` and `leaveFamily` (`family/family.service.ts:168-367`); the last two do the same from the membership on,
and deleting it by its id makes the second of two calls fail as a whole. `CreateLoad` and `InviteLoad` are the user row
that the session was checked with: later stretches do not look at the tier again. `AcceptSeat` is the
serializable transaction, or `AcceptRefuse` on P2034; it counts the seats and inserts the membership again, but does not
look at the invite's status again, so a revoked invite can still be accepted by a call that read it before.
`HookArrive` is an event of Stripe with a tier of its own choosing, so late and reordered events are among them;
`HookWrite` stores the tier, `HookRead`, `HookCheck` and `HookDelete` are the cascade (`:373-395`). `HookFail` ends a
handler anywhere; Stripe sends the event again (`HookRetry`), and also one that succeeded (`HookRepeat`).

**Properties.**

- `SeatsWithinPlan`: no group has more seats than its plan, although the seats are counted when an invite is sent and
  invites are accepted together.
- `MembersHaveTheTier`: a member without a plan of his own is on the family tier, as long as one group is all he has
  been in. The exception is real: the cascade of a former group may have read him as a member, and resets
  his tier after he has joined another. Members *with* a plan are excepted too: a webhook sets their tier as it likes.
- `DowngradesReachTheFamily`: under fairness, once a webhook has taken the tier from an owner, the group ends or the owner
  is on the tier again - through a failure between the write and the cascade, and a second event. The developer override is
  not retried, and is excepted.

## Money: BrowserAgent and Checkout

**BrowserAgent** is one `POST /agent/execute` (`src/services/browser-agent/app/agent/browser_order_agent.py:70-372`):
`round` is the attempt, `at` the place in it. Pages and selectors are abstracted: a step of the walk may meet a captcha or raise,
and `Late` is `_check_timeout` wherever it looks. `TryButton` is `_confirm_order`: it swallows what is raised after a click and tries
the next selector, and when none is left it returns as if it had clicked; `clicks` records each click with its attempt, its selector and whether what followed raised. The wall clock is
only compared between attempts, so a retry is a choice.
*AnswersCanBeTrusted*: what a click may have bought is not denied; no later attempt clicks; within the attempt another selector is clicked only after a click that raised, and none twice
(*OneCheckoutPerRun* - the second click is real, see the findings); and no step number is used twice in an answer (the API stores them under a unique index, although the captcha step is numbered past the counter).

**Checkout** is the path from a suggestion's card to an order (`order-preview-modal.tsx`, `cancel-dialog.tsx`, `suggestions-view.tsx`) over what
`place()` and `cancel()` do: a preview makes the Idempotency-Key, a press sends it, the answer may be lost, or be heard after the
modal was left; a new access token opens the preview anew, a reload forgets which suggestions were ordered.
*OrderedOnce*: one preview never has two live orders; and of the orders one load of the page was told of, a suggestion has one, unless an
answer came after its modal was left. The exceptions are real: a lost answer followed by a new preview, or by a reload, does order twice.

## Suggestions

**Rerolls.** `gen[c]` is the call; `claimed` holds rows of `suggestion_request_claims`, unique in (event, index).
The count of claims is the index, so two calls may have counted the same; the index tells them apart.
*SetsWithinPlan*: through failures, releases, releases that fail and restarts, there are never more sets than the plan allows.
A released claim's index is burned or re-used by what the count happens to be, which is why the claim and not the count is the limit.

**Picks.** `selectSuggestion` and `dismissSuggestion` as their separate writes (`suggestions/suggestions.service.ts:538-632`), with the gift records they create,
re-point and drop, and the operations of gifts and orders on the same record. *PickAndGiftAgree*: while nothing is under way,
the selected suggestion is the one of the event's open gift record. Two picks that overlap do leave the two apart; `mixed` excepts them.

**Autopilot** runs `processRule` (`autopilot/autopilot.scheduler.ts:92-283`) over both, day by day, beside the user's calls. *AutopilotPicksOnce*: it replaces
the pick at most once per rule and event; a restart before the run is written, or a rule made anew, repeats it.

**GiftBrain.** `ask[c]` is a call of the API with its patience, `work[c]` what the service has done of it, `kept[c]` what the API stores;
one of them holds the event loop at a time (`LoopFree`). *ServedAsAsked*: what is stored of suggestions is exactly what the model said that keeps to the rules sent along (a tenth over the
budget at most, nothing like the never-again list or - on paid plans - the gifts given, nothing blocked), best first on the scale asked for, ties in the order of the answer.
*PagesCountAlone*: a wishlist keeps the products of every page that was read, whatever became of the others. Together: *AnswersFitTheCall*.

**ProductSearch.** `searchProduct` with the two deadlines of its page checks, `findBuyOptions` with its merge. *LinksAreUsable*: the search ends by the hard
deadline, and links to the first relevant hit, with a picture if possible, whose page did not say the product is gone. *OffersAreTheBest* compares the
merge with a declarative definition. Together: *SearchesHoldUp*.

**GiftPage.** The page's state (`view`, `interview`, `poll`) beside the API's (`latest`, `dropped`, `picked`); requests are sent, served and heard apart.
*ShownAsServed*: when nothing is under way the page shows what the API has and no spinner is left - unless an answer was lost, a load ran into
a change, or two selections overlapped (`tainted`).

**PriceWatch.** One day's list is read at once, then each product is asked for its page; price and notice are two writes.
*DropsAreToldOnce*: a notice names a price below that of the notice before, unless a higher price or none was stored in between.

## People

**People.** `AddReadLimit`, `AddCount`, `AddCommit` are `create()` with its serializable transaction (`persons/persons.service.ts:48-135`); the form is
`dossier-form.tsx`. *PeopleWithinPlan*: racing requests never exceed the limit.

**Calendar.** Days are numbered, a year has `Year` days; `update()` with `syncAutoEvent`, the user's changes and removals, the 1 am and the 6 am job.
*AutoEventFollows*: the automatic event has the birthday, unless the user changed it, saves overlapped or one was cut short (`torn`).
*RemindersAreDue*: after the 6 am job an untouched event has each reminder of the day, although the 1 am job may have failed for days.
An update or the 1 am job finds the next day from a row it read before; if the date or the recurrence was changed in between, the event is `overtaken` until its next write, which the property excepts. Together: *CalendarKeepsUp*.

**Surveys.** *OneLiveLink* and *ScoreAgrees* (together *SurveysAddUp*): only the last link sent is valid; the score is that of the fields, unless saves overlap.

**SurveyPages** is the front end of the same (`src/apps/web/src/components/survey-section.tsx`, `src/apps/web/src/app/survey/[token]/`), with the API's rows reduced to what the pages show of them (`mail`, `reply`).
`section` is the owner's list with its ticked answers and busy buttons, `dialog` the one that sends a survey, `sheet[f]` a tab with the recipient's form; `trip` are the calls under way, sent (`Press...`, `LoadReplies`), served in the API's own steps
(`ServeTrip`: a review saves the person before it marks the response, a submit stores the response before it marks the link) and heard (`HearTrip`), or lost at any of them (`LoseTrip`); a call nobody waits for any more is `deaf`, and works on.
`mind[r]` is what the owner has left ticked by hand, `meant[r]` that at the last press of Apply. *ReviewsAsMeant*: a reviewed card goes, what is saved of a response is what was left ticked, and nothing of a dismissed one;
*FormsToldRight*: who is thanked has sent one response, nobody is told of a response that does not exist; *ButtonsComeBack*. Together: *SurveyPagesAsServed*. What it excepts is real: a call that failed halfway or whose answer was lost (`broken`),
a list that is older than a review (`outrun`), and a list that came in after a box was cleared (`reticked`).

**Photos, Tags.** A row is a placeholder before the blob, the analysis is queued and may be delivered twice, and merges tags in the end. Whether the plan of an upload has `photoAiAnalysis` is
chosen when it claims its row (`ai`); without it the photo is stored only (`PhotoStoreOnly`) and stays pending until somebody asks for an analysis. `Quota` is the number of places that are left. What fails inside the processor's
`try` ends in its `catch` (`JobCatch`); a database that fails the mark 'processing' before it, or the `catch` itself, leaves the status as it was (`JobBreaks`). A storage that fails to delete
a blob is logged, and the row goes all the same (`DeleteBlobFails`). *PhotosSettle*: a blob has a row or an upload that is about to write it (*BlobsAreOwned*), and no photo whose analysis was `Promised`, by its plan or by a
re-analysis, waits for ever (*AnalysesSettle*) - unless a failure that the code does not take back cut it short (`lost`). *UserTagsStand*: only the user takes a tag of the user's away, whichever generation or photo meets it.

**GiftHistory.** As GiftPage, for the list of the filtered year and its dialogs: *HistoryAsServed*.

**Gallery** is the page's side of photos (`src/apps/web/src/components/photos/`). `gallery` is the list with its polling, `tray` the chosen files with the consent and category
dialogs, `viewer` the lightbox, `confirm` the delete button after its first press, `wire` the requests under way. `ChooseFiles`, `Consent`, `Decline` and `StartUpload` lead to an upload, which sends its
files one after the other (`UploadGoesOn`) and then loads the list; `PressDelete`, `ViewerDelete`, `ViewerReanalyze`, `OpenViewer`, `Turn`, `CloseViewer` are the other buttons. `ServeWire` is the API: an upload is a
placeholder (`ClaimUpload`) before it is a row (`StoreUpload`), and what happens in between is Photos; here a photo appears, changes and goes (`pic`). `HearWire` hears an answer, late, in any order, or not at all; a request
whose answer is lost was served already or never is. `clock` and `changed` number the changes of rows, so that it can be said which of them a list has seen; the code has no such number. The plan is Elite.
*GalleryAsServed*: when nothing is under way the section shows the API's photos, no spinner turns, the viewer has its photo's picture and no dialog waits without files - unless an answer was lost
or a load came too late (`blurred`), a picture was lost or overtaken (`crossed`), or the dialog was opened without files or during an upload (`bare`; both are findings below).

**Exchanges.** `assign` with its shuffles (`DrawShuffle`) and, when none is valid, the backtracking search step by step: the next giver takes the first receiver that is left (`DrawTake`), or the giver before takes the pick back and goes on
(`DrawBack`), until everybody has picked (`DrawFind`) or the first one has tried all (`DrawRefuse`). The search is one synchronous call, so nothing else moves meanwhile (`NoSearch`). `join` runs beside it. *GiftsMakeACircle*: everybody who joined before the draw
gives to one and gets from one, never an excluded pair, also when draws overlap, unless they had read different participants; and a draw is refused only if there is no valid pairing. `Assignments`, the set of all of them, is
used by the property alone.

## Foundations

**Sessions, Accounts.** `live` are the rows of refresh tokens, `cookie[t]` what the browser has, `flight` the one refresh that the web server's requests
share (`src/apps/web/src/lib/auth.ts:110-129`). The refresh may fail at any of its steps (`FlightFail`): the API's throttle answers 429 (`auth/auth.controller.ts:119-127`), the network or the database fails, the API restarts; the callback catches all of
it (`src/apps/web/src/lib/auth.ts:121-124`) and every request that waited is refused. *LiveSessionsRefresh*: a request whose session nobody ended finds it alive, gets its own token as the answer, and is
refused only when the call itself failed. A request that had joined the refresh of another session is excepted: it gets that one's answer.

A link is consumed before the write it is for. A login by code is five stretches: it reads the code, deletes what is stored (a newer code too), looks for the account, creates it, and marks it verified (`OtpRead` to `OtpVerify`), so two
calls may use one code - also where the store in the process would not let a second call in between, which only adds behaviours -, and one may find the account of the other half made. *VerifiedBeforeLogin*: all the same, whoever has a session or is about to get one has an account whose address was proved.
*ResetEndsOldSessions* (its exception is real: a login that has passed its check when the reset deletes the sessions stores its token afterwards).

**Limits.** One key of each kind and a clock. *WindowsAreKept*: no window, wherever it starts, lets more calls through than the limit;
`allowed` remembers the moment and the number of each call that was let through.
*SpendOvershootIsBounded*: the cap is checked before and charged after a call, so it is exceeded by no more than what the calls that run at once cost. Together: *LimitsBind*.

**Plans.** What a cached plan says is its age since an edit replaced it. *StalenessIsBounded*: by the times to live and one query, over several instances.

**Vault.** `layers` counts encryptions of a cell. *EncryptedOnce*: no text has two layers, and after a full run of the script nothing is left in the clear,
whatever the API wrote meanwhile.

## What the runs show

| run | instance | distinct states | shows |
|---|---|---|---|
| OrdersReplay | 2 requests on one key, 1 other call, charging, 1 fault, fair | 256k | GoodsAreRefundable, CancelUndoesPurchase, LedgerSpec, PendingIsDecided |
| OrdersRaces | 1 request or manual entry, 2 other calls, no charging, 1 fault | 717k | TimelineIsLegal, StatusIsRecorded |
| AgentRaces | 2 jobs, limit 1, 2 place calls, 1 cancel, 1 fault | 5.1M | BoughtOnce, CreditedJobsBoughtNothing, PurchasesAreAccounted |
| AgentEnds | 1 job, 2 place calls, 1 cancel, 2 faults, fair | 34k | PurchasesAreFollowedUp, KnownCardsAreCancelled |
| FamilyRaces | 1 owner, 2 others, 2 groups, 2 seats, 2 invites, accepts and departures, 1 webhook, 1 fault | 506k | SeatsWithinPlan, MembersHaveTheTier |
| FamilyEnds | 1 owner, 1 other, 2 groups, 1 invite, 2 webhooks, 1 fault, fair | 316k | DowngradesReachTheFamily |
| Account | Accounts, Limits, Plans, Autopilot with Picks and Rerolls, BrowserAgent, GiftBrain, ProductSearch, Checkout, GiftPage | 2.1M | the properties of these, and their types |
| Household | Calendar, Exchanges, Photos with Tags, Surveys, SurveyPages, PriceWatch, Vault, People, GiftHistory, Gallery | 2.6M | the properties of these, and their types |

*Two runs for many components.* The components of MCAccount share no state with each other, and neither do those of MCHousehold. Their
product would be checked at the price of the product and show nothing more, so a behaviour is about one of them (`part`) with a set of actors that may move
(`cast`), both chosen in the initial state: the run costs the sum. Components that do share state are composed in their modules: Accounts with
Sessions, Autopilot with Picks and Rerolls, Photos with Tags, Orders against PurchaseLedger. What a cast leaves out is in the `...OffStage` operators, each with its reason.

*Why these bounds.* Two requests are enough for a race on a key and two calls for any pair of
handlers; a third adds no new pair, and where a theorem exists it covers any number. With one fault a
write fails or a handler dies; in AgentEnds the second lets the cron fail after a handler has died.
A limit of one concurrent job and two jobs make the limit bite, and let the one credit of the cycle go to either.
Two seats make one free seat for two invitees; two departures and two accepts are enough to leave and come back
while a removal is under way; the second group is the one founded after a cascade. In FamilyEnds two webhooks overtake each other.

In Account: three re-rolls against a limit of two; a call and a pick of the user beside a cron day, two cron days, two picks with a dismissal; two codes and two
tokens, three requests for one that leads, one that joins and one that comes late; a rate limit of two calls in a window of two ticks over six ticks, two callers under the daily
cap; two instances, two slow readers and times to live of 4, 2 and 1 ticks, which keep the order of 300 s, 60 s and 5 s;
three attempts and two buttons of the agent; the API's patience with a suggestion call one tick above the time of one attempt of the model and with a photo equal to it, so that two queued calls overrun it; hits that are
two pages of one shop, a page without a title, a collection, another product and a price range; two previews and three presses, so that a key is sent again and a
second one made; two requests of the page at once and a third one after them, two sets, one poll.

In Household: a four-day year and five days, so that a date passes a New Year, and any two of two saves, a change and a removal (the theorems cover more); four members, one exclusion and two draws; two photos for one place that is left, two
deliveries, with two failures for one photo, one beside a generation of tags and none where two photos race for the place; two saves of a person; two prices, two products and one check a day, so that one starves; two people at the limit of two with three
requests; one dossier, one parcel and two script runs, the first of which may be cut off; two gifts of different years, two requests at once; two
photos on the page, stored or chosen, with two requests at once, two posts, two loads and two looks at a picture, which is enough for a deletion beside an upload and a load older than either;
two questions and two calls at once on the pages of a survey: one response that is there already, with two lists and two presses, or two tabs on one link, or one tab and two links, the second of which supersedes the first. The types of
a component are looked at in its own behaviours (`HouseholdTypeOK`): elsewhere its state stands still.

*Fairness.* Weak fairness on the steps of a handler that has begun: the event loop resumes it, and
each call it awaits answers or times out. On the end of an agent run: it has a wall clock. On the cron:
it runs every five minutes and visits each job it selects. On a webhook's handler and on Stripe's retry of
one that failed: Stripe retries for days, and the number of faults is bounded. None on a client's calls, on time, on faults, or on
the retailer accepting an order. MCAccount and MCHousehold have safety properties only and state none. `CHECK_DEADLOCK FALSE` in every
configuration: when all calls have been answered nothing need happen any more.

**Where the code and its documents disagree** (each of four runs finds the counterexample):

- *OrdersCancel.* "Cancellation tested: cancel within 2 hours → order cancelled at retailer"
  (`src/docs/slices/S7-first-retailer-api.md:119`). `cancel()` accepts a 'pending' order and asks
  the retailer about an id it does not know, which counts as success; `place()` then stores the live order.
- *AgentSteps.* "Create the Order record (same as API orders)" (`orders/agent/agent-orders.service.ts:275`).
  With the repository's agent the insert of the steps fails first: a completed purchase has no orders row,
  its job stays 'placing', and the cron sends it to a human.
- *FamilyRide.* "If that user owned a family group, every member loses their free ride too" (`family/family.service.ts:371-372`).
  The cascade resets the members it has read; one who is seated between that read and the delete of the group
  loses the seat and keeps the tier, which nothing takes back.
- *FamilyPlan.* "Everything in Elite" (`src/apps/web/src/app/(app)/upgrade/page.tsx:47`). The list of plans of services/ai
  (`src/services/ai/app/schemas.py:12-15`) has no family plan, and the API sends the user's tier as it is
  (`suggestions/suggestions.service.ts:236`, `enrichment/enrichment.service.ts:126-129`, `photos/photo-analysis.processor.ts:70`): every call for such a user is answered 422.

### Findings without a run

Met while modelling; where a definition is named, it states what the document says, and TLC refutes it when it is added to the run in brackets.

- *SavedAsTyped* [Household]: the form sends a cleared field as `undefined` (`src/apps/web/src/components/dossier-form.tsx:152-182`), and `update()` leaves alone what it was not sent, so allergens that
  were removed stay; the page says "Updated." `src/docs/slices/S2-person-dossier.md:22` has "Edit and delete work end-to-end".
- *RefusedMeansFull* [Household]: "by definition another request just filled the last slot" (`persons/persons.service.ts:118-120`). Two creates with room for both conflict too, and one is told that the limit is hit.
- *DeletedEventsStayDeleted* [Household]: "Mark as user-deleted so auto-sync won't re-create it" (`events/events.service.ts:158`). The row is marked and then deleted, with its mark, and the next save re-creates it.
- *DoneMeansOrdered* [Account]: after a failure the modal says "Try again" (`src/packages/shared/src/copy/voice.ts:138`). The press sends the same key, `place()` replays the failed order with 200, and the page says that the gift is ordered.
- `cancel()` after one hour: the order is 'processing', which it refuses; `S7-first-retailer-api.md:26` says two hours.
- A restart between the mint of a card and the write of its id (`orders/agent/agent-orders.service.ts:245`) leaves an active card that the scheduler's safety net
  (`orders/agent/agent-job-reconciliation.scheduler.ts:87-89`) does not know of.
- `markManuallyPurchased` writes no timeline row, although the timeline is to have "system/webhook/manual"
  (`src/docs/slices/S8-S9-order-tracking-autopilot.md:19`); `MarkedByHand` excepts such rows. A job whose suggestion is gone stays 'placing' without any call
  (`PlaceLook`), while the scheduler takes each such job for an interrupted purchase.
- The monthly spend of the autopilot sums runs that are 'order_placed', which nothing writes, so the cap is only compared with single prices. A run that failed
  is never tried again, though the comment at `autopilot/autopilot.scheduler.ts:81` says "tomorrow's cron retries this rule".
- `autopilot/autopilot.service.ts:46` and `:87` include a person in a write of another model, whose result `crypto/pii.middleware.ts:157-160` does not decrypt: the name comes back as cipher text.
- `orders/product-search.service.ts:196-205` says that `searchProduct` never checked liveness; it does (`:151`).
- A late signup link replaces the password of an account that was verified meanwhile (`auth/auth.service.ts:140-169`, against the comment at `:150-152`). A slow reader may make a
  plan stale for its whole time to live on other instances, against "A few seconds of staleness" (`entitlements/entitlements.service.ts:29-34`).
- *The confirming click.* The flag is to be set "the instant the "Place Order" click fires" (`src/services/browser-agent/app/agent/browser_order_agent.py:139`). It is set after `_confirm_order` has returned; when what follows a click raises,
  that method tries the next selector (`:511-519`), so one attempt may click twice. `clicks` in BrowserAgent.
- *Codes.* A one-time code is read (`auth/auth.service.ts:265`) and deleted (`:270`) by two calls. With the store in the process they follow each other
  in one turn of the event loop; with a Redis server, which `RedisService` is written for, two logins that send one code together would both sign in, and the delete would take a newer code that was sent in between. The model lets other handlers in at every await, so what it shows holds of either store.
- *Photos.* `deleteBlob` logs what the storage throws (`storage/storage.service.ts:163-181`), and `deletePhoto` deletes the row, so the blob stays without one. `lost` in Photos. Photos of a plan without `photoAiAnalysis` are never analysed and
  stay pending (`photos/photos.service.ts:261-275`), so the page asks again every ten seconds.
- *Photos on the page.* A drop that holds no file passes an empty list (`src/apps/web/src/components/photos/photo-upload-trigger.tsx:22-37`), for which the section opens its dialog (`src/apps/web/src/components/photos/photo-section.tsx:77-88`); the category picker then
  sends nothing (`:99`) and cannot be closed. Files dropped while others are uploaded are wiped when that upload ends (`:124`), and the dialog they had opened stays in the same way. A picture whose
  request fails leaves the viewer's spinner for ever. A list that was read before a deletion and is heard after it shows the photo again.
- *Surveys on the page.* The list that a new access token loads ticks every answer of every response again and takes the place of the one on the page (`src/apps/web/src/components/survey-section.tsx:76-97`):
  what the owner had cleared is saved after all, and a card whose review was answered meanwhile comes back, to be refused. `reticked` and `outrun` in SurveyPages.
- A generated tag equal to one of the user's or a photo's fails the insert after the old AI tags were deleted (`enrichment/enrichment.service.ts:290-305`), which loses them all.

## What is proved

Every theorem holds for any sets of requests, calls, jobs and keys and any bound on
faults, from the named assumptions of the modules alone (types of the constants, finite sets where something is counted, one token
at least; TLC evaluates them in every run).

**OrdersProofs.** `Invariance` proves an inductive `IInv`:

- `TypeOK`, `RetailRows` (a retailer id only on rows of place requests) and `KeysAreUnique` (one row
  per key), the last being what the unique index gives;
- `Purchase(r)` ties the handler's place to the row, Stripe and the retailer: before the charge
  nothing is charged, from the retailer's call on the PaymentIntent is stored, after a failed
  charge there is no purchase, a retailer id implies a purchase;
- `Call(t)` and `Cancelling(t)` say what a call may conclude from its stale copy: a copy with a PaymentIntent means
  Stripe has it; past the refund it is refunded, past the retailer's answer the order is not live;
- `Edge(t)` says that the change a call is about to record is an edge, and `TimelineIsLegal` is part of `IInv`.

None of the safety properties is inductive alone: each speaks of rows and records that some handler will write
later, and only `Purchase`, `Cancelling` and `Edge` bind what a handler will write to what is true.
`TypeCorrect`, `PurchasesStayRefundable`, `CancelsUndo` and `TimelinesAreLegal` follow. `ImplementsLedger` is the refinement: initial
states map to initial states, every step to a step of the ledger or a stutter, with `KeysAreUnique` and
`Purchase` making the sets of payers and buyers of a key singletons. `StatusesAreRecorded` needs a second invariant beside
`IInv`: as long as no fault has happened, every row's status is accounted for.

**AgentJobsProofs.** `IInv` is `TypeOK` and `Core`: `Run(p)` (how far handler and run are),
`Settled(p)` (a job that is being placed, or was sent to the agent, is not 'previewing'), `Alone(p, q)` (one call gets
past the claim), `Apology(j)` (a credited job is not on offer and its run is over without a purchase),
`Aimed(c)`. The roll-back after a failed mint is the delicate step: it puts the job back on offer, and
`Settled` survives because the agent has not been called. `TypeCorrect`, `JobsAreBoughtOnce` and
`NoCreditForAPurchase` follow. `AllPurchasesAreAccounted` uses a second invariant, `Accounts`: up to the
answer a job nobody cancelled is 'placing' and written by its handler alone, and the cron never marks a job with a live
handler. Its steps are about one handler at a time; `AccountsOfOthers` carries the account of all others along.

**FamilyProofs.** `IInv` adds to the two properties what calls under way rely on: `Sent` and `Invited` (a call that has read an
invite refers to one that was created, and such an invite keeps its group and address), `Held(u)` (a membership is that of
an accept call that ended well, by the user whose address the invite has) and `Cascade(e)` (a cascade is about a subscriber,
and resets only users whom its group has seated once). `MembersHaveTheTier` needs the last: it may
only reset a user who still is in the group that goes, if that is the only one that ever seated him. `SeatsWithinPlan` is
inductive over all groups, dead ones included: a step adds at most the one member that `AcceptSeat` has counted
(`MembersNext`). `TypeCorrect`, `SeatsStayWithinPlan` and `MembersKeepTheTier` follow.

**AccountsProofs.** `IInv` has a part for each property. A verified account exists, and so does one that a login by code is about to verify or a reset link is for (`VerifiedInv`); no step takes the mark away: `SessionsAreVerified`.
`ResetHolds` speaks of whoever is in *or about to come in*: a reset that is over either marked him as on the way, or he knows the new password;
`NotYetChecked` says that only a check gives an attempt its password; `ResetsEndSessions`. `RequestsAreLive` ties a waiting request to the refresh under way, which is about its own token; a failure, wherever it strikes, settles
all that wait and touches no row (`SettleKeeps`): `SessionsAreRefreshed`.

**ServicesProofs.** *BrowserAgent:* every click was made in this attempt, which is still at the buttons or has set its flag, and at the buttons all of them have raised, at selectors before this one (`Clicking`); an attempt with the flag ends as an order or as an uncertain one
(`Judging`); hence nothing that clicked is retried. The captcha step is numbered past the counter, which is harmless because no step follows it (`Numbering`). `AnswersAreTrue`.
*GiftBrain:* `BrainInv` follows each call through its routes: what was sent to the model is what the answer is parsed against, and what is stored or answered fits it. A ranking puts a member at the place which is the number of
those up to it; in an order without ties that is an injection into `1 .. n`, hence onto it (`InOrderIsAList`), and what is picked from a list in its order is such a list again (`PickedIsAList`). `AnswersFit`.
*ProductSearch:* `LookupInv`: hits with a photo lead, a page that has answered is known to be gone if it is, and one that has not by the abort is too slow (`PagesTold`); so the link that is stored is usable, whichever deadline ends the search. The answers of the engines are merged as if they were one list (`MergedAnswers`), whoever came `Sooner` in it wins a tie (`SoonerOrders`),
so the offer that is stored is the best there was (`OffersAreBest`). `SearchesHold`.

The rest of the modules have an invariant each; what a property lacks to be inductive is, every time, what a step
under way has read and will still use.

**AccountsProofs, continued.** *Limits:* every call that was let through carries its moment and its number; as long as it lies in a
window that may still be looked at, the counter's entry lives on and its number is at most the count, and two calls of one window never
have the same number (`CallsAreNumbered`). A window's calls are then mapped one-to-one into `1 .. Allows`. The spend and the cost of the
calls under way together stay below the cap plus the cost of all (`SpendInv`), which is stronger than the property and inductive.
`TheLimitsBind`. *Plans:* what is bounded is not an entry's age but its age and the time it has left together (`EndsBy`), since both change at each
tick; a reader that is slow is no older than its query (`AsOldAsTheQuery`). `PlansAreFresh`.

**SuggestionsProofs.** *Rerolls:* calls that go on have an index below the limit, and no two claims share one: an injection into the indexes bounds
their number (`ClaimsFit`). `ThePlanOfRerollsIsKept`; `TheAutopilotKeepsThePlan` says the same of every behaviour in which the cron, picks,
dismissals and orders interleave with generate, since each of their steps is one of Rerolls or leaves its variables alone.
*Autopilot:* cron days do not overlap (`DayByDay`), and a day that has picked leaves a run before it ends (`PicksLeaveRuns`), which the
next day finds. `TheAutopilotPicksOnce`. *Picks:* `InStep` follows one pick (`PickAt`) or one dismissal (`DropAt`) through its writes: between them
the selection and the gift disagree, and it says by how much. `PicksAndGiftsAgree`, proved over Autopilot, whose cron picks too.
*GiftPage:* three parts hold always - the types, that cards which are shown or asked for exist (`PageKnows`), and that what turns, turns for a call under way
(`SpinnersTurn`) -, three as long as no load has run into a change: calls that must not overlap do not (`CallsKeepApart`), an answer on its way is what the API would
say now (`AnswersAreFresh`), and the page differs from the API by the answers on their way and nothing else (`PageShows`). When there are none, that is the property.
No answer, however old, has a card that was not made (`AnswersWereMade`). `ThePageShowsWhatIsServed`.

**OrdersProofs, continued.** *Checkout* is proved over the dialog's own view of place() and cancel(): a press carries the key of the preview it was made in, one request works on a key
(`OneWorks`), so one preview has one order. Across previews the page's note is what prevents a second one: `Remembered` says that a load of the page which was told of an order still has its
note, unless the order is cancelled for good or an answer that came late has taken the note's place, and that no dialog is open on it. `AGiftIsOrderedOnce`.

**HouseholdProofs.** *People:* whoever may still commit has counted a list that has not grown since (`Room`): a commit overtakes all others. `ThePlanIsKept`.
*Photos:* `Owned` follows an upload and a deletion of one photo that meet at any of their steps; a photo whose analysis is promised and that waits has a job that has yet to write, or one that is about to be queued (`Waiting`, `Expecting`).
`PhotosComeToAnEnd`. *Tags:* only `deleteTag` takes a manual tag away, over Photos' steps too: `UserTagsAreKept`.
*Surveys:* while a link is sent the mark stands, so no other is (`LinksInv`); one update at a time holds what it read, and owes the score of what it wrote (`ScoreInv`). `WhatSurveysLeaveAddsUp`.
*Calendar, birthdays:* without overlaps there is one automatic event, and the save under way has found it and knows its marks (`InStep`, `FoundBy`); what the user does meanwhile only adds marks (`Gentle`).
`TheAutoEventFollows`. *Calendar, reminders:* `Rolled` says that the stored next day is one the date falls on, less than a year ahead and behind today by no more than the days which the 1 am job has missed; then it is the next one
(two such days are a year apart, and `Missed < Year - Horizon` leaves room for one only). `StaleAreRead` carries this through the two steps of the job, `JobsInOrder`, `Planned` and `Kept` through the 6 am job. The arithmetic is
`FallsOnce`, `NextIsAhead` and `NextIsThatOrMuchLater`, about `NextOccurrence` for any length of the year. `RemindersAreThere`. `TheCalendarKeepsUp` joins the two: the steps of the one leave alone what the other's invariant is about.
*PriceWatch:* what was told last is no less than what is stored (`ToldIsStored`), and until its own check a suggestion has the price the job has read (`RowsAreCurrent`), so a price below the one read is below the one told. `ADropIsToldOnce`, an action property.
*Exchanges:* a draw has read everybody but those who joined since (`ReadsAreFair`), and draws that have read the same participants pair those and nobody else (`Circle`). What a draw writes is a matching of those it read (`Matches`), whether a shuffle
or the search found it: the picks so far are distinct and allowed (`PicksFit`); everyone in a finite set gives to another one and nobody is given to twice, so all are given to (`EverybodyGets`). That the search is complete is `NoneMissed`: of any pairing that fits, where it first parts
from the picks the loop has still to come to its receiver (`Reached`); a pick that is taken back loses none, since a pairing that goes on from it would have been come to (`BackKeeps`), and when the first giver
has tried everybody there is none (`RefusedForGood`). `TheGiftsMakeACircle`.

*Gallery:* the property speaks of a page at rest, so the invariant `GalleryInv` says what is owed as long as something is under way. A list that was read after the last change of a photo has it right (`ReadRight`), and so has the page
once it has heard of that change (`ShownRight`); if it has not, there is a request that will tell it (`OnItsWay`): a load, an upload or a re-analysis, which end in a load, or the answer of its own deletion (`Brings`).
A dialog without files is one that was opened `bare` (`DialogHasFiles`). `GoneForGood` makes that answer final, `NothingWaits` and `PictureComes` are the same for spinners and the viewer. `ThePhotosAreShownAsServed`.

**VaultProofs.** What the script holds of a row is what the row was when it was read, and each cell is that or sealed since (`FoundStands`); tables the script is through with are sealed
(`DealtSealed`), and stay sealed, since the API only writes sealed cells. `TextsAreEncryptedOnce`. *GiftHistory:* as on the page of gift ideas, the section differs from the API by the answers on their way
(`ShowsButAnswers`), and what waits, waits for a request under way (`WaitsAreAnswered`). `TheHistoryIsAsServed`.
*SurveyPages:* calls may reach the API, answer and get lost in any order, so the invariant ties each button to its call and each call to the rows. A busy button waits for exactly one call (`OneTripEach`, `BusyWaits`). What is listed is pending or about to go
(`ListsHold`). As long as nothing broke, one review at a time works on a response, and what it has saved is what it was sent (`ReviewsHold`), which is what was ticked. For the guests, a form that thanks has an answer, one that has none has not been told so, and
a link is answered by an answer that came from a form of its own (`FormsKnow`, `SubmitsKnow`, `AnsweredMails`, `FormsAlone`). The lemmas about a lost answer are apart from those about one that is heard, since nothing but the call itself may change then. `TheSurveyIsShownAsServed`.

The proofs met four places where a model could not be reasoned about, and changed them: the windows of Limits kept a count of what they let through where the calls themselves are needed to tell two of them apart;
the order dialog's notes and keys had no named sets; the rankings of the AI service and of the product search are stated in Ranks
by the places of members, where the community modules' sorts are opaque to the provers; and EventsService.update took a date only, though a change of the recurrence alone moves the next day as well. The last is what `overtaken` is about: an update or the 1 am job
finds the next day from a row it has read before, and may store it beside a date or a recurrence that was changed in between; `RemindersAreDue` excepts such events until their next write.

**Only model-checked:** the liveness properties `DowngradesReachTheFamily`, `PendingIsDecided`, `PurchasesAreFollowedUp` and `KnownCardsAreCancelled` (liveness under
fairness is beyond the prover, as is ENABLED), and `AccountTypeOK` and `HouseholdTypeOK`, the types of the two instances. The proofs establish the shapes that they need (`Shape`, `PicksShape`, `PageShape`, `CalendarShape` and so on) inside their
invariants; `TypeCorrect` is a theorem of its own for Orders, AgentJobs and Family.

## Not modelled

In orders: reads, prices and fees, the text of messages, e-mails and audit entries (which never fail a
handler), several users (a key of another user is refused without a change of state), orders of the browser
agent in `cancel()` (refused), a retailer with an adapter of its own (there is none). A timeline is a
set, so two equal rows count once.

In orders/agent: `RetailerProfileService` (its circuit breaker only closes `preview`, and its counters are last-writer-wins), notifications, the tier
check, amounts. A job whose preview has not answered is not cancelled: its id is known only from that answer.

In family and billing: names, e-mails and notifications, the expiry of an invite (one that is too old is never accepted), deleted
accounts (no operation deletes a user), tiers an administrator sets in the database, changed plan limits, the Stripe ids beside the tier, customers and
sessions.

In suggestions and services/ai: the guidance texts and prompts; what the model says, what pages contain and how titles are matched are choices;
tokens and costs beside their bound; the picture enrichment of a set beyond ProductSearch's one suggestion. In gifts: `confirmPurchase` with its two dialogs, statistics. In enrichment: dossier levels, the debounce of insights.

In auth: Google sign-in, the contents of JWTs, password rules. In the calendar: 29 February, time zones (the jobs and dates are UTC). In photos: captions, signed URLs, the local-disk fallback, the rate limit of uploads, the completeness score that `recomputeCompleteness` (`photos/photos.service.ts:383-400`) stores
beside Surveys' writers. In persons: a plan that is downgraded, which leaves more people than it allows. In the web app: a restart of the web server, which ends a refresh together with the requests that wait for it.
Of its pages: those that load, show and send once; `agent-preview-modal.tsx`, which no page mounts.

Notifications, e-mail, admin, health, testing, filters and logging: single rows or outside calls without an order of their own. The shared package and the schema are
types; their unique constraints and enums are used where the services rely on them.

## Plan

1. *Done:* PurchaseLedger, Orders, AgentJobs, Family; every component of the inventory with state and interleavings of its own; the proofs above.
2. **Proofs**, done for every safety property but the types of the two composed instances; next: these, component by component.
3. **Pages**: the sections with lists of their own that are left: Secret Santa, gift pools, the family page, the rules of the autopilot, the wishlist parser; they are GiftHistory's shape again.
4. **Refinements**: an abstract seat ledger that acceptInvite, the departures and the cascade refine; the run of AgentJobs refined by BrowserAgent;
   a quota shared by Rerolls, People and Photos.
5. **Liveness** of the photo queue and of re-rolls (every claim is released or has a set) under the fairness of their handlers.
6. `confirmPurchase`, the customers of billing, the picture enrichment of a whole set.
