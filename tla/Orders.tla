------------------------------- MODULE Orders -------------------------------
(***************************************************************************)
(* The API order life cycle: OrdersService (place, cancel, mark-manual,    *)
(* manual entry, tracking, transitionStatus), the retailer webhook, the    *)
(* polling cron, StripeConnectService and the MockAdapter they call.       *)
(*                                                                         *)
(* Every handler is an async function of a Node process: it runs           *)
(* atomically from one await to the next and anything may run in between.  *)
(* One action is one such stretch.  Writes of one handler that follow each *)
(* other and that no property tells apart (a timeline row, then the gift   *)
(* record, then the audit row) are one action.                             *)
(*                                                                         *)
(* The row that a place request creates is named by the request, the row   *)
(* of a manual entry by the entry.  A request without an Idempotency-Key   *)
(* header is a request whose key no other request has.                     *)
(***************************************************************************)
EXTENDS Naturals

CONSTANTS
  Requests,   \* POST /orders/place calls
  Entries,    \* POST /orders/manual calls
  Tasks,      \* every other call: cancel, mark-manual, tracking, webhook, poll
  Keys,       \* Idempotency-Key values
  KeyOf,      \* KeyOf[r]: the key that request r carries
  Charging,   \* is there a connected account and a customer to charge?
  MaxFaults   \* bound on database errors and process restarts

ASSUME OrdersAssumption ==
  /\ KeyOf \in [Requests -> Keys]
  /\ Requests \cap Entries = {}
  /\ Requests \cup Entries # {}
  /\ Charging \in BOOLEAN
  /\ MaxFaults \in Nat

VARIABLES
  db,        \* db[o]: the columns of the orders row that handlers read
  age,       \* age[o]: how long ago placedAt was, in stages
  timeline,  \* timeline[o]: the order_status_history rows of o
  gift,      \* gift[o]: source of the gift record linked to o
  stripe,    \* stripe[r]: the PaymentIntent of r, at Stripe
  shop,      \* shop[r]: the order of r, at the retailer
  shopAge,   \* shopAge[r]: how long ago the retailer accepted it, in stages
  place,     \* place[r]: where the place handler of r is
  entry,     \* entry[e]: where the manual entry handler of e is
  task,      \* task[t]: where call t is, and what it has read
  faults     \* database errors and restarts so far

vars == <<db, age, timeline, gift, stripe, shop, shopAge, place, entry, task, faults>>

-----------------------------------------------------------------------------
(* Types.                                                                  *)

Rows == Requests \cup Entries

Status == {"pending", "ordered", "processing", "shipped", "delivered",
           "cancelled", "failed"}
RowStatus == Status \cup {"none"}

\* What a user may set by hand (IsIn of the two manual DTOs).
Trackable == {"ordered", "processing", "shipped", "delivered"}

\* VALID_TRANSITIONS of transitionStatus.
ValidTransitions ==
  [pending    |-> {"ordered", "cancelled", "failed"},
   ordered    |-> {"processing", "cancelled", "failed"},
   processing |-> {"shipped", "cancelled", "failed"},
   shipped    |-> {"delivered", "failed"},
   delivered  |-> {},
   cancelled  |-> {},
   failed     |-> {}]

\* status, "has a stripePaymentIntentId" and "has a retailerOrderId".
Row == [status : RowStatus, intent : BOOLEAN, ref : BOOLEAN]
NewRow(s) == [status |-> s, intent |-> FALSE, ref |-> FALSE]
NoRow == NewRow("none")

Source == {"system", "webhook", "manual"}
Change == [from : RowStatus, to : Status, source : Source]

(* Time enters through four comparisons: the mock retailer is processing   *)
(* after 1 h, shipped after 4 h and delivered after 2 days, and an order   *)
(* may be cancelled for 2 h.  Stage 0 is below 1 h, 1 below 2 h, 2 below   *)
(* 4 h, 3 below 2 days, 4 above.                                           *)
LastStage == 4
Stage == 0..LastStage
WindowOpen(a) == a < 2

PlaceRunning == {"create", "opened", "charge", "saveIntent", "chargeFailed",
                 "recordChargeFailed", "shop", "saveOrdered", "recordOrdered",
                 "refund", "saveFailed", "recordFailed"}
PlaceDone == {"replayed", "ordered", "paymentFailed", "placeFailed", "dead"}
PlacePc == {"start"} \cup PlaceRunning \cup PlaceDone

\* A status here: the row is created with it and its timeline row is owed.
EntryPc == {"start", "done", "dead"} \cup Trackable

Op == {"none", "cancel", "webhook", "poll", "track", "mark"}
TaskRunning == {"refund", "shop", "poll", "transition", "write", "record"}
TaskDone == {"ok", "refused", "refundFailed", "cancelFailed", "ignored", "dead"}
TaskPc == {"idle"} \cup TaskRunning \cup TaskDone

\* op and row: the call; seen: the row as the call read it; to: the
\* status it is to write.
Task == [op : Op, row : Rows, pc : TaskPc, seen : Row, to : Status]

IdleTask == [op |-> "none", row |-> CHOOSE o \in Rows : TRUE, pc |-> "idle",
             seen |-> NoRow, to |-> "pending"]

TypeOK ==
  /\ db \in [Rows -> Row]
  /\ age \in [Rows -> Stage]
  /\ timeline \in [Rows -> SUBSET Change]
  /\ gift \in [Rows -> {"suggestion", "ordered"}]
  /\ stripe \in [Requests -> {"none", "charged", "refunded"}]
  /\ shop \in [Requests -> {"none", "ordered", "cancelled", "forgotten"}]
  /\ shopAge \in [Requests -> Stage]
  /\ place \in [Requests -> PlacePc]
  /\ entry \in [Entries -> EntryPc]
  /\ task \in [Tasks -> Task]
  /\ faults \in 0..MaxFaults

Init ==
  /\ db = [o \in Rows |-> NoRow]
  /\ age = [o \in Rows |-> 0]
  /\ timeline = [o \in Rows |-> {}]
  /\ gift = [o \in Rows |-> "suggestion"]
  /\ stripe = [r \in Requests |-> "none"]
  /\ shop = [r \in Requests |-> "none"]
  /\ shopAge = [r \in Requests |-> 0]
  /\ place = [r \in Requests |-> "start"]
  /\ entry = [e \in Entries |-> "start"]
  /\ task = [t \in Tasks |-> IdleTask]
  /\ faults = 0

-----------------------------------------------------------------------------
(* Helpers.                                                                *)

Exists(o) == db[o].status # "none"

\* (mutant) only an order that went through counts as a replay.
KeyTakenIfPlaced(r) ==
  \E q \in Requests : KeyOf[q] = KeyOf[r] /\ Exists(q) /\ db[q].status = "ordered"

\* The unique index on idempotency_key already holds the key of r.
KeyTaken(r) == \E q \in Requests : KeyOf[q] = KeyOf[r] /\ Exists(q)

SetStatus(o, s) == db' = [db EXCEPT ![o].status = s]
SaveIntent(o) == db' = [db EXCEPT ![o].intent = TRUE]
SaveOrdered(o) == db' = [db EXCEPT ![o].status = "ordered", ![o].ref = TRUE]

Record(o, from, to, source) ==
  timeline' = [timeline EXCEPT ![o] = @ \cup {[from |-> from, to |-> to, source |-> source]}]

\* One more database error or restart, within the bound.
Fault == faults < MaxFaults /\ faults' = faults + 1

\* MockAdapter.getOrderStatus: what it answers for an order it has, by the
\* order's age, and for the retailer's order of r.
Progress == [a \in Stage |-> IF a = 0 THEN "ordered" ELSE IF a < 3 THEN "processing"
                             ELSE IF a = 3 THEN "shipped" ELSE "delivered"]

ShopStatus(r) ==
  IF shop[r] = "ordered" THEN Progress[shopAge[r]]
  ELSE IF shop[r] = "cancelled" THEN "cancelled" ELSE "pending"

-----------------------------------------------------------------------------
(* POST /orders/place.                                                     *)

PlaceAt(r, pc) == place[r] = pc
PlaceGo(r, pc) == place' = [place EXCEPT ![r] = pc]

\* The replay check: an order already created under the key is the answer.
PlaceLookup(r) ==
  /\ PlaceAt(r, "start")
  /\ PlaceGo(r, IF KeyTaken(r) THEN "replayed" ELSE "create")
  /\ UNCHANGED <<db, age, timeline, gift, stripe, shop, shopAge, entry, task, faults>>

\* order.create; the unique index turns the loser of a race into a replay.
PlaceCreate(r) ==
  /\ PlaceAt(r, "create")
  /\ \/ /\ KeyTaken(r)
        /\ PlaceGo(r, "replayed")
        /\ UNCHANGED <<db, age>>
     \/ /\ ~KeyTaken(r)
        /\ db' = [db EXCEPT ![r] = NewRow("pending")]
        /\ age' = [age EXCEPT ![r] = 0]
        /\ PlaceGo(r, "opened")
  /\ UNCHANGED <<timeline, gift, stripe, shop, shopAge, entry, task, faults>>

PlaceRecordOpened(r) ==
  /\ PlaceAt(r, "opened")
  /\ Record(r, "none", "pending", "system")
  /\ PlaceGo(r, IF Charging THEN "charge" ELSE "shop")
  /\ UNCHANGED <<db, age, gift, stripe, shop, shopAge, entry, task, faults>>

\* createCharge: it may succeed, fail, or succeed and lose its answer.  The
\* handler never looks at charge.status, so a PaymentIntent is a charge.
PlaceCharge(r) ==
  /\ PlaceAt(r, "charge")
  /\ \/ /\ stripe' = [stripe EXCEPT ![r] = "charged"]
        /\ PlaceGo(r, "saveIntent") \/ PlaceGo(r, "chargeFailed")
     \/ /\ PlaceGo(r, "chargeFailed")
        /\ UNCHANGED stripe
  /\ UNCHANGED <<db, age, timeline, gift, shop, shopAge, entry, task, faults>>

\* (mutant) a failed write of the intent is logged and the order goes on.
PlaceSaveIntentSwallowed(r) ==
  /\ PlaceAt(r, "saveIntent")
  /\ PlaceGo(r, "shop")
  /\ \/ db' = [db EXCEPT ![r].intent = TRUE] /\ UNCHANGED faults
     \/ Fault /\ UNCHANGED db
  /\ UNCHANGED <<age, timeline, gift, stripe, shop, shopAge, entry, task>>

\* The write of stripePaymentIntentId is inside the same try as the charge.
PlaceSaveIntent(r) ==
  /\ PlaceAt(r, "saveIntent")
  /\ \/ /\ SaveIntent(r)
        /\ PlaceGo(r, "shop")
        /\ UNCHANGED faults
     \/ /\ Fault
        /\ PlaceGo(r, "chargeFailed")
        /\ UNCHANGED db
  /\ UNCHANGED <<age, timeline, gift, stripe, shop, shopAge, entry, task>>

\* (mutant) the status is left for a later clean-up.
PlaceChargeFailedLater(r) ==
  /\ PlaceAt(r, "chargeFailed")
  /\ PlaceGo(r, "paymentFailed")
  /\ UNCHANGED <<db, age, timeline, gift, stripe, shop, shopAge, entry, task, faults>>

PlaceChargeFailed(r) ==
  /\ PlaceAt(r, "chargeFailed")
  /\ SetStatus(r, "failed")
  /\ PlaceGo(r, "recordChargeFailed")
  /\ UNCHANGED <<age, timeline, gift, stripe, shop, shopAge, entry, task, faults>>

PlaceRecordChargeFailed(r) ==
  /\ PlaceAt(r, "recordChargeFailed")
  /\ Record(r, "pending", "failed", "system")
  /\ PlaceGo(r, "paymentFailed")
  /\ UNCHANGED <<db, age, gift, stripe, shop, shopAge, entry, task, faults>>

\* The catch of the retailer half refunds only if this handler has charged.
AfterShopFailure == IF Charging THEN "refund" ELSE "saveFailed"

PlaceShop(r) ==
  /\ PlaceAt(r, "shop")
  /\ \/ /\ shop' = [shop EXCEPT ![r] = "ordered"]
        /\ shopAge' = [shopAge EXCEPT ![r] = 0]
        /\ PlaceGo(r, "saveOrdered")
     \/ /\ PlaceGo(r, AfterShopFailure)
        /\ UNCHANGED <<shop, shopAge>>
  /\ UNCHANGED <<db, age, timeline, gift, stripe, entry, task, faults>>

\* Unconditional by id: whatever the row has become, it is now 'ordered'.
PlaceSaveOrdered(r) ==
  /\ PlaceAt(r, "saveOrdered")
  /\ \/ /\ SaveOrdered(r)
        /\ PlaceGo(r, "recordOrdered")
        /\ UNCHANGED faults
     \/ /\ Fault
        /\ PlaceGo(r, AfterShopFailure)
        /\ UNCHANGED db
  /\ UNCHANGED <<age, timeline, gift, stripe, shop, shopAge, entry, task>>

PlaceRecordOrdered(r) ==
  /\ PlaceAt(r, "recordOrdered")
  /\ \/ /\ Record(r, "pending", "ordered", "system")
        /\ gift' = [gift EXCEPT ![r] = "ordered"]
        /\ PlaceGo(r, "ordered")
        /\ UNCHANGED faults
     \/ /\ Fault
        /\ PlaceGo(r, AfterShopFailure)
        /\ UNCHANGED <<timeline, gift>>
  /\ UNCHANGED <<db, age, stripe, shop, shopAge, entry, task>>

\* Stripe refuses to refund twice; a failed refund is logged and audited.
PlaceRefund(r) ==
  /\ PlaceAt(r, "refund")
  /\ \/ /\ stripe[r] = "charged"
        /\ stripe' = [stripe EXCEPT ![r] = "refunded"]
     \/ UNCHANGED stripe
  /\ PlaceGo(r, "saveFailed")
  /\ UNCHANGED <<db, age, timeline, gift, shop, shopAge, entry, task, faults>>

PlaceSaveFailed(r) ==
  /\ PlaceAt(r, "saveFailed")
  /\ SetStatus(r, "failed")
  /\ PlaceGo(r, "recordFailed")
  /\ UNCHANGED <<age, timeline, gift, stripe, shop, shopAge, entry, task, faults>>

PlaceRecordFailed(r) ==
  /\ PlaceAt(r, "recordFailed")
  /\ Record(r, "pending", "failed", "system")
  /\ PlaceGo(r, "placeFailed")
  /\ UNCHANGED <<db, age, gift, stripe, shop, shopAge, entry, task, faults>>

PlaceStep(r) ==
  \/ PlaceLookup(r)       \/ PlaceCreate(r)       \/ PlaceRecordOpened(r)
  \/ PlaceCharge(r)       \/ PlaceSaveIntent(r)   \/ PlaceChargeFailed(r)
  \/ PlaceRecordChargeFailed(r)
  \/ PlaceShop(r)         \/ PlaceSaveOrdered(r)  \/ PlaceRecordOrdered(r)
  \/ PlaceRefund(r)       \/ PlaceSaveFailed(r)   \/ PlaceRecordFailed(r)

-----------------------------------------------------------------------------
(* POST /orders/manual: a row no adapter knows, in any tracked status.     *)

ManualCreate(e) ==
  /\ entry[e] = "start"
  /\ \E s \in Trackable :
       /\ db' = [db EXCEPT ![e] = NewRow(s)]
       /\ entry' = [entry EXCEPT ![e] = s]
  /\ age' = [age EXCEPT ![e] = 0]
  /\ UNCHANGED <<timeline, gift, stripe, shop, shopAge, place, task, faults>>

\* (mutant) a manual order starts without a timeline.
ManualRecordNothing(e) ==
  /\ entry[e] \in Trackable
  /\ entry' = [entry EXCEPT ![e] = "done"]
  /\ UNCHANGED <<db, age, timeline, gift, stripe, shop, shopAge, place, task, faults>>

ManualRecord(e) ==
  /\ entry[e] \in Trackable
  /\ Record(e, "none", entry[e], "manual")
  /\ gift' = [gift EXCEPT ![e] = "ordered"]
  /\ entry' = [entry EXCEPT ![e] = "done"]
  /\ UNCHANGED <<db, age, stripe, shop, shopAge, place, task, faults>>

-----------------------------------------------------------------------------
(* The other calls.  The first step of a call reads the row and keeps what *)
(* it read: every later test and every timeline row uses that copy.        *)

TaskAt(t, op, pc) == task[t].op = op /\ task[t].pc = pc
TaskGo(t, pc) == task' = [task EXCEPT ![t].pc = pc]

Begin(t, op, o, pc, to) ==
  task' = [task EXCEPT ![t] = [op |-> op, row |-> o, pc |-> pc, seen |-> db[o],
                               to |-> to]]
Answer(t, to, pc) == task' = [task EXCEPT ![t].to = to, ![t].pc = pc]
Reread(t, pc) == task' = [task EXCEPT ![t].seen = db[task[t].row], ![t].pc = pc]

\* (mutant) only orders that have ended are refused.
CancelReadAnyLive(t, o) ==
  /\ task[t].pc = "idle"
  /\ Exists(o)
  /\ Begin(t, "cancel", o,
           IF ~WindowOpen(age[o]) \/ db[o].status \in {"cancelled", "failed"} THEN "refused"
           ELSE IF db[o].intent THEN "refund" ELSE "shop", "cancelled")
  /\ UNCHANGED <<db, age, timeline, gift, stripe, shop, shopAge, place, entry, faults>>

\* POST /orders/:id/cancel: the guards, on the row as read.
CancelRead(t, o) ==
  /\ task[t].pc = "idle"
  /\ Exists(o)
  /\ LET allowed == WindowOpen(age[o]) /\ db[o].status \in {"pending", "ordered"}
     IN  Begin(t, "cancel", o,
               IF ~allowed THEN "refused" ELSE IF db[o].intent THEN "refund" ELSE "shop",
               "cancelled")
  /\ UNCHANGED <<db, age, timeline, gift, stripe, shop, shopAge, place, entry, faults>>

\* Refund first; when Stripe refuses or fails, nothing else is done.
CancelRefund(t) ==
  /\ TaskAt(t, "cancel", "refund")
  /\ LET r == task[t].row
     IN  \/ /\ stripe[r] = "charged"
            /\ stripe' = [stripe EXCEPT ![r] = "refunded"]
            /\ TaskGo(t, "shop")
         \/ /\ TaskGo(t, "refundFailed")
            /\ UNCHANGED stripe
  /\ UNCHANGED <<db, age, timeline, gift, shop, shopAge, place, entry, faults>>

\* (mutant) the retailer is given our id, which it does not know.
CancelShopByOurId(t) ==
  /\ TaskAt(t, "cancel", "shop")
  /\ TaskGo(t, "write")
  /\ UNCHANGED <<db, age, timeline, gift, stripe, shop, shopAge, place, entry, faults>>

\* adapter.cancelOrder(retailerOrderId || id): an id the retailer does not
\* know is a success, an order past the window is an error.
CancelShop(t) ==
  /\ TaskAt(t, "cancel", "shop")
  /\ LET r == task[t].row
         known == task[t].seen.ref /\ shop[r] \in {"ordered", "cancelled"}
     IN  \/ /\ ~known
            /\ TaskGo(t, "write")
            /\ UNCHANGED shop
         \/ /\ known /\ WindowOpen(shopAge[r])
            /\ shop' = [shop EXCEPT ![r] = "cancelled"]
            /\ TaskGo(t, "write")
         \/ /\ known /\ ~WindowOpen(shopAge[r])
            /\ TaskGo(t, "cancelFailed")
            /\ UNCHANGED shop
  /\ UNCHANGED <<db, age, timeline, gift, stripe, shopAge, place, entry, faults>>

\* (mutant) the handler returns before it records the cancellation.
CancelWriteOnly(t) ==
  /\ TaskAt(t, "cancel", "write")
  /\ SetStatus(task[t].row, "cancelled")
  /\ TaskGo(t, "ok")
  /\ UNCHANGED <<age, timeline, gift, stripe, shop, shopAge, place, entry, faults>>

CancelWrite(t) ==
  /\ TaskAt(t, "cancel", "write")
  /\ SetStatus(task[t].row, "cancelled")
  /\ TaskGo(t, "record")
  /\ UNCHANGED <<age, timeline, gift, stripe, shop, shopAge, place, entry, faults>>

CancelRecord(t) ==
  /\ TaskAt(t, "cancel", "record")
  /\ Record(task[t].row, task[t].seen.status, "cancelled", "system")
  /\ gift' = [gift EXCEPT ![task[t].row] = "suggestion"]
  /\ TaskGo(t, "ok")
  /\ UNCHANGED <<db, age, stripe, shop, shopAge, place, entry, faults>>

\* (mutant) only orders that have ended are protected.
NextPcIfLive(o, to) ==
  IF db[o].status \in {"delivered", "cancelled", "failed"} THEN "ignored" ELSE "write"

\* transitionStatus checks the status it reads, and writes without a condition.
NextPc(o, to) == IF to \in ValidTransitions[db[o].status] THEN "write" ELSE "ignored"

\* POST /webhooks/retailer/:key: any status, for an order whose retailer id is
\* on file, as often and in whatever order the retailer sends it.
WebhookRead(t, o, to) ==
  /\ task[t].pc = "idle"
  /\ Exists(o) /\ db[o].ref
  /\ Begin(t, "webhook", o, NextPc(o, to), to)
  /\ UNCHANGED <<db, age, timeline, gift, stripe, shop, shopAge, place, entry, faults>>

\* pollActiveOrders selects the active orders with a retailer id ...
PollSelect(t, o) ==
  /\ task[t].pc = "idle"
  /\ db[o].status \in {"ordered", "processing", "shipped"} /\ db[o].ref
  /\ Begin(t, "poll", o, "poll", db[o].status)
  /\ UNCHANGED <<db, age, timeline, gift, stripe, shop, shopAge, place, entry, faults>>

\* ... and pollOrder compares the retailer's answer with the selected copy,
PollAsk(t) ==
  /\ TaskAt(t, "poll", "poll")
  /\ LET answer == ShopStatus(task[t].row)
     IN  Answer(t, answer, IF answer = task[t].seen.status THEN "ignored" ELSE "transition")
  /\ UNCHANGED <<db, age, timeline, gift, stripe, shop, shopAge, place, entry, faults>>

\* while transitionStatus reads the row again.
PollTransition(t) ==
  /\ TaskAt(t, "poll", "transition")
  /\ Reread(t, NextPc(task[t].row, task[t].to))
  /\ UNCHANGED <<db, age, timeline, gift, stripe, shop, shopAge, place, entry, faults>>

\* PATCH /orders/:id/tracking: no adjacency test; a no-op if nothing changes.
TrackRead(t, o, to) ==
  /\ task[t].pc = "idle"
  /\ Exists(o)
  /\ Begin(t, "track", o, IF to = db[o].status THEN "ignored" ELSE "write", to)
  /\ UNCHANGED <<db, age, timeline, gift, stripe, shop, shopAge, place, entry, faults>>

TransitionWrite(t) ==
  /\ task[t].op \in {"webhook", "poll", "track"} /\ task[t].pc = "write"
  /\ SetStatus(task[t].row, task[t].to)
  /\ TaskGo(t, "record")
  /\ UNCHANGED <<age, timeline, gift, stripe, shop, shopAge, place, entry, faults>>

SourceOf(op) ==
  CASE op = "webhook" -> "webhook" [] op = "poll" -> "system" [] op = "track" -> "manual"

TransitionRecord(t) ==
  /\ task[t].op \in {"webhook", "poll", "track"} /\ task[t].pc = "record"
  /\ Record(task[t].row, task[t].seen.status, task[t].to, SourceOf(task[t].op))
  /\ TaskGo(t, "ok")
  /\ UNCHANGED <<db, age, gift, stripe, shop, shopAge, place, entry, faults>>

\* POST /orders/:id/mark-manual: a failed order was bought by hand.
MarkRead(t, o) ==
  /\ task[t].pc = "idle"
  /\ db[o].status = "failed"
  /\ Begin(t, "mark", o, "write", "ordered")
  /\ UNCHANGED <<db, age, timeline, gift, stripe, shop, shopAge, place, entry, faults>>

\* It restarts placedAt and, alone among the handlers, records no change.
MarkWrite(t) ==
  /\ TaskAt(t, "mark", "write")
  /\ SetStatus(task[t].row, "ordered")
  /\ age' = [age EXCEPT ![task[t].row] = 0]
  /\ TaskGo(t, "ok")
  /\ UNCHANGED <<timeline, gift, stripe, shop, shopAge, place, entry, faults>>

TaskStart(t) ==
  \E o \in Rows :
    \/ CancelRead(t, o) \/ PollSelect(t, o) \/ MarkRead(t, o)
    \/ \E to \in Status : WebhookRead(t, o, to)
    \/ \E to \in Trackable : TrackRead(t, o, to)

TaskStep(t) ==
  \/ CancelRefund(t) \/ CancelShop(t) \/ CancelWrite(t) \/ CancelRecord(t)
  \/ PollAsk(t) \/ PollTransition(t)
  \/ TransitionWrite(t) \/ TransitionRecord(t)
  \/ MarkWrite(t)

-----------------------------------------------------------------------------
(* Time and failures.                                                      *)

\* placedAt and the retailer's clock for the order move on together.
Older(a) == IF a < LastStage THEN a + 1 ELSE a

Tick(o) ==
  /\ Exists(o)
  /\ age' = [age EXCEPT ![o] = Older(@)]
  /\ shopAge' = [r \in Requests |-> IF r = o /\ shop[r] \in {"ordered", "cancelled"}
                                    THEN Older(shopAge[r]) ELSE shopAge[r]]
  /\ UNCHANGED <<db, timeline, gift, stripe, shop, place, entry, task, faults>>

\* A database error outside every try ends the handler with a 500.
PlaceAbandon(r) ==
  /\ place[r] \in PlaceRunning
  /\ Fault /\ PlaceGo(r, "dead")
  /\ UNCHANGED <<db, age, timeline, gift, stripe, shop, shopAge, entry, task>>

TaskAbandon(t) ==
  /\ task[t].pc \in TaskRunning
  /\ Fault /\ TaskGo(t, "dead")
  /\ UNCHANGED <<db, age, timeline, gift, stripe, shop, shopAge, place, entry>>

Stopped(call) == [call EXCEPT !.pc = "dead"]

\* The process restarts: every handler is gone, and so is the Map in which
\* the MockAdapter keeps its orders.
Restart ==
  /\ Fault
  /\ place' = [r \in Requests |-> IF place[r] \in PlaceRunning THEN "dead" ELSE place[r]]
  /\ entry' = [e \in Entries |-> IF entry[e] \in Trackable THEN "dead" ELSE entry[e]]
  /\ task' = [t \in Tasks |-> IF task[t].pc \in TaskRunning
                              THEN Stopped(task[t]) ELSE task[t]]
  /\ shop' = [r \in Requests |-> IF shop[r] = "none" THEN "none" ELSE "forgotten"]
  /\ UNCHANGED <<db, age, timeline, gift, stripe, shopAge>>

-----------------------------------------------------------------------------

Next ==
  \/ \E r \in Requests : PlaceStep(r) \/ PlaceAbandon(r)
  \/ \E e \in Entries : ManualCreate(e) \/ ManualRecord(e)
  \/ \E t \in Tasks : TaskStart(t) \/ TaskStep(t) \/ TaskAbandon(t)
  \/ \E o \in Rows : Tick(o)
  \/ Restart

Spec == Init /\ [][Next]_vars

(* The event loop resumes every handler whose awaited call has answered,   *)
(* and Stripe's and the mock retailer's calls do answer.  Nothing makes a  *)
(* client call, a clock reach a stage or a fault happen.                   *)
Fairness ==
  /\ \A r \in Requests : WF_vars(PlaceStep(r))
  /\ \A e \in Entries : WF_vars(ManualRecord(e))
  /\ \A t \in Tasks : WF_vars(TaskStep(t))

FairSpec == Spec /\ Fairness

-----------------------------------------------------------------------------
(* Properties.                                                             *)

(* place() keeps the promise of the ledger: per Idempotency-Key at most    *)
(* one charge and at most one purchase, the purchase after the charge and  *)
(* by the request that paid - under replays, create races, lost answers    *)
(* of Stripe, database errors and restarts.                                *)
Under(k) == {r \in Requests : KeyOf[r] = k}

Ledger == INSTANCE PurchaseLedger WITH
            Prepaid  <- Charging,
            charged  <- [k \in Keys |-> {r \in Under(k) : stripe[r] # "none"}],
            refunded <- [k \in Keys |-> {r \in Under(k) : stripe[r] = "refunded"}],
            bought   <- [k \in Keys |-> {r \in Under(k) : shop[r] # "none"}]

LedgerSpec == Ledger!Spec

(* cancel() refunds only what the row remembers.  So a purchase that was   *)
(* paid for must have its PaymentIntent on the row from the moment the     *)
(* retailer accepts it, whatever fails afterwards.                         *)
GoodsAreRefundable ==
  \A r \in Requests : Charging /\ shop[r] # "none" => db[r].intent

(* A cancel that was answered with success, on an order whose retailer id  *)
(* it had read, has undone the purchase on both sides: the money is back   *)
(* and the retailer's order is not live.                                   *)
CancelUndoesPurchase ==
  \A t \in Tasks :
    task[t].op = "cancel" /\ task[t].pc = "ok" /\ task[t].seen.ref =>
      /\ Charging => stripe[task[t].row] = "refunded"
      /\ shop[task[t].row] # "ordered"

(* The timeline never shows a change the status model forbids, except one  *)
(* a user made by hand: every row written by place, cancel, the webhook or *)
(* the poller is an opening or an edge of VALID_TRANSITIONS, although      *)
(* these handlers overwrite each other's status.                           *)
TimelineIsLegal ==
  \A o \in Rows : \A c \in timeline[o] :
    \/ c.source = "manual"
    \/ c.from = "none" /\ c.to = "pending"
    \/ c.from # "none" /\ c.to \in ValidTransitions[c.from]

(* Without faults, and on a row that was never marked as bought by hand,   *)
(* the status shown is one the timeline has or is about to get from the    *)
(* handler that set it: no handler's status write goes unrecorded.         *)
Owed(o, s) ==
  \/ \E r \in Requests :
       /\ r = o
       /\ \/ s = "pending" /\ place[r] = "opened"
          \/ s = "ordered" /\ place[r] = "recordOrdered"
          \/ s = "failed"  /\ place[r] \in {"recordChargeFailed", "recordFailed"}
  \/ \E e \in Entries : e = o /\ entry[e] = s
  \/ \E t \in Tasks : task[t].row = o /\ task[t].pc = "record" /\ task[t].to = s

MarkedByHand(o) ==
  \E t \in Tasks : task[t].op = "mark" /\ task[t].row = o /\ task[t].pc = "ok"

StatusIsRecorded ==
  faults = 0 =>
    \A o \in Rows :
      \/ ~Exists(o) \/ MarkedByHand(o)
      \/ Owed(o, db[o].status)
      \/ \E c \in timeline[o] : c.to = db[o].status

(* Without faults no order stays 'pending': place() decides every row it   *)
(* opens, whatever other calls do to the row meanwhile.                    *)
PendingIsDecided ==
  \A r \in Requests :
    db[r].status = "pending" ~> db[r].status # "pending" \/ faults > 0

-----------------------------------------------------------------------------
(* Statements of the documents that the code does not keep.                *)

(* "Cancellation tested: cancel within 2 hours -> order cancelled at       *)
(* retailer": a cancel answered with success leaves no live order there.   *)
(* cancel() also accepts a 'pending' order, of which the retailer is being *)
(* asked at that moment.                                                   *)
CancelReachesRetailer ==
  \A t \in Tasks : \A r \in Requests :
    task[t].op = "cancel" /\ task[t].pc = "ok" /\ task[t].row = r => shop[r] # "ordered"
=============================================================================
