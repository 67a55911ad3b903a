---------------------------- MODULE OrdersProofs ----------------------------
(***************************************************************************)
(* Proofs about Orders, for any sets of requests, manual entries and other *)
(* calls, any number of keys and any bound on faults; and about Checkout,  *)
(* the dialog that places orders.                                          *)
(***************************************************************************)
EXTENDS Orders, Checkout, TLAPS

-----------------------------------------------------------------------------
(* Facts about the operators.                                              *)

(* The row an idle call starts with is a row.                              *)
LEMMA IdleTaskType == IdleTask \in Task
<1>1. PICK p \in Rows : TRUE
  BY OrdersAssumption DEF Rows
<1>2. (CHOOSE o \in Rows : TRUE) \in Rows
  BY <1>1
<1> QED
  BY <1>2 DEF IdleTask, Task, Op, TaskPc, NoRow, NewRow, Row, RowStatus, Status, Stage, LastStage

(* The clock of an order stays within the stages.                          *)
LEMMA OlderType == ASSUME NEW a \in Stage PROVE Older(a) \in Stage
BY DEF Older, Stage, LastStage

(* The retailer answers with a status of the model.                        *)
LEMMA ShopStatusType ==
  ASSUME TypeOK, NEW r \in Requests PROVE ShopStatus(r) \in Status
<1>1. shopAge[r] \in Stage
  BY DEF TypeOK
<1>2. Progress[shopAge[r]] \in Status
  BY <1>1 DEF Progress, Stage, LastStage, Status
<1> QED
  BY <1>2 DEF ShopStatus, Status

(* The edges of the status model that place() and cancel() rely on.        *)
LEMMA PlaceAndCancelEdges ==
  /\ "ordered" \in ValidTransitions["pending"]
  /\ "failed" \in ValidTransitions["pending"]
  /\ "cancelled" \in ValidTransitions["pending"]
  /\ "cancelled" \in ValidTransitions["ordered"]
BY DEF ValidTransitions

(* What the elementary writes do: one column of one row, one field of one  *)
(* call, and everything else stays.                                        *)
LEMMA NewRowType == \A s \in RowStatus : NewRow(s) \in Row
BY DEF NewRow, Row

LEMMA RowUpdate ==
  ASSUME NEW x \in Row
  PROVE  /\ \A s \in RowStatus :
              LET y == [x EXCEPT !.status = s]
              IN  y \in Row /\ y.status = s /\ y.intent = x.intent /\ y.ref = x.ref
         /\ LET y == [x EXCEPT !.intent = TRUE]
            IN  y \in Row /\ y.status = x.status /\ y.intent = TRUE /\ y.ref = x.ref
         /\ LET y == [x EXCEPT !.status = "ordered", !.ref = TRUE]
            IN  y \in Row /\ y.status = "ordered" /\ y.intent = x.intent /\ y.ref = TRUE
BY DEF Row, RowStatus, Status

LEMMA SetStatusEffect ==
  ASSUME TypeOK, NEW o \in Rows, NEW s \in Status, SetStatus(o, s)
  PROVE  /\ db' \in [Rows -> Row]
         /\ \A p \in Rows : p # o => db'[p] = db[p]
         /\ db'[o].status = s /\ db'[o].intent = db[o].intent /\ db'[o].ref = db[o].ref
<1> DEFINE y == [db[o] EXCEPT !.status = s]
<1>1. y \in Row /\ y.status = s /\ y.intent = db[o].intent /\ y.ref = db[o].ref
  BY RowUpdate DEF TypeOK, RowStatus
<1>2. db' = [db EXCEPT ![o] = y]
  BY DEF SetStatus
<1> HIDE DEF y
<1> QED
  BY <1>1, <1>2 DEF TypeOK

LEMMA SaveIntentEffect ==
  ASSUME TypeOK, NEW o \in Rows, SaveIntent(o)
  PROVE  /\ db' \in [Rows -> Row]
         /\ \A p \in Rows : p # o => db'[p] = db[p]
         /\ db'[o].status = db[o].status /\ db'[o].intent = TRUE /\ db'[o].ref = db[o].ref
<1> DEFINE y == [db[o] EXCEPT !.intent = TRUE]
<1>1. y \in Row /\ y.status = db[o].status /\ y.intent = TRUE /\ y.ref = db[o].ref
  BY RowUpdate DEF TypeOK
<1>2. db' = [db EXCEPT ![o] = y]
  BY DEF SaveIntent
<1> HIDE DEF y
<1> QED
  BY <1>1, <1>2 DEF TypeOK

LEMMA SaveOrderedEffect ==
  ASSUME TypeOK, NEW o \in Rows, SaveOrdered(o)
  PROVE  /\ db' \in [Rows -> Row]
         /\ \A p \in Rows : p # o => db'[p] = db[p]
         /\ db'[o].status = "ordered" /\ db'[o].intent = db[o].intent /\ db'[o].ref = TRUE
<1> DEFINE y == [db[o] EXCEPT !.status = "ordered", !.ref = TRUE]
<1>1. y \in Row /\ y.status = "ordered" /\ y.intent = db[o].intent /\ y.ref = TRUE
  BY RowUpdate DEF TypeOK
<1>2. db' = [db EXCEPT ![o] = y]
  BY DEF TypeOK, Row, SaveOrdered
<1> HIDE DEF y
<1> QED
  BY <1>1, <1>2 DEF TypeOK

LEMMA TaskGoEffect ==
  ASSUME TypeOK, NEW t \in Tasks, NEW pc \in TaskPc, TaskGo(t, pc)
  PROVE  /\ task' \in [Tasks -> Task]
         /\ \A u \in Tasks : u # t => task'[u] = task[u]
         /\ task'[t].pc = pc /\ task'[t].op = task[t].op /\ task'[t].row = task[t].row
         /\ task'[t].seen = task[t].seen
         /\ task'[t].to = task[t].to
<1> DEFINE y == [task[t] EXCEPT !.pc = pc]
<1>1. /\ y \in Task /\ y.pc = pc /\ y.op = task[t].op /\ y.row = task[t].row
      /\ y.seen = task[t].seen /\ y.to = task[t].to
  BY DEF TypeOK, Task
<1>2. task' = [task EXCEPT ![t] = y]
  BY DEF TaskGo
<1> HIDE DEF y
<1> QED
  BY <1>1, <1>2 DEF TypeOK

LEMMA AnswerEffect ==
  ASSUME TypeOK, NEW t \in Tasks, NEW to \in Status, NEW pc \in TaskPc, Answer(t, to, pc)
  PROVE  /\ task' \in [Tasks -> Task]
         /\ \A u \in Tasks : u # t => task'[u] = task[u]
         /\ task'[t].pc = pc /\ task'[t].op = task[t].op /\ task'[t].row = task[t].row
         /\ task'[t].seen = task[t].seen /\ task'[t].to = to
<1> DEFINE y == [task[t] EXCEPT !.to = to, !.pc = pc]
<1>1. /\ y \in Task /\ y.pc = pc /\ y.op = task[t].op /\ y.row = task[t].row
      /\ y.seen = task[t].seen /\ y.to = to
  BY DEF TypeOK, Task
<1>2. task' = [task EXCEPT ![t] = y]
  BY DEF Answer, TypeOK, Task
<1> HIDE DEF y
<1> QED
  BY <1>1, <1>2 DEF TypeOK

LEMMA RereadEffect ==
  ASSUME TypeOK, NEW t \in Tasks, NEW pc \in TaskPc, Reread(t, pc)
  PROVE  /\ task' \in [Tasks -> Task]
         /\ \A u \in Tasks : u # t => task'[u] = task[u]
         /\ task'[t].pc = pc /\ task'[t].op = task[t].op /\ task'[t].row = task[t].row
         /\ task'[t].seen = db[task[t].row] /\ task'[t].to = task[t].to
<1> DEFINE y == [task[t] EXCEPT !.seen = db[task[t].row], !.pc = pc]
<1>1. /\ y \in Task /\ y.pc = pc /\ y.op = task[t].op /\ y.row = task[t].row
      /\ y.seen = db[task[t].row] /\ y.to = task[t].to
  BY DEF TypeOK, Task
<1>2. task' = [task EXCEPT ![t] = y]
  BY DEF Reread, TypeOK, Task
<1> HIDE DEF y
<1> QED
  BY <1>1, <1>2 DEF TypeOK

LEMMA StoppedEffect ==
  ASSUME NEW c \in Task
  PROVE  /\ Stopped(c) \in Task /\ Stopped(c).pc = "dead" /\ Stopped(c).op = c.op
         /\ Stopped(c).row = c.row /\ Stopped(c).seen = c.seen /\ Stopped(c).to = c.to
BY DEF Stopped, Task, TaskPc, TaskDone

LEMMA BeginEffect ==
  ASSUME TypeOK, NEW t \in Tasks, NEW o \in Rows, NEW op \in Op, NEW pc \in TaskPc,
         NEW to \in Status, Begin(t, op, o, pc, to)
  PROVE  /\ task' \in [Tasks -> Task]
         /\ \A u \in Tasks : u # t => task'[u] = task[u]
         /\ task'[t].pc = pc /\ task'[t].op = op /\ task'[t].row = o
         /\ task'[t].seen = db[o] /\ task'[t].to = to
BY DEF TypeOK, Begin, Task

-----------------------------------------------------------------------------
(* The inductive invariant.                                                *)

(* Only the row of a place request ever holds a PaymentIntent or a         *)
(* retailer id, and a call that saw one was on such a row.                 *)
RetailRows ==
  /\ \A e \in Entries : ~db[e].intent /\ ~db[e].ref
  /\ \A t \in Tasks :
       /\ task[t].seen.intent \/ task[t].seen.ref => task[t].row \in Requests
       /\ TaskAt(t, "poll", "poll") => task[t].seen.ref

(* The unique index: two requests never both own a row under one key.      *)
KeysAreUnique ==
  \A q, r \in Requests : KeyOf[q] = KeyOf[r] /\ Exists(q) /\ Exists(r) => q = r

(* How far the handler of r is, against its row, Stripe and the retailer.  *)
Unopened == {"start", "create", "replayed"}
BeforeShop == {"opened", "charge", "saveIntent", "chargeFailed", "recordChargeFailed", "shop"}

Purchase(r) ==
  /\ place[r] \in Unopened => ~Exists(r)
  /\ place[r] \in PlaceRunning \ {"create"} => Exists(r)
  /\ stripe[r] # "none" \/ shop[r] # "none" => Exists(r)
  /\ place[r] \in {"opened", "charge"} => stripe[r] = "none"
  /\ place[r] = "saveIntent" => stripe[r] # "none"
  /\ place[r] \in BeforeShop => shop[r] = "none"
  /\ place[r] \in {"saveOrdered", "recordOrdered"} => shop[r] # "none"
  /\ db[r].intent => stripe[r] # "none"
  /\ db[r].ref => shop[r] # "none"
  /\ Charging /\ (place[r] = "shop" \/ shop[r] # "none") => db[r].intent

(* What a call has seen still binds the row it is about.                   *)
Call(t) ==
  /\ task[t].pc # "idle" => Exists(task[t].row)
  /\ task[t].seen.ref => shop[task[t].row] # "none"
  /\ task[t].seen.ref /\ Charging => task[t].seen.intent

(* How far a cancel is, against Stripe and the retailer.                   *)
Cancelling(t) ==
  task[t].op = "cancel" =>
    /\ task[t].pc = "refund" => task[t].seen.intent
    /\ task[t].pc \in {"shop", "write", "record", "ok"} /\ task[t].seen.intent =>
         stripe[task[t].row] = "refunded"
    /\ task[t].pc \in {"write", "record", "ok"} /\ task[t].seen.ref =>
         shop[task[t].row] \in {"cancelled", "forgotten"}

(* The timeline row a call is to write is an edge of the status model.     *)
Edge(t) ==
  /\ task[t].op = "cancel" =>
       /\ task[t].to = "cancelled"
       /\ task[t].pc \in {"refund", "shop", "write", "record"} =>
            task[t].seen.status \in {"pending", "ordered"}
  /\ task[t].op \in {"webhook", "poll"} /\ task[t].pc \in {"write", "record"} =>
       task[t].seen.status # "none" /\ task[t].to \in ValidTransitions[task[t].seen.status]

IInv ==
  /\ TypeOK
  /\ RetailRows
  /\ KeysAreUnique
  /\ \A r \in Requests : Purchase(r)
  /\ \A t \in Tasks : Call(t) /\ Cancelling(t) /\ Edge(t)
  /\ TimelineIsLegal

-----------------------------------------------------------------------------
(* Type correctness.                                                       *)

LEMMA InitType == Init => TypeOK
<1> SUFFICES ASSUME Init PROVE TypeOK
  OBVIOUS
<1>1. \A o \in Rows : NoRow \in Row
  BY DEF NoRow, NewRow, Row, RowStatus, Status
<1>2. 0 \in Stage /\ 0 \in 0..MaxFaults
  BY OrdersAssumption DEF Stage, LastStage
<1> QED
  BY <1>1, <1>2, IdleTaskType DEF Init, TypeOK, PlacePc, EntryPc

(* Every step of a place handler keeps the types.                          *)
LEMMA PlaceStepType ==
  ASSUME TypeOK, NEW r \in Requests, PlaceStep(r) PROVE TypeOK'
<1> USE DEF TypeOK, PlaceAt, PlaceGo, Fault
<1>r. r \in Rows
  BY DEF Rows
<1>1. CASE PlaceLookup(r)
  BY <1>1 DEF PlaceLookup, PlacePc, PlaceRunning, PlaceDone
<1>2. CASE PlaceCreate(r)
  <2>1. NewRow("pending") \in Row /\ 0 \in Stage
    BY NewRowType DEF Stage, LastStage, RowStatus, Status
  <2> QED
    BY <1>2, <1>r, <2>1 DEF PlaceCreate, PlacePc, PlaceRunning, PlaceDone
<1>3. CASE PlaceRecordOpened(r)
  BY <1>3, <1>r DEF PlaceRecordOpened, Record, Change, Source, RowStatus, Status, PlacePc, PlaceRunning, PlaceDone
<1>4. CASE PlaceCharge(r)
  BY <1>4 DEF PlaceCharge, PlacePc, PlaceRunning, PlaceDone
<1>5. CASE PlaceSaveIntent(r)
  <2>1. db' \in [Rows -> Row]
    BY <1>5, <1>r, SaveIntentEffect DEF PlaceSaveIntent
  <2>2. faults' \in 0..MaxFaults
    BY <1>5, OrdersAssumption DEF PlaceSaveIntent
  <2> QED
    BY <1>5, <2>1, <2>2 DEF PlaceSaveIntent, PlacePc, PlaceRunning, PlaceDone
<1>6. CASE PlaceChargeFailed(r)
  BY <1>6, <1>r, SetStatusEffect DEF PlaceChargeFailed, Status, PlacePc, PlaceRunning, PlaceDone
<1>7. CASE PlaceRecordChargeFailed(r)
  BY <1>7, <1>r DEF PlaceRecordChargeFailed, Record, Change, Source, RowStatus, Status, PlacePc, PlaceRunning, PlaceDone
<1>8. CASE PlaceShop(r)
  BY <1>8 DEF PlaceShop, AfterShopFailure, PlacePc, PlaceRunning, PlaceDone, Stage, LastStage
<1>9. CASE PlaceSaveOrdered(r)
  <2>1. db' \in [Rows -> Row]
    BY <1>9, <1>r, SaveOrderedEffect DEF PlaceSaveOrdered
  <2>2. faults' \in 0..MaxFaults
    BY <1>9, OrdersAssumption DEF PlaceSaveOrdered
  <2> QED
    BY <1>9, <2>1, <2>2 DEF PlaceSaveOrdered, AfterShopFailure, PlacePc, PlaceRunning, PlaceDone
<1>10. CASE PlaceRecordOrdered(r)
  BY <1>10, <1>r, OrdersAssumption DEF PlaceRecordOrdered, AfterShopFailure, Record, Change, Source, RowStatus, Status,
     PlacePc, PlaceRunning, PlaceDone
<1>11. CASE PlaceRefund(r)
  BY <1>11 DEF PlaceRefund, PlacePc, PlaceRunning, PlaceDone
<1>12. CASE PlaceSaveFailed(r)
  BY <1>12, <1>r, SetStatusEffect DEF PlaceSaveFailed, Status, PlacePc, PlaceRunning, PlaceDone
<1>13. CASE PlaceRecordFailed(r)
  BY <1>13, <1>r DEF PlaceRecordFailed, Record, Change, Source, RowStatus, Status, PlacePc, PlaceRunning, PlaceDone
<1> QED
  BY <1>1, <1>2, <1>3, <1>4, <1>5, <1>6, <1>7, <1>8, <1>9, <1>10, <1>11, <1>12, <1>13
  DEF PlaceStep

(* Every step of a manual entry keeps the types.                           *)
LEMMA ManualStepType ==
  ASSUME TypeOK, NEW e \in Entries, ManualCreate(e) \/ ManualRecord(e) PROVE TypeOK'
<1> USE DEF TypeOK, Row, RowStatus, Status, Trackable, EntryPc
<1>e. e \in Rows
  BY DEF Rows
<1>1. CASE ManualCreate(e)
  BY <1>1, <1>e DEF ManualCreate, NewRow, Stage, LastStage
<1>2. CASE ManualRecord(e)
  BY <1>2, <1>e DEF ManualRecord, Record, Change, Source
<1> QED
  BY <1>1, <1>2

(* Every beginning of a call keeps the types.                              *)
LEMMA TaskStartType ==
  ASSUME TypeOK, NEW t \in Tasks, TaskStart(t) PROVE TypeOK'
<1>1. task' \in [Tasks -> Task]
  <2> USE BeginEffect DEF TaskPc, TaskRunning, TaskDone, Op, Status, Trackable
  <2>1. PICK o \in Rows :
          \/ CancelRead(t, o) \/ PollSelect(t, o) \/ MarkRead(t, o)
          \/ \E to \in Status : WebhookRead(t, o, to)
          \/ \E to \in Trackable : TrackRead(t, o, to)
    BY DEF TaskStart
  <2>2. CASE CancelRead(t, o)
    BY <2>2 DEF CancelRead
  <2>3. CASE PollSelect(t, o)
    BY <2>3 DEF PollSelect
  <2>4. CASE MarkRead(t, o)
    BY <2>4 DEF MarkRead
  <2>5. ASSUME NEW to \in Status, WebhookRead(t, o, to) PROVE task' \in [Tasks -> Task]
    BY <2>5 DEF WebhookRead, NextPc
  <2>6. ASSUME NEW to \in Trackable, TrackRead(t, o, to) PROVE task' \in [Tasks -> Task]
    BY <2>6 DEF TrackRead
  <2> QED
    BY <2>1, <2>2, <2>3, <2>4, <2>5, <2>6
<1>2. UNCHANGED <<db, age, timeline, gift, stripe, shop, shopAge, place, entry, faults>>
  BY DEF TaskStart, CancelRead, PollSelect, MarkRead, WebhookRead, TrackRead
<1> QED
  BY <1>1, <1>2 DEF TypeOK

(* The row and the status a call carries are of their types.               *)
LEMMA TaskFields ==
  ASSUME TypeOK, NEW t \in Tasks
  PROVE  /\ task[t].row \in Rows /\ task[t].to \in Status /\ task[t].op \in Op
         /\ task[t].seen \in Row /\ task[t].pc \in TaskPc
BY DEF TypeOK, Task

(* Every further step of a call keeps the types.                           *)
LEMMA TaskStepType ==
  ASSUME TypeOK, RetailRows, NEW t \in Tasks, TaskStep(t) PROVE TypeOK'
<1> USE TaskFields, TaskGoEffect DEF TaskPc, TaskRunning, TaskDone
<1>1. CASE CancelRefund(t)
  BY <1>1 DEF CancelRefund, TypeOK
<1>2. CASE CancelShop(t)
  BY <1>2 DEF CancelShop, TypeOK
<1>3. CASE CancelWrite(t)
  BY <1>3, SetStatusEffect DEF CancelWrite, TypeOK, Status
<1>4. CASE CancelRecord(t)
  BY <1>4 DEF CancelRecord, TypeOK, Record, Change, Source, Row, Status
<1>5. CASE PollAsk(t)
  <2>1. task' \in [Tasks -> Task]
    BY <1>5, AnswerEffect, ShopStatusType DEF PollAsk, RetailRows
  <2> QED
    BY <1>5, <2>1 DEF PollAsk, TypeOK
<1>6. CASE PollTransition(t)
  <2>1. task' \in [Tasks -> Task]
    BY <1>6, RereadEffect DEF PollTransition, NextPc
  <2> QED
    BY <1>6, <2>1 DEF PollTransition, TypeOK
<1>7. CASE TransitionWrite(t)
  BY <1>7, SetStatusEffect DEF TransitionWrite, TypeOK
<1>8. CASE TransitionRecord(t)
  BY <1>8 DEF TransitionRecord, TypeOK, Record, Change, Source, SourceOf, Row
<1>9. CASE MarkWrite(t)
  BY <1>9, SetStatusEffect DEF MarkWrite, TypeOK, Status, Stage, LastStage
<1> QED
  BY <1>1, <1>2, <1>3, <1>4, <1>5, <1>6, <1>7, <1>8, <1>9 DEF TaskStep

(* Time, failures and restarts keep the types.                             *)
LEMMA TickType == ASSUME TypeOK, NEW o \in Rows, Tick(o) PROVE TypeOK'
BY OlderType DEF TypeOK, Tick

LEMMA PlaceAbandonType ==
  ASSUME TypeOK, NEW r \in Requests, PlaceAbandon(r) PROVE TypeOK'
BY OrdersAssumption DEF TypeOK, PlaceAbandon, Fault, PlaceGo, PlacePc, PlaceDone

LEMMA TaskAbandonType ==
  ASSUME TypeOK, NEW t \in Tasks, TaskAbandon(t) PROVE TypeOK'
<1>1. task' \in [Tasks -> Task]
  BY TaskGoEffect DEF TaskAbandon, TaskPc, TaskDone
<1> QED
  BY <1>1, OrdersAssumption DEF TypeOK, TaskAbandon, Fault

LEMMA RestartType == ASSUME TypeOK, Restart PROVE TypeOK'
<1>1. task' \in [Tasks -> Task]
  BY StoppedEffect DEF TypeOK, Restart
<1>2. faults' \in 0..MaxFaults
  BY OrdersAssumption DEF TypeOK, Restart, Fault
<1>3. place' \in [Requests -> PlacePc] /\ entry' \in [Entries -> EntryPc]
  BY DEF TypeOK, Restart, PlacePc, PlaceDone, EntryPc
<1>4. shop' \in [Requests -> {"none", "ordered", "cancelled", "forgotten"}]
  BY DEF TypeOK, Restart
<1> QED
  BY <1>1, <1>2, <1>3, <1>4 DEF TypeOK, Restart

(* Every step from a state of the invariant keeps the types.               *)
LEMMA NextType == ASSUME TypeOK, RetailRows, [Next]_vars PROVE TypeOK'
<1>1. CASE UNCHANGED vars
  BY <1>1 DEF vars, TypeOK
<1> QED
  BY <1>1, PlaceStepType, PlaceAbandonType, ManualStepType, TaskStartType, TaskStepType,
     TaskAbandonType, TickType, RestartType DEF Next

-----------------------------------------------------------------------------
(* What steps leave alone keeps the invariant.                             *)

(* No row is opened or gains a retailer id or a PaymentIntent.             *)
SameRow(o) ==
  /\ (db'[o].status = "none") <=> (db[o].status = "none")
  /\ db'[o].intent = db[o].intent /\ db'[o].ref = db[o].ref

(* No purchase begins at Stripe or at the retailer.                        *)
SamePurchase(r) ==
  /\ (stripe'[r] = "none") <=> (stripe[r] = "none")
  /\ (shop'[r] = "none") <=> (shop[r] = "none")

(* What a cancel has undone stays undone, and rows stay.                   *)
Onward(r) ==
  /\ stripe[r] = "refunded" => stripe'[r] = "refunded"
  /\ shop[r] # "none" => shop'[r] # "none"
  /\ shop[r] \in {"cancelled", "forgotten"} => shop'[r] \in {"cancelled", "forgotten"}

LEMMA PurchaseKept ==
  ASSUME NEW r \in Requests, Purchase(r), SameRow(r), SamePurchase(r),
         place'[r] = place[r] \/ place'[r] = "dead"
  PROVE  Purchase(r)'
BY DEF Purchase, SameRow, SamePurchase, Exists, Unopened, BeforeShop, PlaceRunning

LEMMA KeysKept ==
  ASSUME KeysAreUnique, \A r \in Requests : SameRow(r) PROVE KeysAreUnique'
BY DEF KeysAreUnique, SameRow, Exists

(* A call that does not move, or stops, keeps its part of the invariant.   *)
LEMMA CallKept ==
  ASSUME TypeOK, RetailRows, NEW t \in Tasks, Call(t), Cancelling(t), Edge(t),
         \/ task'[t] = task[t]
         \/ /\ task'[t].pc = "dead" /\ task'[t].op = task[t].op /\ task[t].pc # "idle"
            /\ task'[t].row = task[t].row /\ task'[t].seen = task[t].seen
            /\ task'[t].to = task[t].to,
         Exists(task[t].row) => Exists(task[t].row)',
         \A r \in Requests : Onward(r)
  PROVE  Call(t)' /\ Cancelling(t)' /\ Edge(t)'
<1>1. task'[t].row = task[t].row /\ task'[t].seen = task[t].seen
      /\ task'[t].op = task[t].op /\ task'[t].to = task[t].to
      /\ task'[t].pc \in {task[t].pc, "dead"} /\ (task'[t].pc # "idle" => task[t].pc # "idle")
  OBVIOUS
<1>2. task[t].seen.intent \/ task[t].seen.ref => task[t].row \in Requests
  BY DEF RetailRows
<1>3. Call(t)'
  BY <1>1, <1>2 DEF Call, Onward
<1>4. Cancelling(t)'
  BY <1>1, <1>2 DEF Cancelling, Onward
<1>5. Edge(t)'
  BY <1>1 DEF Edge
<1> QED
  BY <1>3, <1>4, <1>5

LEMMA RetailRowsKept ==
  ASSUME RetailRows, \A e \in Entries : SameRow(e),
         \A t \in Tasks : \/ task'[t] = task[t]
                          \/ /\ task'[t].pc = "dead" /\ task'[t].row = task[t].row
                             /\ task'[t].seen = task[t].seen
  PROVE  RetailRows'
BY DEF RetailRows, SameRow, TaskAt

(* A timeline row that is an opening, an edge or made by hand is legal.    *)
LEMMA TimelineKept ==
  ASSUME TypeOK, TimelineIsLegal, NEW o \in Rows, NEW from \in RowStatus, NEW to \in Status,
         NEW source \in Source, Record(o, from, to, source),
         \/ source = "manual"
         \/ from = "none" /\ to = "pending"
         \/ from # "none" /\ to \in ValidTransitions[from]
  PROVE  TimelineIsLegal'
<1> DEFINE c0 == [from |-> from, to |-> to, source |-> source]
<1>1. \A p \in Rows : \A c \in timeline'[p] : c \in timeline[p] \/ c = c0
  BY DEF TypeOK, Record
<1>2. c0.from = from /\ c0.to = to /\ c0.source = source
  OBVIOUS
<1> HIDE DEF c0
<1> QED
  BY <1>1, <1>2 DEF TimelineIsLegal

-----------------------------------------------------------------------------
(* Steps of place().                                                       *)

(* A place step touches one request: what is left to show is about it.     *)
LEMMA PlaceFrame ==
  ASSUME IInv, NEW r \in Requests, TypeOK',
         UNCHANGED task, Purchase(r)', Onward(r), KeysAreUnique', TimelineIsLegal',
         Exists(r) => Exists(r)',
         \A o \in Rows \ {r} : db'[o] = db[o],
         \A q \in Requests \ {r} : /\ stripe'[q] = stripe[q] /\ shop'[q] = shop[q]
                                   /\ place'[q] = place[q]
  PROVE  IInv'
<1>1. \A e \in Entries : SameRow(e)
  BY OrdersAssumption DEF SameRow, Rows
<1>2. RetailRows'
  BY <1>1, RetailRowsKept DEF IInv
<1>3. ASSUME NEW q \in Requests PROVE Purchase(q)'
  <2>1. CASE q = r
    BY <2>1
  <2>2. CASE q # r
    BY <2>2, PurchaseKept DEF IInv, SameRow, SamePurchase, Rows
  <2> QED
    BY <2>1, <2>2
<1>4. ASSUME NEW t \in Tasks PROVE Call(t)' /\ Cancelling(t)' /\ Edge(t)'
  <2>1. \A q \in Requests : Onward(q)
    BY DEF Onward
  <2>2. Exists(task[t].row) => Exists(task[t].row)'
    BY TaskFields DEF IInv, Exists
  <2> QED
    BY <2>1, <2>2, CallKept DEF IInv
<1> QED
  BY <1>2, <1>3, <1>4 DEF IInv

(* With no row opened, the index stays as it is.                           *)
LEMMA PlaceKeys ==
  ASSUME IInv, NEW r \in Requests, Exists(r)' <=> Exists(r),
         \A o \in Rows \ {r} : db'[o] = db[o]
  PROVE  KeysAreUnique'
BY DEF IInv, KeysAreUnique, Exists, Rows

LEMMA PlaceStepInv ==
  ASSUME IInv, NEW r \in Requests, PlaceStep(r) PROVE IInv'
<1> USE DEF PlaceAt, PlaceGo
<1>1. r \in Rows /\ Purchase(r) /\ TypeOK /\ TimelineIsLegal /\ KeysAreUnique /\ place[r] \in PlacePc
  BY DEF IInv, Rows, TypeOK
<1>2. TypeOK'
  BY PlaceStepType DEF IInv
<1>3. UNCHANGED task
  BY DEF PlaceStep, PlaceLookup, PlaceCreate, PlaceRecordOpened, PlaceCharge, PlaceSaveIntent,
     PlaceChargeFailed, PlaceRecordChargeFailed, PlaceShop, PlaceSaveOrdered,
     PlaceRecordOrdered, PlaceRefund, PlaceSaveFailed, PlaceRecordFailed
<1>4. CASE PlaceLookup(r)
  <2>1. Purchase(r)' /\ Onward(r)
    BY <1>1, <1>2, <1>4 DEF PlaceLookup, Purchase, Onward, Exists, Unopened, BeforeShop, PlaceRunning, TypeOK
  <2>2. TimelineIsLegal' /\ KeysAreUnique'
    BY <1>1, <1>4, PlaceKeys DEF PlaceLookup, TimelineIsLegal, Exists
  <2> QED
    BY <1>1, <1>2, <1>3, <1>4, <2>1, <2>2, PlaceFrame DEF PlaceLookup, TypeOK, Exists
<1>5. CASE PlaceCreate(r)
  <2>1. \/ KeyTaken(r) /\ UNCHANGED db /\ place' = [place EXCEPT ![r] = "replayed"]
      \/ /\ ~KeyTaken(r) /\ db' = [db EXCEPT ![r] = NewRow("pending")]
         /\ place' = [place EXCEPT ![r] = "opened"]
    BY <1>5 DEF PlaceCreate
  <2>2. place[r] = "create" /\ UNCHANGED <<timeline, stripe, shop>>
    BY <1>5 DEF PlaceCreate
  <2>3. NewRow("pending").status = "pending" /\ NewRow("pending").intent = FALSE
        /\ NewRow("pending").ref = FALSE
    BY DEF NewRow
  <2>4. Purchase(r)' /\ Onward(r)
    BY <1>1, <2>1, <2>2, <2>3 DEF Purchase, Onward, Exists, Unopened, BeforeShop, PlaceRunning, TypeOK
  <2>5. KeysAreUnique'
    BY <1>1, <2>1, <2>3 DEF KeysAreUnique, KeyTaken, Exists, Rows, TypeOK
  <2>6. TimelineIsLegal'
    BY <1>1, <2>2 DEF TimelineIsLegal
  <2> QED
    BY <1>1, <1>2, <1>3, <2>1, <2>2, <2>3, <2>4, <2>5, <2>6, PlaceFrame DEF TypeOK, Exists
<1>6. CASE PlaceRecordOpened(r)
  <2>1. Purchase(r)' /\ Onward(r)
    BY <1>1, <1>2, <1>6 DEF PlaceRecordOpened, Purchase, Onward, Exists, Unopened, BeforeShop, PlaceRunning, TypeOK
  <2>2. TimelineIsLegal'
    BY <1>1, <1>6, TimelineKept DEF PlaceRecordOpened, RowStatus, Status, Source
  <2>3. KeysAreUnique'
    BY <1>6, PlaceKeys DEF PlaceRecordOpened, Exists
  <2> QED
    BY <1>1, <1>2, <1>3, <1>6, <2>1, <2>2, <2>3, PlaceFrame DEF PlaceRecordOpened, TypeOK, Exists
<1>7. CASE PlaceCharge(r)
  <2>1. Purchase(r)' /\ Onward(r)
    BY <1>1, <1>2, <1>7 DEF PlaceCharge, Purchase, Onward, Exists, Unopened, BeforeShop, PlaceRunning, TypeOK
  <2>2. TimelineIsLegal' /\ KeysAreUnique'
    BY <1>1, <1>7, PlaceKeys DEF PlaceCharge, TimelineIsLegal, Exists
  <2> QED
    BY <1>1, <1>2, <1>3, <1>7, <2>1, <2>2, PlaceFrame DEF PlaceCharge, TypeOK, Exists
<1>8. CASE PlaceSaveIntent(r)
  <2>1. \/ /\ place' = [place EXCEPT ![r] = "shop"]
           /\ db'[r].status = db[r].status /\ db'[r].intent = TRUE /\ db'[r].ref = db[r].ref
        \/ UNCHANGED db /\ place' = [place EXCEPT ![r] = "chargeFailed"]
    BY <1>1, <1>8, SaveIntentEffect DEF PlaceSaveIntent
  <2>2. \A o \in Rows \ {r} : db'[o] = db[o]
    BY <1>1, <1>8, SaveIntentEffect DEF PlaceSaveIntent
  <2>3. place[r] = "saveIntent" /\ UNCHANGED <<timeline, stripe, shop>>
    BY <1>8 DEF PlaceSaveIntent
  <2>4. Purchase(r)' /\ Onward(r) /\ (Exists(r)' <=> Exists(r))
    BY <1>1, <2>1, <2>3 DEF Purchase, Onward, Exists, Unopened, BeforeShop, PlaceRunning, TypeOK
  <2>5. TimelineIsLegal' /\ KeysAreUnique'
    BY <1>1, <2>2, <2>3, <2>4, PlaceKeys DEF TimelineIsLegal
  <2> QED
    BY <1>1, <1>2, <1>3, <2>1, <2>2, <2>3, <2>4, <2>5, PlaceFrame DEF TypeOK
<1>9. CASE PlaceChargeFailed(r) \/ PlaceSaveFailed(r)
  <2>1. /\ \A o \in Rows \ {r} : db'[o] = db[o]
        /\ db'[r].status = "failed" /\ db'[r].intent = db[r].intent /\ db'[r].ref = db[r].ref
    BY <1>1, <1>9, SetStatusEffect DEF PlaceChargeFailed, PlaceSaveFailed, Status
  <2>2. /\ \/ /\ place[r] = "chargeFailed"
              /\ place' = [place EXCEPT ![r] = "recordChargeFailed"]
           \/ /\ place[r] = "saveFailed"
              /\ place' = [place EXCEPT ![r] = "recordFailed"]
        /\ UNCHANGED <<timeline, stripe, shop>>
    BY <1>9 DEF PlaceChargeFailed, PlaceSaveFailed
  <2>3. Purchase(r)' /\ Onward(r) /\ (Exists(r)' <=> Exists(r))
    BY <1>1, <2>1, <2>2 DEF Purchase, Onward, Exists, Unopened, BeforeShop, PlaceRunning, TypeOK
  <2>4. TimelineIsLegal' /\ KeysAreUnique'
    BY <1>1, <2>1, <2>2, <2>3, PlaceKeys DEF TimelineIsLegal
  <2> QED
    BY <1>1, <1>2, <1>3, <2>1, <2>2, <2>3, <2>4, PlaceFrame DEF TypeOK
<1>10. CASE PlaceRecordChargeFailed(r) \/ PlaceRecordFailed(r)
  <2>1. /\ \/ /\ place[r] = "recordChargeFailed"
              /\ place' = [place EXCEPT ![r] = "paymentFailed"]
           \/ /\ place[r] = "recordFailed"
              /\ place' = [place EXCEPT ![r] = "placeFailed"]
        /\ Record(r, "pending", "failed", "system")
        /\ UNCHANGED <<db, stripe, shop>>
    BY <1>10 DEF PlaceRecordChargeFailed, PlaceRecordFailed
  <2>2. Purchase(r)' /\ Onward(r)
    BY <1>1, <2>1 DEF Purchase, Onward, Exists, Unopened, BeforeShop, PlaceRunning, TypeOK
  <2>3. TimelineIsLegal'
    BY <1>1, <2>1, TimelineKept, PlaceAndCancelEdges DEF RowStatus, Status, Source
  <2>4. KeysAreUnique'
    BY <2>1, PlaceKeys DEF Exists
  <2> QED
    BY <1>1, <1>2, <1>3, <2>1, <2>2, <2>3, <2>4, PlaceFrame DEF TypeOK, Exists
<1>11. CASE PlaceShop(r)
  <2>1. Purchase(r)' /\ Onward(r)
    BY <1>1, <1>11 DEF PlaceShop, AfterShopFailure, Purchase, Onward, Exists, Unopened,
       BeforeShop, PlaceRunning, TypeOK
  <2>2. TimelineIsLegal' /\ KeysAreUnique'
    BY <1>1, <1>11, PlaceKeys DEF PlaceShop, TimelineIsLegal, Exists
  <2> QED
    BY <1>1, <1>2, <1>3, <1>11, <2>1, <2>2, PlaceFrame DEF PlaceShop, TypeOK, Exists
<1>12. CASE PlaceSaveOrdered(r)
  <2>1. \/ /\ place' = [place EXCEPT ![r] = "recordOrdered"]
           /\ db'[r].status = "ordered" /\ db'[r].intent = db[r].intent /\ db'[r].ref = TRUE
        \/ UNCHANGED db /\ place' = [place EXCEPT ![r] = AfterShopFailure]
    BY <1>1, <1>12, SaveOrderedEffect DEF PlaceSaveOrdered
  <2>2. \A o \in Rows \ {r} : db'[o] = db[o]
    BY <1>1, <1>12, SaveOrderedEffect DEF PlaceSaveOrdered
  <2>3. place[r] = "saveOrdered" /\ UNCHANGED <<timeline, stripe, shop>>
    BY <1>12 DEF PlaceSaveOrdered
  <2>4. Purchase(r)' /\ Onward(r) /\ (Exists(r)' <=> Exists(r))
    BY <1>1, <2>1, <2>3 DEF AfterShopFailure, Purchase, Onward, Exists, Unopened, BeforeShop,
       PlaceRunning, TypeOK
  <2>5. TimelineIsLegal' /\ KeysAreUnique'
    BY <1>1, <2>2, <2>3, <2>4, PlaceKeys DEF TimelineIsLegal
  <2> QED
    BY <1>1, <1>2, <1>3, <2>1, <2>2, <2>3, <2>4, <2>5, PlaceFrame DEF TypeOK
<1>13. CASE PlaceRecordOrdered(r)
  <2>1. Purchase(r)' /\ Onward(r)
    BY <1>1, <1>13 DEF PlaceRecordOrdered, AfterShopFailure, Purchase, Onward, Exists,
       Unopened, BeforeShop, PlaceRunning, TypeOK
  <2>2. TimelineIsLegal'
    <3>1. CASE Record(r, "pending", "ordered", "system")
      BY <1>1, <3>1, TimelineKept, PlaceAndCancelEdges DEF RowStatus, Status, Source
    <3>2. CASE UNCHANGED timeline
      BY <1>1, <3>2 DEF TimelineIsLegal
    <3> QED
      BY <1>13, <3>1, <3>2 DEF PlaceRecordOrdered
  <2>3. KeysAreUnique'
    BY <1>13, PlaceKeys DEF PlaceRecordOrdered, Exists
  <2> QED
    BY <1>1, <1>2, <1>3, <1>13, <2>1, <2>2, <2>3, PlaceFrame DEF PlaceRecordOrdered, TypeOK, Exists
<1>14. CASE PlaceRefund(r)
  <2>1. Purchase(r)' /\ Onward(r)
    BY <1>1, <1>14 DEF PlaceRefund, Purchase, Onward, Exists, Unopened, BeforeShop,
       PlaceRunning, TypeOK
  <2>2. TimelineIsLegal' /\ KeysAreUnique'
    BY <1>1, <1>14, PlaceKeys DEF PlaceRefund, TimelineIsLegal, Exists
  <2> QED
    BY <1>1, <1>2, <1>3, <1>14, <2>1, <2>2, PlaceFrame DEF PlaceRefund, TypeOK, Exists
<1> QED
  BY <1>4, <1>5, <1>6, <1>7, <1>8, <1>9, <1>10, <1>11, <1>12, <1>13, <1>14 DEF PlaceStep

-----------------------------------------------------------------------------
(* Steps of the manual entries and of the other calls.                     *)

LEMMA ManualStepInv ==
  ASSUME IInv, NEW e \in Entries, ManualCreate(e) \/ ManualRecord(e) PROVE IInv'
<1>1. e \in Rows /\ e \notin Requests
  BY OrdersAssumption DEF Rows
<1>2. TypeOK'
  BY ManualStepType DEF IInv
<1>3. UNCHANGED <<stripe, shop, place, task>>
  BY DEF ManualCreate, ManualRecord
<1>4. /\ \A o \in Rows \ {e} : db'[o] = db[o]
      /\ db'[e].intent = FALSE /\ db'[e].ref = FALSE
      /\ Exists(e) => Exists(e)'
  <2>1. ASSUME NEW s \in Trackable
        PROVE NewRow(s).status = s /\ NewRow(s).intent = FALSE /\ NewRow(s).ref = FALSE
              /\ NewRow(s).status # "none"
    BY DEF NewRow, Trackable
  <2>2. CASE ManualCreate(e)
    <3>1. PICK s \in Trackable : db' = [db EXCEPT ![e] = NewRow(s)]
      BY <2>2 DEF ManualCreate
    <3>2. /\ \A o \in Rows \ {e} : db'[o] = db[o]
          /\ db'[e] = NewRow(s)
      BY <1>1, <3>1 DEF IInv, TypeOK
    <3> QED
      BY <2>1, <3>2 DEF Exists
  <2>3. CASE ManualRecord(e)
    BY <2>3 DEF ManualRecord, Exists, IInv, RetailRows
  <2> QED
    BY <2>2, <2>3
<1>5. RetailRows'
  BY <1>1, <1>3, <1>4 DEF IInv, RetailRows, TaskAt, Rows
<1>6. \A r \in Requests : SameRow(r) /\ SamePurchase(r) /\ Onward(r)
  BY <1>1, <1>3, <1>4 DEF SameRow, SamePurchase, Onward, Rows
<1>7. KeysAreUnique' /\ \A r \in Requests : Purchase(r)'
  BY <1>3, <1>6, KeysKept, PurchaseKept DEF IInv
<1>8. ASSUME NEW t \in Tasks PROVE Call(t)' /\ Cancelling(t)' /\ Edge(t)'
  <2>1. Exists(task[t].row) => Exists(task[t].row)'
    BY <1>3, <1>4, TaskFields DEF IInv, Exists
  <2> QED
    BY <1>3, <1>6, <2>1, CallKept DEF IInv
<1>9. TimelineIsLegal'
  <2>1. CASE ManualCreate(e)
    BY <2>1 DEF ManualCreate, IInv, TimelineIsLegal
  <2>2. CASE ManualRecord(e)
    BY <1>1, <2>2, TimelineKept DEF ManualRecord, IInv, RowStatus, Status, Source, Trackable
  <2> QED
    BY <2>1, <2>2
<1> QED
  BY <1>2, <1>5, <1>7, <1>8, <1>9 DEF IInv

(* A step of one call opens no row and begins no purchase: what is left to *)
(* show is about that call and the timeline.                               *)
LEMMA TaskFrame ==
  ASSUME IInv, NEW t \in Tasks, TypeOK', UNCHANGED place, TimelineIsLegal',
         \A o \in Rows : SameRow(o),
         \A r \in Requests : SamePurchase(r) /\ Onward(r),
         \A u \in Tasks \ {t} : task'[u] = task[u],
         Call(t)', Cancelling(t)', Edge(t)',
         task'[t].seen.intent \/ task'[t].seen.ref => task'[t].row \in Requests,
         TaskAt(t, "poll", "poll")' => task'[t].seen.ref
  PROVE  IInv'
<1>1. RetailRows'
  BY DEF IInv, RetailRows, SameRow, Rows, TaskAt
<1>2. KeysAreUnique' /\ \A r \in Requests : Purchase(r)'
  BY KeysKept, PurchaseKept DEF IInv, Rows
<1>3. ASSUME NEW u \in Tasks PROVE Call(u)' /\ Cancelling(u)' /\ Edge(u)'
  <2>1. CASE u = t
    BY <2>1
  <2>2. CASE u # t
    <3>1. Exists(task[u].row) => Exists(task[u].row)'
      BY <2>2, TaskFields DEF IInv, Exists, SameRow
    <3> QED
      BY <2>2, <3>1, CallKept DEF IInv
  <2> QED
    BY <2>1, <2>2
<1> QED
  BY <1>1, <1>2, <1>3 DEF IInv

(* A call that begins sees an existing row, and sees it as it is.          *)
LEMMA TaskStartInv ==
  ASSUME IInv, NEW t \in Tasks, TaskStart(t) PROVE IInv'
<1>1. TypeOK'
  BY TaskStartType DEF IInv
<1>2. UNCHANGED <<db, age, timeline, gift, stripe, shop, shopAge, place, entry, faults>>
  BY DEF TaskStart, CancelRead, PollSelect, MarkRead, WebhookRead, TrackRead
<1>3. PICK o \in Rows :
        /\ Exists(o)
        /\ \A u \in Tasks \ {t} : task'[u] = task[u]
        /\ task'[t].row = o /\ task'[t].seen = db[o]
        /\ task'[t].op = "cancel" =>
             /\ task'[t].to = "cancelled"
             /\ \/ task'[t].pc = "refused"
                \/ /\ db[o].status \in {"pending", "ordered"}
                   /\ task'[t].pc = IF db[o].intent THEN "refund" ELSE "shop"
        /\ task'[t].op = "poll" => task'[t].pc = "poll" /\ db[o].ref
        /\ task'[t].op = "webhook" => task'[t].pc = NextPc(o, task'[t].to)
  <2> USE BeginEffect DEF TaskPc, TaskRunning, TaskDone, Op, Status, Trackable, IInv, Exists
  <2>1. PICK o \in Rows :
          \/ CancelRead(t, o) \/ PollSelect(t, o) \/ MarkRead(t, o)
          \/ \E to \in Status : WebhookRead(t, o, to)
          \/ \E to \in Trackable : TrackRead(t, o, to)
    BY DEF TaskStart
  <2> DEFINE Goal ==
        /\ Exists(o)
        /\ \A u \in Tasks \ {t} : task'[u] = task[u]
        /\ task'[t].row = o /\ task'[t].seen = db[o]
        /\ task'[t].op = "cancel" =>
             /\ task'[t].to = "cancelled"
             /\ \/ task'[t].pc = "refused"
                \/ /\ db[o].status \in {"pending", "ordered"}
                   /\ task'[t].pc = IF db[o].intent THEN "refund" ELSE "shop"
        /\ task'[t].op = "poll" => task'[t].pc = "poll" /\ db[o].ref
        /\ task'[t].op = "webhook" => task'[t].pc = NextPc(o, task'[t].to)
  <2>2. ASSUME CancelRead(t, o) PROVE Goal
    BY <2>2 DEF CancelRead
  <2>3. ASSUME PollSelect(t, o) PROVE Goal
    BY <2>3 DEF PollSelect
  <2>4. ASSUME MarkRead(t, o) PROVE Goal
    BY <2>4 DEF MarkRead
  <2>5. ASSUME NEW to \in Status, WebhookRead(t, o, to) PROVE Goal
    BY <2>5 DEF WebhookRead, NextPc
  <2>6. ASSUME NEW to \in Trackable, TrackRead(t, o, to) PROVE Goal
    BY <2>6 DEF TrackRead
  <2>7. ASSUME CancelRead(t, o) \/ PollSelect(t, o) \/ MarkRead(t, o) PROVE Goal
    BY <2>2, <2>3, <2>4, <2>7
  <2>8. Goal
    <3> HIDE DEF Goal
    <3> QED
      BY ONLY <2>1, <2>5, <2>6, <2>7
  <2> QED
    BY ONLY <2>8
<1>4. \A p \in Rows : SameRow(p)
  BY <1>2 DEF SameRow
<1>5. \A r \in Requests : SamePurchase(r) /\ Onward(r)
  BY <1>2 DEF SamePurchase, Onward
<1>6. db[o].intent \/ db[o].ref => o \in Requests /\ Purchase(o)
  BY DEF IInv, RetailRows, Rows
<1>7. Call(t)'
  BY <1>2, <1>3, <1>6 DEF Call, Exists, Purchase
<1>8. Cancelling(t)' /\ Edge(t)'
  <2>1. CASE task'[t].op = "cancel"
    BY <1>2, <1>3, <1>6, <2>1 DEF Cancelling, Edge
  <2>2. CASE task'[t].op = "webhook"
    BY <1>3, <2>2 DEF Cancelling, Edge, NextPc, Exists
  <2>3. CASE task'[t].op \notin {"cancel", "webhook"}
    BY <1>3, <2>3 DEF Cancelling, Edge
  <2> QED
    BY <2>1, <2>2, <2>3
<1>9. TimelineIsLegal'
  BY <1>2 DEF IInv, TimelineIsLegal
<1> QED
  BY <1>1, <1>2, <1>3, <1>4, <1>5, <1>6, <1>7, <1>8, <1>9, TaskFrame DEF TaskAt

(* What every further step of a call leaves alone.                         *)
LEMMA TaskStepFrame ==
  ASSUME IInv, NEW t \in Tasks, TaskStep(t)
  PROVE  /\ UNCHANGED place
         /\ \A o \in Rows : SameRow(o)
         /\ \A u \in Tasks \ {t} : task'[u] = task[u]
         /\ task'[t].op = task[t].op /\ task'[t].row = task[t].row
         /\ task'[t].op \notin {"poll"} => task'[t].seen = task[t].seen /\ task'[t].to = task[t].to
         /\ task[t].pc # "idle"
<1>0. TypeOK
  BY DEF IInv
<1>1. Exists(task[t].row) /\ task[t].pc # "idle"
  BY DEF IInv, Call, TaskStep, CancelRefund, CancelShop, CancelWrite, CancelRecord, PollAsk,
     PollTransition, TransitionWrite, TransitionRecord, MarkWrite, TaskAt
<1>2. UNCHANGED place
  BY DEF TaskStep, CancelRefund, CancelShop, CancelWrite, CancelRecord, PollAsk,
     PollTransition, TransitionWrite, TransitionRecord, MarkWrite
<1>3. \A o \in Rows : SameRow(o)
  <2>1. ASSUME NEW s \in Status, SetStatus(task[t].row, s) PROVE \A o \in Rows : SameRow(o)
    BY <1>0, <1>1, <2>1, SetStatusEffect, TaskFields DEF SameRow, Exists, Status
  <2>2. ASSUME UNCHANGED db PROVE \A o \in Rows : SameRow(o)
    BY <2>2 DEF SameRow
  <2>3. \/ UNCHANGED db
        \/ \E s \in Status : SetStatus(task[t].row, s)
    BY <1>0, TaskFields DEF TaskStep, CancelRefund, CancelShop, CancelWrite, CancelRecord,
       PollAsk, PollTransition, TransitionWrite, TransitionRecord, MarkWrite, Status
  <2> QED
    BY <2>1, <2>2, <2>3
<1>4. /\ \A u \in Tasks \ {t} : task'[u] = task[u]
      /\ task'[t].op = task[t].op /\ task'[t].row = task[t].row
      /\ task'[t].op \notin {"poll"} => task'[t].seen = task[t].seen /\ task'[t].to = task[t].to
  <2>1. CASE \E pc \in TaskPc : TaskGo(t, pc)
    BY <1>0, <2>1, TaskGoEffect
  <2>2. CASE PollAsk(t)
    BY <1>0, <2>2, AnswerEffect, ShopStatusType, TaskFields
    DEF PollAsk, TaskAt, IInv, RetailRows, TaskPc, TaskRunning, TaskDone
  <2>3. CASE PollTransition(t)
    BY <1>0, <2>3, RereadEffect DEF PollTransition, TaskAt, NextPc, TaskPc, TaskRunning, TaskDone
  <2>4. (\E pc \in TaskPc : TaskGo(t, pc)) \/ PollAsk(t) \/ PollTransition(t)
    BY DEF TaskStep, CancelRefund, CancelShop, CancelWrite, CancelRecord,
       TransitionWrite, TransitionRecord, MarkWrite, TaskPc, TaskRunning, TaskDone
  <2> QED
    BY <2>1, <2>2, <2>3, <2>4
<1> QED
  BY <1>1, <1>2, <1>3, <1>4

LEMMA TaskStepInv ==
  ASSUME IInv, NEW t \in Tasks, TaskStep(t) PROVE IInv'
<1> DEFINE o == task[t].row
<1>0. TypeOK /\ TimelineIsLegal /\ Call(t) /\ Cancelling(t) /\ Edge(t)
  BY DEF IInv
<1>1. TypeOK'
  BY TaskStepType DEF IInv
<1>2. /\ UNCHANGED place
      /\ \A p \in Rows : SameRow(p)
      /\ \A u \in Tasks \ {t} : task'[u] = task[u]
      /\ task'[t].op = task[t].op /\ task'[t].row = o
      /\ task'[t].op # "poll" => task'[t].seen = task[t].seen /\ task'[t].to = task[t].to
      /\ Exists(o)' /\ Exists(o) /\ o \in Rows
  BY <1>0, TaskStepFrame, TaskFields DEF Call, SameRow, Exists
<1>3. task[t].seen.intent \/ task[t].seen.ref => o \in Requests
  BY DEF IInv, RetailRows
<1>4. CASE CancelRefund(t)
  <2>1. /\ task[t].op = "cancel" /\ task[t].pc = "refund" /\ UNCHANGED <<timeline, shop>>
        /\ \/ /\ stripe[o] = "charged" /\ stripe' = [stripe EXCEPT ![o] = "refunded"]
              /\ task'[t].pc = "shop"
           \/ UNCHANGED stripe /\ task'[t].pc = "refundFailed"
    BY <1>0, <1>4, TaskGoEffect DEF CancelRefund, TaskAt, TaskPc, TaskRunning, TaskDone
  <2>2. o \in Requests
    BY <1>0, <1>3, <2>1 DEF Cancelling
  <2>3. \A r \in Requests : SamePurchase(r) /\ Onward(r)
    BY <1>0, <2>1, <2>2 DEF SamePurchase, Onward, TypeOK
  <2>4. Call(t)' /\ Cancelling(t)' /\ Edge(t)'
    BY <1>0, <1>2, <2>1, <2>2 DEF Call, Cancelling, Edge, TypeOK
  <2>5. TimelineIsLegal'
    BY <1>0, <2>1 DEF TimelineIsLegal
  <2> QED
    BY <1>1, <1>2, <1>3, <2>1, <2>3, <2>4, <2>5, TaskFrame DEF TaskAt
<1>5. CASE CancelShop(t)
  <2>1. /\ task[t].op = "cancel" /\ task[t].pc = "shop" /\ UNCHANGED <<timeline, stripe>>
        /\ \/ /\ ~(task[t].seen.ref /\ shop[o] \in {"ordered", "cancelled"})
              /\ UNCHANGED shop /\ task'[t].pc = "write"
           \/ /\ task[t].seen.ref /\ shop[o] \in {"ordered", "cancelled"}
              /\ shop' = [shop EXCEPT ![o] = "cancelled"] /\ task'[t].pc = "write"
           \/ UNCHANGED shop /\ task'[t].pc = "cancelFailed"
    BY <1>0, <1>5, TaskGoEffect DEF CancelShop, TaskAt, TaskPc, TaskRunning, TaskDone
  <2>2. \A r \in Requests : SamePurchase(r) /\ Onward(r)
    BY <1>0, <1>3, <2>1 DEF SamePurchase, Onward, TypeOK
  <2>3. Call(t)' /\ Cancelling(t)' /\ Edge(t)'
    BY <1>0, <1>2, <1>3, <2>1 DEF Call, Cancelling, Edge, TypeOK
  <2>4. TimelineIsLegal'
    BY <1>0, <2>1 DEF TimelineIsLegal
  <2> QED
    BY <1>1, <1>2, <1>3, <2>1, <2>2, <2>3, <2>4, TaskFrame DEF TaskAt
<1>6. CASE CancelWrite(t) \/ CancelRecord(t)
  <2>1. /\ task[t].op = "cancel" /\ UNCHANGED <<stripe, shop>>
        /\ \/ task[t].pc = "write" /\ task'[t].pc = "record" /\ UNCHANGED timeline
           \/ /\ task[t].pc = "record" /\ task'[t].pc = "ok"
              /\ Record(o, task[t].seen.status, "cancelled", "system")
    BY <1>0, <1>6, TaskGoEffect DEF CancelWrite, CancelRecord, TaskAt, TaskPc, TaskRunning, TaskDone
  <2>2. \A r \in Requests : SamePurchase(r) /\ Onward(r)
    BY <2>1 DEF SamePurchase, Onward
  <2>3. Call(t)' /\ Cancelling(t)' /\ Edge(t)'
    BY <1>0, <1>2, <2>1 DEF Call, Cancelling, Edge
  <2>4. TimelineIsLegal'
    <3>1. CASE UNCHANGED timeline
      BY <1>0, <3>1 DEF TimelineIsLegal
    <3>2. CASE Record(o, task[t].seen.status, "cancelled", "system") /\ task[t].pc = "record"
      <4>1. task[t].seen.status \in {"pending", "ordered"}
        BY <1>0, <2>1, <3>2 DEF Edge
      <4> QED
        BY <1>0, <1>2, <3>2, <4>1, TimelineKept, PlaceAndCancelEdges DEF RowStatus, Status, Source
    <3> QED
      BY <2>1, <3>1, <3>2
  <2> QED
    BY <1>1, <1>2, <1>3, <2>1, <2>2, <2>3, <2>4, TaskFrame DEF TaskAt
<1>7. CASE PollAsk(t)
  <2>1. /\ task[t].op = "poll" /\ task[t].pc = "poll" /\ UNCHANGED <<timeline, stripe, shop>>
        /\ task'[t].pc \in {"ignored", "transition"} /\ task'[t].seen = task[t].seen
    BY <1>0, <1>7, AnswerEffect, ShopStatusType, TaskFields
    DEF PollAsk, TaskAt, IInv, RetailRows, TaskPc, TaskRunning, TaskDone
  <2>2. \A r \in Requests : SamePurchase(r) /\ Onward(r)
    BY <2>1 DEF SamePurchase, Onward
  <2>3. Call(t)' /\ Cancelling(t)' /\ Edge(t)'
    BY <1>0, <1>2, <2>1 DEF Call, Cancelling, Edge
  <2>4. TimelineIsLegal'
    BY <1>0, <2>1 DEF TimelineIsLegal
  <2> QED
    BY <1>1, <1>2, <1>3, <2>1, <2>2, <2>3, <2>4, TaskFrame DEF TaskAt
<1>8. CASE PollTransition(t)
  <2>1. /\ task[t].op = "poll" /\ UNCHANGED <<timeline, stripe, shop>>
        /\ task'[t].pc = NextPc(o, task'[t].to) /\ task'[t].seen = db[o]
    BY <1>0, <1>8, RereadEffect DEF PollTransition, TaskAt, NextPc, TaskPc, TaskRunning, TaskDone
  <2>2. \A r \in Requests : SamePurchase(r) /\ Onward(r)
    BY <2>1 DEF SamePurchase, Onward
  <2>3. db[o].intent \/ db[o].ref => o \in Requests /\ Purchase(o)
    BY <1>2 DEF IInv, RetailRows, Rows
  <2>4. Call(t)' /\ Cancelling(t)' /\ Edge(t)'
    <3>1. Call(t)'
      BY <1>2, <2>1, <2>3 DEF Call, Purchase
    <3>2. Cancelling(t)' /\ Edge(t)'
      BY <1>2, <2>1 DEF Cancelling, Edge, NextPc, Exists
    <3> QED
      BY <3>1, <3>2
  <2>5. TimelineIsLegal'
    BY <1>0, <2>1 DEF TimelineIsLegal
  <2> QED
    BY <1>1, <1>2, <2>1, <2>2, <2>3, <2>4, <2>5, TaskFrame DEF TaskAt, NextPc
<1>9. CASE TransitionWrite(t) \/ TransitionRecord(t)
  <2>1. /\ task[t].op \in {"webhook", "poll", "track"} /\ UNCHANGED <<stripe, shop>>
        /\ task'[t].seen = task[t].seen /\ task'[t].to = task[t].to
        /\ \/ task[t].pc = "write" /\ task'[t].pc = "record" /\ UNCHANGED timeline
           \/ /\ task[t].pc = "record" /\ task'[t].pc = "ok"
              /\ Record(o, task[t].seen.status, task[t].to, SourceOf(task[t].op))
    BY <1>0, <1>9, TaskGoEffect DEF TransitionWrite, TransitionRecord, TaskPc, TaskRunning, TaskDone
  <2>2. \A r \in Requests : SamePurchase(r) /\ Onward(r)
    BY <2>1 DEF SamePurchase, Onward
  <2>3. Call(t)' /\ Cancelling(t)' /\ Edge(t)'
    BY <1>0, <1>2, <2>1 DEF Call, Cancelling, Edge
  <2>4. TimelineIsLegal'
    <3>1. CASE UNCHANGED timeline
      BY <1>0, <3>1 DEF TimelineIsLegal
    <3>2. CASE /\ Record(o, task[t].seen.status, task[t].to, SourceOf(task[t].op))
               /\ task[t].pc = "record"
      <4>1. task[t].seen.status \in RowStatus /\ task[t].to \in Status
        BY <1>0, TaskFields DEF Row
      <4>2. SourceOf(task[t].op) \in Source
            /\ (task[t].op = "track" => SourceOf(task[t].op) = "manual")
        BY <2>1 DEF SourceOf, Source
      <4>3. task[t].op # "track" =>
              task[t].seen.status # "none" /\ task[t].to \in ValidTransitions[task[t].seen.status]
        BY <1>0, <2>1, <3>2 DEF Edge
      <4> QED
        BY <1>0, <1>2, <3>2, <4>1, <4>2, <4>3, TimelineKept
    <3> QED
      BY <2>1, <3>1, <3>2
  <2> QED
    BY <1>1, <1>2, <1>3, <2>1, <2>2, <2>3, <2>4, TaskFrame DEF TaskAt
<1>10. CASE MarkWrite(t)
  <2>1. /\ task[t].op = "mark" /\ UNCHANGED <<timeline, stripe, shop>> /\ task'[t].pc = "ok"
    BY <1>0, <1>10, TaskGoEffect DEF MarkWrite, TaskAt, TaskPc, TaskDone
  <2>2. \A r \in Requests : SamePurchase(r) /\ Onward(r)
    BY <2>1 DEF SamePurchase, Onward
  <2>3. Call(t)' /\ Cancelling(t)' /\ Edge(t)'
    BY <1>0, <1>2, <2>1 DEF Call, Cancelling, Edge
  <2>4. TimelineIsLegal'
    BY <1>0, <2>1 DEF TimelineIsLegal
  <2> QED
    BY <1>1, <1>2, <1>3, <2>1, <2>2, <2>3, <2>4, TaskFrame DEF TaskAt
<1> QED
  BY <1>4, <1>5, <1>6, <1>7, <1>8, <1>9, <1>10 DEF TaskStep

-----------------------------------------------------------------------------
(* Time, failures and restarts: calls may stop, nothing is undone.         *)

LEMMA FaultFrame ==
  ASSUME IInv, TypeOK', UNCHANGED <<db, timeline, stripe>>,
         \A r \in Requests :
           /\ place'[r] = place[r] \/ place'[r] = "dead"
           /\ (shop'[r] = "none") <=> (shop[r] = "none")
           /\ shop[r] \in {"cancelled", "forgotten"} => shop'[r] \in {"cancelled", "forgotten"},
         \A t \in Tasks :
           \/ task'[t] = task[t]
           \/ /\ task'[t].pc = "dead" /\ task'[t].op = task[t].op /\ task[t].pc # "idle"
              /\ task'[t].row = task[t].row /\ task'[t].seen = task[t].seen
              /\ task'[t].to = task[t].to
  PROVE  IInv'
<1>1. \A o \in Rows : SameRow(o)
  BY DEF SameRow
<1>2. \A r \in Requests : SamePurchase(r) /\ Onward(r)
  BY DEF SamePurchase, Onward
<1>3. KeysAreUnique' /\ \A r \in Requests : Purchase(r)'
  BY <1>1, <1>2, KeysKept, PurchaseKept DEF IInv, Rows
<1>4. RetailRows'
  BY <1>1, RetailRowsKept DEF IInv, Rows
<1>5. ASSUME NEW t \in Tasks PROVE Call(t)' /\ Cancelling(t)' /\ Edge(t)'
  <2>1. Exists(task[t].row) => Exists(task[t].row)'
    BY DEF Exists
  <2> QED
    BY <1>2, <2>1, CallKept DEF IInv
<1>6. TimelineIsLegal'
  BY DEF IInv, TimelineIsLegal
<1> QED
  BY <1>3, <1>4, <1>5, <1>6 DEF IInv

LEMMA FaultInv ==
  ASSUME IInv,
         \/ \E o \in Rows : Tick(o)
         \/ \E r \in Requests : PlaceAbandon(r)
         \/ \E t \in Tasks : TaskAbandon(t)
         \/ Restart
         \/ UNCHANGED vars
  PROVE  IInv'
<1>0. TypeOK
  BY DEF IInv
<1>1. TypeOK'
  BY <1>0, TickType, PlaceAbandonType, TaskAbandonType, RestartType DEF TypeOK, vars
<1>2. CASE (\E o \in Rows : Tick(o)) \/ UNCHANGED vars
  BY <1>1, <1>2, FaultFrame DEF Tick, vars
<1>3. CASE \E r \in Requests : PlaceAbandon(r)
  <2>1. UNCHANGED <<db, timeline, stripe, shop, task>>
        /\ \A r \in Requests : place'[r] = place[r] \/ place'[r] = "dead"
    BY <1>0, <1>3 DEF PlaceAbandon, PlaceGo, TypeOK
  <2> QED
    BY <1>1, <2>1, FaultFrame
<1>4. CASE \E t \in Tasks : TaskAbandon(t)
  <2>1. PICK t \in Tasks : TaskAbandon(t)
    BY <1>4
  <2>2. UNCHANGED <<db, timeline, stripe, shop, place>>
    BY <2>1 DEF TaskAbandon
  <2>3. /\ \A u \in Tasks : u # t => task'[u] = task[u]
        /\ task'[t].pc = "dead" /\ task'[t].op = task[t].op /\ task[t].pc # "idle"
        /\ task'[t].row = task[t].row /\ task'[t].seen = task[t].seen
        /\ task'[t].to = task[t].to
    BY <1>0, <2>1, TaskGoEffect DEF TaskAbandon, TaskPc, TaskDone, TaskRunning
  <2> QED
    BY <1>1, <2>2, <2>3, FaultFrame
<1>5. CASE Restart
  <2>1. \A t \in Tasks :
           \/ task'[t] = task[t]
           \/ /\ task'[t].pc = "dead" /\ task'[t].op = task[t].op /\ task[t].pc # "idle"
              /\ task'[t].row = task[t].row /\ task'[t].seen = task[t].seen
              /\ task'[t].to = task[t].to
    BY <1>0, <1>5, StoppedEffect DEF Restart, TypeOK, TaskRunning
  <2>2. /\ UNCHANGED <<db, timeline, stripe>>
        /\ \A r \in Requests :
             /\ place'[r] = place[r] \/ place'[r] = "dead"
             /\ (shop'[r] = "none") <=> (shop[r] = "none")
             /\ shop[r] \in {"cancelled", "forgotten"} => shop'[r] \in {"cancelled", "forgotten"}
    BY <1>5 DEF Restart
  <2> QED
    BY <1>1, <2>1, <2>2, FaultFrame
<1> QED
  BY <1>2, <1>3, <1>4, <1>5

-----------------------------------------------------------------------------
(* The theorems.                                                           *)

LEMMA InitInv == Init => IInv
<1> SUFFICES ASSUME Init PROVE IInv
  OBVIOUS
<1>1. TypeOK
  BY InitType
<1>2. \A o \in Rows : db[o] = NoRow /\ timeline[o] = {}
  BY DEF Init
<1>3. \A r \in Requests : db[r] = NoRow
  BY <1>2 DEF Rows
<1>4. \A e \in Entries : db[e] = NoRow
  BY <1>2 DEF Rows
<1>5. NoRow.status = "none" /\ NoRow.intent = FALSE /\ NoRow.ref = FALSE
  BY DEF NoRow, NewRow
<1>6. \A t \in Tasks : task[t].seen = NoRow /\ task[t].op = "none" /\ task[t].pc = "idle"
  BY DEF Init, IdleTask
<1>7. RetailRows
  BY <1>4, <1>5, <1>6 DEF RetailRows, TaskAt
<1>8. KeysAreUnique /\ \A r \in Requests : Purchase(r)
  BY <1>3, <1>5 DEF Init, KeysAreUnique, Purchase, Exists, Unopened, BeforeShop, PlaceRunning
<1>9. \A t \in Tasks : Call(t) /\ Cancelling(t) /\ Edge(t)
  BY <1>5, <1>6 DEF Call, Cancelling, Edge
<1>10. TimelineIsLegal
  BY <1>2 DEF TimelineIsLegal
<1> QED
  BY <1>1, <1>7, <1>8, <1>9, <1>10 DEF IInv

LEMMA NextInv == IInv /\ [Next]_vars => IInv'
<1> SUFFICES ASSUME IInv, [Next]_vars PROVE IInv'
  OBVIOUS
<1> QED
  BY PlaceStepInv, ManualStepInv, TaskStartInv, TaskStepInv, FaultInv DEF Next

(* The invariant holds in every state the handlers can reach.              *)
THEOREM Invariance == Spec => []IInv
BY InitInv, NextInv, PTL DEF Spec

(* Type correctness of the order life cycle.                               *)
THEOREM TypeCorrect == Spec => []TypeOK
<1>1. IInv => TypeOK
  BY DEF IInv
<1> QED
  BY <1>1, Invariance, PTL

(* Whatever the retailer holds for a paying customer can be refunded by    *)
(* cancel(): its PaymentIntent is on the row, for any number of requests,  *)
(* calls, keys and faults.                                                 *)
THEOREM PurchasesStayRefundable == Spec => []GoodsAreRefundable
<1>1. IInv => GoodsAreRefundable
  BY DEF IInv, GoodsAreRefundable, Purchase
<1> QED
  BY <1>1, Invariance, PTL

(* A successful cancel of an order it knew the retailer id of has undone   *)
(* the purchase at Stripe and at the retailer, and it stays undone.        *)
THEOREM CancelsUndo == Spec => []CancelUndoesPurchase
<1>1. IInv => CancelUndoesPurchase
  BY DEF IInv, CancelUndoesPurchase, Cancelling, Call
<1> QED
  BY <1>1, Invariance, PTL

(* The timeline shows openings, edges of VALID_TRANSITIONS and changes     *)
(* made by hand, however the handlers interleave.                          *)
THEOREM TimelinesAreLegal == Spec => []TimelineIsLegal
<1>1. IInv => TimelineIsLegal
  BY DEF IInv
<1> QED
  BY <1>1, Invariance, PTL

-----------------------------------------------------------------------------
(* place() implements the ledger of PurchaseLedger.                        *)

(* The ledger's state: who has paid, was repaid and has bought, by key.    *)
Payers(k) == {q \in Under(k) : stripe[q] # "none"}
Repaid(k) == {q \in Under(k) : stripe[q] = "refunded"}
Buyers(k) == {q \in Under(k) : shop[q] # "none"}

(* A step that charges nobody, refunds nobody and buys nothing stutters.   *)
LEMMA LedgerStutter ==
  ASSUME \A r \in Requests : /\ (stripe'[r] = "none") <=> (stripe[r] = "none")
                             /\ (stripe'[r] = "refunded") <=> (stripe[r] = "refunded")
                             /\ (shop'[r] = "none") <=> (shop[r] = "none")
  PROVE  UNCHANGED Ledger!ledger
BY DEF Ledger!ledger, Under

(* With one owner per key, nobody else under the key has paid or bought.   *)
LEMMA OneOwner ==
  ASSUME IInv, NEW r \in Requests, Exists(r), NEW q \in Under(KeyOf[r]), q # r
  PROVE  stripe[q] = "none" /\ shop[q] = "none"
BY DEF IInv, KeysAreUnique, Purchase, Under

LEMMA LedgerCharge ==
  ASSUME IInv, NEW r \in Requests, place[r] = "charge",
         stripe' = [stripe EXCEPT ![r] = "charged"], UNCHANGED shop
  PROVE  Ledger!Charge(KeyOf[r], r)
<1> DEFINE k == KeyOf[r]
<1>1. Exists(r) /\ stripe[r] = "none" /\ shop[r] = "none" /\ k \in Keys /\ TypeOK
  BY OrdersAssumption DEF IInv, Purchase, PlaceRunning, BeforeShop
<1>2. \A q \in Under(k) : stripe[q] = "none" /\ shop[q] = "none"
  BY <1>1, OneOwner
<1>3. Payers(k) = {} /\ Buyers(k) = {}
  BY <1>2 DEF Payers, Buyers
<1>4. Payers(k)' = {r}
  BY <1>1, <1>2 DEF Payers, Under, TypeOK
<1>5. \A j \in Keys \ {k} : Payers(j)' = Payers(j)
  BY <1>1 DEF Payers, Under, TypeOK
<1>6. \A q \in Requests : (stripe'[q] = "refunded") <=> (stripe[q] = "refunded")
  BY <1>1 DEF TypeOK
<1>7. \A j \in Keys : Repaid(j)' = Repaid(j) /\ Buyers(j)' = Buyers(j)
  BY <1>6 DEF Repaid, Buyers, Under
<1>8. [j \in Keys |-> Payers(j)'] = [[j \in Keys |-> Payers(j)] EXCEPT ![k] = {r}]
  BY <1>1, <1>4, <1>5
<1> QED
  BY <1>1, <1>3, <1>7, <1>8 DEF Ledger!Charge, Payers, Repaid, Buyers

LEMMA LedgerBuy ==
  ASSUME IInv, NEW r \in Requests, place[r] = "shop",
         shop' = [shop EXCEPT ![r] = "ordered"], UNCHANGED stripe
  PROVE  Ledger!Buy(KeyOf[r], r)
<1> DEFINE k == KeyOf[r]
<1>1. Exists(r) /\ shop[r] = "none" /\ k \in Keys /\ TypeOK /\ (Charging => stripe[r] # "none")
  BY OrdersAssumption DEF IInv, Purchase, PlaceRunning, BeforeShop
<1>2. \A q \in Under(k) : shop[q] = "none"
  BY <1>1, OneOwner
<1>3. Buyers(k) = {}
  BY <1>2 DEF Buyers
<1>4. Buyers(k)' = {r}
  BY <1>1, <1>2 DEF Buyers, Under, TypeOK
<1>5. \A j \in Keys \ {k} : Buyers(j)' = Buyers(j)
  BY <1>1 DEF Buyers, Under, TypeOK
<1>6. Charging => r \in Payers(k)
  BY <1>1 DEF Payers, Under
<1>7. \A j \in Keys : Payers(j)' = Payers(j) /\ Repaid(j)' = Repaid(j)
  BY DEF Payers, Repaid, Under
<1>8. [j \in Keys |-> Buyers(j)'] = [[j \in Keys |-> Buyers(j)] EXCEPT ![k] = {r}]
  BY <1>1, <1>4, <1>5
<1> QED
  BY <1>1, <1>3, <1>6, <1>7, <1>8 DEF Ledger!Buy, Payers, Repaid, Buyers

LEMMA LedgerRefund ==
  ASSUME IInv, NEW r \in Requests, stripe[r] = "charged",
         stripe' = [stripe EXCEPT ![r] = "refunded"], UNCHANGED shop
  PROVE  Ledger!Refund(KeyOf[r], r)
<1> DEFINE k == KeyOf[r]
<1>1. k \in Keys /\ TypeOK /\ r \in Under(k)
  BY OrdersAssumption DEF IInv, Under
<1>2. \A q \in Requests : (stripe'[q] = "none") <=> (stripe[q] = "none")
  BY <1>1 DEF TypeOK
<1>3. \A j \in Keys : Payers(j)' = Payers(j) /\ Buyers(j)' = Buyers(j)
  BY <1>2 DEF Payers, Buyers, Under
<1>4. Repaid(k)' = Repaid(k) \cup {r}
  BY <1>1 DEF Repaid, TypeOK, Under
<1>5. \A j \in Keys \ {k} :
         Repaid(j)' = Repaid(j)
  BY <1>1 DEF Repaid, TypeOK, Under
<1>6. r \in Payers(k) \ Repaid(k)
  BY <1>1 DEF Payers, Repaid
<1>7. [j \in Keys |-> Repaid(j)'] = [[j \in Keys |-> Repaid(j)] EXCEPT ![k] = @ \cup {r}]
  BY <1>1, <1>4, <1>5
<1> QED
  BY <1>1, <1>3, <1>6, <1>7 DEF Ledger!Refund, Payers, Repaid, Buyers

LEMMA LedgerStep == IInv /\ [Next]_vars => [Ledger!Next]_(Ledger!ledger)
<1> SUFFICES ASSUME IInv, [Next]_vars PROVE Ledger!Next \/ UNCHANGED Ledger!ledger
  OBVIOUS
<1>0. KeyOf \in [Requests -> Keys] /\ TypeOK
  BY OrdersAssumption DEF IInv
<1>1. CASE UNCHANGED <<stripe, shop>>
  BY <1>1, LedgerStutter
<1>2. ASSUME NEW r \in Requests, PlaceCharge(r) PROVE Ledger!Next \/ UNCHANGED Ledger!ledger
  BY <1>0, <1>1, <1>2, LedgerCharge DEF PlaceCharge, PlaceAt, Ledger!Next
<1>3. ASSUME NEW r \in Requests, PlaceShop(r) PROVE Ledger!Next \/ UNCHANGED Ledger!ledger
  BY <1>0, <1>1, <1>3, LedgerBuy DEF PlaceShop, PlaceAt, Ledger!Next
<1>4. ASSUME NEW r \in Requests, PlaceRefund(r) PROVE Ledger!Next \/ UNCHANGED Ledger!ledger
  BY <1>0, <1>1, <1>4, LedgerRefund DEF PlaceRefund, Ledger!Next
<1>5. ASSUME NEW t \in Tasks, CancelRefund(t) PROVE Ledger!Next \/ UNCHANGED Ledger!ledger
  <2>1. task[t].row \in Requests
    BY <1>5 DEF IInv, RetailRows, Cancelling, CancelRefund, TaskAt
  <2> QED
    BY <1>0, <1>1, <1>5, <2>1, LedgerRefund DEF CancelRefund, Ledger!Next
<1>6. ASSUME NEW t \in Tasks, CancelShop(t) PROVE Ledger!Next \/ UNCHANGED Ledger!ledger
  <2>1. UNCHANGED stripe /\ \A r \in Requests : (shop'[r] = "none") <=> (shop[r] = "none")
    BY <1>0, <1>6 DEF CancelShop, TypeOK
  <2> QED
    BY <2>1, LedgerStutter
<1>7. CASE Restart
  <2>1. UNCHANGED stripe /\ \A r \in Requests : (shop'[r] = "none") <=> (shop[r] = "none")
    BY <1>7 DEF Restart
  <2> QED
    BY <2>1, LedgerStutter
<1>8. \/ UNCHANGED <<stripe, shop>>
      \/ Restart
      \/ \E r \in Requests : PlaceCharge(r) \/ PlaceShop(r) \/ PlaceRefund(r)
      \/ \E t \in Tasks : CancelRefund(t) \/ CancelShop(t)
  <2>1. ASSUME NEW r \in Requests, PlaceStep(r)
        PROVE UNCHANGED <<stripe, shop>> \/ PlaceCharge(r) \/ PlaceShop(r) \/ PlaceRefund(r)
    BY <2>1 DEF PlaceStep, PlaceLookup, PlaceCreate, PlaceRecordOpened, PlaceSaveIntent,
       PlaceChargeFailed, PlaceRecordChargeFailed, PlaceSaveOrdered, PlaceRecordOrdered,
       PlaceSaveFailed, PlaceRecordFailed
  <2>2. ASSUME NEW t \in Tasks, TaskStep(t)
        PROVE UNCHANGED <<stripe, shop>> \/ CancelRefund(t) \/ CancelShop(t)
    BY <2>2 DEF TaskStep, CancelWrite, CancelRecord, PollAsk, PollTransition,
       TransitionWrite, TransitionRecord, MarkWrite
  <2>3. ASSUME NEW t \in Tasks, TaskStart(t) PROVE UNCHANGED <<stripe, shop>>
    BY <2>3 DEF TaskStart, CancelRead, PollSelect, MarkRead, WebhookRead, TrackRead
  <2>4. ASSUME NEW e \in Entries, ManualCreate(e) \/ ManualRecord(e) PROVE UNCHANGED <<stripe, shop>>
    BY <2>4 DEF ManualCreate, ManualRecord
  <2>5. ASSUME \/ \E r \in Requests : PlaceAbandon(r)
               \/ \E t \in Tasks : TaskAbandon(t)
               \/ \E o \in Rows : Tick(o)
               \/ UNCHANGED vars
        PROVE  UNCHANGED <<stripe, shop>>
    BY <2>5 DEF PlaceAbandon, TaskAbandon, Tick, vars
  <2> QED
    BY <2>1, <2>2, <2>3, <2>4, <2>5 DEF Next
<1> QED
  BY <1>1, <1>2, <1>3, <1>4, <1>5, <1>6, <1>7, <1>8

LEMMA LedgerInit == Init => Ledger!Init
BY DEF Init, Ledger!Init, Ledger!Empty, Under

(* place() keeps the ledger's promise for every Idempotency-Key: at most   *)
(* one charge and one purchase, the purchase by the request that paid.     *)
THEOREM ImplementsLedger == Spec => LedgerSpec
BY LedgerInit, LedgerStep, Invariance, PTL DEF Spec, LedgerSpec, Ledger!Spec

-----------------------------------------------------------------------------
(* Every status is recorded.                                               *)

(* What the timeline of o shows, and who still owes it a row.              *)
Shown(o, s) == \E c \in timeline[o] : c.to = s

OwedByPlace(r, s) ==
  \/ s = "pending" /\ place[r] = "opened"
  \/ s = "ordered" /\ place[r] = "recordOrdered"
  \/ s = "failed"  /\ place[r] \in {"recordChargeFailed", "recordFailed"}

OwedByTask(t, o, s) == task[t].row = o /\ task[t].pc = "record" /\ task[t].to = s

Marked(t, o) == task[t].op = "mark" /\ task[t].row = o /\ task[t].pc = "ok"

Accounted(o, s) ==
  \/ Shown(o, s)
  \/ o \in Requests /\ OwedByPlace(o, s)
  \/ o \in Entries /\ entry[o] = s
  \/ \E t \in Tasks : OwedByTask(t, o, s) \/ Marked(t, o)

LEMMA RecordedIsAccounted ==
  StatusIsRecorded <=>
    (faults = 0 => \A o \in Rows : Exists(o) => Accounted(o, db[o].status))
BY DEF StatusIsRecorded, Accounted, Shown, OwedByPlace, OwedByTask, Marked, MarkedByHand, Owed

LEMMA RecordShows ==
  ASSUME TypeOK, NEW o \in Rows, NEW from, NEW to, NEW source, Record(o, from, to, source)
  PROVE  /\ \E c \in timeline'[o] : c.to = to
         /\ \A p \in Rows : timeline[p] \subseteq timeline'[p]
<1> DEFINE c0 == [from |-> from, to |-> to, source |-> source]
<1>1. c0.to = to
  OBVIOUS
<1>2. timeline' = [timeline EXCEPT ![o] = @ \cup {c0}]
  BY DEF Record
<1> HIDE DEF c0
<1> QED
  BY <1>1, <1>2 DEF TypeOK

(* A status stays accounted for when its own row's timeline only grows and *)
(* whoever owed it either still does or has just paid.                     *)
LEMMA AccountedStays ==
  ASSUME NEW o \in Rows, NEW s, Accounted(o, s),
         timeline[o] \subseteq timeline'[o],
         o \in Requests /\ OwedByPlace(o, s) => OwedByPlace(o, s)' \/ Shown(o, s)',
         o \in Entries /\ entry[o] = s => entry'[o] = s \/ Shown(o, s)',
         \A t \in Tasks : OwedByTask(t, o, s) => OwedByTask(t, o, s)' \/ Shown(o, s)',
         \A t \in Tasks : Marked(t, o) => Marked(t, o)'
  PROVE  Accounted(o, s)'
BY DEF Accounted, Shown

(* place(): the status it writes is owed until its next step records it.   *)
LEMMA PlaceStepAccounts ==
  ASSUME IInv, NEW r \in Requests, PlaceStep(r), NEW o \in Rows, Exists(o)', faults' = 0,
         Exists(o) => Accounted(o, db[o].status)
  PROVE  Accounted(o, db[o].status)'
<1> USE DEF PlaceAt, PlaceGo
<1>0. TypeOK /\ r \in Rows
  BY DEF IInv, Rows
<1>1. UNCHANGED <<entry, task>>
  BY DEF PlaceStep, PlaceLookup, PlaceCreate, PlaceRecordOpened, PlaceCharge, PlaceSaveIntent,
     PlaceChargeFailed, PlaceRecordChargeFailed, PlaceShop, PlaceSaveOrdered,
     PlaceRecordOrdered, PlaceRefund, PlaceSaveFailed, PlaceRecordFailed
<1>2. \A t \in Tasks : /\ \A s : OwedByTask(t, o, s) <=> OwedByTask(t, o, s)'
                       /\ Marked(t, o) <=> Marked(t, o)'
  BY <1>1 DEF OwedByTask, Marked
<1>3. \A q \in Requests \ {r} : place'[q] = place[q]
  BY <1>0 DEF TypeOK, PlaceStep, PlaceLookup, PlaceCreate, PlaceRecordOpened, PlaceCharge,
     PlaceSaveIntent, PlaceChargeFailed, PlaceRecordChargeFailed, PlaceShop, PlaceSaveOrdered,
     PlaceRecordOrdered, PlaceRefund, PlaceSaveFailed, PlaceRecordFailed
<1>4. CASE PlaceCreate(r) /\ db' # db
  <2>1. db' = [db EXCEPT ![r] = NewRow("pending")] /\ place' = [place EXCEPT ![r] = "opened"]
        /\ UNCHANGED timeline /\ place[r] = "create"
    BY <1>4 DEF PlaceCreate
  <2>2. CASE o = r
    BY <1>0, <2>1, <2>2 DEF TypeOK, NewRow, Accounted, OwedByPlace
  <2>3. CASE o # r
    <3>1. db'[o] = db[o] /\ Exists(o)
      BY <1>0, <2>1, <2>3 DEF TypeOK, Exists
    <3> QED
      BY <1>1, <1>2, <1>3, <2>1, <2>3, <3>1, AccountedStays DEF OwedByPlace
  <2> QED
    BY <2>2, <2>3
<1>5. CASE PlaceChargeFailed(r) \/ PlaceSaveFailed(r)
  <2>1. /\ \A p \in Rows \ {r} : db'[p] = db[p]
        /\ db'[r].status = "failed" /\ UNCHANGED timeline
        /\ place'[r] \in {"recordChargeFailed", "recordFailed"}
    BY <1>0, <1>5, SetStatusEffect DEF PlaceChargeFailed, PlaceSaveFailed, Status, TypeOK
  <2>2. CASE o = r
    BY <2>1, <2>2 DEF Accounted, OwedByPlace
  <2>3. CASE o # r
    BY <1>1, <1>2, <1>3, <2>1, <2>3, AccountedStays DEF OwedByPlace, Exists
  <2> QED
    BY <2>2, <2>3
<1>6. CASE PlaceSaveOrdered(r) /\ db' # db
  <2>1. /\ \A p \in Rows \ {r} : db'[p] = db[p]
        /\ db'[r].status = "ordered" /\ UNCHANGED timeline /\ place'[r] = "recordOrdered"
    BY <1>0, <1>6, SaveOrderedEffect DEF PlaceSaveOrdered, TypeOK
  <2>2. CASE o = r
    BY <2>1, <2>2 DEF Accounted, OwedByPlace
  <2>3. CASE o # r
    BY <1>1, <1>2, <1>3, <2>1, <2>3, AccountedStays DEF OwedByPlace, Exists
  <2> QED
    BY <2>2, <2>3
<1>7. CASE UNCHANGED db
  <2>1. Exists(o) /\ db'[o] = db[o]
    BY <1>7 DEF Exists
  <2>2. \/ /\ timeline' = timeline
           /\ place[r] \notin {"opened", "recordOrdered", "recordChargeFailed", "recordFailed"}
        \/ /\ place[r] = "opened" /\ Record(r, "none", "pending", "system")
        \/ /\ place[r] = "recordOrdered" /\ Record(r, "pending", "ordered", "system")
        \/ /\ place[r] \in {"recordChargeFailed", "recordFailed"}
           /\ Record(r, "pending", "failed", "system")
    <3>1. ~Fault
      BY <1>0, OrdersAssumption DEF Fault, TypeOK
    <3>2. CASE PlaceRecordOpened(r)
      BY <3>2 DEF PlaceRecordOpened
    <3>3. CASE PlaceRecordOrdered(r)
      BY <3>1, <3>3 DEF PlaceRecordOrdered
    <3>4. CASE PlaceRecordChargeFailed(r) \/ PlaceRecordFailed(r)
      BY <3>4 DEF PlaceRecordChargeFailed, PlaceRecordFailed
    <3> QED
      BY <3>2, <3>3, <3>4 DEF PlaceStep, PlaceLookup, PlaceCreate,
         PlaceCharge, PlaceSaveIntent, PlaceChargeFailed, PlaceShop,
         PlaceSaveOrdered, PlaceRefund, PlaceSaveFailed
  <2>3. timeline[o] \subseteq timeline'[o]
        /\ \A s : OwedByPlace(r, s) => Shown(r, s)'
    BY <1>0, <2>2, RecordShows DEF OwedByPlace, Shown
  <2>4. o \in Requests /\ OwedByPlace(o, db[o].status) =>
          OwedByPlace(o, db[o].status)' \/ Shown(o, db[o].status)'
    BY <1>3, <2>1, <2>3 DEF OwedByPlace
  <2> QED
    BY <1>1, <1>2, <2>1, <2>3, <2>4, AccountedStays
<1>8. CASE PlaceSaveIntent(r) /\ db' # db
  <2>1. db'[o].status = db[o].status /\ UNCHANGED timeline /\ place[r] = "saveIntent"
    <3>1. SaveIntent(r)
      BY <1>8 DEF PlaceSaveIntent
    <3>2. db'[o].status = db[o].status
      BY <1>0, <3>1, SaveIntentEffect
    <3> QED
      BY <1>8, <3>2 DEF PlaceSaveIntent
  <2>2. Accounted(o, db[o].status)
    BY <2>1 DEF Exists
  <2>3. \A s : o \in Requests /\ OwedByPlace(o, s) => OwedByPlace(o, s)'
    BY <1>3, <2>1 DEF OwedByPlace
  <2> QED
    BY <1>1, <1>2, <2>1, <2>2, <2>3, AccountedStays
<1> QED
  BY <1>4, <1>5, <1>6, <1>7, <1>8 DEF PlaceStep, PlaceLookup, PlaceRecordOpened, PlaceCharge,
     PlaceRecordChargeFailed, PlaceShop, PlaceRecordOrdered, PlaceRefund, PlaceRecordFailed

(* createManualOrder: the row and the debt of its timeline row are one.    *)
LEMMA ManualStepAccounts ==
  ASSUME IInv, NEW e \in Entries, ManualCreate(e) \/ ManualRecord(e), NEW o \in Rows,
         Exists(o)', Exists(o) => Accounted(o, db[o].status)
  PROVE  Accounted(o, db[o].status)'
<1>0. TypeOK /\ e \in Rows
  BY DEF IInv, Rows
<1>1. UNCHANGED <<place, task>>
  BY DEF ManualCreate, ManualRecord
<1>2. \A t \in Tasks : /\ \A s : OwedByTask(t, o, s) <=> OwedByTask(t, o, s)'
                       /\ Marked(t, o) <=> Marked(t, o)'
  BY <1>1 DEF OwedByTask, Marked
<1>3. \A s : OwedByPlace(o, s) <=> OwedByPlace(o, s)'
  BY <1>1 DEF OwedByPlace
<1>4. CASE ManualCreate(e)
  <2>1. PICK s \in Trackable : /\ db' = [db EXCEPT ![e] = NewRow(s)]
                               /\ entry' = [entry EXCEPT ![e] = s]
                               /\ UNCHANGED timeline
    BY <1>4 DEF ManualCreate
  <2>2. CASE o = e
    BY <1>0, <2>1, <2>2 DEF TypeOK, NewRow, Accounted
  <2>3. CASE o # e
    <3>1. db'[o] = db[o] /\ Exists(o) /\ (o \in Entries => entry'[o] = entry[o])
      BY <1>0, <2>1, <2>3 DEF TypeOK, Exists
    <3> QED
      BY <1>2, <1>3, <2>1, <3>1, AccountedStays
  <2> QED
    BY <2>2, <2>3
<1>5. CASE ManualRecord(e)
  <2>1. /\ Record(e, "none", entry[e], "manual") /\ UNCHANGED db
        /\ \A f \in Entries \ {e} : entry'[f] = entry[f]
    BY <1>0, <1>5 DEF ManualRecord, TypeOK
  <2>2. /\ \E c \in timeline'[e] : c.to = entry[e]
        /\ timeline[o] \subseteq timeline'[o] /\ Exists(o)
    BY <1>0, <2>1, RecordShows DEF Exists
  <2>3. o \in Entries /\ entry[o] = db[o].status =>
          entry'[o] = db[o].status \/ Shown(o, db[o].status)'
    BY <2>1, <2>2 DEF Shown
  <2> QED
    BY <1>2, <1>3, <2>1, <2>2, <2>3, AccountedStays
<1> QED
  BY <1>4, <1>5

(* A call that begins owes nothing yet and settles nothing.                *)
LEMMA TaskStartAccounts ==
  ASSUME IInv, NEW t \in Tasks, TaskStart(t), NEW o \in Rows,
         Exists(o)', Exists(o) => Accounted(o, db[o].status)
  PROVE  Accounted(o, db[o].status)'
<1>1. UNCHANGED <<db, timeline, place, entry>> /\ task[t].pc = "idle"
  BY DEF TaskStart, CancelRead, PollSelect, MarkRead, WebhookRead, TrackRead
<1>2. \A u \in Tasks : u # t => task'[u] = task[u]
  BY BeginEffect DEF TaskStart, CancelRead, PollSelect, MarkRead, WebhookRead, TrackRead, Begin,
     IInv, TypeOK
<1>3. \A u \in Tasks : /\ \A s : OwedByTask(u, o, s) => OwedByTask(u, o, s)'
                       /\ Marked(u, o) => Marked(u, o)'
  BY <1>1, <1>2 DEF OwedByTask, Marked
<1>4. Exists(o) /\ \A s : OwedByPlace(o, s) <=> OwedByPlace(o, s)'
  BY <1>1 DEF OwedByPlace, Exists
<1> QED
  BY <1>1, <1>3, <1>4, AccountedStays

(* cancel, webhook, poll and tracking owe what they write until they have  *)
(* recorded it; mark-manual marks the row.                                 *)
LEMMA TaskStepAccounts ==
  ASSUME IInv, NEW t \in Tasks, TaskStep(t), NEW o \in Rows,
         Exists(o)', Exists(o) => Accounted(o, db[o].status)
  PROVE  Accounted(o, db[o].status)'
<1> DEFINE p == task[t].row
<1>0. TypeOK /\ p \in Rows /\ Edge(t)
  BY TaskFields DEF IInv
<1>1. UNCHANGED <<place, entry>> /\ Exists(o)
  BY TaskStepFrame DEF TaskStep, CancelRefund, CancelShop, CancelWrite, CancelRecord, PollAsk,
     PollTransition, TransitionWrite, TransitionRecord, MarkWrite, SameRow, Exists
<1>2. \A u \in Tasks \ {t} : task'[u] = task[u]
  BY TaskStepFrame
<1>3. \A u \in Tasks \ {t} : /\ \A s : OwedByTask(u, o, s) => OwedByTask(u, o, s)'
                             /\ Marked(u, o) => Marked(u, o)'
  BY <1>2 DEF OwedByTask, Marked
<1>4. (\A s : OwedByPlace(o, s) <=> OwedByPlace(o, s)') /\ ~Marked(t, o)
  BY <1>1 DEF OwedByPlace, Marked, TaskStep, CancelRefund, CancelShop, CancelWrite, CancelRecord,
     PollAsk, PollTransition, TransitionWrite, TransitionRecord, MarkWrite, TaskAt
<1>5. CASE CancelWrite(t) \/ TransitionWrite(t)
  <2>1. /\ SetStatus(p, task[t].to) /\ task[t].pc = "write" /\ UNCHANGED timeline
        /\ TaskGo(t, "record")
    BY <1>0, <1>5 DEF CancelWrite, TransitionWrite, TaskAt, Edge
  <2>2. /\ \A q \in Rows : q # p => db'[q] = db[q]
        /\ db'[p].status = task[t].to
        /\ task'[t].pc = "record" /\ task'[t].row = p /\ task'[t].to = task[t].to
    BY <1>0, <2>1, SetStatusEffect, TaskGoEffect, TaskFields DEF TaskPc, TaskRunning
  <2>3. CASE o = p
    BY <2>2, <2>3 DEF Accounted, OwedByTask
  <2>4. CASE o # p
    <3>1. \A s : ~OwedByTask(t, o, s)
      BY <2>4 DEF OwedByTask
    <3> QED
      BY <1>1, <1>3, <1>4, <2>1, <2>2, <2>4, <3>1, AccountedStays
  <2> QED
    BY <2>3, <2>4
<1>6. CASE CancelRecord(t) \/ TransitionRecord(t)
  <2>1. /\ UNCHANGED db
        /\ \E source : Record(p, task[t].seen.status, task[t].to, source)
    BY <1>0, <1>6 DEF CancelRecord, TransitionRecord, TaskAt, Edge
  <2>2. (\E c \in timeline'[p] : c.to = task[t].to) /\ timeline[o] \subseteq timeline'[o]
    BY <1>0, <2>1, RecordShows
  <2>3. \A s : OwedByTask(t, o, s) => Shown(o, s)'
    BY <2>2 DEF OwedByTask, Shown
  <2> QED
    BY <1>1, <1>3, <1>4, <2>1, <2>2, <2>3, AccountedStays
<1>7. CASE MarkWrite(t)
  <2>1. /\ SetStatus(p, "ordered") /\ task[t].op = "mark" /\ task[t].pc = "write"
        /\ TaskGo(t, "ok") /\ UNCHANGED timeline
    BY <1>7 DEF MarkWrite, TaskAt
  <2>2. /\ \A q \in Rows : q # p => db'[q] = db[q]
        /\ task'[t].pc = "ok" /\ task'[t].row = p /\ task'[t].op = "mark"
    BY <1>0, <2>1, SetStatusEffect, TaskGoEffect DEF TaskPc, TaskDone, Status
  <2>3. CASE o = p
    BY <2>2, <2>3 DEF Accounted, Marked
  <2>4. CASE o # p
    <3>1. \A s : ~OwedByTask(t, o, s)
      BY <2>4 DEF OwedByTask
    <3> QED
      BY <1>1, <1>3, <1>4, <2>1, <2>2, <2>4, <3>1, AccountedStays
  <2> QED
    BY <2>3, <2>4
<1>8. CASE CancelRefund(t) \/ CancelShop(t) \/ PollAsk(t) \/ PollTransition(t)
  <2>1. UNCHANGED <<db, timeline>> /\ \A s : ~OwedByTask(t, o, s)
    BY <1>8 DEF CancelRefund, CancelShop, PollAsk, PollTransition, TaskAt, OwedByTask
  <2> QED
    BY <1>1, <1>3, <1>4, <2>1, AccountedStays
<1> QED
  BY <1>5, <1>6, <1>7, <1>8 DEF TaskStep

LEMMA AccountsStep ==
  IInv /\ StatusIsRecorded /\ [Next]_vars => StatusIsRecorded'
<1> SUFFICES ASSUME IInv, StatusIsRecorded, [Next]_vars, faults' = 0,
                    NEW o \in Rows, Exists(o)'
             PROVE  Accounted(o, db[o].status)'
  BY RecordedIsAccounted DEF StatusIsRecorded, Accounted, Shown, OwedByPlace, OwedByTask, Marked,
     MarkedByHand, Owed
<1>0. faults \in Nat /\ faults' # faults + 1
  BY OrdersAssumption DEF IInv, TypeOK
<1>1. ~Fault
  BY <1>0 DEF Fault
<1>2. faults = 0
  BY <1>1 DEF Next, vars, PlaceStep, PlaceLookup, PlaceCreate, PlaceRecordOpened, PlaceCharge,
     PlaceSaveIntent, PlaceChargeFailed, PlaceRecordChargeFailed, PlaceShop, PlaceSaveOrdered,
     PlaceRecordOrdered, PlaceRefund, PlaceSaveFailed, PlaceRecordFailed, PlaceAbandon,
     ManualCreate, ManualRecord, TaskStart, CancelRead, PollSelect, MarkRead, WebhookRead,
     TrackRead, TaskStep, CancelRefund, CancelShop, CancelWrite, CancelRecord, PollAsk,
     PollTransition, TransitionWrite, TransitionRecord, MarkWrite, TaskAbandon, Tick, Restart
<1>3. Exists(o) => Accounted(o, db[o].status)
  BY <1>2, RecordedIsAccounted
<1>4. CASE UNCHANGED vars \/ \E q \in Rows : Tick(q)
  <2>1. UNCHANGED <<db, timeline, place, entry, task>>
    BY <1>4 DEF vars, Tick
  <2> QED
    BY <1>3, <2>1 DEF Accounted, Shown, OwedByPlace, OwedByTask, Marked, Exists
<1>5. ASSUME NEW r \in Requests, PlaceStep(r) PROVE Accounted(o, db[o].status)'
  BY <1>3, <1>5, PlaceStepAccounts
<1>6. ASSUME NEW e \in Entries, ManualCreate(e) \/ ManualRecord(e)
      PROVE  Accounted(o, db[o].status)'
  BY <1>3, <1>6, ManualStepAccounts
<1>7. ASSUME NEW t \in Tasks, TaskStart(t) PROVE Accounted(o, db[o].status)'
  BY <1>3, <1>7, TaskStartAccounts
<1>8. ASSUME NEW t \in Tasks, TaskStep(t) PROVE Accounted(o, db[o].status)'
  BY <1>3, <1>8, TaskStepAccounts
<1> QED
  BY <1>1, <1>4, <1>5, <1>6, <1>7, <1>8 DEF Next, PlaceAbandon, TaskAbandon, Restart

(* Without faults every status a handler writes is in the timeline or is   *)
(* owed to it by the handler that wrote it, except on a row marked as      *)
(* bought by hand.                                                         *)
THEOREM StatusesAreRecorded == Spec => []StatusIsRecorded
<1>1. Init => StatusIsRecorded
  BY DEF Init, StatusIsRecorded, Exists, NoRow, NewRow
<1> QED
  BY <1>1, AccountsStep, Invariance, PTL DEF Spec

-----------------------------------------------------------------------------
(* Checkout.                                                               *)

-----------------------------------------------------------------------------
(* What the page knows of its orders.                                      *)

Statuses == {"pending", "ordered", "moving", "failed", "cancelled"}
PressRecord ==
  [pc : {"new", "sent", "working", "answered"}, idea : Ideas \cup {NoIdea}, preview : Nat, mount : Nat,
   load : Nat, key : Nat, answer : {"none", "error"} \cup Statuses, heard : {"no", "done", "late", "error", "gone"}]
ModalRecord ==
  [pc : {"closed", "loading", "ready", "error"}, idea : Ideas \cup {NoIdea}, preview : Nat, mount : Nat,
   placing : BOOLEAN]
DialogRecord ==
  [pc : {"closed", "open", "sent", "cancelled", "refused"}, idea : Ideas \cup {NoIdea}, key : Nat]

CheckoutShape ==
  /\ orders \in [OrderKeys -> {"none"} \cup Statuses]
  /\ modal \in ModalRecord /\ press \in [Presses -> PressRecord] /\ dialog \in DialogRecord
  /\ previews \in 0 .. MaxPreviews /\ pageLoads \in Nat
  /\ notes \in [Ideas -> Note \cup {NoNote}]

Open == modal.pc # "closed"
Asking == dialog.pc # "closed"

\* Keys whose order place() is done with, and those of them that are cancelled
\* for good.
SettledKeys ==
  {k \in OrderKeys : orders[k] # "none" /\ \A p \in Presses : press[p].pc = "working" => press[p].key # k}
GoneKeys == {k \in SettledKeys : orders[k] = "cancelled"}

\* One request works on a key.
OneWorks ==
  \A p, q \in Presses :
    press[p].pc = "working" /\ press[q].pc = "working" /\ press[p].key = press[q].key => p = q

PressMade(p) ==
  /\ press[p].key = press[p].preview /\ press[p].preview \in 1 .. previews /\ press[p].idea \in Ideas
  /\ press[p].load <= pageLoads
  /\ press[p].heard = "no" => press[p].load = pageLoads
  /\ Open /\ press[p].preview = modal.preview => press[p].idea = modal.idea
  /\ press[p].pc = "working" => orders[press[p].key] \in {"pending", "cancelled"}
  /\ press[p].pc = "answered" => press[p].answer # "none" /\ orders[press[p].key] # "none"
  /\ press[p].answer = "ordered" => press[p].pc = "answered" /\ press[p].key \in SettledKeys

PressesMade ==
  \A p \in Presses : IF press[p].pc = "new" THEN press[p] = NewPress ELSE PressMade(p)

WindowsFitPage ==
  /\ Open => modal.preview = previews /\ modal.preview # 0 /\ modal.idea \in Ideas /\ ~Asking
  /\ ~Open => modal.preview = 0
  /\ Asking => dialog.idea \in Ideas /\ dialog.key \in SettledKeys
  /\ dialog.pc = "cancelled" => dialog.key \in GoneKeys

\* Suggestions an answer came late for; presses the page was told of.
LateIdeas == {i \in Ideas : \E r \in Presses : press[r].idea = i /\ press[r].heard = "late"}
ToldPresses == {p \in Presses : press[p].heard = "done" /\ press[p].idea \notin LateIdeas}

Noted(note, k) == note # NoNote /\ note.key = k

\* A load remembers the order it was told of until that is cancelled.
Remembered ==
  \A p \in ToldPresses : press[p].load = pageLoads =>
    /\ press[p].key \in GoneKeys \/ Noted(notes[press[p].idea], press[p].key)
    /\ Open /\ modal.idea = press[p].idea => press[p].key \in GoneKeys

OneAtATime ==
  \A p, q \in ToldPresses :
    press[p].idea = press[q].idea /\ press[p].load = press[q].load /\ press[p].key # press[q].key =>
      press[p].key \in GoneKeys \/ press[q].key \in GoneKeys

NotesFit ==
  /\ \A i \in Ideas : notes[i] # NoNote /\ notes[i].status = "ordered" => notes[i].key \in SettledKeys
  /\ Asking => dialog.idea \in LateIdeas \/ Noted(notes[dialog.idea], dialog.key)

CheckoutInv ==
  /\ CheckoutShape /\ OneWorks /\ PressesMade /\ WindowsFitPage
  /\ Remembered /\ OneAtATime /\ NotesFit

-----------------------------------------------------------------------------
LEMMA NoNewIsKnown ==
  ASSUME CheckoutInv, NEW p \in Presses, press[p].pc = "new"
  PROVE  press[p].heard = "no" /\ press[p].answer = "none" /\ p \notin ToldPresses
BY DEF CheckoutInv, PressesMade, NewPress, ToldPresses

LEMMA PressedIsMade ==
  ASSUME CheckoutInv, NEW p \in Presses, press[p].pc # "new"
  PROVE  PressMade(p)
BY DEF CheckoutInv, PressesMade

LEMMA KeysOfPresses ==
  ASSUME CheckoutInv, NEW p \in Presses, press[p].pc # "new"
  PROVE  press[p].key \in OrderKeys /\ press[p].key \in Nat
BY PressedIsMade, CheckoutAssumption DEF PressMade, OrderKeys, CheckoutInv, CheckoutShape, CheckoutAssumption

\* Parts that most steps leave as they are.
OrdersGoOn == SettledKeys \subseteq SettledKeys' /\ GoneKeys \subseteq GoneKeys'

\* Nothing new is told to the page.
LEMMA NotesKeep ==
  ASSUME CheckoutInv, OrdersGoOn, UNCHANGED <<notes, pageLoads>>, LateIdeas \subseteq LateIdeas',
         \A p \in ToldPresses' :
           /\ p \in ToldPresses
           /\ press'[p].idea = press[p].idea /\ press'[p].load = press[p].load /\ press'[p].key = press[p].key,
         Open' => (Open /\ modal'.idea = modal.idea) \/ notes[modal'.idea] = NoNote,
         Asking' => \/ Asking /\ dialog'.idea = dialog.idea /\ dialog'.key = dialog.key
                    \/ Noted(notes[dialog'.idea], dialog'.key)
  PROVE  Remembered' /\ OneAtATime' /\ NotesFit'
<1>1. Remembered'
  BY DEF CheckoutInv, Remembered, OrdersGoOn, Noted
<1>2. OneAtATime'
  BY DEF CheckoutInv, OneAtATime, OrdersGoOn
<1>3. NotesFit'
  BY DEF CheckoutInv, NotesFit, OrdersGoOn, Noted
<1> QED
  BY <1>1, <1>2, <1>3

LEMMA SamePressesKeepNotes ==
  ASSUME CheckoutInv, OrdersGoOn, UNCHANGED <<notes, pageLoads>>,
         \A p \in Presses : /\ press'[p].idea = press[p].idea /\ press'[p].load = press[p].load
                            /\ press'[p].key = press[p].key
                            /\ press'[p].heard = press[p].heard,
         Open' => (Open /\ modal'.idea = modal.idea) \/ notes[modal'.idea] = NoNote,
         Asking' => \/ Asking /\ dialog'.idea = dialog.idea /\ dialog'.key = dialog.key
                    \/ Noted(notes[dialog'.idea], dialog'.key)
  PROVE  Remembered' /\ OneAtATime' /\ NotesFit'
<1>1. LateIdeas' = LateIdeas
  BY DEF LateIdeas
<1>2. ToldPresses' = ToldPresses
  BY <1>1 DEF ToldPresses
<1> QED
  BY <1>1, <1>2, NotesKeep DEF ToldPresses

LEMMA SamePressesKeep ==
  ASSUME CheckoutInv, OrdersGoOn, UNCHANGED <<press, pageLoads>>,
         previews' \in Nat, previews <= previews',
         \A k \in OrderKeys : /\ orders[k] # "none" => orders'[k] # "none"
                              /\ orders[k] \in {"pending", "cancelled"} => orders'[k] \in {"pending", "cancelled"},
         Open' => \/ Open /\ modal'.idea = modal.idea /\ modal'.preview = modal.preview
                  \/ modal'.preview = previews + 1
  PROVE  OneWorks' /\ PressesMade'
<1>1. OneWorks'
  BY DEF CheckoutInv, OneWorks
<1>2. ASSUME NEW p \in Presses, press[p].pc # "new" PROVE PressMade(p)'
  <2>1. PressMade(p) /\ press[p].key \in OrderKeys /\ previews \in Nat
    BY <1>2, PressedIsMade, KeysOfPresses, CheckoutAssumption DEF CheckoutInv, CheckoutShape, CheckoutAssumption
  <2>2. Open' /\ press[p].preview = modal'.preview => press[p].idea = modal'.idea
    BY <2>1 DEF PressMade
  <2> QED
    BY <2>1, <2>2 DEF PressMade, OrdersGoOn
<1> QED
  BY <1>1, <1>2 DEF CheckoutInv, PressesMade, NewPress

-----------------------------------------------------------------------------
(* The modal.                                                              *)

LEMMA OrdersStand ==
  ASSUME UNCHANGED <<orders, press>>
  PROVE  SettledKeys' = SettledKeys /\ GoneKeys' = GoneKeys /\ OrdersGoOn
BY DEF SettledKeys, GoneKeys, OrdersGoOn

LEMMA ModalKeeps ==
  ASSUME CheckoutInv,
         \/ \E i \in Ideas : OrderThis(i)
         \/ \E outcome \in {"ready", "error"} : PreviewAnswer(outcome)
         \/ PreviewAgain \/ CloseModal
  PROVE  CheckoutInv'
<1> USE CheckoutAssumption DEF CheckoutAssumption
<1>0. /\ UNCHANGED <<orders, press, notes, dialog, pageLoads>>
      /\ modal \in ModalRecord /\ previews \in 0 .. MaxPreviews /\ OrdersGoOn
      /\ SettledKeys' = SettledKeys /\ GoneKeys' = GoneKeys
  BY OrdersStand DEF OrderThis, PreviewAnswer, PreviewAgain, CloseModal, CheckoutInv, CheckoutShape
<1>1. /\ modal' \in ModalRecord /\ previews' \in 0 .. MaxPreviews /\ previews <= previews'
      /\ Open' => \/ /\ Open /\ modal'.idea = modal.idea /\ modal'.preview = modal.preview
                     /\ previews' = previews
                  \/ /\ modal'.preview = previews + 1 /\ previews' = previews + 1
                     /\ modal'.idea \in Ideas /\ ~Asking
                     /\ (Open /\ modal'.idea = modal.idea) \/ notes[modal'.idea] = NoNote
      /\ ~Open' => modal'.preview = 0
  <2>1. CASE \E i \in Ideas : OrderThis(i)
    <3>1. PICK i \in Ideas : OrderThis(i)
      BY <2>1
    <3>2. /\ modal' = [pc |-> "loading", idea |-> i, preview |-> previews + 1, mount |-> previews + 1, placing |-> FALSE]
          /\ previews' = previews + 1 /\ previews < MaxPreviews /\ ~Asking /\ notes[i] = NoNote
      BY <3>1 DEF OrderThis, NoModal, Asking
    <3> QED
      BY <1>0, <3>2 DEF ModalRecord, Open
  <2>2. CASE \E outcome \in {"ready", "error"} : PreviewAnswer(outcome)
    BY <1>0, <2>2 DEF PreviewAnswer, ModalRecord, Open
  <2>3. CASE PreviewAgain
    <3>1. Open /\ modal.idea \in Ideas /\ ~Asking
      BY <2>3 DEF PreviewAgain, CheckoutInv, WindowsFitPage, Open
    <3>2. modal' = [modal EXCEPT !.pc = "loading", !.preview = previews + 1] /\ previews' = previews + 1
          /\ previews < MaxPreviews
      BY <2>3 DEF PreviewAgain
    <3>0. modal \in ModalRecord /\ previews + 1 \in Nat
      BY <1>0
    <3> DEFINE next == previews + 1
    <3>5. next \in Nat /\ modal' = [modal EXCEPT !.pc = "loading", !.preview = next]
      BY <3>0, <3>2
    <3> HIDE DEF next
    <3>3. modal' \in ModalRecord
      BY ONLY <3>0, <3>5 DEF ModalRecord
    <3>4. modal'.preview = previews + 1 /\ modal'.idea = modal.idea /\ modal'.pc = "loading"
      BY <1>0, <3>2 DEF ModalRecord
    <3> QED
      BY <1>0, <3>1, <3>2, <3>3, <3>4 DEF Open
  <2>4. CASE CloseModal
    BY <1>0, <2>4 DEF CloseModal, ModalRecord, Open, NoModal
  <2> QED
    BY <2>1, <2>2, <2>3, <2>4
<1>2. CheckoutShape'
  BY <1>0, <1>1 DEF CheckoutInv, CheckoutShape
<1>3. OneWorks' /\ PressesMade'
  BY <1>0, <1>1, SamePressesKeep
<1>4. WindowsFitPage'
  BY <1>0, <1>1 DEF CheckoutInv, WindowsFitPage, Asking
<1>5. Remembered' /\ OneAtATime' /\ NotesFit'
  <2>1. Asking' => Asking /\ dialog'.idea = dialog.idea /\ dialog'.key = dialog.key
    BY <1>0 DEF Asking
  <2> QED
    BY <1>0, <1>1, <2>1, SamePressesKeepNotes
<1> QED
  BY <1>2, <1>3, <1>4, <1>5 DEF CheckoutInv

LEMMA PressOrderKeeps ==
  ASSUME CheckoutInv, NEW p \in Presses, PressOrder(p)
  PROVE  CheckoutInv'
<1> USE CheckoutAssumption DEF CheckoutAssumption
<1>0. /\ UNCHANGED <<orders, previews, notes, dialog, pageLoads>>
      /\ modal \in ModalRecord /\ press \in [Presses -> PressRecord] /\ pageLoads \in Nat
      /\ previews \in 0 .. MaxPreviews
      /\ press[p].pc = "new" /\ modal.pc = "ready" /\ Open
      /\ modal' = [modal EXCEPT !.placing = TRUE]
  BY DEF PressOrder, CheckoutInv, CheckoutShape, Open
<1> DEFINE made == [pc |-> "sent", idea |-> modal.idea, preview |-> modal.preview, mount |-> modal.mount,
                    load |-> pageLoads, key |-> modal.preview, answer |-> "none", heard |-> "no"]
<1>1. press' = [press EXCEPT ![p] = made]
  <2> DEFINE sent == [NewPress EXCEPT !.pc = "sent", !.idea = modal.idea, !.preview = modal.preview,
                       !.mount = modal.mount, !.load = pageLoads, !.key = modal.preview]
  <2>1. ASSUME NEW x, x = sent PROVE x = made
    BY <2>1 DEF NewPress
  <2>2. press' = [press EXCEPT ![p] = sent]
    BY DEF PressOrder, KeyFor
  <2> QED
    BY <2>1, <2>2
<1>2. made \in PressRecord
  BY <1>0 DEF ModalRecord, PressRecord
<1>3. /\ press' \in [Presses -> PressRecord] /\ press'[p] = made
      /\ \A q \in Presses : q # p => press'[q] = press[q]
  BY <1>0, <1>1, <1>2
<1>4. /\ modal' \in ModalRecord /\ modal'.pc = modal.pc /\ modal'.idea = modal.idea
      /\ modal'.preview = modal.preview
  BY <1>0 DEF ModalRecord
<1>5. press'[p].pc = "sent" /\ press'[p].heard = "no" /\ press[p].heard = "no" /\ p \notin ToldPresses
  BY <1>0, <1>3, NoNewIsKnown
<1> HIDE DEF made
<1>6. SettledKeys' = SettledKeys /\ GoneKeys' = GoneKeys /\ OrdersGoOn
  <2>1. SettledKeys' = SettledKeys
    BY <1>0, <1>3, <1>5 DEF SettledKeys
  <2> QED
    BY <1>0, <2>1 DEF GoneKeys, OrdersGoOn
<1>7. CheckoutShape'
  BY <1>0, <1>3, <1>4 DEF CheckoutInv, CheckoutShape
<1>8. OneWorks'
  BY <1>0, <1>3, <1>5 DEF CheckoutInv, OneWorks
<1>9. PressesMade'
  <2>1. PressMade(p)'
    <3>1. modal.preview = previews /\ modal.preview # 0 /\ modal.idea \in Ideas
      BY <1>0 DEF CheckoutInv, WindowsFitPage
    <3> QED
      BY <1>0, <1>3, <1>4, <3>1 DEF PressMade, made
  <2>2. ASSUME NEW q \in Presses, q # p, press[q].pc # "new" PROVE PressMade(q)'
    BY <1>0, <1>3, <1>4, <1>6, <2>2, PressedIsMade DEF PressMade, Open
  <2> QED
    BY <1>3, <1>5, <2>1, <2>2 DEF CheckoutInv, PressesMade, NewPress
<1>10. WindowsFitPage'
  BY <1>0, <1>4, <1>6 DEF CheckoutInv, WindowsFitPage, Open, Asking
<1>11. Remembered' /\ OneAtATime' /\ NotesFit'
  <2>1. LateIdeas' = LateIdeas
    BY <1>3, <1>5 DEF LateIdeas
  <2>2. ToldPresses' = ToldPresses
    BY <1>3, <1>5, <2>1 DEF ToldPresses
  <2>3. \A q \in ToldPresses' : q \in ToldPresses /\ press'[q] = press[q]
    BY <1>3, <1>5, <2>2 DEF ToldPresses
  <2>4. Asking' => Asking /\ dialog'.idea = dialog.idea /\ dialog'.key = dialog.key
    BY <1>0 DEF Asking
  <2>5. Open' => Open /\ modal'.idea = modal.idea
    BY <1>0, <1>4 DEF Open
  <2> QED
    BY <1>0, <1>6, <2>1, <2>3, <2>4, <2>5, NotesKeep
<1> QED
  BY <1>7, <1>8, <1>9, <1>10, <1>11 DEF CheckoutInv

-----------------------------------------------------------------------------
(* The API.                                                                *)

\* A request of a key that has no order yet, or has one.
LEMMA PlaceArrivesKeeps ==
  ASSUME CheckoutInv, NEW p \in Presses, PlaceArrives(p)
  PROVE  CheckoutInv'
<1> USE CheckoutAssumption DEF CheckoutAssumption
<1> DEFINE k == press[p].key
<1>0. /\ UNCHANGED <<modal, previews, notes, dialog, pageLoads>>
      /\ press \in [Presses -> PressRecord] /\ press[p].pc = "sent"
      /\ orders \in [OrderKeys -> {"none"} \cup Statuses] /\ CheckoutShape
  BY DEF PlaceArrives, CheckoutInv, CheckoutShape
<1>1. PressMade(p) /\ k \in OrderKeys
  BY <1>0, PressedIsMade, KeysOfPresses
<1> HIDE DEF k
<1> DEFINE Other == \A q \in Presses : q # p => press'[q] = press[q]
           Kept == /\ press'[p].idea = press[p].idea /\ press'[p].preview = press[p].preview
                   /\ press'[p].load = press[p].load /\ press'[p].key = press[p].key
                   /\ press'[p].heard = press[p].heard
<1>2. ASSUME orders[k] = "none"
      PROVE  /\ orders' = [orders EXCEPT ![k] = "pending"] /\ press' \in [Presses -> PressRecord]
             /\ Other /\ Kept
             /\ press'[p].pc = "working" /\ press'[p].answer = press[p].answer
  <2>1. press' = [press EXCEPT ![p].pc = "working"] /\ orders' = [orders EXCEPT ![k] = "pending"]
    BY <1>0, <1>2 DEF PlaceArrives, k
  <2>2. press' \in [Presses -> PressRecord]
    BY <1>0, <2>1 DEF PressRecord
  <2> QED
    BY <1>0, <2>1, <2>2 DEF PressRecord
<1>3. ASSUME orders[k] # "none"
      PROVE  /\ orders' = orders /\ press' \in [Presses -> PressRecord]
             /\ Other /\ Kept
             /\ press'[p].pc = "answered" /\ press'[p].answer = orders[k]
  <2>1. press' = [press EXCEPT ![p].pc = "answered", ![p].answer = orders[k]] /\ orders' = orders
    BY <1>0, <1>3 DEF PlaceArrives, k
  <2>0. orders[k] \in Statuses
    BY <1>0, <1>1, <1>3
  <2>2. press' \in [Presses -> PressRecord]
    BY <1>0, <2>0, <2>1 DEF PressRecord
  <2> QED
    BY <1>0, <2>1, <2>2 DEF PressRecord
<1>4. /\ orders' \in [OrderKeys -> {"none"} \cup Statuses] /\ press' \in [Presses -> PressRecord]
      /\ Other /\ Kept /\ press'[p].pc # "new"
      /\ \A j \in OrderKeys : j # k => orders'[j] = orders[j]
      /\ \A j \in OrderKeys : orders[j] # "none" => orders'[j] = orders[j]
  BY <1>0, <1>1, <1>2, <1>3 DEF Statuses
<1>5. OrdersGoOn
  <2>1. ASSUME NEW j \in SettledKeys PROVE j \in SettledKeys' /\ orders'[j] = orders[j]
    BY <1>0, <1>1, <1>2, <1>3, <1>4 DEF SettledKeys, k
  <2> QED
    BY <2>1 DEF OrdersGoOn, GoneKeys
<1>6. CheckoutShape'
  BY <1>0, <1>4 DEF CheckoutShape
<1>7. \A q \in Presses : press[q].pc = "working" => press[q].key \in OrderKeys /\ orders[press[q].key] \in {"pending", "cancelled"}
  BY PressedIsMade, KeysOfPresses DEF PressMade
<1>8. OneWorks'
  <2>1. ASSUME NEW q \in Presses, press[q].pc = "working", press[q].key = k PROVE orders[k] # "none"
    BY <1>7, <2>1
  <2> QED
    BY <1>0, <1>2, <1>3, <1>4, <2>1 DEF CheckoutInv, OneWorks, k
<1>9. PressesMade'
  <2>1. PressMade(p)'
    <3>1. CASE orders[k] = "none"
      <4>1. orders'[k] = "pending"
        BY <1>0, <1>1, <1>2, <3>1
      <4>2. press[p].answer # "ordered"
        BY <1>0, <1>1 DEF PressMade
      <4> QED
        BY <1>0, <1>1, <1>2, <3>1, <4>1, <4>2 DEF PressMade, Open, k
    <3>2. CASE orders[k] # "none"
      <4>1. orders[k] = "ordered" => k \in SettledKeys
        BY <1>1, <1>7 DEF SettledKeys
      <4> QED
        BY <1>0, <1>1, <1>3, <1>5, <3>2, <4>1 DEF PressMade, Open, k, OrdersGoOn
    <3> QED
      BY <3>1, <3>2
  <2>2. ASSUME NEW q \in Presses, q # p, press[q].pc # "new" PROVE PressMade(q)'
    <3>1. PressMade(q) /\ press[q].key \in OrderKeys
      BY <2>2, PressedIsMade, KeysOfPresses
    <3> QED
      BY <1>0, <1>4, <1>5, <2>2, <3>1 DEF PressMade, Open, OrdersGoOn
  <2> QED
    BY <1>4, <2>1, <2>2 DEF CheckoutInv, PressesMade, NewPress
<1>10. WindowsFitPage'
  BY <1>0, <1>5 DEF CheckoutInv, WindowsFitPage, Open, Asking, OrdersGoOn
<1>11. Remembered' /\ OneAtATime' /\ NotesFit'
  BY <1>0, <1>4, <1>5, SamePressesKeepNotes DEF Open, Asking
<1> QED
  BY <1>6, <1>8, <1>9, <1>10, <1>11 DEF CheckoutInv

\* The request is done with its order, which no other request works on.
LEMMA PlaceEndsKeeps ==
  ASSUME CheckoutInv, NEW p \in Presses, NEW status \in {"ordered", "failed", "pending"}, PlaceEnds(p, status)
  PROVE  CheckoutInv'
<1> USE CheckoutAssumption DEF CheckoutAssumption
<1> DEFINE k == press[p].key
           answer == IF status = "ordered" THEN status ELSE "error"
<1>0. /\ UNCHANGED <<modal, previews, notes, dialog, pageLoads>>
      /\ press \in [Presses -> PressRecord] /\ press[p].pc = "working"
      /\ orders \in [OrderKeys -> {"none"} \cup Statuses] /\ CheckoutShape
      /\ orders' = [orders EXCEPT ![k] = status]
      /\ press' = [press EXCEPT ![p].pc = "answered", ![p].answer = answer]
  BY DEF PlaceEnds, CheckoutInv, CheckoutShape
<1>1. PressMade(p) /\ k \in OrderKeys
  BY <1>0, PressedIsMade, KeysOfPresses
<1>2. answer \in {"none", "error"} \cup Statuses /\ answer # "none" /\ status # "none" /\ status \in Statuses
  BY DEF Statuses
<1> HIDE DEF k, answer
<1>3. press' \in [Presses -> PressRecord]
  BY <1>0, <1>2 DEF PressRecord
<1>4. /\ \A q \in Presses : q # p => press'[q] = press[q]
      /\ press'[p].idea = press[p].idea /\ press'[p].preview = press[p].preview
      /\ press'[p].load = press[p].load /\ press'[p].key = press[p].key
      /\ press'[p].heard = press[p].heard
      /\ press'[p].pc = "answered" /\ press'[p].answer = answer
  BY <1>0, <1>3 DEF PressRecord
<1>5. /\ orders' \in [OrderKeys -> {"none"} \cup Statuses] /\ orders'[k] = status
      /\ \A j \in OrderKeys : j # k => orders'[j] = orders[j]
      /\ \A j \in OrderKeys : orders[j] # "none" => orders'[j] # "none"
  BY <1>0, <1>1, <1>2
<1>6. \A q \in Presses : q # p /\ press[q].pc = "working" => press[q].key # k
  BY <1>0 DEF CheckoutInv, OneWorks, k
<1>7. OrdersGoOn /\ k \in SettledKeys'
  <2>1. ASSUME NEW j \in SettledKeys PROVE j \in SettledKeys' /\ orders'[j] = orders[j]
    BY <1>0, <1>4, <1>5 DEF SettledKeys, k
  <2>2. k \in SettledKeys'
    BY <1>1, <1>2, <1>4, <1>5, <1>6 DEF SettledKeys
  <2> QED
    BY <2>1, <2>2 DEF OrdersGoOn, GoneKeys
<1>8. CheckoutShape'
  BY <1>0, <1>3, <1>5 DEF CheckoutShape
<1>9. OneWorks'
  BY <1>4 DEF CheckoutInv, OneWorks
<1>10. PressesMade'
  <2>1. PressMade(p)'
    BY <1>0, <1>1, <1>2, <1>4, <1>5, <1>7 DEF PressMade, Open, k
  <2>2. ASSUME NEW q \in Presses, q # p, press[q].pc # "new" PROVE PressMade(q)'
    <3>1. PressMade(q) /\ press[q].key \in OrderKeys
      BY <2>2, PressedIsMade, KeysOfPresses
    <3> QED
      BY <1>0, <1>4, <1>5, <1>6, <1>7, <2>2, <3>1 DEF PressMade, Open, OrdersGoOn
  <2> QED
    BY <1>4, <2>1, <2>2 DEF CheckoutInv, PressesMade, NewPress
<1>11. WindowsFitPage'
  BY <1>0, <1>7 DEF CheckoutInv, WindowsFitPage, Open, Asking, OrdersGoOn
<1>12. Remembered' /\ OneAtATime' /\ NotesFit'
  BY <1>0, <1>4, <1>7, SamePressesKeepNotes DEF Open, Asking
<1> QED
  BY <1>8, <1>9, <1>10, <1>11, <1>12 DEF CheckoutInv

LEMMA OrderChangesKeep ==
  ASSUME CheckoutInv, (\E k \in OrderKeys : OrderMoves(k)) \/ CancelArrives
  PROVE  CheckoutInv'
<1> USE CheckoutAssumption DEF CheckoutAssumption
<1>0. /\ UNCHANGED <<modal, previews, press, notes, pageLoads>> /\ previews \in Nat /\ CheckoutShape
      /\ orders \in [OrderKeys -> {"none"} \cup Statuses] /\ dialog \in DialogRecord
  BY DEF OrderMoves, CancelArrives, CheckoutInv, CheckoutShape
<1>1. /\ orders' \in [OrderKeys -> {"none"} \cup Statuses]
      /\ \A j \in OrderKeys : /\ orders[j] # "none" => orders'[j] # "none"
                              /\ orders[j] = "cancelled" => orders'[j] = "cancelled"
                              /\ orders[j] \in {"pending", "cancelled"} => orders'[j] \in {"pending", "cancelled"}
      /\ dialog' \in DialogRecord /\ dialog'.idea = dialog.idea /\ dialog'.key = dialog.key
      /\ (dialog'.pc # "closed") = Asking
      /\ dialog'.pc = "cancelled" /\ dialog.pc # "cancelled" => orders'[dialog.key] = "cancelled"
  <2>1. CASE \E k \in OrderKeys : OrderMoves(k)
    BY <1>0, <2>1 DEF OrderMoves, Statuses, Asking
  <2>2. CASE CancelArrives
    <3>1. dialog.key \in OrderKeys
      BY <2>2 DEF CancelArrives, CheckoutInv, WindowsFitPage, Asking, SettledKeys
    <3>2. /\ dialog' \in DialogRecord /\ dialog'.idea = dialog.idea /\ dialog'.key = dialog.key
          /\ (dialog'.pc # "closed") = Asking
          /\ dialog'.pc = "cancelled" => orders' = [orders EXCEPT ![dialog.key] = "cancelled"]
      BY <1>0, <2>2 DEF CancelArrives, DialogRecord, Asking
    <3>3. orders' = orders \/ orders' = [orders EXCEPT ![dialog.key] = "cancelled"]
      BY <2>2 DEF CancelArrives
    <3>4. orders' \in [OrderKeys -> {"none"} \cup Statuses]
      BY <1>0, <3>3 DEF Statuses
    <3> QED
      BY <1>0, <3>1, <3>2, <3>3, <3>4
  <2> QED
    BY <2>1, <2>2
<1>2. OrdersGoOn
  BY <1>0, <1>1 DEF OrdersGoOn, SettledKeys, GoneKeys
<1>3. CheckoutShape'
  BY <1>0, <1>1 DEF CheckoutShape
<1>4. OneWorks' /\ PressesMade'
  BY <1>0, <1>1, <1>2, SamePressesKeep DEF Open
<1>5. WindowsFitPage'
  BY <1>0, <1>1, <1>2 DEF CheckoutInv, WindowsFitPage, Open, Asking, OrdersGoOn, GoneKeys
<1>6. Remembered' /\ OneAtATime' /\ NotesFit'
  <2>1. Asking' => Asking /\ dialog'.idea = dialog.idea /\ dialog'.key = dialog.key
    BY <1>1 DEF Asking
  <2> QED
    BY <1>0, <1>2, <2>1, SamePressesKeepNotes DEF Open
<1> QED
  BY <1>3, <1>4, <1>5, <1>6 DEF CheckoutInv

-----------------------------------------------------------------------------
(* What the page hears.                                                    *)

\* A press that is waited for is of this load.
LEMMA AnswerKeeps ==
  ASSUME CheckoutInv, NEW p \in Presses, HearOrder(p)
  PROVE  CheckoutInv'
<1> USE CheckoutAssumption DEF CheckoutAssumption
<1> DEFINE i == press[p].idea
           k == press[p].key
           heard == IF modal.preview = press[p].preview THEN "done" ELSE "late"
           note == [key |-> k, status |-> press[p].answer]
<1>0. /\ UNCHANGED <<orders, previews, dialog, pageLoads>> /\ CheckoutShape
      /\ press \in [Presses -> PressRecord] /\ notes \in [Ideas -> Note \cup {NoNote}]
      /\ press[p].pc = "answered" /\ press[p].heard = "no" /\ press[p].answer # "error"
      /\ press' = [press EXCEPT ![p].heard = heard]
      /\ notes' = [notes EXCEPT ![i] = note] /\ modal' = NoModal
  BY DEF HearOrder, Waits, NoteOrder, CheckoutInv, CheckoutShape
<1>1. PressMade(p) /\ k \in OrderKeys /\ i \in Ideas
  BY <1>0, PressedIsMade, KeysOfPresses DEF PressMade
<1>2. note \in Note /\ note # NoNote /\ note.key = k /\ note.status = press[p].answer
  <2>1. press[p].answer \in Statuses
    BY <1>0, <1>1 DEF PressMade, PressRecord
  <2>2. note \in Note
    BY <1>1, <2>1 DEF Note, Statuses
  <2> QED
    BY <2>2
<1>20. heard \in {"done", "late"}
  OBVIOUS
<1>21. heard = "done" => modal.preview = press[p].preview
  OBVIOUS
<1> HIDE DEF heard, note
<1>3. press' \in [Presses -> PressRecord]
  BY <1>0, <1>20 DEF PressRecord
<1>4. /\ \A q \in Presses : q # p => press'[q] = press[q]
      /\ press'[p].idea = press[p].idea /\ press'[p].preview = press[p].preview
      /\ press'[p].load = press[p].load /\ press'[p].key = press[p].key
      /\ press'[p].pc = press[p].pc /\ press'[p].answer = press[p].answer
      /\ press'[p].heard = heard
  BY <1>0, <1>3 DEF PressRecord
<1>5. /\ notes' \in [Ideas -> Note \cup {NoNote}] /\ notes'[i] = note
      /\ \A j \in Ideas : j # i => notes'[j] = notes[j]
  BY <1>0, <1>1, <1>2
<1>6. modal' \in ModalRecord /\ ~Open' /\ modal'.preview = 0
  BY <1>0 DEF NoModal, ModalRecord, Open
<1>7. SettledKeys' = SettledKeys /\ GoneKeys' = GoneKeys
  <2>1. SettledKeys' = SettledKeys
    BY <1>0, <1>4 DEF SettledKeys
  <2> QED
    BY <1>0, <2>1 DEF GoneKeys
<1>8. CheckoutShape'
  BY <1>0, <1>3, <1>5, <1>6 DEF CheckoutShape
<1>9. OneWorks'
  BY <1>4 DEF CheckoutInv, OneWorks
<1>10. PressesMade'
  <2>1. PressMade(p)'
    BY <1>0, <1>1, <1>4, <1>6, <1>7, <1>20 DEF PressMade
  <2>2. ASSUME NEW q \in Presses, q # p, press[q].pc # "new" PROVE PressMade(q)'
    BY <1>0, <1>4, <1>6, <1>7, <2>2, PressedIsMade DEF PressMade
  <2> QED
    BY <1>0, <1>4, <2>1, <2>2 DEF CheckoutInv, PressesMade, NewPress
<1>11. WindowsFitPage'
  BY <1>0, <1>6, <1>7 DEF CheckoutInv, WindowsFitPage, Asking
<1>12. /\ LateIdeas \subseteq LateIdeas'
       /\ heard = "late" => i \in LateIdeas'
  BY <1>0, <1>1, <1>4 DEF LateIdeas
<1>13. \A q \in ToldPresses' : q \in Presses /\ press'[q].idea \notin LateIdeas' /\ (q # p => q \in ToldPresses)
  BY <1>4, <1>12 DEF ToldPresses
<1>14. p \in ToldPresses' => heard = "done" /\ Open /\ modal.idea = i /\ press[p].load = pageLoads /\ ~Asking
  <2>1. p \in ToldPresses' => heard = "done"
    BY <1>4 DEF ToldPresses
  <2>2. heard = "done" => Open /\ ~Asking
    BY <1>0, <1>1, <1>21 DEF PressMade, CheckoutInv, CheckoutShape, WindowsFitPage
  <2> QED
    BY <1>0, <1>1, <1>21, <2>1, <2>2 DEF PressMade
<1>15. ASSUME NEW q \in ToldPresses', q # p, press[q].idea = i, press[q].load = pageLoads
       PROVE  press[q].key \in GoneKeys
  <2>1. i \notin LateIdeas' /\ q \in ToldPresses
    BY <1>4, <1>13, <1>15
  <2>2. heard = "done"
    BY <1>12, <1>20, <2>1
  <2>3. Open /\ modal.idea = i
    BY <1>0, <1>1, <1>21, <2>2 DEF PressMade, CheckoutInv, CheckoutShape, WindowsFitPage
  <2> QED
    BY <1>15, <2>1, <2>3 DEF CheckoutInv, Remembered
<1>16. Remembered'
  <2> SUFFICES ASSUME NEW q \in ToldPresses', press'[q].load = pageLoads'
               PROVE  press'[q].key \in GoneKeys' \/ Noted(notes'[press'[q].idea], press'[q].key)
    BY <1>6 DEF Remembered
  <2>1. CASE q = p
    BY <1>1, <1>2, <1>4, <1>5, <2>1 DEF Noted
  <2>2. CASE q # p /\ press[q].idea = i
    BY <1>0, <1>4, <1>7, <1>13, <1>15, <2>2
  <2>3. CASE q # p /\ press[q].idea # i
    <3>1. q \in ToldPresses /\ press'[q] = press[q] /\ press[q].idea \in Ideas
      BY <1>4, <1>13, <2>3, NoNewIsKnown, PressedIsMade DEF PressMade, ToldPresses
    <3> QED
      BY <1>0, <1>5, <1>7, <2>3, <3>1 DEF CheckoutInv, Remembered
  <2> QED
    BY <2>1, <2>2, <2>3
<1>17. OneAtATime'
  <2> SUFFICES ASSUME NEW q \in ToldPresses', NEW r \in ToldPresses', press'[q].idea = press'[r].idea,
                      press'[q].load = press'[r].load, press'[q].key # press'[r].key
               PROVE  press'[q].key \in GoneKeys' \/ press'[r].key \in GoneKeys'
    BY DEF OneAtATime
  <2>1. CASE q = p
    BY <1>4, <1>7, <1>13, <1>14, <1>15, <2>1
  <2>2. CASE r = p
    BY <1>4, <1>7, <1>13, <1>14, <1>15, <2>2
  <2>3. CASE q # p /\ r # p
    BY <1>4, <1>7, <1>13, <2>3 DEF CheckoutInv, OneAtATime
  <2> QED
    BY <2>1, <2>2, <2>3
<1>18. NotesFit'
  <2>1. note.status = "ordered" => note.key \in SettledKeys
    BY <1>1, <1>2 DEF PressMade
  <2>2. \A j \in Ideas : notes'[j] # NoNote /\ notes'[j].status = "ordered" => notes'[j].key \in SettledKeys'
    BY <1>5, <1>7, <2>1 DEF CheckoutInv, NotesFit
  <2>3. Asking => i \in LateIdeas'
    <3>1. heard = "done" => ~Asking
      BY <1>0, <1>1, <1>21 DEF PressMade, CheckoutInv, CheckoutShape, WindowsFitPage
    <3> QED
      BY <1>12, <1>20, <3>1
  <2>4. Asking => dialog.idea \in LateIdeas' \/ Noted(notes'[dialog.idea], dialog.key)
    BY <1>5, <1>12, <2>3 DEF CheckoutInv, NotesFit, WindowsFitPage
  <2>5. UNCHANGED dialog
    BY <1>0
  <2> QED
    BY <2>2, <2>4, <2>5 DEF NotesFit, Asking
<1> QED
  BY <1>8, <1>9, <1>10, <1>11, <1>16, <1>17, <1>18 DEF CheckoutInv

LEMMA ErrorKeeps ==
  ASSUME CheckoutInv, NEW p \in Presses, HearError(p)
  PROVE  CheckoutInv'
<1> USE CheckoutAssumption DEF CheckoutAssumption
<1>0. /\ UNCHANGED <<orders, previews, notes, dialog, pageLoads>> /\ CheckoutShape
      /\ press \in [Presses -> PressRecord] /\ modal \in ModalRecord
      /\ press[p].pc # "new" /\ press[p].heard = "no"
      /\ press' = [press EXCEPT ![p].heard = "error"]
      /\ modal' = modal \/ modal' = [modal EXCEPT !.placing = FALSE]
  BY DEF HearError, Waits, CheckoutInv, CheckoutShape
<1>1. /\ modal' \in ModalRecord /\ modal'.pc = modal.pc /\ modal'.idea = modal.idea
      /\ modal'.preview = modal.preview
  BY <1>0 DEF ModalRecord
<1>2. press' \in [Presses -> PressRecord]
  BY <1>0 DEF PressRecord
<1>3. /\ \A q \in Presses : q # p => press'[q] = press[q]
      /\ press'[p].idea = press[p].idea /\ press'[p].preview = press[p].preview
      /\ press'[p].load = press[p].load /\ press'[p].key = press[p].key
      /\ press'[p].pc = press[p].pc /\ press'[p].answer = press[p].answer
      /\ press'[p].heard = "error"
  BY <1>0, <1>2 DEF PressRecord
<1>4. SettledKeys' = SettledKeys /\ GoneKeys' = GoneKeys /\ OrdersGoOn
  <2>1. SettledKeys' = SettledKeys
    BY <1>0, <1>3 DEF SettledKeys
  <2> QED
    BY <1>0, <2>1 DEF GoneKeys, OrdersGoOn
<1>5. CheckoutShape'
  BY <1>0, <1>1, <1>2 DEF CheckoutShape
<1>6. OneWorks'
  BY <1>3 DEF CheckoutInv, OneWorks
<1>7. PressesMade'
  <2>1. ASSUME NEW q \in Presses, press[q].pc # "new" PROVE PressMade(q)'
    BY <1>0, <1>1, <1>3, <1>4, <2>1, PressedIsMade DEF PressMade, Open
  <2> QED
    BY <1>0, <1>3, <2>1 DEF CheckoutInv, PressesMade, NewPress
<1>8. WindowsFitPage'
  BY <1>0, <1>1, <1>4 DEF CheckoutInv, WindowsFitPage, Open, Asking
<1>9. Remembered' /\ OneAtATime' /\ NotesFit'
  <2>1. LateIdeas' = LateIdeas
    BY <1>0, <1>3 DEF LateIdeas
  <2>2. \A q \in ToldPresses' : q \in ToldPresses /\ press'[q] = press[q]
    BY <1>0, <1>3, <2>1 DEF ToldPresses
  <2>3. Open' => Open /\ modal'.idea = modal.idea
    BY <1>1 DEF Open
  <2>4. Asking' => Asking /\ dialog'.idea = dialog.idea /\ dialog'.key = dialog.key
    BY <1>0 DEF Asking
  <2> QED
    BY <1>0, <1>4, <2>1, <2>2, <2>3, <2>4, NotesKeep
<1> QED
  BY <1>5, <1>6, <1>7, <1>8, <1>9 DEF CheckoutInv

LEMMA DialogKeeps ==
  ASSUME CheckoutInv, PressCancel \/ KeepOrder \/ HearNoCancel \/ \E i \in Ideas : AskCancel(i)
  PROVE  CheckoutInv'
<1> USE CheckoutAssumption DEF CheckoutAssumption
<1>0. /\ UNCHANGED <<orders, modal, previews, press, notes, pageLoads>> /\ CheckoutShape
      /\ dialog \in DialogRecord /\ previews \in Nat
      /\ SettledKeys' = SettledKeys /\ GoneKeys' = GoneKeys /\ OrdersGoOn
  BY OrdersStand DEF PressCancel, KeepOrder, HearNoCancel, AskCancel, CheckoutInv, CheckoutShape
<1>1. /\ dialog' \in DialogRecord /\ dialog'.pc # "cancelled"
      /\ Asking' => \/ Asking /\ dialog'.idea = dialog.idea /\ dialog'.key = dialog.key
                    \/ /\ Noted(notes[dialog'.idea], dialog'.key) /\ ~Open
                       /\ dialog'.idea \in Ideas /\ dialog'.key \in SettledKeys
  <2>1. CASE PressCancel \/ HearNoCancel
    <3>1. dialog' = [dialog EXCEPT !.pc = "sent"] \/ dialog' = [dialog EXCEPT !.pc = "open"]
      BY <2>1 DEF PressCancel, HearNoCancel
    <3>2. Asking
      BY <2>1 DEF PressCancel, HearNoCancel, Asking
    <3> QED
      BY <1>0, <3>1, <3>2 DEF DialogRecord
  <2>2. CASE KeepOrder
    BY <2>2 DEF KeepOrder, NoDialog, DialogRecord, Asking
  <2>3. CASE \E i \in Ideas : AskCancel(i)
    <3>1. PICK i \in Ideas : AskCancel(i)
      BY <2>3
    <3>2. /\ dialog' = [pc |-> "open", idea |-> i, key |-> notes[i].key] /\ ~Open
          /\ notes[i] # NoNote /\ notes[i].key \in SettledKeys
      BY <3>1 DEF AskCancel, CheckoutInv, NotesFit, Open
    <3>3. notes[i].key \in Nat
      BY <3>2 DEF SettledKeys, OrderKeys
    <3> QED
      BY <3>2, <3>3 DEF DialogRecord, Noted
  <2> QED
    BY <2>1, <2>2, <2>3
<1>2. CheckoutShape'
  BY <1>0, <1>1 DEF CheckoutShape
<1>3. OneWorks' /\ PressesMade'
  BY <1>0, SamePressesKeep DEF Open
<1>4. WindowsFitPage'
  BY <1>0, <1>1 DEF CheckoutInv, WindowsFitPage, Open
<1>5. Remembered' /\ OneAtATime' /\ NotesFit'
  BY <1>0, <1>1, SamePressesKeepNotes DEF Open
<1> QED
  BY <1>2, <1>3, <1>4, <1>5 DEF CheckoutInv

\* The order whose note goes is gone.
LEMMA CancelledKeeps ==
  ASSUME CheckoutInv, HearCancelled
  PROVE  CheckoutInv'
<1> USE CheckoutAssumption DEF CheckoutAssumption
<1>0. /\ UNCHANGED <<orders, modal, previews, press, pageLoads>> /\ CheckoutShape
      /\ notes' = [notes EXCEPT ![dialog.idea] = NoNote] /\ notes \in [Ideas -> Note \cup {NoNote}]
      /\ dialog' = NoDialog /\ dialog.pc = "cancelled" /\ Asking /\ previews \in Nat
      /\ SettledKeys' = SettledKeys /\ GoneKeys' = GoneKeys /\ OrdersGoOn
  BY OrdersStand DEF HearCancelled, CheckoutInv, CheckoutShape, Asking
<1>1. /\ dialog' \in DialogRecord /\ ~Asking' /\ dialog'.pc # "cancelled"
      /\ dialog.idea \in Ideas /\ dialog.key \in GoneKeys
      /\ dialog.idea \in LateIdeas \/ Noted(notes[dialog.idea], dialog.key)
  BY <1>0 DEF NoDialog, DialogRecord, Asking, CheckoutInv, WindowsFitPage, NotesFit
<1>2. /\ notes' \in [Ideas -> Note \cup {NoNote}] /\ notes'[dialog.idea] = NoNote
      /\ \A i \in Ideas : i # dialog.idea => notes'[i] = notes[i]
  BY <1>0, <1>1
<1>3. CheckoutShape'
  BY <1>0, <1>1, <1>2 DEF CheckoutShape
<1>4. OneWorks' /\ PressesMade'
  BY <1>0, SamePressesKeep DEF Open
<1>5. WindowsFitPage'
  BY <1>0, <1>1 DEF CheckoutInv, WindowsFitPage, Open
<1>6. LateIdeas' = LateIdeas /\ ToldPresses' = ToldPresses
  BY <1>0 DEF LateIdeas, ToldPresses
<1>7. Remembered'
  <2> SUFFICES ASSUME NEW p \in ToldPresses, press[p].load = pageLoads
               PROVE  /\ press[p].key \in GoneKeys \/ Noted(notes'[press[p].idea], press[p].key)
                      /\ Open /\ modal.idea = press[p].idea => press[p].key \in GoneKeys
    BY <1>0, <1>6 DEF Remembered, Open
  <2>1. press[p].idea \in Ideas /\ press[p].idea \notin LateIdeas
    BY NoNewIsKnown, PressedIsMade DEF PressMade, ToldPresses
  <2>2. /\ press[p].key \in GoneKeys \/ Noted(notes[press[p].idea], press[p].key)
        /\ Open /\ modal.idea = press[p].idea => press[p].key \in GoneKeys
    BY DEF CheckoutInv, Remembered
  <2>3. CASE press[p].idea = dialog.idea
    BY <1>1, <2>1, <2>2, <2>3 DEF Noted
  <2>4. CASE press[p].idea # dialog.idea
    BY <1>2, <2>1, <2>2, <2>4
  <2> QED
    BY <2>3, <2>4
<1>8. OneAtATime'
  BY <1>0, <1>6 DEF CheckoutInv, OneAtATime
<1>9. NotesFit'
  BY <1>0, <1>1, <1>2 DEF CheckoutInv, NotesFit
<1> QED
  BY <1>3, <1>4, <1>5, <1>7, <1>8, <1>9 DEF CheckoutInv

LEMMA ReloadKeeps ==
  ASSUME CheckoutInv, Reload
  PROVE  CheckoutInv'
<1> USE CheckoutAssumption DEF CheckoutAssumption
<1>0. /\ UNCHANGED <<orders, previews>> /\ CheckoutShape
      /\ press \in [Presses -> PressRecord] /\ pageLoads \in Nat /\ pageLoads' = pageLoads + 1
      /\ modal' = NoModal /\ dialog' = NoDialog /\ notes' = [i \in Ideas |-> NoNote]
      /\ press' = [p \in Presses |-> IF Waits(p) THEN [press[p] EXCEPT !.heard = "gone"] ELSE press[p]]
  BY DEF Reload, CheckoutInv, CheckoutShape
<1>1. /\ modal' \in ModalRecord /\ ~Open' /\ modal'.preview = 0
      /\ dialog' \in DialogRecord /\ ~Asking' /\ dialog'.pc # "cancelled"
  BY <1>0 DEF NoModal, ModalRecord, Open, NoDialog, DialogRecord, Asking
<1>2. \A p \in Presses :
        /\ press'[p] \in PressRecord
        /\ press'[p].idea = press[p].idea /\ press'[p].preview = press[p].preview
        /\ press'[p].load = press[p].load /\ press'[p].key = press[p].key
        /\ press'[p].pc = press[p].pc /\ press'[p].answer = press[p].answer
        /\ press'[p].heard = IF Waits(p) THEN "gone" ELSE press[p].heard
        /\ ~Waits(p) => press'[p] = press[p]
  <2> SUFFICES ASSUME NEW p \in Presses
               PROVE  /\ press'[p] \in PressRecord
                      /\ press'[p].idea = press[p].idea /\ press'[p].preview = press[p].preview
                      /\ press'[p].load = press[p].load /\ press'[p].key = press[p].key
                      /\ press'[p].pc = press[p].pc /\ press'[p].answer = press[p].answer
                      /\ press'[p].heard = IF Waits(p) THEN "gone" ELSE press[p].heard
                      /\ ~Waits(p) => press'[p] = press[p]
    OBVIOUS
  <2>1. press[p] \in PressRecord
    BY <1>0
  <2>2. CASE Waits(p)
    <3>1. press'[p] = [press[p] EXCEPT !.heard = "gone"]
      BY <1>0, <2>2
    <3> QED
      BY <2>1, <2>2, <3>1 DEF PressRecord
  <2>3. CASE ~Waits(p)
    BY <1>0, <2>1, <2>3
  <2> QED
    BY <2>2, <2>3
<1>3. press' \in [Presses -> PressRecord]
  <2>1. press' = [p \in Presses |-> press'[p]]
    BY <1>0
  <2> QED
    BY <1>2, <2>1
<1>4. SettledKeys' = SettledKeys /\ GoneKeys' = GoneKeys
  <2>1. SettledKeys' = SettledKeys
    BY <1>0, <1>2 DEF SettledKeys
  <2> QED
    BY <1>0, <2>1 DEF GoneKeys
<1>5. CheckoutShape'
  BY <1>0, <1>1, <1>3 DEF CheckoutShape
<1>6. OneWorks'
  BY <1>2 DEF CheckoutInv, OneWorks
<1>7. PressesMade'
  <2>1. ASSUME NEW p \in Presses, press[p].pc # "new" PROVE PressMade(p)'
    BY <1>0, <1>1, <1>2, <1>4, <2>1, PressedIsMade DEF PressMade, Waits, PressRecord
  <2> QED
    BY <1>2, <2>1 DEF CheckoutInv, PressesMade, NewPress, Waits
<1>8. WindowsFitPage'
  BY <1>1 DEF WindowsFitPage
<1>9. LateIdeas' = LateIdeas
  BY <1>2 DEF LateIdeas, Waits
<1>10. ToldPresses' = ToldPresses
  BY <1>2, <1>9 DEF ToldPresses, Waits
<1>11. Remembered'
  <2>1. ASSUME NEW p \in ToldPresses PROVE press[p].load <= pageLoads
    BY NoNewIsKnown, PressedIsMade DEF PressMade, ToldPresses
  <2>2. ASSUME NEW p \in ToldPresses PROVE press'[p].load # pageLoads'
    BY <1>0, <1>2, <2>1 DEF ToldPresses, PressRecord
  <2> QED
    BY <1>10, <2>2 DEF Remembered
<1>12. OneAtATime'
  BY <1>2, <1>4, <1>10 DEF CheckoutInv, OneAtATime, ToldPresses
<1>13. NotesFit'
  BY <1>0, <1>1 DEF NotesFit
<1> QED
  BY <1>5, <1>6, <1>7, <1>8, <1>11, <1>12, <1>13 DEF CheckoutInv

-----------------------------------------------------------------------------
LEMMA CheckoutStarts == ASSUME CheckoutInit PROVE CheckoutInv
<1> USE CheckoutAssumption DEF CheckoutAssumption
<1>1. press = [p \in Presses |-> NewPress] /\ NewPress \in PressRecord /\ ~Open /\ ~Asking /\ modal.preview = 0
      /\ modal \in ModalRecord /\ dialog \in DialogRecord /\ dialog.pc = "closed"
  BY DEF CheckoutInit, NewPress, PressRecord, NoModal, ModalRecord, NoDialog, DialogRecord, Open, Asking
<1>2. \A p \in Presses : press[p] = NewPress /\ press[p].pc = "new" /\ press[p].heard = "no"
  BY <1>1 DEF NewPress
<1>3. ToldPresses = {}
  BY <1>2 DEF ToldPresses
<1>4. CheckoutShape
  BY <1>1 DEF CheckoutShape, CheckoutInit
<1> QED
  BY <1>1, <1>2, <1>3, <1>4
  DEF CheckoutInv, CheckoutInit, OneWorks, PressesMade, WindowsFitPage, Remembered, OneAtATime, NotesFit

LEMMA CheckoutKeeps == ASSUME CheckoutInv, [CheckoutNext]_checkoutVars PROVE CheckoutInv'
<1>1. CASE UNCHANGED checkoutVars
  BY <1>1 DEF checkoutVars, CheckoutInv, CheckoutShape, OneWorks, PressesMade, PressMade, WindowsFitPage,
              Remembered, OneAtATime, NotesFit, ToldPresses, LateIdeas, SettledKeys, GoneKeys, Open, Asking
<1>2. CASE CheckoutNext
  BY <1>2, ModalKeeps, PressOrderKeeps, PlaceArrivesKeeps, PlaceEndsKeeps, OrderChangesKeep, AnswerKeeps,
     ErrorKeeps, DialogKeeps, CancelledKeeps, ReloadKeeps
  DEF CheckoutNext
<1> QED
  BY <1>1, <1>2

\* A gift is ordered once, however often a button is pressed after errors, lost
\* answers and reloads: handleConfirm's key per preview (order-preview-modal.tsx),
\* place()'s answer for a known key and the page's orderedSuggestions.
THEOREM AGiftIsOrderedOnce == CheckoutSpec => []OrderedOnce
<1>1. CheckoutInv => OrderedOnce
  <2> SUFFICES ASSUME CheckoutInv, NEW p \in Presses, NEW q \in Presses,
                      p < q, press[p].key # press[q].key, press[q].pc # "new", press[p].idea = press[q].idea,
                      Live(p), Live(q)
               PROVE  /\ press[p].preview # press[q].preview
                      /\ press[p].load = press[q].load /\ press[p].heard = "done" /\ press[q].heard = "done" =>
                           \E r \in Presses : press[r].idea = press[p].idea /\ press[r].heard = "late"
    BY DEF OrderedOnce
  <2>1. PressMade(q) /\ press[q].idea \in Ideas
    BY PressedIsMade DEF PressMade
  <2>2. press[p].pc # "new"
    BY <2>1, CheckoutAssumption DEF CheckoutInv, PressesMade, NewPress, CheckoutAssumption
  <2>3. press[p].key = press[p].preview /\ press[q].key = press[q].preview
    BY <2>1, <2>2, PressedIsMade DEF PressMade
  <2>4. press[p].key \notin GoneKeys /\ press[q].key \notin GoneKeys
    BY DEF Live, GoneKeys
  <2> QED
    BY <2>1, <2>3, <2>4 DEF CheckoutInv, OneAtATime, ToldPresses, LateIdeas
<1> QED
  BY <1>1, CheckoutStarts, CheckoutKeeps, PTL DEF CheckoutSpec
=============================================================================
