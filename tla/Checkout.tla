------------------------------ MODULE Checkout ------------------------------
(***************************************************************************)
(* Ordering a suggestion on an event's page: the preview modal with its    *)
(* Idempotency-Key, the order the page remembers, and the cancel dialog.   *)
(* An answer may be lost or come after the modal was left, the page may be *)
(* loaded again, and a new access token makes an open modal start over.    *)
(***************************************************************************)
EXTENDS Naturals, Sequences

CONSTANTS
  Ideas,        \* selected suggestions; their cards offer "Order This"
  NoIdea, NoNote,
  MaxPreviews,  \* bound on the previews that are opened
  MaxPresses,   \* bound on the presses of "Confirm & Order"
  MaxReloads

Presses == 1 .. MaxPresses
OrderKeys == 1 .. MaxPreviews + MaxPresses
Note == [key : OrderKeys, status : {"pending", "ordered", "moving", "failed", "cancelled"}]

ASSUME CheckoutAssumption ==
  /\ {MaxPreviews, MaxPresses, MaxReloads} \subseteq Nat
  /\ NoIdea \notin Ideas /\ NoNote \notin Note

VARIABLES
  orders,    \* orders[k]: the order of the key k in the API's database
  modal,     \* the preview modal of the page
  previews,  \* previews opened so far, by any load of the page
  press,     \* press[p]: a press, its request and what the page heard of it
  notes,     \* orderedSuggestions: what the page remembers of an idea's order
  dialog,    \* the cancel dialog
  pageLoads      \* times the page was loaded

checkoutVars == <<orders, modal, previews, press, notes, dialog, pageLoads>>

NoModal == [pc |-> "closed", idea |-> NoIdea, preview |-> 0, mount |-> 0, placing |-> FALSE]
NoDialog == [pc |-> "closed", idea |-> NoIdea, key |-> 0]
NewPress == [pc |-> "new", idea |-> NoIdea, preview |-> 0, mount |-> 0, load |-> 0, key |-> 0,
             answer |-> "none", heard |-> "no"]

CheckoutTypeOK ==
  /\ orders \in [OrderKeys -> {"none", "pending", "ordered", "moving", "failed", "cancelled"}]
  /\ modal.pc \in {"closed", "loading", "ready", "error"} /\ modal.idea \in Ideas \cup {NoIdea}
  /\ modal.placing \in BOOLEAN /\ modal.preview \in 0 .. previews /\ previews \in 0 .. MaxPreviews
  /\ \A p \in Presses : /\ press[p].pc \in {"new", "sent", "working", "answered"}
                        /\ press[p].answer \in {"none", "error"} \cup {orders[k] : k \in OrderKeys} \cup {"pending", "ordered"}
                        /\ press[p].heard \in {"no", "done", "late", "error", "gone"}
  /\ notes \in [Ideas -> Note \cup {NoNote}]
  /\ dialog.pc \in {"closed", "open", "sent", "cancelled", "refused"} /\ dialog.idea \in Ideas \cup {NoIdea}
  /\ pageLoads \in 0 .. MaxReloads

CheckoutInit ==
  /\ orders = [k \in OrderKeys |-> "none"]
  /\ modal = NoModal /\ previews = 0
  /\ press = [p \in Presses |-> NewPress]
  /\ notes = [i \in Ideas |-> NoNote]
  /\ dialog = NoDialog
  /\ pageLoads = 0

-----------------------------------------------------------------------------
(* The modal.                                                              *)

\* The card offers an order if the page remembers none; dialogs are modal.
OrderThis(i) ==
  /\ modal.pc = "closed" /\ dialog.pc = "closed" /\ notes[i] = NoNote /\ previews < MaxPreviews
  /\ previews' = previews + 1
  /\ modal' = [NoModal EXCEPT !.pc = "loading", !.idea = i, !.preview = previews + 1, !.mount = previews + 1]
  /\ UNCHANGED <<orders, press, notes, dialog, pageLoads>>

PreviewAnswer(outcome) ==
  /\ modal.pc = "loading"
  /\ modal' = [modal EXCEPT !.pc = outcome]
  /\ UNCHANGED <<orders, previews, press, notes, dialog, pageLoads>>

\* The session got a new access token: the effect runs again, with a new key.
PreviewAgain ==
  /\ modal.pc # "closed" /\ previews < MaxPreviews
  /\ previews' = previews + 1
  /\ modal' = [modal EXCEPT !.pc = "loading", !.preview = previews + 1]
  /\ UNCHANGED <<orders, press, notes, dialog, pageLoads>>

\* Back, or Escape and a click outside even while an order is being placed.
CloseModal ==
  /\ modal.pc # "closed"
  /\ modal' = NoModal
  /\ UNCHANGED <<orders, previews, press, notes, dialog, pageLoads>>

\* A plausible bug: a key per press.
KeyForPress(p) == MaxPreviews + p

\* The key of the preview, whatever is pressed in it.
KeyFor(p) == modal.preview

PressOrder(p) ==
  /\ press[p].pc = "new" /\ \A q \in 1 .. p - 1 : press[q].pc # "new"
  /\ modal.pc = "ready" /\ ~modal.placing
  /\ modal' = [modal EXCEPT !.placing = TRUE]
  /\ press' = [press EXCEPT ![p] = [NewPress EXCEPT
       !.pc = "sent", !.idea = modal.idea, !.preview = modal.preview, !.mount = modal.mount,
       !.load = pageLoads, !.key = KeyFor(p)]]
  /\ UNCHANGED <<orders, previews, notes, dialog, pageLoads>>

-----------------------------------------------------------------------------
(* The API: place() and cancel() as the page sees them.                    *)

\* A key that is known answers with its order, in whatever state it is.
PlaceArrives(p) ==
  /\ press[p].pc = "sent"
  /\ IF orders[press[p].key] = "none"
     THEN /\ orders' = [orders EXCEPT ![press[p].key] = "pending"]
          /\ press' = [press EXCEPT ![p].pc = "working"]
     ELSE /\ press' = [press EXCEPT ![p].pc = "answered", ![p].answer = orders[press[p].key]]
          /\ UNCHANGED orders
  /\ UNCHANGED <<modal, previews, notes, dialog, pageLoads>>

\* Placed; or the charge or the retailer failed; or the process ended.
PlaceEnds(p, status) ==
  /\ press[p].pc = "working"
  /\ orders' = [orders EXCEPT ![press[p].key] = status]
  /\ press' = [press EXCEPT ![p].pc = "answered", ![p].answer = IF status = "ordered" THEN status ELSE "error"]
  /\ UNCHANGED <<modal, previews, notes, dialog, pageLoads>>

\* The retailer goes on with the order, or the window to cancel closes.
OrderMoves(k) ==
  /\ orders[k] = "ordered"
  /\ orders' = [orders EXCEPT ![k] = "moving"]
  /\ UNCHANGED <<modal, previews, press, notes, dialog, pageLoads>>

CancelArrives ==
  /\ dialog.pc = "sent"
  /\ IF orders[dialog.key] \in {"pending", "ordered"}
     THEN /\ orders' = [orders EXCEPT ![dialog.key] = "cancelled"]
          /\ dialog' = [dialog EXCEPT !.pc = "cancelled"]
     ELSE dialog' = [dialog EXCEPT !.pc = "refused"] /\ UNCHANGED orders
  /\ UNCHANGED <<modal, previews, press, notes, pageLoads>>

-----------------------------------------------------------------------------
(* What the page hears.                                                    *)

Waits(p) == press[p].pc # "new" /\ press[p].heard = "no"

\* handleOrderPlaced.
NoteOrder(p) == [notes EXCEPT ![press[p].idea] = [key |-> press[p].key, status |-> press[p].answer]]

\* The answer closes whatever modal is open, and is heard after it was left.
HearOrder(p) ==
  /\ Waits(p) /\ press[p].pc = "answered" /\ press[p].answer # "error"
  /\ press' = [press EXCEPT ![p].heard = IF modal.preview = press[p].preview THEN "done" ELSE "late"]
  /\ notes' = NoteOrder(p)
  /\ modal' = NoModal
  /\ UNCHANGED <<orders, previews, dialog, pageLoads>>

\* An error, or no answer at all: the modal stays, and one may press again.
HearError(p) ==
  /\ Waits(p)
  /\ press' = [press EXCEPT ![p].heard = "error"]
  /\ modal' = IF modal.pc # "closed" /\ modal.mount = press[p].mount
              THEN [modal EXCEPT !.placing = FALSE] ELSE modal
  /\ UNCHANGED <<orders, previews, notes, dialog, pageLoads>>

\* The countdown and its dialog are shown for an order noted as 'ordered'.
AskCancel(i) ==
  /\ modal.pc = "closed" /\ dialog.pc = "closed"
  /\ notes[i] # NoNote /\ notes[i].status = "ordered"
  /\ dialog' = [pc |-> "open", idea |-> i, key |-> notes[i].key]
  /\ UNCHANGED <<orders, modal, previews, press, notes, pageLoads>>

PressCancel ==
  /\ dialog.pc = "open"
  /\ dialog' = [dialog EXCEPT !.pc = "sent"]
  /\ UNCHANGED <<orders, modal, previews, press, notes, pageLoads>>

KeepOrder ==
  /\ dialog.pc = "open"
  /\ dialog' = NoDialog
  /\ UNCHANGED <<orders, modal, previews, press, notes, pageLoads>>

HearCancelled ==
  /\ dialog.pc = "cancelled"
  /\ notes' = [notes EXCEPT ![dialog.idea] = NoNote]
  /\ dialog' = NoDialog
  /\ UNCHANGED <<orders, modal, previews, press, pageLoads>>

\* Refused, or the answer is lost: the dialog stays, the note, too.
HearNoCancel ==
  /\ dialog.pc \in {"refused", "cancelled"}
  /\ dialog' = [dialog EXCEPT !.pc = "open"]
  /\ UNCHANGED <<orders, modal, previews, press, notes, pageLoads>>

\* The page is loaded again and has forgotten everything.
Reload ==
  /\ pageLoads < MaxReloads
  /\ pageLoads' = pageLoads + 1
  /\ modal' = NoModal /\ dialog' = NoDialog
  /\ notes' = [i \in Ideas |-> NoNote]
  /\ press' = [p \in Presses |-> IF Waits(p) THEN [press[p] EXCEPT !.heard = "gone"] ELSE press[p]]
  /\ UNCHANGED <<orders, previews>>

CheckoutNext ==
  \/ \E i \in Ideas : OrderThis(i) \/ AskCancel(i)
  \/ \E outcome \in {"ready", "error"} : PreviewAnswer(outcome)
  \/ PreviewAgain \/ CloseModal \/ PressCancel \/ KeepOrder \/ CancelArrives \/ HearCancelled \/ HearNoCancel
  \/ \E p \in Presses : PressOrder(p) \/ PlaceArrives(p) \/ HearOrder(p) \/ HearError(p)
  \/ \E p \in Presses, status \in {"ordered", "failed", "pending"} : PlaceEnds(p, status)
  \/ \E k \in OrderKeys : OrderMoves(k)
  \/ Reload

CheckoutSpec == CheckoutInit /\ [][CheckoutNext]_checkoutVars

-----------------------------------------------------------------------------
(* Properties.                                                             *)

Live(p) == orders[press[p].key] \in {"pending", "ordered", "moving"}

\* A gift is ordered once: one preview never has two live orders, however
\* often its button is pressed after errors and lost answers; and of the orders
\* that one load of the page was told of, a suggestion has one at most - a
\* second needs the first to be cancelled - unless an answer came after its
\* modal was left: that one closes another modal and takes over its note.
OrderedOnce ==
  \A p, q \in Presses :
    p < q /\ press[p].key # press[q].key /\ press[q].pc # "new" /\ press[p].idea = press[q].idea
    /\ Live(p) /\ Live(q) =>
      /\ press[p].preview # press[q].preview
      /\ press[p].load = press[q].load /\ press[p].heard = "done" /\ press[q].heard = "done" =>
           \E r \in Presses : press[r].idea = press[p].idea /\ press[r].heard = "late"

\* "Done." is said of orders that were placed.
DoneMeansOrdered ==
  \A p \in Presses : press[p].heard \in {"done", "late"} => press[p].answer # "failed"
=============================================================================
