--------------------------- MODULE PurchaseLedger ---------------------------
(***************************************************************************)
(* What POST /orders/place promises for one Idempotency-Key, whatever the  *)
(* number of requests that carry it: "a replayed key (double-click,        *)
(* network retry) must return the order already created for it - never     *)
(* place + charge twice" (orders.service.ts, place).  The customer is      *)
(* charged at most once and the retailer is asked at most once; when the   *)
(* customer is charged at all, the purchase follows the charge and is made *)
(* for the request that paid; a charge is given back at most once.         *)
(***************************************************************************)
CONSTANTS Keys, Requests,
          Prepaid    \* is the customer charged before the retailer is asked?

VARIABLES charged,   \* charged[k]: the requests under k that charged the card
          refunded,  \* refunded[k]: those whose charge was given back
          bought     \* bought[k]: those for which the retailer has an order

ledger == <<charged, refunded, bought>>

Empty == [k \in Keys |-> {}]

Init == charged = Empty /\ refunded = Empty /\ bought = Empty

Charge(k, r) ==
  /\ charged[k] = {} /\ bought[k] = {}
  /\ charged' = [charged EXCEPT ![k] = {r}]
  /\ UNCHANGED <<refunded, bought>>

Refund(k, r) ==
  /\ r \in charged[k] \ refunded[k]
  /\ refunded' = [refunded EXCEPT ![k] = @ \cup {r}]
  /\ UNCHANGED <<charged, bought>>

Buy(k, r) ==
  /\ bought[k] = {}
  /\ Prepaid => r \in charged[k]
  /\ bought' = [bought EXCEPT ![k] = {r}]
  /\ UNCHANGED <<charged, refunded>>

Next == \E k \in Keys, r \in Requests : Charge(k, r) \/ Refund(k, r) \/ Buy(k, r)

Spec == Init /\ [][Next]_ledger
=============================================================================
