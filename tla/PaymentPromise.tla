--------------------------- MODULE PaymentPromise ---------------------------
(***************************************************************************)
(* What the payment service promises about money and bills, with no        *)
(* workers, locks, retries or gateways: a payment is opened for one bill,  *)
(* its money may be captured, and what the customer bought is delivered    *)
(* once per payment and only against captured money.  A bill becomes paid  *)
(* in the very step that delivers a payment of that bill.                  *)
(***************************************************************************)
EXTENDS Naturals

CONSTANTS Payments,   \* identities of payments
          Bills,      \* what can be paid
          NoBill      \* the bill of a payment that was not opened yet

VARIABLES bill,       \* the bill each payment is for
          captured,   \* payments whose money the merchant has received
          delivered,  \* how many times each payment was delivered
          honoured    \* bills that are marked paid

promiseVars == <<bill, captured, delivered, honoured>>

PromiseInit ==
  /\ bill = [p \in Payments |-> NoBill]
  /\ captured = {}
  /\ delivered = [p \in Payments |-> 0]
  /\ honoured = {}

Open(p, b) ==
  /\ bill[p] = NoBill
  /\ bill' = [bill EXCEPT ![p] = b]
  /\ UNCHANGED <<captured, delivered, honoured>>

Capture(p) ==
  /\ bill[p] # NoBill
  /\ captured' = captured \cup {p}
  /\ UNCHANGED <<bill, delivered, honoured>>

Deliver(p) ==
  /\ p \in captured
  /\ delivered[p] = 0
  /\ delivered' = [delivered EXCEPT ![p] = 1]
  /\ honoured' \in {honoured, honoured \cup {bill[p]}}
  /\ UNCHANGED <<bill, captured>>

PromiseNext ==
  \E p \in Payments : Capture(p) \/ Deliver(p) \/ \E b \in Bills : Open(p, b)

PromiseSpec == PromiseInit /\ [][PromiseNext]_promiseVars
=============================================================================
