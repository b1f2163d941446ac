----------------------------- MODULE MCPayments -----------------------------
(* Instances of Payments for TLC: the kinds of the bills and the account   *)
(* they top up.                                                            *)
EXTENDS Payments, TLC

CONSTANTS invoice, sms, wallet

Kind == (invoice :> "flag") @@ (sms :> "sms_order") @@ (wallet :> "wallet_topup")
BillKinds == [b \in Bills |-> Kind[b]]

(* All bills belong to one domain; its SMS account and its wallet are two  *)
(* accounts.                                                               *)
BillAccounts == [b \in Bills |-> IF b = wallet THEN "wallet" ELSE "sms"]

Symmetry == Permutations(Workers)
=============================================================================
