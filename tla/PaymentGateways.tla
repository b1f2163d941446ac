-------------------------- MODULE PaymentGateways --------------------------
(***************************************************************************)
(* The payment gateway drivers, seen from the orchestrator: each driver    *)
(* call is an HTTP request to a payment provider, and this module says     *)
(* which answers it can give and what has happened at the provider by      *)
(* then.  An answer is lost when the provider acted but GatewayHttp timed  *)
(* out (25 s) or got no response: it then reports a failure.               *)
(*                                                                         *)
(* "zarinpal" and "commerce" (every CommerceDriverAdapter gateway) capture *)
(* the money in verify; "snapppay" (also torobpay) and "digipay" capture   *)
(* it in a second call, settle or deliver.  The local simulators of the    *)
(* drivers, which talk to no provider, are not modelled.                   *)
(***************************************************************************)

GatewayCodes == {"zarinpal", "commerce", "snapppay", "digipay"}

CapturesInVerify == {"zarinpal", "commerce"}

(* The provider's own record of one payment: unknown to it, waiting for    *)
(* the customer, authorised by the customer, verified by the merchant,     *)
(* captured, or given back to the customer.                                *)
ProviderStates == {"none", "open", "paid", "verified", "settled", "reversed"}

Answer(ok, state) == [ok |-> ok, provider |-> state]

Answers == [ok : BOOLEAN, provider : ProviderStates]

(* A call that changed the provider's record, its response delivered or    *)
(* lost.                                                                   *)
Done(state) == {Answer(TRUE, state), Answer(FALSE, state)}

(* A call that the provider refused or never received.                     *)
Refused(state) == {Answer(FALSE, state)}

(* requestPayment: the provider opens a payment page for a new payment.    *)
RequestAnswers == Refused("none") \cup Done("open")

(* Mutant: a callback is trusted although the customer has not paid.       *)
VerifyAnswersTrusting(gateway, state) ==
  IF state \in {"open", "paid", "verified", "settled"} THEN Done("settled")
  ELSE Refused(state)

(* verifyPayment.  The driver refuses on its own when the callback says    *)
(* NOK or carries another amount; a repeated verify may succeed (Zarinpal  *)
(* answers 101).                                                           *)
VerifyAnswers(gateway, state) ==
  LET verified == IF gateway \in CapturesInVerify \/ state = "settled"
                  THEN "settled" ELSE "verified"
  IN  Refused(state) \cup
      IF state \in {"paid", "verified", "settled"} THEN Done(verified) ELSE {}

(* settlePayment: always a local success for the gateways that capture in  *)
(* verify, a remote call for the others.  SnappStyleDriver asks for the    *)
(* remote status when the call fails, which turns some lost answers into   *)
(* successes; the status query can be lost as well.                        *)
SettleAnswers(gateway, state) ==
  IF gateway \in CapturesInVerify THEN {Answer(TRUE, state)}
  ELSE Refused(state) \cup
       IF state \in {"verified", "settled"} THEN Done("settled") ELSE {}

(* A remote cancel, revert or reverse gives the money back.                *)
ReverseAnswers(state) ==
  Refused(state) \cup IF state = "none" THEN {} ELSE Done("reversed")

(* cancelPayment, called on a settled intent.                              *)
CancelAnswers(gateway, state) ==
  IF gateway \in CapturesInVerify THEN {Answer(TRUE, state)}
  ELSE ReverseAnswers(state)

(* revertPayment, called on an intent that is not settled: never supported *)
(* by Zarinpal, nothing to do for the commerce gateways.                   *)
RevertAnswers(gateway, state) ==
  CASE gateway = "zarinpal" -> Refused(state)
    [] gateway = "commerce" -> {Answer(TRUE, state)}
    [] OTHER -> ReverseAnswers(state)
=============================================================================
