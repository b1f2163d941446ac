------------------------------ MODULE Payments ------------------------------
(***************************************************************************)
(* PaymentOrchestrator and PaymentSideEffects: payment intents, the        *)
(* requests that start, finish and cancel them, and what a settled payment *)
(* does to the bill it pays.  PHP workers serve the requests concurrently  *)
(* against PostgreSQL (READ COMMITTED).  A worker is between two of its    *)
(* database statements or gateway calls; statements outside a transaction  *)
(* commit at once.  finish is one transaction that holds the lock of its   *)
(* intent row, so what it writes stays with the worker until it commits    *)
(* and is lost when the worker dies or an exception rolls it back.         *)
(***************************************************************************)
EXTENDS Naturals, FiniteSets, PaymentGateways

CONSTANTS
  Workers,     \* PHP workers, each serving one request at a time
  Bills,       \* what can be paid: a (payable_type, payable_id) pair
  BillKind,    \* how PaymentSideEffects treats each bill
  Accounts,    \* wallet and SMS balances, one per domain
  AccountOf,   \* the account a bill of a crediting kind tops up
  Keys,        \* idempotency keys the clients use
  Gateways,    \* gateways that are enabled
  MaxIntents,  \* bound: rows the payment_intents table can get
  None         \* no key, no bill, no intent

(* "flag" stands for the sales, accounting and project invoices, the       *)
(* marketplace order, the license and the subscription, whose effect marks *)
(* the bill; "generic" has no effect.                                      *)
Kinds == {"flag", "sms_order", "wallet_topup", "generic"}

ASSUME BillKindAssumption == BillKind \in [Bills -> Kinds]
ASSUME AccountAssumption == AccountOf \in [Bills -> Accounts]
ASSUME GatewayAssumption == Gateways \subseteq GatewayCodes
ASSUME MaxIntentsAssumption == MaxIntents \in Nat
ASSUME NoneAssumption ==
  None \notin Keys /\ None \notin Bills /\ None \notin 1..MaxIntents

Intents == 1..MaxIntents

Statuses == {"none", "pending", "redirected", "verified", "settled",
             "failed", "cancelled", "reverted"}

(* The entry types the properties tell apart; "initiated", "fee",          *)
(* "verified", "failed" and "cancelled" entries are left out.              *)
EntryTypes == {"settled", "side_effect"}

VARIABLES
  row,        \* payment_intents, as committed
  ledger,     \* payment_ledger_entries: which entry types an intent has
  paid,       \* bills whose row is marked paid
  balance,    \* balance of each wallet or SMS account
  credited,   \* balance-ledger rows written for each intent
  provider,   \* the provider's record of each intent
  captured,   \* history: intents whose money was captured at some time
  applied,    \* history: committed runs of the side effects of each intent
  pc,         \* where each worker is
  job         \* what each worker remembers

dbVars == <<row, ledger, paid, balance, credited>>
vars == <<row, ledger, paid, balance, credited, provider, captured, applied,
          pc, job>>

(* A row: key is idempotency_key, redirect that authority and redirect_url *)
(* are stored, aged that it is older than two hours, effects that          *)
(* side_effects_at is set.                                                 *)
Row == [status : Statuses, key : Keys \cup {None}, bill : Bills \cup {None},
        gateway : Gateways \cup {None}, redirect : BOOLEAN, aged : BOOLEAN,
        effects : BOOLEAN]

NoRow == [status |-> "none", key |-> None, bill |-> None, gateway |-> None,
          redirect |-> FALSE, aged |-> FALSE, effects |-> FALSE]

(* The columns of an in-memory intent that cancel decides by or that a     *)
(* save of the whole model would write back.                               *)
Copy == [status : Statuses, redirect : BOOLEAN, effects : BOOLEAN]

CopyOf(r) == [status |-> r.status, redirect |-> r.redirect, effects |-> r.effects]

(* What a request remembers: its input, the intent it works on and its     *)
(* in-memory copy of the row, the last gateway answer, and for the side    *)
(* effects whether they run, what they will write and the balance read.    *)
Job == [intent : Intents \cup {None}, bill : Bills \cup {None},
        key : Keys \cup {None}, gateway : Gateways \cup {None}, copy : Copy,
        ok : BOOLEAN, apply : BOOLEAN, writes : SUBSET {"bill", "account"},
        seen : Nat]

NoJob == [intent |-> None, bill |-> None, key |-> None, gateway |-> None,
          copy |-> CopyOf(NoRow), ok |-> FALSE, apply |-> FALSE, writes |-> {},
          seen |-> 0]

StartSteps == {"s_key", "s_free", "s_open", "s_create", "s_request", "s_record"}
FinishSteps == {"f_verify", "f_settle", "f_effects", "f_order", "f_commit"}
CancelSteps == {"c_call", "c_write"}
Steps == {"idle"} \cup StartSteps \cup FinishSteps \cup CancelSteps

TypeOK ==
  /\ row \in [Intents -> Row]
  /\ ledger \in [Intents -> SUBSET EntryTypes]
  /\ paid \in SUBSET Bills
  /\ balance \in [Accounts -> Nat]
  /\ credited \in [Intents -> Nat]
  /\ provider \in [Intents -> ProviderStates]
  /\ captured \in SUBSET Intents
  /\ applied \in [Intents -> Nat]
  /\ pc \in [Workers -> Steps]
  /\ job \in [Workers -> Job]

Init ==
  /\ row = [i \in Intents |-> NoRow]
  /\ ledger = [i \in Intents |-> {}]
  /\ paid = {}
  /\ balance = [a \in Accounts |-> 0]
  /\ credited = [i \in Intents |-> 0]
  /\ provider = [i \in Intents |-> "none"]
  /\ captured = {}
  /\ applied = [i \in Intents |-> 0]
  /\ pc = [w \in Workers |-> "idle"]
  /\ job = [w \in Workers |-> NoJob]

-----------------------------------------------------------------------------
(* Mutant: finish reads the row without a lock.                            *)
NeverLocked(i) == FALSE

(* lockForUpdate: the row of an intent is locked by the finish request     *)
(* that works on it; every other write to the row waits.                   *)
Locked(i) == \E w \in Workers : pc[w] \in FinishSteps /\ job[w].intent = i

(* An SMS order that a transaction has updated and not committed yet.      *)
OrderLocked(b) ==
  \E w \in Workers : /\ pc[w] = "f_commit" /\ "bill" \in job[w].writes
                     /\ BillKind[b] = "sms_order" /\ job[w].bill = b

Goto(w, step) == pc' = [pc EXCEPT ![w] = step]

(* The request is answered; the worker forgets it.                         *)
Respond(w) ==
  /\ pc' = [pc EXCEPT ![w] = "idle"]
  /\ job' = [job EXCEPT ![w] = NoJob]

SetStatus(i, status) == row' = [row EXCEPT ![i].status = status]

(* A gateway call of intent i leaves the provider in this state.           *)
ProviderBecomes(i, state) ==
  /\ provider' = [provider EXCEPT ![i] = state]
  /\ captured' = IF state = "settled" THEN captured \cup {i} ELSE captured

-----------------------------------------------------------------------------
(* start *)

(* The bill is resolved; a bill that is already paid is refused.           *)
StartResolve(w, b, g, k) ==
  /\ pc[w] = "idle"
  /\ b \notin paid
  /\ Goto(w, "s_key")
  /\ job' = [job EXCEPT ![w] = [NoJob EXCEPT !.bill = b, !.gateway = g, !.key = k]]
  /\ UNCHANGED <<dbVars, provider, captured, applied>>

WithKey(k) == {i \in Intents : k # None /\ row[i].key = k}

(* The intent that has the key is returned unless it failed or was         *)
(* cancelled; then the key will be taken away from it.                     *)
StartFindKey(w) ==
  /\ pc[w] = "s_key"
  /\ \/ /\ WithKey(job[w].key) = {}
        /\ Goto(w, "s_open")
        /\ UNCHANGED job
     \/ \E i \in WithKey(job[w].key) :
          IF row[i].status \in {"failed", "cancelled"}
          THEN /\ Goto(w, "s_free")
               /\ job' = [job EXCEPT ![w].intent = i]
          ELSE Respond(w)
  /\ UNCHANGED <<dbVars, provider, captured, applied>>

StartFreeKey(w) ==
  /\ pc[w] = "s_free"
  /\ ~Locked(job[w].intent)
  /\ row' = [row EXCEPT ![job[w].intent].key = None]
  /\ Goto(w, "s_open")
  /\ job' = [job EXCEPT ![w].intent = None]
  /\ UNCHANGED <<ledger, paid, balance, credited, provider, captured, applied>>

(* Open sessions of the bill through the same gateway.  Mode and amount    *)
(* are those of the bill.                                                  *)
OpenSessions(b, g) ==
  {i \in Intents : /\ row[i].bill = b /\ row[i].gateway = g
                   /\ row[i].status \in {"pending", "redirected"}
                   /\ ~row[i].aged}

(* The latest open session is returned if the customer can be sent to it.  *)
StartFindOpen(w) ==
  LET open == OpenSessions(job[w].bill, job[w].gateway)
      reusable == \E i \in open : row[i].redirect /\ \A j \in open : j <= i
  IN  /\ pc[w] = "s_open"
      /\ IF reusable THEN Respond(w) ELSE Goto(w, "s_create") /\ UNCHANGED job
      /\ UNCHANGED <<dbVars, provider, captured, applied>>

Unused(i) == row[i].status = "none" /\ \A j \in 1..(i - 1) : row[j].status # "none"

(* The row is inserted, unless another row has the key by now (the unique  *)
(* index raises an exception) or the bound MaxIntents is reached.          *)
StartInsert(w) ==
  /\ pc[w] = "s_create"
  /\ \/ /\ \/ WithKey(job[w].key) # {}
           \/ \A i \in Intents : ~Unused(i)
        /\ Respond(w)
        /\ UNCHANGED row
     \/ \E i \in Intents :
          /\ Unused(i)
          /\ WithKey(job[w].key) = {}
          /\ row' = [row EXCEPT ![i] =
               [NoRow EXCEPT !.status = "pending", !.key = job[w].key,
                             !.bill = job[w].bill, !.gateway = job[w].gateway]]
          /\ Goto(w, "s_request")
          /\ job' = [job EXCEPT ![w].intent = i]
  /\ UNCHANGED <<ledger, paid, balance, credited, provider, captured, applied>>

StartRequest(w) ==
  /\ pc[w] = "s_request"
  /\ \E a \in RequestAnswers :
       /\ ProviderBecomes(job[w].intent, a.provider)
       /\ job' = [job EXCEPT ![w].ok = a.ok]
  /\ Goto(w, "s_record")
  /\ UNCHANGED <<dbVars, applied>>

(* The answer is stored whatever became of the row in the meantime.        *)
StartRecord(w) ==
  LET i == job[w].intent
  IN  /\ pc[w] = "s_record"
      /\ ~Locked(i)
      /\ IF job[w].ok
         THEN row' = [row EXCEPT ![i].status = "redirected", ![i].redirect = TRUE]
         ELSE SetStatus(i, "failed")
      /\ Respond(w)
      /\ UNCHANGED <<ledger, paid, balance, credited, provider, captured, applied>>

-----------------------------------------------------------------------------
(* finish: a callback of the gateway, possibly repeated, late or early.    *)

(* The transaction locks the row.  A settled intent is answered as it is.  *)
FinishLock(w, i) ==
  /\ pc[w] = "idle"
  /\ provider[i] # "none"
  /\ ~Locked(i)
  /\ row[i].status # "settled"
  /\ Goto(w, "f_verify")
  /\ job' = [job EXCEPT ![w] = [NoJob EXCEPT !.intent = i, !.bill = row[i].bill,
                                             !.gateway = row[i].gateway]]
  /\ UNCHANGED <<dbVars, provider, captured, applied>>

(* A failed verification is committed at once.                             *)
FinishVerify(w) ==
  LET i == job[w].intent
  IN  /\ pc[w] = "f_verify"
      /\ \E a \in VerifyAnswers(job[w].gateway, provider[i]) :
           /\ ProviderBecomes(i, a.provider)
           /\ IF a.ok
              THEN Goto(w, "f_settle") /\ UNCHANGED <<row, job>>
              ELSE SetStatus(i, "failed") /\ Respond(w)
      /\ UNCHANGED <<ledger, paid, balance, credited, applied>>

(* Mutant: the answer of settlePayment is ignored.                         *)
FinishSettleIgnoringAnswer(w) ==
  LET i == job[w].intent
  IN  /\ pc[w] = "f_settle"
      /\ \E a \in SettleAnswers(job[w].gateway, provider[i]) :
           ProviderBecomes(i, a.provider)
      /\ Goto(w, "f_effects")
      /\ UNCHANGED <<dbVars, applied, job>>

(* Mutant: the status is committed before the side effects run.            *)
FinishSettleCommitting(w) ==
  LET i == job[w].intent
  IN  /\ pc[w] = "f_settle"
      /\ \E a \in SettleAnswers(job[w].gateway, provider[i]) :
           /\ ProviderBecomes(i, a.provider)
           /\ IF a.ok
              THEN SetStatus(i, "settled") /\ Goto(w, "f_effects") /\ UNCHANGED job
              ELSE SetStatus(i, "verified") /\ Respond(w)
      /\ UNCHANGED <<ledger, paid, balance, credited, applied>>

(* Mutant: a refused settlement is tried again until it succeeds.          *)
FinishSettleRetrying(w) ==
  LET i == job[w].intent
  IN  /\ pc[w] = "f_settle"
      /\ \E a \in SettleAnswers(job[w].gateway, provider[i]) :
           /\ ProviderBecomes(i, a.provider)
           /\ Goto(w, IF a.ok THEN "f_effects" ELSE "f_verify")
      /\ UNCHANGED <<dbVars, applied, job>>

(* A failed settlement commits the row as verified.                        *)
FinishSettle(w) ==
  LET i == job[w].intent
  IN  /\ pc[w] = "f_settle"
      /\ \E a \in SettleAnswers(job[w].gateway, provider[i]) :
           /\ ProviderBecomes(i, a.provider)
           /\ IF a.ok
              THEN Goto(w, "f_effects") /\ UNCHANGED <<row, job>>
              ELSE SetStatus(i, "verified") /\ Respond(w)
      /\ UNCHANGED <<ledger, paid, balance, credited, applied>>

(* PaymentSideEffects::apply returns when side_effects_at is set.          *)
EffectsPending(i) == ~row[i].effects

(* Mutant: the wallet ledger is searched for the bill, not for the intent. *)
EffectWritesOncePerBill(i, b) ==
  CASE BillKind[b] = "flag" /\ b \notin paid -> {"bill"}
    [] BillKind[b] = "sms_order" /\ b \notin paid -> {"bill", "account"}
    [] /\ BillKind[b] = "wallet_topup"
       /\ \A j \in Intents : row[j].bill = b => credited[j] = 0 -> {"account"}
    [] OTHER -> {}

(* What apply decides to write from what it reads: nothing for a bill that *)
(* is paid already, nothing for a wallet that has a row of this intent.    *)
EffectWrites(i, b) ==
  CASE BillKind[b] = "flag" /\ b \notin paid -> {"bill"}
    [] BillKind[b] = "sms_order" /\ b \notin paid -> {"bill", "account"}
    [] BillKind[b] = "wallet_topup" /\ credited[i] = 0 -> {"account"}
    [] OTHER -> {}

(* Mutant: the bill is written outside the transaction.                    *)
FinishReadEffectsWriting(w) ==
  LET i == job[w].intent
      b == job[w].bill
      writes == IF EffectsPending(i) THEN EffectWrites(i, b) ELSE {}
  IN  /\ pc[w] = "f_effects"
      /\ Goto(w, "f_commit")
      /\ paid' = IF "bill" \in writes THEN paid \cup {b} ELSE paid
      /\ job' = [job EXCEPT ![w].apply = EffectsPending(i), ![w].writes = writes]
      /\ UNCHANGED <<row, ledger, balance, credited, provider, captured, applied>>

FinishReadEffects(w) ==
  LET i == job[w].intent
      b == job[w].bill
      writes == IF EffectsPending(i) THEN EffectWrites(i, b) ELSE {}
  IN  /\ pc[w] = "f_effects"
      /\ Goto(w, IF writes = {"bill", "account"} THEN "f_order" ELSE "f_commit")
      /\ job' = [job EXCEPT ![w].apply = EffectsPending(i),
                            ![w].writes = writes,
                            ![w].seen = balance[AccountOf[b]]]
      /\ UNCHANGED <<dbVars, provider, captured, applied>>

(* Mutant: the order is committed as paid before the units are credited.   *)
FinishTakeOrderCommitting(w) ==
  /\ pc[w] = "f_order"
  /\ paid' = paid \cup {job[w].bill}
  /\ Goto(w, "f_commit")
  /\ job' = [job EXCEPT ![w].seen = balance[AccountOf[job[w].bill]]]
  /\ UNCHANGED <<row, ledger, balance, credited, provider, captured, applied>>

(* smsCredit updates the order, waiting for its row lock, and only then    *)
(* ModirPayamakManager::credit reads the balance.                          *)
FinishTakeOrder(w) ==
  /\ pc[w] = "f_order"
  /\ ~OrderLocked(job[w].bill)
  /\ Goto(w, "f_commit")
  /\ job' = [job EXCEPT ![w].seen = balance[AccountOf[job[w].bill]]]
  /\ UNCHANGED <<dbVars, provider, captured, applied>>

(* Mutant: the fee is credited along with the base amount.                 *)
FinishCommitWithFee(w) ==
  LET i == job[w].intent
      b == job[w].bill
      credits == "account" \in job[w].writes
  IN  /\ pc[w] = "f_commit"
      /\ row' = [row EXCEPT ![i].status = "settled", ![i].effects = TRUE]
      /\ ledger' = [ledger EXCEPT ![i] = @ \cup {"settled", "side_effect"}]
      /\ paid' = IF "bill" \in job[w].writes THEN paid \cup {b} ELSE paid
      /\ balance' = IF credits
                    THEN [balance EXCEPT ![AccountOf[b]] = job[w].seen + 2]
                    ELSE balance
      /\ credited' = IF credits THEN [credited EXCEPT ![i] = @ + 1] ELSE credited
      /\ applied' = IF job[w].apply THEN [applied EXCEPT ![i] = @ + 1] ELSE applied
      /\ Respond(w)
      /\ UNCHANGED <<provider, captured>>

(* The remaining writes and the commit.  A top-up counts one unit.         *)
FinishCommit(w) ==
  LET i == job[w].intent
      b == job[w].bill
      credits == "account" \in job[w].writes
  IN  /\ pc[w] = "f_commit"
      /\ row' = [row EXCEPT ![i].status = "settled", ![i].effects = TRUE]
      /\ ledger' = [ledger EXCEPT ![i] = @ \cup {"settled", "side_effect"}]
      /\ paid' = IF "bill" \in job[w].writes THEN paid \cup {b} ELSE paid
      /\ balance' = IF credits
                    THEN [balance EXCEPT ![AccountOf[b]] = job[w].seen + 1]
                    ELSE balance
      /\ credited' = IF credits THEN [credited EXCEPT ![i] = @ + 1] ELSE credited
      /\ applied' = IF job[w].apply THEN [applied EXCEPT ![i] = @ + 1] ELSE applied
      /\ Respond(w)
      /\ UNCHANGED <<provider, captured>>

-----------------------------------------------------------------------------
(* cancel: no transaction and no lock; all decisions use the copy of the   *)
(* row that the controller loaded.                                         *)

CancelLoad(w, i, confirm) ==
  /\ pc[w] = "idle"
  /\ row[i].status # "none"
  /\ row[i].status = "settled" => confirm
  /\ Goto(w, "c_call")
  /\ job' = [job EXCEPT ![w] = [NoJob EXCEPT !.intent = i, !.copy = CopyOf(row[i]),
                                             !.gateway = row[i].gateway]]
  /\ UNCHANGED <<dbVars, provider, captured, applied>>

CancelAnswersFor(copy, gateway, state) ==
  CASE copy.status = "settled" -> CancelAnswers(gateway, state)
    [] copy.status # "settled" /\ copy.redirect -> RevertAnswers(gateway, state)
    [] OTHER -> {Answer(TRUE, state)}

CancelCall(w) ==
  LET i == job[w].intent
  IN  /\ pc[w] = "c_call"
      /\ \E a \in CancelAnswersFor(job[w].copy, job[w].gateway, provider[i]) :
           /\ ProviderBecomes(i, a.provider)
           /\ IF a.ok THEN Goto(w, "c_write") /\ UNCHANGED job ELSE Respond(w)
      /\ UNCHANGED <<dbVars, applied>>

(* Mutant: the whole loaded model is written back.                         *)
CancelledRowFromCopy(current, copy) ==
  [current EXCEPT !.status = IF copy.status = "settled" THEN "reverted" ELSE "cancelled",
                  !.redirect = copy.redirect, !.effects = copy.effects]

(* Mutant: the status is spelt in a way no reader of the column knows.     *)
CancelledRowMisspelt(current, copy) == [current EXCEPT !.status = "canceled"]

(* Eloquent writes the columns that differ from the loaded copy: the       *)
(* status of an intent that was loaded as cancelled is not written.        *)
CancelledRow(current, copy) ==
  LET status == IF copy.status = "settled" THEN "reverted" ELSE "cancelled"
  IN  IF status = copy.status THEN current ELSE [current EXCEPT !.status = status]

CancelWrite(w) ==
  LET i == job[w].intent
  IN  /\ pc[w] = "c_write"
      /\ ~Locked(i)
      /\ row' = [row EXCEPT ![i] = CancelledRow(row[i], job[w].copy)]
      /\ Respond(w)
      /\ UNCHANGED <<ledger, paid, balance, credited, provider, captured, applied>>

-----------------------------------------------------------------------------
(* An exception or the death of the worker ends a request at any point: an *)
(* open transaction rolls back, what was committed or done at the provider *)
(* remains.                                                                *)
Abort(w) ==
  /\ pc[w] # "idle"
  /\ Respond(w)
  /\ UNCHANGED <<dbVars, provider, captured, applied>>

(* The customer, sent to the payment page, authorises the payment.         *)
CustomerPays(i) ==
  /\ row[i].redirect
  /\ provider[i] = "open"
  /\ ProviderBecomes(i, "paid")
  /\ UNCHANGED <<dbVars, applied, pc, job>>

(* The provider gives back money that was not captured in time.            *)
ProviderReturns(i) ==
  /\ provider[i] \in {"open", "paid", "verified"}
  /\ ProviderBecomes(i, "reversed")
  /\ UNCHANGED <<dbVars, applied, pc, job>>

TwoHoursPass(i) ==
  /\ row[i].status \in {"pending", "redirected"}
  /\ ~row[i].aged
  /\ row' = [row EXCEPT ![i].aged = TRUE]
  /\ UNCHANGED <<ledger, paid, balance, credited, provider, captured, applied,
                 pc, job>>

Start(w) ==
  \/ \E b \in Bills, g \in Gateways, k \in Keys \cup {None} : StartResolve(w, b, g, k)
  \/ StartFindKey(w) \/ StartFreeKey(w) \/ StartFindOpen(w)
  \/ StartInsert(w) \/ StartRequest(w) \/ StartRecord(w)

Finish(w) ==
  \/ \E i \in Intents : FinishLock(w, i)
  \/ FinishVerify(w) \/ FinishSettle(w) \/ FinishReadEffects(w)
  \/ FinishTakeOrder(w) \/ FinishCommit(w)

Cancel(w) ==
  \/ \E i \in Intents, confirm \in BOOLEAN : CancelLoad(w, i, confirm)
  \/ CancelCall(w) \/ CancelWrite(w)

Environment ==
  \/ \E w \in Workers : Abort(w)
  \/ \E i \in Intents : CustomerPays(i) \/ ProviderReturns(i) \/ TwoHoursPass(i)

Next == Environment \/ \E w \in Workers : Start(w) \/ Finish(w) \/ Cancel(w)

Spec == Init /\ [][Next]_vars

-----------------------------------------------------------------------------
(* Properties.                                                             *)

(* The side effects of an intent (PaymentSideEffects::apply) are committed *)
(* at most once, whatever mix of repeated callbacks, rollbacks, stale      *)
(* cancellations and re-settlements it goes through.                       *)
EffectsAtMostOnce == \A i \in Intents : applied[i] <= 1

(* "ERP verifies with the provider (and settles when that provider         *)
(* requires it) before any side effect": no intent has side_effects_at set *)
(* unless the provider captured its money, lost answers and concurrent     *)
(* reversals included.                                                     *)
EffectsNeedCapture == \A i \in Intents : row[i].effects => i \in captured

(* finish is atomic: an intent that reads "settled" has its side effects   *)
(* and its audit trail, however many workers died on the way.              *)
SettledIsComplete ==
  \A i \in Intents : row[i].status = "settled" =>
    row[i].effects /\ {"settled", "side_effect"} \subseteq ledger[i]

(* A bill is marked paid only for a captured intent of that very bill.     *)
PaidBillWasPaidFor ==
  \A b \in paid : \E i \in captured : row[i].bill = b /\ applied[i] > 0

(* An intent whose effects were applied never returns to a state in which  *)
(* start hands its payment page out again, although start, finish and      *)
(* cancel all write the status and only finish looks at the old one.       *)
NeverReopened ==
  [][\A i \in Intents : applied[i] > 0 =>
       row'[i].status \notin {"pending", "redirected"}]_row

(* The service keeps the promise of PaymentPromise: effects are deliveries *)
(* and paid bills are honoured, in the step of one delivery.               *)
Promise == INSTANCE PaymentPromise WITH
  Payments <- Intents, NoBill <- None,
  bill <- [i \in Intents |-> row[i].bill],
  delivered <- applied, honoured <- paid

KeepsPromise == Promise!PromiseSpec

IntentsOf(a) ==
  {i \in Intents : row[i].bill # None /\ AccountOf[row[i].bill] = a}

(* Concurrent top-ups of one account may lose a credit but never invent    *)
(* one: a balance is at most the money captured for the account.           *)
BalanceBacked ==
  \A a \in Accounts : balance[a] <= Cardinality(IntentsOf(a) \cap captured)

(* Every wallet top-up whose effects were applied has exactly one row in   *)
(* the wallet ledger, also when several top-ups of the domain race.        *)
TopUpRecordedOnce ==
  \A i \in Intents :
    row[i].effects /\ BillKind[row[i].bill] = "wallet_topup" => credited[i] = 1

(* An SMS order is marked paid and its units are credited together.        *)
PaidOrderWasCredited ==
  \A b \in paid : BillKind[b] = "sms_order" =>
    \E i \in Intents : row[i].bill = b /\ credited[i] > 0

(* A wallet balance is the sum of its ledger: "wallet_topup ... credits    *)
(* base_amount only".                                                      *)
WalletMatchesLedger ==
  \A a \in Accounts : balance[a] = Cardinality({i \in IntentsOf(a) : credited[i] > 0})

(* A settled intent is left only by a reversal of a settled intent, which  *)
(* the caller has to confirm: a dashboard that reads "settled" as paid     *)
(* never sees the payment fall back to "cancelled".                        *)
SettledOnlyReverted ==
  [][\A i \in Intents : row[i].status = "settled" =>
       row'[i].status \in {"settled", "reverted"}]_row

-----------------------------------------------------------------------------
(* Liveness.  Gateway calls time out after 25 s and PostgreSQL grants row  *)
(* locks in the order of the requests for them, so a request that can      *)
(* continue again and again does continue, or dies.                        *)
Continue(w) ==
  \/ StartFindKey(w) \/ StartFreeKey(w) \/ StartFindOpen(w)
  \/ StartInsert(w) \/ StartRequest(w) \/ StartRecord(w)
  \/ FinishVerify(w) \/ FinishSettle(w) \/ FinishReadEffects(w)
  \/ FinishTakeOrder(w) \/ FinishCommit(w)
  \/ CancelCall(w) \/ CancelWrite(w)

FairSpec == Spec /\ \A w \in Workers : SF_vars(Continue(w))

(* Every request ends: none waits forever for a row that others lock, and  *)
(* none repeats a gateway call without end.                                *)
RequestsEnd == \A w \in Workers : pc[w] # "idle" ~> pc[w] = "idle"
=============================================================================
