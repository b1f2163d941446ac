----------------------- MODULE PaymentsPromiseProofs ------------------------
(***************************************************************************)
(* What a step of Payments may do: every step is a step of PaymentPromise  *)
(* or leaves it unchanged (KeepsPromise), and a payment whose effects were *)
(* applied is never opened again (NeverReopened).                          *)
(***************************************************************************)
EXTENDS PaymentsProofs

(* The refinement mapping of KeepsPromise.                                 *)
AbsBill == [i \in Intents |-> row[i].bill]

AbsOpen(i, b) ==
  /\ AbsBill[i] = None
  /\ AbsBill' = [AbsBill EXCEPT ![i] = b]
  /\ UNCHANGED <<captured, applied, paid>>

AbsCapture(i) ==
  /\ AbsBill[i] # None
  /\ captured' = captured \cup {i}
  /\ UNCHANGED <<AbsBill, applied, paid>>

AbsDeliver(i) ==
  /\ i \in captured
  /\ applied[i] = 0
  /\ applied' = [applied EXCEPT ![i] = 1]
  /\ paid' \in {paid, paid \cup {AbsBill[i]}}
  /\ UNCHANGED <<AbsBill, captured>>

AbsStutter == UNCHANGED <<AbsBill, captured, applied, paid>>

AbsStep ==
  \/ AbsStutter
  \/ \E i \in Intents : AbsCapture(i) \/ AbsDeliver(i) \/ \E b \in Bills : AbsOpen(i, b)

-----------------------------------------------------------------------------
(* Steps that keep the bill of every row.                                  *)
BillsKept == \A i \in Intents : row'[i].bill = row[i].bill

LEMMA BillsKeptAbs ==
  ASSUME BillsKept
  PROVE  AbsBill' = AbsBill
BY DEF BillsKept, AbsBill, Intents

LEMMA QuietAbs ==
  ASSUME BillsKept, UNCHANGED <<captured, applied, paid>>
  PROVE  AbsStep
BY BillsKeptAbs DEF AbsStep, AbsStutter

(* A gateway call captures the money of its intent or leaves it as it is.  *)
LEMMA ProviderAbs ==
  ASSUME IInv, NEW i \in Intents, row[i].status # "none", NEW s, ProviderBecomes(i, s),
         BillsKept, UNCHANGED <<applied, paid>>
  PROVE  AbsStep
<1>1. AbsBill' = AbsBill
  BY BillsKeptAbs
<1>2. CASE captured' = captured
  BY <1>1, <1>2 DEF AbsStep, AbsStutter
<1>3. CASE captured' = captured \cup {i}
  <2>1. AbsBill[i] \in Bills
    BY DEF AbsBill, IInv, WorkInv, RowsExist
  <2>2. AbsBill[i] # None
    BY <2>1, NoneAssumption
  <2>3. QED BY <1>1, <1>3, <2>2 DEF AbsStep, AbsCapture
<1>4. QED BY <1>2, <1>3 DEF ProviderBecomes

LEMMA StatusKeepsBills ==
  ASSUME WorkInv, NEW i \in Intents, NEW s, SetStatus(i, s)
  PROVE  BillsKept
BY DEF WorkInv, TypeOK, Row, SetStatus, BillsKept

LEMMA StartAbs ==
  ASSUME IInv, NEW w \in Workers, Start(w)
  PROVE  AbsStep
<1>1. CASE StartFindKey(w) \/ StartFindOpen(w)
           \/ \E b \in Bills, g \in Gateways, k \in Keys \cup {None} : StartResolve(w, b, g, k)
  BY <1>1, QuietAbs DEF StartFindKey, StartFindOpen, StartResolve, dbVars, BillsKept
<1>2. CASE StartFreeKey(w)
  <2>1. job[w].intent \in Intents
    BY <1>2 DEF StartFreeKey, IInv, WorkInv, RowsExist, HoldsIntent
  <2>2. BillsKept
    BY <1>2, <2>1 DEF StartFreeKey, BillsKept, IInv, WorkInv, TypeOK, Row
  <2>3. QED BY <1>2, <2>2, QuietAbs DEF StartFreeKey
<1>3. CASE StartInsert(w)
  <2>1. CASE UNCHANGED row
    BY <1>3, <2>1, QuietAbs DEF StartInsert, BillsKept
  <2>2. ASSUME NEW i \in Intents, Unused(i),
               row' = [row EXCEPT ![i] =
                 [NoRow EXCEPT !.status = "pending", !.key = job[w].key,
                               !.bill = job[w].bill, !.gateway = job[w].gateway]]
        PROVE  AbsStep
    <3>1. row[i].bill = None /\ job[w].bill \in Bills
      BY <1>3, <2>2 DEF Unused, StartInsert, StartSteps, IInv, WorkInv, RowsExist
    <3>2. row'[i].bill = job[w].bill
      BY <2>2 DEF NoRow, IInv, WorkInv, TypeOK
    <3>3. \A j \in Intents : j # i => row'[j] = row[j]
      BY <2>2 DEF IInv, WorkInv, TypeOK
    <3>4. AbsBill[i] = None /\ AbsBill' = [AbsBill EXCEPT ![i] = job[w].bill]
      BY <3>1, <3>2, <3>3 DEF AbsBill, Intents
    <3>5. QED BY <1>3, <3>1, <3>4 DEF StartInsert, AbsStep, AbsOpen
  <2>3. QED BY <1>3, <2>1, <2>2 DEF StartInsert
<1>4. CASE StartRequest(w)
  <2>1. job[w].intent \in Intents /\ row[job[w].intent].status # "none"
    BY <1>4 DEF StartRequest, IInv, WorkInv, RowsExist, HoldsIntent
  <2>2. QED BY <1>4, <2>1, ProviderAbs DEF StartRequest, dbVars, BillsKept
<1>5. CASE StartRecord(w)
  <2>1. job[w].intent \in Intents
    BY <1>5 DEF StartRecord, IInv, WorkInv, RowsExist, HoldsIntent
  <2>2. CASE SetStatus(job[w].intent, "failed")
    BY <1>5, <2>1, <2>2, StatusKeepsBills, QuietAbs DEF StartRecord, IInv
  <2>3. CASE row' = [row EXCEPT ![job[w].intent].status = "redirected",
                                ![job[w].intent].redirect = TRUE]
    <3>1. BillsKept
      BY <2>1, <2>3 DEF BillsKept, IInv, WorkInv, TypeOK, Row
    <3>2. QED BY <1>5, <3>1, QuietAbs DEF StartRecord
  <2>4. QED BY <1>5, <2>2, <2>3 DEF StartRecord
<1>6. QED BY <1>1, <1>2, <1>3, <1>4, <1>5 DEF Start

LEMMA FinishAbs ==
  ASSUME IInv, NEW w \in Workers, Finish(w)
  PROVE  AbsStep
<1> DEFINE i == job[w].intent
<1>1. CASE FinishReadEffects(w) \/ FinishTakeOrder(w) \/ \E j \in Intents : FinishLock(w, j)
  BY <1>1, QuietAbs DEF FinishReadEffects, FinishTakeOrder, FinishLock, dbVars, BillsKept
<1>2. CASE FinishVerify(w) \/ FinishSettle(w)
  <2>1. i \in Intents /\ row[i].status # "none"
    BY <1>2 DEF FinishVerify, FinishSettle, IInv, WorkInv, RowsExist, HoldsIntent,
       FinishSteps
  <2>2. \/ UNCHANGED row
        \/ \E s : SetStatus(i, s)
    BY <1>2 DEF FinishVerify, FinishSettle
  <2>3. BillsKept
    BY <2>1, <2>2, StatusKeepsBills DEF IInv, BillsKept
  <2>4. /\ \E s : ProviderBecomes(i, s)
        /\ UNCHANGED <<applied, paid>>
    BY <1>2 DEF FinishVerify, FinishSettle
  <2>5. QED BY <2>1, <2>3, <2>4, ProviderAbs
<1>3. CASE FinishCommit(w)
  <2> DEFINE b == job[w].bill
  <2>1. /\ i \in Intents /\ i \in captured
        /\ row[i].bill = b /\ row'[i].bill = b
        /\ \A j \in Intents : j # i => row'[j] = row[j]
        /\ applied[i] = IF row[i].effects THEN 1 ELSE 0
        /\ applied'[i] = 1
        /\ \A j \in Intents : j # i => applied'[j] = applied[j]
        /\ paid' \in {paid, paid \cup {b}}
        /\ row[i].effects => applied' = applied /\ paid' = paid
        /\ UNCHANGED <<provider, captured>>
    BY <1>3, CommitFacts
  <2>2. /\ applied \in [Intents -> Nat]
        /\ applied' = IF job[w].apply THEN [applied EXCEPT ![i] = @ + 1] ELSE applied
    BY <1>3 DEF FinishCommit, IInv, WorkInv, TypeOK
  <2> HIDE DEF i, b
  <2>3. BillsKept
    BY <2>1 DEF BillsKept
  <2>4. CASE row[i].effects
    BY <2>1, <2>3, <2>4, QuietAbs
  <2>5. CASE ~row[i].effects
    <3>1. applied' = [applied EXCEPT ![i] = 1]
      BY <2>1, <2>2, <2>5
    <3>2. AbsBill[i] = b
      BY <2>1 DEF AbsBill
    <3>3. QED BY <2>1, <2>3, <2>5, <3>1, <3>2, BillsKeptAbs DEF AbsStep, AbsDeliver
  <2>6. QED BY <2>4, <2>5
<1>4. QED BY <1>1, <1>2, <1>3 DEF Finish

LEMMA CancelAbs ==
  ASSUME IInv, NEW w \in Workers, Cancel(w)
  PROVE  AbsStep
<1> DEFINE i == job[w].intent
<1>1. CASE \E j \in Intents, confirm \in BOOLEAN : CancelLoad(w, j, confirm)
  BY <1>1, QuietAbs DEF CancelLoad, dbVars, BillsKept
<1>2. CASE CancelCall(w)
  <2>1. i \in Intents /\ row[i].status # "none"
    BY <1>2 DEF CancelCall, IInv, WorkInv, RowsExist, HoldsIntent, CancelSteps
  <2>2. QED BY <1>2, <2>1, ProviderAbs DEF CancelCall, dbVars, BillsKept
<1>3. CASE CancelWrite(w)
  <2>1. i \in Intents
    BY <1>3 DEF CancelWrite, IInv, WorkInv, RowsExist, HoldsIntent, CancelSteps
  <2>2. UNCHANGED row \/ \E s : SetStatus(i, s)
    BY <1>3, <2>1 DEF CancelWrite, CancelledRow, SetStatus, IInv, WorkInv, TypeOK
  <2>3. BillsKept
    BY <2>1, <2>2, StatusKeepsBills DEF IInv, BillsKept
  <2>4. QED BY <1>3, <2>3, QuietAbs DEF CancelWrite
<1>4. QED BY <1>1, <1>2, <1>3 DEF Cancel

LEMMA EnvironmentAbs ==
  ASSUME IInv, Environment
  PROVE  AbsStep
<1>1. ASSUME NEW w \in Workers, Abort(w) PROVE AbsStep
  BY <1>1, QuietAbs DEF Abort, dbVars, BillsKept
<1>2. ASSUME NEW i \in Intents, CustomerPays(i) \/ ProviderReturns(i) PROVE AbsStep
  <2>1. row[i].status # "none"
    BY <1>2 DEF CustomerPays, ProviderReturns, IInv, WorkInv, RowsExist
  <2>2. QED BY <1>2, <2>1, ProviderAbs DEF CustomerPays, ProviderReturns, dbVars, BillsKept
<1>3. ASSUME NEW i \in Intents, TwoHoursPass(i) PROVE AbsStep
  <2>1. BillsKept
    BY <1>3 DEF TwoHoursPass, BillsKept, IInv, WorkInv, TypeOK, Row
  <2>2. QED BY <1>3, <2>1, QuietAbs DEF TwoHoursPass
<1>4. QED BY <1>1, <1>2, <1>3 DEF Environment

LEMMA StepAbs == IInv /\ [Next]_vars => AbsStep
<1> SUFFICES ASSUME IInv, [Next]_vars PROVE AbsStep
  OBVIOUS
<1>1. CASE Next
  BY <1>1, StartAbs, FinishAbs, CancelAbs, EnvironmentAbs DEF Next
<1>2. CASE UNCHANGED vars
  BY <1>2, QuietAbs DEF vars, BillsKept
<1>3. QED BY <1>1, <1>2

LEMMA StepPromise == IInv /\ [Next]_vars => [Promise!PromiseNext]_(Promise!promiseVars)
BY StepAbs DEF AbsStep, AbsStutter, AbsCapture, AbsDeliver, AbsOpen, AbsBill,
   Promise!PromiseNext, Promise!Open, Promise!Capture, Promise!Deliver,
   Promise!promiseVars

LEMMA InitPromise == Init => Promise!PromiseInit
BY DEF Init, NoRow, Promise!PromiseInit

(* The payment service implements PaymentPromise: money is captured for    *)
(* opened payments only, a payment is delivered at most once and only      *)
(* against captured money, and a bill is marked paid by a delivery of it.  *)
THEOREM PaymentsKeepPromise == Spec => KeepsPromise
<1>1. IInv /\ [Next]_vars => [Promise!PromiseNext]_(Promise!promiseVars)
  BY StepPromise
<1>2. Init => Promise!PromiseInit
  BY InitPromise
<1>3. QED BY <1>1, <1>2, IInvCorrect, PTL DEF Spec, KeepsPromise, Promise!PromiseSpec

-----------------------------------------------------------------------------
(* A request that inserted an intent is the only one that records the      *)
(* gateway's answer, and no customer can have paid by then.                *)
OwnStart == {"s_request", "s_record"}

Unpaid == {"none", "open", "reversed"}

Fresh(w) ==
  pc[w] \in OwnStart =>
    /\ ~row[job[w].intent].redirect
    /\ provider[job[w].intent] \in Unpaid
    /\ job[w].intent \notin captured

StartOwnsIntent ==
  /\ \A v, w \in Workers :
       /\ pc[v] \in OwnStart /\ pc[w] \in OwnStart
       /\ job[v].intent = job[w].intent
       => v = w
  /\ \A w \in Workers : Fresh(w)
  /\ \A i \in Intents : row[i].status = "none" => ~row[i].redirect

(* An applied intent is not open.                                          *)
AppliedNotOpen ==
  \A i \in Intents : applied[i] > 0 => row[i].status \notin {"pending", "redirected"}

OpenInv == IInv /\ StartOwnsIntent /\ AppliedNotOpen

(* A step opens no applied intent.                                         *)
OpensNone ==
  \A i \in Intents : applied[i] > 0 => row'[i].status \notin {"pending", "redirected"}

(* A step of any request that is not the start of the intent it concerns   *)
(* leaves the requests that own an intent, and what they rely on, alone.   *)
KeepsStarts ==
  /\ \A w \in Workers : pc'[w] \in OwnStart => Kept(w)
  /\ \A i \in Intents :
       /\ row'[i].redirect => row[i].redirect
       /\ row'[i].status = "none" => row[i].status = "none"
       /\ provider[i] \in Unpaid /\ ~row[i].redirect => provider'[i] \in Unpaid
       /\ provider[i] \in Unpaid /\ i \notin captured /\ ~row[i].redirect
            => i \notin captured'

LEMMA KeepsStartsOwn ==
  ASSUME WorkInv, StartOwnsIntent, KeepsStarts
  PROVE  StartOwnsIntent'
<1>1. ASSUME NEW w \in Workers PROVE Fresh(w)'
  <2>1. SUFFICES ASSUME pc'[w] \in OwnStart PROVE Fresh(w)'
    BY DEF Fresh
  <2>2. pc[w] \in OwnStart /\ Kept(w)
    BY <2>1 DEF KeepsStarts, Kept
  <2>3. job[w].intent \in Intents
    BY <2>2 DEF OwnStart, WorkInv, RowsExist, HoldsIntent
  <2>4. QED BY <2>2, <2>3 DEF StartOwnsIntent, Fresh, Kept, KeepsStarts
<1>2. QED BY <1>1 DEF StartOwnsIntent, KeepsStarts, Kept

(* A gateway answers nothing new about a payment nobody has paid.          *)
LEMMA UnpaidAnswers ==
  ASSUME NEW g, NEW s \in Unpaid
  PROVE  /\ \A a \in VerifyAnswers(g, s) : a.provider \in Unpaid
         /\ \A a \in SettleAnswers(g, s) : a.provider \in Unpaid
         /\ \A copy : \A a \in CancelAnswersFor(copy, g, s) : a.provider \in Unpaid
<1>1. \A a \in Refused(s) : a.provider = s
  BY DEF Refused, Answer
<1>2. \A a \in Done("reversed") : a.provider = "reversed"
  BY DEF Done, Answer
<1>3. Answer(TRUE, s).provider = s
  BY DEF Answer
<1>4. VerifyAnswers(g, s) = Refused(s)
  BY DEF VerifyAnswers, Unpaid
<1>5. \A a \in SettleAnswers(g, s) : a.provider = s
  BY <1>1, <1>3 DEF SettleAnswers, Unpaid
<1>6. \A a \in ReverseAnswers(s) : a.provider \in Unpaid
  BY <1>1, <1>2 DEF ReverseAnswers, Unpaid
<1>7. \A a \in CancelAnswers(g, s) : a.provider \in Unpaid
  BY <1>3, <1>6 DEF CancelAnswers, Unpaid
<1>8. \A a \in RevertAnswers(g, s) : a.provider \in Unpaid
  BY <1>1, <1>3, <1>6 DEF RevertAnswers, Unpaid
<1>9. ASSUME NEW copy, NEW a \in CancelAnswersFor(copy, g, s) PROVE a.provider \in Unpaid
  BY <1>3, <1>7, <1>8, <1>9 DEF CancelAnswersFor, Unpaid
<1>10. QED BY <1>1, <1>4, <1>5, <1>9 DEF Unpaid

(* Calls and environment steps on one intent, seen by the starts.          *)
LEMMA CallKeepsStarts ==
  ASSUME OpenInv, NEW i \in Intents, NEW s, ProviderBecomes(i, s),
         provider[i] \in Unpaid /\ ~row[i].redirect => s \in Unpaid,
         \A w \in Workers : pc'[w] \in OwnStart => Kept(w),
         UNCHANGED row \/ \E t \in Statuses \ {"none"} : SetStatus(i, t)
  PROVE  StartOwnsIntent'
<1>1. ASSUME NEW j \in Intents
      PROVE  /\ row'[j].redirect => row[j].redirect
             /\ row'[j].status = "none" => row[j].status = "none"
  BY DEF OpenInv, IInv, WorkInv, TypeOK, Row, SetStatus
<1>2. ASSUME NEW j \in Intents
      PROVE  /\ provider[j] \in Unpaid /\ ~row[j].redirect => provider'[j] \in Unpaid
             /\ provider[j] \in Unpaid /\ j \notin captured /\ ~row[j].redirect
                  => j \notin captured'
  BY DEF OpenInv, IInv, WorkInv, TypeOK, ProviderBecomes, Unpaid
<1>3. KeepsStarts
  BY <1>1, <1>2 DEF KeepsStarts
<1>4. QED BY <1>3, KeepsStartsOwn DEF OpenInv, IInv

LEMMA RowKeepsStarts ==
  ASSUME OpenInv, UNCHANGED <<provider, captured>>,
         \A w \in Workers : pc'[w] \in OwnStart => Kept(w),
         \A i \in Intents : /\ row'[i].redirect => row[i].redirect
                            /\ row'[i].status = "none" => row[i].status = "none"
  PROVE  StartOwnsIntent'
BY KeepsStartsOwn DEF OpenInv, IInv, KeepsStarts

LEMMA StartKeepsOwn ==
  ASSUME OpenInv, NEW w \in Workers, Start(w)
  PROVE  StartOwnsIntent' /\ OpensNone
<1> USE DEF OpenInv
<1>0. \A v \in Workers : v # w => Kept(v)
  BY DEF Start, StartResolve, StartFindKey, StartFreeKey, StartFindOpen, StartInsert,
     StartRequest, StartRecord, Respond, Goto, Kept, IInv, WorkInv, TypeOK
<1>1. CASE StartFindKey(w) \/ StartFindOpen(w)
           \/ \E b \in Bills, g \in Gateways, k \in Keys \cup {None} : StartResolve(w, b, g, k)
  <2>1. pc'[w] \notin OwnStart
    BY <1>1 DEF StartFindKey, StartFindOpen, StartResolve, Respond, Goto, OwnStart, IInv,
       WorkInv, TypeOK
  <2>2. UNCHANGED <<row, provider, captured, applied>>
    BY <1>1 DEF StartFindKey, StartFindOpen, StartResolve, dbVars
  <2>3. QED BY <1>0, <2>1, <2>2, RowKeepsStarts DEF OpensNone, AppliedNotOpen
<1>2. CASE StartFreeKey(w)
  <2>1. job[w].intent \in Intents
    BY <1>2 DEF StartFreeKey, IInv, WorkInv, RowsExist, HoldsIntent
  <2>2. pc'[w] \notin OwnStart
    BY <1>2 DEF StartFreeKey, Goto, OwnStart, IInv, WorkInv, TypeOK
  <2>3. \A i \in Intents : row'[i].redirect = row[i].redirect /\ row'[i].status = row[i].status
    BY <1>2, <2>1 DEF StartFreeKey, IInv, WorkInv, TypeOK, Row
  <2>4. UNCHANGED <<provider, captured>>
    BY <1>2 DEF StartFreeKey
  <2>5. QED BY <1>0, <2>2, <2>3, <2>4, RowKeepsStarts DEF OpensNone, AppliedNotOpen
<1>3. CASE StartInsert(w)
  <2>1. UNCHANGED <<provider, captured, applied>>
    BY <1>3 DEF StartInsert
  <2>2. CASE Respond(w) /\ UNCHANGED row
    <3>1. pc'[w] \notin OwnStart
      BY <2>2 DEF Respond, OwnStart, IInv, WorkInv, TypeOK
    <3>2. QED BY <1>0, <2>1, <2>2, <3>1, RowKeepsStarts DEF OpensNone, AppliedNotOpen
  <2>3. ASSUME NEW i \in Intents, Unused(i), Goto(w, "s_request"),
               row' = [row EXCEPT ![i] =
                 [NoRow EXCEPT !.status = "pending", !.key = job[w].key,
                               !.bill = job[w].bill, !.gateway = job[w].gateway]],
               job' = [job EXCEPT ![w].intent = i]
        PROVE  StartOwnsIntent' /\ OpensNone
    <3>1. /\ row[i].status = "none" /\ ~row[i].effects
          /\ provider[i] = "none" /\ i \notin captured
      BY <2>3 DEF Unused, IInv, WorkInv, RowsExist
    <3>2. row'[i].status = "pending" /\ ~row'[i].redirect
      BY <2>3 DEF NoRow, IInv, WorkInv, TypeOK
    <3>3. \A j \in Intents : j # i => row'[j] = row[j]
      BY <2>3 DEF IInv, WorkInv, TypeOK
    <3>4. job'[w].intent = i
      BY <2>3 DEF IInv, WorkInv, TypeOK, Job
    <3>5. \A v \in Workers : pc[v] \in OwnStart =>
            job[v].intent \in Intents /\ job[v].intent # i
      BY <3>1 DEF OwnStart, IInv, WorkInv, RowsExist, HoldsIntent
    <3>6. \A v \in Workers : Fresh(v)'
      <4>1. Fresh(w)'
        BY <2>1, <3>1, <3>2, <3>4 DEF Fresh, Unpaid
      <4>2. ASSUME NEW v \in Workers, v # w PROVE Fresh(v)'
        BY <1>0, <2>1, <3>3, <3>5, <4>2 DEF Kept, StartOwnsIntent, Fresh
      <4>3. QED BY <4>1, <4>2
    <3>7. \A u, v \in Workers :
            /\ pc'[u] \in OwnStart /\ pc'[v] \in OwnStart
            /\ job'[u].intent = job'[v].intent
            => u = v
      BY <1>0, <3>4, <3>5 DEF Kept, StartOwnsIntent
    <3>8. StartOwnsIntent'
      BY <3>2, <3>3, <3>6, <3>7 DEF StartOwnsIntent
    <3>9. applied[i] = 0
      BY <3>1 DEF IInv, MoneyInv, EffectsCounted
    <3>10. OpensNone
      BY <3>3, <3>9 DEF OpensNone, AppliedNotOpen
    <3>11. QED BY <3>8, <3>10
  <2>4. QED BY <1>3, <2>2, <2>3 DEF StartInsert
<1>4. CASE StartRequest(w)
  <2> DEFINE i == job[w].intent
  <2>1. i \in Intents /\ pc[w] \in OwnStart
    BY <1>4 DEF StartRequest, OwnStart, IInv, WorkInv, RowsExist, HoldsIntent
  <2>2. PICK a \in RequestAnswers :
          ProviderBecomes(i, a.provider) /\ job' = [job EXCEPT ![w].ok = a.ok]
    BY <1>4 DEF StartRequest
  <2>3. a.provider \in {"none", "open"}
    BY DEF RequestAnswers, Refused, Done, Answer
  <2>4. captured' = captured /\ provider'[i] \in Unpaid
        /\ \A j \in Intents : j # i => provider'[j] = provider[j]
    BY <2>1, <2>2, <2>3 DEF ProviderBecomes, Unpaid, IInv, WorkInv, TypeOK
  <2>5. row' = row /\ applied' = applied
    BY <1>4 DEF StartRequest, dbVars
  <2>6. job'[w].intent = i
    BY <2>2 DEF IInv, WorkInv, TypeOK, Job
  <2>7. \A v \in Workers : job'[v].intent = job[v].intent /\ (pc'[v] \in OwnStart => pc[v] \in OwnStart)
    BY <1>0, <2>1, <2>6 DEF Kept
  <2>8. StartOwnsIntent'
    <3>1. ASSUME NEW v \in Workers PROVE Fresh(v)'
      <4>1. pc[v] \in OwnStart => job[v].intent \in Intents
        BY DEF OwnStart, IInv, WorkInv, RowsExist, HoldsIntent
      <4>2. QED BY <2>4, <2>5, <2>7, <4>1 DEF StartOwnsIntent, Fresh
    <3>2. QED BY <2>5, <2>7, <3>1 DEF StartOwnsIntent
  <2>9. QED BY <2>5, <2>8 DEF OpensNone, AppliedNotOpen
<1>5. CASE StartRecord(w)
  <2> DEFINE i == job[w].intent
  <2>1. i \in Intents /\ pc[w] \in OwnStart /\ row[i].status # "none"
    BY <1>5 DEF StartRecord, OwnStart, IInv, WorkInv, RowsExist, HoldsIntent
  <2>2. pc'[w] \notin OwnStart
    BY <1>5 DEF StartRecord, Respond, OwnStart, IInv, WorkInv, TypeOK
  <2>3. UNCHANGED <<provider, captured, applied>>
    BY <1>5 DEF StartRecord
  <2>4. /\ \A j \in Intents : j # i => row'[j] = row[j]
        /\ row'[i].status # "none"
    BY <1>5, <2>1 DEF StartRecord, SetStatus, IInv, WorkInv, TypeOK, Row
  <2>5. i \notin captured
    BY <2>1 DEF StartOwnsIntent, Fresh
  <2>6. applied[i] = 0
    BY <2>1, <2>5 DEF IInv, MoneyInv, EffectsCounted, EffectsNeedCapture
  <2>7. \A v \in Workers : pc'[v] \in OwnStart =>
          Kept(v) /\ job[v].intent \in Intents /\ job[v].intent # i
    BY <1>0, <2>1, <2>2
       DEF Kept, OwnStart, IInv, WorkInv, RowsExist, HoldsIntent, StartOwnsIntent
  <2>8. StartOwnsIntent'
    <3>1. \A v \in Workers : Fresh(v)'
      BY <2>3, <2>4, <2>7 DEF StartOwnsIntent, Fresh, Kept
    <3>2. QED BY <2>4, <2>7, <3>1 DEF StartOwnsIntent, Kept
  <2>9. QED BY <2>4, <2>6, <2>8 DEF OpensNone, AppliedNotOpen
<1>6. QED BY <1>1, <1>2, <1>3, <1>4, <1>5 DEF Start

(* Changing the status of an intent does not open it.                      *)
LEMMA StatusOpensNone ==
  ASSUME OpenInv, UNCHANGED row \/
         \E i \in Intents, s \in Statuses \ {"pending", "redirected"} : SetStatus(i, s)
  PROVE  OpensNone
BY DEF OpenInv, IInv, WorkInv, TypeOK, Row, SetStatus, OpensNone, AppliedNotOpen

LEMMA FinishKeepsOwn ==
  ASSUME OpenInv, NEW w \in Workers, Finish(w)
  PROVE  StartOwnsIntent' /\ OpensNone
<1> USE DEF OpenInv
<1> DEFINE i == job[w].intent
<1>0. \A v \in Workers : v # w => Kept(v)
  BY DEF Finish, FinishLock, FinishVerify, FinishSettle, FinishReadEffects,
     FinishTakeOrder, FinishCommit, Respond, Goto, Kept, IInv, WorkInv, TypeOK
<1>1. pc'[w] \notin OwnStart
  BY DEF Finish, FinishLock, FinishVerify, FinishSettle, FinishReadEffects,
     FinishTakeOrder, FinishCommit, Respond, Goto, OwnStart, IInv, WorkInv, TypeOK
<1>2. CASE FinishReadEffects(w) \/ FinishTakeOrder(w) \/ \E j \in Intents : FinishLock(w, j)
  <2>1. UNCHANGED <<row, provider, captured>>
    BY <1>2 DEF FinishReadEffects, FinishTakeOrder, FinishLock, dbVars
  <2>2. QED BY <1>0, <1>1, <2>1, RowKeepsStarts, StatusOpensNone
<1>3. CASE FinishVerify(w) \/ FinishSettle(w)
  <2>1. i \in Intents
    BY <1>3 DEF FinishVerify, FinishSettle, IInv, WorkInv, RowsExist, HoldsIntent,
       FinishSteps
  <2>2. PICK a \in VerifyAnswers(job[w].gateway, provider[i])
                     \cup SettleAnswers(job[w].gateway, provider[i]) :
          ProviderBecomes(i, a.provider)
    BY <1>3 DEF FinishVerify, FinishSettle
  <2>3. provider[i] \in Unpaid => a.provider \in Unpaid
    BY <2>2, UnpaidAnswers
  <2>4. UNCHANGED row \/ \E t \in {"failed", "verified"} : SetStatus(i, t)
    BY <1>3 DEF FinishVerify, FinishSettle
  <2>5. StartOwnsIntent'
    <3>1. UNCHANGED row \/ \E t \in Statuses \ {"none"} : SetStatus(i, t)
      BY <2>4 DEF Statuses
    <3>2. QED BY <1>0, <1>1, <2>1, <2>2, <2>3, <3>1, CallKeepsStarts
  <2>6. OpensNone
    BY <2>1, <2>4, StatusOpensNone DEF Statuses
  <2>7. QED BY <2>5, <2>6
<1>4. CASE FinishCommit(w)
  <2>1. /\ i \in Intents
        /\ row'[i].status = "settled"
        /\ \A j \in Intents : j # i => row'[j] = row[j]
        /\ UNCHANGED <<provider, captured>>
    BY <1>4, CommitFacts
  <2>2. row'[i].redirect = row[i].redirect
    BY <1>4, <2>1 DEF FinishCommit, IInv, WorkInv, TypeOK, Row
  <2>3. StartOwnsIntent'
    BY <1>0, <1>1, <2>1, <2>2, RowKeepsStarts
  <2>4. OpensNone
    BY <2>1 DEF OpensNone, AppliedNotOpen
  <2>5. QED BY <2>3, <2>4
<1>5. QED BY <1>2, <1>3, <1>4 DEF Finish

LEMMA CancelKeepsOwn ==
  ASSUME OpenInv, NEW w \in Workers, Cancel(w)
  PROVE  StartOwnsIntent' /\ OpensNone
<1> USE DEF OpenInv
<1> DEFINE i == job[w].intent
<1>0. \A v \in Workers : v # w => Kept(v)
  BY DEF Cancel, CancelLoad, CancelCall, CancelWrite, Respond, Goto, Kept, IInv,
     WorkInv, TypeOK
<1>1. pc'[w] \notin OwnStart
  BY DEF Cancel, CancelLoad, CancelCall, CancelWrite, Respond, Goto, OwnStart, IInv,
     WorkInv, TypeOK
<1>2. CASE \E j \in Intents, confirm \in BOOLEAN : CancelLoad(w, j, confirm)
  <2>1. UNCHANGED <<row, provider, captured>>
    BY <1>2 DEF CancelLoad, dbVars
  <2>2. QED BY <1>0, <1>1, <2>1, RowKeepsStarts, StatusOpensNone
<1>3. CASE CancelCall(w)
  <2>1. i \in Intents
    BY <1>3 DEF CancelCall, IInv, WorkInv, RowsExist, HoldsIntent, CancelSteps
  <2>2. PICK a \in CancelAnswersFor(job[w].copy, job[w].gateway, provider[i]) :
          ProviderBecomes(i, a.provider)
    BY <1>3 DEF CancelCall
  <2>3. provider[i] \in Unpaid => a.provider \in Unpaid
    BY <2>2, UnpaidAnswers
  <2>4. UNCHANGED row
    BY <1>3 DEF CancelCall, dbVars
  <2>5. QED BY <1>0, <1>1, <2>1, <2>2, <2>3, <2>4, CallKeepsStarts, StatusOpensNone
<1>4. CASE CancelWrite(w)
  <2>1. i \in Intents
    BY <1>4 DEF CancelWrite, IInv, WorkInv, RowsExist, HoldsIntent, CancelSteps
  <2>2. row' = row \/ \E s \in {"cancelled", "reverted"} : SetStatus(i, s)
    BY <1>4, <2>1 DEF CancelWrite, CancelledRow, SetStatus, IInv, WorkInv, TypeOK
  <2>3. UNCHANGED <<provider, captured>>
    BY <1>4 DEF CancelWrite
  <2>4. \A j \in Intents : /\ row'[j].redirect => row[j].redirect
                           /\ row'[j].status = "none" => row[j].status = "none"
    BY <2>1, <2>2 DEF SetStatus, IInv, WorkInv, TypeOK, Row
  <2>5. OpensNone
    BY <2>1, <2>2, StatusOpensNone DEF Statuses
  <2>6. QED BY <1>0, <1>1, <2>3, <2>4, <2>5, RowKeepsStarts
<1>5. QED BY <1>2, <1>3, <1>4 DEF Cancel

LEMMA EnvironmentKeepsOwn ==
  ASSUME OpenInv, Environment
  PROVE  StartOwnsIntent' /\ OpensNone
<1> USE DEF OpenInv
<1>1. ASSUME NEW w \in Workers, Abort(w) PROVE StartOwnsIntent' /\ OpensNone
  <2>1. UNCHANGED <<row, provider, captured>>
    BY <1>1 DEF Abort, dbVars
  <2>2. \A v \in Workers : pc'[v] \in OwnStart => Kept(v)
    BY <1>1 DEF Abort, Respond, Kept, OwnStart, IInv, WorkInv, TypeOK
  <2>3. QED BY <2>1, <2>2, RowKeepsStarts, StatusOpensNone
<1>2. ASSUME NEW i \in Intents, CustomerPays(i) \/ ProviderReturns(i)
      PROVE  StartOwnsIntent' /\ OpensNone
  <2>1. PICK s \in {"paid", "reversed"} : ProviderBecomes(i, s)
                                          /\ (s = "reversed" \/ row[i].redirect)
    BY <1>2 DEF CustomerPays, ProviderReturns
  <2>2. UNCHANGED row /\ \A v \in Workers : Kept(v)
    BY <1>2 DEF CustomerPays, ProviderReturns, dbVars, Kept
  <2>3. QED BY <2>1, <2>2, CallKeepsStarts, StatusOpensNone DEF Unpaid
<1>3. ASSUME NEW i \in Intents, TwoHoursPass(i) PROVE StartOwnsIntent' /\ OpensNone
  <2>1. \A j \in Intents : row'[j].redirect = row[j].redirect /\ row'[j].status = row[j].status
    BY <1>3 DEF TwoHoursPass, IInv, WorkInv, TypeOK, Row
  <2>2. UNCHANGED <<provider, captured>> /\ \A v \in Workers : Kept(v)
    BY <1>3 DEF TwoHoursPass, Kept
  <2>3. QED BY <2>1, <2>2, RowKeepsStarts DEF OpensNone, AppliedNotOpen
<1>4. QED BY <1>1, <1>2, <1>3 DEF Environment

LEMMA OpenInvInit == Init => OpenInv
BY IInvInit DEF Init, NoRow, OpenInv, StartOwnsIntent, Fresh, OwnStart, AppliedNotOpen

LEMMA OpenInvStep == OpenInv /\ [Next]_vars => OpenInv' /\ OpensNone
<1> SUFFICES ASSUME OpenInv, [Next]_vars PROVE OpenInv' /\ OpensNone
  OBVIOUS
<1>1. IInv'
  BY IInvStep DEF OpenInv
<1>2. StartOwnsIntent' /\ OpensNone
  <2>1. CASE Next
    BY <2>1, StartKeepsOwn, FinishKeepsOwn, CancelKeepsOwn, EnvironmentKeepsOwn DEF Next
  <2>2. CASE UNCHANGED vars
    BY <2>2, RowKeepsStarts, StatusOpensNone DEF vars, Kept
  <2>3. QED BY <2>1, <2>2
<1>3. AppliedNotOpen'
  (* Only a commit counts an application, and it settles the row.          *)
  <2>1. ASSUME NEW i \in Intents, applied'[i] > 0
        PROVE  row'[i].status \notin {"pending", "redirected"}
    <3>1. CASE applied[i] > 0
      BY <1>2, <3>1 DEF OpensNone
    <3>2. CASE ~(applied[i] > 0)
      <4>1. PICK w \in Workers : FinishCommit(w)
        BY <2>1, <3>2 DEF Next, vars, Environment, Abort, CustomerPays, ProviderReturns,
           TwoHoursPass, Start, StartResolve, StartFindKey, StartFreeKey, StartFindOpen,
           StartInsert, StartRequest, StartRecord, Finish, FinishLock, FinishVerify,
           FinishSettle, FinishReadEffects, FinishTakeOrder, Cancel, CancelLoad,
           CancelCall, CancelWrite
      <4>2. /\ row'[job[w].intent].status = "settled"
            /\ \A j \in Intents : j # job[w].intent => applied'[j] = applied[j]
        BY <4>1, CommitFacts DEF OpenInv
      <4>3. QED BY <2>1, <3>2, <4>2
    <3>3. QED BY <3>1, <3>2
  <2>2. QED BY <2>1 DEF AppliedNotOpen
<1>4. QED BY <1>1, <1>2, <1>3 DEF OpenInv

(* A payment whose effects were applied is never handed out again as an    *)
(* open session, whatever start, finish and cancel write.                  *)
THEOREM NeverReopens == Spec => NeverReopened
<1>1. OpensNone => [\A i \in Intents : applied[i] > 0 =>
                      row'[i].status \notin {"pending", "redirected"}]_row
  BY DEF OpensNone
<1>2. QED BY <1>1, OpenInvInit, OpenInvStep, PTL DEF Spec, NeverReopened
=============================================================================
