--------------------------- MODULE PaymentsProofs ---------------------------
(***************************************************************************)
(* Safety of Payments for every number of workers, bills, keys, gateways   *)
(* and intents, in three layers of one inductive invariant: WorkInv, types *)
(* and who works on which row; MoneyInv, about money, effects and bills;   *)
(* CreditInv, about what the effects write.                                *)
(***************************************************************************)
EXTENDS Payments, TLAPS, FiniteSetTheorems

(* Steps at which a request has an intent of its own in hand.              *)
HoldsIntent == {"s_free", "s_request", "s_record"} \cup FinishSteps \cup CancelSteps

(* A row exists once it is inserted; only existing rows are worked on.     *)
RowsExist ==
  /\ \A i \in Intents :
       /\ row[i].status = "none" => row[i].bill = None /\ ~row[i].effects
       /\ row[i].status # "none" => row[i].bill \in Bills
       /\ provider[i] # "none" => row[i].status # "none"
  /\ \A i \in captured : row[i].status # "none"
  /\ \A w \in Workers : pc[w] \in StartSteps => job[w].bill \in Bills
  /\ \A w \in Workers : pc[w] \in HoldsIntent =>
       job[w].intent \in Intents /\ row[job[w].intent].status # "none"

(* A finish request works on the row it locked, and nobody else does.      *)
FinishOwnsRow ==
  /\ \A v, w \in Workers :
       /\ pc[v] \in FinishSteps /\ pc[w] \in FinishSteps
       /\ job[v].intent = job[w].intent
       => v = w
  /\ \A w \in Workers : pc[w] \in FinishSteps =>
       job[w].bill = row[job[w].intent].bill

(* Types and ownership of rows: what every later argument rests on.        *)
WorkInv == TypeOK /\ RowsExist /\ FinishOwnsRow

-----------------------------------------------------------------------------
(* A gateway answer is an answer, whatever the driver and the provider.    *)
LEMMA DoneTyped ==
  ASSUME NEW s \in ProviderStates
  PROVE  Done(s) \subseteq Answers /\ Refused(s) \subseteq Answers
BY DEF Done, Refused, Answer, Answers

LEMMA AnswersTyped ==
  ASSUME NEW g, NEW s \in ProviderStates
  PROVE  /\ RequestAnswers \subseteq Answers
         /\ VerifyAnswers(g, s) \subseteq Answers
         /\ SettleAnswers(g, s) \subseteq Answers
         /\ \A copy : CancelAnswersFor(copy, g, s) \subseteq Answers
<1>1. \A t \in {"none", "open", "verified", "settled", "reversed"} :
        Done(t) \subseteq Answers /\ Refused(t) \subseteq Answers
  BY DoneTyped DEF ProviderStates
<1>2. Refused(s) \subseteq Answers /\ Answer(TRUE, s) \in Answers
  BY DoneTyped DEF Answer, Answers
<1>3. RequestAnswers \subseteq Answers
  BY <1>1 DEF RequestAnswers
<1>4. VerifyAnswers(g, s) \subseteq Answers
  BY <1>1, <1>2 DEF VerifyAnswers
<1>5. SettleAnswers(g, s) \subseteq Answers
  BY <1>1, <1>2 DEF SettleAnswers
<1>6. ReverseAnswers(s) \subseteq Answers
  BY <1>1, <1>2 DEF ReverseAnswers
<1>7. CancelAnswers(g, s) \subseteq Answers /\ RevertAnswers(g, s) \subseteq Answers
  BY <1>2, <1>6 DEF CancelAnswers, RevertAnswers
<1>8. ASSUME NEW copy PROVE CancelAnswersFor(copy, g, s) \subseteq Answers
  BY <1>2, <1>7 DEF CancelAnswersFor
<1>9. QED BY <1>3, <1>4, <1>5, <1>8

(* The columns of a row are its own.                                       *)
LEMMA RowColumns ==
  ASSUME NEW r \in Row
  PROVE  /\ CopyOf(r) \in Copy
         /\ r.bill \in Bills \cup {None}
         /\ r.gateway \in Gateways \cup {None}
BY DEF Row, Copy, CopyOf

LEMMA NoJobTyped == NoJob \in Job /\ NoRow \in Row
BY DEF NoJob, Job, NoRow, Row, CopyOf, Copy, Statuses

LEMMA TypeInit == Init => TypeOK
BY NoJobTyped DEF Init, TypeOK, Steps, ProviderStates

(* Updates of what a request remembers.                                    *)
LEMMA JobUpdates ==
  ASSUME TypeOK, NEW w \in Workers
  PROVE  /\ \A i \in Intents \cup {None} :
              [job EXCEPT ![w].intent = i] \in [Workers -> Job]
         /\ \A ok \in BOOLEAN : [job EXCEPT ![w].ok = ok] \in [Workers -> Job]
         /\ \A n \in Nat : [job EXCEPT ![w].seen = n] \in [Workers -> Job]
         /\ \A apply \in BOOLEAN, writes \in SUBSET {"bill", "account"}, n \in Nat :
              [job EXCEPT ![w].apply = apply, ![w].writes = writes, ![w].seen = n]
                \in [Workers -> Job]
<1>1. ASSUME NEW r \in Job
      PROVE  /\ \A i \in Intents \cup {None} : [r EXCEPT !.intent = i] \in Job
             /\ \A ok \in BOOLEAN : [r EXCEPT !.ok = ok] \in Job
             /\ \A n \in Nat : [r EXCEPT !.seen = n] \in Job
             /\ \A apply \in BOOLEAN, writes \in SUBSET {"bill", "account"}, n \in Nat :
                  [r EXCEPT !.apply = apply, !.writes = writes, !.seen = n] \in Job
  BY DEF Job
<1>2. job \in [Workers -> Job] /\ job[w] \in Job
  BY DEF TypeOK
<1>3. QED BY <1>1, <1>2

(* Updates of a row.                                                       *)
LEMMA RowUpdates ==
  ASSUME TypeOK, NEW i \in Intents
  PROVE  /\ \A s \in Statuses : [row EXCEPT ![i].status = s] \in [Intents -> Row]
         /\ [row EXCEPT ![i].key = None] \in [Intents -> Row]
         /\ [row EXCEPT ![i].aged = TRUE] \in [Intents -> Row]
         /\ [row EXCEPT ![i].status = "redirected", ![i].redirect = TRUE]
               \in [Intents -> Row]
         /\ [row EXCEPT ![i].status = "settled", ![i].effects = TRUE]
               \in [Intents -> Row]
<1>1. ASSUME NEW r \in Row
      PROVE  /\ \A s \in Statuses : [r EXCEPT !.status = s] \in Row
             /\ [r EXCEPT !.key = None] \in Row
             /\ [r EXCEPT !.aged = TRUE] \in Row
             /\ [r EXCEPT !.status = "redirected", !.redirect = TRUE] \in Row
             /\ [r EXCEPT !.status = "settled", !.effects = TRUE] \in Row
  BY DEF Row, Statuses
<1>2. row \in [Intents -> Row] /\ row[i] \in Row
  BY DEF TypeOK
<1>3. QED BY <1>1, <1>2

LEMMA RespondTyped ==
  ASSUME TypeOK, NEW w \in Workers, Respond(w)
  PROVE  pc' \in [Workers -> Steps] /\ job' \in [Workers -> Job]
BY NoJobTyped DEF TypeOK, Respond, Steps

LEMMA GotoTyped ==
  ASSUME TypeOK, NEW w \in Workers, NEW s \in Steps, Goto(w, s)
  PROVE  pc' \in [Workers -> Steps]
BY DEF TypeOK, Goto

-----------------------------------------------------------------------------
(* Most steps keep every row and either end the request or take it one     *)
(* step further with the same intent and bill.                             *)
RowsKept ==
  \A i \in Intents :
    /\ row[i].status = "none" => row'[i] = row[i]
    /\ row[i].status # "none" => row'[i].status # "none" /\ row'[i].bill = row[i].bill

MoneyOnRows ==
  /\ \A i \in Intents : provider'[i] # "none" => row[i].status # "none"
  /\ \A i \in captured' : row[i].status # "none"

Advances(w, s) ==
  /\ Goto(w, s)
  /\ s \in StartSteps => pc[w] \in StartSteps
  /\ s \in HoldsIntent => pc[w] \in HoldsIntent
  /\ s \in FinishSteps => pc[w] \in FinishSteps
  /\ \A v \in Workers : job'[v].intent = job[v].intent /\ job'[v].bill = job[v].bill

LEMMA RespondKeepsWork ==
  ASSUME WorkInv, NEW w \in Workers, RowsKept, MoneyOnRows, captured' \subseteq Intents,
         Respond(w)
  PROVE  RowsExist' /\ FinishOwnsRow'
BY DEF WorkInv, RowsExist, FinishOwnsRow, RowsKept, MoneyOnRows, TypeOK, Respond,
       HoldsIntent, StartSteps, FinishSteps, CancelSteps

LEMMA AdvanceKeepsWork ==
  ASSUME WorkInv, NEW w \in Workers, NEW s, RowsKept, MoneyOnRows,
         captured' \subseteq Intents, Advances(w, s)
  PROVE  RowsExist' /\ FinishOwnsRow'
<1>1. pc' = [pc EXCEPT ![w] = s] /\ pc \in [Workers -> Steps]
  BY DEF Advances, Goto, WorkInv, TypeOK
<1>2. \A v \in Workers :
        /\ pc'[v] \in StartSteps => pc[v] \in StartSteps
        /\ pc'[v] \in HoldsIntent => pc[v] \in HoldsIntent
        /\ pc'[v] \in FinishSteps => pc[v] \in FinishSteps
  BY <1>1 DEF Advances
<1>3. FinishSteps \subseteq HoldsIntent
  BY DEF HoldsIntent
<1>4. RowsExist'
  BY <1>2 DEF WorkInv, RowsExist, RowsKept, MoneyOnRows, Advances
<1>5. FinishOwnsRow'
  BY <1>2, <1>3 DEF WorkInv, RowsExist, FinishOwnsRow, RowsKept, Advances
<1>6. QED BY <1>4, <1>5

-----------------------------------------------------------------------------
(* The steps of start preserve WorkInv.                                    *)

LEMMA StartResolveWork ==
  ASSUME WorkInv, NEW w \in Workers, NEW b \in Bills, NEW g \in Gateways,
         NEW k \in Keys \cup {None}, StartResolve(w, b, g, k)
  PROVE  WorkInv'
<1> USE DEF WorkInv, StartResolve, Goto, dbVars
<1>1. TypeOK'
  <2>1. [NoJob EXCEPT !.bill = b, !.gateway = g, !.key = k] \in Job
    BY NoJobTyped DEF Job, NoJob
  <2>2. QED BY <2>1 DEF TypeOK, Steps, StartSteps
<1>2. RowsExist'
  BY DEF RowsExist, TypeOK, HoldsIntent, StartSteps, FinishSteps, CancelSteps, NoJob
<1>3. FinishOwnsRow'
  BY DEF FinishOwnsRow, TypeOK, FinishSteps
<1>4. QED BY <1>1, <1>2, <1>3

LEMMA StartFindKeyWork ==
  ASSUME WorkInv, NEW w \in Workers, StartFindKey(w)
  PROVE  WorkInv'
<1> USE DEF WorkInv, StartFindKey, dbVars
<1>1. TypeOK'
  <2>1. CASE Goto(w, "s_open") /\ UNCHANGED job
    BY <2>1, GotoTyped DEF TypeOK, Steps, StartSteps
  <2>2. CASE Respond(w)
    BY <2>2, RespondTyped DEF TypeOK
  <2>3. ASSUME NEW i \in Intents, Goto(w, "s_free"),
               job' = [job EXCEPT ![w].intent = i]
        PROVE  TypeOK'
    BY <2>3, GotoTyped, JobUpdates DEF TypeOK, Steps, StartSteps
  <2>4. QED BY <2>1, <2>2, <2>3 DEF WithKey
<1>2. RowsExist'
  <2>1. CASE Goto(w, "s_open") /\ UNCHANGED job
    BY <2>1 DEF RowsExist, TypeOK, Goto, HoldsIntent, StartSteps, FinishSteps, CancelSteps
  <2>2. CASE Respond(w)
    BY <2>2 DEF RowsExist, TypeOK, Respond, HoldsIntent, StartSteps, FinishSteps, CancelSteps
  <2>3. ASSUME NEW i \in Intents, Goto(w, "s_free"), row[i].status # "none",
               job' = [job EXCEPT ![w].intent = i]
        PROVE  RowsExist'
    BY <2>3 DEF RowsExist, TypeOK, Job, Goto, HoldsIntent, StartSteps, FinishSteps, CancelSteps
  <2>4. QED BY <2>1, <2>2, <2>3 DEF WithKey
<1>3. FinishOwnsRow'
  BY DEF FinishOwnsRow, TypeOK, FinishSteps, Goto, Respond, WithKey
<1>4. QED BY <1>1, <1>2, <1>3

LEMMA StartFreeKeyWork ==
  ASSUME WorkInv, NEW w \in Workers, StartFreeKey(w)
  PROVE  WorkInv'
<1> USE DEF WorkInv, StartFreeKey
<1>1. job[w].intent \in Intents /\ row[job[w].intent].status # "none"
  BY DEF RowsExist, HoldsIntent
<1>2. TypeOK'
  <2>1. row' \in [Intents -> Row]
    BY <1>1, RowUpdates
  <2>2. QED BY <2>1, GotoTyped, JobUpdates DEF TypeOK, Steps, StartSteps
<1>3. RowsKept
  BY <1>1 DEF RowsKept, TypeOK, Row
<1>4. RowsExist'
  BY <1>3 DEF RowsKept, RowsExist, TypeOK, Job, Goto, HoldsIntent, StartSteps, FinishSteps,
     CancelSteps
<1>5. FinishOwnsRow'
  BY <1>1, <1>3 DEF RowsKept, RowsExist, FinishOwnsRow, TypeOK, Job, Goto, HoldsIntent,
     FinishSteps
<1>6. QED BY <1>2, <1>4, <1>5

LEMMA StartFindOpenWork ==
  ASSUME WorkInv, NEW w \in Workers, StartFindOpen(w)
  PROVE  WorkInv'
<1> USE DEF StartFindOpen, dbVars
<1>1. RowsKept /\ MoneyOnRows /\ captured' \subseteq Intents
  BY DEF WorkInv, RowsExist, RowsKept, MoneyOnRows, TypeOK
<1>2. CASE Respond(w)
  BY <1>1, <1>2, RespondTyped, RespondKeepsWork DEF WorkInv, TypeOK
<1>3. CASE Goto(w, "s_create") /\ UNCHANGED job
  <2>1. Advances(w, "s_create")
    BY <1>3 DEF Advances, StartSteps, HoldsIntent, FinishSteps, CancelSteps
  <2>2. TypeOK'
    BY <1>3, GotoTyped DEF WorkInv, TypeOK, Steps, StartSteps
  <2>3. QED BY <1>1, <2>1, <2>2, AdvanceKeepsWork DEF WorkInv
<1>4. QED BY <1>2, <1>3

LEMMA StartInsertWork ==
  ASSUME WorkInv, NEW w \in Workers, StartInsert(w)
  PROVE  WorkInv'
<1> USE DEF StartInsert
<1>1. CASE Respond(w) /\ UNCHANGED row
  <2>1. RowsKept /\ MoneyOnRows /\ captured' \subseteq Intents
    BY <1>1 DEF WorkInv, RowsExist, RowsKept, MoneyOnRows, TypeOK
  <2>2. QED BY <1>1, <2>1, RespondTyped, RespondKeepsWork DEF WorkInv, TypeOK
<1>2. ASSUME NEW i \in Intents, Unused(i), Goto(w, "s_request"),
             row' = [row EXCEPT ![i] =
               [NoRow EXCEPT !.status = "pending", !.key = job[w].key,
                             !.bill = job[w].bill, !.gateway = job[w].gateway]],
             job' = [job EXCEPT ![w].intent = i]
      PROVE  WorkInv'
  <2>1. job[w].bill \in Bills /\ job[w] \in Job
    BY DEF WorkInv, RowsExist, StartSteps, TypeOK
  <2>2. [NoRow EXCEPT !.status = "pending", !.key = job[w].key,
                      !.bill = job[w].bill, !.gateway = job[w].gateway] \in Row
    BY <2>1, NoJobTyped DEF Job, Row, NoRow, Statuses
  <2>3. TypeOK'
    BY <1>2, <2>2, GotoTyped, JobUpdates DEF WorkInv, TypeOK, Steps, StartSteps
  <2>4. /\ row'[i].status = "pending" /\ row'[i].bill = job[w].bill
        /\ \A j \in Intents : j # i => row'[j] = row[j]
    BY <1>2 DEF NoRow, WorkInv, TypeOK
  <2>5. row[i].status = "none"
    BY <1>2 DEF Unused
  <2>6. RowsExist'
    BY <1>2, <2>1, <2>4 DEF WorkInv, RowsExist, TypeOK, Job, Goto, HoldsIntent,
       StartSteps, FinishSteps, CancelSteps
  <2>7. FinishOwnsRow'
    BY <1>2, <2>4, <2>5 DEF WorkInv, RowsExist, FinishOwnsRow, TypeOK, Job, Goto,
       HoldsIntent, FinishSteps
  <2>8. QED BY <2>3, <2>6, <2>7 DEF WorkInv
<1>3. QED BY <1>1, <1>2

(* A gateway call on an intent that exists leaves money on existing rows.  *)
LEMMA ProviderOnRows ==
  ASSUME WorkInv, NEW i \in Intents, row[i].status # "none",
         NEW s \in ProviderStates, ProviderBecomes(i, s)
  PROVE  /\ MoneyOnRows /\ captured' \subseteq Intents
         /\ provider' \in [Intents -> ProviderStates]
BY DEF WorkInv, TypeOK, RowsExist, MoneyOnRows, ProviderBecomes

LEMMA StartRequestWork ==
  ASSUME WorkInv, NEW w \in Workers, StartRequest(w)
  PROVE  WorkInv'
<1>1. PICK a \in RequestAnswers :
        ProviderBecomes(job[w].intent, a.provider) /\ job' = [job EXCEPT ![w].ok = a.ok]
  BY DEF StartRequest
<1>2. a.ok \in BOOLEAN /\ a.provider \in ProviderStates
  BY AnswersTyped DEF Answers, ProviderStates
<1>3. job[w].intent \in Intents /\ row[job[w].intent].status # "none"
  BY DEF StartRequest, WorkInv, RowsExist, HoldsIntent
<1>4. /\ MoneyOnRows /\ captured' \subseteq Intents
      /\ provider' \in [Intents -> ProviderStates]
  BY <1>1, <1>2, <1>3, ProviderOnRows
<1>5. RowsKept
  BY DEF StartRequest, dbVars, RowsKept
<1>6. Advances(w, "s_record")
  BY <1>1 DEF StartRequest, Advances, StartSteps, HoldsIntent, FinishSteps, CancelSteps,
     WorkInv, TypeOK, Job
<1>7. TypeOK'
  BY <1>1, <1>2, <1>4, GotoTyped, JobUpdates
     DEF StartRequest, dbVars, WorkInv, TypeOK, Steps, StartSteps
<1>8. QED BY <1>4, <1>5, <1>6, <1>7, AdvanceKeepsWork DEF WorkInv

LEMMA StartRecordWork ==
  ASSUME WorkInv, NEW w \in Workers, StartRecord(w)
  PROVE  WorkInv'
<1> DEFINE i == job[w].intent
<1>1. i \in Intents /\ row[i].status # "none"
  BY DEF StartRecord, WorkInv, RowsExist, HoldsIntent
<1>2. /\ \/ row' = [row EXCEPT ![i].status = "redirected", ![i].redirect = TRUE]
         \/ row' = [row EXCEPT ![i].status = "failed"]
      /\ Respond(w)
      /\ UNCHANGED <<ledger, paid, balance, credited, provider, captured, applied>>
  BY DEF StartRecord, SetStatus
<1>3. RowsKept
  BY <1>1, <1>2 DEF RowsKept, WorkInv, TypeOK, Row
<1>4. MoneyOnRows /\ captured' \subseteq Intents
  BY <1>2 DEF WorkInv, RowsExist, MoneyOnRows, TypeOK
<1>5. row' \in [Intents -> Row]
  <2>1. [row EXCEPT ![i].status = "redirected", ![i].redirect = TRUE] \in [Intents -> Row]
    BY <1>1, RowUpdates DEF WorkInv
  <2>2. [row EXCEPT ![i].status = "failed"] \in [Intents -> Row]
    BY <1>1, RowUpdates DEF WorkInv, Statuses
  <2>3. QED BY <1>2, <2>1, <2>2
<1>6. TypeOK'
  BY <1>2, <1>5, RespondTyped DEF WorkInv, TypeOK
<1>7. QED BY <1>2, <1>3, <1>4, <1>6, RespondKeepsWork DEF WorkInv

-----------------------------------------------------------------------------
(* The steps of finish preserve WorkInv.                                   *)

LEMMA FinishLockWork ==
  ASSUME WorkInv, NEW w \in Workers, NEW i \in Intents, FinishLock(w, i)
  PROVE  WorkInv'
<1> USE DEF FinishLock, Goto, dbVars
<1> DEFINE j == [NoJob EXCEPT !.intent = i, !.bill = row[i].bill,
                              !.gateway = row[i].gateway]
<1>1. row[i].status # "none" /\ row[i] \in Row
  BY DEF WorkInv, RowsExist, TypeOK
<1>2. j \in Job /\ j.intent = i /\ j.bill = row[i].bill
  BY <1>1, NoJobTyped, RowColumns DEF Job, NoJob
<1>3. job' = [job EXCEPT ![w] = j]
  OBVIOUS
<1> HIDE DEF j
<1>4. TypeOK'
  BY <1>2, <1>3 DEF WorkInv, TypeOK, Steps, FinishSteps
<1>5. RowsExist'
  BY <1>1, <1>2, <1>3 DEF WorkInv, RowsExist, TypeOK, HoldsIntent, StartSteps,
     FinishSteps, CancelSteps
<1>6. FinishOwnsRow'
  BY <1>1, <1>2, <1>3 DEF WorkInv, FinishOwnsRow, TypeOK, FinishSteps, Locked
<1>7. QED BY <1>4, <1>5, <1>6 DEF WorkInv

LEMMA FinishVerifyWork ==
  ASSUME WorkInv, NEW w \in Workers, FinishVerify(w)
  PROVE  WorkInv'
<1> DEFINE i == job[w].intent
<1>1. i \in Intents /\ row[i].status # "none"
  BY DEF FinishVerify, WorkInv, RowsExist, HoldsIntent, FinishSteps
<1>2. PICK a \in VerifyAnswers(job[w].gateway, provider[i]) :
        /\ ProviderBecomes(i, a.provider)
        /\ \/ Goto(w, "f_settle") /\ UNCHANGED <<row, job>>
           \/ SetStatus(i, "failed") /\ Respond(w)
  BY DEF FinishVerify
<1>3. UNCHANGED <<ledger, paid, balance, credited, applied>>
  BY DEF FinishVerify
<1>4. a.provider \in ProviderStates
  BY <1>1, AnswersTyped DEF Answers, WorkInv, TypeOK
<1>5. /\ MoneyOnRows /\ captured' \subseteq Intents
      /\ provider' \in [Intents -> ProviderStates]
  BY <1>1, <1>2, <1>4, ProviderOnRows
<1>6. CASE Goto(w, "f_settle") /\ UNCHANGED <<row, job>>
  <2>1. Advances(w, "f_settle")
    BY <1>6 DEF FinishVerify, Advances, StartSteps, HoldsIntent, FinishSteps, CancelSteps
  <2>2. TypeOK'
    BY <1>3, <1>5, <1>6, GotoTyped DEF WorkInv, TypeOK, Steps, FinishSteps
  <2>3. QED BY <1>5, <1>6, <2>1, <2>2, AdvanceKeepsWork DEF WorkInv, RowsKept
<1>7. CASE SetStatus(i, "failed") /\ Respond(w)
  <2>1. RowsKept
    BY <1>1, <1>7 DEF SetStatus, RowsKept, WorkInv, TypeOK, Row
  <2>2. row' \in [Intents -> Row]
    BY <1>1, <1>7, RowUpdates DEF SetStatus, WorkInv, Statuses
  <2>3. TypeOK'
    BY <1>3, <1>5, <1>7, <2>2, RespondTyped DEF WorkInv, TypeOK
  <2>4. QED BY <1>5, <1>7, <2>1, <2>3, RespondKeepsWork DEF WorkInv
<1>8. QED BY <1>2, <1>6, <1>7

LEMMA FinishSettleWork ==
  ASSUME WorkInv, NEW w \in Workers, FinishSettle(w)
  PROVE  WorkInv'
<1> DEFINE i == job[w].intent
<1>1. i \in Intents /\ row[i].status # "none"
  BY DEF FinishSettle, WorkInv, RowsExist, HoldsIntent, FinishSteps
<1>2. PICK a \in SettleAnswers(job[w].gateway, provider[i]) :
        /\ ProviderBecomes(i, a.provider)
        /\ \/ Goto(w, "f_effects") /\ UNCHANGED <<row, job>>
           \/ SetStatus(i, "verified") /\ Respond(w)
  BY DEF FinishSettle
<1>3. UNCHANGED <<ledger, paid, balance, credited, applied>>
  BY DEF FinishSettle
<1>4. a.provider \in ProviderStates
  BY <1>1, AnswersTyped DEF Answers, WorkInv, TypeOK
<1>5. /\ MoneyOnRows /\ captured' \subseteq Intents
      /\ provider' \in [Intents -> ProviderStates]
  BY <1>1, <1>2, <1>4, ProviderOnRows
<1>6. CASE Goto(w, "f_effects") /\ UNCHANGED <<row, job>>
  <2>1. Advances(w, "f_effects")
    BY <1>6 DEF FinishSettle, Advances, StartSteps, HoldsIntent, FinishSteps, CancelSteps
  <2>2. TypeOK'
    BY <1>3, <1>5, <1>6, GotoTyped DEF WorkInv, TypeOK, Steps, FinishSteps
  <2>3. QED BY <1>5, <1>6, <2>1, <2>2, AdvanceKeepsWork DEF WorkInv, RowsKept
<1>7. CASE SetStatus(i, "verified") /\ Respond(w)
  <2>1. RowsKept
    BY <1>1, <1>7 DEF SetStatus, RowsKept, WorkInv, TypeOK, Row
  <2>2. row' \in [Intents -> Row]
    BY <1>1, <1>7, RowUpdates DEF SetStatus, WorkInv, Statuses
  <2>3. TypeOK'
    BY <1>3, <1>5, <1>7, <2>2, RespondTyped DEF WorkInv, TypeOK
  <2>4. QED BY <1>5, <1>7, <2>1, <2>3, RespondKeepsWork DEF WorkInv
<1>8. QED BY <1>2, <1>6, <1>7

(* What apply decides to write is a set of writes of a crediting kind only *)
(* if the bill has an account.                                             *)
LEMMA EffectWritesTyped ==
  ASSUME NEW i, NEW b
  PROVE  EffectWrites(i, b) \in SUBSET {"bill", "account"}
<1>1. EffectWrites(i, b) \in {{"bill"}, {"bill", "account"}, {"account"}, {}}
  BY DEF EffectWrites
<1>2. QED BY <1>1

LEMMA FinishReadEffectsWork ==
  ASSUME WorkInv, NEW w \in Workers, FinishReadEffects(w)
  PROVE  WorkInv'
<1> DEFINE i == job[w].intent
           b == job[w].bill
           writes == IF EffectsPending(i) THEN EffectWrites(i, b) ELSE {}
<1>1. i \in Intents /\ row[i].status # "none" /\ b \in Bills
  BY DEF FinishReadEffects, WorkInv, RowsExist, FinishOwnsRow, HoldsIntent, FinishSteps
<1>2. balance[AccountOf[b]] \in Nat
  BY <1>1, AccountAssumption DEF WorkInv, TypeOK
<1>3. EffectsPending(i) \in BOOLEAN /\ writes \in SUBSET {"bill", "account"}
  BY <1>1, EffectWritesTyped DEF EffectsPending, WorkInv, TypeOK, Row
<1>4. job' = [job EXCEPT ![w].apply = EffectsPending(i), ![w].writes = writes,
                         ![w].seen = balance[AccountOf[b]]]
  BY DEF FinishReadEffects
<1>5. UNCHANGED <<dbVars, provider, captured, applied>>
  BY DEF FinishReadEffects
<1>6. RowsKept /\ MoneyOnRows /\ captured' \subseteq Intents
  BY <1>5 DEF dbVars, WorkInv, RowsExist, RowsKept, MoneyOnRows, TypeOK
<1>7. \E s \in {"f_order", "f_commit"} : Goto(w, s)
  BY DEF FinishReadEffects
<1> HIDE DEF i, b, writes
<1>8. job' \in [Workers -> Job]
  BY <1>2, <1>3, <1>4, JobUpdates DEF WorkInv
<1>9. \A v \in Workers : job'[v].intent = job[v].intent /\ job'[v].bill = job[v].bill
  BY <1>4 DEF WorkInv, TypeOK, Job
<1>10. \E s \in {"f_order", "f_commit"} : Advances(w, s)
  BY <1>7, <1>9 DEF FinishReadEffects, Advances, StartSteps, HoldsIntent, FinishSteps,
     CancelSteps
<1>11. TypeOK'
  BY <1>5, <1>7, <1>8, GotoTyped DEF dbVars, WorkInv, TypeOK, Steps, FinishSteps
<1>12. QED BY <1>6, <1>10, <1>11, AdvanceKeepsWork DEF WorkInv

LEMMA FinishTakeOrderWork ==
  ASSUME WorkInv, NEW w \in Workers, FinishTakeOrder(w)
  PROVE  WorkInv'
<1> USE DEF FinishTakeOrder
<1>1. job[w].bill \in Bills
  BY DEF WorkInv, RowsExist, FinishOwnsRow, HoldsIntent, FinishSteps
<1>2. balance[AccountOf[job[w].bill]] \in Nat
  BY <1>1, AccountAssumption DEF WorkInv, TypeOK
<1>3. job' \in [Workers -> Job]
  BY <1>2, JobUpdates DEF WorkInv
<1>4. RowsKept /\ MoneyOnRows /\ captured' \subseteq Intents
  BY DEF dbVars, WorkInv, RowsExist, RowsKept, MoneyOnRows, TypeOK
<1>5. Advances(w, "f_commit")
  BY DEF Advances, StartSteps, HoldsIntent, FinishSteps, CancelSteps, WorkInv, TypeOK, Job
<1>6. TypeOK'
  BY <1>3, GotoTyped DEF dbVars, WorkInv, TypeOK, Steps, FinishSteps
<1>7. QED BY <1>4, <1>5, <1>6, AdvanceKeepsWork DEF WorkInv

LEMMA FinishCommitWork ==
  ASSUME WorkInv, NEW w \in Workers, FinishCommit(w)
  PROVE  WorkInv'
<1> DEFINE i == job[w].intent
           b == job[w].bill
<1>1. i \in Intents /\ row[i].status # "none" /\ b \in Bills /\ job[w].seen \in Nat
  BY DEF FinishCommit, WorkInv, TypeOK, Job, RowsExist, FinishOwnsRow, HoldsIntent,
     FinishSteps
<1>2. row' = [row EXCEPT ![i].status = "settled", ![i].effects = TRUE]
  BY DEF FinishCommit
<1>3. RowsKept
  BY <1>1, <1>2 DEF RowsKept, WorkInv, TypeOK, Row
<1>4. MoneyOnRows /\ captured' \subseteq Intents /\ Respond(w)
  BY DEF FinishCommit, WorkInv, RowsExist, MoneyOnRows, TypeOK
<1>5. TypeOK'
  <2>1. row' \in [Intents -> Row]
    BY <1>1, <1>2, RowUpdates DEF WorkInv
  <2>2. ledger' \in [Intents -> SUBSET EntryTypes]
    BY DEF FinishCommit, WorkInv, TypeOK, EntryTypes
  <2>3. paid' \in SUBSET Bills
    BY <1>1 DEF FinishCommit, WorkInv, TypeOK
  <2>4. balance' \in [Accounts -> Nat]
    <3>1. \/ balance' = balance
          \/ balance' = [balance EXCEPT ![AccountOf[b]] = job[w].seen + 1]
      BY DEF FinishCommit
    <3>2. job[w].seen + 1 \in Nat /\ balance \in [Accounts -> Nat]
      BY <1>1 DEF WorkInv, TypeOK
    <3>3. QED BY <3>1, <3>2
  <2>5. credited' \in [Intents -> Nat]
    BY <1>1 DEF FinishCommit, WorkInv, TypeOK
  <2>6. applied' \in [Intents -> Nat]
    BY <1>1 DEF FinishCommit, WorkInv, TypeOK
  <2>7. pc' \in [Workers -> Steps] /\ job' \in [Workers -> Job]
    BY <1>4, RespondTyped DEF WorkInv
  <2>8. provider' = provider /\ captured' = captured
    BY DEF FinishCommit
  <2>9. QED BY <2>1, <2>2, <2>3, <2>4, <2>5, <2>6, <2>7, <2>8 DEF WorkInv, TypeOK
<1>6. QED BY <1>3, <1>4, <1>5, RespondKeepsWork DEF WorkInv

-----------------------------------------------------------------------------
(* The steps of cancel and of the environment preserve WorkInv.            *)

LEMMA CancelLoadWork ==
  ASSUME WorkInv, NEW w \in Workers, NEW i \in Intents, NEW confirm \in BOOLEAN,
         CancelLoad(w, i, confirm)
  PROVE  WorkInv'
<1> USE DEF CancelLoad, Goto, dbVars
<1> DEFINE j == [NoJob EXCEPT !.intent = i, !.copy = CopyOf(row[i]),
                              !.gateway = row[i].gateway]
<1>1. row[i].status # "none" /\ row[i] \in Row
  BY DEF WorkInv, TypeOK
<1>2. j \in Job /\ j.intent = i
  BY <1>1, NoJobTyped, RowColumns DEF Job, NoJob
<1>3. job' = [job EXCEPT ![w] = j]
  OBVIOUS
<1> HIDE DEF j
<1>4. TypeOK'
  BY <1>2, <1>3 DEF WorkInv, TypeOK, Steps, CancelSteps
<1>5. RowsExist'
  BY <1>1, <1>2, <1>3 DEF WorkInv, RowsExist, TypeOK, HoldsIntent, StartSteps,
     FinishSteps, CancelSteps
<1>6. FinishOwnsRow'
  BY <1>3 DEF WorkInv, FinishOwnsRow, TypeOK, FinishSteps
<1>7. QED BY <1>4, <1>5, <1>6 DEF WorkInv

LEMMA CancelCallWork ==
  ASSUME WorkInv, NEW w \in Workers, CancelCall(w)
  PROVE  WorkInv'
<1> DEFINE i == job[w].intent
<1>1. i \in Intents /\ row[i].status # "none"
  BY DEF CancelCall, WorkInv, RowsExist, HoldsIntent, CancelSteps
<1>2. PICK a \in CancelAnswersFor(job[w].copy, job[w].gateway, provider[i]) :
        /\ ProviderBecomes(i, a.provider)
        /\ \/ Goto(w, "c_write") /\ UNCHANGED job
           \/ Respond(w)
  BY DEF CancelCall
<1>3. UNCHANGED <<dbVars, applied>>
  BY DEF CancelCall
<1>4. a.provider \in ProviderStates
  <2>1. provider[i] \in ProviderStates
    BY <1>1 DEF WorkInv, TypeOK
  <2>2. CancelAnswersFor(job[w].copy, job[w].gateway, provider[i]) \subseteq Answers
    BY <2>1, AnswersTyped
  <2>3. a \in Answers
    BY <2>2
  <2>4. QED BY <2>3 DEF Answers
<1>5. /\ MoneyOnRows /\ captured' \subseteq Intents
      /\ provider' \in [Intents -> ProviderStates]
  BY <1>1, <1>2, <1>4, ProviderOnRows
<1>6. RowsKept
  BY <1>3 DEF dbVars, RowsKept
<1>7. CASE Goto(w, "c_write") /\ UNCHANGED job
  <2>1. Advances(w, "c_write")
    BY <1>7 DEF CancelCall, Advances, StartSteps, HoldsIntent, FinishSteps, CancelSteps
  <2>2. TypeOK'
    BY <1>3, <1>5, <1>7, GotoTyped DEF dbVars, WorkInv, TypeOK, Steps, CancelSteps
  <2>3. QED BY <1>5, <1>6, <2>1, <2>2, AdvanceKeepsWork DEF WorkInv
<1>8. CASE Respond(w)
  <2>1. TypeOK'
    BY <1>3, <1>5, <1>8, RespondTyped DEF dbVars, WorkInv, TypeOK
  <2>2. QED BY <1>5, <1>6, <1>8, <2>1, RespondKeepsWork DEF WorkInv
<1>9. QED BY <1>2, <1>7, <1>8

LEMMA CancelWriteWork ==
  ASSUME WorkInv, NEW w \in Workers, CancelWrite(w)
  PROVE  WorkInv'
<1> DEFINE i == job[w].intent
<1>1. i \in Intents /\ row[i].status # "none"
  BY DEF CancelWrite, WorkInv, RowsExist, HoldsIntent, CancelSteps
<1>2. /\ row' = [row EXCEPT ![i] = CancelledRow(row[i], job[w].copy)]
      /\ Respond(w)
      /\ UNCHANGED <<ledger, paid, balance, credited, provider, captured, applied>>
  BY DEF CancelWrite
<1>3. \/ CancelledRow(row[i], job[w].copy) = row[i]
      \/ \E s \in {"cancelled", "reverted"} :
           CancelledRow(row[i], job[w].copy) = [row[i] EXCEPT !.status = s]
  BY DEF CancelledRow
<1>4. row[i] \in Row /\ row \in [Intents -> Row]
  BY <1>1 DEF WorkInv, TypeOK
<1>5. CancelledRow(row[i], job[w].copy) \in Row
  BY <1>3, <1>4 DEF Row, Statuses
<1>6. RowsKept
  BY <1>1, <1>2, <1>3, <1>4 DEF RowsKept, Row
<1>7. MoneyOnRows /\ captured' \subseteq Intents
  BY <1>2 DEF WorkInv, RowsExist, MoneyOnRows, TypeOK
<1>8. TypeOK'
  BY <1>2, <1>4, <1>5, RespondTyped DEF WorkInv, TypeOK
<1>9. QED BY <1>2, <1>6, <1>7, <1>8, RespondKeepsWork DEF WorkInv

LEMMA AbortWork ==
  ASSUME WorkInv, NEW w \in Workers, Abort(w)
  PROVE  WorkInv'
<1>1. RowsKept /\ MoneyOnRows /\ captured' \subseteq Intents
  BY DEF Abort, dbVars, WorkInv, RowsExist, RowsKept, MoneyOnRows, TypeOK
<1>2. TypeOK'
  BY RespondTyped DEF Abort, dbVars, WorkInv, TypeOK
<1>3. QED BY <1>1, <1>2, RespondKeepsWork DEF Abort, WorkInv

LEMMA OutsideWork ==
  ASSUME WorkInv, NEW i \in Intents,
         CustomerPays(i) \/ ProviderReturns(i) \/ TwoHoursPass(i)
  PROVE  WorkInv'
<1>1. row[i].status # "none"
  BY DEF WorkInv, RowsExist, CustomerPays, ProviderReturns, TwoHoursPass
<1>2. CASE CustomerPays(i) \/ ProviderReturns(i)
  <2>1. PICK s \in {"paid", "reversed"} :
          ProviderBecomes(i, s) /\ UNCHANGED <<dbVars, applied, pc, job>>
    BY <1>2 DEF CustomerPays, ProviderReturns
  <2>2. s \in ProviderStates
    BY DEF ProviderStates
  <2>3. /\ MoneyOnRows /\ captured' \subseteq Intents
        /\ provider' \in [Intents -> ProviderStates]
    BY <1>1, <2>1, <2>2, ProviderOnRows
  <2>4. TypeOK'
    BY <2>1, <2>3 DEF dbVars, WorkInv, TypeOK
  <2>5. QED BY <2>1, <2>3, <2>4 DEF dbVars, WorkInv, RowsExist, FinishOwnsRow, MoneyOnRows
<1>3. CASE TwoHoursPass(i)
  <2>1. /\ row' = [row EXCEPT ![i].aged = TRUE]
        /\ UNCHANGED <<ledger, paid, balance, credited, provider, captured, applied, pc, job>>
    BY <1>3 DEF TwoHoursPass
  <2>2. TypeOK'
    BY <2>1, RowUpdates DEF WorkInv, TypeOK
  <2>3. \A j \in Intents : /\ row'[j].status = row[j].status /\ row'[j].bill = row[j].bill
                           /\ row'[j].effects = row[j].effects
    BY <2>1 DEF WorkInv, TypeOK, Row
  <2>4. QED BY <2>1, <2>2, <2>3 DEF WorkInv, RowsExist, FinishOwnsRow, TypeOK, HoldsIntent
<1>4. QED BY <1>2, <1>3

LEMMA WorkInit == Init => WorkInv
BY TypeInit DEF Init, WorkInv, RowsExist, FinishOwnsRow, NoRow, HoldsIntent, StartSteps,
   FinishSteps, CancelSteps

LEMMA WorkStep == WorkInv /\ [Next]_vars => WorkInv'
<1>1. ASSUME WorkInv, NEW w \in Workers, Start(w) PROVE WorkInv'
  BY <1>1, StartResolveWork, StartFindKeyWork, StartFreeKeyWork, StartFindOpenWork,
     StartInsertWork, StartRequestWork, StartRecordWork DEF Start
<1>2. ASSUME WorkInv, NEW w \in Workers, Finish(w) PROVE WorkInv'
  BY <1>2, FinishLockWork, FinishVerifyWork, FinishSettleWork, FinishReadEffectsWork,
     FinishTakeOrderWork, FinishCommitWork DEF Finish
<1>3. ASSUME WorkInv, NEW w \in Workers, Cancel(w) PROVE WorkInv'
  BY <1>3, CancelLoadWork, CancelCallWork, CancelWriteWork DEF Cancel
<1>4. ASSUME WorkInv, Environment PROVE WorkInv'
  BY <1>4, AbortWork, OutsideWork DEF Environment
<1>5. ASSUME WorkInv, UNCHANGED vars PROVE WorkInv'
  BY <1>5 DEF vars, WorkInv, TypeOK, RowsExist, FinishOwnsRow
<1>6. QED BY <1>1, <1>2, <1>3, <1>4, <1>5 DEF Next

(* Every table keeps its shape, and no request works on a row that does    *)
(* not exist or that another finish request has locked.                    *)
THEOREM WorkCorrect == Spec => []WorkInv
BY WorkInit, WorkStep, PTL DEF Spec

(* Type correctness of the payment service: the statuses, keys and answers *)
(* that start, finish and cancel write are those the other code reads.     *)
THEOREM TypeCorrect == Spec => []TypeOK
<1>1. WorkInv => TypeOK
  BY DEF WorkInv
<1>2. QED BY <1>1, WorkCorrect, PTL

-----------------------------------------------------------------------------
(* A finish request that is past the gateway's capture works on an intent  *)
(* whose money is captured: by verify for the gateways that capture there, *)
(* by settle for the others.                                               *)
PaidUp(w) ==
  \/ pc[w] \in {"f_effects", "f_order", "f_commit"}
  \/ pc[w] = "f_settle" /\ job[w].gateway \in CapturesInVerify
  => job[w].intent \in captured

CapturedFirst ==
  /\ \A i \in Intents : provider[i] = "settled" => i \in captured
  /\ \A w \in Workers : PaidUp(w)

(* The decision to apply the effects is still right when it is committed.  *)
Decided(w) ==
  pc[w] \in {"f_order", "f_commit"} =>
    /\ job[w].apply <=> ~row[job[w].intent].effects
    /\ ~job[w].apply => job[w].writes = {}

DecisionHolds == \A w \in Workers : Decided(w)

(* side_effects_at records the one run of the effects.                     *)
EffectsCounted ==
  \A i \in Intents : applied[i] = IF row[i].effects THEN 1 ELSE 0

MoneyInv ==
  /\ CapturedFirst
  /\ DecisionHolds
  /\ EffectsCounted
  /\ EffectsNeedCapture
  /\ SettledIsComplete
  /\ PaidBillWasPaidFor

IInv == WorkInv /\ MoneyInv

-----------------------------------------------------------------------------
(* Every step but the commit of finish leaves the effects, the audit trail *)
(* and the bills alone and settles no row.                                 *)
QuietRows ==
  /\ UNCHANGED <<ledger, paid, applied>>
  /\ \A i \in Intents :
       /\ row'[i].effects = row[i].effects
       /\ row'[i].status = "settled" => row[i].status = "settled"
       /\ row[i].status # "none" => row'[i].bill = row[i].bill

(* Captured money is remembered.                                           *)
MoneyGrows ==
  /\ captured \subseteq captured'
  /\ \A i \in Intents : provider'[i] = "settled" => i \in captured'

Kept(w) == pc'[w] = pc[w] /\ job'[w] = job[w]

LEMMA QuietKeepsMoney ==
  ASSUME IInv, QuietRows, MoneyGrows,
         \A w \in Workers : Kept(w) \/ (PaidUp(w)' /\ Decided(w)')
  PROVE  MoneyInv'
<1>1. CapturedFirst'
  <2>1. ASSUME NEW w \in Workers, Kept(w) PROVE PaidUp(w)'
    BY <2>1 DEF IInv, MoneyInv, CapturedFirst, PaidUp, Kept, MoneyGrows
  <2>2. QED BY <2>1 DEF CapturedFirst, MoneyGrows
<1>2. DecisionHolds'
  <2>1. ASSUME NEW w \in Workers, Kept(w) PROVE Decided(w)'
    <3>1. pc[w] \in {"f_order", "f_commit"} => job[w].intent \in Intents
      BY DEF IInv, WorkInv, RowsExist, HoldsIntent, FinishSteps
    <3>2. QED BY <2>1, <3>1 DEF IInv, MoneyInv, DecisionHolds, Decided, Kept, QuietRows
  <2>2. QED BY <2>1 DEF DecisionHolds
<1>3. EffectsCounted'
  BY DEF IInv, MoneyInv, EffectsCounted, QuietRows
<1>4. EffectsNeedCapture'
  BY DEF IInv, MoneyInv, EffectsNeedCapture, QuietRows, MoneyGrows
<1>5. SettledIsComplete'
  BY DEF IInv, MoneyInv, SettledIsComplete, QuietRows
<1>6. PaidBillWasPaidFor'
  <2>1. ASSUME NEW b \in paid
        PROVE  \E i \in captured' : row'[i].bill = b /\ applied'[i] > 0
    <3>1. PICK i \in captured : row[i].bill = b /\ applied[i] > 0
      BY DEF IInv, MoneyInv, PaidBillWasPaidFor
    <3>2. i \in Intents /\ row[i].status # "none"
      BY DEF IInv, WorkInv, RowsExist, TypeOK
    <3>3. QED BY <3>1, <3>2 DEF QuietRows, MoneyGrows
  <2>2. QED BY <2>1 DEF PaidBillWasPaidFor, QuietRows
<1>7. QED BY <1>1, <1>2, <1>3, <1>4, <1>5, <1>6 DEF MoneyInv

(* Steps that no request takes past verify.                                *)
PastVerify == {"f_settle", "f_effects", "f_order", "f_commit"}

LEMMA CalmKeepsMoney ==
  ASSUME IInv, QuietRows, MoneyGrows,
         \A w \in Workers : Kept(w) \/ pc'[w] \notin PastVerify
  PROVE  MoneyInv'
BY QuietKeepsMoney DEF PastVerify, PaidUp, Decided

LEMMA OneMoves ==
  ASSUME WorkInv, NEW w \in Workers,
         \/ Respond(w)
         \/ \E s : Goto(w, s) /\ \E j : job' = [job EXCEPT ![w] = j]
         \/ \E s : Goto(w, s) /\ UNCHANGED job
  PROVE  \A v \in Workers : v # w => Kept(v)
BY DEF WorkInv, TypeOK, Respond, Goto, Kept

(* A gateway call only adds to the captured money.                         *)
LEMMA ProviderMoney ==
  ASSUME IInv, NEW i \in Intents, NEW s, ProviderBecomes(i, s)
  PROVE  MoneyGrows
BY DEF IInv, WorkInv, TypeOK, MoneyInv, CapturedFirst, ProviderBecomes, MoneyGrows

LEMMA NoMoneyMoves ==
  ASSUME IInv, UNCHANGED <<provider, captured>>
  PROVE  MoneyGrows
BY DEF IInv, MoneyInv, CapturedFirst, MoneyGrows

(* Changing the status of a row to anything but "settled" is quiet.        *)
LEMMA StatusQuiet ==
  ASSUME IInv, NEW i \in Intents, NEW s \in Statuses \ {"settled"}, SetStatus(i, s),
         UNCHANGED <<ledger, paid, applied>>
  PROVE  QuietRows
BY DEF IInv, WorkInv, TypeOK, Row, SetStatus, QuietRows

-----------------------------------------------------------------------------
(* The steps of start, cancel and the environment.                         *)

LEMMA StartQuiet ==
  ASSUME IInv, NEW w \in Workers, Start(w)
  PROVE  QuietRows /\ MoneyGrows
<1>1. CASE StartFindKey(w) \/ StartFindOpen(w)
           \/ \E b \in Bills, g \in Gateways, k \in Keys \cup {None} : StartResolve(w, b, g, k)
  <2>1. UNCHANGED <<dbVars, provider, captured, applied>>
    BY <1>1 DEF StartFindKey, StartFindOpen, StartResolve
  <2>2. QED BY <2>1, NoMoneyMoves DEF QuietRows, dbVars
<1>2. CASE StartFreeKey(w)
  <2>1. job[w].intent \in Intents
    BY <1>2 DEF StartFreeKey, IInv, WorkInv, RowsExist, HoldsIntent
  <2>2. QuietRows
    BY <1>2, <2>1 DEF StartFreeKey, QuietRows, IInv, WorkInv, TypeOK, Row
  <2>3. QED BY <1>2, <2>2, NoMoneyMoves DEF StartFreeKey
<1>3. CASE StartInsert(w)
  <2>1. QuietRows
    <3>1. CASE UNCHANGED row
      BY <1>3, <3>1 DEF StartInsert, QuietRows
    <3>2. ASSUME NEW i \in Intents, Unused(i),
                 row' = [row EXCEPT ![i] =
                   [NoRow EXCEPT !.status = "pending", !.key = job[w].key,
                                 !.bill = job[w].bill, !.gateway = job[w].gateway]]
          PROVE  QuietRows
      <4>1. row[i].status = "none" /\ ~row[i].effects
        BY <3>2 DEF Unused, IInv, WorkInv, RowsExist
      <4>2. row'[i].status = "pending" /\ ~row'[i].effects
        BY <3>2 DEF NoRow, IInv, WorkInv, TypeOK
      <4>3. \A j \in Intents : j # i => row'[j] = row[j]
        BY <3>2 DEF IInv, WorkInv, TypeOK
      <4>4. row[i].effects \in BOOLEAN /\ row'[i].effects \in BOOLEAN
        BY <3>2 DEF NoRow, IInv, WorkInv, TypeOK, Row
      <4>5. QED BY <1>3, <4>1, <4>2, <4>3, <4>4 DEF StartInsert, QuietRows
    <3>3. QED BY <1>3, <3>1, <3>2 DEF StartInsert
  <2>2. QED BY <1>3, <2>1, NoMoneyMoves DEF StartInsert
<1>4. CASE StartRequest(w)
  <2>1. job[w].intent \in Intents
    BY <1>4 DEF StartRequest, IInv, WorkInv, RowsExist, HoldsIntent
  <2>2. MoneyGrows
    BY <1>4, <2>1, ProviderMoney DEF StartRequest
  <2>3. QED BY <1>4, <2>2 DEF StartRequest, dbVars, QuietRows
<1>5. CASE StartRecord(w)
  <2>1. job[w].intent \in Intents
    BY <1>5 DEF StartRecord, IInv, WorkInv, RowsExist, HoldsIntent
  <2>2. UNCHANGED <<ledger, paid, applied>>
    BY <1>5 DEF StartRecord
  <2>3. CASE SetStatus(job[w].intent, "failed")
    BY <1>5, <2>1, <2>2, <2>3, StatusQuiet, NoMoneyMoves DEF Statuses, StartRecord
  <2>4. CASE row' = [row EXCEPT ![job[w].intent].status = "redirected",
                                ![job[w].intent].redirect = TRUE]
    <3>1. QuietRows
      BY <2>1, <2>2, <2>4 DEF QuietRows, IInv, WorkInv, TypeOK, Row
    <3>2. QED BY <1>5, <3>1, NoMoneyMoves DEF StartRecord
  <2>5. QED BY <1>5, <2>3, <2>4 DEF StartRecord
<1>6. QED BY <1>1, <1>2, <1>3, <1>4, <1>5 DEF Start

LEMMA StartMoves ==
  ASSUME IInv, NEW w \in Workers, Start(w)
  PROVE  \A v \in Workers : Kept(v) \/ pc'[v] \notin PastVerify
<1>1. \A v \in Workers : v # w => Kept(v)
  BY DEF Start, StartResolve, StartFindKey, StartFreeKey, StartFindOpen, StartInsert,
     StartRequest, StartRecord, Respond, Goto, Kept, IInv, WorkInv, TypeOK
<1>2. pc'[w] \notin PastVerify
  BY DEF Start, StartResolve, StartFindKey, StartFreeKey, StartFindOpen, StartInsert,
     StartRequest, StartRecord, Respond, Goto, IInv, WorkInv, TypeOK, PastVerify
<1>3. QED BY <1>1, <1>2

LEMMA StartMoney ==
  ASSUME IInv, NEW w \in Workers, Start(w)
  PROVE  MoneyInv'
BY StartQuiet, StartMoves, CalmKeepsMoney

LEMMA CancelQuiet ==
  ASSUME IInv, NEW w \in Workers, Cancel(w)
  PROVE  QuietRows /\ MoneyGrows
<1>1. CASE \E i \in Intents, confirm \in BOOLEAN : CancelLoad(w, i, confirm)
  BY <1>1, NoMoneyMoves DEF CancelLoad, QuietRows, dbVars
<1>2. CASE CancelCall(w)
  <2>1. job[w].intent \in Intents
    BY <1>2 DEF CancelCall, IInv, WorkInv, RowsExist, HoldsIntent, CancelSteps
  <2>2. MoneyGrows
    BY <1>2, <2>1, ProviderMoney DEF CancelCall
  <2>3. QED BY <1>2, <2>2 DEF CancelCall, dbVars, QuietRows
<1>3. CASE CancelWrite(w)
  <2> DEFINE i == job[w].intent
  <2>1. i \in Intents
    BY <1>3 DEF CancelWrite, IInv, WorkInv, RowsExist, HoldsIntent, CancelSteps
  <2>2. row' = row \/ \E s \in {"cancelled", "reverted"} : SetStatus(i, s)
    BY <1>3, <2>1 DEF CancelWrite, CancelledRow, SetStatus, IInv, WorkInv, TypeOK
  <2>3. UNCHANGED <<ledger, paid, applied, provider, captured>>
    BY <1>3 DEF CancelWrite
  <2>4. CASE row' = row
    BY <2>3, <2>4, NoMoneyMoves DEF QuietRows
  <2>5. CASE \E s \in {"cancelled", "reverted"} : SetStatus(i, s)
    BY <2>1, <2>3, <2>5, StatusQuiet, NoMoneyMoves DEF Statuses
  <2>6. QED BY <2>2, <2>4, <2>5
<1>4. QED BY <1>1, <1>2, <1>3 DEF Cancel

LEMMA CancelMoves ==
  ASSUME IInv, NEW w \in Workers, Cancel(w)
  PROVE  \A v \in Workers : Kept(v) \/ pc'[v] \notin PastVerify
<1>1. \A v \in Workers : v # w => Kept(v)
  BY DEF Cancel, CancelLoad, CancelCall, CancelWrite, Respond, Goto, Kept, IInv,
     WorkInv, TypeOK
<1>2. pc'[w] \notin PastVerify
  BY DEF Cancel, CancelLoad, CancelCall, CancelWrite, Respond, Goto, IInv, WorkInv,
     TypeOK, PastVerify
<1>3. QED BY <1>1, <1>2

LEMMA CancelMoney ==
  ASSUME IInv, NEW w \in Workers, Cancel(w)
  PROVE  MoneyInv'
BY CancelQuiet, CancelMoves, CalmKeepsMoney

LEMMA EnvironmentQuiet ==
  ASSUME IInv, Environment
  PROVE  QuietRows /\ MoneyGrows
<1>1. ASSUME NEW w \in Workers, Abort(w) PROVE QuietRows /\ MoneyGrows
  BY <1>1, NoMoneyMoves DEF Abort, dbVars, QuietRows
<1>2. ASSUME NEW i \in Intents, CustomerPays(i) \/ ProviderReturns(i)
      PROVE  QuietRows /\ MoneyGrows
  BY <1>2, ProviderMoney DEF CustomerPays, ProviderReturns, QuietRows, dbVars
<1>3. ASSUME NEW i \in Intents, TwoHoursPass(i) PROVE QuietRows /\ MoneyGrows
  <2>1. QuietRows
    BY <1>3 DEF TwoHoursPass, QuietRows, IInv, WorkInv, TypeOK, Row
  <2>2. QED BY <1>3, <2>1, NoMoneyMoves DEF TwoHoursPass
<1>4. QED BY <1>1, <1>2, <1>3 DEF Environment

LEMMA EnvironmentMoves ==
  ASSUME IInv, Environment
  PROVE  \A v \in Workers : Kept(v) \/ pc'[v] \notin PastVerify
BY DEF Environment, Abort, CustomerPays, ProviderReturns, TwoHoursPass, Respond, Kept,
   PastVerify, IInv, WorkInv, TypeOK

LEMMA EnvironmentMoney ==
  ASSUME IInv, Environment
  PROVE  MoneyInv'
BY EnvironmentQuiet, EnvironmentMoves, CalmKeepsMoney

-----------------------------------------------------------------------------
(* The steps of finish.                                                    *)

(* A gateway that captures in verify has captured when it says yes.        *)
LEMMA VerifyCaptures ==
  ASSUME NEW g \in CapturesInVerify, NEW s,
         NEW a \in VerifyAnswers(g, s), a.ok
  PROVE  a.provider = "settled"
BY DEF VerifyAnswers, Refused, Done, Answer

(* So has every other gateway when settle says yes.                        *)
LEMMA SettleCaptures ==
  ASSUME NEW g, g \notin CapturesInVerify, NEW s, NEW a \in SettleAnswers(g, s), a.ok
  PROVE  a.provider = "settled"
BY DEF SettleAnswers, Refused, Done, Answer

LEMMA FinishQuiet ==
  ASSUME IInv, NEW w \in Workers,
         \/ \E i \in Intents : FinishLock(w, i)
         \/ FinishVerify(w) \/ FinishSettle(w) \/ FinishReadEffects(w) \/ FinishTakeOrder(w)
  PROVE  QuietRows /\ MoneyGrows
<1>1. CASE \/ \E i \in Intents : FinishLock(w, i)
           \/ FinishReadEffects(w) \/ FinishTakeOrder(w)
  BY <1>1, NoMoneyMoves DEF FinishLock, FinishReadEffects, FinishTakeOrder, dbVars, QuietRows
<1>2. CASE FinishVerify(w) \/ FinishSettle(w)
  <2> DEFINE i == job[w].intent
  <2>1. i \in Intents
    BY <1>2 DEF FinishVerify, FinishSettle, IInv, WorkInv, RowsExist, HoldsIntent, FinishSteps
  <2>2. MoneyGrows
    BY <1>2, <2>1, ProviderMoney DEF FinishVerify, FinishSettle
  <2>3. UNCHANGED <<ledger, paid, applied>>
    BY <1>2 DEF FinishVerify, FinishSettle
  <2>4. UNCHANGED row \/ SetStatus(i, "failed") \/ SetStatus(i, "verified")
    BY <1>2 DEF FinishVerify, FinishSettle
  <2>5. QuietRows
    <3>1. CASE UNCHANGED row
      BY <2>3, <3>1 DEF QuietRows
    <3>2. CASE SetStatus(i, "failed") \/ SetStatus(i, "verified")
      BY <2>1, <2>3, <3>2, StatusQuiet DEF Statuses
    <3>3. QED BY <2>4, <3>1, <3>2
  <2>6. QED BY <2>2, <2>5
<1>3. QED BY <1>1, <1>2

LEMMA FinishVerifyMoney ==
  ASSUME IInv, NEW w \in Workers, FinishVerify(w)
  PROVE  MoneyInv'
<1> DEFINE i == job[w].intent
<1>1. i \in Intents
  BY DEF FinishVerify, IInv, WorkInv, RowsExist, HoldsIntent, FinishSteps
<1>2. PICK a \in VerifyAnswers(job[w].gateway, provider[i]) :
        /\ ProviderBecomes(i, a.provider)
        /\ \/ a.ok /\ Goto(w, "f_settle") /\ UNCHANGED <<row, job>>
           \/ SetStatus(i, "failed") /\ Respond(w)
  BY DEF FinishVerify
<1>3. QuietRows /\ MoneyGrows
  BY FinishQuiet
<1>4. CASE a.ok /\ Goto(w, "f_settle") /\ UNCHANGED <<row, job>>
  <2>1. \A v \in Workers : v # w => Kept(v)
    BY <1>4 DEF Goto, Kept, IInv, WorkInv, TypeOK
  <2>2. pc'[w] = "f_settle" /\ job'[w] = job[w]
    BY <1>4 DEF Goto, IInv, WorkInv, TypeOK
  <2>3. job[w].gateway \in CapturesInVerify => i \in captured'
    BY <1>2, <1>4, VerifyCaptures DEF ProviderBecomes
  <2>4. PaidUp(w)' /\ Decided(w)'
    BY <2>2, <2>3 DEF PaidUp, Decided
  <2>5. QED BY <1>3, <2>1, <2>4, QuietKeepsMoney
<1>5. CASE SetStatus(i, "failed") /\ Respond(w)
  <2>1. \A v \in Workers : Kept(v) \/ pc'[v] \notin PastVerify
    BY <1>5 DEF Respond, Kept, PastVerify, IInv, WorkInv, TypeOK
  <2>2. QED BY <1>3, <2>1, CalmKeepsMoney
<1>6. QED BY <1>2, <1>4, <1>5

LEMMA FinishSettleMoney ==
  ASSUME IInv, NEW w \in Workers, FinishSettle(w)
  PROVE  MoneyInv'
<1> DEFINE i == job[w].intent
<1>1. i \in Intents
  BY DEF FinishSettle, IInv, WorkInv, RowsExist, HoldsIntent, FinishSteps
<1>2. PICK a \in SettleAnswers(job[w].gateway, provider[i]) :
        /\ ProviderBecomes(i, a.provider)
        /\ \/ a.ok /\ Goto(w, "f_effects") /\ UNCHANGED <<row, job>>
           \/ SetStatus(i, "verified") /\ Respond(w)
  BY DEF FinishSettle
<1>3. QuietRows /\ MoneyGrows
  BY FinishQuiet
<1>4. CASE a.ok /\ Goto(w, "f_effects") /\ UNCHANGED <<row, job>>
  <2>1. \A v \in Workers : v # w => Kept(v)
    BY <1>4 DEF Goto, Kept, IInv, WorkInv, TypeOK
  <2>2. pc'[w] = "f_effects" /\ job'[w] = job[w]
    BY <1>4 DEF Goto, IInv, WorkInv, TypeOK
  <2>3. i \in captured'
    <3>1. CASE job[w].gateway \in CapturesInVerify
      BY <1>3, <3>1 DEF FinishSettle, IInv, MoneyInv, CapturedFirst, PaidUp, MoneyGrows
    <3>2. CASE job[w].gateway \notin CapturesInVerify
      BY <1>2, <1>4, <3>2, SettleCaptures DEF ProviderBecomes
    <3>3. QED BY <3>1, <3>2
  <2>4. PaidUp(w)' /\ Decided(w)'
    BY <2>2, <2>3 DEF PaidUp, Decided
  <2>5. QED BY <1>3, <2>1, <2>4, QuietKeepsMoney
<1>5. CASE SetStatus(i, "verified") /\ Respond(w)
  <2>1. \A v \in Workers : Kept(v) \/ pc'[v] \notin PastVerify
    BY <1>5 DEF Respond, Kept, PastVerify, IInv, WorkInv, TypeOK
  <2>2. QED BY <1>3, <2>1, CalmKeepsMoney
<1>6. QED BY <1>2, <1>4, <1>5

LEMMA FinishReadEffectsMoney ==
  ASSUME IInv, NEW w \in Workers, FinishReadEffects(w)
  PROVE  MoneyInv'
<1> DEFINE i == job[w].intent
           b == job[w].bill
           writes == IF EffectsPending(i) THEN EffectWrites(i, b) ELSE {}
           n == balance[AccountOf[b]]
<1>1. i \in Intents /\ i \in captured
  BY DEF FinishReadEffects, IInv, WorkInv, RowsExist, HoldsIntent, FinishSteps,
     MoneyInv, CapturedFirst, PaidUp
<1>2. UNCHANGED <<dbVars, provider, captured, applied>>
  BY DEF FinishReadEffects
<1>3. QuietRows /\ MoneyGrows
  BY FinishQuiet
<1>4. job' = [job EXCEPT ![w].apply = EffectsPending(i), ![w].writes = writes,
                         ![w].seen = n]
  BY DEF FinishReadEffects
<1>5. /\ job'[w].intent = i /\ job'[w].apply = EffectsPending(i)
      /\ job'[w].writes = writes
      /\ \A v \in Workers : v # w => job'[v] = job[v]
  <2> HIDE DEF writes, n
  <2>1. QED BY <1>4 DEF IInv, WorkInv, TypeOK, Job
<1>6. \A v \in Workers : v # w => Kept(v)
  BY <1>5 DEF FinishReadEffects, Goto, Kept, IInv, WorkInv, TypeOK
<1>7. PaidUp(w)'
  BY <1>1, <1>2, <1>5 DEF PaidUp
<1>8. Decided(w)'
  <2>1. row' = row
    BY <1>2 DEF dbVars
  <2>2. row[i].effects \in BOOLEAN
    BY <1>1 DEF IInv, WorkInv, TypeOK, Row
  <2>3. job'[w].apply <=> ~row'[job'[w].intent].effects
    BY <1>5, <2>1 DEF EffectsPending
  <2>4. ~job'[w].apply => job'[w].writes = {}
    BY <1>5
  <2>5. QED BY <2>3, <2>4 DEF Decided
<1>9. QED BY <1>3, <1>6, <1>7, <1>8, QuietKeepsMoney

LEMMA FinishTakeOrderMoney ==
  ASSUME IInv, NEW w \in Workers, FinishTakeOrder(w)
  PROVE  MoneyInv'
<1>1. UNCHANGED <<dbVars, provider, captured, applied>>
  BY DEF FinishTakeOrder
<1>2. QuietRows /\ MoneyGrows
  BY FinishQuiet
<1>3. /\ job'[w].intent = job[w].intent /\ job'[w].apply = job[w].apply
      /\ job'[w].writes = job[w].writes
  BY DEF FinishTakeOrder, IInv, WorkInv, TypeOK, Job
<1>4. \A v \in Workers : v # w => Kept(v)
  BY DEF FinishTakeOrder, Goto, Kept, IInv, WorkInv, TypeOK
<1>5. PaidUp(w)' /\ Decided(w)'
  BY <1>1, <1>3 DEF FinishTakeOrder, dbVars, PaidUp, Decided, IInv, MoneyInv,
     CapturedFirst, DecisionHolds
<1>6. QED BY <1>2, <1>4, <1>5, QuietKeepsMoney

(* The commit of finish, in terms of its intent and bill.                  *)
LEMMA CommitFacts ==
  ASSUME IInv, NEW w \in Workers, FinishCommit(w)
  PROVE  LET i == job[w].intent
             b == job[w].bill
         IN  /\ i \in Intents /\ b \in Bills /\ i \in captured
             /\ row[i].status # "none" /\ row[i].bill = b
             /\ row'[i].bill = b /\ row'[i].status = "settled" /\ row'[i].effects
             /\ \A j \in Intents : j # i => row'[j] = row[j]
             /\ applied[i] = IF row[i].effects THEN 1 ELSE 0
             /\ applied'[i] = 1
             /\ \A j \in Intents : j # i => applied'[j] = applied[j]
             /\ paid' \in {paid, paid \cup {b}}
             /\ row[i].effects => applied' = applied /\ paid' = paid
             /\ UNCHANGED <<provider, captured>>
<1> DEFINE i == job[w].intent
           b == job[w].bill
<1>1. i \in Intents /\ b \in Bills /\ row[i].status # "none" /\ row[i].bill = b
  BY DEF FinishCommit, IInv, WorkInv, RowsExist, FinishOwnsRow, HoldsIntent, FinishSteps
<1>2. i \in captured
  BY DEF FinishCommit, IInv, MoneyInv, CapturedFirst, PaidUp
<1>3. row' = [row EXCEPT ![i].status = "settled", ![i].effects = TRUE]
  BY DEF FinishCommit
<1>4. /\ row'[i].bill = b /\ row'[i].status = "settled" /\ row'[i].effects
      /\ \A j \in Intents : j # i => row'[j] = row[j]
  BY <1>1, <1>3 DEF IInv, WorkInv, TypeOK, Row
<1>5. applied[i] = IF row[i].effects THEN 1 ELSE 0
  BY <1>1 DEF IInv, MoneyInv, EffectsCounted
<1>6. /\ job[w].apply <=> ~row[i].effects
      /\ ~job[w].apply => job[w].writes = {}
  BY DEF FinishCommit, IInv, MoneyInv, DecisionHolds, Decided
<1>7. /\ applied' = IF job[w].apply THEN [applied EXCEPT ![i] = @ + 1] ELSE applied
      /\ paid' = IF "bill" \in job[w].writes THEN paid \cup {b} ELSE paid
      /\ UNCHANGED <<provider, captured>>
  BY DEF FinishCommit
<1>8. applied'[i] = 1 /\ \A j \in Intents : j # i => applied'[j] = applied[j]
  BY <1>1, <1>5, <1>6, <1>7 DEF IInv, WorkInv, TypeOK
<1>9. /\ paid' \in {paid, paid \cup {b}}
      /\ row[i].effects => applied' = applied /\ paid' = paid
  BY <1>6, <1>7
<1>10. QED BY <1>1, <1>2, <1>4, <1>5, <1>7, <1>8, <1>9

LEMMA FinishCommitMoney ==
  ASSUME IInv, NEW w \in Workers, FinishCommit(w)
  PROVE  MoneyInv'
<1> DEFINE i == job[w].intent
           b == job[w].bill
<1>1. /\ i \in Intents /\ b \in Bills /\ i \in captured
      /\ row'[i].bill = b /\ row'[i].status = "settled" /\ row'[i].effects
      /\ \A j \in Intents : j # i => row'[j] = row[j]
      /\ applied'[i] = 1
      /\ \A j \in Intents : j # i => applied'[j] = applied[j]
      /\ paid' \in {paid, paid \cup {b}}
      /\ UNCHANGED <<provider, captured>>
  BY CommitFacts
<1>2. \A v \in Workers : v # w => Kept(v)
  BY DEF FinishCommit, Respond, Kept, IInv, WorkInv, TypeOK
<1>3. pc'[w] = "idle"
  BY DEF FinishCommit, Respond, IInv, WorkInv, TypeOK
<1> HIDE DEF i, b
<1>4. CapturedFirst'
  BY <1>1, <1>2, <1>3 DEF IInv, MoneyInv, CapturedFirst, PaidUp, Kept
<1>5. DecisionHolds'
  <2>1. ASSUME NEW v \in Workers, v # w PROVE Decided(v)'
    <3>1. pc[v] \in {"f_order", "f_commit"} =>
            job[v].intent \in Intents /\ job[v].intent # i
      BY <2>1 DEF FinishCommit, IInv, WorkInv, RowsExist, FinishOwnsRow, HoldsIntent,
         FinishSteps, i
    <3>2. QED BY <1>1, <1>2, <2>1, <3>1 DEF Kept, IInv, MoneyInv, DecisionHolds, Decided
  <2>2. QED BY <1>3, <2>1 DEF DecisionHolds, Decided
<1>6. EffectsCounted'
  BY <1>1 DEF IInv, MoneyInv, EffectsCounted
<1>7. EffectsNeedCapture'
  BY <1>1 DEF IInv, MoneyInv, EffectsNeedCapture
<1>8. SettledIsComplete'
  <2>1. /\ {"settled", "side_effect"} \subseteq ledger'[i]
        /\ \A j \in Intents : j # i => ledger'[j] = ledger[j]
    BY <1>1 DEF FinishCommit, IInv, WorkInv, TypeOK, i
  <2>2. QED BY <1>1, <2>1 DEF IInv, MoneyInv, SettledIsComplete
<1>9. PaidBillWasPaidFor'
  <2>1. ASSUME NEW c \in paid
        PROVE  \E j \in captured' : row'[j].bill = c /\ applied'[j] > 0
    <3>1. PICK j \in captured : row[j].bill = c /\ applied[j] > 0
      BY DEF IInv, MoneyInv, PaidBillWasPaidFor
    <3>2. j \in Intents
      BY DEF IInv, WorkInv, TypeOK
    <3>3. row[i].bill = b
      BY CommitFacts DEF i, b
    <3>4. QED BY <1>1, <3>1, <3>2, <3>3
  <2>2. \E j \in captured' : row'[j].bill = b /\ applied'[j] > 0
    BY <1>1
  <2>3. QED BY <1>1, <2>1, <2>2 DEF PaidBillWasPaidFor
<1>10. QED BY <1>4, <1>5, <1>6, <1>7, <1>8, <1>9 DEF MoneyInv

LEMMA FinishMoney ==
  ASSUME IInv, NEW w \in Workers, Finish(w)
  PROVE  MoneyInv'
<1>1. CASE \E i \in Intents : FinishLock(w, i)
  <2>1. QuietRows /\ MoneyGrows
    BY <1>1, FinishQuiet
  <2>2. \A v \in Workers : Kept(v) \/ pc'[v] \notin PastVerify
    BY <1>1 DEF FinishLock, Goto, Kept, PastVerify, IInv, WorkInv, TypeOK
  <2>3. QED BY <2>1, <2>2, CalmKeepsMoney
<1>2. QED BY <1>1, FinishVerifyMoney, FinishSettleMoney, FinishReadEffectsMoney,
             FinishTakeOrderMoney, FinishCommitMoney DEF Finish

-----------------------------------------------------------------------------
(* The inductive invariant and what it implies.                            *)

LEMMA IInvInit == Init => IInv
<1> SUFFICES ASSUME Init PROVE IInv
  OBVIOUS
<1>1. WorkInv
  BY WorkInit
<1>2. MoneyInv
  BY DEF Init, NoRow, MoneyInv, CapturedFirst, PaidUp, DecisionHolds, Decided,
     EffectsCounted, EffectsNeedCapture, SettledIsComplete, PaidBillWasPaidFor
<1>3. QED BY <1>1, <1>2 DEF IInv

LEMMA IInvStep == IInv /\ [Next]_vars => IInv'
<1> SUFFICES ASSUME IInv, [Next]_vars PROVE IInv'
  OBVIOUS
<1>1. WorkInv'
  BY WorkStep DEF IInv
<1>2. MoneyInv'
  <2>1. CASE Next
    BY <2>1, StartMoney, FinishMoney, CancelMoney, EnvironmentMoney DEF Next
  <2>2. CASE UNCHANGED vars
    BY <2>2, NoMoneyMoves, CalmKeepsMoney DEF vars, QuietRows, Kept
  <2>3. QED BY <2>1, <2>2
<1>3. QED BY <1>1, <1>2 DEF IInv

(* The inductive invariant holds throughout every execution.               *)
THEOREM IInvCorrect == Spec => []IInv
BY IInvInit, IInvStep, PTL DEF Spec

(* The side effects of an intent are committed at most once.               *)
THEOREM EffectsOnce == Spec => []EffectsAtMostOnce
<1>1. IInv => EffectsAtMostOnce
  BY DEF IInv, MoneyInv, EffectsCounted, EffectsAtMostOnce
<1>2. QED BY <1>1, IInvCorrect, PTL

(* No side effect without captured money, whatever answers the gateway     *)
(* loses.                                                                  *)
THEOREM EffectsAfterCapture == Spec => []EffectsNeedCapture
<1>1. IInv => EffectsNeedCapture
  BY DEF IInv, MoneyInv
<1>2. QED BY <1>1, IInvCorrect, PTL

(* A settled intent has its effects and its audit trail.                   *)
THEOREM SettledComplete == Spec => []SettledIsComplete
<1>1. IInv => SettledIsComplete
  BY DEF IInv, MoneyInv
<1>2. QED BY <1>1, IInvCorrect, PTL

(* Every paid bill was paid by a captured intent of its own.               *)
THEOREM PaidBillsPaidFor == Spec => []PaidBillWasPaidFor
<1>1. IInv => PaidBillWasPaidFor
  BY DEF IInv, MoneyInv
<1>2. QED BY <1>1, IInvCorrect, PTL

-----------------------------------------------------------------------------
(* The bookkeeping of top-ups: the balance-ledger rows, the balances and   *)
(* what a commit that is still to come will add to them.                   *)

Credited(a) == {i \in IntentsOf(a) : credited[i] > 0}

(* What the side effects are about to write is still what the bill needs.  *)
WritesFit(w) ==
  pc[w] \in {"f_order", "f_commit"} =>
    LET kind == BillKind[job[w].bill]
    IN  /\ kind = "wallet_topup" =>
             ("account" \in job[w].writes <=> ~row[job[w].intent].effects)
        /\ kind = "sms_order" =>
             ("bill" \in job[w].writes <=> "account" \in job[w].writes)

(* The balance read is not more than what is credited by now: it may be    *)
(* stale, but only too small.                                              *)
SeenBacked(w) ==
  \A a \in Accounts : pc[w] = "f_commit" /\ AccountOf[job[w].bill] = a =>
    job[w].seen <= Cardinality(Credited(a))

(* The workers' part and the tables' part.                                 *)
PlansFit == \A w \in Workers : WritesFit(w) /\ SeenBacked(w)

CreditsAreEffects == \A i \in Intents : credited[i] > 0 => row[i].effects

BalancesCredited == \A a \in Accounts : balance[a] <= Cardinality(Credited(a))

CreditInv ==
  /\ PlansFit
  /\ CreditsAreEffects
  /\ BalancesCredited
  /\ TopUpRecordedOnce
  /\ PaidOrderWasCredited

CInv == IInv /\ CreditInv

LEMMA CreditedFinite ==
  ASSUME NEW a
  PROVE  IsFiniteSet(Credited(a)) /\ Cardinality(Credited(a)) \in Nat
<1>1. IsFiniteSet(Intents)
  BY FS_Interval, MaxIntentsAssumption DEF Intents
<1>2. Credited(a) \subseteq Intents
  BY DEF Credited, IntentsOf
<1>3. QED BY <1>1, <1>2, FS_Subset, FS_CardinalityType

(* No credit of an account is ever taken back.                             *)
LEMMA CreditedGrows ==
  ASSUME CInv, NEW a,
         \A i \in Intents : credited[i] > 0 => row'[i].bill = row[i].bill /\ credited'[i] > 0
  PROVE  /\ Credited(a) \subseteq Credited(a)'
         /\ IsFiniteSet(Credited(a)') /\ Cardinality(Credited(a)') \in Nat
         /\ Cardinality(Credited(a)) <= Cardinality(Credited(a)')
<1>1. Credited(a) \subseteq Credited(a)'
  BY DEF Credited, IntentsOf
<1>2. IsFiniteSet(Intents)
  BY FS_Interval, MaxIntentsAssumption DEF Intents
<1>3. Credited(a)' \subseteq Intents
  BY DEF Credited, IntentsOf
<1>4. IsFiniteSet(Credited(a)')
  BY <1>2, <1>3, FS_Subset
<1>5. QED BY <1>1, <1>4, FS_Subset, FS_CardinalityType

LEMMA QuietKeepsCredit ==
  ASSUME CInv, QuietRows, UNCHANGED <<balance, credited>>,
         \A w \in Workers : Kept(w) \/ (WritesFit(w)' /\ SeenBacked(w)')
  PROVE  CreditInv'
<1>1. \A i \in Intents : row[i].status # "none" => row'[i].bill = row[i].bill
  BY DEF QuietRows
<1>2. \A i \in Intents : row[i].effects => row[i].status # "none"
  BY DEF CInv, IInv, WorkInv, RowsExist
<1>3. \A i \in Intents : credited[i] > 0 => row'[i].bill = row[i].bill /\ credited'[i] > 0
  BY <1>1, <1>2 DEF CInv, CreditInv, CreditsAreEffects
<1>4. \A a : /\ Cardinality(Credited(a)) <= Cardinality(Credited(a)')
             /\ Cardinality(Credited(a)) \in Nat /\ Cardinality(Credited(a)') \in Nat
  BY <1>3, CreditedGrows, CreditedFinite
<1>5. PlansFit'
  <2>1. ASSUME NEW w \in Workers, Kept(w) PROVE WritesFit(w)' /\ SeenBacked(w)'
    <3>1. pc[w] \in {"f_order", "f_commit"} => job[w].intent \in Intents
      BY DEF CInv, IInv, WorkInv, RowsExist, HoldsIntent, FinishSteps
    <3>2. WritesFit(w)'
      BY <2>1, <3>1 DEF CInv, CreditInv, PlansFit, WritesFit, Kept, QuietRows
    <3>3. job[w].seen \in Nat
      BY DEF CInv, IInv, WorkInv, TypeOK, Job
    <3>4. SeenBacked(w)'
      <4>1. ASSUME NEW a \in Accounts, pc'[w] = "f_commit", AccountOf[job'[w].bill] = a
            PROVE  job'[w].seen <= Cardinality(Credited(a)')
        <5>1. pc[w] = "f_commit" /\ job'[w] = job[w]
          BY <2>1, <4>1 DEF Kept
        <5>2. job[w].seen <= Cardinality(Credited(a))
          BY <4>1, <5>1 DEF CInv, CreditInv, PlansFit, SeenBacked
        <5>3. QED BY <5>1, <5>2, <3>3, <1>4
      <4>2. QED BY <4>1 DEF SeenBacked
    <3>5. QED BY <3>2, <3>4
  <2>2. QED BY <2>1 DEF PlansFit
<1>6. CreditsAreEffects'
  BY DEF CInv, CreditInv, CreditsAreEffects, QuietRows
<1>7. BalancesCredited'
  <2>1. ASSUME NEW a \in Accounts PROVE balance'[a] <= Cardinality(Credited(a)')
    <3>1. balance[a] <= Cardinality(Credited(a)) /\ balance[a] \in Nat
      BY DEF CInv, CreditInv, BalancesCredited, IInv, WorkInv, TypeOK
    <3>2. QED BY <3>1, <1>4
  <2>2. QED BY <2>1 DEF BalancesCredited
<1>8. TopUpRecordedOnce'
  BY <1>1, <1>2 DEF CInv, CreditInv, TopUpRecordedOnce, QuietRows
<1>9. PaidOrderWasCredited'
  BY <1>3 DEF CInv, CreditInv, PaidOrderWasCredited, QuietRows
<1>10. QED BY <1>5, <1>6, <1>7, <1>8, <1>9 DEF CreditInv

LEMMA EarlyKeepsCredit ==
  ASSUME CInv, QuietRows, UNCHANGED <<balance, credited>>,
         \A w \in Workers : Kept(w) \/ pc'[w] \notin {"f_order", "f_commit"}
  PROVE  CreditInv'
BY QuietKeepsCredit DEF WritesFit, SeenBacked

LEMMA StartCredit ==
  ASSUME CInv, NEW w \in Workers, Start(w)
  PROVE  CreditInv'
<1>1. UNCHANGED <<balance, credited>>
  BY DEF Start, StartResolve, StartFindKey, StartFreeKey, StartFindOpen, StartInsert,
     StartRequest, StartRecord, dbVars
<1>2. QED BY <1>1, StartQuiet, StartMoves, EarlyKeepsCredit DEF CInv, PastVerify

LEMMA CancelCredit ==
  ASSUME CInv, NEW w \in Workers, Cancel(w)
  PROVE  CreditInv'
<1>1. UNCHANGED <<balance, credited>>
  BY DEF Cancel, CancelLoad, CancelCall, CancelWrite, dbVars
<1>2. QED BY <1>1, CancelQuiet, CancelMoves, EarlyKeepsCredit DEF CInv, PastVerify

LEMMA EnvironmentCredit ==
  ASSUME CInv, Environment
  PROVE  CreditInv'
<1>1. UNCHANGED <<balance, credited>>
  BY DEF Environment, Abort, CustomerPays, ProviderReturns, TwoHoursPass, dbVars
<1>2. QED BY <1>1, EnvironmentQuiet, EnvironmentMoves, EarlyKeepsCredit DEF CInv, PastVerify

LEMMA FinishEarlyCredit ==
  ASSUME CInv, NEW w \in Workers,
         (\E i \in Intents : FinishLock(w, i)) \/ FinishVerify(w) \/ FinishSettle(w)
  PROVE  CreditInv'
<1>1. UNCHANGED <<balance, credited>>
  BY DEF FinishLock, FinishVerify, FinishSettle, dbVars
<1>2. \A v \in Workers : Kept(v) \/ pc'[v] \notin {"f_order", "f_commit"}
  BY DEF FinishLock, FinishVerify, FinishSettle, Goto, Respond, Kept, CInv, IInv, WorkInv,
     TypeOK
<1>3. QED BY <1>1, <1>2, FinishQuiet, EarlyKeepsCredit DEF CInv

LEMMA FinishReadEffectsCredit ==
  ASSUME CInv, NEW w \in Workers, FinishReadEffects(w)
  PROVE  CreditInv'
<1> DEFINE i == job[w].intent
           b == job[w].bill
           writes == IF EffectsPending(i) THEN EffectWrites(i, b) ELSE {}
           n == balance[AccountOf[b]]
<1>1. i \in Intents /\ b \in Bills
  BY DEF FinishReadEffects, CInv, IInv, WorkInv, RowsExist, FinishOwnsRow, HoldsIntent,
     FinishSteps
<1>2. UNCHANGED <<row, balance, credited>>
  BY DEF FinishReadEffects, dbVars
<1>3. /\ job'[w].intent = i /\ job'[w].bill = b /\ job'[w].writes = writes
      /\ job'[w].seen = n
      /\ \A v \in Workers : v # w => Kept(v)
  <2>1. job' = [job EXCEPT ![w].apply = EffectsPending(i), ![w].writes = writes,
                           ![w].seen = n]
    BY DEF FinishReadEffects
  <2>2. \A v \in Workers : v # w => pc'[v] = pc[v]
    BY DEF FinishReadEffects, Goto, CInv, IInv, WorkInv, TypeOK
  <2> HIDE DEF writes, n
  <2>3. QED BY <2>1, <2>2 DEF CInv, IInv, WorkInv, TypeOK, Job, Kept
<1>4. row[i].effects \in BOOLEAN /\ credited[i] \in Nat /\ (credited[i] > 0 => row[i].effects)
  BY <1>1 DEF CInv, CreditInv, CreditsAreEffects, IInv, WorkInv, TypeOK, Row
<1>5. BillKind[b] = "wallet_topup" => ("account" \in writes <=> ~row[i].effects)
  BY <1>4 DEF EffectsPending, EffectWrites
<1>6. BillKind[b] = "sms_order" => ("bill" \in writes <=> "account" \in writes)
  BY DEF EffectWrites
<1>7. WritesFit(w)'
  <2> HIDE DEF writes, i, b, n
  <2>1. QED BY <1>2, <1>3, <1>5, <1>6 DEF WritesFit
<1>8. SeenBacked(w)'
  <2>1. ASSUME NEW a \in Accounts, AccountOf[job'[w].bill] = a
        PROVE  job'[w].seen <= Cardinality(Credited(a)')
    <3>1. job'[w].seen <= Cardinality(Credited(a))
      BY <1>3, <2>1 DEF CInv, CreditInv, BalancesCredited
    <3>2. Credited(a)' = Credited(a)
      BY <1>2 DEF Credited, IntentsOf
    <3>3. QED BY <3>1, <3>2
  <2>2. QED BY <2>1 DEF SeenBacked
<1>9. QED BY <1>2, <1>3, <1>7, <1>8, FinishQuiet, QuietKeepsCredit DEF CInv

LEMMA FinishTakeOrderCredit ==
  ASSUME CInv, NEW w \in Workers, FinishTakeOrder(w)
  PROVE  CreditInv'
<1>1. UNCHANGED <<row, balance, credited>>
  BY DEF FinishTakeOrder, dbVars
<1>2. /\ job'[w].intent = job[w].intent /\ job'[w].bill = job[w].bill
      /\ job'[w].writes = job[w].writes
      /\ job'[w].seen = balance[AccountOf[job[w].bill]]
      /\ \A v \in Workers : v # w => Kept(v)
  BY DEF FinishTakeOrder, Goto, Kept, CInv, IInv, WorkInv, TypeOK, Job
<1>3. WritesFit(w)'
  BY <1>1, <1>2 DEF FinishTakeOrder, WritesFit, CInv, CreditInv, PlansFit
<1>4. SeenBacked(w)'
  <2>1. ASSUME NEW a \in Accounts, AccountOf[job'[w].bill] = a
        PROVE  job'[w].seen <= Cardinality(Credited(a)')
    <3>1. job'[w].seen <= Cardinality(Credited(a))
      BY <1>2, <2>1 DEF CInv, CreditInv, BalancesCredited
    <3>2. Credited(a)' = Credited(a)
      BY <1>1 DEF Credited, IntentsOf
    <3>3. QED BY <3>1, <3>2
  <2>2. QED BY <2>1 DEF SeenBacked
<1>5. QED BY <1>1, <1>2, <1>3, <1>4, FinishQuiet, QuietKeepsCredit DEF CInv

(* The commit of finish writes one row of the balance ledger, and only for *)
(* an intent that has none yet.                                            *)
LEMMA CommitCredits ==
  ASSUME CInv, NEW w \in Workers, FinishCommit(w)
  PROVE  LET i == job[w].intent
             b == job[w].bill
             credits == "account" \in job[w].writes
         IN  /\ credits => ~row[i].effects /\ credited[i] = 0
             /\ credits => balance' = [balance EXCEPT ![AccountOf[b]] = job[w].seen + 1]
             /\ credits => credited'[i] = 1
             /\ ~credits => balance' = balance /\ credited' = credited
             /\ \A j \in Intents : j # i => credited'[j] = credited[j]
             /\ \A j \in Intents :
                  credited[j] > 0 => row'[j].bill = row[j].bill /\ credited'[j] > 0
<1> DEFINE i == job[w].intent
           b == job[w].bill
           credits == "account" \in job[w].writes
<1>1. /\ i \in Intents /\ row[i].bill = b /\ row'[i].bill = b
      /\ \A j \in Intents : j # i => row'[j] = row[j]
  BY CommitFacts DEF CInv
<1>2. /\ job[w].apply <=> ~row[i].effects
      /\ ~job[w].apply => job[w].writes = {}
  BY DEF FinishCommit, CInv, IInv, MoneyInv, DecisionHolds, Decided
<1>3. credited[i] \in Nat /\ (credited[i] > 0 => row[i].effects)
  BY <1>1 DEF CInv, CreditInv, CreditsAreEffects, IInv, WorkInv, TypeOK
<1>4. credits => ~row[i].effects /\ credited[i] = 0
  BY <1>2, <1>3
<1>5. /\ balance' = IF credits THEN [balance EXCEPT ![AccountOf[b]] = job[w].seen + 1]
                    ELSE balance
      /\ credited' = IF credits THEN [credited EXCEPT ![i] = @ + 1] ELSE credited
  BY DEF FinishCommit
<1>6. credited \in [Intents -> Nat]
  BY DEF CInv, IInv, WorkInv, TypeOK
<1> HIDE DEF i, b, credits
<1>7. credits => credited'[i] = 1
  BY <1>1, <1>4, <1>5, <1>6
<1>8. \A j \in Intents : j # i => credited'[j] = credited[j]
  BY <1>5, <1>6
<1>9. \A j \in Intents : credited[j] > 0 => row'[j].bill = row[j].bill /\ credited'[j] > 0
  BY <1>1, <1>4, <1>5, <1>8
<1>10. QED BY <1>4, <1>5, <1>7, <1>8, <1>9 DEF i, b, credits

LEMMA FinishCommitCredit ==
  ASSUME CInv, NEW w \in Workers, FinishCommit(w)
  PROVE  CreditInv'
<1> DEFINE i == job[w].intent
           b == job[w].bill
           credits == "account" \in job[w].writes
<1>1. /\ i \in Intents /\ b \in Bills /\ row[i].bill = b
      /\ row'[i].bill = b /\ row'[i].effects
      /\ \A j \in Intents : j # i => row'[j] = row[j]
  BY CommitFacts DEF CInv
<1>2. /\ credits => ~row[i].effects /\ credited[i] = 0
      /\ credits => balance' = [balance EXCEPT ![AccountOf[b]] = job[w].seen + 1]
      /\ credits => credited'[i] = 1
      /\ ~credits => balance' = balance /\ credited' = credited
      /\ \A j \in Intents : j # i => credited'[j] = credited[j]
      /\ \A j \in Intents :
           credited[j] > 0 => row'[j].bill = row[j].bill /\ credited'[j] > 0
  BY CommitCredits
<1>3. /\ BillKind[b] = "wallet_topup" => (credits <=> ~row[i].effects)
      /\ BillKind[b] = "sms_order" => ("bill" \in job[w].writes <=> credits)
  BY DEF FinishCommit, CInv, CreditInv, PlansFit, WritesFit
<1>4. \A a \in Accounts : AccountOf[b] = a => job[w].seen <= Cardinality(Credited(a))
  BY DEF FinishCommit, CInv, CreditInv, PlansFit, SeenBacked
<1>5. paid' = IF "bill" \in job[w].writes THEN paid \cup {b} ELSE paid
  BY DEF FinishCommit
<1>6. \A v \in Workers : v # w => Kept(v)
  BY DEF FinishCommit, Respond, Kept, CInv, IInv, WorkInv, TypeOK
<1>7. pc'[w] = "idle"
  BY DEF FinishCommit, Respond, CInv, IInv, WorkInv, TypeOK
<1>8. \A v \in Workers : pc[v] \in FinishSteps /\ v # w =>
        job[v].intent \in Intents /\ job[v].intent # i
  BY DEF FinishCommit, CInv, IInv, WorkInv, RowsExist, FinishOwnsRow, HoldsIntent,
     FinishSteps
<1>9. job[w].seen \in Nat /\ b # None
  BY <1>1, NoneAssumption DEF CInv, IInv, WorkInv, TypeOK, Job
<1> HIDE DEF i, b, credits
<1>10. \A a : /\ Credited(a) \subseteq Credited(a)' /\ IsFiniteSet(Credited(a)')
              /\ Cardinality(Credited(a)) <= Cardinality(Credited(a)')
              /\ Cardinality(Credited(a)) \in Nat /\ Cardinality(Credited(a)') \in Nat
  BY <1>2, CreditedGrows, CreditedFinite
<1>11. PlansFit'
  <2>1. ASSUME NEW v \in Workers, v # w PROVE WritesFit(v)'
    BY <1>1, <1>6, <1>8, <2>1 DEF Kept, WritesFit, CInv, CreditInv, PlansFit, FinishSteps
  <2>2. ASSUME NEW v \in Workers, v # w PROVE SeenBacked(v)'
    <3>1. ASSUME NEW a \in Accounts, pc'[v] = "f_commit", AccountOf[job'[v].bill] = a
          PROVE  job'[v].seen <= Cardinality(Credited(a)')
      <4>1. pc[v] = "f_commit" /\ job'[v] = job[v]
        BY <1>6, <2>2, <3>1 DEF Kept
      <4>2. job[v].seen <= Cardinality(Credited(a)) /\ job[v].seen \in Nat
        BY <3>1, <4>1 DEF CInv, CreditInv, PlansFit, SeenBacked, IInv, WorkInv, TypeOK, Job
      <4>3. QED BY <4>1, <4>2, <1>10
    <3>2. QED BY <3>1 DEF SeenBacked
  <2>3. WritesFit(w)' /\ SeenBacked(w)'
    BY <1>7 DEF WritesFit, SeenBacked
  <2>4. QED BY <2>1, <2>2, <2>3 DEF PlansFit
<1>12. CreditsAreEffects'
  BY <1>1, <1>2 DEF CInv, CreditInv, CreditsAreEffects
<1>13. BalancesCredited'
  <2>1. ASSUME NEW a \in Accounts PROVE balance'[a] <= Cardinality(Credited(a)')
    <3>1. balance[a] <= Cardinality(Credited(a)) /\ balance \in [Accounts -> Nat]
      BY DEF CInv, CreditInv, BalancesCredited, IInv, WorkInv, TypeOK
    <3>2. CASE credits /\ a = AccountOf[b]
      <4>1. balance'[a] = job[w].seen + 1
        BY <1>2, <3>1, <3>2
      <4>2. i \notin Credited(a) /\ i \in Credited(a)'
        BY <1>1, <1>2, <1>9, <3>2 DEF Credited, IntentsOf
      <4>3. /\ IsFiniteSet(Credited(a))
            /\ Cardinality(Credited(a) \cup {i}) = Cardinality(Credited(a)) + 1
        BY <4>2, CreditedFinite, FS_AddElement
      <4>4. Credited(a) \cup {i} \subseteq Credited(a)'
        BY <1>10, <4>2
      <4>5. Cardinality(Credited(a) \cup {i}) <= Cardinality(Credited(a)')
        BY <1>10, <4>4, FS_Subset
      <4>6. QED BY <1>4, <1>9, <1>10, <3>2, <4>1, <4>3, <4>5
    <3>3. CASE ~(credits /\ a = AccountOf[b])
      <4>1. balance'[a] = balance[a]
        BY <1>2, <3>1, <3>3
      <4>2. QED BY <1>10, <3>1, <4>1
    <3>4. QED BY <3>2, <3>3
  <2>2. QED BY <2>1 DEF BalancesCredited
<1>14. TopUpRecordedOnce'
  <2>1. ASSUME NEW j \in Intents, row'[j].effects, BillKind[row'[j].bill] = "wallet_topup"
        PROVE  credited'[j] = 1
    <3>1. CASE j # i
      BY <1>1, <1>2, <2>1, <3>1 DEF CInv, CreditInv, TopUpRecordedOnce
    <3>2. CASE j = i
      BY <1>1, <1>2, <1>3, <2>1, <3>2 DEF CInv, CreditInv, TopUpRecordedOnce
    <3>3. QED BY <3>1, <3>2
  <2>2. QED BY <2>1 DEF TopUpRecordedOnce
<1>15. PaidOrderWasCredited'
  <2>1. ASSUME NEW c \in paid', BillKind[c] = "sms_order"
        PROVE  \E j \in Intents : row'[j].bill = c /\ credited'[j] > 0
    <3>1. CASE c \in paid
      BY <1>2, <2>1, <3>1 DEF CInv, CreditInv, PaidOrderWasCredited
    <3>2. CASE c \notin paid
      BY <1>1, <1>2, <1>3, <1>5, <2>1, <3>2
    <3>3. QED BY <3>1, <3>2
  <2>2. QED BY <2>1 DEF PaidOrderWasCredited
<1>16. QED BY <1>11, <1>12, <1>13, <1>14, <1>15 DEF CreditInv

LEMMA CInvInit == Init => CInv
<1> SUFFICES ASSUME Init PROVE CInv
  OBVIOUS
<1>1. BalancesCredited
  BY CreditedFinite DEF Init, BalancesCredited
<1>2. CreditInv
  BY <1>1 DEF Init, NoRow, CreditInv, PlansFit, WritesFit, SeenBacked, CreditsAreEffects,
     TopUpRecordedOnce, PaidOrderWasCredited
<1>3. QED BY <1>2, IInvInit DEF CInv

LEMMA CInvStep == CInv /\ [Next]_vars => CInv'
<1> SUFFICES ASSUME CInv, [Next]_vars PROVE CInv'
  OBVIOUS
<1>1. IInv'
  BY IInvStep DEF CInv
<1>2. CreditInv'
  <2>1. CASE Next
    BY <2>1, StartCredit, FinishEarlyCredit, FinishReadEffectsCredit, FinishTakeOrderCredit,
       FinishCommitCredit, CancelCredit, EnvironmentCredit DEF Next, Finish
  <2>2. CASE UNCHANGED vars
    <3>1. \A w \in Workers : Kept(w)
      BY <2>2 DEF vars, Kept
    <3>2. QED BY <2>2, <3>1, EarlyKeepsCredit DEF vars, QuietRows
  <2>3. QED BY <2>1, <2>2
<1>3. QED BY <1>1, <1>2 DEF CInv

(* The bookkeeping invariant holds throughout every execution.             *)
THEOREM CInvCorrect == Spec => []CInv
BY CInvInit, CInvStep, PTL DEF Spec

(* A wallet top-up whose effects were applied is in the wallet ledger      *)
(* exactly once.                                                           *)
THEOREM TopUpsRecordedOnce == Spec => []TopUpRecordedOnce
<1>1. CInv => TopUpRecordedOnce
  BY DEF CInv, CreditInv
<1>2. QED BY <1>1, CInvCorrect, PTL

(* An SMS order that is paid was credited for an intent of its own.        *)
THEOREM PaidOrdersCredited == Spec => []PaidOrderWasCredited
<1>1. CInv => PaidOrderWasCredited
  BY DEF CInv, CreditInv
<1>2. QED BY <1>1, CInvCorrect, PTL

(* A balance is at most the money captured for its account, however the    *)
(* top-ups race: no interleaving invents a credit.                         *)
THEOREM BalancesBacked == Spec => []BalanceBacked
<1>1. CInv => BalanceBacked
  <2>1. ASSUME CInv, NEW a \in Accounts
        PROVE  balance[a] <= Cardinality(IntentsOf(a) \cap captured)
    <3> DEFINE backed == IntentsOf(a) \cap captured
    <3>1. Credited(a) \subseteq backed
      BY <2>1 DEF CInv, CreditInv, CreditsAreEffects, IInv, MoneyInv, EffectsNeedCapture,
         Credited, IntentsOf
    <3>2. IsFiniteSet(backed)
      <4>1. IsFiniteSet(Intents) /\ backed \subseteq Intents
        BY FS_Interval, MaxIntentsAssumption DEF Intents, IntentsOf
      <4>2. QED BY <4>1, FS_Subset
    <3>3. Cardinality(Credited(a)) <= Cardinality(backed) /\ Cardinality(backed) \in Nat
      BY <3>1, <3>2, FS_Subset, FS_CardinalityType
    <3>4. balance[a] <= Cardinality(Credited(a)) /\ balance[a] \in Nat
      BY <2>1 DEF CInv, CreditInv, BalancesCredited, IInv, WorkInv, TypeOK
    <3>5. QED BY <3>3, <3>4, CreditedFinite
  <2>2. QED BY <2>1 DEF BalanceBacked
<1>2. QED BY <1>1, CInvCorrect, PTL

=============================================================================
