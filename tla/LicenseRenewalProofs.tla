------------------------ MODULE LicenseRenewalProofs ------------------------
(***************************************************************************)
(* The promises of markPaid for every number of processes, sites, renewals *)
(* and months.  The inductive invariant says what the payment that holds   *)
(* the locks may rely on until it commits.                                 *)
(***************************************************************************)
EXTENDS LicenseRenewal, TLAPS

(* At most one payment holds the license; its renewal is not paid yet, the *)
(* end it is going to write lies after the end in force, and a license     *)
(* that is cancelled will be written as cancelled.                         *)
PaymentOwnsLicense ==
  /\ \A p, q \in Procs : pc[p] \in PaySteps /\ pc[q] \in PaySteps => p = q
  /\ \A p \in Procs : pc[p] \in PaySteps =>
       /\ job[p].renewal \in Renewals
       /\ renewal[job[p].renewal] = "pending"
       /\ job[p].expiry > license.expiry
       /\ license.status = "cancelled" => job[p].status = "cancelled"

IInv == TypeOK /\ PaymentOwnsLicense /\ RenewedOnce

-----------------------------------------------------------------------------
(* Types *)

LEMMA StatesTyped ==
  /\ \A status \in {"unset", "active", "coming_soon", "suspended"} :
       Site(status) \in SiteState
  /\ \A reason \in {"none", "license_expired", "manual"} :
       Suspended(reason) \in SiteState
  /\ \A target \in Targets : target \in SiteState
<1>1. \A status \in {"unset", "active", "coming_soon", "suspended"} :
        Site(status) \in SiteState
  BY DEF Site, SiteState
<1>2. \A reason \in {"none", "license_expired", "manual"} :
        Suspended(reason) \in SiteState
  BY DEF Suspended, SiteState
<1>3. \A target \in Targets : target \in SiteState
  BY <1>1, <1>2, OpenStatesAssumption DEF Targets
<1>4. QED BY <1>1, <1>2, <1>3

LEMMA NoJobTyped == NoJob \in Job
<1>1. [s \in Sites |-> Site("unset")] \in [Sites -> SiteState] /\ Site("active") \in SiteState
  BY StatesTyped
<1>2. QED BY <1>1 DEF NoJob, Job, LicenseStatuses

LEMMA TypeInit == Init => TypeOK
BY NoJobTyped, StatesTyped, BoundsAssumption
DEF Init, TypeOK, Steps, LicenseStatuses

(* Updates of what a process remembers.                                    *)
LEMMA JobUpdates ==
  ASSUME NEW r \in Job, NEW sites \in SUBSET Sites, NEW others \in SUBSET Sites,
         NEW target \in SiteState, NEW copy \in [Sites -> SiteState]
  PROVE  /\ [r EXCEPT !.todo = sites] \in Job
         /\ [r EXCEPT !.done = sites] \in Job
         /\ [r EXCEPT !.todo = sites, !.done = others] \in Job
         /\ [r EXCEPT !.target = target, !.done = sites] \in Job
         /\ [r EXCEPT !.copy = copy, !.todo = sites] \in Job
         /\ [r EXCEPT !.copy = copy, !.todo = sites, !.target = target] \in Job
BY DEF Job

LEMMA JobColumns ==
  ASSUME TypeOK, NEW p \in Procs
  PROVE  /\ job[p] \in Job
         /\ job[p].renewal \in Renewals \cup {NoRenewal}
         /\ job[p].expiry \in Nat
         /\ job[p].status \in LicenseStatuses
         /\ job[p].copy \in [Sites -> SiteState]
         /\ job[p].todo \in SUBSET Sites
         /\ job[p].done \in SUBSET Sites
         /\ job[p].target \in SiteState
BY DEF TypeOK, Job

LEMMA RespondTyped ==
  ASSUME TypeOK, NEW p \in Procs, Respond(p)
  PROVE  pc' \in [Procs -> Steps] /\ job' \in [Procs -> Job]
BY NoJobTyped DEF TypeOK, Respond, Steps

LEMMA GotoTyped ==
  ASSUME TypeOK, NEW p \in Procs, NEW step \in Steps, Goto(p, step)
  PROVE  pc' \in [Procs -> Steps]
BY DEF TypeOK, Goto

(* The end and the status that a request prepares.                         *)
LEMMA NewEndTyped ==
  ASSUME TypeOK
  PROVE  /\ NewExpiry(license.expiry) \in Nat
         /\ NewExpiry(license.expiry) > license.expiry
         /\ \A status \in LicenseStatuses : Reactivated(status) \in LicenseStatuses
BY DEF TypeOK, NewExpiry, Reactivated, LicenseStatuses

LEMMA PutTyped ==
  ASSUME NEW current \in SiteState, NEW target \in SiteState,
         NEW o \in PutOutcomes(current, target)
  PROVE  o.site \in SiteState
BY DEF PutOutcomes

LEMMA NextSiteTyped ==
  ASSUME TypeOK, NEW p \in Procs, NEW s \in Sites, NEW step \in Steps,
         NextSite(p, s, step)
  PROVE  pc' \in [Procs -> Steps] /\ job' \in [Procs -> Job]
<1>1. CASE job[p].todo = {s}
  BY <1>1, RespondTyped DEF NextSite
<1>2. CASE job[p].todo # {s}
  <2>1. Goto(p, step) /\ job' = [job EXCEPT ![p].todo = @ \ {s}, ![p].done = {}]
    BY <1>2 DEF NextSite
  <2>2. [job[p] EXCEPT !.todo = job[p].todo \ {s}, !.done = {}] \in Job
    BY JobColumns, JobUpdates DEF SiteState
  <2>3. job' \in [Procs -> Job]
    BY <2>1, <2>2 DEF TypeOK
  <2>4. QED BY <2>1, <2>3, GotoTyped
<1>3. QED BY <1>1, <1>2

LEMMA RenewingTyped ==
  ASSUME TypeOK, NEW p \in Procs, Renewing(p)
  PROVE  TypeOK'
<1> USE JobColumns
<1>1. CASE OrderFind(p)
  BY <1>1, GotoTyped DEF OrderFind, TypeOK, licenseVars, siteVars, Steps
<1>2. CASE OrderCreate(p)
  BY <1>2, RespondTyped DEF OrderCreate, TypeOK, siteVars
<1>3. ASSUME NEW r \in Renewals, PayLock(p, r) PROVE TypeOK'
  <2>1. [NoJob EXCEPT !.renewal = r, !.expiry = NewExpiry(license.expiry),
                      !.status = Reactivated(license.status)] \in Job
    <3>1. license.status \in LicenseStatuses
      BY DEF TypeOK
    <3>2. QED BY <3>1, NoJobTyped, NewEndTyped DEF Job
  <2>2. job' \in [Procs -> Job] /\ pc' \in [Procs -> Steps]
    BY <1>3, <2>1, GotoTyped DEF PayLock, TypeOK, Steps, PaySteps
  <2>3. QED BY <1>3, <2>2 DEF PayLock, TypeOK, licenseVars, siteVars
<1>4. CASE PaySites(p)
  <2> DEFINE sites == IF job[p].expiry <= now THEN {}
                      ELSE {s \in Sites : mirror[s] = Suspended("license_expired")}
  <2>1. sites \in SUBSET Sites
    OBVIOUS
  <2>2. [job[p] EXCEPT !.todo = sites] \in Job
    BY <2>1, JobUpdates, StatesTyped DEF TypeOK
  <2>3. job' \in [Procs -> Job]
    BY <1>4, <2>2 DEF PaySites, TypeOK
  <2>4. pc' \in [Procs -> Steps]
    BY <1>4, GotoTyped DEF PaySites, Steps, PaySteps
  <2>5. QED BY <1>4, <2>3, <2>4 DEF PaySites, TypeOK, licenseVars, siteVars
<1>5. CASE PayPut(p)
  <2>0. PICK s \in job[p].todo : \E o \in PutOutcomes(remote[s], Site("active")) :
          /\ remote' = [remote EXCEPT ![s] = o.site]
          /\ job' = [job EXCEPT ![p].todo = @ \ {s},
                                ![p].done = IF o.ok THEN @ \cup {s} ELSE @]
          /\ Goto(p, IF job[p].todo = {s} THEN "p_commit" ELSE "p_put")
    BY <1>5 DEF PayPut
  <2>1. PICK o \in PutOutcomes(remote[s], Site("active")) :
          /\ remote' = [remote EXCEPT ![s] = o.site]
          /\ job' = [job EXCEPT ![p].todo = @ \ {s},
                                ![p].done = IF o.ok THEN @ \cup {s} ELSE @]
          /\ Goto(p, IF job[p].todo = {s} THEN "p_commit" ELSE "p_put")
    BY <2>0
  <2>2. s \in Sites
    OBVIOUS
  <2>3. remote' \in [Sites -> SiteState]
    BY <2>1, <2>2, PutTyped, StatesTyped DEF TypeOK
  <2>4. [job[p] EXCEPT !.todo = job[p].todo \ {s},
                       !.done = IF o.ok THEN job[p].done \cup {s} ELSE job[p].done] \in Job
    BY <2>2 DEF Job
  <2>5. job' \in [Procs -> Job]
    BY <2>1, <2>4 DEF TypeOK
  <2>6. pc' \in [Procs -> Steps]
    BY <2>1, GotoTyped DEF Steps, PaySteps
  <2>7. QED BY <1>5, <2>3, <2>5, <2>6 DEF PayPut, TypeOK, licenseVars
<1>6. CASE PayCommit(p)
  <2>1. license' \in [expiry : Nat, status : LicenseStatuses]
    BY <1>6 DEF PayCommit
  <2>2. /\ renewal' \in [Renewals -> {"none", "pending", "paid"}]
        /\ invoices' \in [Renewals -> Nat]
    <3>1. PICK r \in Renewals \cup {NoRenewal} :
            /\ renewal' = [renewal EXCEPT ![r] = "paid"]
            /\ invoices' = [invoices EXCEPT ![r] = @ + 1]
      BY <1>6 DEF PayCommit
    <3>2. renewal' \in [Renewals -> {"none", "pending", "paid"}]
      BY <3>1 DEF TypeOK
    <3>3. \A n \in Nat : n + 1 \in Nat
      OBVIOUS
    <3>4. invoices' = [q \in Renewals |-> IF q = r THEN invoices[r] + 1 ELSE invoices[q]]
      BY <3>1 DEF TypeOK
    <3>5. \A q \in Renewals : invoices[q] \in Nat
      BY DEF TypeOK
    <3>6. QED BY <3>2, <3>3, <3>4, <3>5
  <2>3. mirror' \in [Sites -> SiteState]
    BY <1>6, StatesTyped DEF PayCommit, TypeOK
  <2>4. QED BY <1>6, <2>1, <2>2, <2>3, RespondTyped DEF PayCommit, TypeOK
<1>7. CASE StaffRead(p)
  <2>1. [job[p] EXCEPT !.expiry = NewExpiry(license.expiry)] \in Job
    BY NewEndTyped DEF Job
  <2>2. job' \in [Procs -> Job]
    BY <1>7, <2>1 DEF StaffRead, TypeOK
  <2>3. QED BY <1>7, <2>2, GotoTyped DEF StaffRead, TypeOK, licenseVars, siteVars, Steps
<1>8. CASE StaffWrite(p)
  BY <1>8, RespondTyped DEF StaffWrite, TypeOK, siteVars, LicenseStatuses
<1>9. QED BY <1>1, <1>2, <1>3, <1>4, <1>5, <1>6, <1>7, <1>8 DEF Renewing

LEMMA SettingTyped ==
  ASSUME TypeOK, NEW p \in Procs, SettingSites(p)
  PROVE  TypeOK'
<1> USE JobColumns
<1>1. ASSUME NEW s \in Sites, NEW target \in Targets, SetLoad(p, s, target)
      PROVE  TypeOK'
  <2>1. [job[p] EXCEPT !.copy = mirror, !.todo = {s}, !.target = target] \in Job
    BY JobUpdates, StatesTyped DEF TypeOK
  <2>2. job' \in [Procs -> Job]
    BY <1>1, <2>1 DEF SetLoad, TypeOK
  <2>3. QED BY <1>1, <2>2, GotoTyped DEF SetLoad, TypeOK, licenseVars, siteVars, Steps
<1>2. ASSUME NEW s \in Sites, RefreshLoad(p, s) PROVE TypeOK'
  <2>1. [job[p] EXCEPT !.copy = mirror, !.todo = {s}] \in Job
    BY JobUpdates, StatesTyped DEF TypeOK
  <2>2. job' \in [Procs -> Job]
    BY <1>2, <2>1 DEF RefreshLoad, TypeOK
  <2>3. QED BY <1>2, <2>2, GotoTyped DEF RefreshLoad, TypeOK, licenseVars, siteVars, Steps
<1>3. CASE RefreshGet(p)
  <2>1. ASSUME NEW s \in job[p].todo, Goto(p, "a_write"),
               job' = [job EXCEPT ![p].target = remote[s], ![p].done = {s}]
        PROVE  pc' \in [Procs -> Steps] /\ job' \in [Procs -> Job]
    <3>1. s \in Sites /\ remote[s] \in SiteState
      BY DEF TypeOK
    <3>2. [job[p] EXCEPT !.target = remote[s], !.done = {s}] \in Job
      BY <3>1, JobUpdates
    <3>3. job' \in [Procs -> Job]
      BY <2>1, <3>2 DEF TypeOK
    <3>4. QED BY <2>1, <3>3, GotoTyped DEF Steps
  <2>2. pc' \in [Procs -> Steps] /\ job' \in [Procs -> Job]
    BY <1>3, <2>1, RespondTyped DEF RefreshGet
  <2>3. QED BY <1>3, <2>2 DEF RefreshGet, TypeOK, licenseVars, siteVars
<1>4. CASE CommandLoad(p)
  <2> DEFINE sites == {s \in Sites : NeedsChange(mirror[s], Expired)}
             target == IF Expired THEN Suspended("license_expired") ELSE Site("active")
  <2>1. sites \in SUBSET Sites /\ target \in SiteState
    BY StatesTyped
  <2>2. [job[p] EXCEPT !.copy = mirror, !.todo = sites, !.target = target] \in Job
    BY <2>1, JobUpdates DEF TypeOK
  <2>3. job' = [job EXCEPT ![p] = [job[p] EXCEPT !.copy = mirror, !.todo = sites,
                                                 !.target = target]]
    BY <1>4 DEF CommandLoad
  <2>4. job' \in [Procs -> Job]
    BY <2>2, <2>3 DEF TypeOK
  <2>5. QED BY <1>4, <2>4, GotoTyped DEF CommandLoad, TypeOK, licenseVars, siteVars, Steps
<1>5. ASSUME NEW put \in Steps, NEW write \in Steps, Put(p, put, write) PROVE TypeOK'
  <2>1. PICK s \in job[p].todo : \E o \in PutOutcomes(remote[s], job[p].target) :
          /\ remote' = [remote EXCEPT ![s] = o.site]
          /\ IF o.ok
             THEN Goto(p, write) /\ job' = [job EXCEPT ![p].done = {s}]
             ELSE NextSite(p, s, put)
    BY <1>5 DEF Put
  <2>2. PICK o \in PutOutcomes(remote[s], job[p].target) :
          /\ remote' = [remote EXCEPT ![s] = o.site]
          /\ IF o.ok
             THEN Goto(p, write) /\ job' = [job EXCEPT ![p].done = {s}]
             ELSE NextSite(p, s, put)
    BY <2>1
  <2>3. s \in Sites
    OBVIOUS
  <2>4. remote' \in [Sites -> SiteState]
    BY <2>2, <2>3, PutTyped DEF TypeOK
  <2>5. pc' \in [Procs -> Steps] /\ job' \in [Procs -> Job]
    <3>1. CASE o.ok
      <4>1. [job[p] EXCEPT !.done = {s}] \in Job
        BY <2>3 DEF Job
      <4>2. job' \in [Procs -> Job]
        BY <2>2, <3>1, <4>1 DEF TypeOK
      <4>3. QED BY <2>2, <3>1, <4>2, GotoTyped
    <3>2. CASE ~o.ok
      BY <2>2, <2>3, <3>2, NextSiteTyped
    <3>3. QED BY <3>1, <3>2
  <2>6. QED BY <1>5, <2>4, <2>5 DEF Put, TypeOK, licenseVars
<1>6. ASSUME NEW put \in Steps, NEW write \in Steps, WriteMirror(p, put, write)
      PROVE  TypeOK'
  <2>1. PICK s \in job[p].done :
          /\ mirror' = [mirror EXCEPT ![s] =
                          MirrorWritten(mirror[s], job[p].copy[s], job[p].target)]
          /\ NextSite(p, s, put)
    BY <1>6 DEF WriteMirror
  <2>2. s \in Sites
    OBVIOUS
  <2>3. MirrorWritten(mirror[s], job[p].copy[s], job[p].target) \in SiteState
    BY <2>2 DEF MirrorWritten, SiteState, TypeOK
  <2>4. mirror' \in [Sites -> SiteState]
    BY <2>1, <2>3 DEF TypeOK
  <2>5. QED BY <1>6, <2>1, <2>2, <2>4, NextSiteTyped DEF WriteMirror, TypeOK, licenseVars
<1>7. {"a_put", "a_write", "c_put", "c_write"} \subseteq Steps
  BY DEF Steps
<1>8. QED
  BY <1>1, <1>2, <1>3, <1>4, <1>5, <1>6, <1>7
  DEF SettingSites, SetPut, SetWrite, CommandPut, CommandWrite

LEMMA EnvironmentTyped ==
  ASSUME TypeOK, Environment
  PROVE  TypeOK'
<1>1. CASE MonthPasses
  BY <1>1, BoundsAssumption DEF MonthPasses, TypeOK, licenseVars, siteVars
<1>2. ASSUME NEW p \in Procs, Abort(p) PROVE TypeOK'
  BY <1>2, RespondTyped DEF Abort, TypeOK, licenseVars, siteVars
<1>3. ASSUME NEW status \in {"inactive", "cancelled"}, StaffSetStatus(status)
      PROVE  TypeOK'
  BY <1>3 DEF StaffSetStatus, TypeOK, siteVars, LicenseStatuses
<1>4. ASSUME NEW s \in Sites, NEW status \in OpenStates, OwnerToggles(s, status)
      PROVE  TypeOK'
  <2>1. Site(status) \in SiteState
    BY OpenStatesAssumption, StatesTyped
  <2>2. QED BY <1>4, <2>1 DEF OwnerToggles, TypeOK, licenseVars
<1>5. CASE StaffRenewFromToday
  BY <1>5 DEF StaffRenewFromToday, TypeOK, siteVars, LicenseStatuses
<1>6. QED BY <1>1, <1>2, <1>3, <1>4, <1>5 DEF Environment

LEMMA TypeStep == TypeOK /\ [Next]_vars => TypeOK'
<1>1. ASSUME TypeOK, Next PROVE TypeOK'
  BY <1>1, RenewingTyped, SettingTyped, EnvironmentTyped DEF Next
<1>2. ASSUME TypeOK, UNCHANGED vars PROVE TypeOK'
  BY <1>2 DEF TypeOK, vars, licenseVars, siteVars
<1>3. QED BY <1>1, <1>2

(* The license, its renewals, the sites and the requests keep their types  *)
(* in every step of every request.                                         *)
THEOREM TypeCorrect == Spec => []TypeOK
BY TypeInit, TypeStep, PTL DEF Spec

-----------------------------------------------------------------------------
(* The inductive invariant *)

LEMMA IInvInit == Init => IInv
<1>1. ASSUME Init PROVE PaymentOwnsLicense
  BY <1>1 DEF Init, PaymentOwnsLicense, PaySteps
<1>2. ASSUME Init PROVE RenewedOnce
  BY <1>2 DEF Init, RenewedOnce
<1>3. QED BY <1>1, <1>2, TypeInit DEF IInv

(* Renewals that are pending stay so, and none is paid or invoiced.        *)
RenewalsKept ==
  /\ \A r \in Renewals : renewal[r] = "pending" => renewal'[r] = "pending"
  /\ \A r \in Renewals : renewal'[r] = "paid" <=> renewal[r] = "paid"
  /\ invoices' = invoices

LEMMA SameRenewals == UNCHANGED licenseVars => RenewalsKept /\ license' = license
BY DEF licenseVars, RenewalsKept

(* A process that is not in a payment after its step disturbs no payment   *)
(* if it leaves the license alone or writes it while nobody holds it.      *)
LEMMA OutsidePayment ==
  ASSUME IInv, TypeOK', NEW p \in Procs, RenewalsKept,
         \A q \in Procs \ {p} : pc'[q] = pc[q] /\ job'[q] = job[q],
         pc'[p] \notin PaySteps,
         license' = license \/ ~LicenseLocked
  PROVE  IInv'
<1>1. \A q \in Procs : pc'[q] \in PaySteps =>
        /\ pc[q] \in PaySteps /\ job'[q] = job[q]
        /\ license' = license
  BY DEF LicenseLocked
<1>2. PaymentOwnsLicense'
  BY <1>1 DEF IInv, PaymentOwnsLicense, RenewalsKept
<1>3. RenewedOnce'
  BY DEF IInv, RenewedOnce, RenewalsKept
<1>4. QED BY <1>2, <1>3 DEF IInv

LEMMA GotoElsewhere ==
  ASSUME TypeOK, NEW p \in Procs, NEW step, Goto(p, step)
  PROVE  pc'[p] = step /\ \A q \in Procs \ {p} : pc'[q] = pc[q]
BY DEF TypeOK, Goto

LEMMA RespondElsewhere ==
  ASSUME TypeOK, NEW p \in Procs, Respond(p)
  PROVE  /\ pc'[p] \notin PaySteps
         /\ \A q \in Procs \ {p} : pc'[q] = pc[q] /\ job'[q] = job[q]
BY DEF TypeOK, Respond, PaySteps

LEMMA NextSiteElsewhere ==
  ASSUME TypeOK, NEW p \in Procs, NEW s, NEW step, step \notin PaySteps,
         NextSite(p, s, step)
  PROVE  /\ pc'[p] \notin PaySteps
         /\ \A q \in Procs \ {p} : pc'[q] = pc[q] /\ job'[q] = job[q]
<1>1. CASE job[p].todo = {s}
  BY <1>1, RespondElsewhere DEF NextSite
<1>2. CASE job[p].todo # {s}
  BY <1>2, GotoElsewhere DEF NextSite, TypeOK
<1>3. QED BY <1>1, <1>2

LEMMA RenewingIInv ==
  ASSUME IInv, NEW p \in Procs, Renewing(p)
  PROVE  IInv'
<1>0. TypeOK /\ TypeOK'
  BY RenewingTyped DEF IInv
<1>1. CASE OrderFind(p)
  BY <1>0, <1>1, OutsidePayment, SameRenewals, GotoElsewhere DEF OrderFind, PaySteps
<1>2. CASE OrderCreate(p)
  <2>1. RenewalsKept /\ license' = license
    BY <1>0, <1>2 DEF OrderCreate, RenewalsKept, TypeOK
  <2>2. QED BY <1>0, <1>2, <2>1, OutsidePayment, RespondElsewhere DEF OrderCreate
<1>3. ASSUME NEW r \in Renewals, PayLock(p, r) PROVE IInv'
  <2>1. /\ \A q \in Procs : pc'[q] \in PaySteps => q = p
        /\ renewal' = renewal /\ license' = license /\ invoices' = invoices
    BY <1>0, <1>3, GotoElsewhere DEF PayLock, LicenseLocked, licenseVars
  <2>2. /\ job'[p].renewal = r
        /\ job'[p].expiry = NewExpiry(license.expiry)
        /\ job'[p].status = Reactivated(license.status)
    <3>1. job'[p] = [NoJob EXCEPT !.renewal = r, !.expiry = NewExpiry(license.expiry),
                       !.status = Reactivated(license.status)]
      BY <1>0, <1>3 DEF PayLock, TypeOK
    <3>2. QED BY <3>1 DEF NoJob
  <2>3. /\ renewal[r] = "pending"
        /\ license.status = "cancelled" => Reactivated(license.status) = "cancelled"
    BY <1>3 DEF PayLock, Reactivated
  <2>4. PaymentOwnsLicense'
    BY <1>0, <2>1, <2>2, <2>3, NewEndTyped DEF PaymentOwnsLicense
  <2>5. RenewedOnce'
    BY <2>1 DEF IInv, RenewedOnce
  <2>6. QED BY <1>0, <2>4, <2>5 DEF IInv
<1>4. ASSUME PaySites(p) \/ PayPut(p) PROVE IInv'
  <2>1. UNCHANGED licenseVars /\ pc[p] \in PaySteps
    BY <1>4 DEF PaySites, PayPut, PaySteps
  <2>2. \A q \in Procs \ {p} : pc'[q] = pc[q] /\ job'[q] = job[q]
    BY <1>0, <1>4, GotoElsewhere DEF PaySites, PayPut, TypeOK
  <2>3. /\ job'[p].renewal = job[p].renewal
        /\ job'[p].expiry = job[p].expiry
        /\ job'[p].status = job[p].status
    <3> USE <1>0, JobColumns DEF Job
    <3>1. CASE PaySites(p)
      <4>1. PICK sites : job' = [job EXCEPT ![p].todo = sites]
        BY <3>1 DEF PaySites
      <4>2. job'[p] = [job[p] EXCEPT !.todo = sites]
        BY <4>1 DEF TypeOK
      <4>3. QED BY <4>2
    <3>2. CASE PayPut(p)
      <4>1. PICK s \in job[p].todo : \E o \in PutOutcomes(remote[s], Site("active")) :
              job' = [job EXCEPT ![p].todo = @ \ {s},
                                 ![p].done = IF o.ok THEN @ \cup {s} ELSE @]
        BY <3>2 DEF PayPut
      <4>2. PICK o \in PutOutcomes(remote[s], Site("active")) :
              job' = [job EXCEPT ![p].todo = @ \ {s},
                                 ![p].done = IF o.ok THEN @ \cup {s} ELSE @]
        BY <4>1
      <4>3. job'[p] = [job[p] EXCEPT !.todo = @ \ {s},
                                     !.done = IF o.ok THEN @ \cup {s} ELSE @]
        BY <4>2 DEF TypeOK
      <4>4. QED BY <4>3
    <3>3. QED BY <1>4, <3>1, <3>2
  <2>4. PaymentOwnsLicense'
    BY <2>1, <2>2, <2>3 DEF IInv, PaymentOwnsLicense, licenseVars
  <2>5. RenewedOnce'
    BY <2>1 DEF IInv, RenewedOnce, licenseVars
  <2>6. QED BY <1>0, <2>4, <2>5 DEF IInv
<1>5. CASE PayCommit(p)
  <2>1. \A q \in Procs : pc'[q] \notin PaySteps
    BY <1>0, <1>5, RespondElsewhere DEF PayCommit, IInv, PaymentOwnsLicense, PaySteps
  <2>2. PaymentOwnsLicense'
    BY <2>1 DEF PaymentOwnsLicense
  <2>3. job[p].renewal \in Renewals /\ renewal[job[p].renewal] = "pending"
    BY <1>5 DEF PayCommit, IInv, PaymentOwnsLicense, PaySteps
  <2>4. /\ renewal' = [renewal EXCEPT ![job[p].renewal] = "paid"]
        /\ invoices' = [invoices EXCEPT ![job[p].renewal] = @ + 1]
    BY <1>5 DEF PayCommit
  <2>5. RenewedOnce'
    <3>1. invoices[job[p].renewal] = 0
      BY <2>3 DEF IInv, RenewedOnce
    <3>2. renewal'[job[p].renewal] = "paid" /\ invoices'[job[p].renewal] = 1
      BY <1>0, <2>3, <2>4, <3>1 DEF TypeOK
    <3>3. \A r \in Renewals \ {job[p].renewal} :
            renewal'[r] = renewal[r] /\ invoices'[r] = invoices[r]
      BY <1>0, <2>4 DEF TypeOK
    <3>4. QED BY <3>2, <3>3 DEF IInv, RenewedOnce
  <2>6. QED BY <1>0, <2>2, <2>5 DEF IInv
<1>6. CASE StaffRead(p)
  <2>1. \A q \in Procs \ {p} : job'[q] = job[q]
    BY <1>0, <1>6 DEF StaffRead, TypeOK
  <2>2. QED
    BY <1>0, <1>6, <2>1, OutsidePayment, SameRenewals, GotoElsewhere
    DEF StaffRead, PaySteps
<1>7. CASE StaffWrite(p)
  <2>1. RenewalsKept
    BY <1>7 DEF StaffWrite, RenewalsKept
  <2>2. QED BY <1>0, <1>7, <2>1, OutsidePayment, RespondElsewhere DEF StaffWrite
<1>8. QED BY <1>1, <1>2, <1>3, <1>4, <1>5, <1>6, <1>7 DEF Renewing

LEMMA SettingIInv ==
  ASSUME IInv, NEW p \in Procs, SettingSites(p)
  PROVE  IInv'
<1>0. TypeOK /\ TypeOK'
  BY SettingTyped DEF IInv
<1>1. UNCHANGED licenseVars
  BY DEF SettingSites, SetLoad, RefreshLoad, RefreshGet, SetPut, SetWrite,
         CommandLoad, CommandPut, CommandWrite, Put, WriteMirror
<1>2. ASSUME NEW s, NEW target, SetLoad(p, s, target) \/ RefreshLoad(p, s)
      PROVE  /\ pc'[p] \notin PaySteps
             /\ \A q \in Procs \ {p} : pc'[q] = pc[q] /\ job'[q] = job[q]
  BY <1>0, <1>2, GotoElsewhere DEF SetLoad, RefreshLoad, TypeOK, PaySteps
<1>3. ASSUME RefreshGet(p) \/ CommandLoad(p)
      PROVE  /\ pc'[p] \notin PaySteps
             /\ \A q \in Procs \ {p} : pc'[q] = pc[q] /\ job'[q] = job[q]
  <2>1. CASE Respond(p)
    BY <1>0, <2>1, RespondElsewhere
  <2>2. CASE ~Respond(p)
    <3>1. \E step \in {"a_write", "c_put"} : Goto(p, step)
      BY <1>3, <2>2 DEF RefreshGet, CommandLoad
    <3>2. \A q \in Procs \ {p} : job'[q] = job[q]
      BY <1>0, <1>3, <2>2 DEF RefreshGet, CommandLoad, TypeOK
    <3>3. QED BY <1>0, <3>1, <3>2, GotoElsewhere DEF PaySteps
  <2>3. QED BY <2>1, <2>2
<1>4. ASSUME NEW put, NEW write, put \notin PaySteps, write \notin PaySteps,
             Put(p, put, write) \/ WriteMirror(p, put, write)
      PROVE  /\ pc'[p] \notin PaySteps
             /\ \A q \in Procs \ {p} : pc'[q] = pc[q] /\ job'[q] = job[q]
  <2>1. CASE Put(p, put, write)
    <3>1. PICK s \in job[p].todo, ok \in BOOLEAN :
            IF ok THEN Goto(p, write) /\ job' = [job EXCEPT ![p].done = {s}]
            ELSE NextSite(p, s, put)
      BY <2>1 DEF Put
    <3>2. CASE ok
      BY <1>0, <1>4, <3>1, <3>2, GotoElsewhere DEF TypeOK
    <3>3. CASE ~ok
      BY <1>0, <1>4, <3>1, <3>3, NextSiteElsewhere
    <3>4. QED BY <3>2, <3>3
  <2>2. CASE WriteMirror(p, put, write)
    <3>1. PICK s : NextSite(p, s, put)
      BY <2>2 DEF WriteMirror
    <3>2. QED BY <1>0, <1>4, <3>1, NextSiteElsewhere
  <2>3. QED BY <1>4, <2>1, <2>2
<1>5. \A step \in {"a_put", "a_write", "c_put", "c_write"} : step \notin PaySteps
  BY DEF PaySteps
<1>6. /\ pc'[p] \notin PaySteps
      /\ \A q \in Procs \ {p} : pc'[q] = pc[q] /\ job'[q] = job[q]
  BY <1>2, <1>3, <1>4, <1>5 DEF SettingSites, SetPut, SetWrite, CommandPut, CommandWrite
<1>7. QED BY <1>0, <1>1, <1>6, OutsidePayment, SameRenewals

LEMMA EnvironmentIInv ==
  ASSUME IInv, Environment
  PROVE  IInv'
<1>0. TypeOK /\ TypeOK'
  BY EnvironmentTyped DEF IInv
<1>1. ASSUME MonthPasses \/ (\E s \in Sites, status \in OpenStates : OwnerToggles(s, status))
      PROVE  IInv'
  <2>1. UNCHANGED <<licenseVars, pc, job>>
    BY <1>1 DEF MonthPasses, OwnerToggles
  <2>2. QED BY <1>0, <2>1 DEF IInv, PaymentOwnsLicense, RenewedOnce, licenseVars
<1>2. ASSUME NEW p \in Procs, Abort(p) PROVE IInv'
  BY <1>0, <1>2, OutsidePayment, SameRenewals, RespondElsewhere DEF Abort
<1>3. ASSUME StaffRenewFromToday \/ (\E status \in {"inactive", "cancelled"} :
                                       StaffSetStatus(status))
      PROVE  IInv'
  <2>1. UNCHANGED <<renewal, invoices, pc, job>>
        /\ \A p \in Procs : pc[p] \notin PaySteps
    BY <1>3 DEF StaffSetStatus, StaffRenewFromToday, LicenseLocked
  <2>2. QED BY <1>0, <2>1 DEF IInv, PaymentOwnsLicense, RenewedOnce
<1>4. QED BY <1>1, <1>2, <1>3 DEF Environment

LEMMA IInvStep == IInv /\ [Next]_vars => IInv'
<1>1. ASSUME IInv, Next PROVE IInv'
  BY <1>1, RenewingIInv, SettingIInv, EnvironmentIInv DEF Next
<1>2. ASSUME IInv, UNCHANGED vars PROVE IInv'
  <2>1. TypeOK'
    BY <1>2, TypeStep DEF IInv
  <2>2. QED BY <1>2, <2>1 DEF IInv, PaymentOwnsLicense, RenewedOnce, vars, licenseVars
<1>3. QED BY <1>1, <1>2

(* The invariant holds in every state, whatever calls of markPaid, staff,  *)
(* the command and administrators are interleaved or die.                  *)
THEOREM IInvCorrect == Spec => []IInv
BY IInvInit, IInvStep, PTL DEF Spec

(* markPaid extends and invoices a renewal at most once, whatever calls of *)
(* it are repeated, run together or roll back.                             *)
THEOREM RenewalsOnce == Spec => []RenewedOnce
<1>1. IInv => RenewedOnce
  BY DEF IInv
<1>2. QED BY <1>1, IInvCorrect, PTL

-----------------------------------------------------------------------------
(* What a commit of a payment may do.  Only PayCommit pays a renewal.      *)

LEMMA OnlyCommitPays ==
  ASSUME IInv, [Next]_vars, NEW r \in Renewals,
         renewal[r] # "paid", renewal'[r] = "paid"
  PROVE  \E p \in Procs : PayCommit(p) /\ pc[p] \in PaySteps
<1>1. ASSUME NEW p \in Procs, Renewing(p), ~PayCommit(p) PROVE FALSE
  <2>1. UNCHANGED renewal \/ \E s \in Renewals : renewal' = [renewal EXCEPT ![s] = "pending"]
    BY <1>1
    DEF Renewing, OrderFind, OrderCreate, PayLock, PaySites, PayPut, StaffRead,
        StaffWrite, licenseVars
  <2>2. QED BY <2>1 DEF IInv, TypeOK
<1>2. ASSUME NEW p \in Procs, SettingSites(p) PROVE FALSE
  <2>1. UNCHANGED licenseVars
    BY <1>2
    DEF SettingSites, SetLoad, RefreshLoad, RefreshGet, SetPut, SetWrite,
        CommandLoad, CommandPut, CommandWrite, Put, WriteMirror
  <2>2. QED BY <2>1 DEF licenseVars
<1>3. ASSUME Environment PROVE FALSE
  <2>1. UNCHANGED renewal
    BY <1>3
    DEF Environment, MonthPasses, Abort, StaffSetStatus, StaffRenewFromToday,
        OwnerToggles, licenseVars
  <2>2. QED BY <2>1
<1>4. PICK p \in Procs : PayCommit(p)
  BY <1>1, <1>2, <1>3 DEF Next, vars, licenseVars
<1>5. QED BY <1>4 DEF PayCommit, PaySteps

(* A paid renewal moves the end of the license forward.                    *)
THEOREM RenewalsExtend == Spec => RenewalExtends
<1>1. IInv /\ [Next]_vars =>
        [\A r \in Renewals : renewal[r] # "paid" /\ renewal'[r] = "paid" =>
           license'.expiry > license.expiry]_vars
  <2>1. ASSUME IInv, [Next]_vars, NEW r \in Renewals,
               renewal[r] # "paid", renewal'[r] = "paid"
        PROVE  license'.expiry > license.expiry
    <3>1. PICK p \in Procs : PayCommit(p) /\ pc[p] \in PaySteps
      BY <2>1, OnlyCommitPays
    <3>2. job[p].expiry > license.expiry
      BY <2>1, <3>1 DEF IInv, PaymentOwnsLicense
    <3>3. license'.expiry = job[p].expiry
      BY <3>1 DEF PayCommit
    <3>4. QED BY <3>2, <3>3
  <2>2. QED BY <2>1
<1>2. QED BY <1>1, IInvCorrect, PTL DEF Spec, RenewalExtends

(* A payment does not bring a cancelled license back, and neither does a   *)
(* new renewal order.                                                      *)
THEOREM CancelledLicensesStay == Spec => CancelledStays
<1>1. IInv /\ [Next]_vars =>
        [renewal' # renewal /\ license.status = "cancelled" =>
           license'.status = "cancelled"]_vars
  <2>1. ASSUME IInv, NEW p \in Procs, PayCommit(p), license.status = "cancelled"
        PROVE  license'.status = "cancelled"
    <3>1. job[p].status = "cancelled"
      BY <2>1 DEF IInv, PaymentOwnsLicense, PayCommit, PaySteps
    <3>2. QED BY <2>1, <3>1 DEF PayCommit
  <2>2. ASSUME NEW p \in Procs, Renewing(p), ~PayCommit(p), renewal' # renewal
        PROVE  license' = license
    BY <2>2
    DEF Renewing, OrderFind, OrderCreate, PayLock, PaySites, PayPut, StaffRead,
        StaffWrite, licenseVars
  <2>3. ASSUME (\E p \in Procs : SettingSites(p)) \/ Environment
        PROVE  UNCHANGED renewal
    BY <2>3
    DEF SettingSites, SetLoad, RefreshLoad, RefreshGet, SetPut, SetWrite,
        CommandLoad, CommandPut, CommandWrite, Put, WriteMirror, Environment,
        MonthPasses, Abort, StaffSetStatus, StaffRenewFromToday, OwnerToggles, licenseVars
  <2>4. QED BY <2>1, <2>2, <2>3 DEF Next, vars, licenseVars
<1>2. QED BY <1>1, IInvCorrect, PTL DEF Spec, CancelledStays
=============================================================================
