--------------------------- MODULE LicenseRenewal ---------------------------
(***************************************************************************)
(* LicenseRenewalService, SiteStatusService and the scheduled command      *)
(* site-builder:enforce-license-status, for one license and the sites that *)
(* run under it.  A site keeps its public state itself; the platform sets  *)
(* it over HTTP and mirrors the answer in webino_site_provisions.          *)
(*                                                                         *)
(* A process is a PHP worker or a run of the command.  markPaid is called  *)
(* inside the transaction of PaymentOrchestrator::finish, so what it       *)
(* writes and locks belongs to that transaction; all other statements      *)
(* commit at once.  Perpetual licenses are left out.                       *)
(***************************************************************************)
EXTENDS Naturals, FiniteSets

CONSTANTS
  Procs,      \* PHP workers and command runs
  Sites,      \* ready sites of the license
  Renewals,   \* bound: rows of core_license_renewals
  MaxNow,     \* bound: months that pass
  MaxExpiry,  \* bound: staff renews no further than this month
  OpenStates, \* how a site that is not suspended can be opened
  NoRenewal   \* no renewal

ASSUME NoRenewalAssumption == NoRenewal \notin Renewals
ASSUME OpenStatesAssumption == OpenStates \subseteq {"active", "coming_soon"}
ASSUME BoundsAssumption == MaxNow \in Nat /\ MaxExpiry \in Nat

VARIABLES
  now,       \* the month it is
  license,   \* expires_at and status of the license, as committed
  renewal,   \* status of each renewal order
  invoices,  \* sales invoices written for each renewal
  mirror,    \* site_status and site_status_reason, as committed
  remote,    \* the public state that each site has in fact
  pc,        \* where each process is
  job        \* what each process remembers

licenseVars == <<license, renewal, invoices>>
siteVars == <<mirror, remote>>
vars == <<now, licenseVars, siteVars, pc, job>>

LicenseStatuses == {"active", "inactive", "cancelled"}

SiteState == [status : {"unset", "active", "coming_soon", "suspended"},
              reason : {"none", "license_expired", "manual"}]

Site(status) == [status |-> status, reason |-> "none"]
Suspended(reason) == [status |-> "suspended", reason |-> reason]

(* expiry and status are what the request is going to write to the         *)
(* license; copy holds the rows of the sites as it loaded them, todo the   *)
(* sites it still has to call, done those that answered and whose new      *)
(* state is not committed yet.                                             *)
Job == [renewal : Renewals \cup {NoRenewal}, expiry : Nat, status : LicenseStatuses,
        copy : [Sites -> SiteState], todo : SUBSET Sites, done : SUBSET Sites,
        target : SiteState]

NoJob == [renewal |-> NoRenewal, expiry |-> 0, status |-> "active",
          copy |-> [s \in Sites |-> Site("unset")], todo |-> {}, done |-> {},
          target |-> Site("active")]

PaySteps == {"p_sites", "p_put", "p_commit"}
Steps == {"idle", "o_create", "s_write", "a_put", "a_get", "a_write", "c_put",
          "c_write"} \cup PaySteps

TypeOK ==
  /\ now \in 0..MaxNow
  /\ license \in [expiry : Nat, status : LicenseStatuses]
  /\ renewal \in [Renewals -> {"none", "pending", "paid"}]
  /\ invoices \in [Renewals -> Nat]
  /\ mirror \in [Sites -> SiteState]
  /\ remote \in [Sites -> SiteState]
  /\ pc \in [Procs -> Steps]
  /\ job \in [Procs -> Job]

(* A new license; its sites are up and their state was never set.          *)
Init ==
  /\ now = 0
  /\ license = [expiry |-> 1, status |-> "active"]
  /\ renewal = [r \in Renewals |-> "none"]
  /\ invoices = [r \in Renewals |-> 0]
  /\ mirror = [s \in Sites |-> Site("unset")]
  /\ remote = [s \in Sites |-> Site("active")]
  /\ pc = [p \in Procs |-> "idle"]
  /\ job = [p \in Procs |-> NoJob]

Expired == license.expiry <= now

(* The month after the current end or, if that has passed, after today.    *)
NewExpiry(expiry) == IF expiry > now THEN expiry + 1 ELSE now + 1

-----------------------------------------------------------------------------
Goto(p, step) == pc' = [pc EXCEPT ![p] = step]

Respond(p) ==
  /\ pc' = [pc EXCEPT ![p] = "idle"]
  /\ job' = [job EXCEPT ![p] = NoJob]

(* Mutant: markPaid locks neither the renewal nor the license.             *)
NoLock == FALSE

(* The renewal and the license row are locked by the payment that extends  *)
(* the license; a second payment and every other write wait.               *)
LicenseLocked == \E p \in Procs : pc[p] \in PaySteps

(* A site row that a payment has updated and not committed yet; for a site *)
(* that did not answer only the text of the error is written.              *)
SiteLocked(s) == \E p \in Procs : pc[p] \in PaySteps /\ s \in job[p].done

-----------------------------------------------------------------------------
(* Renewal orders *)

(* order: a pending renewal younger than two hours is reused and nothing   *)
(* changes; without one, or with an older one, a row will be created.      *)
OrderFind(p) ==
  /\ pc[p] = "idle"
  /\ license.status # "cancelled"
  /\ Goto(p, "o_create")
  /\ UNCHANGED <<now, licenseVars, siteVars, job>>

(* The row is created, unless the bound Renewals is reached.               *)
OrderCreate(p) ==
  /\ pc[p] = "o_create"
  /\ \/ \E r \in Renewals : /\ renewal[r] = "none"
                            /\ renewal' = [renewal EXCEPT ![r] = "pending"]
     \/ (\A r \in Renewals : renewal[r] # "none") /\ UNCHANGED renewal
  /\ Respond(p)
  /\ UNCHANGED <<now, license, invoices, siteVars>>

-----------------------------------------------------------------------------
(* markPaid, called when a captured payment of the renewal is finished; it *)
(* is called again after a rollback or for a second payment.               *)

(* Mutant: every license that is paid for becomes active.                  *)
ReactivatedAlways(status) == "active"

Reactivated(status) == IF status = "inactive" THEN "active" ELSE status

PayLock(p, r) ==
  /\ pc[p] = "idle"
  /\ ~LicenseLocked
  /\ renewal[r] = "pending"
  /\ Goto(p, "p_sites")
  /\ job' = [job EXCEPT ![p] = [NoJob EXCEPT !.renewal = r,
               !.expiry = NewExpiry(license.expiry),
               !.status = Reactivated(license.status)]]
  /\ UNCHANGED <<now, licenseVars, siteVars>>

(* reactivate: the sites suspended for this license, if it is valid now.   *)
PaySites(p) ==
  LET sites == IF job[p].expiry <= now THEN {}
               ELSE {s \in Sites : mirror[s] = Suspended("license_expired")}
  IN  /\ pc[p] = "p_sites"
      /\ Goto(p, IF sites = {} THEN "p_commit" ELSE "p_put")
      /\ job' = [job EXCEPT ![p].todo = sites]
      /\ UNCHANGED <<now, licenseVars, siteVars>>

(* What a PUT of the target state can come to: the site has it and says    *)
(* so, has it and the answer is lost, or never got it.  The repetitions of *)
(* SiteStatusClient are one call here, its last one.                       *)
PutOutcomes(current, target) ==
  {[ok |-> TRUE, site |-> target], [ok |-> FALSE, site |-> target],
   [ok |-> FALSE, site |-> current]}

(* A failed call is logged and skipped.                                    *)
PayPut(p) ==
  /\ pc[p] = "p_put"
  /\ \E s \in job[p].todo : \E o \in PutOutcomes(remote[s], Site("active")) :
       /\ remote' = [remote EXCEPT ![s] = o.site]
       /\ job' = [job EXCEPT ![p].todo = @ \ {s},
                             ![p].done = IF o.ok THEN @ \cup {s} ELSE @]
       /\ Goto(p, IF job[p].todo = {s} THEN "p_commit" ELSE "p_put")
  /\ UNCHANGED <<now, licenseVars, mirror>>

(* Mutant: the renewal gets the status of the payment.                     *)
PayCommitSettled(p) ==
  LET r == job[p].renewal
  IN  /\ pc[p] = "p_commit"
      /\ license' = [expiry |-> job[p].expiry, status |-> job[p].status]
      /\ renewal' = [renewal EXCEPT ![r] = "settled"]
      /\ invoices' = [invoices EXCEPT ![r] = @ + 1]
      /\ mirror' = [s \in Sites |-> IF s \in job[p].done THEN Site("active")
                                    ELSE mirror[s]]
      /\ Respond(p)
      /\ UNCHANGED <<now, remote>>

PayCommit(p) ==
  LET r == job[p].renewal
  IN  /\ pc[p] = "p_commit"
      /\ license' = [expiry |-> job[p].expiry, status |-> job[p].status]
      /\ renewal' = [renewal EXCEPT ![r] = "paid"]
      /\ invoices' = [invoices EXCEPT ![r] = @ + 1]
      /\ mirror' = [s \in Sites |-> IF s \in job[p].done THEN Site("active")
                                    ELSE mirror[s]]
      /\ Respond(p)
      /\ UNCHANGED <<now, remote>>

-----------------------------------------------------------------------------
(* Staff *)

(* CustomerHubController::renewLicense reads the license and writes the    *)
(* new end without a lock of its own.                                      *)
StaffRead(p) ==
  /\ pc[p] = "idle"
  /\ license.expiry < MaxExpiry
  /\ Goto(p, "s_write")
  /\ job' = [job EXCEPT ![p].expiry = NewExpiry(license.expiry)]
  /\ UNCHANGED <<now, licenseVars, siteVars>>

StaffWrite(p) ==
  /\ pc[p] = "s_write"
  /\ ~LicenseLocked
  /\ license' = [expiry |-> job[p].expiry, status |-> "active"]
  /\ Respond(p)
  /\ UNCHANGED <<now, renewal, invoices, siteVars>>

(* LicenseParityController::update and cancel.                             *)
StaffSetStatus(status) ==
  /\ ~LicenseLocked
  /\ license' = [license EXCEPT !.status = status]
  /\ UNCHANGED <<now, renewal, invoices, siteVars, pc, job>>

(* LicenseParityController::renew counts from today, also when the license *)
(* would have run longer.                                                  *)
StaffRenewFromToday ==
  /\ ~LicenseLocked
  /\ license' = [expiry |-> now + 1, status |-> "active"]
  /\ UNCHANGED <<now, renewal, invoices, siteVars, pc, job>>

-----------------------------------------------------------------------------
(* Site status *)

(* The columns that differ from the loaded row are written.                *)
MirrorWritten(current, copy, target) ==
  [status |-> IF target.status = copy.status THEN current.status ELSE target.status,
   reason |-> IF target.reason = copy.reason THEN current.reason ELSE target.reason]

Targets == {Site(status) : status \in OpenStates} \cup {Suspended("manual")}

(* updateSiteStatus, and markNewSiteComingSoon after the bootstrap of a    *)
(* site whose state was never set.                                         *)
SetLoad(p, s, target) ==
  /\ pc[p] = "idle"
  /\ Goto(p, "a_put")
  /\ job' = [job EXCEPT ![p].copy = mirror, ![p].todo = {s}, ![p].target = target]
  /\ UNCHANGED <<now, licenseVars, siteVars>>

(* siteStatus: the page that shows the state asks the site for it.         *)
RefreshLoad(p, s) ==
  /\ pc[p] = "idle"
  /\ Goto(p, "a_get")
  /\ job' = [job EXCEPT ![p].copy = mirror, ![p].todo = {s}]
  /\ UNCHANGED <<now, licenseVars, siteVars>>

RefreshGet(p) ==
  /\ pc[p] = "a_get"
  /\ \/ \E s \in job[p].todo :
          /\ Goto(p, "a_write")
          /\ job' = [job EXCEPT ![p].target = remote[s], ![p].done = {s}]
     \/ Respond(p)
  /\ UNCHANGED <<now, licenseVars, siteVars>>

(* Mutant: only open sites are suspended.                                  *)
NeedsChangeIfOpen(site, expired) ==
  IF expired THEN site.status = "active" ELSE site = Suspended("license_expired")

(* Mutant: a reactivation that failed after the payment is not repeated.   *)
NeedsChangeUnrepeated(site, expired) == expired /\ site.status # "suspended"

(* Expired licenses suspend, valid ones lift what was suspended for them.  *)
NeedsChange(site, expired) ==
  IF expired THEN site.status # "suspended" ELSE site = Suspended("license_expired")

(* A batch of sites is loaded with its license, then the sites are called  *)
(* one by one.                                                             *)
CommandLoad(p) ==
  LET sites == {s \in Sites : NeedsChange(mirror[s], Expired)}
  IN  /\ pc[p] = "idle"
      /\ sites # {}
      /\ Goto(p, "c_put")
      /\ job' = [job EXCEPT ![p].copy = mirror, ![p].todo = sites,
                   ![p].target = IF Expired THEN Suspended("license_expired")
                                 ELSE Site("active")]
      /\ UNCHANGED <<now, licenseVars, siteVars>>

(* The next site of the batch; a request for one site has none.            *)
NextSite(p, s, step) ==
  IF job[p].todo = {s} THEN Respond(p)
  ELSE /\ Goto(p, step)
       /\ job' = [job EXCEPT ![p].todo = @ \ {s}, ![p].done = {}]

Put(p, put, write) ==
  /\ pc[p] = put
  /\ \E s \in job[p].todo : \E o \in PutOutcomes(remote[s], job[p].target) :
       /\ remote' = [remote EXCEPT ![s] = o.site]
       /\ IF o.ok
          THEN Goto(p, write) /\ job' = [job EXCEPT ![p].done = {s}]
          ELSE NextSite(p, s, put)
  /\ UNCHANGED <<now, licenseVars, mirror>>

WriteMirror(p, put, write) ==
  /\ pc[p] = write
  /\ \E s \in job[p].done :
       /\ ~SiteLocked(s)
       /\ mirror' = [mirror EXCEPT ![s] =
                       MirrorWritten(mirror[s], job[p].copy[s], job[p].target)]
       /\ NextSite(p, s, put)
  /\ UNCHANGED <<now, licenseVars, remote>>

SetPut(p) == Put(p, "a_put", "a_write")
SetWrite(p) == WriteMirror(p, "a_put", "a_write")
CommandPut(p) == Put(p, "c_put", "c_write")
CommandWrite(p) == WriteMirror(p, "c_put", "c_write")

-----------------------------------------------------------------------------
(* A process dies or an exception ends it; the transaction of a payment    *)
(* rolls back, what a site was told remains.                               *)
Abort(p) ==
  /\ pc[p] # "idle"
  /\ Respond(p)
  /\ UNCHANGED <<now, licenseVars, siteVars>>

(* The owner opens or closes the shop on the site itself; a suspended site *)
(* stays suspended.                                                        *)
OwnerToggles(s, status) ==
  /\ remote[s].status # "suspended"
  /\ remote' = [remote EXCEPT ![s] = Site(status)]
  /\ UNCHANGED <<now, licenseVars, mirror, pc, job>>

MonthPasses ==
  /\ now < MaxNow
  /\ now' = now + 1
  /\ UNCHANGED <<licenseVars, siteVars, pc, job>>

Renewing(p) ==
  \/ OrderFind(p) \/ OrderCreate(p)
  \/ \E r \in Renewals : PayLock(p, r)
  \/ PaySites(p) \/ PayPut(p) \/ PayCommit(p)
  \/ StaffRead(p) \/ StaffWrite(p)

SettingSites(p) ==
  \/ \E s \in Sites, target \in Targets : SetLoad(p, s, target)
  \/ \E s \in Sites : RefreshLoad(p, s)
  \/ RefreshGet(p) \/ SetPut(p) \/ SetWrite(p)
  \/ CommandLoad(p) \/ CommandPut(p) \/ CommandWrite(p)

Environment ==
  \/ MonthPasses \/ StaffRenewFromToday
  \/ \E p \in Procs : Abort(p)
  \/ \E status \in {"inactive", "cancelled"} : StaffSetStatus(status)
  \/ \E s \in Sites, status \in OpenStates : OwnerToggles(s, status)

Next == Environment \/ \E p \in Procs : Renewing(p) \/ SettingSites(p)

Spec == Init /\ [][Next]_vars

-----------------------------------------------------------------------------
(* Properties.                                                             *)

(* "Safe to call repeatedly: only the first call extends the license": a   *)
(* renewal is invoiced once if it is paid and never otherwise, whatever    *)
(* mix of repeated, concurrent and rolled back calls of markPaid.          *)
RenewedOnce ==
  \A r \in Renewals : invoices[r] = IF renewal[r] = "paid" THEN 1 ELSE 0

(* A paid renewal moves the end of the license forward from the end in     *)
(* force at that moment, also when staff renews the license meanwhile.     *)
RenewalExtends ==
  [][\A r \in Renewals : renewal[r] # "paid" /\ renewal'[r] = "paid" =>
       license'.expiry > license.expiry]_vars

(* A payment that completes after staff cancelled the license does not     *)
(* bring it back.                                                          *)
CancelledStays ==
  [][renewal' # renewal /\ license.status = "cancelled" =>
       license'.status = "cancelled"]_vars

(* "Manual suspensions are never lifted here": no run of the command makes *)
(* a site active that is known to be suspended for another reason.         *)
ManualSuspensionKept ==
  [][\A p \in Procs, s \in Sites :
       CommandPut(p) /\ Suspended("manual") = mirror[s] /\ mirror[s] = remote[s]
       => remote'[s].status # "active"]_vars

-----------------------------------------------------------------------------
(* Liveness.  The command runs every hour, its steps end (10 s timeouts),  *)
(* and a site that is called again and again answers at some time.         *)
Answered(p) == CommandPut(p) /\ pc'[p] = "c_write"

Continue(p) ==
  \/ OrderCreate(p) \/ PaySites(p) \/ PayPut(p) \/ PayCommit(p) \/ StaffWrite(p)
  \/ RefreshGet(p) \/ SetPut(p) \/ SetWrite(p) \/ CommandPut(p) \/ CommandWrite(p)

FairSpec ==
  /\ Spec
  /\ SF_vars(\E p \in Procs : CommandLoad(p))
  /\ SF_vars(\E p \in Procs : Answered(p))
  /\ SF_vars(\E p \in Procs : CommandWrite(p))
  /\ SF_vars(\E p \in Procs : PayCommit(p))
  /\ WF_vars(\E p \in Procs : Continue(p))

(* "Suspends ready sites whose license has expired": while a license stays *)
(* expired, its sites read as suspended again and again, in spite of lost  *)
(* answers, dying runs and administrators who open them.                   *)
EnforcesExpiry ==
  \A s \in Sites : <>[]Expired => []<>(mirror[s].status = "suspended")

(* "The hourly run retries": while a license stays valid, no site reads as *)
(* suspended for it for ever.                                              *)
LiftsAfterRenewal ==
  \A s \in Sites :
    <>[](~Expired) => []<>(mirror[s] # Suspended("license_expired"))

(* "re-activates sites that were suspended ONLY for license_expired once   *)
(* the license is renewed": the same of the sites themselves.              *)
RenewedSitesComeBack ==
  \A s \in Sites :
    <>[](~Expired) => []<>(remote[s] # Suspended("license_expired"))
=============================================================================
