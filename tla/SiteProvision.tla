---------------------------- MODULE SiteProvision ----------------------------
(***************************************************************************)
(* The launch of one customer site on the local server: the row of         *)
(* webino_site_provisions, the jobs that build it                          *)
(* (ProvisionWebinoSiteJob, SiteProvisionOrchestrator::launch,             *)
(* LocalSameVpsProvisioner), the requests that read and write the row, and *)
(* the panel of the wizard that watches it (LaunchControlPanel.tsx).       *)
(*                                                                         *)
(* A process works on a copy of the row.  It writes back what it changed   *)
(* in its copy, so that a status equal to the one it read is not written.  *)
(***************************************************************************)
EXTENDS Naturals, FiniteSets

CONSTANTS
  Jobs,      \* builds queued or running at a time (bound)
  Ticks,     \* requests of the panel's timer that are open at a time (bound)
  Button,    \* the request of the button that was pressed last
  Others,    \* requests of the scheduler, the control panel and other admins
  MaxAsked,  \* bound: buttons pressed and other requests
  MaxFaults  \* bound: workers that die and answers that are lost

ASSUME ProvisionAssumption ==
  /\ Ticks \cap Others = {} /\ Button \notin Ticks \cup Others
  /\ MaxAsked \in Nat /\ MaxFaults \in Nat

VARIABLES
  status,   \* of the row
  phase,    \* of the row's progress; the phases of a build are one, "working"
  stack,    \* the containers of the site are up
  tenant,   \* their volumes hold a bootstrapped tenant
  job,      \* how far each build is, and the status in its copy
  req,      \* how far each request is, and the status in its copy
  shown,    \* status the panel shows
  asked, faults,
  loose,    \* history: a worker died, or a build ended with the report done
  hasty     \* history: a site was made ready on grounds that may not hold

vars == <<status, phase, stack, tenant, job, req, shown, asked, faults, loose, hasty>>

Running  == {"pending", "provisioning", "ssl_pending"}
Statuses == Running \cup {"draft", "ready", "failed", "cancelled"}
Phases   == {"none", "working", "done", "failed", "cancelled"}
Stages   == {"none", "queued", "claim", "build", "up", "probe", "call", "done", "ssl",
             "save", "fail", "caught", "again"}
Kinds    == {"launch", "retry", "cancel", "poll", "advance", "boot", "renew"}
Requests == Ticks \cup {Button} \cup Others

\* Where a build and a request are, with the status of their copy; the panel
\* listens to a request that is live.
Job     == [at : Stages, seen : Statuses]
Request == [kind : Kinds, seen : Statuses, live : BOOLEAN,
            at : {"idle", "sent", "write", "enqueue", "destroy", "call", "ready", "answer"}]

Idle == [kind |-> "poll", at |-> "idle", seen |-> "draft", live |-> FALSE]

\* A copy that was read with seen is written with new.
Saved(seen, new) == IF seen = new THEN status ELSE new

Init ==
  /\ status = "draft" /\ phase = "none"
  /\ stack = FALSE /\ tenant = FALSE
  /\ job = [j \in Jobs |-> [at |-> "none", seen |-> "draft"]]
  /\ req = [r \in Requests |-> Idle]
  /\ shown = "draft"
  /\ asked = 0 /\ faults = 0 /\ loose = FALSE /\ hasty = FALSE

-----------------------------------------------------------------------------
(* The build.                                                              *)

row    == <<status, phase>>
site   == <<stack, tenant>>
panel  == <<shown, req>>
past   == <<asked, faults, loose, hasty>>

\* The copy of a job matters only where it is written back.
Move(j, from, to) ==
  /\ job[j].at = from
  /\ job' = [job EXCEPT ![j] =
       [at |-> to, seen |-> IF to \in {"claim", "up", "save", "fail"} THEN status ELSE "draft"]]

\* report, assertNotCancelled: the copy is read again, and a cancelled build ends.
Goes(j, from, to) ==
  /\ status # "cancelled" /\ Move(j, from, to)
  /\ phase' = "working"
  /\ UNCHANGED <<status, site, panel, past>>

Stops(j) ==
  /\ job[j].at \in {"queued", "build", "probe", "done", "ssl"}
  /\ status = "cancelled"
  /\ Move(j, job[j].at, IF job[j].at = "queued" THEN "none" ELSE "caught")
  /\ UNCHANGED <<row, site, panel, past>>

\* launch and then handle report the end of the build to a row that may have been
\* launched again; a row that is still cancelled throws once more.
Caught(j) ==
  /\ \/ status = "cancelled" /\ Move(j, "caught", "again") /\ UNCHANGED phase
     \/ status = "cancelled" /\ Move(j, "again", "none") /\ UNCHANGED phase
     \/ /\ status # "cancelled" /\ phase' = "cancelled"
        /\ Move(j, "caught", "none") \/ Move(j, "again", "none")
  /\ UNCHANGED <<status, site, panel, past>>

\* handle and launch, up to the last look before the status is written; the license
\* of the site may not be had.
JobStart(j) == \E to \in {"claim", "fail"} : Goes(j, "queued", to)

\* The status is saved without looking again.
Claim(j) ==
  /\ Move(j, "claim", "build")
  /\ status' = Saved(job[j].seen, "provisioning")
  /\ UNCHANGED <<phase, site, panel, past>>

\* ensureImages and the files of the stack, which may fail.
Build(j) == \E to \in {"up", "fail"} : Goes(j, "build", to)

\* composeUp, which may fail after some containers are up.
Up(j) ==
  /\ \/ Move(j, "up", "probe")
     \/ job[j].at = "up" /\ job' = [job EXCEPT ![j].at = "fail"]
  /\ stack' = TRUE
  /\ UNCHANGED <<row, tenant, panel, past>>

\* Mutant of Probe: a site that does not get healthy is waited for.
ProbeForEver(j) == stack /\ Goes(j, "probe", "call")

\* waitForHealthy: a site that is down is not healthy.
Probe(j) ==
  \E to \in {"call", "ssl"} : (to = "call" => stack) /\ Goes(j, "probe", to)

\* bootstrapRemote.
Call(j) ==
  /\ \/ stack /\ Move(j, "call", "done") /\ tenant' = TRUE
     \/ Move(j, "call", "ssl") /\ UNCHANGED tenant
  /\ UNCHANGED <<row, stack, panel, past>>

\* The status ready of the copy is lost when report reads the copy again.
Done(j) ==
  /\ status # "cancelled" /\ Move(j, "done", "none")
  /\ phase' = "done" /\ loose' = TRUE
  /\ UNCHANGED <<status, site, panel, asked, faults, hasty>>

Ssl(j) == Goes(j, "ssl", "save")

Save(j) ==
  /\ Move(j, "save", "none")
  /\ status' = Saved(job[j].seen, "ssl_pending")
  /\ UNCHANGED <<phase, site, panel, past>>

\* fail does not look for a cancellation.
Fail(j) ==
  /\ Move(j, "fail", "none")
  /\ status' = Saved(job[j].seen, "failed") /\ phase' = "failed"
  /\ UNCHANGED <<site, panel, past>>

\* A worker dies: the job has one try.
Die(j) ==
  /\ faults < MaxFaults /\ job[j].at \notin {"none", "queued"}
  /\ Move(j, job[j].at, "none")
  /\ faults' = faults + 1 /\ loose' = TRUE
  /\ UNCHANGED <<row, site, panel, asked, hasty>>

Work(j) ==
  \/ Stops(j) \/ Caught(j) \/ JobStart(j) \/ Claim(j) \/ Build(j) \/ Up(j)
  \/ Probe(j) \/ Call(j) \/ Done(j) \/ Ssl(j) \/ Save(j) \/ Fail(j)

-----------------------------------------------------------------------------
(* Requests are sent, reach the server, where the row is read, and are     *)
(* answered with a row.                                                    *)

builds == <<job, site, past>>

Open(r, kind) ==
  /\ req[r].at = "idle"
  /\ req' = [req EXCEPT ![r] = [kind |-> kind, at |-> "sent", seen |-> "draft", live |-> TRUE]]
  /\ asked' = IF r \in Ticks THEN asked ELSE asked + 1
  /\ asked' <= MaxAsked
  /\ UNCHANGED <<row, job, site, faults, loose, hasty, shown>>

\* The timer of the panel, while the row it shows is running.
Tick(r) == r \in Ticks /\ shown \in Running /\ Open(r, "poll")

\* launch, cancel and retry of the panel: the buttons it shows.
Press(kind) ==
  /\ \/ kind = "launch" /\ shown \notin Running \cup {"ready"}
     \/ kind = "cancel" /\ shown \in Running
     \/ kind = "retry" /\ shown \in {"failed", "cancelled"}
  /\ Open(Button, kind)

\* Others may ask for anything; a tick of another panel is a poll, too.
Ask(r, kind) == r \in Others /\ Open(r, kind)

At(r, stage) == req[r].at = stage
To(r, stage) == req' = [req EXCEPT ![r].at = stage]

\* A request ends with a row, which only the panel looks at, or with an error.
Reply(r, seen) ==
  req' = [req EXCEPT ![r] = IF r \in Others THEN Idle
                            ELSE [@ EXCEPT !.at = "answer", !.seen = seen]]
Refuse(r) == req' = [req EXCEPT ![r] = Idle]

\* The handler reads the row: a refused request is answered without one.
Arrive(r) ==
  LET kind == req[r].kind
      Read(stage) == req' = [req EXCEPT ![r].at = stage, ![r].seen = status]
  IN /\ At(r, "sent")
     /\ \/ /\ kind = "launch"
           /\ IF status \in {"draft", "failed", "cancelled"} THEN Read("write") ELSE Reply(r, status)
        \/ kind = "retry" /\ IF status \in {"failed", "cancelled"} THEN Read("write") ELSE Refuse(r)
        \/ kind = "cancel" /\ IF status \in Running THEN To(r, "write") ELSE Refuse(r)
        \/ /\ kind \in {"poll", "advance"}
           /\ IF status = "ssl_pending" THEN Read("call") ELSE Reply(r, status)
        \/ kind \in {"boot", "renew"} /\ Read("call")
     /\ UNCHANGED <<row, builds, shown>>

\* Mutant of WritePending: the status takes the name of the phase.
WriteQueued(r) ==
  /\ At(r, "write") /\ req[r].kind \in {"launch", "retry"} /\ To(r, "enqueue")
  /\ status' = "queued" /\ phase' = "working"
  /\ UNCHANGED <<builds, shown>>

\* launch, retry: the row is pending before the job is queued ...
WritePending(r) ==
  /\ At(r, "write") /\ req[r].kind \in {"launch", "retry"} /\ To(r, "enqueue")
  /\ status' = "pending" /\ phase' = "working"
  /\ UNCHANGED <<builds, shown>>

\* Which free element of Jobs stands for the new job makes no difference.
Free == {j \in Jobs : job[j].at = "none"}

\* Mutant of Enqueue: the status that was read is not put back.
EnqueueOrForget(r) ==
  /\ At(r, "enqueue")
  /\ \/ /\ Free # {} /\ job' = [job EXCEPT ![CHOOSE j \in Free : TRUE].at = "queued"]
        /\ Reply(r, IF req[r].kind = "launch" THEN status ELSE "pending")
        /\ UNCHANGED row
     \/ /\ phase' = "none" /\ Refuse(r)
        /\ UNCHANGED <<status, job>>
  /\ UNCHANGED <<site, past, shown>>

\* ... and gets the status back that was read if no queue takes the job.
Enqueue(r) ==
  /\ At(r, "enqueue")
  /\ \/ /\ Free # {} /\ job' = [job EXCEPT ![CHOOSE j \in Free : TRUE].at = "queued"]
        /\ Reply(r, IF req[r].kind = "launch" THEN status ELSE "pending")
        /\ UNCHANGED row
     \/ /\ status' = req[r].seen /\ phase' = "none" /\ Refuse(r)
        /\ UNCHANGED job
  /\ UNCHANGED <<site, past, shown>>

\* cancel: the row first ...
WriteCancelled(r) ==
  /\ At(r, "write") /\ req[r].kind = "cancel" /\ To(r, "destroy")
  /\ status' = "cancelled" /\ phase' = "cancelled"
  /\ UNCHANGED <<builds, shown>>

\* ... then the stack, whose end may fail.
Destroy(r) ==
  /\ At(r, "destroy") /\ Reply(r, status)
  /\ \/ /\ stack' = FALSE /\ tenant' = FALSE
        /\ hasty' = (hasty \/ \E q \in Requests : At(q, "ready"))
     \/ UNCHANGED <<site, hasty>>
  /\ UNCHANGED <<row, job, asked, faults, loose, shown>>

\* Mutant of CallSite: a site that answers is taken as bootstrapped.
CallHealthOnly(r) ==
  /\ At(r, "call") /\ UNCHANGED tenant
  /\ (stack /\ To(r, "ready")) \/ Reply(r, status)
  /\ UNCHANGED <<row, stack, job, past, shown>>

\* The site is called: health check and bootstrap, or only the latter, or the
\* certificate.  The answer of a failed call shows the row as it is.
CallSite(r) ==
  /\ At(r, "call")
  /\ \/ stack /\ To(r, "ready") /\ tenant' = (tenant \/ req[r].kind # "renew")
     \/ Reply(r, status) /\ UNCHANGED tenant
  /\ UNCHANGED <<row, stack, job, past, shown>>

\* The row is made ready from the copy read before the call.
WriteReady(r) ==
  LET new == IF req[r].kind = "renew" /\ req[r].seen # "ssl_pending" THEN status
             ELSE Saved(req[r].seen, "ready")
  IN /\ At(r, "ready") /\ Reply(r, new)
     /\ status' = new
     /\ phase' = IF req[r].kind = "advance" THEN "done" ELSE phase
     /\ hasty' = \/ hasty
                 \/ new # status /\ req[r].kind = "renew"
                 \/ new # status /\ \E q \in Requests : At(q, "destroy")
     /\ UNCHANGED <<job, site, asked, faults, loose, shown>>

\* The panel shows the row of an answer.  Once it shows a row that is not running,
\* what its timer asked before is ignored.
Show(r, seen) ==
  /\ shown' = seen
  /\ req' = [q \in Requests |->
       IF q = r THEN Idle
       ELSE IF q \in Ticks /\ shown \in Running /\ seen \notin Running
       THEN [req[q] EXCEPT !.live = FALSE] ELSE req[q]]

\* Mutant of Answer: an answer that comes back to the timer is never shown.
AnswerDropped(r) ==
  /\ At(r, "answer")
  /\ IF r = Button THEN Show(r, req[r].seen) ELSE Refuse(r) /\ UNCHANGED shown
  /\ UNCHANGED <<row, builds>>

Answer(r) ==
  /\ At(r, "answer")
  /\ IF req[r].live THEN Show(r, req[r].seen) ELSE Refuse(r) /\ UNCHANGED shown
  /\ UNCHANGED <<row, builds>>

\* An answer is lost.  launch then asks for the status, unless that fails, too.
Lose(r) ==
  /\ At(r, "answer") /\ faults < MaxFaults
  /\ \/ req' = [req EXCEPT ![r] = Idle] /\ UNCHANGED shown
     \/ r = Button /\ req[r].kind = "launch" /\ status # "draft" /\ Show(r, status)
  /\ faults' = faults + 1
  /\ UNCHANGED <<row, site, job, asked, loose, hasty>>

Serve(r) ==
  \/ Arrive(r) \/ WritePending(r) \/ Enqueue(r) \/ WriteCancelled(r) \/ Destroy(r)
  \/ CallSite(r) \/ WriteReady(r) \/ Answer(r)

-----------------------------------------------------------------------------
Next ==
  \/ \E j \in Jobs : Work(j) \/ Die(j)
  \/ \E r \in Requests : Tick(r) \/ Serve(r) \/ Lose(r)
  \/ \E kind \in {"launch", "retry", "cancel"} : Press(kind)
  \/ \E r \in Others, kind \in Kinds : Ask(r, kind)

Spec == Init /\ [][Next]_vars

\* Workers take the jobs they are given, the server answers, and the timer runs.
FairSpec ==
  /\ Spec
  /\ \A j \in Jobs : WF_vars(Work(j))
  /\ \A r \in Requests : WF_vars(Serve(r))
  /\ \A r \in Ticks : WF_vars(Tick(r))

-----------------------------------------------------------------------------
TypeOK ==
  /\ status \in Statuses /\ phase \in Phases
  /\ stack \in BOOLEAN /\ tenant \in BOOLEAN
  /\ job \in [Jobs -> Job] /\ req \in [Requests -> Request]
  /\ shown \in Statuses
  /\ asked \in 0..MaxAsked /\ faults \in 0..MaxFaults /\ loose \in BOOLEAN /\ hasty \in BOOLEAN

\* A launch that is waiting or under way has somebody at work on it, whatever is
\* cancelled, retried or refused by the queue; but not if a worker died, nor after
\* a build that went well, whose last report drops the status ready.
\* SiteProvisionController.php:313-383, ProvisionWebinoSiteJob.php:140-163.
InProgressIsWorkedOn ==
  status \in {"pending", "provisioning"} =>
    \/ \E j \in Jobs : job[j].at # "none"
    \/ \E r \in Requests : At(r, "enqueue")
    \/ loose

\* A ready site has a tenant, unless its certificate was enough, or a cancellation
\* overlapped the call that found the site ready.
\* SiteProvisionOrchestrator.php:136-182, 191-237, 446-477.
ReadyIsBootstrapped == status = "ready" /\ ~hasty => tenant

\* The panel does not go on for ever to show a launch as running that is not.
\* LaunchControlPanel.tsx:142-166.
PanelCatchesUp == []<>(shown \in Running => status \in Running)

\* A launch does not stay pending or provisioning for ever: it becomes ready, waits
\* for its certificate, fails or is cancelled, with the exceptions above.
\* LocalSameVpsProvisioner.php:36-196, ProvisionWebinoSiteJob.php:140-163.
LaunchEnds == []<>(status \in {"pending", "provisioning"} => loose)

\* ProvisionProgress.php:103-109: the phase done is "Site ready"; PlatformApiTest.php:153
\* expects status ready of a launch that went well.
DoneIsReady ==
  phase = "done" /\ (\A j \in Jobs : job[j].at = "none") => status = "ready"
=============================================================================
