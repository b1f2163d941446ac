------------------------- MODULE SiteProvisionProofs -------------------------
(***************************************************************************)
(* What holds of a launch for every number of builds, requests and faults: *)
(* somebody works on a launch that is under way, and a ready site has a    *)
(* tenant.                                                                 *)
(***************************************************************************)
EXTENDS SiteProvision, TLAPS

UnderWay == {"pending", "provisioning"}

RequestStages ==
  {"idle", "sent", "write", "enqueue", "destroy", "call", "ready", "answer"}

(* A request that is about to relaunch the site has found it at rest.      *)
RelaunchesTheIdle ==
  \A r \in Requests :
    /\ req[r].at = "enqueue" => req[r].seen \in {"draft", "failed", "cancelled"}
    /\ req[r].at = "write" /\ req[r].kind \in {"launch", "retry"} =>
         req[r].seen \in {"draft", "failed", "cancelled"}

(* A build that will not end without a new status of the row: at its last  *)
(* steps it writes nothing if its copy has the new status already, so it   *)
(* must have read the row when the launch was under way.                   *)
Earnest(j) ==
  \/ job[j].at \in {"queued", "claim", "build", "probe", "call", "done", "ssl"}
  \/ job[j].at \in {"up", "save", "fail"} /\ job[j].seen \in UnderWay

WorkedOn ==
  status \in UnderWay =>
    \/ \E j \in Jobs : Earnest(j)
    \/ \E r \in Requests : At(r, "enqueue")
    \/ loose

WorkInv == TypeOK /\ RelaunchesTheIdle /\ WorkedOn

-----------------------------------------------------------------------------
(* Types *)

LEMMA SavedTyped ==
  ASSUME status \in Statuses, NEW seen, NEW new \in Statuses
  PROVE  Saved(seen, new) \in {status, new} /\ Saved(seen, new) \in Statuses
BY DEF Saved

LEMMA MoveTyped ==
  ASSUME TypeOK, NEW j \in Jobs, NEW from, NEW to \in Stages, Move(j, from, to)
  PROVE  /\ job' \in [Jobs -> Job]
         /\ job'[j].at = to
         /\ \A k \in Jobs \ {j} : job'[k] = job[k]
         /\ to \in {"claim", "up", "save", "fail"} => job'[j].seen = status
BY DEF TypeOK, Move, Job, Statuses, Running

LEMMA InitTyped == Init => TypeOK
<1> SUFFICES ASSUME Init PROVE TypeOK
  OBVIOUS
<1>1. Idle \in Request
  BY DEF Idle, Request, Kinds, Statuses, Running
<1>2. [at |-> "none", seen |-> "draft"] \in Job
  BY DEF Job, Stages, Statuses
<1>3. job \in [Jobs -> Job] /\ req \in [Requests -> Request]
  BY <1>1, <1>2 DEF Init
<1>4. "draft" \in Statuses /\ "none" \in Phases
  BY DEF Statuses, Phases
<1>5. asked \in 0..MaxAsked /\ faults \in 0..MaxFaults
  BY ProvisionAssumption DEF Init
<1>6. status \in Statuses /\ phase \in Phases /\ shown \in Statuses
  BY <1>4 DEF Init
<1>7. QED BY <1>3, <1>5, <1>6 DEF Init, TypeOK

LEMMA WorkTyped ==
  ASSUME TypeOK, NEW j \in Jobs, Work(j)
  PROVE  TypeOK'
<1> USE MoveTyped, SavedTyped DEF TypeOK
<1>1. CASE Stops(j)
  BY <1>1 DEF Stops, row, site, panel, past, Stages
<1>2. CASE Caught(j)
  BY <1>2 DEF Caught, site, panel, past, Stages, Phases
<1>3. CASE JobStart(j)
  BY <1>3 DEF JobStart, Goes, site, panel, past, Stages, Phases
<1>4. CASE Claim(j)
  BY <1>4 DEF Claim, site, panel, past, Stages, Statuses, Running
<1>5. CASE Build(j)
  BY <1>5 DEF Build, Goes, site, panel, past, Stages, Phases
<1>6. CASE Up(j)
  <2>1. job' \in [Jobs -> Job]
    BY <1>6 DEF Up, Stages, Job
  <2>2. QED BY <1>6, <2>1 DEF Up, row, panel, past
<1>7. CASE Probe(j)
  BY <1>7 DEF Probe, Goes, site, panel, past, Stages, Phases
<1>8. CASE Call(j)
  BY <1>8 DEF Call, row, panel, past, Stages
<1>9. CASE Done(j)
  BY <1>9 DEF Done, site, panel, Stages, Phases
<1>10. CASE Ssl(j)
  BY <1>10 DEF Ssl, Goes, site, panel, past, Stages, Phases
<1>11. CASE Save(j)
  BY <1>11 DEF Save, site, panel, past, Stages, Statuses, Running
<1>12. CASE Fail(j)
  BY <1>12 DEF Fail, site, panel, past, Stages, Phases, Statuses
<1>13. QED
  BY <1>1, <1>2, <1>3, <1>4, <1>5, <1>6, <1>7, <1>8, <1>9, <1>10, <1>11, <1>12 DEF Work

LEMMA DieTyped ==
  ASSUME TypeOK, NEW j \in Jobs, Die(j)
  PROVE  TypeOK'
<1>1. job' \in [Jobs -> Job]
  BY MoveTyped DEF Die, Stages
<1>2. faults' \in 0..MaxFaults
  BY ProvisionAssumption DEF TypeOK, Die
<1>3. QED BY <1>1, <1>2 DEF TypeOK, Die, row, site, panel

(* What a request may do to its own record.                                *)
LEMMA IdleTyped == Idle \in Request
BY DEF Idle, Request, Kinds, Statuses, Running

LEMMA ToTyped ==
  ASSUME TypeOK, NEW r \in Requests, NEW stage \in RequestStages, To(r, stage)
  PROVE  req' \in [Requests -> Request]
BY DEF TypeOK, To, Request, RequestStages

LEMMA ReadTyped ==
  ASSUME TypeOK, NEW r \in Requests, NEW stage \in RequestStages,
         req' = [req EXCEPT ![r].at = stage, ![r].seen = status]
  PROVE  req' \in [Requests -> Request]
BY DEF TypeOK, Request, RequestStages

LEMMA ReplyTyped ==
  ASSUME TypeOK, NEW r \in Requests, NEW seen \in Statuses, Reply(r, seen)
  PROVE  req' \in [Requests -> Request]
<1>1. [req[r] EXCEPT !.at = "answer", !.seen = seen] \in Request
  BY DEF TypeOK, Request
<1>2. QED BY <1>1, IdleTyped DEF TypeOK, Reply

LEMMA ReplyEnds ==
  ASSUME TypeOK, NEW r \in Requests, NEW seen, Reply(r, seen)
  PROVE  req'[r].at \in {"idle", "answer"}
<1>1. CASE r \in Others
  BY <1>1 DEF TypeOK, Reply, Idle
<1>2. CASE r \notin Others
  BY <1>2 DEF TypeOK, Reply, Request
<1>3. QED BY <1>1, <1>2

LEMMA RefuseTyped ==
  ASSUME TypeOK, NEW r \in Requests, Refuse(r)
  PROVE  req' \in [Requests -> Request]
BY IdleTyped DEF TypeOK, Refuse

LEMMA ShowTyped ==
  ASSUME TypeOK, NEW r \in Requests, NEW seen \in Statuses, Show(r, seen)
  PROVE  req' \in [Requests -> Request] /\ shown' \in Statuses
<1>1. \A q \in Requests : [req[q] EXCEPT !.live = FALSE] \in Request
  BY DEF TypeOK, Request
<1>2. QED BY <1>1, IdleTyped DEF TypeOK, Show

LEMMA OpenTyped ==
  ASSUME TypeOK, NEW r \in Requests, NEW kind \in Kinds, Open(r, kind)
  PROVE  TypeOK'
<1>1. [kind |-> kind, at |-> "sent", seen |-> "draft", live |-> TRUE] \in Request
  BY DEF Request, Statuses
<1>2. req' \in [Requests -> Request]
  BY <1>1 DEF Open, TypeOK
<1>3. asked' \in 0..MaxAsked
  BY ProvisionAssumption DEF TypeOK, Open
<1>4. QED BY <1>2, <1>3 DEF TypeOK, Open, row, site

LEMMA ServeTyped ==
  ASSUME TypeOK, NEW r \in Requests, Serve(r)
  PROVE  TypeOK'
<1>0. status \in Statuses /\ {"pending", "cancelled"} \subseteq Statuses
  BY DEF TypeOK, Statuses, Running
<1>1. CASE Arrive(r)
  <2>1. "write" \in RequestStages /\ "call" \in RequestStages
    BY DEF RequestStages
  <2>2. \/ To(r, "write") \/ Reply(r, status) \/ Refuse(r)
        \/ req' = [req EXCEPT ![r].at = "write", ![r].seen = status]
        \/ req' = [req EXCEPT ![r].at = "call", ![r].seen = status]
    BY <1>1 DEF Arrive
  <2>3. req' \in [Requests -> Request]
    BY <1>0, <2>1, <2>2, ToTyped, ReplyTyped, RefuseTyped, ReadTyped
  <2>4. QED BY <1>1, <2>3 DEF TypeOK, Arrive, row, builds, site, past
<1>2. CASE WritePending(r)
  <2>1. req' \in [Requests -> Request]
    BY <1>2, ToTyped DEF WritePending, RequestStages
  <2>2. QED BY <1>0, <1>2, <2>1 DEF TypeOK, WritePending, builds, site, past, Phases
<1>3. CASE Enqueue(r)
  <2>1. req[r].seen \in Statuses
    BY DEF TypeOK, Request
  <2>2. CASE /\ Free # {} /\ job' = [job EXCEPT ![CHOOSE j \in Free : TRUE].at = "queued"]
             /\ Reply(r, IF req[r].kind = "launch" THEN status ELSE "pending")
             /\ UNCHANGED row
    <3>1. (CHOOSE j \in Free : TRUE) \in Jobs
      BY <2>2 DEF Free
    <3>2. job' \in [Jobs -> Job]
      BY <2>2, <3>1 DEF TypeOK, Job, Stages
    <3>3. (IF req[r].kind = "launch" THEN status ELSE "pending") \in Statuses
      BY <1>0
    <3>4. req' \in [Requests -> Request]
      BY <2>2, <3>3, ReplyTyped
    <3>5. QED BY <1>3, <2>2, <3>2, <3>4 DEF TypeOK, Enqueue, site, past, row
  <2>3. CASE /\ status' = req[r].seen /\ phase' = "none" /\ Refuse(r)
             /\ UNCHANGED job
    <3>1. req' \in [Requests -> Request]
      BY <2>3, RefuseTyped
    <3>2. QED BY <1>3, <2>1, <2>3, <3>1 DEF TypeOK, Enqueue, site, past, Phases
  <2>4. QED BY <1>3, <2>2, <2>3 DEF Enqueue
<1>4. CASE WriteCancelled(r)
  <2>1. req' \in [Requests -> Request]
    BY <1>4, ToTyped DEF WriteCancelled, RequestStages
  <2>2. QED BY <1>0, <1>4, <2>1 DEF TypeOK, WriteCancelled, builds, site, past, Phases
<1>5. CASE Destroy(r)
  <2>1. req' \in [Requests -> Request]
    BY <1>0, <1>5, ReplyTyped DEF Destroy
  <2>2. QED BY <1>5, <2>1 DEF TypeOK, Destroy, site, row
<1>6. CASE CallSite(r)
  <2>1. "ready" \in RequestStages /\ (To(r, "ready") \/ Reply(r, status))
    BY <1>6 DEF CallSite, RequestStages
  <2>2. req' \in [Requests -> Request]
    BY <1>0, <2>1, ToTyped, ReplyTyped
  <2>3. tenant' \in BOOLEAN
    BY <1>6 DEF TypeOK, CallSite
  <2>4. QED BY <1>6, <2>2, <2>3 DEF TypeOK, CallSite, row, past
<1>7. CASE WriteReady(r)
  <2>1. status' \in Statuses
    BY <1>0, <1>7, SavedTyped DEF WriteReady, Statuses
  <2>2. req' \in [Requests -> Request]
    BY <1>7, <2>1, ReplyTyped DEF WriteReady
  <2>3. phase' \in Phases
    BY <1>7 DEF TypeOK, WriteReady, Phases
  <2>4. hasty' \in BOOLEAN
    BY <1>7 DEF TypeOK, WriteReady
  <2>5. QED BY <1>7, <2>1, <2>2, <2>3, <2>4 DEF TypeOK, WriteReady, site
<1>8. CASE Answer(r)
  <2>1. req[r].seen \in Statuses
    BY DEF TypeOK, Request
  <2>2. req' \in [Requests -> Request] /\ shown' \in Statuses
    BY <1>8, <2>1, ShowTyped, RefuseTyped DEF Answer, TypeOK
  <2>3. QED BY <1>8, <2>2 DEF TypeOK, Answer, row, builds, site, past
<1>9. QED
  BY <1>1, <1>2, <1>3, <1>4, <1>5, <1>6, <1>7, <1>8 DEF Serve

LEMMA LoseTyped ==
  ASSUME TypeOK, NEW r \in Requests, Lose(r)
  PROVE  TypeOK'
<1>1. req' \in [Requests -> Request] /\ shown' \in Statuses
  BY ShowTyped, RefuseTyped DEF TypeOK, Lose, Refuse
<1>2. faults' \in 0..MaxFaults
  BY ProvisionAssumption DEF TypeOK, Lose
<1>3. QED BY <1>1, <1>2 DEF TypeOK, Lose, row, site

LEMMA RequestKinds ==
  /\ Ticks \subseteq Requests /\ Others \subseteq Requests /\ Button \in Requests
  /\ {"launch", "retry", "cancel", "poll"} \subseteq Kinds
BY DEF Requests, Kinds

LEMMA TypeNext == TypeOK /\ [Next]_vars => TypeOK'
<1> SUFFICES ASSUME TypeOK, [Next]_vars PROVE TypeOK'
  OBVIOUS
<1>1. ASSUME NEW j \in Jobs, Work(j) \/ Die(j) PROVE TypeOK'
  BY <1>1, WorkTyped, DieTyped
<1>2. ASSUME NEW r \in Requests, Tick(r) \/ Serve(r) \/ Lose(r) PROVE TypeOK'
  BY <1>2, RequestKinds, OpenTyped, ServeTyped, LoseTyped DEF Tick
<1>3. ASSUME NEW kind \in {"launch", "retry", "cancel"}, Press(kind) PROVE TypeOK'
  BY <1>3, RequestKinds, OpenTyped DEF Press
<1>4. ASSUME NEW r \in Others, NEW kind \in Kinds, Ask(r, kind) PROVE TypeOK'
  BY <1>4, RequestKinds, OpenTyped DEF Ask
<1>5. CASE UNCHANGED vars
  BY <1>5 DEF vars, TypeOK
<1>6. QED BY <1>1, <1>2, <1>3, <1>4, <1>5 DEF Next

(* The row, the builds, the site and the requests keep their shape, for    *)
(* any number of builds and requests: SiteProvisionController.php,         *)
(* LocalSameVpsProvisioner.php.                                            *)
THEOREM TypeCorrect == Spec => []TypeOK
<1>1. Init => TypeOK
  BY InitTyped
<1>2. TypeOK /\ [Next]_vars => TypeOK'
  BY TypeNext
<1>3. QED BY <1>1, <1>2, PTL DEF Spec

-----------------------------------------------------------------------------
(* Somebody works on a launch that is under way                            *)

LEMMA WorkInit == Init => WorkInv
<1>1. Init => RelaunchesTheIdle
  BY DEF Init, RelaunchesTheIdle, Idle
<1>2. Init => WorkedOn
  BY DEF Init, WorkedOn, UnderWay
<1>3. QED BY <1>1, <1>2, InitTyped DEF WorkInv

(* A build that stays in earnest, or a request that waits to queue one, is *)
(* all that WorkedOn asks for.                                             *)
LEMMA StillEarnest ==
  ASSUME NEW j \in Jobs, Earnest(j), job'[j] = job[j]
  PROVE  Earnest(j)'
BY DEF Earnest

LEMMA WorkOfJob ==
  ASSUME WorkInv, NEW j \in Jobs, Work(j) \/ Die(j)
  PROVE  WorkedOn'
<1> SUFFICES ASSUME status' \in UnderWay, ~loose'
             PROVE  \/ \E k \in Jobs : Earnest(k)'
                    \/ \E r \in Requests : At(r, "enqueue")'
  BY DEF WorkedOn
<1> USE DEF WorkInv
<1>1. req' = req /\ ~loose
  BY DEF Work, Die, Stops, Caught, JobStart, Claim, Build, Up, Probe, Call, Done, Ssl, Save,
         Fail, Goes, panel, past
<1>2. CASE \E r \in Requests : At(r, "enqueue")
  BY <1>1, <1>2 DEF At
<1>3. CASE status \in UnderWay /\ \E k \in Jobs \ {j} : Earnest(k)
  <2>1. PICK k \in Jobs \ {j} : Earnest(k)
    BY <1>3
  <2>2. job'[k] = job[k]
    BY DEF Work, Die, Stops, Caught, JobStart, Claim, Build, Up, Probe, Call, Done, Ssl, Save,
           Fail, Goes, Move, TypeOK
  <2>3. QED BY <2>1, <2>2, StillEarnest
<1>4. CASE Claim(j)
  BY <1>4, MoveTyped DEF Claim, Earnest, Stages
<1>5. CASE status \in UnderWay /\ Earnest(j) /\ ~Claim(j)
  <2>0. status # "cancelled"
    BY <1>5 DEF UnderWay
  <2>1. CASE Stops(j) \/ Caught(j)
    BY <1>5, <2>0, <2>1 DEF Stops, Caught, Move, Earnest
  <2>2. CASE JobStart(j) \/ Build(j) \/ Probe(j) \/ Ssl(j)
    BY <1>5, <2>2, MoveTyped
    DEF JobStart, Build, Probe, Ssl, Goes, Earnest, Stages
  <2>3. CASE Up(j)
    <3>1. CASE Move(j, "up", "probe")
      BY <3>1, MoveTyped DEF Earnest, Stages
    <3>2. CASE job[j].at = "up" /\ job' = [job EXCEPT ![j].at = "fail"]
      BY <1>5, <3>2 DEF Earnest, TypeOK, Job
    <3>3. QED BY <2>3, <3>1, <3>2 DEF Up
  <2>4. CASE Call(j)
    BY <2>4, MoveTyped DEF Call, Earnest, Stages
  <2>5. CASE Done(j) \/ Die(j)
    BY <2>5 DEF Done, Die
  <2>6. CASE Save(j)
    BY <1>5, <2>6 DEF Save, Move, Earnest, Saved, UnderWay
  <2>7. CASE Fail(j)
    BY <1>5, <2>7 DEF Fail, Move, Earnest, Saved, UnderWay
  <2>8. QED
    BY <1>5, <2>1, <2>2, <2>3, <2>4, <2>5, <2>6, <2>7 DEF Work
<1>6. CASE status \notin UnderWay /\ ~Claim(j)
  BY <1>6
  DEF UnderWay, Work, Die, Stops, Caught, JobStart, Build, Up, Probe, Call, Done, Ssl, Save,
      Fail, Goes, Saved, row
<1>7. QED BY <1>1, <1>2, <1>3, <1>4, <1>5, <1>6 DEF WorkedOn

(* A request leaves the others where they are.                              *)
LEMMA RequestFrame ==
  ASSUME TypeOK, NEW r \in Requests, Serve(r) \/ Lose(r) \/ (\E kind \in Kinds : Open(r, kind)),
         NEW q \in Requests, q # r
  PROVE  /\ req'[q].at = req[q].at /\ req'[q].seen = req[q].seen
         /\ req'[q].kind = req[q].kind
<1>1. ASSUME NEW seen, Show(r, seen) PROVE /\ req'[q].at = req[q].at /\ req'[q].seen = req[q].seen
                                          /\ req'[q].kind = req[q].kind
  <2>1. req'[q] = [req[q] EXCEPT !.live = FALSE] \/ req'[q] = req[q]
    BY <1>1 DEF Show
  <2>2. QED BY <2>1 DEF TypeOK, Request
<1>2. ASSUME NEW new, req' = [req EXCEPT ![r] = new] PROVE req'[q] = req[q]
  BY <1>2 DEF TypeOK
<1>3. ASSUME NEW stage, To(r, stage) PROVE req'[q] = req[q]
  BY <1>3 DEF TypeOK, To
<1>4. ASSUME NEW seen, Reply(r, seen) PROVE req'[q] = req[q]
  BY <1>4 DEF TypeOK, Reply
<1>5. Refuse(r) => req'[q] = req[q]
  BY DEF TypeOK, Refuse
<1>6. CASE Arrive(r)
  <2>1. ASSUME NEW stage, req' = [req EXCEPT ![r].at = stage, ![r].seen = status]
        PROVE  req'[q] = req[q]
    BY <2>1 DEF TypeOK
  <2>2. QED BY <1>3, <1>4, <1>5, <1>6, <2>1 DEF Arrive
<1>7. CASE WritePending(r) \/ WriteCancelled(r) \/ CallSite(r)
  BY <1>3, <1>4, <1>7 DEF WritePending, WriteCancelled, CallSite
<1>8. CASE Enqueue(r) \/ Destroy(r) \/ WriteReady(r)
  BY <1>4, <1>5, <1>8 DEF Enqueue, Destroy, WriteReady
<1>9. CASE Answer(r) \/ Lose(r)
  BY <1>1, <1>2, <1>5, <1>9 DEF Answer, Lose
<1>10. CASE \E kind \in Kinds : Open(r, kind)
  BY <1>2, <1>10 DEF Open
<1>11. QED BY <1>6, <1>7, <1>8, <1>9, <1>10 DEF Serve

(* A request leaves the builds alone but to queue one, and other requests  *)
(* where they wait.                                                        *)
LEMMA WorkOfRequest ==
  ASSUME WorkInv, NEW r \in Requests, Serve(r) \/ Lose(r) \/ (\E kind \in Kinds : Open(r, kind))
  PROVE  WorkedOn'
<1> SUFFICES ASSUME status' \in UnderWay, ~loose'
             PROVE  \/ \E k \in Jobs : Earnest(k)'
                    \/ \E q \in Requests : At(q, "enqueue")'
  BY DEF WorkedOn
<1> USE DEF WorkInv
<1>1. ~loose
  BY DEF Serve, Lose, Open, Arrive, WritePending, Enqueue, WriteCancelled, Destroy, CallSite,
         WriteReady, Answer, builds, past
<1>2. CASE WritePending(r)
  BY <1>2 DEF WritePending, To, At, TypeOK
<1>3. CASE Enqueue(r)
  <2>1. CASE /\ Free # {} /\ job' = [job EXCEPT ![CHOOSE j \in Free : TRUE].at = "queued"]
             /\ Reply(r, IF req[r].kind = "launch" THEN status ELSE "pending")
             /\ UNCHANGED row
    <3> DEFINE j == CHOOSE j \in Free : TRUE
    <3>1. j \in Jobs
      BY <2>1 DEF Free
    <3>2. job'[j].at = "queued"
      BY <2>1, <3>1 DEF TypeOK, Job
    <3>3. QED BY <3>1, <3>2 DEF Earnest
  <2>2. CASE /\ status' = req[r].seen /\ phase' = "none" /\ Refuse(r)
             /\ UNCHANGED job
    BY <1>3, <2>2 DEF Enqueue, At, RelaunchesTheIdle, UnderWay
  <2>3. QED BY <1>3, <2>1, <2>2 DEF Enqueue
<1>4. CASE ~WritePending(r) /\ ~Enqueue(r)
  <2>1. job' = job
    BY <1>4 DEF Serve, Lose, Open, Arrive, WriteCancelled, Destroy, CallSite, WriteReady, Answer,
                builds
  <2>2. status \in UnderWay
    BY <1>4 DEF Serve, Lose, Open, Arrive, WriteCancelled, Destroy, CallSite, WriteReady, Answer,
                builds, row, UnderWay, Saved
  <2>3. CASE \E k \in Jobs : Earnest(k)
    BY <2>1, <2>3, StillEarnest
  <2>4. CASE \E q \in Requests : At(q, "enqueue")
    <3>1. PICK q \in Requests : At(q, "enqueue")
      BY <2>4
    <3>2. q # r
      BY <1>4, <3>1 DEF Serve, Lose, Open, Arrive, WriteCancelled, Destroy, CallSite, WriteReady,
                        Answer, At
    <3>3. req'[q].at = req[q].at
      BY <3>2, RequestFrame
    <3>4. QED BY <3>1, <3>3 DEF At
  <2>5. QED BY <1>1, <2>2, <2>3, <2>4 DEF WorkedOn
<1>5. QED BY <1>2, <1>3, <1>4

(* Only a row at rest is relaunched.                                       *)
LEMMA RelaunchNext ==
  ASSUME TypeOK, RelaunchesTheIdle, [Next]_vars
  PROVE  RelaunchesTheIdle'
<1>1. ASSUME NEW r \in Requests, Serve(r) \/ Lose(r) \/ (\E kind \in Kinds : Open(r, kind)),
             \/ req'[r].at = "enqueue"
             \/ req'[r].at = "write" /\ req'[r].kind \in {"launch", "retry"}
      PROVE  req'[r].seen \in {"draft", "failed", "cancelled"}
  <2>1. Idle.at = "idle" /\ req[r] \in Request
    BY DEF Idle, TypeOK
  <2>2. ASSUME NEW seen, Show(r, seen) PROVE FALSE
    BY <1>1, <2>1, <2>2 DEF Show
  <2>3. ASSUME NEW seen, Reply(r, seen) PROVE FALSE
    BY <1>1, <2>1, <2>3 DEF Reply, TypeOK, Request
  <2>4. ~Refuse(r)
    BY <1>1, <2>1 DEF Refuse, TypeOK
  <2>5. ASSUME NEW stage \in {"destroy", "ready"}, To(r, stage) PROVE FALSE
    BY <1>1, <2>5 DEF To, TypeOK, Request
  <2>6. CASE Arrive(r)
    <3>1. CASE req' = [req EXCEPT ![r].at = "call", ![r].seen = status]
      BY <1>1, <3>1 DEF TypeOK, Request
    <3>2. CASE req[r].kind = "cancel" /\ To(r, "write")
      BY <1>1, <3>2 DEF To, TypeOK, Request
    <3>3. CASE /\ status \in {"draft", "failed", "cancelled"}
               /\ req' = [req EXCEPT ![r].at = "write", ![r].seen = status]
      BY <3>3 DEF TypeOK, Request
    <3>4. QED BY <2>3, <2>4, <2>6, <3>1, <3>2, <3>3 DEF Arrive
  <2>7. CASE WritePending(r)
    BY <1>1, <2>7 DEF WritePending, To, At, TypeOK, Request, RelaunchesTheIdle
  <2>8. CASE \E kind \in Kinds : Open(r, kind)
    BY <1>1, <2>8 DEF Open, TypeOK
  <2>9. CASE Enqueue(r) \/ WriteCancelled(r) \/ Destroy(r) \/ CallSite(r) \/ WriteReady(r)
    BY <2>3, <2>4, <2>5, <2>9 DEF Enqueue, WriteCancelled, Destroy, CallSite, WriteReady
  <2>10. CASE Answer(r) \/ Lose(r)
    <3>1. req' # [req EXCEPT ![r] = Idle]
      BY <1>1, <2>1 DEF TypeOK
    <3>2. QED BY <2>2, <2>4, <2>10, <3>1 DEF Answer, Lose
  <2>11. QED BY <1>1, <2>6, <2>7, <2>8, <2>9, <2>10 DEF Serve
<1>2. ASSUME NEW r \in Requests, Serve(r) \/ Lose(r) \/ (\E kind \in Kinds : Open(r, kind))
      PROVE  RelaunchesTheIdle'
  BY <1>1, <1>2, RequestFrame DEF RelaunchesTheIdle
<1>3. ASSUME NEW j \in Jobs, Work(j) \/ Die(j) PROVE req' = req
  BY <1>3
  DEF Work, Die, Stops, Caught, JobStart, Claim, Build, Up, Probe, Call, Done, Ssl, Save,
      Fail, Goes, panel, past
<1>4. CASE req' = req
  BY <1>4 DEF RelaunchesTheIdle
<1>5. QED
  BY <1>2, <1>3, <1>4, RequestKinds DEF Next, Tick, Press, Ask, vars

LEMMA WorkNext == WorkInv /\ [Next]_vars => WorkInv'
<1> SUFFICES ASSUME WorkInv, [Next]_vars PROVE WorkInv'
  OBVIOUS
<1>1. TypeOK' /\ RelaunchesTheIdle'
  BY TypeNext, RelaunchNext DEF WorkInv
<1>2. CASE UNCHANGED vars
  BY <1>1, <1>2 DEF WorkInv, WorkedOn, Earnest, At, vars
<1>3. CASE Next
  <2>1. WorkedOn'
    BY <1>3, WorkOfJob, WorkOfRequest, RequestKinds DEF Next, Tick, Press, Ask
  <2>2. QED BY <1>1, <2>1 DEF WorkInv
<1>4. QED BY <1>2, <1>3

(* Builds in earnest and waiting requests account for every launch that is *)
(* under way.                                                              *)
THEOREM WorkCorrect == Spec => []WorkInv
<1>1. QED BY WorkInit, WorkNext, PTL DEF Spec

(* A launch that is pending or provisioning has a build or a request at    *)
(* work, but for the two exceptions of the code: ProvisionWebinoSiteJob.php*)
(* and SiteProvisionController.php.                                        *)
THEOREM LaunchesAreWorkedOn == Spec => []InProgressIsWorkedOn
<1>1. WorkInv => InProgressIsWorkedOn
  BY DEF WorkInv, WorkedOn, Earnest, InProgressIsWorkedOn, UnderWay
<1>2. QED BY <1>1, WorkCorrect, PTL

-----------------------------------------------------------------------------
(* A ready site has a tenant                                               *)

(* What a request found before it makes the row ready still holds when it  *)
(* does, and nobody has yet to take down the stack of a ready row, unless  *)
(* the two overlapped.                                                     *)
FoundReady ==
  \A r \in Requests : At(r, "ready") /\ req[r].kind # "renew" => tenant \/ hasty

NotTakenDown ==
  \A r \in Requests : At(r, "destroy") /\ status = "ready" => hasty

ReadyInv == WorkInv /\ FoundReady /\ NotTakenDown /\ ReadyIsBootstrapped

LEMMA ReadyInit == Init => ReadyInv
BY WorkInit DEF Init, ReadyInv, FoundReady, NotTakenDown, ReadyIsBootstrapped, At, Idle

(* A build takes no tenant away and makes no row ready.                    *)
LEMMA ReadyOfJob ==
  ASSUME ReadyInv, NEW j \in Jobs, Work(j) \/ Die(j)
  PROVE  FoundReady' /\ NotTakenDown' /\ ReadyIsBootstrapped'
<1>1. req' = req /\ hasty' = hasty
  BY DEF Work, Die, Stops, Caught, JobStart, Claim, Build, Up, Probe, Call, Done, Ssl, Save,
         Fail, Goes, panel, past
<1>2. tenant => tenant'
  BY DEF Work, Die, Stops, Caught, JobStart, Claim, Build, Up, Probe, Call, Done, Ssl, Save,
         Fail, Goes, site
<1>3. status' = "ready" => status = "ready"
  BY DEF Work, Die, Stops, Caught, JobStart, Claim, Build, Up, Probe, Call, Done, Ssl, Save,
         Fail, Goes, row, Saved
<1>4. QED
  BY <1>1, <1>2, <1>3 DEF ReadyInv, FoundReady, NotTakenDown, ReadyIsBootstrapped, At

(* Only a site that was called lets a request make the row ready, and only *)
(* a cancelled row lets it take down the stack.                            *)
LEMMA ComesTo ==
  ASSUME TypeOK, NEW r \in Requests, Serve(r) \/ Lose(r) \/ (\E kind \in Kinds : Open(r, kind))
  PROVE  /\ req'[r].at = "ready" => CallSite(r) /\ To(r, "ready")
         /\ req'[r].at = "destroy" => WriteCancelled(r)
<1> SUFFICES ASSUME req'[r].at \in {"ready", "destroy"}
             PROVE  \/ CallSite(r) /\ To(r, "ready")
                    \/ WriteCancelled(r) /\ To(r, "destroy")
  BY DEF To, TypeOK, Request
<1>1. Idle.at = "idle"
  BY DEF Idle
<1>2. ASSUME NEW seen, Show(r, seen) PROVE FALSE
  BY <1>1, <1>2 DEF Show
<1>3. ASSUME NEW seen, Reply(r, seen) PROVE FALSE
  BY <1>1, <1>3 DEF Reply, TypeOK, Request
<1>4. ~Refuse(r) /\ req' # [req EXCEPT ![r] = Idle]
  BY <1>1 DEF Refuse, TypeOK
<1>5. ASSUME NEW stage \in {"write", "call", "enqueue"}, To(r, stage) PROVE FALSE
  BY <1>5 DEF To, TypeOK, Request
<1>6. ASSUME NEW stage \in {"write", "call"}, req' = [req EXCEPT ![r].at = stage, ![r].seen = status]
      PROVE  FALSE
  BY <1>6 DEF TypeOK, Request
<1>7. ~ \E kind \in Kinds : Open(r, kind)
  BY DEF Open, TypeOK
<1>8. ~Arrive(r)
  BY <1>3, <1>4, <1>5, <1>6 DEF Arrive
<1>9. ~WritePending(r)
  BY <1>5 DEF WritePending
<1>10. ~Enqueue(r) /\ ~Destroy(r) /\ ~WriteReady(r)
  BY <1>3, <1>4 DEF Enqueue, Destroy, WriteReady
<1>11. ~Answer(r) /\ ~Lose(r)
  BY <1>2, <1>4 DEF Answer, Lose
<1>12. CASE WriteCancelled(r)
  BY <1>12 DEF WriteCancelled
<1>13. CASE CallSite(r)
  BY <1>3, <1>13 DEF CallSite
<1>14. QED BY <1>7, <1>8, <1>9, <1>10, <1>11, <1>12, <1>13 DEF Serve

LEMMA ReadyOfRequest ==
  ASSUME ReadyInv, NEW r \in Requests, Serve(r) \/ Lose(r) \/ (\E kind \in Kinds : Open(r, kind))
  PROVE  FoundReady' /\ NotTakenDown' /\ ReadyIsBootstrapped'
<1>0. TypeOK /\ RelaunchesTheIdle
  BY DEF ReadyInv, WorkInv
<1>1. hasty => hasty'
  BY DEF Serve, Lose, Open, Arrive, WritePending, Enqueue, WriteCancelled, Destroy, CallSite,
         WriteReady, Answer, builds, past
<1>2. ASSUME NEW q \in Requests, q # r
      PROVE  req'[q].at = req[q].at /\ req'[q].kind = req[q].kind
  BY <1>0, <1>2, RequestFrame
<1>3. CASE Destroy(r)
  <2>1. status' = status
    BY <1>3 DEF Destroy, row
  <2>2. tenant' = tenant \/ ((\E q \in Requests : At(q, "ready")) => hasty')
    BY <1>3 DEF Destroy, site
  <2>3. ~At(r, "ready")' /\ ~At(r, "destroy")'
    BY <1>0, <1>3, ComesTo DEF Destroy, CallSite, WriteCancelled, At
  <2>4. FoundReady'
    <3>1. ASSUME NEW q \in Requests, At(q, "ready")', req'[q].kind # "renew"
          PROVE  tenant' \/ hasty'
      <4>1. At(q, "ready") /\ req[q].kind # "renew"
        BY <1>2, <2>3, <3>1 DEF At
      <4>2. tenant \/ hasty
        BY <4>1 DEF ReadyInv, FoundReady
      <4>3. QED BY <1>1, <2>2, <4>1, <4>2
    <3>2. QED BY <3>1 DEF FoundReady, At
  <2>5. NotTakenDown'
    BY <1>1, <1>2, <2>1, <2>3 DEF ReadyInv, NotTakenDown, At
  <2>6. ReadyIsBootstrapped'
    BY <1>1, <1>3, <2>1, <2>2 DEF ReadyInv, NotTakenDown, ReadyIsBootstrapped, Destroy
  <2>7. QED BY <2>4, <2>5, <2>6
<1>4. CASE ~Destroy(r)
  <2>1. tenant => tenant'
    BY <1>4 DEF Serve, Lose, Open, Arrive, WritePending, Enqueue, WriteCancelled, CallSite,
                WriteReady, Answer, builds, site
  <2>2. FoundReady'
    <3>1. ASSUME At(r, "ready")', req'[r].kind # "renew" PROVE tenant'
      <4>1. CallSite(r) /\ To(r, "ready")
        BY <1>0, <3>1, ComesTo DEF At
      <4>2. req[r].kind # "renew"
        BY <1>0, <3>1, <4>1 DEF To, TypeOK, Request
      <4>3. ~Reply(r, status)
        BY <1>0, <3>1, ReplyEnds DEF At
      <4>4. QED BY <4>1, <4>2, <4>3 DEF CallSite
    <3>2. ASSUME NEW q \in Requests, q # r, At(q, "ready")', req'[q].kind # "renew"
          PROVE  tenant' \/ hasty'
      <4>1. At(q, "ready") /\ req[q].kind # "renew"
        BY <1>2, <3>2 DEF At
      <4>2. tenant \/ hasty
        BY <4>1 DEF ReadyInv, FoundReady
      <4>3. QED BY <1>1, <2>1, <4>2
    <3>3. QED BY <3>1, <3>2 DEF FoundReady, At
  <2>3. CASE WriteReady(r)
    <3>1. ~At(r, "destroy")'
      BY <1>0, <2>3, ComesTo DEF WriteReady, WriteCancelled, At
    <3>2. CASE status' = status
      BY <1>1, <1>2, <2>1, <2>2, <3>1, <3>2
      DEF ReadyInv, NotTakenDown, ReadyIsBootstrapped, At
    <3>3. CASE status' # status
      <4>1. req[r].kind = "renew" => hasty'
        BY <2>3, <3>3 DEF WriteReady
      <4>2. (\E q \in Requests : At(q, "destroy")) => hasty'
        BY <2>3, <3>3 DEF WriteReady
      <4>3. NotTakenDown'
        BY <1>2, <3>1, <4>2 DEF NotTakenDown, At
      <4>4. ReadyIsBootstrapped'
        BY <1>1, <2>1, <2>3, <4>1 DEF ReadyInv, FoundReady, ReadyIsBootstrapped, WriteReady
      <4>5. QED BY <2>2, <4>3, <4>4
    <3>4. QED BY <3>2, <3>3
  <2>4. CASE ~WriteReady(r)
    <3>1. status' = "ready" => status = "ready"
      BY <1>0, <1>4, <2>4
      DEF Serve, Lose, Open, Arrive, WritePending, Enqueue, WriteCancelled, CallSite, Answer,
          builds, row, RelaunchesTheIdle, At
    <3>2. At(r, "destroy")' => status' # "ready"
      BY <1>0, ComesTo DEF WriteCancelled, At
    <3>3. NotTakenDown'
      BY <1>1, <1>2, <3>1, <3>2 DEF ReadyInv, NotTakenDown, At
    <3>4. ReadyIsBootstrapped'
      BY <1>1, <2>1, <3>1 DEF ReadyInv, ReadyIsBootstrapped
    <3>5. QED BY <2>2, <3>3, <3>4
  <2>5. QED BY <2>3, <2>4
<1>5. QED BY <1>3, <1>4

LEMMA ReadyNext == ReadyInv /\ [Next]_vars => ReadyInv'
<1> SUFFICES ASSUME ReadyInv, [Next]_vars PROVE ReadyInv'
  OBVIOUS
<1>1. WorkInv'
  BY WorkNext DEF ReadyInv
<1>2. CASE UNCHANGED vars
  BY <1>1, <1>2 DEF ReadyInv, FoundReady, NotTakenDown, ReadyIsBootstrapped, At, vars
<1>3. CASE Next
  <2>1. FoundReady' /\ NotTakenDown' /\ ReadyIsBootstrapped'
    BY <1>3, ReadyOfJob, ReadyOfRequest, RequestKinds DEF Next, Tick, Press, Ask
  <2>2. QED BY <1>1, <2>1 DEF ReadyInv
<1>4. QED BY <1>2, <1>3

(* A row that is ready stands for a site with a tenant, however builds,    *)
(* polls, cancellations and renewals interleave, but for the two overlaps  *)
(* that hasty names: SiteProvisionOrchestrator.php.                        *)
THEOREM ReadyHasTenant == Spec => []ReadyIsBootstrapped
<1>1. ReadyInv => ReadyIsBootstrapped
  BY DEF ReadyInv
<1>2. QED BY <1>1, ReadyInit, ReadyNext, PTL DEF Spec
=============================================================================
