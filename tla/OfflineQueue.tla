---------------------------- MODULE OfflineQueue ----------------------------
(***************************************************************************)
(* The offline work of the planning page.  A browser keeps the operations  *)
(* of its user in localStorage (local), mirrors them to IndexedDB (idb)    *)
(* without waiting for the write, and posts the whole queue to the server  *)
(* when the network is back.  All tabs of the browser share the two stores *)
(* and run the same code (features/expansion/offline-queue.ts,             *)
(* PwaRegistrar.tsx, PlanningPage.tsx); the server applies the operations  *)
(* of a request one by one (PmPlanningController::offline).                *)
(*                                                                         *)
(* An operation is its client id; what it does to a task is the counter    *)
(* applied[op], how often the server carried it out.                       *)
(***************************************************************************)
EXTENDS Naturals, Sequences

CONSTANTS
  Tabs,         \* windows of one browser, all of one user
  NoTab,        \* the window of a request whose window was closed
  Ops,          \* client ids: each names one operation the user may queue
  Shifts,       \* the operations that move an existing task (shift_task)
  Flushes,      \* requests that may be under way at the same time
  MaxFailures,  \* bound: requests and responses lost, and workers that die
  MaxMirrors    \* bound: writes of one tab on their way to IndexedDB

ASSUME OfflineAssumption ==
  /\ NoTab \notin Tabs /\ Shifts \subseteq Ops
  /\ MaxFailures \in Nat /\ MaxMirrors \in Nat

VARIABLES
  online,     \* navigator.onLine
  tab,        \* per tab: "closed", "reading" IndexedDB, "started" or "open"
  local,      \* localStorage 'webino.offline.ops'
  idb,        \* IndexedDB 'webino-offline', key 'queue'
  mirrors,    \* per tab: queues on their way to IndexedDB, oldest first
  flight,     \* per request: its tab, the operations left and where it is
  applied,    \* per operation: how often its effect was carried out
  recorded,   \* operations with a row in prj_offline_ops
  gone,       \* shifts whose task was deleted
  failures,
  enqueued,   \* history: what the user queued
  atRisk,     \* history: queued while a request or a restore was under way, or
              \*          left in IndexedDB only
  overlapped, \* history: carried by two requests at the server at once
  torn        \* history: carried out by a worker that died before recording it

vars == <<online, tab, local, idb, mirrors, flight, applied,
          recorded, gone, failures, enqueued, atRisk,
          overlapped, torn>>
stores  == <<local, idb, mirrors>>
server  == <<applied, recorded, gone>>
history == <<enqueued, atRisk, overlapped, torn>>

-----------------------------------------------------------------------------
Elements(s) == {s[i] : i \in DOMAIN s}

\* A request is nowhere, at the server (answered once no operation is left), or
\* at the server between the effect of its next operation and the row.
Places == {"idle", "server", "applied"}
Idle   == [tab |-> NoTab, rest |-> <<>>, at |-> "idle"]

Carries(f, op) == op \in Elements(flight[f].rest)
Current(f)     == Head(flight[f].rest)
Answered(f)    == flight[f].at = "server" /\ flight[f].rest = <<>>

\* A write to the queue may be undone: a response or a restore will replace it.
Exposed == \/ \E f \in Flushes : flight[f].at # "idle"
           \/ \E t \in Tabs : tab[t] = "reading"

\* One window mounts PwaRegistrar after an earlier session, which left at most
\* one operation in each store: localStorage may have been emptied since, the
\* last mirror may not have reached IndexedDB, the last answer may be lost.
\* restoreOfflineOps reads IndexedDB only if localStorage is empty.
Left == {<<>>} \cup {<<op>> : op \in Ops}

Init ==
  /\ online \in BOOLEAN
  /\ local \in Left /\ idb \in Left /\ mirrors = [t \in Tabs |-> <<>>]
  /\ tab = [t \in Tabs |-> IF local = <<>> THEN "reading" ELSE "started"]
  /\ enqueued = Elements(local) \cup Elements(idb)
  /\ recorded \in SUBSET enqueued
  /\ atRisk = Elements(idb) \ Elements(local)
  /\ applied = [op \in Ops |-> IF op \in recorded THEN 1 ELSE 0]
  /\ flight = [f \in Flushes |-> Idle]
  /\ gone = {} /\ failures = 0 /\ overlapped = {} /\ torn = {}

-----------------------------------------------------------------------------
(* The browser.                                                            *)

\* setItem and the mirror it starts.
Store(t, rows) ==
  /\ Len(mirrors[t]) < MaxMirrors
  /\ local' = rows
  /\ mirrors' = [mirrors EXCEPT ![t] = Append(@, rows)]

\* enqueueOfflineOp.
Enqueue(t, op) ==
  /\ tab[t] # "closed" /\ op \notin enqueued
  /\ Store(t, Append(local, op))
  /\ enqueued' = enqueued \cup {op}
  /\ atRisk' = IF Exposed THEN atRisk \cup {op} ELSE atRisk
  /\ UNCHANGED <<online, tab, idb, flight, server, failures, overlapped, torn>>

\* moveTask queues a shift only while offline; online it is sent at once.
MoveTask(t, op) == op \in Shifts /\ ~online /\ Enqueue(t, op)

\* The form for a new task queues it at any time.
QueueTask(t, op) == op \notin Shifts /\ Enqueue(t, op)

\* The transaction of mirrorIndexedDb commits.  Tabs are processes of their
\* own: only the writes of one tab keep their order.
Mirror(t) ==
  /\ mirrors[t] # <<>>
  /\ idb' = Head(mirrors[t])
  /\ mirrors' = [mirrors EXCEPT ![t] = Tail(@)]
  /\ UNCHANGED <<online, tab, local, flight, server, failures, history>>

\* offlineOps(ops) is posted with the queue as it is now; without a network it
\* fails at once, and nothing changes.
Send(t, f) ==
  /\ online /\ flight[f].at = "idle"
  /\ flight' = [flight EXCEPT ![f] =
                  [tab |-> t, rest |-> local, at |-> "server"]]
  /\ overlapped' = overlapped \cup
       {op \in Elements(local) : \E g \in Flushes : Carries(g, op)}

\* flush of PwaRegistrar: an 'online' event, or the 'webino-flush' message that
\* sw.js posts for its sync event.
Flush(t, f) ==
  /\ tab[t] # "closed" /\ local # <<>>
  /\ Send(t, f)
  /\ UNCHANGED <<online, tab, stores, server, failures, enqueued, atRisk, torn>>

\* flush of PlanningPage: its button.
FlushByHand(t, f) == online /\ Flush(t, f)

\* IndexedDB answers; what it held replaces localStorage, unless it was empty.
Restore(t) ==
  /\ tab[t] = "reading"
  /\ tab' = [tab EXCEPT ![t] = "started"]
  /\ local' = IF idb # <<>> THEN idb ELSE local
  /\ UNCHANGED <<online, idb, mirrors, flight, server, failures, history>>

\* After the restore: flush if online.
Startup(t) ==
  /\ tab[t] = "started"
  /\ tab' = [tab EXCEPT ![t] = "open"]
  /\ IF online /\ local # <<>> THEN \E f \in Flushes : Send(t, f)
                               ELSE UNCHANGED <<flight, overlapped>>
  /\ UNCHANGED <<online, stores, server, failures, enqueued, atRisk, torn>>

\* A tab is closed: mirrors not handed over yet are lost, and so are the
\* answers to its requests.
Close(t) ==
  /\ tab[t] # "closed"
  /\ tab' = [tab EXCEPT ![t] = "closed"]
  /\ mirrors' \in {mirrors, [mirrors EXCEPT ![t] = <<>>]}
  /\ flight' = [f \in Flushes |-> IF flight[f].tab = t
                                  THEN [flight[f] EXCEPT !.tab = NoTab]
                                  ELSE flight[f]]
  /\ UNCHANGED <<online, local, idb, server, failures, history>>

\* The request succeeded: replaceOfflineOps([]), whatever the queue holds now.
Acknowledge(f) ==
  /\ Answered(f) /\ flight[f].tab \in Tabs
  /\ Store(flight[f].tab, <<>>)
  /\ flight' = [flight EXCEPT ![f] = Idle]
  /\ UNCHANGED <<online, tab, idb, server, failures, history>>

\* Nobody waits for the answer.
Discard(f) ==
  /\ Answered(f) /\ flight[f].tab = NoTab
  /\ flight' = [flight EXCEPT ![f] = Idle]
  /\ UNCHANGED <<online, tab, stores, server, failures, history>>

-----------------------------------------------------------------------------
(* The service worker and the network.                                     *)

GoOffline ==
  /\ online /\ online' = FALSE
  /\ UNCHANGED <<tab, stores, flight, server, failures, history>>

ComeOnline ==
  /\ ~online /\ online' = TRUE
  /\ UNCHANGED <<tab, stores, flight, server, failures, history>>

\* Mutant of Lose: the queue is emptied whether the request succeeded or not.
LoseAndClear(f) ==
  /\ flight[f].at # "idle" /\ failures < MaxFailures
  /\ failures' = failures + 1
  /\ flight' = [flight EXCEPT ![f] = Idle]
  /\ torn' = IF flight[f].at = "applied" THEN torn \cup {Current(f)} ELSE torn
  /\ local' = <<>>
  /\ UNCHANGED <<online, tab, idb, mirrors, server, enqueued, atRisk, overlapped>>

\* A request or its answer is lost, or the worker that serves it dies.  The
\* catch of flush keeps the queue.
Lose(f) ==
  /\ flight[f].at # "idle" /\ failures < MaxFailures
  /\ failures' = failures + 1
  /\ flight' = [flight EXCEPT ![f] = Idle]
  /\ torn' = IF flight[f].at = "applied" THEN torn \cup {Current(f)} ELSE torn
  /\ UNCHANGED <<online, tab, stores, server, enqueued, atRisk, overlapped>>

-----------------------------------------------------------------------------
(* The server: PmPlanningController::offline, without a transaction.       *)

\* Mutant of Replay: an operation that has a row fails the request.
ReplayFails(f) ==
  /\ flight[f].at = "server" /\ flight[f].rest # <<>>
  /\ Current(f) \in recorded
  /\ flight' = [flight EXCEPT ![f] = Idle]
  /\ UNCHANGED <<online, tab, stores, server, failures, history>>

\* An operation that has a row is answered from the row.
Replay(f) ==
  /\ flight[f].at = "server" /\ flight[f].rest # <<>>
  /\ Current(f) \in recorded
  /\ flight' = [flight EXCEPT ![f].rest = Tail(@)]
  /\ UNCHANGED <<online, tab, stores, server, failures, history>>

\* Mutants of ApplyOp: the row is not looked up first; a deleted task is ignored.
ApplyUnasked(f) ==
  /\ flight[f].at = "server" /\ flight[f].rest # <<>>
  /\ flight' = [flight EXCEPT ![f].at = "applied"]
  /\ applied' = [applied EXCEPT ![Current(f)] = @ + 1]
  /\ UNCHANGED <<online, tab, stores, recorded, gone, failures, history>>

ApplyIfThere(f) ==
  /\ flight[f].at = "server" /\ flight[f].rest # <<>>
  /\ Current(f) \notin recorded
  /\ flight' = [flight EXCEPT ![f].at = "applied"]
  /\ applied' = IF Current(f) \in gone THEN applied
                ELSE [applied EXCEPT ![Current(f)] = @ + 1]
  /\ UNCHANGED <<online, tab, stores, recorded, gone, failures, history>>

\* applyOp: the effect, or a 404 that fails the whole request.
ApplyOp(f) ==
  /\ flight[f].at = "server" /\ flight[f].rest # <<>>
  /\ Current(f) \notin recorded
  /\ IF Current(f) \in gone
     THEN /\ flight' = [flight EXCEPT ![f] = Idle]
          /\ UNCHANGED applied
     ELSE /\ flight' = [flight EXCEPT ![f].at = "applied"]
          /\ applied' = [applied EXCEPT ![Current(f)] = @ + 1]
  /\ UNCHANGED <<online, tab, stores, recorded, gone, failures, history>>

\* Mutant of Record: the row of an operation does not end it.
RecordAgain(f) ==
  /\ flight[f].at = "applied"
  /\ flight' = [flight EXCEPT ![f].rest = Tail(@)]
  /\ recorded' = recorded \cup {Current(f)}
  /\ UNCHANGED <<online, tab, stores, applied, gone, failures, history>>

\* OfflineOp::create: the row, or a violation of its unique key.
Record(f) ==
  /\ flight[f].at = "applied"
  /\ IF Current(f) \in recorded
     THEN /\ flight' = [flight EXCEPT ![f] = Idle]
          /\ UNCHANGED recorded
     ELSE /\ flight' = [flight EXCEPT ![f].at = "server", ![f].rest = Tail(@)]
          /\ recorded' = recorded \cup {Current(f)}
  /\ UNCHANGED <<online, tab, stores, applied, gone, failures, history>>

\* Someone deletes the task of a shift.
DeleteTask(op) ==
  /\ op \in (Shifts \cap enqueued) \ gone
  /\ gone' = gone \cup {op}
  /\ UNCHANGED <<online, tab, stores, flight, applied, recorded,
                 failures, history>>

-----------------------------------------------------------------------------
Request(f) == Replay(f) \/ ApplyOp(f) \/ Record(f) \/ Acknowledge(f) \/ Discard(f)

Next ==
  \/ \E t \in Tabs :
       \/ \E op \in Ops : MoveTask(t, op) \/ QueueTask(t, op)
       \/ \E f \in Flushes : Flush(t, f) \/ FlushByHand(t, f)
       \/ Mirror(t) \/ Restore(t) \/ Startup(t) \/ Close(t)
  \/ \E f \in Flushes :
       \/ Replay(f) \/ ApplyOp(f) \/ Record(f)
       \/ Acknowledge(f) \/ Discard(f) \/ Lose(f)
  \/ GoOffline \/ ComeOnline
  \/ \E op \in Ops : DeleteTask(op)

Spec == Init /\ [][Next]_vars

\* IndexedDB answers, a request is served and its answer handled; the network
\* comes back, and with it flushes are tried again and again: no timer of the
\* code does that, an 'online' event, a sync event or the user does.
FairSpec ==
  /\ Spec
  /\ WF_vars(ComeOnline)
  /\ \A t \in Tabs : WF_vars(Mirror(t)) /\ WF_vars(Restore(t)) /\ WF_vars(Startup(t))
  /\ \A f \in Flushes : WF_vars(Request(f))
  /\ SF_vars(\E t \in Tabs, f \in Flushes : Flush(t, f))

-----------------------------------------------------------------------------
TypeOK ==
  /\ online \in BOOLEAN
  /\ tab \in [Tabs -> {"closed", "reading", "started", "open"}]
  /\ local \in Seq(Ops) /\ idb \in Seq(Ops)
  /\ mirrors \in [Tabs -> Seq(Seq(Ops))]
  /\ flight \in [Flushes -> [tab : Tabs \cup {NoTab}, rest : Seq(Ops), at : Places]]
  /\ \A f \in Flushes : flight[f].at = "applied" => flight[f].rest # <<>>
  /\ applied \in [Ops -> Nat]
  /\ recorded \subseteq Ops /\ gone \subseteq Shifts
  /\ failures \in 0..MaxFailures
  /\ enqueued \subseteq Ops /\ atRisk \subseteq Ops
  /\ overlapped \subseteq Ops /\ torn \subseteq Ops

\* Nothing the user queued is forgotten: it is in localStorage or the server
\* has its row, unless it was queued while a request or a restore was under
\* way (whose end replaces the queue) or an earlier session left it in IndexedDB.
\* offline-queue.ts:36-39, PwaRegistrar.tsx:12-21, PlanningPage.tsx:79-90.
NothingForgotten ==
  \A op \in enqueued : op \in Elements(local) \cup recorded \cup atRisk

\* An operation is carried out twice only when two requests carried it at the
\* same time, or a worker died between the effect and the row: no retry after
\* a lost answer and no copy that IndexedDB brings back repeats it.
\* PmPlanningController.php:291-306.
RepeatedOnlyByOverlap ==
  \A op \in Ops : applied[op] > 1 => op \in overlapped \cup torn

\* A row is never recorded for an operation that was not carried out, and only
\* operations of the user are.
RecordedWasApplied ==
  \A op \in Ops : /\ op \in recorded => applied[op] > 0
                  /\ applied[op] > 0 => op \in enqueued

\* What was queued is recorded in the end, unless it was put at risk, a deleted
\* task blocks the queue or no window is left to send it.
EventuallyRecorded ==
  \A op \in Ops :
    op \in enqueued ~> \/ op \in recorded \cup atRisk
                       \/ gone # {}
                       \/ \A t \in Tabs : tab[t] = "closed"
=============================================================================
