-------------------------- MODULE OfflineQueueProofs --------------------------
(***************************************************************************)
(* What holds of the offline queue for every number of windows, requests,  *)
(* operations and failures: nothing is forgotten, and an effect is         *)
(* repeated only by an overlap or by a worker that died.                   *)
(***************************************************************************)
EXTENDS OfflineQueue, TLAPS

-----------------------------------------------------------------------------
(* The elements of a sequence                                              *)

LEMMA ElementsEmpty == Elements(<<>>) = {}
BY DEF Elements

LEMMA ElementsAppend ==
  ASSUME NEW S, NEW s \in Seq(S), NEW x \in S
  PROVE  Append(s, x) \in Seq(S) /\ Elements(Append(s, x)) = Elements(s) \cup {x}
<1>1. Append(s, x) \in Seq(S) /\ Len(Append(s, x)) = Len(s) + 1
  OBVIOUS
<1>2. \A i \in 1..Len(s) : Append(s, x)[i] = s[i]
  OBVIOUS
<1>3. Append(s, x)[Len(s) + 1] = x
  OBVIOUS
<1>4. Len(s) \in Nat /\ DOMAIN s = 1..Len(s) /\ DOMAIN Append(s, x) = 1..(Len(s) + 1)
  BY <1>1
<1>5. 1..(Len(s) + 1) = (1..Len(s)) \cup {Len(s) + 1}
  BY <1>4
<1>6. QED BY <1>1, <1>2, <1>3, <1>4, <1>5 DEF Elements

LEMMA ElementsHeadTail ==
  ASSUME NEW S, NEW s \in Seq(S), s # <<>>
  PROVE  /\ Head(s) \in S /\ Tail(s) \in Seq(S)
         /\ Elements(s) = {Head(s)} \cup Elements(Tail(s))
<1>1. Head(s) \in S /\ Tail(s) \in Seq(S) /\ Len(Tail(s)) = Len(s) - 1 /\ Len(s) \in Nat \ {0}
  OBVIOUS
<1>2. Head(s) = s[1] /\ \A i \in 1..(Len(s) - 1) : Tail(s)[i] = s[i + 1]
  OBVIOUS
<1>3. DOMAIN s = 1..Len(s) /\ DOMAIN Tail(s) = 1..(Len(s) - 1)
  BY <1>1
<1>4. ASSUME NEW i \in 1..Len(s) PROVE s[i] \in {Head(s)} \cup Elements(Tail(s))
  <2>1. CASE i = 1
    BY <1>2, <2>1
  <2>2. CASE i # 1
    <3>1. i - 1 \in 1..(Len(s) - 1) /\ Tail(s)[i - 1] = s[i]
      BY <1>1, <1>2, <2>2
    <3>2. QED BY <1>3, <3>1 DEF Elements
  <2>3. QED BY <2>1, <2>2
<1>5. ASSUME NEW i \in 1..(Len(s) - 1) PROVE Tail(s)[i] \in Elements(s)
  <2>1. i + 1 \in 1..Len(s)
    BY <1>1
  <2>2. QED BY <1>2, <1>3, <2>1 DEF Elements
<1>6. Head(s) \in Elements(s)
  <2>1. 1 \in 1..Len(s)
    BY <1>1
  <2>2. QED BY <1>2, <1>3, <2>1 DEF Elements
<1>7. Elements(s) \subseteq {Head(s)} \cup Elements(Tail(s))
  BY <1>3, <1>4 DEF Elements
<1>8. Elements(Tail(s)) \subseteq Elements(s)
  BY <1>3, <1>5 DEF Elements
<1>9. QED BY <1>1, <1>6, <1>7, <1>8

LEMMA ElementsIn ==
  ASSUME NEW S, NEW s \in Seq(S)
  PROVE  Elements(s) \subseteq S
BY DEF Elements

LEMMA ElementsOne ==
  ASSUME NEW x
  PROVE  Elements(<<x>>) = {x}
<1>1. DOMAIN <<x>> = {1} /\ <<x>>[1] = x
  OBVIOUS
<1>2. QED BY <1>1 DEF Elements

-----------------------------------------------------------------------------
(* Types *)

Flight == [tab : Tabs \cup {NoTab}, rest : Seq(Ops), at : Places]

LEMMA IdleTyped ==
  Idle \in Flight /\ Idle.at = "idle" /\ Idle.rest = <<>> /\ Idle.tab = NoTab
BY DEF Idle, Flight, Places

LEMMA InitTyped == Init => TypeOK
<1> SUFFICES ASSUME Init PROVE TypeOK
  OBVIOUS
<1>1. ASSUME NEW s \in Left PROVE s \in Seq(Ops) /\ Elements(s) \subseteq Ops
  <2>1. CASE s = <<>>
    BY <2>1, ElementsEmpty
  <2>2. ASSUME NEW op \in Ops, s = <<op>> PROVE s \in Seq(Ops) /\ Elements(s) \subseteq Ops
    BY <2>2, ElementsOne
  <2>3. QED BY <2>1, <2>2 DEF Left
<1>2. local \in Seq(Ops) /\ idb \in Seq(Ops) /\ enqueued \subseteq Ops /\ atRisk \subseteq Ops
  BY <1>1 DEF Init
<1>3. recorded \subseteq Ops
  BY <1>2 DEF Init
<1>4. mirrors \in [Tabs -> Seq(Seq(Ops))]
  BY DEF Init
<1>5. /\ flight \in [Flushes -> Flight]
      /\ \A f \in Flushes : flight[f].at = "applied" => flight[f].rest # <<>>
  BY IdleTyped DEF Init
<1>6. applied \in [Ops -> Nat]
  BY DEF Init
<1>7. failures \in 0..MaxFailures
  BY OfflineAssumption DEF Init
<1>8. tab \in [Tabs -> {"closed", "reading", "started", "open"}]
  BY DEF Init
<1>9. QED BY <1>2, <1>3, <1>4, <1>5, <1>6, <1>7, <1>8 DEF Init, TypeOK, Flight

(* The flights and, where they change with them, what is carried.          *)
FlightsTyped ==
  /\ flight \in [Flushes -> Flight]
  /\ \A f \in Flushes : flight[f].at = "applied" => flight[f].rest # <<>>

LEMMA TypedFlights == TypeOK => FlightsTyped
BY DEF TypeOK, FlightsTyped, Flight

LEMMA EndTyped ==
  ASSUME TypeOK, NEW f \in Flushes, flight' = [flight EXCEPT ![f] = Idle]
  PROVE  FlightsTyped' /\ flight'[f] = Idle /\ \A g \in Flushes \ {f} : flight'[g] = flight[g]
BY TypedFlights, IdleTyped DEF FlightsTyped

LEMMA SendTyped ==
  ASSUME TypeOK, NEW t \in Tabs, NEW f \in Flushes, Send(t, f)
  PROVE  /\ FlightsTyped' /\ overlapped' \subseteq Ops
         /\ flight'[f].rest = local /\ flight'[f].at = "server"
         /\ \A g \in Flushes \ {f} : flight'[g] = flight[g]
<1>1. [tab |-> t, rest |-> local, at |-> "server"] \in Flight
  BY DEF TypeOK, Flight, Places
<1>2. Elements(local) \subseteq Ops
  BY ElementsIn DEF TypeOK
<1>3. overlapped' \subseteq Ops
  BY <1>2 DEF Send, TypeOK
<1>4. QED BY <1>1, <1>3, TypedFlights DEF Send, FlightsTyped

LEMMA StoreTyped ==
  ASSUME TypeOK, NEW t \in Tabs, NEW rows \in Seq(Ops), Store(t, rows)
  PROVE  local' \in Seq(Ops) /\ mirrors' \in [Tabs -> Seq(Seq(Ops))]
BY DEF TypeOK, Store

LEMMA EnqueueTyped ==
  ASSUME TypeOK, NEW t \in Tabs, NEW op \in Ops, Enqueue(t, op)
  PROVE  TypeOK'
<1>1. Append(local, op) \in Seq(Ops)
  BY DEF TypeOK
<1>2. local' \in Seq(Ops) /\ mirrors' \in [Tabs -> Seq(Seq(Ops))]
  BY <1>1, StoreTyped DEF Enqueue
<1>3. enqueued' \subseteq Ops /\ atRisk' \subseteq Ops
  BY DEF TypeOK, Enqueue
<1>4. QED BY <1>2, <1>3 DEF TypeOK, Enqueue, server

LEMMA FlushTyped ==
  ASSUME TypeOK, NEW t \in Tabs, NEW f \in Flushes, Flush(t, f)
  PROVE  TypeOK'
<1>1. FlightsTyped' /\ overlapped' \subseteq Ops
  BY SendTyped DEF Flush
<1>2. QED BY <1>1 DEF TypeOK, Flush, stores, server, FlightsTyped, Flight

LEMMA TabTyped ==
  ASSUME TypeOK, NEW t \in Tabs, Mirror(t) \/ Restore(t) \/ Startup(t) \/ Close(t)
  PROVE  TypeOK'
<1>1. CASE Mirror(t)
  <2>1. Head(mirrors[t]) \in Seq(Ops) /\ Tail(mirrors[t]) \in Seq(Seq(Ops))
    BY <1>1, ElementsHeadTail DEF TypeOK, Mirror
  <2>2. idb' \in Seq(Ops) /\ mirrors' \in [Tabs -> Seq(Seq(Ops))]
    BY <1>1, <2>1 DEF TypeOK, Mirror
  <2>3. QED BY <1>1, <2>2 DEF TypeOK, Mirror, server, history
<1>2. CASE Restore(t)
  BY <1>2 DEF TypeOK, Restore, server, history
<1>3. CASE Startup(t)
  <2>1. FlightsTyped' /\ overlapped' \subseteq Ops
    <3>1. CASE \E f \in Flushes : Send(t, f)
      BY <3>1, SendTyped
    <3>2. CASE UNCHANGED <<flight, overlapped>>
      BY <3>2, TypedFlights DEF FlightsTyped, TypeOK
    <3>3. QED BY <1>3, <3>1, <3>2 DEF Startup
  <2>2. QED BY <1>3, <2>1 DEF TypeOK, Startup, stores, server, FlightsTyped, Flight
<1>4. CASE Close(t)
  <2>1. mirrors' \in [Tabs -> Seq(Seq(Ops))]
    <3>1. <<>> \in Seq(Seq(Ops))
      OBVIOUS
    <3>2. QED BY <1>4, <3>1 DEF TypeOK, Close
  <2>2. ASSUME NEW f \in Flushes
        PROVE  /\ flight'[f] \in Flight
               /\ flight'[f].at = "applied" => flight'[f].rest # <<>>
    <3>1. flight'[f] = flight[f] \/ flight'[f] = [flight[f] EXCEPT !.tab = NoTab]
      BY <1>4 DEF Close
    <3>2. flight[f] \in Flight
      BY TypedFlights DEF FlightsTyped
    <3>3. /\ [flight[f] EXCEPT !.tab = NoTab] \in Flight
          /\ [flight[f] EXCEPT !.tab = NoTab].at = flight[f].at
          /\ [flight[f] EXCEPT !.tab = NoTab].rest = flight[f].rest
      BY <3>2 DEF Flight
    <3>4. QED BY <3>1, <3>2, <3>3, TypedFlights DEF FlightsTyped
  <2>3. flight' \in [Flushes -> Flight]
    BY <1>4, <2>2 DEF Close
  <2>4. QED BY <1>4, <2>1, <2>2, <2>3 DEF TypeOK, Close, server, history, Flight
<1>5. QED BY <1>1, <1>2, <1>3, <1>4

(* What the server has left of a request after one more operation.         *)
LEMMA RestTyped ==
  ASSUME TypeOK, NEW f \in Flushes, flight[f].rest # <<>>
  PROVE  /\ Current(f) \in Ops /\ Tail(flight[f].rest) \in Seq(Ops)
         /\ Elements(flight[f].rest) = {Current(f)} \cup Elements(Tail(flight[f].rest))
<1>1. flight[f].rest \in Seq(Ops)
  BY DEF TypeOK
<1>2. QED BY <1>1, ElementsHeadTail DEF Current

LEMMA ApplyTyped ==
  ASSUME TypeOK, NEW f \in Flushes, flight[f].rest # <<>>,
         flight' = [flight EXCEPT ![f].at = "applied"]
  PROVE  /\ FlightsTyped'
         /\ flight'[f].at = "applied" /\ flight'[f].rest = flight[f].rest
         /\ flight'[f].tab = flight[f].tab
         /\ \A g \in Flushes \ {f} : flight'[g] = flight[g]
<1>1. flight[f] \in Flight /\ flight \in [Flushes -> Flight]
  BY TypedFlights DEF FlightsTyped
<1>2. flight' = [flight EXCEPT ![f] = [flight[f] EXCEPT !.at = "applied"]]
  BY <1>1
<1>3. /\ [flight[f] EXCEPT !.at = "applied"] \in Flight
      /\ [flight[f] EXCEPT !.at = "applied"].at = "applied"
      /\ [flight[f] EXCEPT !.at = "applied"].rest = flight[f].rest
      /\ [flight[f] EXCEPT !.at = "applied"].tab = flight[f].tab
  BY <1>1 DEF Flight, Places
<1>4. QED BY <1>1, <1>2, <1>3, TypedFlights DEF FlightsTyped

LEMMA PopTyped ==
  ASSUME TypeOK, NEW f \in Flushes, flight[f].rest # <<>>,
         \/ flight' = [flight EXCEPT ![f].rest = Tail(@)] /\ flight[f].at = "server"
         \/ flight' = [flight EXCEPT ![f].at = "server", ![f].rest = Tail(@)]
  PROVE  /\ FlightsTyped'
         /\ flight'[f].at = "server" /\ flight'[f].rest = Tail(flight[f].rest)
         /\ flight'[f].tab = flight[f].tab
         /\ \A g \in Flushes \ {f} : flight'[g] = flight[g]
<1>1. flight[f] \in Flight /\ flight \in [Flushes -> Flight]
  BY TypedFlights DEF FlightsTyped
<1> DEFINE new == [flight[f] EXCEPT !.at = "server", !.rest = Tail(flight[f].rest)]
<1>2. Tail(flight[f].rest) \in Seq(Ops)
  BY RestTyped
<1>3. /\ new \in Flight /\ new.at = "server" /\ new.rest = Tail(flight[f].rest)
      /\ new.tab = flight[f].tab
  BY <1>1, <1>2 DEF Flight, Places
<1>4. flight' = [flight EXCEPT ![f] = new]
  BY <1>1 DEF Flight
<1>5. QED BY <1>1, <1>3, <1>4, TypedFlights DEF FlightsTyped

LEMMA RequestTyped ==
  ASSUME TypeOK, NEW f \in Flushes, Request(f) \/ Lose(f)
  PROVE  TypeOK'
<1>1. CASE Replay(f)
  <2>1. FlightsTyped'
    BY <1>1, PopTyped DEF Replay
  <2>2. QED BY <1>1, <2>1 DEF TypeOK, Replay, stores, server, history, FlightsTyped, Flight
<1>2. CASE ApplyOp(f)
  <2>1. Current(f) \in Ops
    BY <1>2, RestTyped DEF ApplyOp
  <2>2. CASE Current(f) \in gone
    BY <1>2, <2>2, EndTyped DEF TypeOK, ApplyOp, stores, history, FlightsTyped, Flight
  <2>3. CASE Current(f) \notin gone
    <3>1. FlightsTyped'
      BY <1>2, <2>3, ApplyTyped DEF ApplyOp
    <3>2. applied' \in [Ops -> Nat]
      BY <1>2, <2>1, <2>3 DEF TypeOK, ApplyOp
    <3>3. QED BY <1>2, <3>1, <3>2 DEF TypeOK, ApplyOp, stores, history, FlightsTyped, Flight
  <2>4. QED BY <2>2, <2>3
<1>3. CASE Record(f)
  <2>1. Current(f) \in Ops
    BY <1>3, RestTyped DEF TypeOK, Record
  <2>2. CASE Current(f) \in recorded
    BY <1>3, <2>2, EndTyped DEF TypeOK, Record, stores, history, FlightsTyped, Flight
  <2>3. CASE Current(f) \notin recorded
    <3>1. FlightsTyped'
      BY <1>3, <2>3, PopTyped DEF TypeOK, Record
    <3>2. recorded' \subseteq Ops
      BY <1>3, <2>1, <2>3 DEF TypeOK, Record
    <3>3. QED BY <1>3, <3>1, <3>2 DEF TypeOK, Record, stores, history, FlightsTyped, Flight
  <2>4. QED BY <2>2, <2>3
<1>4. CASE Acknowledge(f)
  <2>0. <<>> \in Seq(Ops)
    OBVIOUS
  <2>1. local' \in Seq(Ops) /\ mirrors' \in [Tabs -> Seq(Seq(Ops))]
    BY <1>4, <2>0, StoreTyped DEF Acknowledge
  <2>2. QED BY <1>4, <2>1, EndTyped DEF TypeOK, Acknowledge, server, history, FlightsTyped, Flight
<1>5. CASE Discard(f)
  BY <1>5, EndTyped DEF TypeOK, Discard, stores, server, history, FlightsTyped, Flight
<1>6. CASE Lose(f)
  <2>1. torn' \subseteq Ops
    BY <1>6, RestTyped DEF TypeOK, Lose
  <2>2. failures' \in 0..MaxFailures
    BY <1>6, OfflineAssumption DEF TypeOK, Lose
  <2>3. QED BY <1>6, <2>1, <2>2, EndTyped DEF TypeOK, Lose, stores, server, FlightsTyped, Flight
<1>7. QED BY <1>1, <1>2, <1>3, <1>4, <1>5, <1>6 DEF Request

LEMMA TypeNext == TypeOK /\ [Next]_vars => TypeOK'
<1> SUFFICES ASSUME TypeOK, [Next]_vars PROVE TypeOK'
  OBVIOUS
<1>1. ASSUME NEW t \in Tabs, NEW op \in Ops, MoveTask(t, op) \/ QueueTask(t, op) PROVE TypeOK'
  BY <1>1, EnqueueTyped DEF MoveTask, QueueTask
<1>2. ASSUME NEW t \in Tabs, NEW f \in Flushes, Flush(t, f) \/ FlushByHand(t, f) PROVE TypeOK'
  BY <1>2, FlushTyped DEF FlushByHand
<1>3. ASSUME NEW t \in Tabs, Mirror(t) \/ Restore(t) \/ Startup(t) \/ Close(t) PROVE TypeOK'
  BY <1>3, TabTyped
<1>4. ASSUME NEW f \in Flushes, Request(f) \/ Lose(f) PROVE TypeOK'
  BY <1>4, RequestTyped
<1>5. CASE GoOffline \/ ComeOnline
  BY <1>5 DEF TypeOK, GoOffline, ComeOnline, stores, server, history
<1>6. ASSUME NEW op \in Ops, DeleteTask(op) PROVE TypeOK'
  BY <1>6 DEF TypeOK, DeleteTask, stores, history
<1>7. CASE UNCHANGED vars
  BY <1>7 DEF TypeOK, vars
<1>8. QED BY <1>1, <1>2, <1>3, <1>4, <1>5, <1>6, <1>7 DEF Next, Request

(* The stores, the requests and the rows keep their shape:                 *)
(* offline-queue.ts, PmPlanningController.php.                             *)
THEOREM TypeCorrect == Spec => []TypeOK
<1>1. QED BY InitTyped, TypeNext, PTL DEF Spec

-----------------------------------------------------------------------------
(* What the stores and the requests hold                                   *)

(* Every copy of the queue holds operations of the user.                   *)
KnownOnly ==
  /\ Elements(local) \subseteq enqueued /\ Elements(idb) \subseteq enqueued
  /\ \A t \in Tabs : \A q \in Elements(mirrors[t]) : Elements(q) \subseteq enqueued
  /\ \A f \in Flushes : Elements(flight[f].rest) \subseteq enqueued

(* While a restore is under way, everything is at risk.                    *)
ReadingIsRisk == (\E t \in Tabs : tab[t] = "reading") => enqueued \subseteq atRisk

(* An answer may empty localStorage: what it holds was sent and has a row, *)
(* is yet to get one from the same request, or is at risk.                 *)
SentOrAtRisk ==
  \A f \in Flushes : flight[f].at # "idle" =>
    Elements(local) \subseteq Elements(flight[f].rest) \cup recorded \cup atRisk

KeptInv == TypeOK /\ KnownOnly /\ ReadingIsRisk /\ SentOrAtRisk /\ NothingForgotten

LEMMA KeptInit == Init => KeptInv
<1> SUFFICES ASSUME Init PROVE KeptInv
  OBVIOUS
<1>1. TypeOK
  BY InitTyped
<1>2. KnownOnly
  BY ElementsEmpty, IdleTyped DEF Init, KnownOnly
<1>3. ReadingIsRisk
  BY ElementsEmpty DEF Init, ReadingIsRisk
<1>4. SentOrAtRisk
  BY IdleTyped DEF Init, SentOrAtRisk
<1>5. NothingForgotten
  BY DEF Init, NothingForgotten
<1>6. QED BY <1>1, <1>2, <1>3, <1>4, <1>5 DEF KeptInv

LEMMA StoreKnown ==
  ASSUME TypeOK, KnownOnly, NEW t \in Tabs, NEW rows \in Seq(Ops), Store(t, rows),
         enqueued \subseteq enqueued', Elements(rows) \subseteq enqueued'
  PROVE  \A u \in Tabs : \A q \in Elements(mirrors'[u]) : Elements(q) \subseteq enqueued'
<1>1. ASSUME NEW u \in Tabs, u # t PROVE mirrors'[u] = mirrors[u]
  BY <1>1 DEF TypeOK, Store
<1>2. Elements(mirrors'[t]) = Elements(mirrors[t]) \cup {rows}
  <2>1. mirrors'[t] = Append(mirrors[t], rows) /\ mirrors[t] \in Seq(Seq(Ops))
    BY DEF TypeOK, Store
  <2>2. QED BY <2>1, ElementsAppend
<1>3. QED BY <1>1, <1>2 DEF KnownOnly

LEMMA KeptByEnqueue ==
  ASSUME KeptInv, NEW t \in Tabs, NEW op \in Ops, Enqueue(t, op)
  PROVE  KeptInv'
<1>1. TypeOK /\ TypeOK'
  BY EnqueueTyped DEF KeptInv
<1>2. local' = Append(local, op) /\ Elements(local') = Elements(local) \cup {op}
  BY <1>1, ElementsAppend DEF TypeOK, Enqueue, Store
<1>3. KnownOnly'
  <2>1. Elements(local') \subseteq enqueued' /\ enqueued \subseteq enqueued'
    BY <1>2 DEF KeptInv, KnownOnly, Enqueue
  <2>2. \A u \in Tabs : \A q \in Elements(mirrors'[u]) : Elements(q) \subseteq enqueued'
    BY <1>1, <1>2, <2>1, StoreKnown DEF KeptInv, TypeOK, Enqueue
  <2>3. QED BY <2>1, <2>2 DEF KeptInv, KnownOnly, Enqueue
<1>4. ReadingIsRisk'
  BY DEF KeptInv, ReadingIsRisk, Enqueue, Exposed
<1>5. SentOrAtRisk'
  BY <1>2 DEF KeptInv, SentOrAtRisk, Enqueue, Exposed, server
<1>6. NothingForgotten'
  BY <1>2 DEF KeptInv, NothingForgotten, Enqueue, server
<1>7. QED BY <1>1, <1>3, <1>4, <1>5, <1>6 DEF KeptInv

LEMMA KeptBySend ==
  ASSUME KeptInv, TypeOK', NEW t \in Tabs, NEW f \in Flushes, Send(t, f),
         UNCHANGED <<stores, server, enqueued, atRisk>>,
         \A u \in Tabs : tab'[u] = "reading" => tab[u] = "reading"
  PROVE  KeptInv'
<1>1. TypeOK
  BY DEF KeptInv
<1>2. /\ flight'[f].rest = local
      /\ \A g \in Flushes \ {f} : flight'[g] = flight[g]
  BY <1>1, SendTyped
<1>3. KnownOnly'
  BY <1>2 DEF KeptInv, KnownOnly, stores
<1>4. ReadingIsRisk'
  BY DEF KeptInv, ReadingIsRisk
<1>5. SentOrAtRisk'
  BY <1>2 DEF KeptInv, SentOrAtRisk, stores, server
<1>6. NothingForgotten'
  BY DEF KeptInv, NothingForgotten, stores, server
<1>7. QED BY <1>3, <1>4, <1>5, <1>6 DEF KeptInv

LEMMA CloseKeeps ==
  ASSUME TypeOK, NEW t \in Tabs, Close(t)
  PROVE  \A f \in Flushes : flight'[f].rest = flight[f].rest /\ flight'[f].at = flight[f].at
<1>1. \A f \in Flushes : flight'[f] = flight[f] \/ flight'[f] = [flight[f] EXCEPT !.tab = NoTab]
  BY DEF Close
<1>2. \A f \in Flushes : /\ [flight[f] EXCEPT !.tab = NoTab].at = flight[f].at
                         /\ [flight[f] EXCEPT !.tab = NoTab].rest = flight[f].rest
  BY TypedFlights DEF FlightsTyped, Flight
<1>3. QED BY <1>1, <1>2

LEMMA KeptByTab ==
  ASSUME KeptInv, NEW t \in Tabs, Mirror(t) \/ Restore(t) \/ Startup(t) \/ Close(t)
  PROVE  KeptInv'
<1>1. TypeOK /\ TypeOK'
  BY TabTyped DEF KeptInv
<1>2. CASE Mirror(t)
  <2>1. mirrors[t] \in Seq(Seq(Ops)) /\ mirrors[t] # <<>>
    BY <1>1, <1>2 DEF TypeOK, Mirror
  <2>2. Elements(mirrors[t]) = {Head(mirrors[t])} \cup Elements(Tail(mirrors[t]))
    BY <2>1, ElementsHeadTail
  <2>3. /\ mirrors'[t] = Tail(mirrors[t]) /\ idb' = Head(mirrors[t])
        /\ \A u \in Tabs \ {t} : mirrors'[u] = mirrors[u]
    BY <1>1, <1>2 DEF TypeOK, Mirror
  <2>4. Elements(idb') \subseteq enqueued
    BY <2>2, <2>3 DEF KeptInv, KnownOnly
  <2>5. \A u \in Tabs : \A q \in Elements(mirrors'[u]) : Elements(q) \subseteq enqueued
    BY <2>2, <2>3 DEF KeptInv, KnownOnly
  <2>6. KnownOnly'
    BY <1>2, <2>4, <2>5 DEF KeptInv, KnownOnly, Mirror, history
  <2>7. QED
    BY <1>1, <1>2, <2>6
    DEF KeptInv, ReadingIsRisk, SentOrAtRisk, NothingForgotten, Mirror, server, history
<1>3. CASE Restore(t)
  <2>1. enqueued \subseteq atRisk
    BY <1>3 DEF KeptInv, ReadingIsRisk, Restore
  <2>2. Elements(local') \subseteq enqueued
    BY <1>3 DEF KeptInv, KnownOnly, Restore
  <2>3. UNCHANGED <<idb, mirrors, flight, recorded, enqueued, atRisk>>
    BY <1>3 DEF Restore, server, history
  <2>4. KnownOnly'
    BY <2>2, <2>3 DEF KeptInv, KnownOnly
  <2>5. ReadingIsRisk' /\ SentOrAtRisk' /\ NothingForgotten'
    BY <2>1, <2>2, <2>3 DEF ReadingIsRisk, SentOrAtRisk, NothingForgotten
  <2>6. QED BY <1>1, <2>4, <2>5 DEF KeptInv
<1>4. CASE Startup(t)
  <2>1. \A u \in Tabs : tab'[u] = "reading" => tab[u] = "reading"
    BY <1>1, <1>4 DEF Startup, TypeOK
  <2>2. UNCHANGED <<stores, server, enqueued, atRisk>>
    BY <1>4 DEF Startup
  <2>3. CASE \E f \in Flushes : Send(t, f)
    BY <1>1, <2>1, <2>2, <2>3, KeptBySend
  <2>4. CASE UNCHANGED <<flight, overlapped>>
    BY <1>1, <2>1, <2>2, <2>4
    DEF KeptInv, KnownOnly, ReadingIsRisk, SentOrAtRisk, NothingForgotten, stores, server
  <2>5. QED BY <1>4, <2>3, <2>4 DEF Startup
<1>5. CASE Close(t)
  <2>1. \A f \in Flushes : flight'[f].rest = flight[f].rest /\ flight'[f].at = flight[f].at
    BY <1>1, <1>5, CloseKeeps
  <2>2. \A u \in Tabs : mirrors'[u] = mirrors[u] \/ Elements(mirrors'[u]) = {}
    BY <1>1, <1>5, ElementsEmpty DEF TypeOK, Close
  <2>3. \A u \in Tabs : tab'[u] = "reading" => tab[u] = "reading"
    BY <1>1, <1>5 DEF Close, TypeOK
  <2>4. UNCHANGED <<local, idb, recorded, enqueued, atRisk>>
    BY <1>5 DEF Close, server, history
  <2>5. KnownOnly'
    BY <2>1, <2>2, <2>4 DEF KeptInv, KnownOnly
  <2>6. ReadingIsRisk' /\ SentOrAtRisk' /\ NothingForgotten'
    BY <2>1, <2>3, <2>4 DEF KeptInv, ReadingIsRisk, SentOrAtRisk, NothingForgotten
  <2>7. QED BY <1>1, <2>5, <2>6 DEF KeptInv
<1>6. QED BY <1>2, <1>3, <1>4, <1>5

(* What a step of a request does to the requests: it ends, its next        *)
(* operation is carried out, or that operation is done with.               *)
LEMMA RequestSteps ==
  ASSUME TypeOK, NEW f \in Flushes, Request(f) \/ Lose(f)
  PROVE  /\ \A g \in Flushes \ {f} : flight'[g] = flight[g]
         /\ \/ flight'[f] = Idle /\ flight[f].at # "idle"
            \/ /\ ApplyOp(f) /\ flight'[f].at = "applied" /\ flight[f].at = "server"
               /\ flight'[f].rest = flight[f].rest
               /\ applied' = [applied EXCEPT ![Current(f)] = @ + 1]
               /\ Current(f) \notin recorded
            \/ /\ Replay(f) \/ Record(f)
               /\ flight'[f].at = "server" /\ flight[f].at # "idle"
               /\ flight[f].rest # <<>> /\ flight'[f].rest = Tail(flight[f].rest)
               /\ Current(f) \in recorded'
<1>1. CASE Replay(f)
  BY <1>1, PopTyped DEF Replay, server
<1>2. CASE ApplyOp(f)
  <2>1. CASE Current(f) \in gone
    BY <1>2, <2>1, EndTyped DEF ApplyOp
  <2>2. CASE Current(f) \notin gone
    BY <1>2, <2>2, ApplyTyped DEF ApplyOp
  <2>3. QED BY <2>1, <2>2
<1>3. CASE Record(f)
  <2>1. CASE Current(f) \in recorded
    BY <1>3, <2>1, EndTyped DEF Record
  <2>2. CASE Current(f) \notin recorded
    BY <1>3, <2>2, PopTyped DEF Record, TypeOK
  <2>3. QED BY <2>1, <2>2
<1>4. CASE Acknowledge(f) \/ Discard(f) \/ Lose(f)
  BY <1>4, EndTyped DEF Acknowledge, Discard, Lose, Answered
<1>5. QED BY <1>1, <1>2, <1>3, <1>4 DEF Request

LEMMA KeptByRequest ==
  ASSUME KeptInv, NEW f \in Flushes, Request(f) \/ Lose(f)
  PROVE  KeptInv'
<1>1. TypeOK /\ TypeOK'
  BY RequestTyped DEF KeptInv
<1>2. /\ UNCHANGED <<tab, idb, enqueued, atRisk>> /\ recorded \subseteq recorded'
      /\ local' # local => Acknowledge(f)
      /\ mirrors' # mirrors => Acknowledge(f)
  BY DEF Request, Replay, ApplyOp, Record, Acknowledge, Discard, Lose, stores, server, history
<1>3. /\ \A g \in Flushes \ {f} : flight'[g] = flight[g]
      /\ \/ flight'[f] = Idle
         \/ flight'[f].rest = flight[f].rest /\ flight[f].at # "idle"
         \/ /\ flight[f].at # "idle" /\ flight[f].rest # <<>>
            /\ flight'[f].rest = Tail(flight[f].rest) /\ Current(f) \in recorded'
  BY <1>1, RequestSteps
<1>4. /\ Elements(flight'[f].rest) \subseteq Elements(flight[f].rest)
      /\ flight'[f].at # "idle" =>
           /\ flight[f].at # "idle"
           /\ Elements(flight[f].rest) \subseteq Elements(flight'[f].rest) \cup recorded'
  BY <1>1, <1>3, RestTyped, IdleTyped, ElementsEmpty
<1>5. Elements(local') \subseteq Elements(local)
  BY <1>2, ElementsEmpty DEF Acknowledge, Store
<1>6. KnownOnly'
  <2>1. \A u \in Tabs : \A q \in Elements(mirrors'[u]) : Elements(q) \subseteq enqueued'
    <3>1. CASE mirrors' = mirrors
      BY <1>2, <3>1 DEF KeptInv, KnownOnly
    <3>2. CASE Acknowledge(f)
      <4>1. <<>> \in Seq(Ops) /\ Elements(<<>>) \subseteq enqueued'
        BY ElementsEmpty
      <4>2. QED BY <1>1, <1>2, <3>2, <4>1, StoreKnown DEF KeptInv, Acknowledge
    <3>3. QED BY <1>2, <3>1, <3>2
  <2>2. QED BY <1>2, <1>3, <1>4, <1>5, <2>1 DEF KeptInv, KnownOnly
<1>7. ReadingIsRisk'
  BY <1>2 DEF KeptInv, ReadingIsRisk
<1>8. SentOrAtRisk'
  <2>1. ASSUME NEW g \in Flushes, flight'[g].at # "idle"
        PROVE  Elements(local') \subseteq Elements(flight'[g].rest) \cup recorded' \cup atRisk'
    <3>1. CASE g = f
      BY <1>2, <1>4, <1>5, <2>1, <3>1 DEF KeptInv, SentOrAtRisk
    <3>2. CASE g # f
      BY <1>2, <1>3, <1>5, <2>1, <3>2 DEF KeptInv, SentOrAtRisk
    <3>3. QED BY <3>1, <3>2
  <2>2. QED BY <2>1 DEF SentOrAtRisk
<1>9. NothingForgotten'
  <2>1. CASE local' = local
    BY <1>2, <2>1 DEF KeptInv, NothingForgotten
  <2>2. CASE Acknowledge(f)
    <3>1. Elements(local) \subseteq recorded \cup atRisk
      BY <2>2, ElementsEmpty DEF KeptInv, SentOrAtRisk, Acknowledge, Answered
    <3>2. QED BY <1>2, <3>1 DEF KeptInv, NothingForgotten
  <2>3. QED BY <1>2, <2>1, <2>2
<1>10. QED BY <1>1, <1>6, <1>7, <1>8, <1>9 DEF KeptInv

LEMMA KeptNext == KeptInv /\ [Next]_vars => KeptInv'
<1> SUFFICES ASSUME KeptInv, [Next]_vars PROVE KeptInv'
  OBVIOUS
<1>0. TypeOK'
  BY TypeNext DEF KeptInv
<1>1. ASSUME NEW t \in Tabs, NEW op \in Ops, MoveTask(t, op) \/ QueueTask(t, op) PROVE KeptInv'
  BY <1>1, KeptByEnqueue DEF MoveTask, QueueTask
<1>2. ASSUME NEW t \in Tabs, NEW f \in Flushes, Flush(t, f) \/ FlushByHand(t, f) PROVE KeptInv'
  <2>1. Flush(t, f)
    BY <1>2 DEF FlushByHand
  <2>2. Send(t, f) /\ UNCHANGED <<stores, server, enqueued, atRisk>> /\ tab' = tab
    BY <2>1 DEF Flush
  <2>3. QED BY <1>0, <2>2, KeptBySend
<1>3. ASSUME NEW t \in Tabs, Mirror(t) \/ Restore(t) \/ Startup(t) \/ Close(t) PROVE KeptInv'
  BY <1>3, KeptByTab
<1>4. ASSUME NEW f \in Flushes, Request(f) \/ Lose(f) PROVE KeptInv'
  BY <1>4, KeptByRequest
<1>5. CASE GoOffline \/ ComeOnline \/ (\E op \in Ops : DeleteTask(op)) \/ UNCHANGED vars
  <2>1. UNCHANGED <<tab, local, idb, mirrors, flight, recorded, enqueued, atRisk>>
    BY <1>5 DEF GoOffline, ComeOnline, DeleteTask, stores, server, history, vars
  <2>2. QED
    BY <1>0, <2>1 DEF KeptInv, KnownOnly, ReadingIsRisk, SentOrAtRisk, NothingForgotten
<1>6. QED BY <1>1, <1>2, <1>3, <1>4, <1>5 DEF Next, Request

(* Nothing the user queued is forgotten, whatever is lost, restored from   *)
(* IndexedDB or emptied by an answer: offline-queue.ts, PwaRegistrar.tsx,  *)
(* PlanningPage.tsx.                                                       *)
THEOREM QueueIsKept == Spec => []NothingForgotten
<1>1. KeptInv => NothingForgotten
  BY DEF KeptInv
<1>2. QED BY <1>1, KeptInit, KeptNext, PTL DEF Spec

-----------------------------------------------------------------------------
(* How often an operation is carried out                                   *)

EffectFirst == \A f \in Flushes : flight[f].at = "applied" => applied[Current(f)] > 0

(* An effect without a row is the work of a request between the two, of a  *)
(* worker that died there, or of two requests that overlap.                *)
Accounted ==
  \A op \in Ops : applied[op] > 0 =>
    \/ op \in recorded \cup overlapped \cup torn
    \/ \E f \in Flushes : flight[f].at = "applied" /\ Current(f) = op

SharedOverlaps ==
  \A f, g \in Flushes : f # g =>
    Elements(flight[f].rest) \cap Elements(flight[g].rest) \subseteq overlapped

EffectInv ==
  /\ KeptInv /\ EffectFirst /\ Accounted /\ SharedOverlaps
  /\ RepeatedOnlyByOverlap /\ RecordedWasApplied

LEMMA EffectInit == Init => EffectInv
<1> SUFFICES ASSUME Init PROVE EffectInv
  OBVIOUS
<1>1. KeptInv
  BY KeptInit
<1>2. \A f \in Flushes : flight[f].at = "idle" /\ flight[f].rest = <<>>
  BY IdleTyped DEF Init
<1>3. EffectFirst
  BY <1>2 DEF EffectFirst
<1>4. SharedOverlaps
  BY <1>2, ElementsEmpty DEF SharedOverlaps
<1>5. \A op \in Ops : applied[op] = IF op \in recorded THEN 1 ELSE 0
  BY DEF Init
<1>6. recorded \subseteq enqueued
  BY DEF Init
<1>7. Accounted /\ RepeatedOnlyByOverlap
  BY <1>5 DEF Accounted, RepeatedOnlyByOverlap
<1>8. RecordedWasApplied
  BY <1>5, <1>6 DEF RecordedWasApplied
<1>9. QED BY <1>1, <1>3, <1>4, <1>7, <1>8 DEF EffectInv

(* Steps of the browser: no request is at another place after them.        *)
LEMMA EffectKept ==
  ASSUME EffectInv, KeptInv', UNCHANGED <<applied, recorded, overlapped, torn>>,
         enqueued \subseteq enqueued',
         \A f \in Flushes : flight'[f].rest = flight[f].rest /\ flight'[f].at = flight[f].at
  PROVE  EffectInv'
<1>1. EffectFirst'
  BY DEF EffectInv, EffectFirst, Current
<1>2. Accounted'
  <2>1. ASSUME NEW f \in Flushes, flight[f].at = "applied"
        PROVE  flight'[f].at = "applied" /\ Head(flight'[f].rest) = Head(flight[f].rest)
    BY <2>1
  <2>2. QED BY <2>1 DEF EffectInv, Accounted, Current
<1>3. SharedOverlaps'
  BY DEF EffectInv, SharedOverlaps
<1>4. RepeatedOnlyByOverlap' /\ RecordedWasApplied'
  BY DEF EffectInv, RepeatedOnlyByOverlap, RecordedWasApplied
<1>5. QED BY <1>1, <1>2, <1>3, <1>4 DEF EffectInv

LEMMA EffectBySend ==
  ASSUME EffectInv, KeptInv', NEW t \in Tabs, NEW f \in Flushes, Send(t, f),
         UNCHANGED <<applied, recorded, torn, enqueued>>
  PROVE  EffectInv'
<1>1. TypeOK /\ flight[f].at = "idle" /\ overlapped \subseteq overlapped'
  BY DEF EffectInv, KeptInv, Send
<1>2. /\ flight'[f].rest = local /\ flight'[f].at = "server"
      /\ \A g \in Flushes \ {f} : flight'[g] = flight[g]
  BY <1>1, SendTyped
<1>3. EffectFirst'
  BY <1>2 DEF EffectInv, EffectFirst, Current
<1>4. Accounted'
  BY <1>1, <1>2 DEF EffectInv, Accounted, Current
<1>5. SharedOverlaps'
  <2>1. \A g \in Flushes : Elements(local) \cap Elements(flight[g].rest) \subseteq overlapped'
    BY <1>1, ElementsIn DEF Send, Carries, TypeOK
  <2>2. QED BY <1>1, <1>2, <2>1 DEF EffectInv, SharedOverlaps
<1>6. RepeatedOnlyByOverlap' /\ RecordedWasApplied'
  BY <1>1 DEF EffectInv, RepeatedOnlyByOverlap, RecordedWasApplied
<1>7. QED BY <1>3, <1>4, <1>5, <1>6 DEF EffectInv

(* The server carries an operation out only once more than its row, its    *)
(* overlaps and its dead workers account for.                              *)
LEMMA EffectByApply ==
  ASSUME EffectInv, KeptInv', NEW f \in Flushes, ApplyOp(f),
         flight'[f].at = "applied", flight[f].at = "server", flight[f].rest # <<>>,
         flight'[f].rest = flight[f].rest, Current(f) \notin recorded,
         applied' = [applied EXCEPT ![Current(f)] = @ + 1],
         \A g \in Flushes \ {f} : flight'[g] = flight[g]
  PROVE  EffectInv'
<1>1. TypeOK /\ UNCHANGED <<recorded, overlapped, torn, enqueued>>
  BY DEF EffectInv, KeptInv, ApplyOp, history
<1>2. Current(f) \in Ops /\ Current(f) \in Elements(flight[f].rest) /\ Current(f)' = Current(f)
  BY <1>1, RestTyped DEF Current
<1>3. /\ applied \in [Ops -> Nat] /\ applied'[Current(f)] = applied[Current(f)] + 1
      /\ \A op \in Ops \ {Current(f)} : applied'[op] = applied[op]
  BY <1>1, <1>2 DEF TypeOK
<1>4. \A g \in Flushes : Current(g)' = Current(g)
  BY <1>2 DEF Current
<1>5. ASSUME NEW g \in Flushes, flight[g].at = "applied"
      PROVE  /\ Current(g) \in Ops /\ Current(g) \in Elements(flight[g].rest)
             /\ g # f /\ flight'[g].at = "applied"
  BY <1>1, <1>5, RestTyped DEF TypeOK
<1>6. EffectFirst'
  <2>1. ASSUME NEW g \in Flushes, flight'[g].at = "applied" PROVE applied'[Current(g)] > 0
    <3>1. CASE Current(g) = Current(f)
      <4>1. applied[Current(f)] \in Nat
        BY <1>2, <1>3
      <4>2. QED BY <1>3, <3>1, <4>1
    <3>2. CASE Current(g) # Current(f)
      <4>1. flight[g].at = "applied"
        BY <2>1, <3>2
      <4>2. applied[Current(g)] > 0 /\ Current(g) \in Ops
        BY <1>5, <4>1 DEF EffectInv, EffectFirst
      <4>3. QED BY <1>3, <3>2, <4>2
    <3>3. QED BY <3>1, <3>2
  <2>2. QED BY <1>4, <2>1 DEF EffectFirst
<1>7. Accounted'
  <2>1. ASSUME NEW op \in Ops, applied'[op] > 0
        PROVE  \/ op \in recorded \cup overlapped \cup torn
               \/ \E g \in Flushes : flight'[g].at = "applied" /\ Current(g) = op
    <3>1. CASE op = Current(f)
      BY <3>1
    <3>2. CASE op # Current(f)
      <4>1. applied[op] > 0
        BY <1>3, <2>1, <3>2
      <4>2. QED BY <1>5, <4>1 DEF EffectInv, Accounted
    <3>3. QED BY <3>1, <3>2
  <2>2. QED BY <1>1, <1>4, <2>1 DEF Accounted
<1>8. SharedOverlaps'
  <2>1. \A g \in Flushes : flight'[g].rest = flight[g].rest
    OBVIOUS
  <2>2. QED BY <1>1, <2>1 DEF EffectInv, SharedOverlaps
<1>9. RepeatedOnlyByOverlap'
  <2>1. ASSUME applied[Current(f)] > 0 PROVE Current(f) \in overlapped \cup torn
    <3>1. CASE \E g \in Flushes : flight[g].at = "applied" /\ Current(g) = Current(f)
      <4>1. PICK g \in Flushes : flight[g].at = "applied" /\ Current(g) = Current(f)
        BY <3>1
      <4>2. g # f /\ Current(f) \in Elements(flight[g].rest)
        BY <1>5, <4>1
      <4>3. QED BY <1>2, <4>2 DEF EffectInv, SharedOverlaps
    <3>2. QED BY <1>2, <2>1, <3>1 DEF EffectInv, Accounted
  <2>2. applied[Current(f)] \in Nat
    BY <1>2, <1>3
  <2>3. ASSUME NEW op \in Ops, applied'[op] > 1 PROVE op \in overlapped \cup torn
    <3>1. CASE op = Current(f)
      BY <1>3, <2>1, <2>2, <2>3, <3>1
    <3>2. CASE op # Current(f)
      BY <1>3, <2>3, <3>2 DEF EffectInv, RepeatedOnlyByOverlap
    <3>3. QED BY <3>1, <3>2
  <2>4. QED BY <1>1, <2>3 DEF RepeatedOnlyByOverlap
<1>10. RecordedWasApplied'
  <2>1. Current(f) \in enqueued
    BY <1>2 DEF EffectInv, KeptInv, KnownOnly
  <2>2. ASSUME NEW op \in Ops
        PROVE  /\ op \in recorded => applied'[op] > 0
               /\ applied'[op] > 0 => op \in enqueued
    <3>1. CASE op = Current(f)
      BY <2>1, <3>1
    <3>2. CASE op # Current(f)
      BY <1>3, <3>2 DEF EffectInv, RecordedWasApplied
    <3>3. QED BY <3>1, <3>2
  <2>3. QED BY <1>1, <2>2 DEF RecordedWasApplied
<1>11. QED BY <1>6, <1>7, <1>8, <1>9, <1>10 DEF EffectInv

(* A request that ends or goes on to its next operation leaves a row or a  *)
(* torn operation behind.                                                  *)
LEMMA EffectByEnd ==
  ASSUME EffectInv, KeptInv', NEW f \in Flushes, Request(f) \/ Lose(f),
         \A g \in Flushes \ {f} : flight'[g] = flight[g],
         \/ flight'[f] = Idle
         \/ /\ flight'[f].at = "server"
            /\ flight[f].rest # <<>> /\ flight'[f].rest = Tail(flight[f].rest),
         applied' = applied
  PROVE  EffectInv'
<1>1. TypeOK
  BY DEF EffectInv, KeptInv
<1>2. UNCHANGED <<overlapped, enqueued>> /\ recorded \subseteq recorded' /\ torn \subseteq torn'
  BY DEF Request, Replay, ApplyOp, Record, Acknowledge, Discard, Lose, server, history
<1>3. flight[f].at = "applied" => Current(f) \in recorded' \cup torn'
  BY DEF Request, Replay, ApplyOp, Record, Acknowledge, Discard, Lose, Answered
<1>4. flight'[f].at # "applied"
  BY IdleTyped
<1>5. Elements(flight'[f].rest) \subseteq Elements(flight[f].rest)
  BY <1>1, RestTyped, IdleTyped, ElementsEmpty
<1>6. EffectFirst'
  BY <1>4 DEF EffectInv, EffectFirst, Current
<1>7. Accounted'
  <2>1. ASSUME NEW op \in Ops, applied[op] > 0
        PROVE  \/ op \in recorded' \cup overlapped' \cup torn'
               \/ \E g \in Flushes : flight'[g].at = "applied" /\ Head(flight'[g].rest) = op
    <3>1. CASE op \in recorded \cup overlapped \cup torn
      BY <1>2, <3>1
    <3>2. CASE \E g \in Flushes : flight[g].at = "applied" /\ Current(g) = op
      <4>1. PICK g \in Flushes : flight[g].at = "applied" /\ Current(g) = op
        BY <3>2
      <4>2. CASE g = f
        BY <1>3, <4>1, <4>2
      <4>3. CASE g # f
        BY <4>1, <4>3 DEF Current
      <4>4. QED BY <4>2, <4>3
    <3>3. QED BY <2>1, <3>1, <3>2 DEF EffectInv, Accounted
  <2>2. QED BY <2>1 DEF Accounted, Current
<1>8. SharedOverlaps'
  <2>1. \A g \in Flushes : Elements(flight'[g].rest) \subseteq Elements(flight[g].rest)
    BY <1>5
  <2>2. QED BY <1>2, <2>1 DEF EffectInv, SharedOverlaps
<1>9. RepeatedOnlyByOverlap'
  BY <1>2 DEF EffectInv, RepeatedOnlyByOverlap
<1>10. RecordedWasApplied'
  <2>1. recorded' # recorded => flight[f].at = "applied" /\ recorded' = recorded \cup {Current(f)}
    BY DEF Request, Replay, ApplyOp, Record, Acknowledge, Discard, Lose, server
  <2>2. \A op \in recorded' : op \in recorded \/ applied[op] > 0
    BY <2>1 DEF EffectInv, EffectFirst
  <2>3. QED BY <1>2, <2>2 DEF EffectInv, RecordedWasApplied
<1>11. QED BY <1>6, <1>7, <1>8, <1>9, <1>10 DEF EffectInv

LEMMA EffectByRequest ==
  ASSUME EffectInv, KeptInv', NEW f \in Flushes, Request(f) \/ Lose(f)
  PROVE  EffectInv'
<1>1. TypeOK
  BY DEF EffectInv, KeptInv
<1>2. CASE ApplyOp(f) /\ flight'[f].at = "applied"
  <2>1. flight'[f] # Idle
    BY <1>2, IdleTyped
  <2>2. QED BY <1>1, <1>2, <2>1, RequestSteps, EffectByApply DEF ApplyOp
<1>3. CASE ~(ApplyOp(f) /\ flight'[f].at = "applied")
  <2>1. applied' = applied
    <3>1. CASE ApplyOp(f) /\ Current(f) \notin gone
      BY <1>1, <1>3, <3>1, ApplyTyped DEF ApplyOp
    <3>2. CASE ~(ApplyOp(f) /\ Current(f) \notin gone)
      BY <3>2 DEF Request, Replay, ApplyOp, Record, Acknowledge, Discard, Lose, server
    <3>3. QED BY <3>1, <3>2
  <2>2. QED BY <1>1, <1>3, <2>1, RequestSteps, EffectByEnd
<1>4. QED BY <1>2, <1>3

LEMMA EffectNext == EffectInv /\ [Next]_vars => EffectInv'
<1> SUFFICES ASSUME EffectInv, [Next]_vars PROVE EffectInv'
  OBVIOUS
<1>0. KeptInv' /\ TypeOK
  BY KeptNext DEF EffectInv, KeptInv
<1>1. ASSUME NEW t \in Tabs, NEW op \in Ops, MoveTask(t, op) \/ QueueTask(t, op) PROVE EffectInv'
  BY <1>0, <1>1, EffectKept DEF MoveTask, QueueTask, Enqueue, server
<1>2. ASSUME NEW t \in Tabs, NEW f \in Flushes, Flush(t, f) \/ FlushByHand(t, f) PROVE EffectInv'
  BY <1>0, <1>2, EffectBySend DEF FlushByHand, Flush, server
<1>3. ASSUME NEW t \in Tabs, Mirror(t) \/ Restore(t) PROVE EffectInv'
  BY <1>0, <1>3, EffectKept DEF Mirror, Restore, server, history
<1>4. ASSUME NEW t \in Tabs, Startup(t) PROVE EffectInv'
  <2>1. UNCHANGED <<applied, recorded, torn, enqueued>>
    BY <1>4 DEF Startup, server
  <2>2. CASE \E f \in Flushes : Send(t, f)
    BY <1>0, <2>1, <2>2, EffectBySend
  <2>3. CASE UNCHANGED <<flight, overlapped>>
    BY <1>0, <2>1, <2>3, EffectKept
  <2>4. QED BY <1>4, <2>2, <2>3 DEF Startup
<1>5. ASSUME NEW t \in Tabs, Close(t) PROVE EffectInv'
  <2>1. \A f \in Flushes : flight'[f].rest = flight[f].rest /\ flight'[f].at = flight[f].at
    BY <1>0, <1>5, CloseKeeps
  <2>2. QED BY <1>0, <1>5, <2>1, EffectKept DEF Close, server, history
<1>6. ASSUME NEW f \in Flushes, Request(f) \/ Lose(f) PROVE EffectInv'
  BY <1>0, <1>6, EffectByRequest
<1>7. CASE GoOffline \/ ComeOnline \/ (\E op \in Ops : DeleteTask(op)) \/ UNCHANGED vars
  <2>1. UNCHANGED <<flight, applied, recorded, overlapped, torn, enqueued>>
    BY <1>7 DEF GoOffline, ComeOnline, DeleteTask, server, history, vars
  <2>2. QED BY <1>0, <2>1, EffectKept
<1>8. QED BY <1>1, <1>2, <1>3, <1>4, <1>5, <1>6, <1>7 DEF Next, Request

LEMMA EffectAlways == Spec => []EffectInv
<1>1. QED BY EffectInit, EffectNext, PTL DEF Spec

(* An operation is carried out twice only if two requests carried it at    *)
(* once or a worker died between the effect and the row, for every number  *)
(* of windows, requests and lost answers: PmPlanningController.php.        *)
THEOREM NoOtherRepeats == Spec => []RepeatedOnlyByOverlap
<1>1. EffectInv => RepeatedOnlyByOverlap
  BY DEF EffectInv
<1>2. QED BY <1>1, EffectAlways, PTL

(* A row stands for an effect, and an effect for an operation of the user: *)
(* PmPlanningController.php.                                               *)
THEOREM RowsAreEffects == Spec => []RecordedWasApplied
<1>1. EffectInv => RecordedWasApplied
  BY DEF EffectInv
<1>2. QED BY <1>1, EffectAlways, PTL
=============================================================================
