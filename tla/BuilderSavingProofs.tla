------------------------- MODULE BuilderSavingProofs -------------------------
(***************************************************************************)
(* What holds of the editors of one page for every number of users,        *)
(* documents and requests: a clean tab shows a stored document, unsaved    *)
(* changes are watched, and a tab that was alone is right about the draft. *)
(***************************************************************************)
EXTENDS BuilderSaving, TLAPS

Post == [by : Editors \cup {Nobody}, kind : Kinds, doc : Docs, at : Stages, live : BOOLEAN]

-----------------------------------------------------------------------------
(* Types *)

LEMMA IdleTyped ==
  /\ Idle \in Post /\ Idle.at = "idle" /\ Idle.by = Nobody /\ Idle.live = FALSE
  /\ Idle.kind = "save" /\ Idle.doc = Empty
BY EditorAssumption DEF Idle, Post, Kinds, Stages

LEMMA AnswerTyped ==
  ASSUME NEW x \in Post, NEW d \in Docs
  PROVE  /\ Answer(x, d) \in Post
         /\ x.live => /\ Answer(x, d).at = "done" /\ Answer(x, d).doc = d
                      /\ Answer(x, d).by = x.by /\ Answer(x, d).live
                      /\ IsSave(x) => Answer(x, d).kind = "save"
                      /\ ~IsSave(x) => Answer(x, d).kind = "restore"
         /\ ~x.live => Answer(x, d) = Idle
<1>1. CASE ~x.live
  BY <1>1, IdleTyped DEF Answer
<1>2. CASE x.live
  <2> DEFINE kind == IF IsSave(x) THEN "save" ELSE "restore"
  <2>1. Answer(x, d) = [x EXCEPT !.kind = kind, !.doc = d, !.at = "done"]
    BY <1>2 DEF Answer
  <2>2. kind \in Kinds /\ "done" \in Stages
    BY DEF Kinds, Stages
  <2> HIDE DEF kind
  <2>3. /\ Answer(x, d) \in Post /\ Answer(x, d).at = "done" /\ Answer(x, d).doc = d
        /\ Answer(x, d).by = x.by /\ Answer(x, d).live = x.live /\ Answer(x, d).kind = kind
    BY <2>1, <2>2 DEF Post
  <2>4. QED BY <1>2, <2>3 DEF kind
<1>3. QED BY <1>1, <1>2

LEMMA AbandonedTyped ==
  ASSUME NEW x \in Post
  PROVE  /\ Abandoned(x) \in Post /\ ~Abandoned(x).live
         /\ \/ Abandoned(x) = Idle
            \/ /\ x.at \in {"sent", "publish"} /\ Abandoned(x).by = x.by
               /\ Abandoned(x).at = x.at /\ Abandoned(x).doc = x.doc
               /\ Abandoned(x).kind = x.kind
<1>1. CASE x.at \in {"sent", "publish"}
  <2>1. Abandoned(x) = [x EXCEPT !.live = FALSE]
    BY <1>1 DEF Abandoned
  <2>2. QED BY <1>1, <2>1 DEF Post
<1>2. CASE x.at \notin {"sent", "publish"}
  BY <1>2, IdleTyped DEF Abandoned
<1>3. QED BY <1>1, <1>2

LEMMA InitTyped == Init => TypeOK
BY EditorAssumption, IdleTyped DEF Init, TypeOK, Post

TypedPosts == post \in [Posts -> Post]

LEMMA PostsTyped == TypeOK => TypedPosts
BY DEF TypeOK, TypedPosts, Post

LEMMA ShowTyped ==
  ASSUME TypeOK, NEW s \in Editors, NEW d \in Docs, NEW v \in Docs, Show(s, d, v)
  PROVE  /\ doc' \in [Editors -> Docs] /\ saved' \in [Editors -> Docs]
         /\ timer' \in [Editors -> {"off", "set", "missed"}]
         /\ doc'[s] = d /\ saved'[s] = v
         /\ d = v => timer'[s] = "off"
         /\ d # v /\ (d # doc[s] \/ ~Dirty(s)) => timer'[s] = "set"
         /\ d # v /\ d = doc[s] /\ Dirty(s) => timer'[s] = timer[s]
         /\ \A u \in Editors \ {s} : /\ doc'[u] = doc[u] /\ saved'[u] = saved[u]
                                     /\ timer'[u] = timer[u]
<1> DEFINE new == IF d = v THEN "off" ELSE IF d # doc[s] \/ ~Dirty(s) THEN "set" ELSE timer[s]
<1>1. timer' = [timer EXCEPT ![s] = new]
  BY DEF Show
<1>2. new \in {"off", "set", "missed"}
  BY DEF TypeOK
<1>3. /\ d = v => new = "off"
      /\ d # v /\ (d # doc[s] \/ ~Dirty(s)) => new = "set"
      /\ d # v /\ d = doc[s] /\ Dirty(s) => new = timer[s]
  OBVIOUS
<1> HIDE DEF new
<1>4. QED BY <1>1, <1>2, <1>3 DEF TypeOK, Show

LEMMA SendTyped ==
  ASSUME TypeOK, NEW s \in Editors, NEW p \in Posts, NEW kind \in Kinds, NEW d \in Docs,
         Send(s, p, kind, d)
  PROVE  /\ TypedPosts' /\ sole' \in [Editors -> BOOLEAN]
         /\ post[p].at = "idle"
         /\ post'[p].by = s /\ post'[p].kind = kind /\ post'[p].doc = d
         /\ post'[p].at = "sent" /\ post'[p].live
         /\ \A q \in Posts \ {p} : post'[q] = post[q]
<1> DEFINE x == [by |-> s, kind |-> kind, doc |-> d, at |-> "sent", live |-> TRUE]
<1>1. x \in Post /\ x.by = s /\ x.kind = kind /\ x.doc = d /\ x.at = "sent" /\ x.live
  BY DEF Post, Stages
<1>2. post' = [post EXCEPT ![p] = x]
  BY DEF Send
<1> HIDE DEF x
<1>3. TypedPosts' /\ post'[p] = x /\ \A q \in Posts \ {p} : post'[q] = post[q]
  BY <1>1, <1>2, PostsTyped DEF TypedPosts
<1>4. sole' \in [Editors -> BOOLEAN]
  BY DEF Send, TypeOK, Quiet
<1>5. QED BY <1>1, <1>3, <1>4 DEF Send

LEMMA WriteTyped ==
  ASSUME TypeOK, NEW d \in Docs, NEW x, WriteDraft(d, x)
  PROVE  /\ draft' = d /\ draft' \in Docs /\ stored' \subseteq Docs /\ revs' \subseteq Docs
         /\ stored' = stored \cup {d} /\ d \in revs'
BY DEF WriteDraft, TypeOK

LEMMA SetLockTyped ==
  ASSUME TypeOK, NEW l \in Editors \cup {Nobody}, SetLock(l)
  PROVE  lock' \in Editors \cup {Nobody} /\ sole' \in [Editors -> BOOLEAN]
BY DEF SetLock, TypeOK

LEMMA EditorTyped ==
  ASSUME TypeOK, NEW s \in Editors,
         Open(s) \/ Load(s) \/ Leave(s) \/ Heartbeat(s) \/ TakeOver(s) \/ Autosave(s)
  PROVE  TypeOK'
<1> USE EditorAssumption
<1>1. CASE Open(s)
  BY <1>1 DEF TypeOK, Open, row, text
<1>2. CASE Load(s)
  <2>1. mode' \in [Editors -> {"closed", "loading", "open"}]
    BY <1>2 DEF TypeOK, Load
  <2>2. /\ doc' \in [Editors -> Docs] /\ saved' \in [Editors -> Docs]
        /\ timer' \in [Editors -> {"off", "set", "missed"}]
    BY <1>2, ShowTyped DEF TypeOK, Load
  <2>3. sole' \in [Editors -> BOOLEAN]
    BY <1>2 DEF TypeOK, Load, Quiet
  <2>4. QED BY <1>2, <2>1, <2>2, <2>3 DEF TypeOK, Load, row
<1>3. CASE Leave(s)
  <2>1. TypedPosts'
    <3>1. ASSUME NEW p \in Posts PROVE Abandoned(post[p]) \in Post
      BY PostsTyped, AbandonedTyped DEF TypedPosts
    <3>2. QED BY <1>3, <3>1, PostsTyped DEF Leave, TypedPosts
  <2>2. lock' \in Editors \cup {Nobody}
    BY <1>3 DEF TypeOK, Leave
  <2>3. QED BY <1>3, <2>1, <2>2 DEF TypeOK, Leave, TypedPosts, Post
<1>4. CASE Heartbeat(s) \/ TakeOver(s)
  <2>1. lock' \in Editors \cup {Nobody} /\ sole' \in [Editors -> BOOLEAN]
    BY <1>4, SetLockTyped DEF TypeOK, Heartbeat, TakeOver, row
  <2>2. UNCHANGED <<draft, published, revs, stored>>
    BY <1>4 DEF Heartbeat, TakeOver, row, SetLock
  <2>3. QED BY <1>4, <2>1, <2>2 DEF TypeOK, Heartbeat, TakeOver, session, text
<1>5. CASE Autosave(s)
  <2>1. TypedPosts' /\ sole' \in [Editors -> BOOLEAN]
    <3>1. CASE saving[s]
      BY <1>5, <3>1, PostsTyped DEF TypeOK, Autosave, TypedPosts
    <3>2. CASE ~saving[s]
      <4>1. PICK p \in Posts : Send(s, p, "autosave", doc[s])
        BY <1>5, <3>2 DEF Autosave
      <4>2. doc[s] \in Docs /\ "autosave" \in Kinds
        BY DEF TypeOK, Kinds
      <4>3. QED BY <4>1, <4>2, SendTyped
    <3>3. QED BY <3>1, <3>2
  <2>2. timer' \in [Editors -> {"off", "set", "missed"}] /\ saving' \in [Editors -> BOOLEAN]
    BY <1>5 DEF TypeOK, Autosave
  <2>3. QED BY <1>5, <2>1, <2>2 DEF TypeOK, Autosave, row, TypedPosts, Post
<1>6. QED BY <1>1, <1>2, <1>3, <1>4, <1>5

LEMMA SendsTyped ==
  ASSUME TypeOK, NEW s \in Editors, NEW p \in Posts,
         \/ \E kind \in Kinds : Save(s, p, kind)
         \/ \E d \in revs : AskRestore(s, p, d)
         \/ AskDiscard(s, p)
  PROVE  TypeOK'
<1>1. TypedPosts' /\ sole' \in [Editors -> BOOLEAN]
  <2>1. doc[s] \in Docs /\ Empty \in Docs /\ revs \subseteq Docs
    BY EditorAssumption DEF TypeOK
  <2>2. "restore" \in Kinds /\ "discard" \in Kinds
    BY DEF Kinds
  <2>3. QED BY <2>1, <2>2, SendTyped DEF Save, AskRestore, AskDiscard
<1>2. CASE \E kind \in Kinds : Save(s, p, kind)
  BY <1>1, <1>2 DEF TypeOK, Save, row, text, TypedPosts, Post
<1>3. CASE (\E d \in revs : AskRestore(s, p, d)) \/ AskDiscard(s, p)
  BY <1>1, <1>3 DEF TypeOK, AskRestore, AskDiscard, row, session, text, TypedPosts, Post
<1>4. QED BY <1>2, <1>3

LEMMA EditTyped ==
  ASSUME TypeOK, NEW s \in Editors, NEW d \in Docs, Edit(s, d)
  PROVE  TypeOK'
<1>1. saved[s] \in Docs
  BY DEF TypeOK
<1>2. QED BY <1>1, ShowTyped DEF TypeOK, Edit, row

(* What the server does to a request that it serves.                       *)
LEMMA ServedTyped ==
  ASSUME TypeOK, NEW p \in Posts,
         PatchPage(p) \/ DiscardDraft(p) \/ RestoreRevision(p) \/ PublishPage(p)
  PROVE  /\ TypeOK'
         /\ \A q \in Posts \ {p} : post'[q] = post[q]
         /\ \/ /\ PatchPage(p) /\ post'[p].at = "publish" /\ post'[p].doc = post[p].doc
               /\ post'[p].by = post[p].by /\ post'[p].live = post[p].live
               /\ post'[p].kind = post[p].kind
            \/ post'[p] = Answer(post[p], IF PublishPage(p) THEN post[p].doc ELSE draft')
<1>0. post[p] \in Post /\ post \in [Posts -> Post] /\ post[p].doc \in Docs
  BY PostsTyped DEF TypedPosts, Post
<1>1. draft \in Docs /\ published \in Docs
  BY DEF TypeOK
<1>2. CASE PatchPage(p)
  <2>1. /\ draft' = post[p].doc /\ draft' \in Docs /\ stored' \subseteq Docs /\ revs' \subseteq Docs
    BY <1>0, <1>2, WriteTyped DEF PatchPage
  <2>2. CASE post[p].kind = "publish"
    <3>1. post' = [post EXCEPT ![p] = [post[p] EXCEPT !.at = "publish"]]
      BY <1>2, <2>2 DEF PatchPage
    <3>2. /\ [post[p] EXCEPT !.at = "publish"] \in Post
          /\ [post[p] EXCEPT !.at = "publish"].at = "publish"
          /\ [post[p] EXCEPT !.at = "publish"].doc = post[p].doc
          /\ [post[p] EXCEPT !.at = "publish"].by = post[p].by
          /\ [post[p] EXCEPT !.at = "publish"].live = post[p].live
          /\ [post[p] EXCEPT !.at = "publish"].kind = post[p].kind
      BY <1>0 DEF Post, Stages
    <3>3. post' \in [Posts -> Post]
      BY <1>0, <3>1, <3>2
    <3>4. TypeOK'
      BY <1>2, <2>1, <3>3 DEF TypeOK, PatchPage, session, text, Post
    <3>5. QED BY <1>0, <1>2, <3>1, <3>2, <3>4
  <2>3. CASE post[p].kind # "publish"
    <3>1. post' = [post EXCEPT ![p] = Answer(post[p], draft')]
      BY <1>2, <2>3 DEF PatchPage
    <3>2. post' \in [Posts -> Post]
      BY <1>0, <2>1, <3>1, AnswerTyped
    <3>3. TypeOK'
      BY <1>2, <2>1, <3>2 DEF TypeOK, PatchPage, session, text, Post
    <3>4. ~PublishPage(p)
      BY <1>2 DEF PatchPage, PublishPage
    <3>5. QED BY <1>0, <3>1, <3>3, <3>4
  <2>4. QED BY <2>2, <2>3
<1>3. CASE DiscardDraft(p) \/ RestoreRevision(p)
  <2>1. /\ draft' \in Docs /\ stored' \subseteq Docs /\ revs' \subseteq Docs
    BY <1>0, <1>1, <1>3, WriteTyped DEF DiscardDraft, RestoreRevision
  <2>2. post' = [post EXCEPT ![p] = Answer(post[p], draft')]
    BY <1>3 DEF DiscardDraft, RestoreRevision
  <2>3. post' \in [Posts -> Post]
    BY <1>0, <2>1, <2>2, AnswerTyped
  <2>4. sole' \in [Editors -> BOOLEAN]
    BY <1>3 DEF TypeOK, DiscardDraft, RestoreRevision
  <2>5. TypeOK'
    BY <1>3, <2>1, <2>3, <2>4 DEF TypeOK, DiscardDraft, RestoreRevision, session, text, Post
  <2>6. ~PublishPage(p)
    BY <1>3 DEF DiscardDraft, RestoreRevision, PublishPage
  <2>7. QED BY <1>0, <2>2, <2>5, <2>6
<1>4. CASE PublishPage(p)
  <2>1. post' = [post EXCEPT ![p] = Answer(post[p], post[p].doc)]
    BY <1>4 DEF PublishPage
  <2>2. post' \in [Posts -> Post]
    BY <1>0, <2>1, AnswerTyped
  <2>3. TypeOK'
    BY <1>1, <1>4, <2>2 DEF TypeOK, PublishPage, session, text, Post
  <2>4. QED BY <1>0, <1>4, <2>1, <2>3
<1>5. QED BY <1>2, <1>3, <1>4

(* Every request under way is somebody's, and only those are.              *)
Owned == \A p \in Posts : IF post[p].at = "idle" THEN post[p] = Idle ELSE post[p].by \in Editors

LEMMA EndedTyped ==
  ASSUME TypeOK, Owned, NEW p \in Posts, SaveDone(p) \/ Restored(p) \/ RequestFails(p)
  PROVE  /\ TypeOK' /\ post[p].by \in Editors
         /\ \A q \in Posts \ {p} : post'[q] = post[q]
         /\ post'[p] = Idle \/ (RequestFails(p) /\ post'[p] = Abandoned(post[p]))
<1>0. post[p] \in Post /\ post \in [Posts -> Post] /\ post[p].doc \in Docs
  BY PostsTyped DEF TypedPosts, Post
<1>1. post[p].by \in Editors
  BY DEF Owned, SaveDone, Restored, RequestFails
<1>2. \/ post' = [post EXCEPT ![p] = Idle]
      \/ RequestFails(p) /\ post' = [post EXCEPT ![p] = Abandoned(post[p])]
  BY DEF SaveDone, Restored, RequestFails
<1>3. /\ post' \in [Posts -> Post] /\ \A q \in Posts \ {p} : post'[q] = post[q]
      /\ post'[p] = Idle \/ (RequestFails(p) /\ post'[p] = Abandoned(post[p]))
  BY <1>0, <1>2, IdleTyped, AbandonedTyped
<1>4. CASE SaveDone(p) \/ Restored(p)
  <2>1. doc[post[p].by] \in Docs
    BY <1>1 DEF TypeOK
  <2>2. /\ doc' \in [Editors -> Docs] /\ saved' \in [Editors -> Docs]
        /\ timer' \in [Editors -> {"off", "set", "missed"}]
    BY <1>0, <1>1, <1>4, <2>1, ShowTyped DEF SaveDone, Restored
  <2>3. saving' \in [Editors -> BOOLEAN]
    BY <1>4 DEF TypeOK, SaveDone, Restored
  <2>4. QED BY <1>1, <1>3, <1>4, <2>2, <2>3 DEF TypeOK, SaveDone, Restored, row, Post
<1>5. CASE RequestFails(p)
  <2>1. timer' \in [Editors -> {"off", "set", "missed"}] /\ saving' \in [Editors -> BOOLEAN]
    BY <1>1, <1>5 DEF TypeOK, RequestFails
  <2>2. sole' \in [Editors -> BOOLEAN]
    BY <1>1, <1>5 DEF TypeOK, RequestFails
  <2>3. QED BY <1>1, <1>3, <1>5, <2>1, <2>2 DEF TypeOK, RequestFails, row, Post
<1>6. QED BY <1>4, <1>5

LEMMA OwnedServed ==
  ASSUME TypeOK, Owned, NEW p \in Posts,
         PatchPage(p) \/ DiscardDraft(p) \/ RestoreRevision(p) \/ PublishPage(p)
  PROVE  /\ Owned' /\ post[p].by \in Editors
         /\ post[p].live => post'[p].by = post[p].by /\ post'[p].live
         /\ ~post[p].live => post'[p] = Idle \/ (post'[p].at = "publish" /\ post'[p].by = post[p].by)
<1>0. post[p] \in Post /\ post[p].at # "idle" /\ post[p].by \in Editors
  BY PostsTyped DEF TypedPosts, Owned, PatchPage, DiscardDraft, RestoreRevision, PublishPage
<1>1. post[p].doc \in Docs /\ draft' \in Docs
  BY <1>0, ServedTyped DEF Post, TypeOK
<1>2. /\ post[p].live => post'[p].by = post[p].by /\ post'[p].live /\ post'[p].at # "idle"
      /\ ~post[p].live => post'[p] = Idle \/ (post'[p].at = "publish" /\ post'[p].by = post[p].by)
  BY <1>0, <1>1, ServedTyped, AnswerTyped
<1>3. Owned'
  BY <1>0, <1>2, ServedTyped, IdleTyped DEF Owned
<1>4. QED BY <1>0, <1>2, <1>3

(* A step of an editor that sends a request.                                *)
Sends(s, p) ==
  \E kind \in Kinds, d \in Docs : Send(s, p, kind, d)

LEMMA SendsOne ==
  ASSUME TypeOK, NEW s \in Editors
  PROVE  /\ \A p \in Posts, kind \in Kinds : Save(s, p, kind) => Send(s, p, kind, doc[s])
         /\ \A p \in Posts, d \in revs : AskRestore(s, p, d) => Sends(s, p)
         /\ \A p \in Posts : AskDiscard(s, p) => Sends(s, p)
         /\ \A p \in Posts, kind \in Kinds : Send(s, p, kind, doc[s]) => Sends(s, p)
<1>1. doc[s] \in Docs /\ revs \subseteq Docs /\ Empty \in Docs
  BY EditorAssumption DEF TypeOK
<1>2. "restore" \in Kinds /\ "discard" \in Kinds
  BY DEF Kinds
<1>3. QED BY <1>1, <1>2 DEF Save, AskRestore, AskDiscard, Sends

LEMMA OwnedSends ==
  ASSUME TypeOK, Owned, NEW s \in Editors, NEW p \in Posts, Sends(s, p)
  PROVE  Owned'
BY SendTyped DEF Sends, Owned

LEMMA OwnedEnded ==
  ASSUME TypeOK, Owned, NEW p \in Posts, SaveDone(p) \/ Restored(p) \/ RequestFails(p)
  PROVE  Owned'
<1>1. post[p] \in Post
  BY PostsTyped DEF TypedPosts
<1>2. QED BY <1>1, EndedTyped, AbandonedTyped, IdleTyped DEF Owned

LEMMA LeaveEffect ==
  ASSUME TypeOK, Owned, NEW s \in Editors, Leave(s), NEW p \in Posts
  PROVE  \/ post[p].by # s /\ post'[p] = post[p]
         \/ /\ post[p].by = s /\ ~post'[p].live
            /\ \/ post'[p] = Idle
               \/ /\ post[p].at \in {"sent", "publish"} /\ post'[p].by = s
                  /\ post'[p].at = post[p].at /\ post'[p].doc = post[p].doc
<1>1. post[p] \in Post
  BY PostsTyped DEF TypedPosts
<1>2. post'[p] = IF post[p].by = s THEN Abandoned(post[p]) ELSE post[p]
  BY DEF Leave
<1>3. QED BY <1>1, <1>2, AbandonedTyped

OwnedInv == TypeOK /\ Owned

LEMMA OwnedInit == Init => OwnedInv
BY InitTyped DEF Init, OwnedInv, Owned, Idle

LEMMA OwnedNext == OwnedInv /\ [Next]_vars => OwnedInv'
<1> SUFFICES ASSUME OwnedInv, [Next]_vars PROVE OwnedInv'
  OBVIOUS
<1>0. TypeOK /\ Owned
  BY DEF OwnedInv
<1>1. ASSUME NEW s \in Editors, Open(s) \/ Load(s) \/ Heartbeat(s) \/ TakeOver(s) PROVE OwnedInv'
  <2>1. post' = post
    BY <1>1 DEF Open, Load, Heartbeat, TakeOver
  <2>2. QED BY <1>0, <1>1, <2>1, EditorTyped DEF OwnedInv, Owned
<1>2. ASSUME NEW s \in Editors, Leave(s) PROVE OwnedInv'
  <2>1. Owned'
    BY <1>0, <1>2, LeaveEffect, IdleTyped, EditorAssumption DEF Owned
  <2>2. QED BY <1>0, <1>2, <2>1, EditorTyped DEF OwnedInv
<1>3. ASSUME NEW s \in Editors, Autosave(s) PROVE OwnedInv'
  <2>1. CASE saving[s]
    BY <1>0, <1>3, <2>1, EditorTyped DEF OwnedInv, Owned, Autosave
  <2>2. CASE ~saving[s]
    <3>1. PICK p \in Posts : Send(s, p, "autosave", doc[s])
      BY <1>3, <2>2 DEF Autosave
    <3>2. Sends(s, p)
      BY <1>0, <3>1, SendsOne DEF Kinds
    <3>3. QED BY <1>0, <1>3, <3>2, EditorTyped, OwnedSends DEF OwnedInv
  <2>3. QED BY <2>1, <2>2
<1>4. ASSUME NEW s \in Editors, NEW d \in Docs, Edit(s, d) PROVE OwnedInv'
  BY <1>0, <1>4, EditTyped DEF OwnedInv, Owned, Edit
<1>5. ASSUME NEW s \in Editors, NEW p \in Posts,
             \/ \E kind \in Kinds : Save(s, p, kind)
             \/ \E d \in revs : AskRestore(s, p, d)
             \/ AskDiscard(s, p)
      PROVE  OwnedInv'
  <2>1. Sends(s, p)
    BY <1>0, <1>5, SendsOne
  <2>2. QED BY <1>0, <1>5, <2>1, SendsTyped, OwnedSends DEF OwnedInv
<1>6. ASSUME NEW p \in Posts, PatchPage(p) \/ PublishPage(p) \/ DiscardDraft(p) \/ RestoreRevision(p)
      PROVE  OwnedInv'
  BY <1>0, <1>6, ServedTyped, OwnedServed DEF OwnedInv
<1>7. ASSUME NEW p \in Posts, SaveDone(p) \/ Restored(p) \/ RequestFails(p) PROVE OwnedInv'
  BY <1>0, <1>7, EndedTyped, OwnedEnded DEF OwnedInv
<1>8. CASE LockExpires
  <2>1. lock' \in Editors \cup {Nobody} /\ sole' \in [Editors -> BOOLEAN]
    BY <1>0, <1>8, SetLockTyped DEF LockExpires
  <2>2. UNCHANGED <<draft, published, revs, stored, session, post>>
    BY <1>8 DEF LockExpires, SetLock
  <2>3. QED BY <1>0, <2>1, <2>2 DEF OwnedInv, TypeOK, Owned, session, text
<1>9. CASE UNCHANGED vars
  BY <1>0, <1>9 DEF OwnedInv, TypeOK, Owned, vars, row, session, text
<1>10. QED BY <1>1, <1>2, <1>3, <1>4, <1>5, <1>6, <1>7, <1>8, <1>9 DEF Next

(* The page, the tabs and the requests keep their shape: BuilderEditor.tsx,*)
(* BuilderController.php.                                                  *)
THEOREM TypeCorrect == Spec => []TypeOK
<1>1. OwnedInv => TypeOK
  BY DEF OwnedInv
<1>2. QED BY <1>1, OwnedInit, OwnedNext, PTL DEF Spec

-----------------------------------------------------------------------------
(* What a tab calls saved was stored                                       *)

KnownDocs ==
  /\ draft \in stored /\ published \in stored /\ draft \in revs
  /\ \A s \in Editors : saved[s] \in stored \cup {Empty}
  /\ \A p \in Posts : post[p].at \in {"publish", "done"} => post[p].doc \in stored

KnownInv == OwnedInv /\ KnownDocs

LEMMA KnownInit == Init => KnownInv
BY OwnedInit DEF Init, KnownInv, KnownDocs, Idle

LEMMA KnownByShow ==
  ASSUME KnownInv, NEW s \in Editors, NEW d \in Docs, NEW v \in Docs, Show(s, d, v),
         v \in stored \cup {Empty}
  PROVE  \A u \in Editors : saved'[u] \in stored \cup {Empty}
<1>1. TypeOK
  BY DEF KnownInv, OwnedInv
<1>2. saved'[s] = v /\ \A u \in Editors \ {s} : saved'[u] = saved[u]
  BY <1>1, ShowTyped
<1>3. QED BY <1>2 DEF KnownInv, KnownDocs

(* Where a request is once the server has worked on it.                    *)
LEMMA ServedPost ==
  ASSUME TypeOK, NEW p \in Posts,
         PatchPage(p) \/ DiscardDraft(p) \/ RestoreRevision(p) \/ PublishPage(p)
  PROVE  \/ /\ PatchPage(p) /\ post'[p].at = "publish" /\ post'[p].doc = post[p].doc
            /\ post'[p].by = post[p].by /\ post'[p].live = post[p].live
            /\ post'[p].kind = post[p].kind
         \/ /\ post'[p].at = "done" /\ post'[p].by = post[p].by /\ post[p].live /\ post'[p].live
            /\ post'[p].doc = IF PublishPage(p) THEN post[p].doc ELSE draft'
            /\ IsSave(post[p]) => post'[p].kind = "save"
         \/ ~post[p].live /\ post'[p] = Idle
<1> DEFINE d == IF PublishPage(p) THEN post[p].doc ELSE draft'
<1>1. post[p] \in Post /\ d \in Docs
  BY PostsTyped, ServedTyped DEF TypedPosts, Post, TypeOK
<1>2. CASE post'[p] = Answer(post[p], d)
  <2> HIDE DEF d
  <2>1. CASE post[p].live
    <3>1. /\ post'[p].at = "done" /\ post'[p].by = post[p].by /\ post'[p].live
          /\ post'[p].doc = d
          /\ IsSave(post[p]) => post'[p].kind = "save"
      BY <1>1, <1>2, <2>1, AnswerTyped
    <3>2. QED BY <2>1, <3>1 DEF d
  <2>2. CASE ~post[p].live
    BY <1>1, <1>2, <2>2, AnswerTyped
  <2>3. QED BY <2>1, <2>2
<1>3. CASE post'[p] # Answer(post[p], d)
  <2>1. post'[p] # Answer(post[p], IF PublishPage(p) THEN post[p].doc ELSE draft')
    BY <1>3
  <2>2. /\ PatchPage(p) /\ post'[p].at = "publish" /\ post'[p].doc = post[p].doc
        /\ post'[p].by = post[p].by /\ post'[p].live = post[p].live
        /\ post'[p].kind = post[p].kind
    BY <2>1, ServedTyped
  <2>3. QED BY <2>2
<1>4. QED BY <1>2, <1>3

LEMMA KnownServed ==
  ASSUME KnownInv, NEW p \in Posts,
         PatchPage(p) \/ DiscardDraft(p) \/ RestoreRevision(p) \/ PublishPage(p)
  PROVE  KnownDocs'
<1>0. /\ TypeOK /\ Owned /\ post[p] \in Post /\ post[p].doc \in Docs
      /\ draft \in Docs /\ published \in Docs
  BY PostsTyped DEF KnownInv, OwnedInv, TypedPosts, Post, TypeOK
<1>1. saved' = saved
  BY DEF PatchPage, DiscardDraft, RestoreRevision, PublishPage, session, text
<1>2. CASE PublishPage(p)
  <2>1. /\ UNCHANGED <<draft, stored>> /\ published' = draft /\ revs' = revs \cup {draft}
        /\ post[p].doc \in stored
    BY <1>2 DEF PublishPage, KnownInv, KnownDocs
  <2>2. post'[p].at \in {"publish", "done"} => post'[p].doc \in stored
    BY <1>0, <1>2, <2>1, ServedPost, IdleTyped
  <2>3. QED BY <1>0, <1>1, <1>2, <2>1, <2>2, ServedTyped DEF KnownInv, KnownDocs
<1>3. CASE PatchPage(p) \/ DiscardDraft(p) \/ RestoreRevision(p)
  <2>1. /\ draft' \in Docs /\ stored' = stored \cup {draft'} /\ draft' \in revs'
        /\ published' = published
        /\ PatchPage(p) => draft' = post[p].doc
    BY <1>0, <1>3, WriteTyped DEF PatchPage, DiscardDraft, RestoreRevision
  <2>2. ~PublishPage(p)
    BY <1>3 DEF PatchPage, DiscardDraft, RestoreRevision, PublishPage
  <2>3. post'[p].at \in {"publish", "done"} => post'[p].doc \in stored'
    BY <1>0, <1>3, <2>1, <2>2, ServedPost, IdleTyped
  <2>4. QED BY <1>0, <1>1, <1>3, <2>1, <2>3, ServedTyped DEF KnownInv, KnownDocs
<1>4. QED BY <1>2, <1>3

LEMMA KnownNext == KnownInv /\ [Next]_vars => KnownInv'
<1> SUFFICES ASSUME KnownInv, [Next]_vars PROVE KnownInv'
  OBVIOUS
<1>0. OwnedInv' /\ TypeOK /\ Owned
  BY OwnedNext DEF KnownInv, OwnedInv
<1>1. ASSUME NEW s \in Editors, Open(s) \/ Heartbeat(s) \/ TakeOver(s) PROVE KnownInv'
  <2>1. UNCHANGED <<draft, published, revs, stored, saved, post>>
    BY <1>1 DEF Open, Heartbeat, TakeOver, SetLock, row, text, session
  <2>2. QED BY <1>0, <2>1 DEF KnownInv, KnownDocs
<1>2. ASSUME NEW s \in Editors, Load(s) PROVE KnownInv'
  <2>1. draft \in Docs /\ Empty \in Docs
    BY <1>0, EditorAssumption DEF TypeOK
  <2>2. \A u \in Editors : saved'[u] \in stored \cup {Empty}
    BY <1>2, <2>1, KnownByShow DEF Load, KnownInv, KnownDocs
  <2>3. QED BY <1>0, <1>2, <2>2 DEF KnownInv, KnownDocs, Load, row
<1>3. ASSUME NEW s \in Editors, Leave(s) PROVE KnownInv'
  <2>1. \A u \in Editors : saved'[u] \in {saved[u], Empty}
    BY <1>0, <1>3 DEF Leave, TypeOK
  <2>2. \A p \in Posts : post'[p].at \in {"publish", "done"} =>
          post[p].at = post'[p].at /\ post[p].doc = post'[p].doc
    BY <1>0, <1>3, LeaveEffect, IdleTyped
  <2>3. QED BY <1>0, <1>3, <2>1, <2>2 DEF KnownInv, KnownDocs, Leave
<1>4. ASSUME NEW s \in Editors, NEW p \in Posts, Sends(s, p), UNCHANGED <<row, saved>>
      PROVE  KnownInv'
  BY <1>0, <1>4, SendTyped DEF KnownInv, KnownDocs, Sends, row
<1>5. ASSUME NEW s \in Editors, Autosave(s) PROVE KnownInv'
  <2>1. CASE saving[s]
    BY <1>0, <1>5, <2>1 DEF KnownInv, KnownDocs, Autosave, row
  <2>2. CASE ~saving[s]
    <3>1. PICK p \in Posts : Send(s, p, "autosave", doc[s])
      BY <1>5, <2>2 DEF Autosave
    <3>2. Sends(s, p)
      BY <1>0, <3>1, SendsOne DEF Kinds
    <3>3. QED BY <1>4, <1>5, <3>2 DEF Autosave
  <2>3. QED BY <2>1, <2>2
<1>6. ASSUME NEW s \in Editors, NEW d \in Docs, Edit(s, d) PROVE KnownInv'
  <2>1. saved[s] \in Docs /\ saved[s] \in stored \cup {Empty}
    BY <1>0 DEF TypeOK, KnownInv, KnownDocs
  <2>2. \A u \in Editors : saved'[u] \in stored \cup {Empty}
    BY <1>6, <2>1, KnownByShow DEF Edit
  <2>3. QED BY <1>0, <1>6, <2>2 DEF KnownInv, KnownDocs, Edit, row
<1>7. ASSUME NEW s \in Editors, NEW p \in Posts,
             \/ \E kind \in Kinds : Save(s, p, kind)
             \/ \E d \in revs : AskRestore(s, p, d)
             \/ AskDiscard(s, p)
      PROVE  KnownInv'
  <2>1. Sends(s, p)
    BY <1>0, <1>7, SendsOne
  <2>2. UNCHANGED <<row, saved>>
    BY <1>7 DEF Save, AskRestore, AskDiscard, text, session
  <2>3. QED BY <1>4, <2>1, <2>2
<1>8. ASSUME NEW p \in Posts, PatchPage(p) \/ PublishPage(p) \/ DiscardDraft(p) \/ RestoreRevision(p)
      PROVE  KnownInv'
  BY <1>0, <1>8, KnownServed DEF KnownInv
<1>9. ASSUME NEW p \in Posts, SaveDone(p) \/ Restored(p) \/ RequestFails(p) PROVE KnownInv'
  <2>0. post[p] \in Post /\ post[p].doc \in Docs /\ post[p].by \in Editors /\ doc[post[p].by] \in Docs
    BY <1>0, <1>9, PostsTyped, EndedTyped DEF TypedPosts, Post, TypeOK
  <2>1. \A u \in Editors : saved'[u] \in stored \cup {Empty}
    <3>1. CASE SaveDone(p) \/ Restored(p)
      <4>1. post[p].doc \in stored
        BY <3>1 DEF SaveDone, Restored, KnownInv, KnownDocs
      <4>2. QED BY <2>0, <3>1, <4>1, KnownByShow DEF SaveDone, Restored
    <3>2. CASE RequestFails(p)
      BY <3>2 DEF RequestFails, KnownInv, KnownDocs
    <3>3. QED BY <1>9, <3>1, <3>2
  <2>2. \A q \in Posts : post'[q].at \in {"publish", "done"} =>
          post[q].at = post'[q].at /\ post[q].doc = post'[q].doc
    BY <1>0, <1>9, <2>0, EndedTyped, AbandonedTyped, IdleTyped
  <2>3. UNCHANGED row
    BY <1>9 DEF SaveDone, Restored, RequestFails
  <2>4. QED BY <1>0, <2>1, <2>2, <2>3 DEF KnownInv, KnownDocs, row
<1>10. CASE LockExpires \/ UNCHANGED vars
  <2>1. UNCHANGED <<draft, published, revs, stored, saved, post>>
    BY <1>10 DEF LockExpires, SetLock, row, text, session, vars
  <2>2. QED BY <1>0, <2>1 DEF KnownInv, KnownDocs
<1>11. QED BY <1>1, <1>2, <1>3, <1>5, <1>6, <1>7, <1>8, <1>9, <1>10 DEF Next

LEMMA KnownAlways == Spec => []KnownInv
<1>1. QED BY KnownInit, KnownNext, PTL DEF Spec

(* A tab without unsaved changes shows a document that was the draft, or   *)
(* the empty one of a page that did not arrive: BuilderEditor.tsx.         *)
THEOREM CleanTabsAreStored == Spec => []CleanWasStored
<1>1. KnownInv => CleanWasStored
  BY DEF KnownInv, KnownDocs, CleanWasStored, Dirty
<1>2. QED BY <1>1, KnownAlways, PTL

(* The draft is always among the revisions one can restore, although the   *)
(* newest autosave may be overwritten: BuilderRevisions.php.               *)
THEOREM DraftCanBeRestored == Spec => []DraftHasRevision
<1>1. KnownInv => DraftHasRevision
  BY DEF KnownInv, KnownDocs, DraftHasRevision
<1>2. QED BY <1>1, KnownAlways, PTL

-----------------------------------------------------------------------------
(* Unsaved changes are watched                                             *)

(* Without a timer, the very document of the tab is on its way.            *)
OnItsWay(s) ==
  \E p \in Posts : post[p].by = s /\ post[p].live /\ IsSave(post[p]) /\ post[p].doc = doc[s]

Watched == \A s \in Editors : Dirty(s) /\ timer[s] = "off" => OnItsWay(s)

WatchInv == OwnedInv /\ Watched

LEMMA WatchInit == Init => WatchInv
BY OwnedInit DEF Init, WatchInv, Watched, Dirty

LEMMA StillOnItsWay ==
  ASSUME NEW s \in Editors, NEW p \in Posts,
         post[p].by = s, post[p].live, IsSave(post[p]), post[p].doc = doc[s],
         doc'[s] = doc[s], post'[p] = post[p]
  PROVE  OnItsWay(s)'
BY DEF OnItsWay, IsSave

(* The requests stay; the tabs of all but s do, too.                       *)
LEMMA WatchKept ==
  ASSUME WatchInv, NEW s \in Editors, NEW u \in Editors, Dirty(u)', timer'[u] = "off",
         doc'[u] = doc[u], saved'[u] = saved[u], timer'[u] = timer[u],
         mode'[u] = "open" => mode[u] = "open",
         \A p \in Posts : post[p].by = u /\ post[p].live => post'[p] = post[p]
  PROVE  OnItsWay(u)'
<1>1. Dirty(u) /\ timer[u] = "off"
  BY DEF Dirty
<1>2. PICK p \in Posts : post[p].by = u /\ post[p].live /\ IsSave(post[p]) /\ post[p].doc = doc[u]
  BY <1>1 DEF WatchInv, Watched, OnItsWay
<1>3. QED BY <1>2, StillOnItsWay

LEMMA WatchSends ==
  ASSUME WatchInv, NEW s \in Editors, NEW p \in Posts, Sends(s, p),
         UNCHANGED <<mode, doc, saved>>,
         \/ timer' = timer
         \/ /\ Send(s, p, "autosave", doc[s])
            /\ \A u \in Editors \ {s} : timer'[u] = timer[u]
  PROVE  Watched'
<1>0. TypeOK /\ Owned
  BY DEF WatchInv, OwnedInv
<1>1. post[p].at = "idle" /\ \A q \in Posts \ {p} : post'[q] = post[q]
  BY <1>0, SendTyped DEF Sends
<1>2. ~post[p].live
  BY <1>0, <1>1, IdleTyped DEF Owned
<1>3. ASSUME NEW u \in Editors, Dirty(u)', timer'[u] = "off" PROVE OnItsWay(u)'
  <2>1. CASE timer'[u] = timer[u]
    BY <1>1, <1>2, <1>3, <2>1, WatchKept
  <2>2. CASE u = s /\ Send(s, p, "autosave", doc[s])
    <3>1. doc[s] \in Docs /\ "autosave" \in Kinds
      BY <1>0 DEF TypeOK, Kinds
    <3>2. /\ post'[p].by = s /\ post'[p].kind = "autosave" /\ post'[p].doc = doc[s]
          /\ post'[p].live
      BY <1>0, <2>2, <3>1, SendTyped
    <3>3. QED BY <2>2, <3>2 DEF OnItsWay, IsSave
  <2>3. QED BY <1>3, <2>1, <2>2
<1>4. QED BY <1>3 DEF Watched

LEMMA WatchServed ==
  ASSUME WatchInv, NEW p \in Posts,
         PatchPage(p) \/ DiscardDraft(p) \/ RestoreRevision(p) \/ PublishPage(p)
  PROVE  Watched'
<1>0. TypeOK /\ Owned /\ post[p] \in Post /\ post[p].doc \in Docs
  BY PostsTyped DEF WatchInv, OwnedInv, TypedPosts, Post
<1>1. UNCHANGED <<mode, doc, saved, timer>> /\ \A q \in Posts \ {p} : post'[q] = post[q]
  BY <1>0, ServedTyped DEF PatchPage, DiscardDraft, RestoreRevision, PublishPage, session, text
<1>2. ASSUME post[p].live, IsSave(post[p])
      PROVE  /\ post'[p].by = post[p].by /\ post'[p].live /\ post'[p].doc = post[p].doc
             /\ IsSave(post'[p])
  <2>1. PatchPage(p) => draft' = post[p].doc
    BY <1>0, WriteTyped DEF PatchPage
  <2>2. PatchPage(p) \/ PublishPage(p)
    BY <1>2 DEF DiscardDraft, RestoreRevision, IsSave
  <2>3. QED BY <1>0, <1>2, <2>1, <2>2, ServedPost DEF IsSave
<1>3. ASSUME NEW u \in Editors, Dirty(u)', timer'[u] = "off" PROVE OnItsWay(u)'
  <2>1. Dirty(u) /\ timer[u] = "off"
    BY <1>1, <1>3 DEF Dirty
  <2>2. PICK q \in Posts : post[q].by = u /\ post[q].live /\ IsSave(post[q]) /\ post[q].doc = doc[u]
    BY <2>1 DEF WatchInv, Watched, OnItsWay
  <2>3. CASE q = p
    BY <1>1, <1>2, <2>2, <2>3 DEF OnItsWay
  <2>4. CASE q # p
    BY <1>1, <2>2, <2>4, StillOnItsWay
  <2>5. QED BY <2>3, <2>4
<1>4. QED BY <1>3 DEF Watched

(* The answer of a save leaves no change unwatched: a newer document of    *)
(* the tab has its timer or its own request.                               *)
LEMMA WatchEnded ==
  ASSUME WatchInv, NEW p \in Posts, SaveDone(p) \/ Restored(p) \/ RequestFails(p)
  PROVE  Watched'
<1>0. TypeOK /\ Owned /\ post[p] \in Post /\ post[p].doc \in Docs
  BY PostsTyped DEF WatchInv, OwnedInv, TypedPosts, Post
<1>a. post[p].by \in Editors /\ \A q \in Posts \ {p} : post'[q] = post[q]
  BY <1>0, EndedTyped
<1>b. PICK s \in Editors : s = post[p].by
  BY <1>a
<1>1. s \in Editors /\ \A q \in Posts \ {p} : post'[q] = post[q]
  BY <1>a
<1>2. doc[s] \in Docs /\ mode' = mode
  BY <1>0, <1>1 DEF TypeOK, SaveDone, Restored, RequestFails
<1>3. ASSUME NEW u \in Editors, u # s, Dirty(u)', timer'[u] = "off" PROVE OnItsWay(u)'
  <2>1. doc'[u] = doc[u] /\ saved'[u] = saved[u] /\ timer'[u] = timer[u]
    <3>1. CASE SaveDone(p) \/ Restored(p)
      BY <1>0, <1>1, <1>2, <1>3, <3>1, ShowTyped, <1>b DEF SaveDone, Restored
    <3>2. CASE RequestFails(p)
      BY <1>0, <1>3, <3>2, <1>b DEF RequestFails, TypeOK
    <3>3. QED BY <3>1, <3>2
  <2>2. \A q \in Posts : post[q].by = u => post'[q] = post[q]
    BY <1>1, <1>3, <1>b
  <2>3. QED BY <1>2, <1>3, <2>1, <2>2, WatchKept
<1>4. ASSUME Dirty(s)', timer'[s] = "off" PROVE OnItsWay(s)'
  <2>1. CASE SaveDone(p)
    <3>1. Show(s, doc[s], post[p].doc)
      BY <2>1, <1>b DEF SaveDone
    <3>2. doc'[s] = doc[s] /\ saved'[s] = post[p].doc
      BY <1>0, <1>1, <1>2, <3>1, ShowTyped
    <3>3. doc[s] # post[p].doc
      BY <1>4, <3>2 DEF Dirty
    <3>4. Dirty(s) /\ timer[s] = "off"
      BY <1>0, <1>1, <1>2, <1>4, <3>1, <3>3, ShowTyped
    <3>5. PICK q \in Posts : post[q].by = s /\ post[q].live /\ IsSave(post[q]) /\ post[q].doc = doc[s]
      BY <1>1, <3>4 DEF WatchInv, Watched, OnItsWay
    <3>6. q # p
      BY <3>3, <3>5
    <3>7. QED BY <1>1, <3>2, <3>5, <3>6, StillOnItsWay
  <2>2. CASE Restored(p)
    <3>1. doc'[s] = saved'[s]
      BY <1>0, <1>1, <2>2, ShowTyped, <1>b DEF Restored
    <3>2. QED BY <1>4, <3>1 DEF Dirty
  <2>3. CASE RequestFails(p)
    <3>1. UNCHANGED <<mode, doc, saved>>
      BY <2>3 DEF RequestFails
    <3>2. ~(post[p].live /\ IsSave(post[p])) /\ timer'[s] = timer[s]
      BY <1>0, <1>1, <1>4, <2>3, <1>b DEF RequestFails, TypeOK
    <3>3. PICK q \in Posts : post[q].by = s /\ post[q].live /\ IsSave(post[q]) /\ post[q].doc = doc[s]
      BY <1>1, <1>4, <3>1, <3>2 DEF WatchInv, Watched, OnItsWay, Dirty
    <3>4. q # p
      BY <3>2, <3>3
    <3>5. QED BY <1>1, <3>1, <3>3, <3>4, StillOnItsWay
  <2>4. QED BY <2>1, <2>2, <2>3
<1>5. QED BY <1>3, <1>4 DEF Watched

LEMMA WatchNext == WatchInv /\ [Next]_vars => WatchInv'
<1> SUFFICES ASSUME WatchInv, [Next]_vars PROVE WatchInv'
  OBVIOUS
<1>0. OwnedInv' /\ TypeOK /\ Owned
  BY OwnedNext DEF WatchInv, OwnedInv
<1>1. ASSUME post' = post, UNCHANGED text, \A s \in Editors : mode'[s] = "open" => mode[s] = "open"
      PROVE  WatchInv'
  <2>1. ASSUME NEW u \in Editors, Dirty(u)', timer'[u] = "off" PROVE OnItsWay(u)'
    BY <1>1, <2>1, WatchKept DEF text
  <2>2. QED BY <1>0, <2>1 DEF WatchInv, Watched
<1>2. ASSUME NEW s \in Editors, Open(s) \/ Heartbeat(s) \/ TakeOver(s) PROVE WatchInv'
  BY <1>0, <1>1, <1>2 DEF Open, Heartbeat, TakeOver, session, TypeOK
<1>3. ASSUME NEW s \in Editors, NEW d \in Docs, NEW v \in Docs, Show(s, d, v), post' = post,
             d = v \/ (d # doc[s] /\ v = saved[s]),
             \A u \in Editors \ {s} : mode'[u] = mode[u]
      PROVE  WatchInv'
  <2>1. ASSUME NEW u \in Editors, Dirty(u)', timer'[u] = "off" PROVE OnItsWay(u)'
    <3>1. CASE u = s
      BY <1>0, <1>3, <2>1, <3>1, ShowTyped DEF Dirty
    <3>2. CASE u # s
      BY <1>0, <1>3, <2>1, <3>2, ShowTyped, WatchKept
    <3>3. QED BY <3>1, <3>2
  <2>2. QED BY <1>0, <2>1 DEF WatchInv, Watched
<1>4. ASSUME NEW s \in Editors, Load(s) PROVE WatchInv'
  BY <1>0, <1>3, <1>4, EditorAssumption DEF Load, TypeOK
<1>5. ASSUME NEW s \in Editors, NEW d \in Docs, Edit(s, d) PROVE WatchInv'
  BY <1>0, <1>3, <1>5 DEF Edit, TypeOK
<1>6. ASSUME NEW s \in Editors, Leave(s) PROVE WatchInv'
  <2>1. ASSUME NEW u \in Editors, Dirty(u)', timer'[u] = "off" PROVE OnItsWay(u)'
    <3>1. u # s
      BY <1>0, <1>6, <2>1 DEF Leave, Dirty, TypeOK
    <3>2. /\ doc'[u] = doc[u] /\ saved'[u] = saved[u] /\ timer'[u] = timer[u] /\ mode'[u] = mode[u]
          /\ \A p \in Posts : post[p].by = u => post'[p] = post[p]
      BY <1>0, <1>6, <3>1 DEF Leave, TypeOK
    <3>3. QED BY <2>1, <3>2, WatchKept
  <2>2. QED BY <1>0, <2>1 DEF WatchInv, Watched
<1>7. ASSUME NEW s \in Editors, Autosave(s) PROVE WatchInv'
  <2>1. CASE saving[s]
    <3>1. ASSUME NEW u \in Editors, Dirty(u)', timer'[u] = "off" PROVE OnItsWay(u)'
      <4>1. u # s /\ timer'[u] = timer[u]
        BY <1>0, <1>7, <2>1, <3>1 DEF Autosave, TypeOK
      <4>2. QED BY <1>7, <2>1, <3>1, <4>1, WatchKept DEF Autosave
    <3>2. QED BY <1>0, <3>1 DEF WatchInv, Watched
  <2>2. CASE ~saving[s]
    <3>1. PICK p \in Posts : Send(s, p, "autosave", doc[s])
      BY <1>7, <2>2 DEF Autosave
    <3>2. Sends(s, p)
      BY <1>0, <3>1, SendsOne DEF Kinds
    <3>3. \A u \in Editors \ {s} : timer'[u] = timer[u]
      BY <1>0, <1>7 DEF Autosave, TypeOK
    <3>4. QED BY <1>0, <1>7, <3>1, <3>2, <3>3, WatchSends DEF Autosave, WatchInv
  <2>3. QED BY <2>1, <2>2
<1>8. ASSUME NEW s \in Editors, NEW p \in Posts,
             \/ \E kind \in Kinds : Save(s, p, kind)
             \/ \E d \in revs : AskRestore(s, p, d)
             \/ AskDiscard(s, p)
      PROVE  WatchInv'
  <2>1. Sends(s, p)
    BY <1>0, <1>8, SendsOne
  <2>2. UNCHANGED <<mode, doc, saved>> /\ timer' = timer
    BY <1>8 DEF Save, AskRestore, AskDiscard, text, session
  <2>3. QED BY <1>0, <2>1, <2>2, WatchSends DEF WatchInv
<1>9. ASSUME NEW p \in Posts, PatchPage(p) \/ PublishPage(p) \/ DiscardDraft(p) \/ RestoreRevision(p)
      PROVE  WatchInv'
  BY <1>0, <1>9, WatchServed DEF WatchInv
<1>10. ASSUME NEW p \in Posts, SaveDone(p) \/ Restored(p) \/ RequestFails(p) PROVE WatchInv'
  BY <1>0, <1>10, WatchEnded DEF WatchInv
<1>11. CASE LockExpires \/ UNCHANGED vars
  BY <1>1, <1>11 DEF LockExpires, session, vars
<1>12. QED BY <1>2, <1>4, <1>5, <1>6, <1>7, <1>8, <1>9, <1>10, <1>11 DEF Next

(* Unsaved changes have a timer or a request, unless an autosave was       *)
(* skipped or a save failed: BuilderEditor.tsx.                            *)
THEOREM ChangesAreWatched == Spec => []UnsavedIsWatched
<1>1. WatchInv => UnsavedIsWatched
  BY DEF WatchInv, Watched, OnItsWay, UnsavedIsWatched
<1>2. QED BY <1>1, WatchInit, WatchNext, PTL DEF Spec

-----------------------------------------------------------------------------
(* An editor who was alone is right about the draft                        *)

(* He has the page open and the lock, and at most one request, whose       *)
(* answer he hears; what it wrote is the draft, and before it wrote, and   *)
(* without one, the draft is what he saved.                                *)
Right(s) ==
  /\ mode[s] = "open" /\ lock = s
  /\ \A p, q \in Posts : post[p].by = s /\ post[q].by = s => p = q
  /\ \A p \in Posts : post[p].by = s =>
       /\ post[p].live
       /\ post[p].at = "sent" => saved[s] = draft
       /\ post[p].at \in {"publish", "done"} => post[p].doc = draft
  /\ Quiet(s) => saved[s] = draft

SoleIsRight == \A s \in Editors : sole[s] => Right(s)

SoleInv == OwnedInv /\ SoleIsRight

LEMMA SoleInit == Init => SoleInv
BY OwnedInit DEF Init, SoleInv, SoleIsRight

(* Nothing of s changes: neither his tab nor his requests, nor the draft.   *)
LEMMA RightKept ==
  ASSUME NEW s \in Editors, Right(s),
         mode'[s] = mode[s], lock' = lock, saved'[s] = saved[s], draft' = draft,
         \A p \in Posts : post'[p] = post[p] \/ (post[p].by # s /\ post'[p].by # s)
  PROVE  Right(s)'
BY DEF Right, Quiet

LEMMA SoleSends ==
  ASSUME SoleInv, NEW s \in Editors, NEW p \in Posts, Sends(s, p),
         UNCHANGED <<row, mode, saved>>
  PROVE  SoleIsRight'
<1>0. TypeOK /\ Owned
  BY DEF SoleInv, OwnedInv
<1>1. /\ post[p].at = "idle" /\ post'[p].by = s /\ post'[p].at = "sent" /\ post'[p].live
      /\ \A q \in Posts \ {p} : post'[q] = post[q]
  BY <1>0, SendTyped DEF Sends
<1>2. sole' = [sole EXCEPT ![s] = sole[s] /\ Quiet(s)]
  BY DEF Sends, Send
<1>3. ASSUME NEW u \in Editors, u # s, sole'[u] PROVE Right(u)'
  <2>1. sole[u] /\ Right(u)
    BY <1>0, <1>2, <1>3 DEF TypeOK, SoleInv, SoleIsRight
  <2>2. post[p].by # u
    BY <1>0, <1>1, IdleTyped, EditorAssumption DEF Owned
  <2>3. QED BY <1>1, <1>3, <2>1, <2>2, RightKept DEF row
<1>4. ASSUME sole'[s] PROVE Right(s)'
  <2>1. sole[s] /\ Quiet(s)
    BY <1>0, <1>2, <1>4 DEF TypeOK
  <2>2. Right(s)
    BY <2>1 DEF SoleInv, SoleIsRight
  <2>3. \A q \in Posts \ {p} : post'[q].by # s
    BY <1>1, <2>1 DEF Quiet
  <2>4. saved[s] = draft
    BY <2>1, <2>2 DEF Right
  <2>5. QED BY <1>1, <2>2, <2>3, <2>4 DEF Right, Quiet, row
<1>5. QED BY <1>3, <1>4 DEF SoleIsRight

(* Who writes the draft holds the lock or restores, so it is the editor    *)
(* who was alone, and his request now carries the draft.                   *)
LEMMA SoleServed ==
  ASSUME SoleInv, NEW p \in Posts,
         PatchPage(p) \/ DiscardDraft(p) \/ RestoreRevision(p) \/ PublishPage(p)
  PROVE  SoleIsRight'
<1>0. TypeOK /\ Owned /\ post[p] \in Post /\ post[p].doc \in Docs /\ draft \in Docs /\ published \in Docs
  BY PostsTyped DEF SoleInv, OwnedInv, TypedPosts, Post, TypeOK
<1>1. /\ UNCHANGED <<mode, saved, lock>> /\ post[p].by \in Editors
      /\ \A q \in Posts \ {p} : post'[q] = post[q]
  BY <1>0, ServedTyped, OwnedServed
  DEF PatchPage, DiscardDraft, RestoreRevision, PublishPage, session, text
<1>2. ASSUME NEW s \in Editors, sole'[s] PROVE Right(s)'
  <2>1. sole[s] /\ (RestoreRevision(p) => s = post[p].by)
    BY <1>0, <1>2 DEF PatchPage, DiscardDraft, RestoreRevision, PublishPage, TypeOK
  <2>2. Right(s)
    BY <2>1 DEF SoleInv, SoleIsRight
  <2>3. CASE post[p].by # s
    <3>1. PublishPage(p)
      BY <1>1, <2>1, <2>2, <2>3, EditorAssumption
      DEF PatchPage, DiscardDraft, RestoreRevision, Writable, Right
    <3>2. draft' = draft
      BY <3>1 DEF PublishPage
    <3>3. post'[p].by # s
      BY <1>0, <2>3, ServedPost, IdleTyped, EditorAssumption
    <3>4. QED BY <1>1, <2>2, <2>3, <3>2, <3>3, RightKept
  <2>4. CASE post[p].by = s
    <3>1. post[p].live /\ \A q \in Posts \ {p} : post[q].by # s
      BY <2>2, <2>4 DEF Right
    <3>2. PatchPage(p) => draft' = post[p].doc
      BY <1>0, WriteTyped DEF PatchPage
    <3>3. PublishPage(p) => post[p].doc = draft /\ draft' = draft
      BY <2>2, <2>4 DEF PublishPage, Right
    <3>4. /\ post'[p].at \in {"publish", "done"} /\ post'[p].live /\ post'[p].by = s
          /\ post'[p].doc = draft'
      BY <1>0, <2>4, <3>1, <3>2, <3>3, ServedPost
    <3>5. QED BY <1>1, <2>2, <3>1, <3>4 DEF Right, Quiet
  <2>5. QED BY <2>3, <2>4
<1>3. QED BY <1>2 DEF SoleIsRight

LEMMA SoleEnded ==
  ASSUME SoleInv, NEW p \in Posts, SaveDone(p) \/ Restored(p) \/ RequestFails(p)
  PROVE  SoleIsRight'
<1>0. TypeOK /\ Owned /\ post[p] \in Post /\ post[p].doc \in Docs
  BY PostsTyped DEF SoleInv, OwnedInv, TypedPosts, Post
<1>1. /\ post[p].by \in Editors /\ \A q \in Posts \ {p} : post'[q] = post[q]
      /\ UNCHANGED <<row, mode>>
  BY <1>0, EndedTyped DEF SaveDone, Restored, RequestFails
<1>2. post'[p].by \in {Nobody, post[p].by}
  BY <1>0, EndedTyped, AbandonedTyped, IdleTyped
<1>3. ASSUME NEW s \in Editors, sole'[s] PROVE Right(s)'
  <2>1. sole[s]
    BY <1>0, <1>1, <1>3 DEF SaveDone, Restored, RequestFails, TypeOK
  <2>2. Right(s)
    BY <2>1 DEF SoleInv, SoleIsRight
  <2>3. CASE post[p].by # s
    <3>1. post'[p].by # s
      BY <1>2, <2>3, EditorAssumption
    <3>2. saved'[s] = saved[s]
      <4>1. doc[post[p].by] \in Docs
        BY <1>0, <1>1 DEF TypeOK
      <4>2. QED BY <1>0, <1>1, <2>3, <4>1, ShowTyped DEF SaveDone, Restored, RequestFails
    <3>3. QED BY <1>1, <2>2, <2>3, <3>1, <3>2, RightKept DEF row
  <2>4. CASE post[p].by = s
    <3>1. \A q \in Posts \ {p} : post[q].by # s
      BY <2>2, <2>4 DEF Right
    <3>2. post'[p] = Idle
      BY <1>0, <1>1, <1>3, <2>4, EndedTyped DEF RequestFails, TypeOK
    <3>3. saved'[s] = draft
      <4>1. CASE SaveDone(p) \/ Restored(p)
        <5>1. post[p].doc = draft /\ doc[s] \in Docs
          BY <1>0, <2>2, <2>4, <4>1 DEF SaveDone, Restored, Right, TypeOK
        <5>2. QED BY <1>0, <2>4, <4>1, <5>1, ShowTyped DEF SaveDone, Restored
      <4>2. CASE RequestFails(p)
        <5>1. post[p].at = "sent" /\ saved' = saved
          BY <1>0, <1>3, <2>4, <4>2 DEF RequestFails, TypeOK
        <5>2. QED BY <2>2, <2>4, <5>1 DEF Right
      <4>3. QED BY <4>1, <4>2
    <3>4. \A q \in Posts : post'[q].by # s
      BY <1>1, <3>1, <3>2, IdleTyped, EditorAssumption
    <3>5. QED BY <1>1, <2>2, <3>3, <3>4 DEF Right, Quiet, row
  <2>5. QED BY <2>3, <2>4
<1>4. QED BY <1>3 DEF SoleIsRight

LEMMA SoleNext == SoleInv /\ [Next]_vars => SoleInv'
<1> SUFFICES ASSUME SoleInv, [Next]_vars PROVE SoleInv'
  OBVIOUS
<1>0. OwnedInv' /\ TypeOK /\ Owned
  BY OwnedNext DEF SoleInv, OwnedInv
<1>1. ASSUME NEW s \in Editors, sole[s] PROVE Right(s)
  BY <1>1 DEF SoleInv, SoleIsRight
<1>2. ASSUME NEW l \in Editors \cup {Nobody}, SetLock(l), UNCHANGED <<mode, saved, post>>
      PROVE  SoleInv'
  <2>1. ASSUME NEW s \in Editors, sole'[s] PROVE Right(s)'
    <3>1. sole[s] /\ l = s /\ lock' = l /\ draft' = draft
      BY <1>2, <2>1 DEF SetLock
    <3>2. Right(s)
      BY <1>1, <3>1
    <3>3. QED BY <1>2, <3>1, <3>2 DEF Right, Quiet
  <2>2. QED BY <1>0, <2>1 DEF SoleInv, SoleIsRight
<1>3. ASSUME UNCHANGED <<row, sole, post>>,
             \A s \in Editors : sole[s] => mode'[s] = mode[s] /\ saved'[s] = saved[s]
      PROVE  SoleInv'
  <2>1. ASSUME NEW s \in Editors, sole'[s] PROVE Right(s)'
    BY <1>1, <1>3, <2>1, RightKept DEF row
  <2>2. QED BY <1>0, <2>1 DEF SoleInv, SoleIsRight
<1>4. ASSUME NEW s \in Editors, Open(s) \/ Heartbeat(s) \/ TakeOver(s) PROVE SoleInv'
  <2>1. CASE Open(s)
    BY <1>0, <1>1, <1>3, <2>1 DEF Open, Right, text, TypeOK
  <2>2. CASE Heartbeat(s) \/ TakeOver(s)
    BY <1>2, <1>3, <2>2 DEF Heartbeat, TakeOver, session, text
  <2>3. QED BY <1>4, <2>1, <2>2
<1>5. ASSUME NEW s \in Editors, Load(s) PROVE SoleInv'
  <2>0. ~sole[s] /\ draft \in Docs /\ Empty \in Docs
    BY <1>0, <1>1, <1>5, EditorAssumption DEF Load, Right, TypeOK
  <2>1. ASSUME NEW u \in Editors, u # s, sole'[u] PROVE Right(u)'
    <3>1. sole[u] /\ mode'[u] = mode[u] /\ saved'[u] = saved[u]
      BY <1>0, <1>5, <2>0, <2>1, ShowTyped DEF Load, TypeOK
    <3>2. QED BY <1>1, <1>5, <3>1, RightKept DEF Load, row
  <2>2. ASSUME sole'[s] PROVE Right(s)'
    <3>1. /\ Show(s, draft, draft) /\ sole' = [sole EXCEPT ![s] = lock = s /\ Quiet(s)]
      BY <1>5, <2>0, <2>2 DEF Load
    <3>2. saved'[s] = draft /\ lock = s /\ Quiet(s) /\ mode'[s] = "open"
      BY <1>0, <1>5, <2>0, <2>2, <3>1, ShowTyped DEF Load, TypeOK
    <3>3. QED BY <1>5, <3>2 DEF Load, row, Right, Quiet
  <2>3. QED BY <1>0, <2>1, <2>2 DEF SoleInv, SoleIsRight
<1>6. ASSUME NEW s \in Editors, Leave(s) PROVE SoleInv'
  <2>1. ASSUME NEW u \in Editors, sole'[u] PROVE Right(u)'
    <3>1. u # s /\ sole[u] /\ mode'[u] = mode[u] /\ saved'[u] = saved[u]
      BY <1>0, <1>6, <2>1 DEF Leave, TypeOK
    <3>2. Right(u)
      BY <1>1, <3>1
    <3>3. lock' = lock /\ draft' = draft
      BY <1>6, <3>1, <3>2 DEF Leave, Right
    <3>4. \A p \in Posts : post'[p] = post[p] \/ (post[p].by # u /\ post'[p].by # u)
      BY <1>0, <1>6, <3>1, LeaveEffect, IdleTyped, EditorAssumption
    <3>5. QED BY <3>1, <3>2, <3>3, <3>4, RightKept
  <2>2. QED BY <1>0, <2>1 DEF SoleInv, SoleIsRight
<1>7. ASSUME NEW s \in Editors, Autosave(s) PROVE SoleInv'
  <2>1. CASE saving[s]
    BY <1>3, <1>7, <2>1 DEF Autosave
  <2>2. CASE ~saving[s]
    <3>1. PICK p \in Posts : Send(s, p, "autosave", doc[s])
      BY <1>7, <2>2 DEF Autosave
    <3>2. Sends(s, p)
      BY <1>0, <3>1, SendsOne DEF Kinds
    <3>3. QED BY <1>0, <1>7, <3>2, SoleSends DEF Autosave, SoleInv
  <2>3. QED BY <2>1, <2>2
<1>8. ASSUME NEW s \in Editors, NEW d \in Docs, Edit(s, d) PROVE SoleInv'
  <2>1. saved' = saved
    BY <1>0, <1>8 DEF Edit, Show, TypeOK
  <2>2. QED BY <1>3, <1>8, <2>1 DEF Edit
<1>9. ASSUME NEW s \in Editors, NEW p \in Posts,
             \/ \E kind \in Kinds : Save(s, p, kind)
             \/ \E d \in revs : AskRestore(s, p, d)
             \/ AskDiscard(s, p)
      PROVE  SoleInv'
  <2>1. Sends(s, p)
    BY <1>0, <1>9, SendsOne
  <2>2. UNCHANGED <<row, mode, saved>>
    BY <1>9 DEF Save, AskRestore, AskDiscard, text, session
  <2>3. QED BY <1>0, <2>1, <2>2, SoleSends DEF SoleInv
<1>10. ASSUME NEW p \in Posts, PatchPage(p) \/ PublishPage(p) \/ DiscardDraft(p) \/ RestoreRevision(p)
       PROVE  SoleInv'
  BY <1>0, <1>10, SoleServed DEF SoleInv
<1>11. ASSUME NEW p \in Posts, SaveDone(p) \/ Restored(p) \/ RequestFails(p) PROVE SoleInv'
  BY <1>0, <1>11, SoleEnded DEF SoleInv
<1>12. CASE LockExpires
  BY <1>2, <1>12 DEF LockExpires, session, text
<1>13. CASE UNCHANGED vars
  BY <1>3, <1>13 DEF vars, session, text
<1>14. QED BY <1>4, <1>5, <1>6, <1>7, <1>8, <1>9, <1>10, <1>11, <1>12, <1>13 DEF Next

LEMMA SoleAlways == Spec => []SoleInv
<1>1. QED BY SoleInit, SoleNext, PTL DEF Spec

(* A tab at rest whose user held the lock all along, sent one request at a *)
(* time and got every answer is right about the draft: BuilderEditor.tsx,  *)
(* BuilderController.php.                                                  *)
THEOREM TheSavedIsTheDraft == Spec => []SavedIsDraft
<1>1. SoleInv => SavedIsDraft
  BY DEF SoleInv, SoleIsRight, Right, SavedIsDraft
<1>2. QED BY <1>1, SoleAlways, PTL

(* Under the same conditions a publish call publishes what its save sent:  *)
(* BuilderEditor.tsx, BuilderController.php.                               *)
THEOREM TheSavedIsPublished == Spec => []PublishesTheSaved
<1>1. ASSUME SoleInv, NEW p \in Posts, post[p].at = "publish", sole[post[p].by]
      PROVE  draft = post[p].doc
  <2>1. post[p].by \in Editors
    BY <1>1 DEF SoleInv, OwnedInv, Owned
  <2>2. QED BY <1>1, <2>1 DEF SoleInv, SoleIsRight, Right
<1>2. SoleInv => PublishesTheSaved
  BY <1>1 DEF PublishesTheSaved
<1>3. QED BY <1>2, SoleAlways, PTL
=============================================================================
