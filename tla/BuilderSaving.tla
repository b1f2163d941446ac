---------------------------- MODULE BuilderSaving ----------------------------
(***************************************************************************)
(* Several users edit one page of the site builder.  Each has the page     *)
(* open in a tab (builder/editor/BuilderEditor.tsx, RevisionsPanel.tsx,    *)
(* PageSettingsPanel.tsx): the document he sees, the document he last      *)
(* saved, his autosave timer and his requests under way.  The server       *)
(* (BuilderController, BuilderPageSettingsController,                      *)
(* BuilderRevisionController, BuilderPageLifecycle, BuilderRevisions)      *)
(* keeps the draft, the published copy, the revisions and the edit lock.   *)
(*                                                                         *)
(* Documents are opaque here: EditorHistory says how a tab changes its own.*)
(***************************************************************************)

CONSTANTS
  Editors,      \* users who may edit the page, each in one tab
  Nobody,
  Docs,         \* documents
  Empty,        \* emptyDocument()
  Page,         \* what the page held at first
  Posts         \* requests under way at the same time, of all editors

ASSUME EditorAssumption == Nobody \notin Editors /\ {Empty, Page} \subseteq Docs

VARIABLES
  draft, published,  \* builder_draft and builder_published
  revs,              \* documents of the revisions of the page
  lock,              \* who holds an unexpired meta.builder_lock
  mode,              \* per editor: "closed", "loading" or "open"
  doc,               \* per editor: the document in the tab
  saved,             \* per editor: savedJson
  timer,             \* per editor: the autosave timer is "off" or "set", or since it
                     \* ran an autosave was skipped or a save failed: "missed"
  saving,            \* per editor: the flag saving
  post,              \* per request: whose, what and how far
  stored,            \* history: documents that were the draft
  sole               \* history, per editor: ever since the page arrived he held
                     \* the lock, had one request at a time, got every answer,
                     \* and nobody else restored a revision

row     == <<draft, published, revs, lock, stored>>
text    == <<doc, saved, timer>>
session == <<mode, text, saving>>
vars    == <<row, session, post, sole>>

-----------------------------------------------------------------------------
Kinds == {"save", "autosave", "publish", "restore", "discard"}

\* A request waits for its first call, for the publish call of a save that
\* publishes, or for its answer to be heard.
Stages == {"idle", "sent", "publish", "done"}

Idle == [by |-> Nobody, kind |-> "save", doc |-> Empty, at |-> "idle",
         live |-> FALSE]

IsSave(x) == x.kind \in {"save", "autosave", "publish"}

\* The request x is answered, d written; nobody waits in a tab that was left.
Answer(x, d) ==
  IF x.live THEN [x EXCEPT !.kind = IF IsSave(x) THEN "save" ELSE "restore",
                           !.doc = d, !.at = "done"]
            ELSE Idle
Abandoned(x) ==
  IF x.at \in {"sent", "publish"} THEN [x EXCEPT !.live = FALSE] ELSE Idle

Quiet(s)    == \A p \in Posts : post[p].by # s
Dirty(s)    == mode[s] = "open" /\ doc[s] # saved[s]
Writable(s) == lock \in {Nobody, s}

Init ==
  /\ draft = Page /\ published = Page /\ revs = {Page} /\ stored = {Page}
  /\ lock = Nobody
  /\ mode = [s \in Editors |-> "closed"]
  /\ doc = [s \in Editors |-> Empty] /\ saved = [s \in Editors |-> Empty]
  /\ timer = [s \in Editors |-> "off"] /\ saving = [s \in Editors |-> FALSE]
  /\ sole = [s \in Editors |-> FALSE]
  /\ post = [p \in Posts |-> Idle]

\* Mutant of Show: the timer starts for a changed document only.
ShowAndForget(s, d, v) ==
  /\ doc' = [doc EXCEPT ![s] = d]
  /\ saved' = [saved EXCEPT ![s] = v]
  /\ timer' = [timer EXCEPT ![s] = IF d = v THEN "off"
                                   ELSE IF d # doc[s] THEN "set" ELSE @]

\* The document of s becomes d and the saved one v.  The effect of autosave
\* starts its timer anew when the document changes or becomes dirty.
Show(s, d, v) ==
  /\ doc' = [doc EXCEPT ![s] = d]
  /\ saved' = [saved EXCEPT ![s] = v]
  /\ timer' = [timer EXCEPT ![s] = IF d = v THEN "off"
                                   ELSE IF d # doc[s] \/ ~Dirty(s) THEN "set" ELSE @]

-----------------------------------------------------------------------------
(* Opening, leaving and the edit lock.                                     *)

\* The tab starts with an empty document; GET of the page is under way.
Open(s) ==
  /\ mode[s] = "closed"
  /\ mode' = [mode EXCEPT ![s] = "loading"]
  /\ UNCHANGED <<row, text, saving, post, sole>>

\* The page arrives, or does not: the editor opens with an empty document.
Load(s) ==
  /\ mode[s] = "loading"
  /\ mode' = [mode EXCEPT ![s] = "open"]
  /\ \/ Show(s, draft, draft) /\ sole' = [sole EXCEPT ![s] = lock = s /\ Quiet(s)]
     \/ Show(s, Empty, Empty) /\ UNCHANGED sole
  /\ UNCHANGED <<row, saving, post>>

\* The tab is left: the state is gone, the lock is released, and what was sent
\* goes on without anyone to hear the answer.
Leave(s) ==
  /\ mode[s] # "closed"
  /\ mode' = [mode EXCEPT ![s] = "closed"]
  /\ doc' = [doc EXCEPT ![s] = Empty] /\ saved' = [saved EXCEPT ![s] = Empty]
  /\ timer' = [timer EXCEPT ![s] = "off"] /\ saving' = [saving EXCEPT ![s] = FALSE]
  /\ sole' = [sole EXCEPT ![s] = FALSE]
  /\ lock' = IF lock = s THEN Nobody ELSE lock
  /\ post' = [p \in Posts |-> IF post[p].by = s THEN Abandoned(post[p]) ELSE post[p]]
  /\ UNCHANGED <<draft, published, revs, stored>>

\* The lock becomes l; who loses it does not hold it throughout.
SetLock(l) ==
  /\ lock' = l
  /\ sole' = [s \in Editors |-> sole[s] /\ l = s]
  /\ UNCHANGED <<draft, published, revs, stored>>

\* 90 s without a heartbeat: the holder's tab is gone, asleep or offline.
LockExpires ==
  /\ lock # Nobody /\ SetLock(Nobody)
  /\ UNCHANGED <<session, post>>

\* acquireLock: at first and every 45 s.  A refused one shows the banner with
\* the button that takes the lock over.
Heartbeat(s) ==
  /\ mode[s] # "closed"
  /\ IF Writable(s) THEN SetLock(s) ELSE UNCHANGED <<row, sole>>
  /\ UNCHANGED <<session, post>>

TakeOver(s) ==
  /\ mode[s] = "open" /\ ~Writable(s)
  /\ SetLock(s)
  /\ UNCHANGED <<session, post>>

-----------------------------------------------------------------------------
(* The tab: editing and sending.                                           *)

\* commit, a resize, undo or redo: the tab shows another document.
Edit(s, d) ==
  /\ mode[s] = "open" /\ d # doc[s]
  /\ Show(s, d, saved[s])
  /\ UNCHANGED <<row, mode, saving, post, sole>>

Send(s, p, kind, d) ==
  /\ post[p].at = "idle"
  /\ post' = [post EXCEPT ![p] = [by |-> s, kind |-> kind, doc |-> d, at |-> "sent",
                                  live |-> TRUE]]
  /\ sole' = [sole EXCEPT ![s] = @ /\ Quiet(s)]

\* The buttons, Ctrl+S and Ctrl+Shift+S.  (While the page loads the title is
\* empty and the server refuses the request, whatever it carries.)
Save(s, p, kind) ==
  /\ mode[s] = "open" /\ kind \in {"save", "publish"}
  /\ Send(s, p, kind, doc[s])
  /\ saving' = [saving EXCEPT ![s] = TRUE]
  /\ UNCHANGED <<row, mode, text>>

\* Mutant of Autosave: the timer is left in a state of its own.
AutosaveMisspelt(s) ==
  /\ mode[s] = "open" /\ timer[s] = "set"
  /\ IF saving[s] THEN UNCHANGED <<post, sole>>
                  ELSE \E p \in Posts : Send(s, p, "autosave", doc[s])
  /\ timer' = [timer EXCEPT ![s] = IF saving[s] THEN "miss" ELSE "off"]
  /\ saving' = [saving EXCEPT ![s] = TRUE]
  /\ UNCHANGED <<row, mode, doc, saved>>

\* The timer of the last change fires: skipped while a save is under way.
Autosave(s) ==
  /\ mode[s] = "open" /\ timer[s] = "set"
  /\ IF saving[s] THEN UNCHANGED <<post, sole>>
                  ELSE \E p \in Posts : Send(s, p, "autosave", doc[s])
  /\ timer' = [timer EXCEPT ![s] = IF saving[s] THEN "missed" ELSE "off"]
  /\ saving' = [saving EXCEPT ![s] = TRUE]
  /\ UNCHANGED <<row, mode, doc, saved>>

\* RevisionsPanel: a revision of the list is to be the draft again.
AskRestore(s, p, d) ==
  /\ mode[s] = "open" /\ d \in revs
  /\ Send(s, p, "restore", d)
  /\ UNCHANGED <<row, session>>

\* PageSettingsPanel: the published copy is to be the draft again.
AskDiscard(s, p) ==
  /\ mode[s] = "open"
  /\ Send(s, p, "discard", Empty)
  /\ UNCHANGED <<row, session>>

-----------------------------------------------------------------------------
(* The server.                                                             *)

\* Mutant of WriteDraft: an autosave makes no revision.
WriteDraftOnly(d, x) ==
  /\ draft' = d
  /\ stored' = stored \cup {d}
  /\ revs' = IF x.kind = "autosave" THEN revs ELSE revs \cup {d}

\* A change of the draft makes a revision.  An autosave overwrites the newest
\* one, which is of the draft, if that is an autosave of the same user in the
\* last 10 minutes: when that is so is left open.
WriteDraft(d, x) ==
  /\ draft' = d
  /\ stored' = stored \cup {d}
  /\ \/ revs' = revs \cup {d}
     \/ x.kind = "autosave" /\ revs' = (revs \ {draft}) \cup {d}

\* Mutant of PatchPage: the lock is not asked.
PatchAnyway(p) ==
  /\ post[p].at = "sent" /\ IsSave(post[p])
  /\ WriteDraft(post[p].doc, post[p])
  /\ post' = [post EXCEPT ![p] = IF @.kind = "publish" THEN [@ EXCEPT !.at = "publish"]
                                                       ELSE Answer(@, draft')]
  /\ UNCHANGED <<published, lock, session, sole>>

\* BuilderController::update.
PatchPage(p) ==
  /\ post[p].at = "sent" /\ IsSave(post[p]) /\ Writable(post[p].by)
  /\ WriteDraft(post[p].doc, post[p])
  /\ post' = [post EXCEPT ![p] = IF @.kind = "publish" THEN [@ EXCEPT !.at = "publish"]
                                                       ELSE Answer(@, draft')]
  /\ UNCHANGED <<published, lock, session, sole>>

\* Mutant of DiscardDraft: without guardLock.
DiscardAnyway(p) ==
  /\ post[p].at = "sent" /\ post[p].kind = "discard"
  /\ WriteDraft(published, post[p])
  /\ post' = [post EXCEPT ![p] = Answer(@, draft')]
  /\ UNCHANGED <<published, lock, session, sole>>

\* BuilderPageSettingsController::discard.
DiscardDraft(p) ==
  /\ post[p].at = "sent" /\ post[p].kind = "discard" /\ Writable(post[p].by)
  /\ WriteDraft(published, post[p])
  /\ post' = [post EXCEPT ![p] = Answer(@, draft')]
  /\ UNCHANGED <<published, lock, session, sole>>

\* BuilderRevisionController::restore asks no lock.
RestoreRevision(p) ==
  /\ post[p].at = "sent" /\ post[p].kind = "restore"
  /\ WriteDraft(post[p].doc, post[p])
  /\ post' = [post EXCEPT ![p] = Answer(@, draft')]
  /\ sole' = [s \in Editors |-> sole[s] /\ s = post[p].by]
  /\ UNCHANGED <<published, lock, session>>

\* BuilderController::publish, the second call of a save that publishes.
PublishPage(p) ==
  /\ post[p].at = "publish"
  /\ published' = draft
  /\ revs' = revs \cup {draft}
  /\ post' = [post EXCEPT ![p] = Answer(@, @.doc)]
  /\ UNCHANGED <<draft, lock, stored, session, sole>>

-----------------------------------------------------------------------------
(* The answers.                                                            *)

\* Mutant of SaveDone: what the tab shows now counts as saved.
SaveDoneNow(p) ==
  /\ post[p].at = "done" /\ IsSave(post[p])
  /\ post' = [post EXCEPT ![p] = Idle]
  /\ Show(post[p].by, doc[post[p].by], doc[post[p].by])
  /\ saving' = [saving EXCEPT ![post[p].by] = FALSE]
  /\ UNCHANGED <<row, mode, sole>>

\* The end of save: what was sent is the saved document now.
SaveDone(p) ==
  /\ post[p].at = "done" /\ IsSave(post[p])
  /\ post' = [post EXCEPT ![p] = Idle]
  /\ Show(post[p].by, doc[post[p].by], post[p].doc)
  /\ saving' = [saving EXCEPT ![post[p].by] = FALSE]
  /\ UNCHANGED <<row, mode, sole>>

\* onRestored and onDiscarded: the answer is committed and counts as saved.
Restored(p) ==
  /\ post[p].at = "done" /\ ~IsSave(post[p])
  /\ post' = [post EXCEPT ![p] = Idle]
  /\ Show(post[p].by, post[p].doc, post[p].doc)
  /\ UNCHANGED <<row, mode, saving, sole>>

\* A call fails, in the catch and the finally of save or a panel: it was refused
\* (423 when another holds the lock), it never arrived, its answer was lost, or
\* the server still works on it.
RequestFails(p) ==
  /\ post[p].at # "idle"
  /\ \/ /\ post' = [post EXCEPT ![p] = Idle]
        /\ sole' = [sole EXCEPT ![post[p].by] = @ /\ post[p].at = "sent"]
     \/ /\ post[p].live
        /\ post' = [post EXCEPT ![p] = Abandoned(@)]
        /\ sole' = [sole EXCEPT ![post[p].by] = FALSE]
  /\ IF post[p].live /\ IsSave(post[p])
     THEN /\ timer' = [timer EXCEPT ![post[p].by] = IF @ = "off" THEN "missed" ELSE @]
          /\ saving' = [saving EXCEPT ![post[p].by] = FALSE]
     ELSE UNCHANGED <<timer, saving>>
  /\ UNCHANGED <<row, mode, doc, saved>>

-----------------------------------------------------------------------------
Next ==
  \/ \E s \in Editors :
       \/ Open(s) \/ Load(s) \/ Leave(s) \/ Heartbeat(s) \/ TakeOver(s) \/ Autosave(s)
       \/ \E d \in Docs : Edit(s, d)
       \/ \E p \in Posts :
            \/ \E kind \in Kinds : Save(s, p, kind)
            \/ \E d \in revs : AskRestore(s, p, d)
            \/ AskDiscard(s, p)
  \/ \E p \in Posts :
       \/ PatchPage(p) \/ PublishPage(p) \/ DiscardDraft(p) \/ RestoreRevision(p)
       \/ SaveDone(p) \/ Restored(p) \/ RequestFails(p)
  \/ LockExpires

Spec == Init /\ [][Next]_vars

-----------------------------------------------------------------------------
TypeOK ==
  /\ draft \in Docs /\ published \in Docs /\ revs \subseteq Docs
  /\ lock \in Editors \cup {Nobody}
  /\ mode \in [Editors -> {"closed", "loading", "open"}]
  /\ doc \in [Editors -> Docs] /\ saved \in [Editors -> Docs]
  /\ timer \in [Editors -> {"off", "set", "missed"}]
  /\ saving \in [Editors -> BOOLEAN]
  /\ post \in [Posts -> [by : Editors \cup {Nobody}, kind : Kinds, doc : Docs,
                         at : Stages, live : BOOLEAN]]
  /\ stored \subseteq Docs /\ sole \in [Editors -> BOOLEAN]

\* An editor that shows no unsaved changes shows a document that was the draft
\* at some time, or the empty one of a page that never arrived.
\* BuilderEditor.tsx:198-201, 683, 752.
CleanWasStored ==
  \A s \in Editors : mode[s] = "open" /\ ~Dirty(s) => doc[s] \in stored \cup {Empty}

\* Nothing but another editor, an overtaken request or a lost answer makes a
\* tab at rest wrong about what is saved: it believes the draft is saved.
\* BuilderEditor.tsx:461-484, 682-763, BuilderController.php:95-97.
SavedIsDraft ==
  \A s \in Editors : sole[s] /\ Quiet(s) => saved[s] = draft

\* Unsaved changes of a tab are never left without an autosave timer or a
\* request under way, unless the last autosave found a save under way and gave
\* up, or the last save failed.  BuilderEditor.tsx:675-680.
UnsavedIsWatched ==
  \A s \in Editors :
    Dirty(s) => timer[s] # "off" \/ \E p \in Posts : post[p].by = s /\ post[p].live

\* Under the same conditions the publish call publishes what its save sent: the
\* server publishes the draft it has by then.  BuilderEditor.tsx:742-749,
\* BuilderController.php:132-144.
PublishesTheSaved ==
  \A p \in Posts : post[p].at = "publish" /\ sole[post[p].by] => draft = post[p].doc

\* The newest autosave may be overwritten, but never the revision of the draft:
\* what the page shows is always among the revisions one can restore.
\* BuilderRevisions.php:38-82.
DraftHasRevision == draft \in revs
=============================================================================
