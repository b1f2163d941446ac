---------------------------- MODULE EditorHistory ----------------------------
(***************************************************************************)
(* One tab of the site builder (builder/editor/BuilderEditor.tsx and       *)
(* Navigator.tsx): the document of the user, what undo and redo go back to *)
(* and forward to, and the clipboard.  Some edits are answered late, by a  *)
(* file, by the library or by the AI service: they start from the document *)
(* of the time they were asked for.                                        *)
(***************************************************************************)
EXTENDS BuilderTree

CONSTANTS
  Documents,   \* what the page may hold when it is opened
  Pulls,       \* spans the pointer pulls a column to
  Limit,       \* 50 documents to go back to
  MaxEdits     \* bound: commits, resizes and copies

ASSUME HistoryAssumption ==
  /\ Limit \in Nat \ {0} /\ MaxEdits \in Nat
  /\ Documents \subseteq Document /\ Pulls \subseteq Nat

\* Pages were saved by an editor like this one, or are empty.
ASSUME PagesAssumption == \A d \in Documents : IsTree(d) /\ SpansFit(d)

VARIABLES
  doc,           \* the document
  past, future,  \* what undo and redo return to, past oldest first
  clip,          \* part of a document in localStorage, or NoClip
  asked,         \* the document a late edit starts from, or NoAsk
  edits          \* counts commits, resizes and copies

vars == <<doc, past, future, clip, asked, edits>>

NoClip == [root |-> Root]
NoAsk  == [kids |-> <<>>]

Init ==
  /\ doc \in Documents
  /\ past = <<>> /\ future = <<>>
  /\ clip = NoClip /\ asked = NoAsk
  /\ edits = 0

-----------------------------------------------------------------------------
Counted == edits < MaxEdits /\ edits' = edits + 1

\* Mutant of Commit: what could be redone stays.
CommitAndKeep(from, next) ==
  /\ Counted
  /\ past' = Append(SubSeq(past, IF Len(past) < Limit THEN 1 ELSE 2, Len(past)), from)
  /\ doc' = next
  /\ UNCHANGED future

\* commit of a handler that saw the document from: at most Limit are kept.
Commit(from, next) ==
  /\ Counted
  /\ past' = Append(SubSeq(past, IF Len(past) < Limit THEN 1 ELSE 2, Len(past)), from)
  /\ doc' = next
  /\ future' = <<>>

\* A commit that leaves the clipboard and late edits alone.
Edit(next) ==
  /\ Commit(doc, next)
  /\ UNCHANGED <<clip, asked>>

-----------------------------------------------------------------------------
AddSection == CanCreate(doc) /\ Edit(addSection(doc))

AddColumn(s) ==
  /\ s \in In(doc) \cap Sections /\ Free(doc, Columns) # {}
  /\ Edit(addColumn(doc, s))

\* onDropNew: a new widget from the palette is dropped on the page.
DropNew(w, c, i) ==
  /\ w \in Free(doc, Widgets) /\ c \in In(doc) \cap Columns /\ i \in 1..Len(doc.kids[c]) + 1
  /\ Edit(insert(doc, createWidget(w), c, i))

\* insertFromPalette: a click on the palette, with sel selected.
InsertFromPalette(w, sel) ==
  LET after(x) == IF \E s \in ToSet(doc.kids[Root]) : Holder(doc, x) \in ToSet(doc.kids[s])
                  THEN Position(doc, x) + 1 ELSE 2
      none == defaultColumn(doc, sel) = Root
      next == IF none THEN addSection(doc) ELSE doc
      column == IF defaultColumn(next, sel) # Root THEN defaultColumn(next, sel)
                ELSE Head(next.kids[Head(next.kids[Root])])
  IN /\ w \in Free(doc, Widgets)
     /\ none => CanCreate(doc)
     /\ none => next.kids[Head(next.kids[Root])] # <<>>
     /\ Edit(insert(next, createWidget(w), column,
                    IF sel \in In(next) \cap Widgets THEN after(sel)
                    ELSE Len(next.kids[column]) + 1))

\* onDropMove: a widget is dragged on the page.  The drag starts at any unlocked
\* widget, but every widget around it names itself in turn: the outermost moves.
DropMove(w, c, i) ==
  /\ \E s \in ToSet(doc.kids[Root]) : w \in In(doc) /\ Holder(doc, w) \in ToSet(doc.kids[s])
  /\ ~(Below(doc, w) \cap Widgets \subseteq doc.locked)
  /\ c \in In(doc) \cap Columns /\ i \in 1..Len(doc.kids[c]) + 1
  /\ Edit(moveWidget(doc, w, c, i))

\* moveInto of the navigator: onto another widget or a column, but never into itself.
MoveInto(w, c, i) ==
  /\ w \in (In(doc) \cap Widgets) \ doc.locked /\ c \in In(doc) \cap Columns
  /\ i \in 1..Len(doc.kids[c]) + 1
  /\ i \in DOMAIN doc.kids[c] => doc.kids[c][i] # w
  /\ c \notin Below(doc, w)
  /\ Edit(moveWidget(doc, w, c, i))

\* The navigator drops a section on another one.
MoveSection(s, i) ==
  /\ s \in ToSet(doc.kids[Root]) \ doc.locked /\ i \in DOMAIN doc.kids[Root] /\ doc.kids[Root][i] # s
  /\ Edit(moveSection(doc, s, i))

\* Mutant of Resize: what could be redone is gone.
ResizeAndForget(c, n) ==
  /\ c \in In(doc) \cap Columns /\ Counted
  /\ doc' = resizeColumn(doc, c, n) /\ future' = <<>>
  /\ UNCHANGED <<past, clip, asked>>

\* onResize: every move of the pointer, without a commit.
Resize(c, n) ==
  /\ c \in In(doc) \cap Columns /\ Counted
  /\ doc' = resizeColumn(doc, c, n)
  /\ UNCHANGED <<past, future, clip, asked>>

DeleteNode(id) ==
  /\ id \in In(doc) /\ ~isLocked(doc, id)
  /\ Edit(removeNode(doc, id))

\* duplicateNode: widgets, and sections of the document.
DuplicateNode(id) ==
  /\ id \in (In(doc) \cap Widgets) \cup ToSet(doc.kids[Root])
  /\ ~isLocked(doc, id) /\ CanClone(doc, Part(doc, id))
  /\ Edit(duplicate(doc, id))

\* lock_node, unlock_node: patchNode.
ToggleLock(id) ==
  /\ id \in In(doc)
  /\ Edit([doc EXCEPT !.locked = IF id \in @ THEN @ \ {id} ELSE @ \cup {id}])

\* onInline, the inspector, rename and hide_node: props, styles and flags the tree
\* does not show are changed by a commit like any other.
Restyle == In(doc) # {} /\ Edit(doc)

\* pasteStyleOn.
PasteStyle(id) ==
  /\ clip # NoClip /\ id \in In(doc) /\ ~isLocked(doc, id)
  /\ Edit(doc)

CopyNode(id) ==
  /\ id \in In(doc) /\ Counted
  /\ clip' = makeClip(doc, id)
  /\ UNCHANGED <<doc, past, future, asked>>

CutNode(id) ==
  /\ id \in In(doc) /\ ~isLocked(doc, id)
  /\ clip' = makeClip(doc, id)
  /\ Commit(doc, removeNode(doc, id))
  /\ UNCHANGED asked

PasteNode(sel) ==
  LET new == clip.root \in Widgets /\ defaultColumn(doc, sel) = Root
  IN /\ clip # NoClip
     /\ new => CanCreate(doc)
     /\ CanClone(IF new THEN addSection(doc) ELSE doc, clip)
     /\ Edit(pasteClip(doc, clip, sel))

-----------------------------------------------------------------------------
(* undo and redo.                                                          *)

\* Mutant of Undo: the document cannot be redone.
UndoForGood ==
  /\ past # <<>>
  /\ past' = Front(past) /\ doc' = Last(past)
  /\ UNCHANGED <<future, clip, asked, edits>>

Undo ==
  /\ past # <<>>
  /\ past' = Front(past) /\ doc' = Last(past) /\ future' = <<doc>> \o future
  /\ UNCHANGED <<clip, asked, edits>>

Redo ==
  /\ future # <<>>
  /\ past' = Append(past, doc) /\ doc' = Head(future) /\ future' = Tail(future)
  /\ UNCHANGED <<clip, asked, edits>>

-----------------------------------------------------------------------------
(* Edits answered late.                                                    *)

Ask ==
  /\ asked = NoAsk
  /\ asked' = doc
  /\ UNCHANGED <<doc, past, future, clip, edits>>

\* The answer is appended, in a new section, to the document of the time it was
\* asked for, by the commit of that time.
Draft(d) ==
  LET w == Spare(d, Widgets)
      next == addSection(d)
  IN insert(next, createWidget(w), Head(next.kids[Last(next.kids[Root])]), 1)

CanDraft(d) == CanCreate(d) /\ Free(d, Widgets) # {}

\* draftFromBrief.
DraftFromBrief ==
  /\ asked # NoAsk /\ CanDraft(asked)
  /\ Commit(asked, Draft(asked))
  /\ asked' = NoAsk
  /\ UNCHANGED clip

\* importJson, of a file that holds one section, after the confirmation; the
\* document is replaced if it has no section or the user wants that.
ImportJson(replace) ==
  LET base == IF replace THEN emptyDocument ELSE asked
  IN /\ asked # NoAsk /\ CanCreate(base)
     /\ asked.kids[Root] = <<>> => replace
     /\ Commit(asked, addSection(base))
     /\ asked' = NoAsk
     /\ UNCHANGED clip

\* insertLibrary, of a section: after the selected one of the document, before all
\* if a nested one is selected, and at the end otherwise.
InsertLibrary(sel) ==
  /\ asked # NoAsk /\ CanCreate(asked)
  /\ Commit(asked, insert(asked, createSection(asked), Root,
               IF sel \in ToSet(asked.kids[Root]) THEN Position(asked, sel) + 1
               ELSE IF sel \in In(asked) \cap Sections THEN 1
               ELSE Len(asked.kids[Root]) + 1))
  /\ asked' = NoAsk
  /\ UNCHANGED clip

\* The service has nothing to add, or fails.
NoAnswer ==
  /\ asked # NoAsk /\ asked' = NoAsk
  /\ UNCHANGED <<doc, past, future, clip, edits>>

-----------------------------------------------------------------------------
Next ==
  \/ AddSection \/ Restyle \/ Undo \/ Redo
  \/ Ask \/ DraftFromBrief \/ NoAnswer
  \/ \E replace \in BOOLEAN : ImportJson(replace)
  \/ \E s \in Sections : AddColumn(s)
  \/ \E s \in Sections, i \in 1..Cardinality(Sections) : MoveSection(s, i)
  \/ \E w \in Widgets, c \in Columns, i \in 1..Cardinality(Widgets) + 1 :
       DropNew(w, c, i) \/ DropMove(w, c, i) \/ MoveInto(w, c, i)
  \/ \E w \in Widgets, sel \in Node \cup {Root} : InsertFromPalette(w, sel)
  \/ \E c \in Columns, n \in Pulls : Resize(c, n)
  \/ \E id \in Node :
       DeleteNode(id) \/ DuplicateNode(id) \/ ToggleLock(id) \/ CopyNode(id) \/ CutNode(id)
       \/ PasteStyle(id)
  \/ \E sel \in Node \cup {Root} : PasteNode(sel) \/ InsertLibrary(sel)

Spec == Init /\ [][Next]_vars

-----------------------------------------------------------------------------
TypeOK ==
  /\ doc \in Document
  /\ past \in Seq(Document) /\ future \in Seq(Document)
  /\ clip = NoClip \/ clip.root \in Node
  /\ asked = NoAsk \/ asked \in Document
  /\ edits \in 0..MaxEdits

\* However the tree is edited, no node is in two places and no part of the tree
\* is cut off: ids are unique.  tree.ts:104-120, 192-219, 265-293, ops.ts:92-175.
DocumentsAreTrees == IsTree(doc)

\* Columns stay visible and within one row, whatever is added, removed, copied
\* or resized.  tree.ts:227-263.
ColumnsFit == SpansFit(doc)

\* Together, undo and redo never hold more than the limit: redo, which does not
\* cut, only gives back what undo took.  BuilderEditor.tsx:203-207, 543-561.
HistoryBounded == Len(past) + Len(future) <= Limit

\* An edit either keeps every node, or takes away just one of them with what is
\* below it.  tree.ts:104-120, 192-219, ops.ts:92-175.
EditsKeepTheRest ==
  [][edits' # edits /\ asked' = asked =>
       \/ In(doc) \subseteq In(doc')
       \/ \E id \in In(doc) : doc' = removeNode(doc, id)]_vars

\* The late answer to a document that has changed since.
Late == asked # NoAsk /\ asked' = NoAsk /\ asked # doc

\* What a step takes out of the document can be brought back at once by undo or
\* redo, unless the step is a late answer.  BuilderEditor.tsx:203-207, 543-561.
NothingGoneForGood ==
  [][~Late => In(doc) \subseteq UNION {In(d) : d \in {doc'} \cup ToSet(past') \cup ToSet(future')}]_vars

\* Undo and redo walk along a line of documents that they never change: after any
\* number of steps back, as many steps forward lead to the same documents again.
\* BuilderEditor.tsx:203-207, 543-561.
Line == past \o (<<doc>> \o future)

Promise == INSTANCE HistoryPromise WITH
  Openings <- Documents, Nothing <- NoAsk, line <- Line, at <- Len(past) + 1

KeepsTheLine == Promise!PromiseSpec
=============================================================================
