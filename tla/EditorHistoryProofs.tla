-------------------------- MODULE EditorHistoryProofs --------------------------
(***************************************************************************)
(* What holds of every page that is edited in a tab, for every limit and   *)
(* every set of nodes: the documents on the page, in the history, on the   *)
(* clipboard and behind a late answer are all good ones.                   *)
(***************************************************************************)
EXTENDS EditorHistory, BuilderTreeProofs

GoodDocument == {d \in Document : Good(d)}

IsClip(p) == IsPart(p) /\ p.root \in Sections \cup Widgets

(* The inductive invariant: every document a step can put on the page is   *)
(* good, and so is every part that can be pasted.                          *)
HInv ==
  /\ doc \in GoodDocument
  /\ past \in Seq(GoodDocument) /\ future \in Seq(GoodDocument)
  /\ clip = NoClip \/ IsClip(clip)
  /\ asked = NoAsk \/ asked \in GoodDocument
  /\ edits \in 0..MaxEdits
  /\ HistoryBounded

\* GoodDocument is the set of the good documents.
LEMMA GoodDocuments ==
  /\ \A d : d \in GoodDocument <=> Good(d)
  /\ GoodDocument \subseteq Document
BY DEF GoodDocument, Good

-----------------------------------------------------------------------------
(* commit.                                                                 *)

\* The past after a commit: within the limit, with the new document in it.
LEMMA Pushed ==
  ASSUME NEW S, NEW p \in Seq(S), NEW L \in Nat \ {0}, Len(p) <= L, NEW x \in S,
         NEW q, q = Append(SubSeq(p, IF Len(p) < L THEN 1 ELSE 2, Len(p)), x)
  PROVE  q \in Seq(S) /\ Len(q) <= L /\ x \in ToSet(q)
<1> DEFINE m == IF Len(p) < L THEN 1 ELSE 2
           r == SubSeq(p, m, Len(p))
<1>1. Len(p) \in Nat /\ m \in {1, 2} /\ (m = 1 => Len(p) < L) /\ (m = 2 => Len(p) = L)
  BY NumberAt
<1>2. r \in Seq(S) /\ Len(r) \in Nat /\ Len(r) <= Len(p) /\ (m = 2 => Len(r) = Len(p) - 1)
  <2> HIDE DEF m
  <2>1. CASE m = 1
    BY <1>1, <2>1
  <2>2. CASE m = 2
    BY <1>1, <2>2
  <2>3. QED BY <1>1, <2>1, <2>2
<1>3. q = Append(r, x)
  OBVIOUS
<1> HIDE DEF r, m
<1>4. q \in Seq(S) /\ Len(q) = Len(r) + 1 /\ ToSet(q) = ToSet(r) \cup {x}
  <2>1. /\ Append(r, x) \in Seq(S) /\ Len(Append(r, x)) = Len(r) + 1
        /\ ToSet(Append(r, x)) = ToSet(r) \cup {x}
    BY <1>2, AppendFacts
  <2>2. QED BY <1>3, <2>1, Zenon
<1>5. QED BY <1>1, <1>2, <1>4

\* A commit of a good document keeps the history good and within its limit.
LEMMA CommitKeeps ==
  ASSUME HInv, NEW from \in GoodDocument, NEW next \in GoodDocument, Commit(from, next)
  PROVE  /\ doc' \in GoodDocument /\ past' \in Seq(GoodDocument) /\ future' \in Seq(GoodDocument)
         /\ edits' \in 0..MaxEdits /\ HistoryBounded' /\ from \in ToSet(past')
<1>1. /\ past \in Seq(GoodDocument) /\ future \in Seq(GoodDocument)
      /\ Len(past) + Len(future) <= Limit /\ edits \in 0..MaxEdits
      /\ Limit \in Nat \ {0} /\ MaxEdits \in Nat
  BY HistoryAssumption DEF HInv, HistoryBounded
<1>2. /\ past' = Append(SubSeq(past, IF Len(past) < Limit THEN 1 ELSE 2, Len(past)), from)
      /\ doc' = next /\ future' = <<>> /\ edits < MaxEdits /\ edits' = edits + 1
  BY DEF Commit, Counted
<1>3. Len(past) \in Nat /\ Len(future) \in Nat
  BY <1>1, NumberAt
<1>4. Len(past) <= Limit
  BY <1>1, <1>3
<1>5. past' \in Seq(GoodDocument) /\ Len(past') <= Limit /\ from \in ToSet(past')
  <2>1. \A q : q = Append(SubSeq(past, IF Len(past) < Limit THEN 1 ELSE 2, Len(past)), from)
                => q \in Seq(GoodDocument) /\ Len(q) <= Limit /\ from \in ToSet(q)
    <3>1. past \in Seq(GoodDocument) /\ Limit \in Nat \ {0}
      BY <1>1
    <3>2. QED BY <1>4, <3>1, Pushed, Zenon
  <2>2. QED BY <1>2, <2>1, Zenon
<1>6. future' \in Seq(GoodDocument) /\ Len(future') = 0
  BY <1>2, EmptyList
<1>7. HistoryBounded'
  <2>1. Len(past') \in Nat
    BY <1>5, NumberAt
  <2>2. QED BY <1>5, <1>6, <2>1 DEF HistoryBounded
<1>8. QED BY <1>1, <1>2, <1>5, <1>6, <1>7

-----------------------------------------------------------------------------
(* What the edits make of the document.                                    *)

Keeps(d, e) == In(d) \subseteq In(e) \/ \E id \in In(d) : e = removeNode(d, id)

\* Inserting a new widget into a column keeps the document good and every node.
LEMMA PutWidget ==
  ASSUME NEW d, Good(d), NEW w \in Widgets, w \notin In(d),
         NEW c \in In(d) \cap Columns, NEW i \in Nat
  PROVE  /\ Good(insert(d, createWidget(w), c, i))
         /\ In(d) \subseteq In(insert(d, createWidget(w), c, i))
<1> DEFINE p == createWidget(w)
           e == insert(d, p, c, i)
<1>1. IsPart(p) /\ p.root = w /\ DOMAIN p.kids = {w}
  BY CreateWidgetGood
<1>2. w \in KidKind(c)
  BY NodeKinds
<1> HIDE DEF p
<1>3. Good(e) /\ In(e) = In(d) \cup DOMAIN p.kids
  BY <1>1, <1>2, InsertGood
<1>4. QED BY <1>3 DEF p

(* A new section takes ids of its own kinds only.                          *)
LEMMA WidgetsStay ==
  ASSUME NEW d, Good(d), CanCreate(d)
  PROVE  /\ \A w \in Widgets : w \in In(addSection(d)) => w \in In(d)
         /\ In(d) \subseteq In(addSection(d))
<1>1. /\ Spare(d, Sections) \in Sections /\ Spare(d, Columns) \in Columns
      /\ In(addSection(d)) = In(d) \cup {Spare(d, Sections), Spare(d, Columns)}
  BY CreateSectionGood, AddSectionGood
<1>2. QED BY <1>1, TreeAssumption

\* insertFromPalette finds a column of the page, or makes one, and inserts there.
LEMMA PaletteFits ==
  ASSUME HInv, NEW w \in Widgets, NEW sel, InsertFromPalette(w, sel)
  PROVE  \E next : Good(next) /\ In(doc) \subseteq In(next) /\ Edit(next)
<1> DEFINE after(x) == IF \E s \in ToSet(doc.kids[Root]) : Holder(doc, x) \in ToSet(doc.kids[s])
                       THEN Position(doc, x) + 1 ELSE 2
           none == defaultColumn(doc, sel) = Root
           next == IF none THEN addSection(doc) ELSE doc
           column == IF defaultColumn(next, sel) # Root THEN defaultColumn(next, sel)
                     ELSE Head(next.kids[Head(next.kids[Root])])
           i == IF sel \in In(next) \cap Widgets THEN after(sel) ELSE Len(next.kids[column]) + 1
<1>1. /\ none => next.kids[Head(next.kids[Root])] # <<>>
      /\ Edit(insert(next, createWidget(w), column, i))
  BY Zenon DEF InsertFromPalette
<1>2. Good(doc)
  BY GoodDocuments DEF HInv
<1>3. w \notin In(doc) /\ (none => CanCreate(doc))
  BY DEF InsertFromPalette, Free
<1>4. /\ Good(next) /\ In(doc) \subseteq In(next) /\ w \notin In(next)
      /\ \A x \in Widgets : x \in In(next) => x \in In(doc)
  BY <1>2, <1>3, AddSectionGood, WidgetsStay
<1>5. none => next.kids[Head(next.kids[Root])] # <<>> /\ next.kids[Root] # <<>>
  <2>1. none => next.kids[Root] # <<>>
    BY <1>2, <1>3, AddSectionGood
  <2>2. QED BY <1>1, <2>1
<1>6. ~none => next = doc
  OBVIOUS
<1>7. \A x \in In(doc) : after(x) \in Nat
  BY <1>2, HolderFacts, GoodForm DEF Good
<1>8. next \in Document /\ Tree(next)
  BY <1>4, GoodForm DEF Good
<1> HIDE DEF next, after
<1>9. column \in In(next) \cap Columns
  <2>1. CASE defaultColumn(next, sel) # Root
    BY <1>4, <2>1, DefaultColumn
  <2>2. CASE defaultColumn(next, sel) = Root
    <3>1. none
      BY <1>6, <2>2
    <3>2. Head(next.kids[Root]) \in Sections
      <4>1. Root \in Parent /\ KidKind(Root) = Sections /\ next.kids[Root] # <<>>
        BY <1>5, <3>1, NodeKinds
      <4>2. Head(next.kids[Root]) \in ToSet(next.kids[Root])
        BY <1>8, <4>1, FirstOf
      <4>3. ToSet(next.kids[Root]) \subseteq KidKind(Root)
        BY <1>8, <4>1 DEF Tree, RightKinds
      <4>4. QED BY <4>1, <4>2, <4>3
    <3>3. Head(next.kids[Head(next.kids[Root])]) \in In(next) \cap Columns
      BY <1>5, <1>8, <3>1, <3>2, FirstOf, ColumnsTyped, NodeKinds
    <3>4. QED BY <2>2, <3>3
  <2>3. QED BY <2>1, <2>2
<1> HIDE DEF column
<1>10. i \in Nat
  <2>1. CASE sel \in In(next) \cap Widgets
    BY <1>4, <1>7, <2>1
  <2>2. CASE sel \notin In(next) \cap Widgets
    <3>1. column \in Parent
      BY <1>9, NodeKinds
    <3>2. Len(next.kids[column]) \in Nat
      BY <1>8, <3>1, KidsTyped, NumberAt
    <3>3. QED BY <2>2, <3>2
  <2>3. QED BY <2>1, <2>2
<1> DEFINE e == insert(next, createWidget(w), column, i)
<1>11. Edit(e)
  BY <1>1 DEF next, column, after
<1> HIDE DEF i
<1>12. Good(e) /\ In(next) \subseteq In(e)
  BY <1>4, <1>9, <1>10, PutWidget
<1> HIDE DEF e
<1>13. QED BY <1>4, <1>11, <1>12

-----------------------------------------------------------------------------
(* The steps by what they do to the history.                               *)

(* A commit of the document on the page.                                   *)
Edited ==
  /\ \E next : Good(next) /\ Keeps(doc, next) /\ Commit(doc, next)
  /\ UNCHANGED asked
  /\ clip' = clip \/ IsClip(clip')

(* A commit of the document of the time the edit was asked for.            *)
Answered ==
  /\ asked # NoAsk /\ asked' = NoAsk /\ clip' = clip
  /\ \E next : Good(next) /\ Commit(asked, next)

\* A commit that keeps the clipboard and the late edits is of the form Edited.
LEMMA EditIsEdited ==
  ASSUME NEW next, Good(next), Keeps(doc, next), Edit(next)
  PROVE  Edited
BY DEF Edit, Edited

\* What HInv says of the document, the clipboard and the late edit.
LEMMA DocGood ==
  ASSUME HInv
  PROVE  /\ Good(doc) /\ doc \in Document /\ Tree(doc) /\ In(doc) \subseteq Node
         /\ clip # NoClip => IsClip(clip)
         /\ asked # NoAsk => Good(asked)
<1>1. Good(doc) /\ (clip # NoClip => IsClip(clip)) /\ (asked # NoAsk => Good(asked))
  BY GoodDocuments DEF HInv
<1>2. doc \in Document /\ Tree(doc)
  BY <1>1, GoodForm DEF Good
<1>3. QED BY <1>1, <1>2, InFacts

\* AddSection and AddColumn are of the form Edited.
LEMMA AddsEdited ==
  ASSUME HInv, AddSection \/ \E s \in Sections : AddColumn(s)
  PROVE  Edited
<1>1. CASE AddSection
  <2> DEFINE next == addSection(doc)
  <2>1. CanCreate(doc) /\ Edit(next)
    BY <1>1 DEF AddSection
  <2>2. Good(next) /\ In(doc) \subseteq In(next)
    BY <2>1, DocGood, AddSectionGood
  <2> HIDE DEF next
  <2>3. QED BY <2>1, <2>2, EditIsEdited DEF Keeps
<1>2. ASSUME NEW s \in Sections, AddColumn(s) PROVE Edited
  <2> DEFINE next == addColumn(doc, s)
  <2>1. s \in In(doc) \cap Sections /\ Free(doc, Columns) # {} /\ Edit(next)
    BY <1>2 DEF AddColumn
  <2>2. Good(next) /\ (next = doc \/ In(next) = In(doc) \cup {Spare(doc, Columns)})
    BY <2>1, DocGood, AddColumnGood
  <2>3. In(doc) \subseteq In(next)
    <3> HIDE DEF next
    <3>1. QED BY <2>2
  <2> HIDE DEF next
  <2>4. QED BY <2>1, <2>2, <2>3, EditIsEdited DEF Keeps
<1>3. QED BY <1>1, <1>2

\* Drops of a widget are of the form Edited.
LEMMA DropsEdited ==
  ASSUME HInv, NEW w \in Widgets, NEW c \in Columns, NEW i,
         DropNew(w, c, i) \/ DropMove(w, c, i) \/ MoveInto(w, c, i)
  PROVE  Edited
<1>1. ASSUME c \in In(doc), i \in 1..Len(doc.kids[c]) + 1 PROVE i \in Nat \ {0}
  <2>1. Len(doc.kids[c]) \in Nat
    BY DocGood, NodeKinds, KidsTyped, NumberAt
  <2>2. QED BY <1>1, <2>1
<1>2. CASE DropNew(w, c, i)
  <2> DEFINE next == insert(doc, createWidget(w), c, i)
  <2>1. /\ w \notin In(doc) /\ c \in In(doc) \cap Columns /\ i \in 1..Len(doc.kids[c]) + 1
        /\ Edit(next)
    BY <1>2 DEF DropNew, Free
  <2>2. i \in Nat
    BY <1>1, <2>1
  <2>3. Good(next) /\ In(doc) \subseteq In(next)
    BY <2>1, <2>2, DocGood, PutWidget
  <2> HIDE DEF next
  <2>4. QED BY <2>1, <2>3, EditIsEdited DEF Keeps
<1>3. CASE DropMove(w, c, i) \/ MoveInto(w, c, i)
  <2> DEFINE next == moveWidget(doc, w, c, i)
  <2>1. /\ w \in In(doc) /\ c \in In(doc) \cap Columns /\ i \in 1..Len(doc.kids[c]) + 1
        /\ Edit(next)
    BY <1>3 DEF DropMove, MoveInto
  <2>2. i \in Nat \ {0}
    BY <1>1, <2>1
  <2>3. Good(next) /\ (In(doc) \subseteq In(next) \/ next = removeNode(doc, w))
    BY <2>1, <2>2, DocGood, MoveWidgetGood
  <2> HIDE DEF next
  <2>4. Keeps(doc, next)
    BY <2>1, <2>3 DEF Keeps
  <2>5. QED BY <2>1, <2>3, <2>4, EditIsEdited
<1>4. QED BY <1>2, <1>3

\* MoveSection is of the form Edited.
LEMMA SectionsEdited ==
  ASSUME HInv, NEW s, NEW i, MoveSection(s, i)
  PROVE  Edited
<1> DEFINE next == moveSection(doc, s, i)
<1>1. s \in ToSet(doc.kids[Root]) /\ i \in DOMAIN doc.kids[Root] /\ Edit(next)
  BY DEF MoveSection
<1>2. i \in Nat
  <2>1. doc.kids[Root] \in Seq(Node)
    BY DocGood, KidsTyped, NodeKinds
  <2>2. QED BY <1>1, <2>1, NumberAt
<1>3. Good(next) /\ (In(doc) \subseteq In(next) \/ next = removeNode(doc, s))
  BY <1>1, <1>2, DocGood, MoveSectionGood
<1>4. s \in In(doc)
  BY <1>1, DocGood, InFacts, NodeKinds
<1> HIDE DEF next
<1>5. Keeps(doc, next)
  BY <1>3, <1>4 DEF Keeps
<1>6. QED BY <1>1, <1>3, <1>5, EditIsEdited

\* A commit of the same document is of the form Edited.
LEMMA SameEdited ==
  ASSUME HInv, Edit(doc)
  PROVE  Edited
BY DocGood, EditIsEdited DEF Keeps

\* Deleting, duplicating, locking, cutting and styling are of the form Edited.
LEMMA NodesEdited ==
  ASSUME HInv, NEW id \in Node,
         \/ DeleteNode(id) \/ DuplicateNode(id) \/ ToggleLock(id) \/ CutNode(id)
         \/ PasteStyle(id)
  PROVE  Edited
<1>1. CASE DeleteNode(id)
  <2> DEFINE next == removeNode(doc, id)
  <2>1. id \in In(doc) /\ Edit(next)
    BY <1>1 DEF DeleteNode
  <2>2. Good(next) /\ Keeps(doc, next)
    BY <2>1, DocGood, RemoveGood DEF Keeps
  <2> HIDE DEF next
  <2>3. QED BY <2>1, <2>2, EditIsEdited
<1>2. CASE DuplicateNode(id)
  <2> DEFINE next == duplicate(doc, id)
  <2>1. /\ id \in (In(doc) \cap Widgets) \cup ToSet(doc.kids[Root])
        /\ CanClone(doc, Part(doc, id)) /\ Edit(next)
    BY <1>2 DEF DuplicateNode
  <2>2. id \in In(doc) /\ id \in Sections \cup Widgets
    <3>1. ToSet(doc.kids[Root]) \subseteq In(doc) /\ ToSet(doc.kids[Root]) \subseteq Sections
      BY DocGood, InFacts, NodeKinds DEF Tree, RightKinds
    <3>2. QED BY <2>1, <3>1
  <2>3. Good(next) /\ Keeps(doc, next)
    BY <2>1, <2>2, DocGood, DuplicateGood DEF Keeps
  <2> HIDE DEF next
  <2>4. QED BY <2>1, <2>3, EditIsEdited
<1>3. CASE ToggleLock(id)
  <2> DEFINE L == IF id \in doc.locked THEN doc.locked \ {id} ELSE doc.locked \cup {id}
             next == [doc EXCEPT !.locked = L]
  <2>1. id \in In(doc) /\ Edit(next)
    BY <1>3 DEF ToggleLock
  <2>2. L \in SUBSET In(doc)
    BY <2>1, DocGood DEF Tree
  <2> HIDE DEF L
  <2>3. Good(next) /\ Keeps(doc, next)
    BY <2>2, DocGood, LockGood DEF Keeps
  <2> HIDE DEF next
  <2>4. QED BY <2>1, <2>3, EditIsEdited
<1>4. CASE CutNode(id)
  <2> DEFINE next == removeNode(doc, id)
  <2>1. /\ id \in In(doc) /\ clip' = makeClip(doc, id) /\ Commit(doc, next)
        /\ asked' = asked
    BY <1>4 DEF CutNode
  <2>2. Good(next) /\ Keeps(doc, next)
    BY <2>1, DocGood, RemoveGood DEF Keeps
  <2>3. IsClip(clip')
    <3>1. IsClip(makeClip(doc, id))
      BY <2>1, DocGood, ClipGood DEF IsClip
    <3>2. QED BY <2>1, <3>1
  <2> HIDE DEF next
  <2>4. QED BY <2>1, <2>2, <2>3 DEF Edited
<1>5. CASE PasteStyle(id)
  BY <1>5, SameEdited DEF PasteStyle
<1>6. QED BY <1>1, <1>2, <1>3, <1>4, <1>5

\* PasteNode is of the form Edited.
LEMMA PasteEdited ==
  ASSUME HInv, NEW sel, PasteNode(sel)
  PROVE  Edited
<1> DEFINE next == pasteClip(doc, clip, sel)
           new == clip.root \in Widgets /\ defaultColumn(doc, sel) = Root
<1>1. /\ clip # NoClip /\ new => CanCreate(doc)
      /\ CanClone(IF new THEN addSection(doc) ELSE doc, clip) /\ Edit(next)
  BY Zenon DEF PasteNode
<1>2. /\ clip # NoClip /\ Edit(next)
      /\ new => CanCreate(doc) /\ CanClone(addSection(doc), clip)
      /\ ~new => CanClone(doc, clip)
  <2> HIDE DEF next
  <2>1. CASE new
    BY <1>1, <2>1, Zenon DEF PasteNode
  <2>2. CASE ~new
    BY <1>1, <2>2, Zenon DEF PasteNode
  <2>3. QED BY <2>1, <2>2
<1>3. IsPart(clip) /\ clip.root \in Sections \cup Widgets
  BY <1>2, DocGood DEF IsClip
<1>4. Good(next) /\ In(doc) \subseteq In(next)
  BY <1>2, <1>3, DocGood, PasteGood
<1> HIDE DEF next
<1>5. QED BY <1>2, <1>4, EditIsEdited DEF Keeps

-----------------------------------------------------------------------------
(* Late answers.                                                           *)

\* A drafted section with a widget keeps a document good.
LEMMA DraftGood ==
  ASSUME NEW d, Good(d), CanDraft(d)
  PROVE  Good(Draft(d))
<1> DEFINE w == Spare(d, Widgets)
           next == addSection(d)
           c == Head(next.kids[Last(next.kids[Root])])
<1>1. CanCreate(d) /\ w \in Widgets /\ w \notin In(d)
  BY SpareFacts DEF CanDraft
<1>2. /\ Good(next) /\ c = Spare(d, Columns)
      /\ In(next) = In(d) \cup {Spare(d, Sections), Spare(d, Columns)}
      /\ w \notin In(next)
  BY <1>1, AddSectionGood, WidgetsStay
<1>3. c \in In(next) \cap Columns
  BY <1>1, <1>2, CreateSectionGood
<1>4. Draft(d) = insert(next, createWidget(w), c, 1)
  BY DEF Draft
<1> HIDE DEF w, next, c
<1>5. Good(insert(next, createWidget(w), c, 1))
  BY <1>1, <1>2, <1>3, PutWidget
<1>6. QED BY <1>4, <1>5

\* A section from the library keeps a document good.
LEMMA LibraryGood ==
  ASSUME NEW d, Good(d), CanCreate(d), NEW i \in Nat
  PROVE  Good(insert(d, createSection(d), Root, i))
<1> DEFINE p == createSection(d)
<1>1. /\ IsPart(p) /\ p.root \in Sections /\ DOMAIN p.kids \cap In(d) = {}
  BY CreateSectionGood
<1>2. p.root \in KidKind(Root)
  BY <1>1, NodeKinds
<1> HIDE DEF p
<1>3. Good(insert(d, p, Root, i))
  BY <1>1, <1>2, InsertGood
<1>4. QED BY <1>3 DEF p

\* Drafts, imports and library sections are of the form Answered.
LEMMA LateAnswered ==
  ASSUME HInv,
         \/ DraftFromBrief
         \/ \E replace \in BOOLEAN : ImportJson(replace)
         \/ \E sel \in Node \cup {Root} : InsertLibrary(sel)
  PROVE  Answered
<1>1. CASE DraftFromBrief
  <2>1. /\ asked # NoAsk /\ CanDraft(asked) /\ Commit(asked, Draft(asked))
        /\ asked' = NoAsk /\ clip' = clip
    BY <1>1 DEF DraftFromBrief
  <2>2. Good(Draft(asked))
    BY <2>1, DocGood, DraftGood
  <2>3. QED BY <2>1, <2>2 DEF Answered
<1>2. ASSUME NEW replace \in BOOLEAN, ImportJson(replace) PROVE Answered
  <2> DEFINE base == IF replace THEN emptyDocument ELSE asked
  <2>1. /\ asked # NoAsk /\ CanCreate(base) /\ Commit(asked, addSection(base))
        /\ asked' = NoAsk /\ clip' = clip
    BY <1>2 DEF ImportJson
  <2>2. Good(base)
    BY <2>1, DocGood, EmptyGood
  <2> HIDE DEF base
  <2>3. Good(addSection(base))
    BY <2>1, <2>2, AddSectionGood
  <2>4. QED BY <2>1, <2>3 DEF Answered
<1>3. ASSUME NEW sel, InsertLibrary(sel) PROVE Answered
  <2> DEFINE i == IF sel \in ToSet(asked.kids[Root]) THEN Position(asked, sel) + 1
                  ELSE IF sel \in In(asked) \cap Sections THEN 1
                  ELSE Len(asked.kids[Root]) + 1
  <2>1. /\ asked # NoAsk /\ CanCreate(asked)
        /\ Commit(asked, insert(asked, createSection(asked), Root, i))
        /\ asked' = NoAsk /\ clip' = clip
    BY <1>3 DEF InsertLibrary
  <2>2. Good(asked) /\ asked \in Document /\ Tree(asked)
    BY <2>1, DocGood, GoodForm DEF Good
  <2>3. i \in Nat
    <3>1. Len(asked.kids[Root]) \in Nat /\ ToSet(asked.kids[Root]) \subseteq In(asked)
      BY <2>2, KidsTyped, NumberAt, NodeKinds, InFacts
    <3>2. \A x \in In(asked) : Position(asked, x) \in Nat
      BY <2>2, HolderFacts
    <3>3. QED BY <3>1, <3>2
  <2> HIDE DEF i
  <2>4. Good(insert(asked, createSection(asked), Root, i))
    BY <2>1, <2>2, <2>3, LibraryGood
  <2>5. QED BY <2>1, <2>4 DEF Answered
<1>4. QED BY <1>1, <1>2, <1>3

\* InsertFromPalette is of the form Edited.
LEMMA PaletteEdited ==
  ASSUME HInv, NEW w \in Widgets, NEW sel, InsertFromPalette(w, sel)
  PROVE  Edited
BY PaletteFits, EditIsEdited DEF Keeps

-----------------------------------------------------------------------------
(* The steps that do not edit the tree.                                    *)

\* Resize keeps the document good, and the history and the nodes as they are.
LEMMA Resized ==
  ASSUME HInv, NEW c, NEW n \in Pulls, Resize(c, n)
  PROVE  /\ doc' \in GoodDocument /\ In(doc') = In(doc) /\ edits' \in 0..MaxEdits
         /\ UNCHANGED <<past, future, clip, asked>>
<1> DEFINE next == resizeColumn(doc, c, n)
<1>1. /\ c \in In(doc) \cap Columns /\ doc' = next
      /\ edits < MaxEdits /\ edits' = edits + 1
      /\ UNCHANGED <<past, future, clip, asked>>
  BY DEF Resize, Counted
<1>2. n \in Nat /\ MaxEdits \in Nat /\ edits \in 0..MaxEdits
  BY HistoryAssumption DEF HInv
<1>3. Good(next) /\ In(next) = In(doc)
  BY <1>1, <1>2, DocGood, ResizeGood
<1> HIDE DEF next
<1>4. QED BY <1>1, <1>2, <1>3, GoodDocuments

\* CopyNode changes the clipboard only.
LEMMA Copied ==
  ASSUME HInv, NEW id, CopyNode(id)
  PROVE  /\ IsClip(clip') /\ edits' \in 0..MaxEdits
         /\ UNCHANGED <<doc, past, future, asked>>
<1>1. /\ id \in In(doc) /\ clip' = makeClip(doc, id)
      /\ edits < MaxEdits /\ edits' = edits + 1
      /\ UNCHANGED <<doc, past, future, asked>>
  BY DEF CopyNode, Counted
<1>2. MaxEdits \in Nat /\ edits \in 0..MaxEdits
  BY HistoryAssumption DEF HInv
<1>3. IsClip(makeClip(doc, id))
  BY <1>1, DocGood, ClipGood DEF IsClip
<1>4. QED BY <1>1, <1>2, <1>3

\* A list over S is a list over every wider set.
LEMMA SeqWider ==
  ASSUME NEW S, NEW T, S \subseteq T, NEW s \in Seq(S)
  PROVE  s \in Seq(T)
OBVIOUS

\* A list without its first or its last element.
LEMMA Ends ==
  ASSUME NEW S, NEW s \in Seq(S), s # <<>>
  PROVE  /\ Len(s) \in Nat \ {0}
         /\ Front(s) \in Seq(S) /\ Len(Front(s)) = Len(s) - 1 /\ Last(s) \in S
         /\ Tail(s) \in Seq(S) /\ Len(Tail(s)) = Len(s) - 1 /\ Head(s) \in S
<1>1. Len(s) \in Nat \ {0} /\ \A i \in 1..Len(s) : s[i] \in S
  BY NumberAt
<1>2. Front(s) = SubSeq(s, 1, Len(s) - 1) /\ Last(s) = s[Len(s)]
  BY DEF Front, Last
<1>3. SubSeq(s, 1, Len(s) - 1) \in Seq(S) /\ Len(SubSeq(s, 1, Len(s) - 1)) = Len(s) - 1
  <2> DEFINE n == Len(s) - 1
  <2>1. n \in 0..Len(s)
    BY <1>1
  <2> HIDE DEF n
  <2>2. SubSeq(s, 1, n) \in Seq(S) /\ Len(SubSeq(s, 1, n)) = n
    BY <2>1, <1>1
  <2>3. QED BY <2>2 DEF n
<1>4. Tail(s) \in Seq(S) /\ Len(Tail(s)) = Len(s) - 1 /\ Head(s) = s[1]
  BY <1>1
<1>5. QED BY <1>1, <1>2, <1>3, <1>4

\* A list with one element more at either end.
LEMMA Put ==
  ASSUME NEW S, NEW s \in Seq(S), NEW x \in S
  PROVE  /\ Append(s, x) \in Seq(S) /\ Len(Append(s, x)) = Len(s) + 1 /\ x \in ToSet(Append(s, x))
         /\ <<x>> \o s \in Seq(S) /\ Len(<<x>> \o s) = Len(s) + 1 /\ x \in ToSet(<<x>> \o s)
<1>1. Append(s, x) \in Seq(S) /\ Len(Append(s, x)) = Len(s) + 1 /\ x \in ToSet(Append(s, x))
  BY AppendFacts
<1>2. <<x>> \o s \in Seq(S) /\ Len(<<x>> \o s) = Len(s) + 1
  BY NumberAt
<1>3. 1 \in DOMAIN (<<x>> \o s) /\ (<<x>> \o s)[1] = x
  BY <1>2, NumberAt
<1>4. x \in ToSet(<<x>> \o s)
  <2> DEFINE t == <<x>> \o s
  <2>1. 1 \in DOMAIN t /\ t[1] = x
    BY <1>3
  <2> HIDE DEF t
  <2>2. x \in ToSet(t)
    BY <2>1 DEF ToSet
  <2>3. QED BY <2>2 DEF t
<1>5. QED BY <1>1, <1>2, <1>4

\* Undo moves one document from the past to the page, and the page to the future.
LEMMA Undone ==
  ASSUME HInv, Undo
  PROVE  /\ doc' \in GoodDocument /\ past' \in Seq(GoodDocument) /\ future' \in Seq(GoodDocument)
         /\ HistoryBounded' /\ doc \in ToSet(future') /\ UNCHANGED <<clip, asked, edits>>
<1>1. /\ past # <<>> /\ past' = Front(past) /\ doc' = Last(past) /\ future' = <<doc>> \o future
      /\ UNCHANGED <<clip, asked, edits>>
  BY DEF Undo
<1>2. /\ past \in Seq(GoodDocument) /\ future \in Seq(GoodDocument) /\ doc \in GoodDocument
      /\ Len(past) + Len(future) <= Limit /\ Limit \in Nat \ {0}
  BY HistoryAssumption DEF HInv, HistoryBounded
<1>3. /\ past' \in Seq(GoodDocument) /\ Len(past') = Len(past) - 1 /\ doc' \in GoodDocument
      /\ Len(past) \in Nat
  BY <1>1, <1>2, Ends
<1>4. /\ future' \in Seq(GoodDocument) /\ Len(future') = Len(future) + 1 /\ doc \in ToSet(future')
      /\ Len(future) \in Nat
  BY <1>1, <1>2, Put, NumberAt
<1>5. HistoryBounded'
  BY <1>2, <1>3, <1>4 DEF HistoryBounded
<1>6. QED BY <1>1, <1>3, <1>4, <1>5

\* Redo moves one document from the future to the page, and the page to the past.
LEMMA Redone ==
  ASSUME HInv, Redo
  PROVE  /\ doc' \in GoodDocument /\ past' \in Seq(GoodDocument) /\ future' \in Seq(GoodDocument)
         /\ HistoryBounded' /\ doc \in ToSet(past') /\ UNCHANGED <<clip, asked, edits>>
<1>1. /\ future # <<>> /\ past' = Append(past, doc) /\ doc' = Head(future) /\ future' = Tail(future)
      /\ UNCHANGED <<clip, asked, edits>>
  BY DEF Redo
<1>2. /\ past \in Seq(GoodDocument) /\ future \in Seq(GoodDocument) /\ doc \in GoodDocument
      /\ Len(past) + Len(future) <= Limit /\ Limit \in Nat \ {0}
  BY HistoryAssumption DEF HInv, HistoryBounded
<1>3. /\ past' \in Seq(GoodDocument) /\ Len(past') = Len(past) + 1 /\ doc \in ToSet(past')
      /\ Len(past) \in Nat
  BY <1>1, <1>2, Put, NumberAt
<1>4. /\ future' \in Seq(GoodDocument) /\ Len(future') = Len(future) - 1 /\ doc' \in GoodDocument
      /\ Len(future) \in Nat
  BY <1>1, <1>2, Ends
<1>5. HistoryBounded'
  BY <1>2, <1>3, <1>4 DEF HistoryBounded
<1>6. QED BY <1>1, <1>3, <1>4, <1>5

(* Every step is one of these.                                             *)
LEMMA Steps ==
  ASSUME HInv, Next
  PROVE  \/ Edited \/ Answered
         \/ \E c \in Columns, n \in Pulls : Resize(c, n)
         \/ \E id \in Node : CopyNode(id)
         \/ Undo \/ Redo \/ Ask \/ NoAnswer
<1>1. CASE AddSection \/ \E s \in Sections : AddColumn(s)
  BY <1>1, AddsEdited
<1>2. CASE Restyle
  BY <1>2, SameEdited DEF Restyle
<1>3. CASE DraftFromBrief \/ \E replace \in BOOLEAN : ImportJson(replace)
  BY <1>3, LateAnswered
<1>4. CASE \E s \in Sections, i \in 1..Cardinality(Sections) : MoveSection(s, i)
  BY <1>4, SectionsEdited
<1>5. CASE \E w \in Widgets, c \in Columns, i \in 1..Cardinality(Widgets) + 1 :
             DropNew(w, c, i) \/ DropMove(w, c, i) \/ MoveInto(w, c, i)
  BY <1>5, DropsEdited
<1>6. CASE \E w \in Widgets, sel \in Node \cup {Root} : InsertFromPalette(w, sel)
  BY <1>6, PaletteEdited
<1>7. CASE \E id \in Node :
             DeleteNode(id) \/ DuplicateNode(id) \/ ToggleLock(id) \/ CutNode(id) \/ PasteStyle(id)
  BY <1>7, NodesEdited
<1>8. CASE \E sel \in Node \cup {Root} : PasteNode(sel)
  BY <1>8, PasteEdited
<1>9. CASE \E sel \in Node \cup {Root} : InsertLibrary(sel)
  BY <1>9, LateAnswered
<1>10. QED BY <1>1, <1>2, <1>3, <1>4, <1>5, <1>6, <1>7, <1>8, <1>9, Zenon DEF Next

-----------------------------------------------------------------------------
(* The inductive invariant.                                                *)

\* HInv holds when the page is opened.
LEMMA HInvInit ==
  ASSUME Init
  PROVE  HInv
<1>1. /\ doc \in Documents /\ past = <<>> /\ future = <<>>
      /\ clip = NoClip /\ asked = NoAsk /\ edits = 0
  BY DEF Init
<1>2. doc \in GoodDocument
  BY <1>1, HistoryAssumption, PagesAssumption, GoodDocuments DEF Good
<1>3. past \in Seq(GoodDocument) /\ Len(past) = 0 /\ future \in Seq(GoodDocument) /\ Len(future) = 0
  BY <1>1, EmptyList
<1>4. HistoryBounded /\ edits \in 0..MaxEdits
  BY <1>1, <1>3, HistoryAssumption DEF HistoryBounded
<1>5. QED BY <1>1, <1>2, <1>3, <1>4 DEF HInv

\* Every step preserves HInv.
LEMMA HInvNext ==
  ASSUME HInv, [Next]_vars
  PROVE  HInv'
<1> USE DEF HInv
<1>1. CASE Edited
  <2>1. PICK next : Good(next) /\ Commit(doc, next)
    BY <1>1 DEF Edited
  <2>2. next \in GoodDocument
    BY <2>1, GoodDocuments
  <2>3. /\ doc' \in GoodDocument /\ past' \in Seq(GoodDocument) /\ future' \in Seq(GoodDocument)
        /\ edits' \in 0..MaxEdits /\ HistoryBounded'
    BY <2>1, <2>2, CommitKeeps
  <2>4. asked' = asked /\ (clip' = clip \/ IsClip(clip'))
    BY <1>1 DEF Edited
  <2>5. QED BY <2>3, <2>4
<1>2. CASE Answered
  <2>1. PICK next : Good(next) /\ Commit(asked, next)
    BY <1>2 DEF Answered
  <2>2. next \in GoodDocument /\ asked \in GoodDocument
    BY <1>2, <2>1, GoodDocuments DEF Answered
  <2>3. /\ doc' \in GoodDocument /\ past' \in Seq(GoodDocument) /\ future' \in Seq(GoodDocument)
        /\ edits' \in 0..MaxEdits /\ HistoryBounded'
    BY <2>1, <2>2, CommitKeeps
  <2>4. asked' = NoAsk /\ clip' = clip
    BY <1>2 DEF Answered
  <2>5. QED BY <2>3, <2>4
<1>3. ASSUME NEW c \in Columns, NEW n \in Pulls, Resize(c, n) PROVE HInv'
  BY <1>3, Resized DEF HistoryBounded
<1>4. ASSUME NEW id \in Node, CopyNode(id) PROVE HInv'
  BY <1>4, Copied DEF HistoryBounded
<1>5. CASE Undo
  BY <1>5, Undone
<1>6. CASE Redo
  BY <1>6, Redone
<1>7. CASE Ask
  BY <1>7 DEF Ask, HistoryBounded
<1>8. CASE NoAnswer
  BY <1>8 DEF NoAnswer, HistoryBounded
<1>9. CASE UNCHANGED vars
  BY <1>9 DEF vars, HistoryBounded
<1>10. QED
  BY <1>1, <1>2, <1>3, <1>4, <1>5, <1>6, <1>7, <1>8, <1>9, Steps

-----------------------------------------------------------------------------
(* The theorems.                                                           *)

\* In every state of every page, the document on it, those undo and redo hold, the
\* one a late edit starts from and the part on the clipboard are well formed, and
\* the history is within its limit.  BuilderEditor.tsx:181-561, tree.ts:104-293.
THEOREM HInvCorrect == Spec => []HInv
<1>1. Init => HInv
  BY HInvInit
<1>2. HInv /\ [Next]_vars => HInv'
  BY HInvNext
<1>3. QED BY <1>1, <1>2, PTL DEF Spec

\* The document, the history, the clipboard and the late edit keep their types.
THEOREM EditorTypes == Spec => []TypeOK
<1>1. HInv => TypeOK
  <2>1. HInv => GoodDocument \subseteq Document
    BY GoodDocuments
  <2>2. \A p : IsClip(p) => p.root \in Node
    BY DEF IsClip, Node
  <2>3. QED BY <2>1, <2>2, SeqWider DEF HInv, TypeOK
<1>2. QED BY <1>1, HInvCorrect, PTL

\* Whatever is inserted, moved, cloned, removed, pasted, undone or answered late, the
\* document stays a tree of sections, columns and widgets: no node is in two places
\* and none is cut off.  tree.ts:104-120, 192-219, 265-293, ops.ts:92-175.
THEOREM TreesStay == Spec => []DocumentsAreTrees
<1>1. HInv => DocumentsAreTrees
  BY DocGood DEF Good, DocumentsAreTrees
<1>2. QED BY <1>1, HInvCorrect, PTL

\* The columns of a section stay visible and within one row, however many there are
\* and however often they are resized.  tree.ts:227-263.
THEOREM ColumnsStayFit == Spec => []ColumnsFit
<1>1. HInv => ColumnsFit
  BY DocGood DEF Good, ColumnsFit
<1>2. QED BY <1>1, HInvCorrect, PTL

\* Undo and redo never hold more than the limit together, although redo appends to
\* the past without cutting it.  BuilderEditor.tsx:203-207, 543-561.
THEOREM HistoryStaysBounded == Spec => []HistoryBounded
<1>1. HInv => HistoryBounded
  BY DEF HInv
<1>2. QED BY <1>1, HInvCorrect, PTL

\* An edit of the page keeps every node, or takes away one of them with what is
\* below it and nothing else: moving, pasting and cloning lose nothing.
\* tree.ts:104-120, 192-219, ops.ts:92-175.
THEOREM EditsKeep == Spec => EditsKeepTheRest
<1> DEFINE Kept == edits' # edits /\ asked' = asked =>
                     \/ In(doc) \subseteq In(doc')
                     \/ \E id \in In(doc) : doc' = removeNode(doc, id)
<1>1. HInv /\ [Next]_vars => [Kept]_vars
  <2> SUFFICES ASSUME HInv, Next, edits' # edits, asked' = asked
               PROVE  \/ In(doc) \subseteq In(doc')
                      \/ \E id \in In(doc) : doc' = removeNode(doc, id)
    OBVIOUS
  <2>1. CASE Edited
    BY <2>1 DEF Edited, Keeps, Commit
  <2>2. CASE Answered
    BY <2>2 DEF Answered
  <2>3. ASSUME NEW c \in Columns, NEW n \in Pulls, Resize(c, n)
        PROVE  In(doc) \subseteq In(doc')
    BY <2>3, Resized
  <2>4. ASSUME NEW id \in Node, CopyNode(id)
        PROVE  In(doc) \subseteq In(doc')
    <3>1. doc' = doc
      BY <2>4 DEF CopyNode
    <3>2. QED BY <3>1
  <2>5. ~(Undo \/ Redo \/ Ask \/ NoAnswer)
    BY DEF Undo, Redo, Ask, NoAnswer
  <2>6. QED BY <2>1, <2>2, <2>3, <2>4, <2>5, Steps
<1>2. QED BY <1>1, HInvCorrect, PTL DEF Spec, EditsKeepTheRest

\* What a step takes out of the document is on the page, in the past or in the
\* future after it, so one undo or redo brings it back: only the answer to a
\* document that has changed since loses something.  BuilderEditor.tsx:203-207, 543-561.
THEOREM NothingIsLost == Spec => NothingGoneForGood
<1> DEFINE Held == {doc'} \cup ToSet(past') \cup ToSet(future')
           Safe == ~Late => In(doc) \subseteq UNION {In(d) : d \in Held}
<1>1. HInv /\ [Next]_vars => [Safe]_vars
  <2> SUFFICES ASSUME HInv, Next, ~Late PROVE In(doc) \subseteq UNION {In(d) : d \in Held}
    OBVIOUS
  <2>1. \A d \in Held : In(doc) = In(d) => In(doc) \subseteq UNION {In(e) : e \in Held}
    OBVIOUS
  <2>2. SUFFICES \E d \in Held : In(doc) = In(d)
    BY <2>1
  <2>3. CASE Edited
    <3>1. doc \in ToSet(past')
      <4>1. PICK next : Good(next) /\ Commit(doc, next)
        BY <2>3 DEF Edited
      <4>2. next \in GoodDocument /\ doc \in GoodDocument
        BY <4>1, DocGood, GoodDocuments
      <4>3. QED BY <4>1, <4>2, CommitKeeps
    <3>2. QED BY <3>1
  <2>4. CASE Answered
    <3>1. asked = doc
      BY <2>4 DEF Answered, Late
    <3>2. doc \in ToSet(past')
      <4>1. PICK next : Good(next) /\ Commit(doc, next)
        BY <2>4, <3>1 DEF Answered
      <4>2. next \in GoodDocument /\ doc \in GoodDocument
        BY <4>1, DocGood, GoodDocuments
      <4>3. QED BY <4>1, <4>2, CommitKeeps
    <3>3. QED BY <3>2
  <2>5. ASSUME NEW c \in Columns, NEW n \in Pulls, Resize(c, n)
        PROVE  \E d \in Held : In(doc) = In(d)
    <3>1. In(doc') = In(doc)
      BY <2>5, Resized
    <3>2. QED BY <3>1
  <2>6. CASE doc' = doc
    BY <2>6
  <2>7. CASE Undo
    BY <2>7, Undone
  <2>8. CASE Redo
    BY <2>8, Redone
  <2>9. (\E id \in Node : CopyNode(id)) \/ Ask \/ NoAnswer => doc' = doc
    BY DEF CopyNode, Ask, NoAnswer
  <2>10. QED BY <2>3, <2>4, <2>5, <2>6, <2>7, <2>8, <2>9, Steps
<1>2. QED BY <1>1, HInvCorrect, PTL DEF Spec, NothingGoneForGood, Safe, Held

-----------------------------------------------------------------------------
(* The promise of undo and redo.                                           *)

\* Taking out the last element and appending it again.
LEMMA FrontLast ==
  ASSUME NEW S, NEW s \in Seq(S), s # <<>>
  PROVE  Front(s) \o <<Last(s)>> = s
<1>1. Len(s) \in Nat \ {0}
  BY EmptySeq
<1>2. 1 \in 1..Len(s) /\ Len(s) \in 1..Len(s)
  BY <1>1
<1>3. SubSeq(s, 1, Len(s)) = SubSeq(s, 1, Len(s) - 1) \o <<s[Len(s)]>>
  BY <1>2, SubSeqRecursiveSecond
<1>4. SubSeq(s, 1, Len(s)) = s
  BY SubSeqFull
<1>5. QED BY <1>3, <1>4 DEF Front, Last

\* The same for the first element.
LEMMA HeadTail ==
  ASSUME NEW S, NEW s \in Seq(S), s # <<>>
  PROVE  <<Head(s)>> \o Tail(s) = s
<1>1. Len(s) \in Nat \ {0}
  BY EmptySeq
<1>2. 1 \in 1..Len(s) /\ Len(s) \in 1..Len(s) /\ Head(s) = s[1]
  BY <1>1
<1>3. SubSeq(s, 1, Len(s)) = <<s[1]>> \o SubSeq(s, 1 + 1, Len(s))
  BY <1>2, SubSeqRecursiveFirst
<1>4. SubSeq(s, 1, Len(s)) = s /\ Tail(s) = SubSeq(s, 2, Len(s))
  BY SubSeqFull, TailIsSubSeq
<1>5. QED BY <1>2, <1>3, <1>4

\* The front of a list that was appended to.
LEMMA FrontAppend ==
  ASSUME NEW S, NEW s \in Seq(S), NEW x \in S
  PROVE  /\ Front(s \o <<x>>) = s /\ Len(s \o <<x>>) = Len(s) + 1
<1> DEFINE t == s \o <<x>>
<1>1. Len(s) \in Nat
  BY NumberAt
<1>2. /\ t \in Seq(S) /\ Len(t) = Len(s) + 1
      /\ \A i \in 1..Len(s) : t[i] = s[i]
  <2>1. <<x>> \in Seq(S) /\ Len(<<x>>) = 1
    BY OneList
  <2>2. /\ t \in Seq(S) /\ Len(t) = Len(s) + 1
        /\ \A i \in 1..Len(s) + 1 : t[i] = IF i <= Len(s) THEN s[i] ELSE <<x>>[i - Len(s)]
    BY <2>1, ConcatProperties
  <2> HIDE DEF t
  <2>3. QED BY <1>1, <2>2
<1> HIDE DEF t
<1>3. Front(t) = SubSeq(t, 1, Len(s))
  BY <1>1, <1>2 DEF Front
<1>4. /\ SubSeq(t, 1, Len(s)) \in Seq(S)
      /\ Len(SubSeq(t, 1, Len(s))) = Len(s)
      /\ \A i \in 1..Len(s) : SubSeq(t, 1, Len(s))[i] = t[i]
  <2>1. \A i \in 1..Len(s) : t[i] \in S
    BY <1>1, <1>2, NumberAt
  <2>2. /\ SubSeq(t, 1, Len(s)) \in Seq(S)
        /\ Len(SubSeq(t, 1, Len(s))) = IF 1 <= Len(s) THEN Len(s) - 1 + 1 ELSE 0
        /\ \A i \in 1..Len(s) - 1 + 1 : SubSeq(t, 1, Len(s))[i] = t[1 + i - 1]
    BY <1>1, <2>1, SubSeqProperties
  <2> DEFINE u == SubSeq(t, 1, Len(s))
  <2> HIDE DEF u
  <2>3. u \in Seq(S) /\ Len(u) = Len(s) /\ \A i \in 1..Len(s) : u[i] = t[i]
    <3>1. /\ u \in Seq(S) /\ Len(u) = IF 1 <= Len(s) THEN Len(s) - 1 + 1 ELSE 0
          /\ \A i \in 1..Len(s) - 1 + 1 : u[i] = t[1 + i - 1]
      BY <2>2 DEF u
    <3>2. QED BY <1>1, <3>1
  <2>4. QED BY <2>3 DEF u
<1>5. SubSeq(t, 1, Len(s)) = s
  <2> DEFINE u == SubSeq(t, 1, Len(s))
  <2>1. u \in Seq(S) /\ Len(u) = Len(s) /\ \A i \in 1..Len(u) : u[i] = s[i]
    BY <1>2, <1>4
  <2> HIDE DEF u
  <2>2. u = s
    BY <2>1, SeqEqual
  <2>3. QED BY <2>2 DEF u
<1>6. QED BY <1>2, <1>3, <1>5 DEF t

\* The line around the place of the page.
LEMMA LineParts ==
  ASSUME NEW S, NEW p \in Seq(S), NEW x \in S, NEW f \in Seq(S), NEW l, l = p \o (<<x>> \o f)
  PROVE  /\ l \in Seq(S) /\ Len(p) \in Nat /\ Len(f) \in Nat /\ Len(l) = Len(p) + 1 + Len(f)
         /\ \A i \in 1..Len(p) : l[i] = p[i]
         /\ l[Len(p) + 1] = x
         /\ \A i \in 1..Len(f) : l[Len(p) + 1 + i] = f[i]
<1> DEFINE r == <<x>> \o f
<1>1. Len(p) \in Nat /\ Len(f) \in Nat
  BY NumberAt
<1>2. /\ r \in Seq(S) /\ Len(r) = 1 + Len(f) /\ r[1] = x
      /\ \A i \in 1..Len(f) : r[1 + i] = f[i]
  <2>1. <<x>> \in Seq(S) /\ Len(<<x>>) = 1 /\ <<x>>[1] = x
    BY OneList
  <2>2. /\ r \in Seq(S) /\ Len(r) = 1 + Len(f)
        /\ \A i \in 1..1 + Len(f) : r[i] = IF i <= 1 THEN <<x>>[i] ELSE f[i - 1]
    BY <2>1, ConcatProperties
  <2> HIDE DEF r
  <2>3. QED BY <1>1, <2>1, <2>2
<1> HIDE DEF r
<1>3. /\ p \o r \in Seq(S) /\ Len(p \o r) = Len(p) + Len(r)
      /\ \A i \in 1..Len(p) + Len(r) : (p \o r)[i] = IF i <= Len(p) THEN p[i] ELSE r[i - Len(p)]
  <2>1. r \in Seq(S)
    BY <1>2
  <2>2. QED BY <2>1, ConcatProperties, Zenon
<1>4. l = p \o r
  BY DEF r
<1>5. /\ l \in Seq(S) /\ Len(l) = Len(p) + Len(r)
      /\ \A i \in 1..Len(p) + Len(r) : l[i] = IF i <= Len(p) THEN p[i] ELSE r[i - Len(p)]
  BY <1>3, <1>4
<1>6. QED BY <1>1, <1>2, <1>5

\* What lies behind the place is the past.
LEMMA Behind ==
  ASSUME NEW S, NEW p \in Seq(S), NEW l \in Seq(S), Len(l) > Len(p),
         \A i \in 1..Len(p) : l[i] = p[i], NEW m \in {1, 2}
  PROVE  SubSeq(l, m, Len(p)) = SubSeq(p, m, Len(p))
<1> DEFINE n == Len(p)
<1>1. n \in Nat
  BY NumberAt
<1>2. \A i \in m..n : l[i] = p[i] /\ p[i] \in S
  BY <1>1, NumberAt
<1> HIDE DEF n
<1> DEFINE u == SubSeq(l, m, n)
           v == SubSeq(p, m, n)
<1>3. /\ u \in Seq(S) /\ Len(u) = IF m <= n THEN n - m + 1 ELSE 0
      /\ \A i \in 1..n - m + 1 : u[i] = l[m + i - 1]
  BY <1>1, <1>2, SubSeqProperties
<1>4. /\ v \in Seq(S) /\ Len(v) = IF m <= n THEN n - m + 1 ELSE 0
      /\ \A i \in 1..n - m + 1 : v[i] = p[m + i - 1]
  BY <1>1, <1>2, SubSeqProperties
<1> HIDE DEF u, v
<1>5. Len(u) = Len(v) /\ \A i \in 1..Len(u) : u[i] = v[i]
  BY <1>1, <1>2, <1>3, <1>4
<1>6. u = v
  BY <1>3, <1>4, <1>5, SeqEqual
<1>7. QED BY <1>6 DEF u, v, n

\* A commit puts a new page after the page it starts from.
LEMMA CommitFollows ==
  ASSUME HInv, NEW from \in GoodDocument, NEW next \in GoodDocument, Commit(from, next)
  PROVE  Promise!Follow(from)
<1>1. /\ past \in Seq(GoodDocument) /\ future \in Seq(GoodDocument) /\ doc \in GoodDocument
      /\ Limit \in Nat \ {0}
  BY HistoryAssumption DEF HInv
<1>2. /\ past' = Append(SubSeq(past, IF Len(past) < Limit THEN 1 ELSE 2, Len(past)), from)
      /\ doc' = next /\ future' = <<>>
  BY DEF Commit
<1>3. past' \in Seq(GoodDocument)
  BY CommitKeeps
<1> DEFINE l == Line
           m == IF Len(past) < Limit THEN 1 ELSE 2
<1>4. /\ l \in Seq(GoodDocument) /\ Len(past) \in Nat /\ Len(l) > Len(past)
      /\ \A i \in 1..Len(past) : l[i] = past[i]
  <2>1. l = past \o (<<doc>> \o future)
    BY DEF Line
  <2> HIDE DEF l
  <2>2. QED BY <1>1, <2>1, LineParts
<1>5. SubSeq(l, m, Len(past)) = SubSeq(past, m, Len(past))
  <2>1. m \in {1, 2}
    OBVIOUS
  <2> HIDE DEF l, m
  <2>2. QED BY <1>1, <1>4, <2>1, Behind
<1>6. Line' = past' \o <<next>>
  <2>1. <<next>> \in Seq(GoodDocument)
    BY OneList
  <2>2. <<next>> \o <<>> = <<next>>
    BY <2>1, ConcatEmptySeq
  <2>3. QED BY <1>2, <2>2 DEF Line
<1>7. Front(Line') = past' /\ Len(Line') = Len(past') + 1
  <2>1. \A q : q = past' => Front(q \o <<next>>) = q /\ Len(q \o <<next>>) = Len(q) + 1
    BY <1>3, FrontAppend
  <2>2. QED BY <1>6, <2>1
<1>8. (Len(past) + 1 <= Limit <=> Len(past) < Limit) /\ Len(past) + 1 - 1 = Len(past)
  BY <1>1, <1>4
<1>9. past' = Append(SubSeq(Line, IF Len(past) + 1 <= Limit THEN 1 ELSE 2, Len(past) + 1 - 1), from)
  BY <1>2, <1>5, <1>8
<1>10. Promise!Front(Line') = Front(Line')
  BY DEF Promise!Front, Front
<1>11. QED BY <1>7, <1>9, <1>10 DEF Promise!Follow

\* The page in its place.
LEMMA PlaceOfPage ==
  ASSUME HInv
  PROVE  /\ Line[Len(past) + 1] = doc
         /\ Len(past) \in Nat /\ Len(future) \in Nat /\ Len(Line) = Len(past) + 1 + Len(future)
         /\ Line \in Seq(GoodDocument)
<1>1. past \in Seq(GoodDocument) /\ future \in Seq(GoodDocument) /\ doc \in GoodDocument
  BY DEF HInv
<1>2. QED BY <1>1, LineParts DEF Line

LEMMA ResizeRetouches ==
  ASSUME HInv, NEW c, NEW n \in Pulls, Resize(c, n)
  PROVE  Promise!Retouch
<1>1. /\ past \in Seq(GoodDocument) /\ future \in Seq(GoodDocument)
      /\ doc \in GoodDocument
  BY DEF HInv
<1>2. doc' \in GoodDocument /\ UNCHANGED <<past, future, clip, asked>>
  BY Resized
<1> DEFINE k == Len(past)
           j == Len(future)
<1>3. /\ Line \in Seq(GoodDocument) /\ k \in Nat /\ j \in Nat /\ Len(Line) = k + 1 + j
      /\ \A i \in 1..k : Line[i] = past[i]
      /\ \A i \in 1..j : Line[k + 1 + i] = future[i]
  BY <1>1, LineParts DEF Line
<1>4. /\ Line' \in Seq(GoodDocument) /\ Len(Line') = k + 1 + j
      /\ \A i \in 1..k : Line'[i] = past[i]
      /\ \A i \in 1..j : Line'[k + 1 + i] = future[i]
  <2>1. \A l, x : l = past \o (<<x>> \o future) /\ x \in GoodDocument =>
          /\ l \in Seq(GoodDocument) /\ Len(l) = k + 1 + j
          /\ \A i \in 1..k : l[i] = past[i]
          /\ \A i \in 1..j : l[k + 1 + i] = future[i]
    BY <1>1, LineParts
  <2>2. Line' = past \o (<<doc'>> \o future)
    BY <1>2 DEF Line
  <2>3. QED BY <1>2, <2>1, <2>2
<1> HIDE DEF k, j
<1>5. DOMAIN Line = 1..(k + 1 + j) /\ DOMAIN Line' = 1..(k + 1 + j)
  BY <1>3, <1>4, NumberAt
<1>6. \A i \in DOMAIN Line \ {k + 1} : Line'[i] = Line[i]
  <2>1. SUFFICES ASSUME NEW i \in 1..(k + 1 + j), i # k + 1 PROVE Line'[i] = Line[i]
    BY <1>5
  <2>2. CASE i \in 1..k
    BY <1>3, <1>4, <2>2
  <2>3. CASE i > k + 1
    <3>1. i - (k + 1) \in 1..j /\ k + 1 + (i - (k + 1)) = i
      BY <1>3, <2>1, <2>3
    <3>2. Line'[k + 1 + (i - (k + 1))] = Line[k + 1 + (i - (k + 1))]
      BY <1>3, <1>4, <3>1
    <3>3. QED BY <3>1, <3>2
  <2>4. QED BY <1>3, <2>1, <2>2, <2>3
<1>7. (Len(past) + 1)' = Len(past) + 1 /\ asked' = asked
  BY <1>2
<1>8. QED BY <1>5, <1>6, <1>7 DEF Promise!Retouch, k

LEMMA UndoGoesBack ==
  ASSUME HInv, Undo
  PROVE  Promise!GoBack
<1>1. /\ past # <<>> /\ past' = Front(past) /\ doc' = Last(past) /\ future' = <<doc>> \o future
      /\ asked' = asked
  BY DEF Undo
<1>2. past \in Seq(GoodDocument) /\ future \in Seq(GoodDocument) /\ doc \in GoodDocument
  BY DEF HInv
<1>3. /\ Len(past) \in Nat \ {0} /\ Front(past) \in Seq(GoodDocument)
      /\ Len(Front(past)) = Len(past) - 1 /\ <<Last(past)>> \in Seq(GoodDocument)
  BY <1>1, <1>2, Ends, OneList
<1>4. <<doc>> \o future \in Seq(GoodDocument)
  BY <1>2, Put
<1>5. Front(past) \o (<<Last(past)>> \o (<<doc>> \o future))
        = (Front(past) \o <<Last(past)>>) \o (<<doc>> \o future)
  BY <1>3, <1>4, ConcatAssociative
<1>6. Front(past) \o <<Last(past)>> = past
  BY <1>1, <1>2, FrontLast
<1>7. Line' = Line
  BY <1>1, <1>5, <1>6, Zenon DEF Line
<1>8. (Len(past) + 1)' = Len(past) + 1 - 1 /\ Len(past) + 1 > 1
  BY <1>1, <1>3
<1>9. QED BY <1>1, <1>7, <1>8 DEF Promise!GoBack

LEMMA RedoGoesForward ==
  ASSUME HInv, Redo
  PROVE  Promise!GoForward
<1>1. /\ future # <<>> /\ past' = Append(past, doc) /\ doc' = Head(future)
      /\ future' = Tail(future) /\ asked' = asked
  BY DEF Redo
<1>2. past \in Seq(GoodDocument) /\ future \in Seq(GoodDocument) /\ doc \in GoodDocument
  BY DEF HInv
<1>3. Append(past, doc) = past \o <<doc>> /\ Len(Append(past, doc)) = Len(past) + 1
  BY <1>2, AppendIsConcat, AppendFacts
<1>4. <<Head(future)>> \o Tail(future) = future /\ Len(future) \in Nat \ {0}
  BY <1>1, <1>2, HeadTail, Ends
<1>5. (past \o <<doc>>) \o future = past \o (<<doc>> \o future)
  <2>1. <<doc>> \in Seq(GoodDocument)
    BY <1>2, OneList
  <2>2. QED BY <1>2, <2>1, ConcatAssociative
<1>6. Line' = Line
  BY <1>1, <1>3, <1>4, <1>5, Zenon DEF Line
<1>7. (Len(past) + 1)' = Len(past) + 1 + 1 /\ Len(past) + 1 < Len(Line)
  BY <1>1, <1>3, <1>4, PlaceOfPage
<1>8. QED BY <1>1, <1>6, <1>7 DEF Promise!GoForward

\* However a tab edits, resizes, undoes, redoes and gets late answers, it keeps the
\* promise of HistoryPromise: undo and redo walk along a line they never change, an
\* edit replaces only what lies ahead, and nothing but the limit shortens what lies
\* behind.  BuilderEditor.tsx:203-207, 543-561.
THEOREM KeepsThePromise == Spec => KeepsTheLine
<1>1. Init => Promise!PromiseInit
  <2> SUFFICES ASSUME Init PROVE Promise!PromiseInit
    OBVIOUS
  <2>1. doc \in Documents /\ past = <<>> /\ future = <<>> /\ asked = NoAsk
    BY DEF Init
  <2>2. <<doc>> \in Seq({doc})
    BY OneList
  <2>3. <<>> \o (<<doc>> \o <<>>) = <<doc>>
    BY <2>2, ConcatEmptySeq
  <2>4. Line = <<doc>> /\ Len(past) + 1 = 1
    BY <2>1, <2>3 DEF Line
  <2>5. QED BY <2>1, <2>4 DEF Promise!PromiseInit
<1>2. HInv /\ [Next]_vars => [Promise!PromiseNext]_(Promise!promiseVars)
  <2> SUFFICES ASSUME HInv, [Next]_vars
               PROVE  Promise!PromiseNext \/ UNCHANGED Promise!promiseVars
    OBVIOUS
  <2> USE DEF Promise!PromiseNext
  <2>1. CASE Edited
    <3>1. PICK next : Good(next) /\ Commit(doc, next)
      BY <2>1 DEF Edited
    <3>2. next \in GoodDocument /\ doc \in GoodDocument /\ asked' = asked
      BY <2>1, <3>1, DocGood, GoodDocuments DEF Edited
    <3>3. Promise!Follow(doc)
      BY <3>1, <3>2, CommitFollows
    <3>4. Promise!Follow(Line[Len(past) + 1])
      BY <3>3, PlaceOfPage
    <3>5. QED BY <3>2, <3>4 DEF Promise!Change
  <2>2. CASE Answered
    <3>1. PICK next : Good(next) /\ Commit(asked, next)
      BY <2>2 DEF Answered
    <3>2. next \in GoodDocument /\ asked \in GoodDocument /\ asked # NoAsk /\ asked' = NoAsk
      BY <2>2, <3>1, DocGood, GoodDocuments DEF Answered
    <3>3. Promise!Follow(asked)
      BY <3>1, <3>2, CommitFollows
    <3>4. QED BY <3>2, <3>3 DEF Promise!Answer
  <2>3. ASSUME NEW c \in Columns, NEW n \in Pulls, Resize(c, n)
        PROVE  Promise!PromiseNext
    BY <2>3, ResizeRetouches
  <2>4. CASE Undo
    BY <2>4, UndoGoesBack
  <2>5. CASE Redo
    BY <2>5, RedoGoesForward
  <2>6. CASE Ask
    <3>1. asked = NoAsk /\ asked' = doc /\ UNCHANGED <<doc, past, future>>
      BY <2>6 DEF Ask
    <3>2. Line' = Line /\ (Len(past) + 1)' = Len(past) + 1
      BY <3>1 DEF Line
    <3>3. QED BY <3>1, <3>2, PlaceOfPage DEF Promise!AskFor
  <2>7. CASE NoAnswer
    <3>1. asked # NoAsk /\ asked' = NoAsk /\ UNCHANGED <<doc, past, future>>
      BY <2>7 DEF NoAnswer
    <3>2. Line' = Line /\ (Len(past) + 1)' = Len(past) + 1
      BY <3>1 DEF Line
    <3>3. QED BY <3>1, <3>2 DEF Promise!Drop
  <2>8. CASE (\E id \in Node : CopyNode(id)) \/ UNCHANGED vars
    <3>1. UNCHANGED <<doc, past, future, asked>>
      BY <2>8 DEF CopyNode, vars
    <3>2. QED BY <3>1 DEF Promise!promiseVars, Line
  <2>9. QED
    BY <2>1, <2>2, <2>3, <2>4, <2>5, <2>6, <2>7, <2>8, Steps
<1>3. QED BY <1>1, <1>2, HInvCorrect, PTL DEF Spec, KeepsTheLine, Promise!PromiseSpec
=============================================================================
