----------------------------- MODULE BuilderTree -----------------------------
(***************************************************************************)
(* The documents of the site builder and the operations on them            *)
(* (builder/tree.ts, builder/ops.ts).  A document is a tree: sections hold *)
(* columns, columns hold widgets, and a container widget holds sections    *)
(* again.  Props, styles and labels are left out: no operation here reads  *)
(* them.  Positions count from 1.                                          *)
(***************************************************************************)
EXTENDS Naturals, FiniteSets, SequencesExt

CONSTANTS
  Sections, Columns, Widgets,  \* ids of nodes, each of one kind
  Containers,                  \* widgets that have children
  Root,                        \* what holds the sections of a document
  FullSpan,                    \* 12 grid units
  MaxColumns                   \* 6 columns of a section

ASSUME TreeAssumption ==
  /\ Sections \cap Columns = {} /\ Sections \cap Widgets = {}
  /\ Columns \cap Widgets = {} /\ Containers \subseteq Widgets
  /\ Root \notin Sections \cup Columns \cup Widgets
  /\ IsFiniteSet(Sections \cup Columns \cup Widgets)
  /\ FullSpan \in Nat \ {0, 1} /\ MaxColumns \in 1..FullSpan

Node   == Sections \cup Columns \cup Widgets
Parent == Node \cup {Root}

Document == [kids : [Parent -> Seq(Node)], span : [Columns -> Nat], locked : SUBSET Node]

emptyDocument ==
  [kids |-> [x \in Parent |-> <<>>], span |-> [c \in Columns |-> 0], locked |-> {}]

-----------------------------------------------------------------------------
(* Looking up nodes.                                                       *)

In(d) == UNION {ToSet(d.kids[x]) : x \in Parent}

\* The node and everything below it.
Below(d, id) ==
  LET grow[S \in SUBSET Parent] ==
        LET more == S \cup UNION {ToSet(d.kids[x]) : x \in S}
        IN IF more = S THEN S ELSE grow[more]
  IN grow[{id}]

Holder(d, id) == CHOOSE x \in Parent : id \in ToSet(d.kids[x])
Position(d, id) == CHOOSE i \in DOMAIN d.kids[Holder(d, id)] : d.kids[Holder(d, id)][i] = id

\* isLocked: the node or what it is in.
isLocked(d, id) == \E x \in d.locked : id \in Below(d, x)

\* topSectionOf: the section of the document that id is in.
topSectionOf(d, id) == CHOOSE s \in ToSet(d.kids[Root]) : id \in Below(d, s)

\* The column a new widget goes to, or Root if there is none.
defaultColumn(d, sel) ==
  LET first(s) == IF d.kids[s] = <<>> THEN Root ELSE d.kids[s][1]
  IN IF sel \in In(d) \cap Columns THEN sel
     ELSE IF sel \in In(d) \cap Widgets THEN Holder(d, sel)
     ELSE IF sel \in In(d) THEN first(sel)
     ELSE IF d.kids[Root] = <<>> THEN Root ELSE first(Last(d.kids[Root]))

-----------------------------------------------------------------------------
(* Parts of documents.                                                     *)

\* f, and g where f says nothing.
Over(f, g) == [x \in DOMAIN f \cup DOMAIN g |-> IF x \in DOMAIN f THEN f[x] ELSE g[x]]

\* The node id of d with all that is below it.
Part(d, id) ==
  LET nodes == Below(d, id)
  IN [root |-> id, kids |-> [x \in nodes |-> d.kids[x]],
      span |-> [c \in nodes \cap Columns |-> d.span[c]], locked |-> d.locked \cap nodes]

Free(d, kind) == kind \ In(d)
Spare(d, kind) == CHOOSE x \in Free(d, kind) : TRUE

\* uid: an id the document does not have for every node of p that is of the kind.
Renamings(d, p, kind) == Injection(DOMAIN p.kids \cap kind, Free(d, kind))

\* There are ids left to clone the part p (a bound: uid never runs out).
CanClone(d, p) ==
  \A kind \in {Sections, Columns, Containers, Widgets \ Containers} :
    Renamings(d, p, kind) # {}

\* Mutant of clone: only the node itself gets an id of its own.
cloneShallow(d, p) ==
  LET new == CHOOSE y \in UNION {kind \ In(d) : kind \in
               {k \in {Sections, Containers, Widgets \ Containers} : p.root \in k}} : TRUE
      old(y) == IF y = new THEN p.root ELSE y
  IN [p EXCEPT !.root = new,
        !.kids = [y \in {new} \cup (DOMAIN p.kids \ {p.root}) |-> p.kids[old(y)]]]

\* cloneSection, cloneWidget: every node gets an id the document does not have.
clone(d, p) ==
  LET nodes == DOMAIN p.kids
      of(kind) == CHOOSE f \in Renamings(d, p, kind) : TRUE
      new == Over(Over(of(Sections), of(Columns)), Over(of(Containers), of(Widgets \ Containers)))
      old == AntiFunction(new)
      renamed(S) == {new[x] : x \in S}
  IN [root |-> new[p.root],
      kids |-> [y \in renamed(nodes) |->
                  [i \in DOMAIN p.kids[old[y]] |-> new[p.kids[old[y]][i]]]],
      span |-> [y \in renamed(nodes \cap Columns) |-> p.span[old[y]]],
      locked |-> renamed(p.locked)]

\* createSection: an empty section of one column.
CanCreate(d) == Free(d, Sections) # {} /\ Free(d, Columns) # {}
createSection(d) ==
  LET s == Spare(d, Sections) c == Spare(d, Columns)
  IN [root |-> s, kids |-> [x \in {s, c} |-> IF x = s THEN <<c>> ELSE <<>>],
      span |-> [x \in {c} |-> FullSpan], locked |-> {}]

createWidget(w) ==
  [root |-> w, kids |-> [x \in {w} |-> <<>>], span |-> [x \in {} |-> 0], locked |-> {}]

-----------------------------------------------------------------------------
(* Operations.                                                             *)

Clamp(n, low, high) == IF n < low THEN low ELSE IF n > high THEN high ELSE n

\* Mutant of insert: what was at the position is replaced.
insertOver(d, p, at, i) ==
  IF at \notin In(d) \cup {Root} THEN d
  ELSE [kids |-> [Over(p.kids, d.kids) EXCEPT
                    ![at] = IF i \in DOMAIN @ THEN ReplaceAt(@, i, p.root) ELSE Append(@, p.root)],
        span |-> Over(p.span, d.span), locked |-> d.locked \cup p.locked]

\* insertWidget, and splice for sections: nothing happens if the document does
\* not have the column.
insert(d, p, at, i) ==
  IF at \notin In(d) \cup {Root} THEN d
  ELSE [kids |-> [Over(p.kids, d.kids) EXCEPT
                    ![at] = InsertAt(@, Clamp(i, 1, Len(@) + 1), p.root)],
        span |-> Over(p.span, d.span), locked |-> d.locked \cup p.locked]

\* removeNode: the node goes with all that is below it; a list holds it once.
removeNode(d, id) ==
  LET nodes == Below(d, id)
  IN [kids |-> [x \in Parent |-> IF x \in nodes THEN <<>> ELSE RemoveFirst(d.kids[x], id)],
      span |-> [c \in Columns |-> IF c \in nodes THEN 0 ELSE d.span[c]],
      locked |-> d.locked \ nodes]

\* moveWidget: removed first, then inserted where the column is by then.
moveWidget(d, w, c, i) ==
  IF Holder(d, w) = c /\ i \in {Position(d, w), Position(d, w) + 1} THEN d
  ELSE insert(removeNode(d, w), Part(d, w), c,
              IF Holder(d, w) = c /\ Position(d, w) < i THEN i - 1 ELSE i)

\* moveSection, of a section of the document.
moveSection(d, s, i) == insert(removeNode(d, s), Part(d, s), Root, i)

addSection(d) == insert(d, createSection(d), Root, Len(d.kids[Root]) + 1)

\* addColumn: the columns of the section share the grid evenly again.
addColumn(d, s) ==
  LET cols == Append(d.kids[s], Spare(d, Columns))
      base == FullSpan \div Len(cols)
      extra == FullSpan - base * Len(cols)
  IN IF Len(d.kids[s]) >= MaxColumns THEN d
     ELSE [d EXCEPT !.kids[s] = cols,
                    !.span = [c \in Columns |->
                                IF c \notin ToSet(cols) THEN @[c]
                                ELSE base + (IF \E i \in 1..extra : cols[i] = c
                                             THEN 1 ELSE 0)]]

\* Mutant of resizeColumn: the neighbour's share is not considered.
resizeFreely(d, c, n) ==
  LET cols == d.kids[Holder(d, c)]  at == Position(d, c)
      span == Clamp(n, 1, FullSpan - 1)
      mate == IF at < Len(cols) THEN cols[at + 1] ELSE cols[at - 1]
      pair == d.span[c] + d.span[mate]
  IN IF Len(cols) = 1 THEN [d EXCEPT !.span[c] = span]
     ELSE [d EXCEPT !.span[c] = span,
                    !.span[mate] = IF pair > span THEN pair - span ELSE 1]

\* Mutant of resizeColumn: the neighbour loses more than it has.
resizeUnchecked(d, c, n) ==
  LET cols == d.kids[Holder(d, c)]  at == Position(d, c)
      span == Clamp(n, 1, FullSpan - 1)
      mate == IF at < Len(cols) THEN cols[at + 1] ELSE cols[at - 1]
      pair == d.span[c] + d.span[mate]
  IN IF Len(cols) = 1 THEN [d EXCEPT !.span[c] = span]
     ELSE [d EXCEPT !.span[c] = span, !.span[mate] = pair - span]

\* resizeColumn: what the column gains its neighbour loses.
resizeColumn(d, c, n) ==
  LET cols == d.kids[Holder(d, c)]  at == Position(d, c)
      span == Clamp(n, 1, FullSpan - 1)
      mate == IF at < Len(cols) THEN cols[at + 1] ELSE cols[at - 1]
      pair == d.span[c] + d.span[mate]
      mine == IF span < pair THEN span ELSE pair - 1
  IN IF Len(cols) = 1 THEN [d EXCEPT !.span[c] = span]
     ELSE [d EXCEPT !.span[c] = mine, !.span[mate] = pair - mine]

\* duplicateWidget, duplicateSection.
duplicate(d, id) ==
  insert(d, clone(d, Part(d, id)), Holder(d, id), Position(d, id) + 1)

\* makeClip: a column is copied as a section of that column, the full span wide.
makeClip(d, id) ==
  LET p == Part(d, id)  s == Holder(d, id)
  IN IF id \notin Columns THEN p
     ELSE [p EXCEPT !.root = s, !.kids = Over([x \in {s} |-> <<id>>], @), !.span[id] = FullSpan]

\* pasteClip: a widget after the selected one, or at the end of a column, in a new
\* section if there is none; a section after the one of the document the selection
\* is in, or at the end.
pasteClip(d, clip, sel) ==
  LET end(x) == Len(d.kids[x]) + 1
      nested == sel \in Sections \ ToSet(d.kids[Root])
      column == defaultColumn(d, sel)
      wider == addSection(d)
  IN IF clip.root \in Sections
     THEN insert(d, clone(d, clip), Root,
                 IF sel \in In(d) /\ ~nested THEN Position(d, topSectionOf(d, sel)) + 1
                 ELSE end(Root))
     ELSE IF sel \in In(d) \cap Widgets
     THEN insert(d, clone(d, clip), Holder(d, sel), Position(d, sel) + 1)
     ELSE IF column # Root THEN insert(d, clone(d, clip), column, end(column))
     ELSE insert(wider, clone(wider, clip), Head(wider.kids[Last(wider.kids[Root])]), 1)

-----------------------------------------------------------------------------
\* Every node is in one place, and in a node of the right kind.
IsTree(d) ==
  /\ \A x \in Parent, y \in Parent : \A i \in DOMAIN d.kids[x], j \in DOMAIN d.kids[y] :
       d.kids[x][i] = d.kids[y][j] => x = y /\ i = j
  /\ LET seen == Below(d, Root) IN \A x \in Node \ seen : d.kids[x] = <<>>
  /\ ToSet(d.kids[Root]) \subseteq Sections
  /\ \A s \in Sections : ToSet(d.kids[s]) \subseteq Columns
  /\ \A c \in Columns : ToSet(d.kids[c]) \subseteq Widgets
  /\ \A w \in Widgets : ToSet(d.kids[w]) \subseteq IF w \in Containers THEN Sections ELSE {}
  /\ d.locked \subseteq In(d)

SumOf(numbers) ==
  LET upTo[i \in 0..Len(numbers)] == IF i = 0 THEN 0 ELSE upTo[i - 1] + numbers[i]
  IN upTo[Len(numbers)]

Total(d, s) == SumOf([i \in DOMAIN d.kids[s] |-> d.span[d.kids[s][i]]])

\* Every column is seen, and the columns of a section fit into one row.
SpansFit(d) ==
  /\ \A c \in In(d) \cap Columns : d.span[c] >= 1
  /\ \A s \in In(d) \cap Sections : Total(d, s) <= FullSpan
=============================================================================
