--------------------------- MODULE MCEditorHistory ---------------------------
EXTENDS EditorHistory

CONSTANTS s1, s2, s3, c1, c2, c3, c4, w1, w2, w3, w4

\* A section of two columns, the first with a container: in it, a section with a
\* widget.
MCPage ==
  [kids |-> [x \in Parent |->
     CASE x = Root -> <<s1>> [] x = s1 -> <<c1, c2>> [] x = c1 -> <<w1>>
       [] x = w1 -> <<s2>> [] x = s2 -> <<c3>> [] x = c3 -> <<w2>> [] OTHER -> <<>>],
   span |-> [c \in Columns |-> CASE c = c1 -> 8 [] c = c2 -> 4 [] c = c3 -> FullSpan [] OTHER -> 0],
   locked |-> {}]

\* Two widgets in two columns; ids are left to copy with.
MCPlain ==
  [kids |-> [x \in Parent |->
     CASE x = Root -> <<s1>> [] x = s1 -> <<c1, c2>> [] x = c1 -> <<w1>> [] x = c2 -> <<w2>>
       [] OTHER -> <<>>],
   span |-> [c \in Columns |-> IF c \in {c1, c2} THEN 6 ELSE 0],
   locked |-> {}]

MCDocuments == {emptyDocument, MCPage, MCPlain}
=============================================================================
