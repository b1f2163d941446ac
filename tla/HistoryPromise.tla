--------------------------- MODULE HistoryPromise ---------------------------
(***************************************************************************)
(* What undo and redo promise, without saying what a page is or how it is  *)
(* edited: the pages a tab has shown are a line, oldest first, with one    *)
(* place on it.  Going back and forward leaves the line alone.  An edit    *)
(* keeps what lies behind, but for the oldest page at the limit, and puts  *)
(* one new page in place of what lies ahead.  Resizing changes the page    *)
(* in its place only.  An edit that is answered late starts from the page  *)
(* it was asked for, and that page is the one to go back to.               *)
(***************************************************************************)
EXTENDS Naturals, SequencesExt

CONSTANTS Openings,  \* the pages a tab may open
          Limit,     \* how many pages one can go back
          Nothing    \* nothing was asked for

VARIABLES line,   \* the pages
          at,     \* the place of the page that is shown
          asked   \* the page a late edit starts from, or Nothing

promiseVars == <<line, at, asked>>

PromiseInit ==
  /\ \E page \in Openings : line = <<page>>
  /\ at = 1
  /\ asked = Nothing

\* A new page after the page from.
Follow(from) ==
  /\ Front(line') = Append(SubSeq(line, IF at <= Limit THEN 1 ELSE 2, at - 1), from)
  /\ at' = Len(line')

Change == Follow(line[at]) /\ UNCHANGED asked

Retouch ==
  /\ DOMAIN line' = DOMAIN line
  /\ \A i \in DOMAIN line \ {at} : line'[i] = line[i]
  /\ UNCHANGED <<at, asked>>

GoBack    == at > 1 /\ at' = at - 1 /\ UNCHANGED <<line, asked>>
GoForward == at < Len(line) /\ at' = at + 1 /\ UNCHANGED <<line, asked>>

AskFor == asked = Nothing /\ asked' = line[at] /\ UNCHANGED <<line, at>>
Answer == asked # Nothing /\ Follow(asked) /\ asked' = Nothing
Drop   == asked # Nothing /\ asked' = Nothing /\ UNCHANGED <<line, at>>

PromiseNext == Change \/ Retouch \/ GoBack \/ GoForward \/ AskFor \/ Answer \/ Drop

PromiseSpec == PromiseInit /\ [][PromiseNext]_promiseVars
=============================================================================
