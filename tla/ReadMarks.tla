----------------------------- MODULE ReadMarks ------------------------------
(***************************************************************************)
(* What the program does to the numbers that have been read of a server's  *)
(* articles in a group: it marks and unmarks articles (pan/data-impl/      *)
(* headers.cc), marks all up to a number when the group is marked read     *)
(* (groups.cc) or the server's first article is known (xover.cc), and      *)
(* keeps the ranges in a newsrc file (groups.cc).                          *)
(***************************************************************************)
EXTENDS Numbers

CONSTANT Last0    \* the highest number

ASSUME ReadMarksAssumption == Last0 \in Nat

VARIABLES read,     \* ReadGroup::Server::_read
          truth,    \* the same, as a set
          result,   \* what the last call returned
          change    \* the numbers that it should have counted

marksVars == <<read, truth, result, change>>

MarksInit == read = <<>> /\ truth = {} /\ result = 0 /\ change = {}

\* mark_read, of one article
MarkArticle(n, add) ==
  LET done == MarkOne(read, n, add)
  IN  /\ read' = done.marked
      /\ truth' = IF add THEN truth \cup {n} ELSE truth \ {n}
      /\ result' = IF done.was THEN 1 ELSE 0
      /\ change' = truth \cap {n}

\* mark_group_read and set_xover_low
MarkUpTo(n) ==
  LET done == MarkRange(read, Span(0, n))
  IN  /\ read' = done.marked /\ result' = done.changed
      /\ truth' = truth \cup (0..n)
      /\ change' = (0..n) \ truth

\* mark_range, for a range that is taken out
Unmark(low, high) ==
  LET done == UnmarkRange(read, Span(low, high))
  IN  /\ read' = done.marked /\ result' = done.changed
      /\ truth' = truth \ (low..high)
      /\ change' = truth \cap (low..high)

\* The newsrc file is written, and read when the program starts again.
Restart ==
  /\ read' = Reread(read)
  /\ result' = 0 /\ change' = {}
  /\ UNCHANGED truth

MarksNext ==
  \/ Restart
  \/ \E n \in 0..Last0 : \/ MarkUpTo(n)
                         \/ \E add \in BOOLEAN : MarkArticle(n, add)
                         \/ \E m \in 0..n : Unmark(m, n)

MarksSpec == MarksInit /\ [][MarksNext]_marksVars

----------------------------------------------------------------------------

\* After any sequence of calls the ranges are those of the set that the calls
\* make: in order, none empty, none that touch, and is_marked agrees.  Each call
\* returns how many numbers it has changed, and mark_one whether its number was
\* marked, which the unread counts are computed from.
ReadIsTheSet ==
  /\ InOrder(read) /\ SetOf(read) = truth
  /\ \A n \in 0..Last0 : IsMarked(read, n) <=> n \in truth
  /\ result = Cardinality(change)
=============================================================================
