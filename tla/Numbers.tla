------------------------------ MODULE Numbers -------------------------------
(***************************************************************************)
(* The numbers of the articles that have been read, kept as a sorted       *)
(* sequence of inclusive ranges (pan/usenet-utils/numbers.cc): the ranges  *)
(* are spliced in place, from the first that reaches the low end of the    *)
(* change to the first that reaches its high end.                          *)
(***************************************************************************)
EXTENDS Integers, FiniteSets, FiniteSetsExt, Sequences, SequencesExt

Span(low, high) == IF low <= high THEN [low |-> low, high |-> high]
                   ELSE [low |-> high, high |-> low]
Has(r, n) == r.low <= n /\ n <= r.high
Covers(r, s) == r.low <= s.low /\ s.high <= r.high
Quantity(r) == r.high + 1 - r.low

\* std::lower_bound, as a one-based index: the first range that ends at or
\* beyond n, or one past the last.
LowerBound(marked, n) ==
  Min({i \in 1..Len(marked) : marked[i].high >= n} \cup {Len(marked) + 1})

\* How many ranges there are from low_index to high_index, and what is before
\* and after them.
Touched(marked, r) ==
  Min({LowerBound(marked, r.high), Len(marked)}) + 1 - LowerBound(marked, r.low)
Before(marked, r) == SubSeq(marked, 1, LowerBound(marked, r.low) - 1)
After(marked, r) == SubSeq(marked, LowerBound(marked, r.high) + 1, Len(marked))

\* A turn of mark_range's first loop, for the i-th range.  kept holds the ranges
\* before it, as the loop has left them.
MarkTurn(marked, rr, acc, i) ==
  LET r == marked[i]
      prev == IF acc.kept = <<>> THEN rr.low ELSE Last(acc.kept).high + 1
      next == IF i = Len(marked) THEN rr.high ELSE marked[i + 1].low - 1
  IN  IF Covers(rr, r) THEN [acc EXCEPT !.changed = @ - Quantity(r)]
      ELSE IF Covers(r, rr)
      THEN [kept |-> Append(acc.kept, r), changed |-> 0, found |-> TRUE]
      ELSE IF Has(r, rr.high)
      THEN [kept |-> Append(acc.kept, [r EXCEPT !.low = Max({rr.low, prev})]),
            changed |-> acc.changed - (rr.high + 1 - r.low), found |-> TRUE]
      ELSE IF Has(r, rr.low)
      THEN [kept |-> Append(acc.kept, [r EXCEPT !.high = Min({rr.high, next})]),
            changed |-> acc.changed - (r.high + 1 - rr.low), found |-> TRUE]
      ELSE [acc EXCEPT !.kept = Append(@, r)]

MarkOver(marked, rr) ==
  LET low == LowerBound(marked, rr.low)
      over[k \in 0..Touched(marked, rr)] ==
        IF k = 0
        THEN [kept |-> Before(marked, rr), changed |-> Quantity(rr), found |-> FALSE]
        ELSE MarkTurn(marked, rr, over[k - 1], low + k - 1)
  IN  over[Touched(marked, rr)]

\* Touching ranges are merged only with the range after them.
BadMerge(done, r) ==
  IF Len(done) > 1 /\ Last(done).high + 1 = r.low
  THEN Append(Front(done), [r EXCEPT !.low = Last(done).low])
  ELSE Append(done, r)

\* maybe_merge_ranges, when r comes after the ranges that are done.
Merge(done, r) ==
  IF done # <<>> /\ Last(done).high + 1 = r.low
  THEN Append(Front(done), [r EXCEPT !.low = Last(done).low])
  ELSE Append(done, r)

\* mark_range's second loop.
Merged(ranges) ==
  LET merged[k \in 0..Len(ranges)] ==
        IF k = 0 THEN <<>> ELSE Merge(merged[k - 1], ranges[k])
  IN  merged[Len(ranges)]

\* mark_range(const Range&): what is marked now, and how many are new.
MarkRange(marked, rr) ==
  LET over == MarkOver(marked, rr)
      low == LowerBound(marked, rr.low)
      all == (IF over.found THEN over.kept ELSE InsertAt(over.kept, low, rr))
             \o After(marked, rr)
      \* low_index, and one past high_index, after erasures and insertion
      first == IF over.found \/ low = 1 THEN low ELSE low - 1
      erased == low - 1 + Touched(marked, rr) - Len(over.kept)
      last == LowerBound(marked, rr.high) + 1 - erased + IF over.found THEN 0 ELSE 1
      end == Min({last, Len(all)})
  IN  [marked |-> SubSeq(all, 1, first - 1)
                  \o Merged(SubSeq(all, first, end))
                  \o SubSeq(all, end + 1, Len(all)),
       changed |-> over.changed]

\* What a turn of unmark_range's loop leaves of a range, and how many it takes
\* out: a range that is cut at both ends leaves two.
Cut(ur, r) ==
  LET low == [r EXCEPT !.high = ur.low - 1]
      high == [r EXCEPT !.low = ur.high + 1]
      Leave(rest, n) == [kept |-> rest, changed |-> n]
  IN  IF Covers(ur, r) THEN Leave(<<>>, Quantity(r))
      ELSE IF r.low # ur.low /\ r.high # ur.high /\ Covers(r, ur)
      THEN Leave(<<low, high>>, Quantity(ur))
      ELSE IF ur.low # r.low /\ Has(r, ur.low)
      THEN Leave(<<low>>, r.high + 1 - ur.low)
      ELSE IF ur.high # r.high /\ Has(r, ur.high)
      THEN Leave(<<high>>, ur.high + 1 - r.low)
      ELSE Leave(<<r>>, 0)

UnmarkTurn(ur, acc, r) ==
  LET cut == Cut(ur, r)
  IN  [kept |-> acc.kept \o cut.kept, changed |-> acc.changed + cut.changed]

UnmarkRange(marked, ur) ==
  LET low == LowerBound(marked, ur.low)
      over[k \in 0..Touched(marked, ur)] ==
        IF k = 0 THEN [kept |-> Before(marked, ur), changed |-> 0]
        ELSE UnmarkTurn(ur, over[k - 1], marked[low + k - 1])
      done == over[Touched(marked, ur)]
  IN  [marked |-> done.kept \o After(marked, ur), changed |-> done.changed]

IsMarked(marked, n) ==
  LET i == LowerBound(marked, n) IN i <= Len(marked) /\ Has(marked[i], n)

\* mark_one, and the previous state of the number.
MarkOne(marked, n, add) ==
  LET done == IF add THEN MarkRange(marked, Span(n, n)) ELSE UnmarkRange(marked, Span(n, n))
  IN  [marked |-> done.marked, was |-> (done.changed = 0) <=> add]

\* mark_str, of the ranges that to_string wrote.
Reread(ranges) ==
  LET reread[k \in 0..Len(ranges)] ==
        IF k = 0 THEN <<>> ELSE MarkRange(reread[k - 1], ranges[k]).marked
  IN  reread[Len(ranges)]

----------------------------------------------------------------------------
(* What a sequence of ranges stands for.                                   *)

\* Sorted, none empty, and none that touch.
InOrder(marked) ==
  \A i, j \in 1..Len(marked) :
    /\ marked[i].low <= marked[i].high
    /\ i < j => marked[i].high + 1 < marked[j].low

SetOf(marked) == UNION {marked[i].low..marked[i].high : i \in 1..Len(marked)}
=============================================================================
