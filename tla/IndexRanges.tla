------------------------------ MODULE IndexRanges ------------------------------
(******************************************************************************)
(* Half-open ranges of indices (detail/index_range.hpp): range, extension_t   *)
(* and intersecting_range.  A range is a pair <<first, last>>.                *)
(******************************************************************************)
EXTENDS Integers

Smaller(a, b) == IF a < b THEN a ELSE b
Larger(a, b) == IF a < b THEN b ELSE a

\* The limits of std::ptrdiff_t, here those of a narrower type.
IndexMin == -2147483647
IndexMax == 2147483647

RangeSize(r) == r[2] - r[1]

Front_(r) == r[1]
InRange(r, i) == i >= r[1] /\ i < r[2]

\* The index find(i) stops at: that of end() unless i is in the range.
Find(r, i) ==
    IF i >= r[2] \/ i < r[1] THEN r[2] ELSE r[1] + (i - Front_(r))

\* Wrong on purpose: the first index is not clipped.
Intersection_Disjoint(x, y) ==
    LET last == Smaller(x[2], y[2])
    IN  <<Larger(x[1], y[1]), last>>

\* Ranges that have no index in common intersect in an empty one.
Intersection(x, y) ==
    LET last == Smaller(x[2], y[2])
    IN  <<Smaller(Larger(x[1], y[1]), last), last>>

\* The indices a, a + 1, ... and the indices ..., b - 2, b - 1 of whatever they
\* are intersected with.
All == <<IndexMin, IndexMax>>
From(a, r) == <<a, r[2]>>
Upto(r, b) == <<r[1], b>>

================================================================================
