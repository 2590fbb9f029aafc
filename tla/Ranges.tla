------------------------------- MODULE Ranges -------------------------------
(***************************************************************************)
(* rangeSelector and negmax of jsonpath/selector.go: the indices that      *)
(* [min:max:step] visits in an array of n elements, and what such a range  *)
(* means, apart from how they are computed.                                *)
(***************************************************************************)
EXTENDS Integers

\* Variant: an upper bound beyond the end of the array is not brought back.
negmaxUnclamped(n, max) == IF n < 0 THEN (IF max + n < 0 THEN 0 ELSE max + n) ELSE n

negmax(n, max) ==
    IF n < 0 THEN (IF max + n < 0 THEN 0 ELSE max + n)
    ELSE IF n > max THEN max ELSE n

\* The two loops: from lo on upwards, or from below hi downwards.
Indices(lo, hi, step) ==
    LET width == IF step > 0 THEN step ELSE -step
        count == (hi - lo + width - 1) \div width
    IN  [j \in 1 .. count |-> IF step > 0 THEN lo + (j - 1) * width
                                          ELSE hi - 1 - (j - 1) * width]

\* A range that is empty as written stays empty, whatever negative bounds would
\* come to.  (The first index past the end panics, so none is listed beyond it.)
RangeIndices(min, max, step, n) ==
    LET hi == negmax(max, n)
    IN  IF min > max THEN << >>
        ELSE Indices(negmax(min, n), IF hi > n THEN n + 1 ELSE hi,
                     IF step = 0 THEN 1 ELSE step)

----------------------------------------------------------------------------
\* A range: every step-th index from the lower bound on or, downwards, from
\* below the upper bound; negative bounds count from the end.  (A range whose
\* bounds are written in falling order is empty.)
InRange(i, min, max, step, n) ==
    LET Counted(b) == IF b < 0 THEN b + n ELSE b
        lo == IF Counted(min) < 0 THEN 0 ELSE Counted(min)
        hi == IF Counted(max) > n THEN n ELSE Counted(max)
    IN  /\ min <= max /\ lo <= i /\ i < hi
        /\ \E k \in 0 .. n :
             i = CASE step = 0 -> lo + k
                   [] step > 0 -> lo + k * step
                   [] step < 0 -> hi - 1 + k * step

============================================================================
