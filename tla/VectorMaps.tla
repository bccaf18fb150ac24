------------------------------- MODULE VectorMaps ------------------------------
(******************************************************************************)
(* What a view of one dimension promises: a first index and the sequence of   *)
(* its elements, each of them so many units of memory from some place on.     *)
(* There is no stride, no offset and no pointer here.                         *)
(******************************************************************************)
EXTENDS Integers, Sequences, SequencesExt

CONSTANTS
    Counts,     \* the sizes of the arrays that views are made of
    Width,      \* the units of memory of an element of an array
    Firsts,     \* the first indices that reindexed is called with
    Steps,      \* the steps that strided is called with
    Bounds      \* the bounds that ranges are made of

VARIABLES
    first,      \* the first index
    places,     \* where each element starts
    width,      \* the units of an element
    call        \* the operation that made the view, with its arguments

vars == <<first, places, width, call>>

--------------------------------------------------------------------------------
n == Len(places)

\* An extension without indices is reported as the one that starts at zero.
Becomes(f, s, w, op) ==
    /\ call' = op
    /\ first' = IF s = <<>> THEN 0 ELSE f
    /\ places' = s
    /\ width' = w

\* The elements from index a on, and before index b.
Between(a, b) == SubSeq(places, a - first + 1, b - first)

Smallest(S) == CHOOSE i \in S : \A j \in S : i <= j
Largest(S) == CHOOSE i \in S : \A j \in S : j <= i

Common(a, b) == {i \in first .. first + n - 1 : a <= i /\ i < b}

Init ==
    \E count \in Counts :
        /\ first = 0
        /\ places = [k \in 1 .. count |-> Width * (k - 1)]
        /\ width = Width
        /\ call = <<"array", count>>

Same == Becomes(first, places, width, <<"same">>)

Transformed == Becomes(first, places, width, <<"transformed">>)

Reindexed(f) == Becomes(f, places, width, <<"reindexed", f>>)

Taked(k) == Becomes(first, SubSeq(places, 1, k), width, <<"taked", k>>)

Dropped(k) == Becomes(first, SubSeq(places, k + 1, n), width, <<"dropped", k>>)

Sliced(a, b) == Becomes(first, Between(a, b), width, <<"sliced", a, b>>)

Blocked(a, b) == Becomes(a, Between(a, b), width, <<"blocked", a, b>>)

\* The elements whose indices a range and the view have in common.
Intersected(a, b) ==
    LET S == Common(a, b)
    IN  Becomes(first, IF S = {} THEN <<>> ELSE Between(Smallest(S), Largest(S) + 1), width,
                <<"intersected", a, b>>)

\* Every s-th element, from the first.
Every(s, sq) == [k \in 1 .. Len(sq) \div s |-> sq[s * (k - 1) + 1]]

Strided(s) == Becomes(first \div s, Every(s, places), width, <<"strided", s>>)

SlicedBy(a, b, s) == Becomes(first \div s, Every(s, Between(a, b)), width, <<"sliced", a, b, s>>)

\* Part k, from zero, of p equal parts; and of parts of c elements.
Part(p, k) ==
    /\ n % p = 0 /\ k < p
    /\ LET c == n \div p
       IN  Becomes(first, SubSeq(places, k * c + 1, (k + 1) * c), width, <<"part", p, k>>)

Chunk(c, k) ==
    /\ n % c = 0 /\ (k + 1) * c <= n
    /\ Becomes(first, SubSeq(places, k * c + 1, (k + 1) * c), width, <<"chunk", c, k>>)

Tile(c, k) ==
    /\ (k + 1) * c <= n
    /\ Becomes(first, SubSeq(places, k * c + 1, (k + 1) * c), width, <<"tile", c, k>>)

Remainder(c) ==
    Becomes(first, SubSeq(places, n - (n % c) + 1, n), width, <<"remainder", c>>)

\* Unit m of every element; all the units of the element at index i; and whole
\* elements again where their units are.
Member(m) == Becomes(first, [k \in 1 .. n |-> places[k] + m], 1, <<"member", m>>)

Units(i) ==
    Becomes(0, [k \in 1 .. width |-> places[i - first + 1] + k - 1], 1, <<"units", i>>)

Wholes == Becomes(first, places, Width, <<"wholes">>)

Next ==
    \/ Same \/ Transformed \/ Wholes
    \/ \E f \in Firsts : Reindexed(f)
    \/ \E k \in 0 .. n : Taked(k) \/ Dropped(k)
    \/ \E a, b \in first .. first + n : a <= b /\ (Sliced(a, b) \/ Blocked(a, b))
    \/ \E a, b \in first .. first + n, s \in Steps : a <= b /\ SlicedBy(a, b, s)
    \/ \E a, b \in Bounds : Intersected(a, b)
    \/ \E s \in Steps : Strided(s)
    \/ \E p \in 1 .. n : \/ Remainder(p)
                         \/ \E k \in 0 .. n - 1 : Part(p, k) \/ Chunk(p, k) \/ Tile(p, k)
    \/ \E m \in 0 .. Width - 1 : Member(m)
    \/ n > 0 /\ \E i \in first .. first + n - 1 : Units(i)

Spec == Init /\ [][Next]_vars

================================================================================
