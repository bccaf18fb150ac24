------------------------------- MODULE IndexMaps -------------------------------
(******************************************************************************)
(* What a view promises: a box of valid indices, one pair <<first, last>> per *)
(* dimension, and the element of the array that each of them names.  Every    *)
(* operation gives a new box and says through which old index each new one    *)
(* names its element.  There are no strides, offsets or addresses here, and   *)
(* no module of helpers either: a proof about an instance of this module has  *)
(* each of its definitions to carry.                                          *)
(******************************************************************************)
EXTENDS Integers, Sequences, FiniteSets

CONSTANTS
    Roots,      \* the extensions of the arrays that views are made of
    Firsts,     \* the first indices that reindexed is called with
    Steps,      \* the steps that strided is called with
    RootWidth,  \* the size of an array's elements, in bytes
    Widths,     \* the sizes of the elements that they are cast to
    Members,    \* their members, as pairs <<place, size>>
    MaxDims     \* no view has more dimensions

VARIABLES
    exts,       \* the box of valid indices
    elem,       \* the element that each index names: the first of its bytes
    width,      \* how many bytes an element has
    call        \* the operation that made the view, with its arguments

vars == <<exts, elem, width, call>>

--------------------------------------------------------------------------------
\* The indices of one dimension, and those of all of them.
Interval(x) == x[1] .. x[2] - 1

Box(xs) ==
    {i \in [DOMAIN xs -> UNION {Interval(xs[k]) : k \in DOMAIN xs}] :
         \A k \in DOMAIN xs : i[k] \in Interval(xs[k])}

Count(x) == x[2] - x[1]

\* An extension without indices is reported as the one that starts at zero.
Bounds(a, b) == IF a = b THEN <<0, 0>> ELSE <<a, b>>

\* Index i precedes j in canonical order, the rightmost index fastest.
Precedes(i, j) ==
    \E k \in DOMAIN i : i[k] < j[k] /\ \A m \in 1 .. k - 1 : i[m] = j[m]

\* An array without elements reports the same of the dimensions that contain none.
Reported(xs) ==
    [k \in DOMAIN xs |-> IF \E m \in k .. Len(xs) : Count(xs[m]) = 0 THEN <<0, 0>> ELSE xs[k]]

\* An array: its elements are numbered in canonical order.
Init ==
    \E xs \in Roots :
        /\ exts = Reported(xs)
        /\ elem = [i \in Box(exts) |-> RootWidth * Cardinality({j \in Box(exts) : Precedes(j, i)})]
        /\ width = RootWidth
        /\ call = <<"array", xs>>

\* The new view has the box xs, and its index i names what Old(i) named.
Becomes(xs, Old(_), op) ==
    /\ call' = op
    /\ exts' = xs
    /\ elem' = [i \in Box(xs) |-> elem[Old(i)]]
    /\ UNCHANGED width

D == Len(exts)
first == exts[1][1]
last == exts[1][2]
size == Count(exts[1])

WithLeading(x) == <<x>> \o Tail(exts)

\* i with its leading index replaced
Lead(j, i) == <<j>> \o Tail(i)

Backwards(s) == [k \in 1 .. Len(s) |-> s[Len(s) - k + 1]]

--------------------------------------------------------------------------------
(* The same elements under other indices.                                     *)

Rotated ==
    Becomes(Append(Tail(exts), exts[1]), LAMBDA i : <<i[D]>> \o SubSeq(i, 1, D - 1), <<"rotated">>)

Unrotated ==
    Becomes(<<exts[D]>> \o SubSeq(exts, 1, D - 1), LAMBDA i : Append(Tail(i), i[1]), <<"unrotated">>)

Transposed ==
    /\ D > 1
    /\ Becomes(<<exts[2], exts[1]>> \o SubSeq(exts, 3, D),
               LAMBDA i : <<i[2], i[1]>> \o SubSeq(i, 3, D), <<"transposed">>)

Reversed == Becomes(Backwards(exts), Backwards, <<"reversed">>)

Reindexed(f) ==
    Becomes(WithLeading(Bounds(f, f + size)),
            LAMBDA i : Lead(i[1] - f + first, i), <<"reindexed", f>>)

Flatted ==
    /\ D > 1
    /\ LET inner == Count(exts[2])
           from  == exts[2][1]
       IN  Becomes(<<Bounds(from, from + size * inner)>> \o SubSeq(exts, 3, D),
                   LAMBDA i : <<first + (i[1] - from) \div inner, from + ((i[1] - from) % inner)>>
                                  \o Tail(i),
                   <<"flatted">>)

Split(n, op) ==
    Becomes(<<Bounds(0, IF size = 0 THEN 0 ELSE n), Bounds(first, first + size \div n)>> \o Tail(exts),
            LAMBDA i : <<i[1] * (size \div n) + i[2]>> \o SubSeq(i, 3, D + 1), op)

Partitioned(n) == n > 0 /\ size % n = 0 /\ Split(n, <<"partitioned", n>>)

Chunked(n) == n > 0 /\ size > 0 /\ size % n = 0 /\ Split(size \div n, <<"chunked", n>>)

--------------------------------------------------------------------------------
(* Some of the elements.                                                      *)

Element(j) ==
    /\ D > 1
    /\ Becomes(Tail(exts), LAMBDA i : <<j>> \o i, <<"element", j>>)

Taked(n) == Becomes(WithLeading(Bounds(first, first + n)), LAMBDA i : i, <<"taked", n>>)

Dropped(n) ==
    Becomes(WithLeading(Bounds(first, first + size - n)),
            LAMBDA i : Lead(i[1] + n, i), <<"dropped", n>>)

Sliced(a, b) ==
    Becomes(WithLeading(Bounds(first, first + b - a)),
            LAMBDA i : Lead(i[1] - first + a, i), <<"sliced", a, b>>)

Blocked(a, b) == Becomes(WithLeading(Bounds(a, b)), LAMBDA i : i, <<"blocked", a, b>>)

Strided(s) ==
    /\ size % s = 0 /\ first % s = 0
    /\ Becomes(WithLeading(Bounds(first \div s, last \div s)),
               LAMBDA i : Lead(i[1] * s, i), <<"strided", s>>)

\* sliced(a, b, -1): from a down to, and without, b
SlicedDown(a, b) ==
    /\ first = 0
    /\ Becomes(WithLeading(Bounds(0, a - b)), LAMBDA i : Lead(a - i[1], i), <<"sliced", a, b, -1>>)

Ranged(p, q) ==
    /\ D > 1
    /\ Becomes(<<Bounds(first, first + Count(p)), Bounds(exts[2][1], exts[2][1] + Count(q))>>
                   \o SubSeq(exts, 3, D),
               LAMBDA i : <<i[1] - first + p[1], i[2] - exts[2][1] + q[1]>> \o SubSeq(i, 3, D),
               <<"range", p, q>>)

Stenciled(p, q) ==
    /\ D > 1
    /\ Becomes(<<p, q>> \o SubSeq(exts, 3, D), LAMBDA i : i, <<"stenciled", p, q>>)

RangedElement(p, j) ==
    /\ D > 1
    /\ Becomes(<<Bounds(first, first + Count(p))>> \o SubSeq(exts, 3, D),
               LAMBDA i : <<i[1] - first + p[1], j>> \o Tail(i), <<"range_at", p, j>>)

Broadcasted(j) == Becomes(exts, LAMBDA i : i, <<"broadcasted", j>>)

FromIterators(a, b) ==
    Becomes(WithLeading(Bounds(0, b - a)), LAMBDA i : Lead(i[1] + first + a, i), <<"iterators", a, b>>)

Diagonal ==
    /\ D > 1
    /\ first = 0 /\ exts[2][1] = 0
    /\ LET side == IF last < exts[2][2] THEN last ELSE exts[2][2]
       IN  Becomes(<<Bounds(0, side)>> \o SubSeq(exts, 3, D),
                   LAMBDA i : <<i[1]>> \o i, <<"diagonal">>)

\* tiled(n): as many chunks of n as there are, and the elements left over
TiledQuotient(n) ==
    /\ n > 0 /\ size >= n
    /\ Becomes(<<<<0, size \div n>>, Bounds(first, first + n)>> \o Tail(exts),
               LAMBDA i : <<i[1] * n + i[2]>> \o SubSeq(i, 3, D + 1), <<"quotient", n>>)

TiledRemainder(n) ==
    /\ n > 0 /\ size >= n
    /\ Becomes(WithLeading(Bounds(first, first + (size % n))),
               LAMBDA i : Lead(i[1] + size - (size % n), i), <<"remainder", n>>)

--------------------------------------------------------------------------------
(* Elements of another type, in the same bytes.                               *)

StaticArrayCast ==
    /\ call' = <<"static_cast">>
    /\ UNCHANGED <<exts, elem, width>>

MemberCast(m) ==
    /\ m[1] + m[2] <= width
    /\ call' = <<"member_cast", m>>
    /\ elem' = [i \in Box(exts) |-> elem[i] + m[1]]
    /\ width' = m[2]
    /\ UNCHANGED exts

ReinterpretArrayCast(w) ==
    /\ call' = <<"reinterpret_cast", w>>
    /\ width' = w
    /\ UNCHANGED <<exts, elem>>

ReinterpretInParts(w) ==
    /\ width % w = 0
    /\ call' = <<"reinterpret_cast", w, width>>
    /\ exts' = Append(exts, <<0, width \div w>>)
    /\ elem' = [i \in Box(exts') |-> elem[SubSeq(i, 1, D)] + w * i[D + 1]]
    /\ width' = w

--------------------------------------------------------------------------------
Subranges(x) == {y \in (x[1] .. x[2]) \X (x[1] .. x[2]) : y[1] <= y[2]}

Next ==
    \/ Rotated \/ Unrotated \/ Transposed \/ Reversed \/ Flatted \/ Diagonal \/ StaticArrayCast
    \/ \E m \in Members : MemberCast(m)
    \/ \E w \in Widths : ReinterpretArrayCast(w) \/ ReinterpretInParts(w)
    \/ \E f \in Firsts : Reindexed(f)
    \/ \E s \in Steps : Strided(s)
    \/ \E n \in 0 .. size : Taked(n) \/ Dropped(n)
    \/ \E n \in 1 .. size : TiledQuotient(n) \/ TiledRemainder(n)
    \/ \E n \in 1 .. MaxDims * (size + 1) : Partitioned(n) \/ Chunked(n)
    \/ \E j \in first .. last - 1 : Element(j)
    \/ \E y \in Subranges(exts[1]) : Sliced(y[1], y[2]) \/ Blocked(y[1], y[2])
    \/ \E a, b \in first - 1 .. last - 1 : b < a /\ SlicedDown(a, b)
    \/ /\ D > 1
       /\ \E p \in Subranges(exts[1]) :
              \/ \E q \in Subranges(exts[2]) : Ranged(p, q) \/ Stenciled(p, q)
              \/ \E j \in exts[2][1] .. exts[2][2] - 1 : RangedElement(p, j)
    \/ Broadcasted(1)
    \/ \E y \in Subranges(<<0, size>>) : FromIterators(y[1], y[2])

Spec == Init /\ [][Next]_vars
================================================================================
