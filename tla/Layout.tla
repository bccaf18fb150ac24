-------------------------------- MODULE Layout ---------------------------------
(******************************************************************************)
(* The arithmetic of layout_t (detail/layout.hpp).  A layout is a sequence of *)
(* dimensions, the leading one first; a dimension has a stride, an offset and *)
(* a number nelems, all counted in elements.  The valid indices of a          *)
(* dimension are the multiples of its stride between offset and offset +      *)
(* nelems, divided by the stride.  A view is a layout and the address of the  *)
(* first of its elements; addresses are counted from the first element of the *)
(* array that owns the memory.                                                *)
(******************************************************************************)
EXTENDS Integers, Sequences, SequencesExt

Magnitude(a) == IF a < 0 THEN -a ELSE a

\* The integer division and remainder of C++, which round towards zero.
Quotient(a, b) ==
    LET q == Magnitude(a) \div Magnitude(b)
    IN  IF (a < 0) = (b < 0) THEN q ELSE -q

Remainder(a, b) == a - b * Quotient(a, b)

--------------------------------------------------------------------------------
(* Extensions: a sequence of pairs <<first, last>>, last not included.        *)

Length(x) == x[2] - x[1]

\* Extensions made of sizes start at zero.
FromSizes(ns) == [k \in DOMAIN ns |-> <<0, ns[k]>>]

\* The extensions of no dimensions: one element, at position zero.
PointExtensions == [num_elements |-> 1, linear |-> 0]

NumElementsIn(xs) == FoldLeft(LAMBDA n, x : n * Length(x), PointExtensions.num_elements, xs)

\* The indices S of some dimensions, in all ways with one of the next, x.
WithNext(S, x) == {Append(i, j) : i \in S, j \in x[1] .. x[2] - 1}

Indices(xs) == FoldLeft(WithNext, {<<>>}, xs)

\* Wrong on purpose: the inner dimensions get the whole of n.
FromLinear_NoRemainder(xs, n) ==
    [k \in 1 .. Len(xs) |-> Quotient(n, NumElementsIn(SubSeq(xs, k + 1, Len(xs))))]

\* The indices of position n in canonical order, the rightmost fastest, counted
\* from zero in every dimension, whatever the first index of the extension is.
FromLinear(xs, n) ==
    [k \in 1 .. Len(xs) |->
        LET inner(j) == NumElementsIn(SubSeq(xs, j + 1, Len(xs)))
            within   == IF k = 1 THEN n ELSE Remainder(n, inner(k - 1))
        IN  Quotient(within, inner(k))]

ToLinear(xs, i) ==
    FoldLeftDomain(LAMBDA n, k : n + i[k] * NumElementsIn(SubSeq(xs, k + 1, Len(xs))),
                   PointExtensions.linear, xs)

--------------------------------------------------------------------------------
(* Layouts.                                                                   *)

Dimensions == [stride : Int, offset : Int, nelems : Int]

DimensionOf(stride, offset, nelems) == [stride |-> stride, offset |-> offset, nelems |-> nelems]

\* The layout of no dimensions, in which every other ends: one element.
PointLayout == [offset |-> 0, nelems |-> 1]

Size(d) == IF d.nelems = 0 THEN 0 ELSE Quotient(d.nelems, d.stride)

NumElements(dims) == FoldLeft(LAMBDA n, d : n * Size(d), PointLayout.nelems, dims)

Extension(d) ==
    IF d.nelems = 0
    THEN <<0, 0>>
    ELSE <<Quotient(d.offset, d.stride), Quotient(d.offset + d.nelems, d.stride)>>

Extensions(dims) == [k \in DOMAIN dims |-> Extension(dims[k])]

Sizes(dims) == [k \in DOMAIN dims |-> Size(dims[k])]

StridesOf(dims) == [k \in DOMAIN dims |-> dims[k].stride]

\* base_size(): the greatest nelems.  A layout that has as many elements is
\* compact: they are next to each other.
BaseSize(dims) == FoldLeft(LAMBDA n, d : IF d.nelems > n THEN d.nelems ELSE n, 0, dims)

IsCompact(dims) == BaseSize(dims) = NumElements(dims)

\* What extension() asserts.
ExtensionExists(d) ==
    d.nelems # 0 =>
        /\ d.stride # 0
        /\ Remainder(d.offset, d.stride) = 0
        /\ Remainder(d.nelems, d.stride) = 0

\* The layout of a contiguous array: the rightmost index moves fastest.
LayoutOf(xs) ==
    [k \in DOMAIN xs |->
        LET sub    == NumElementsIn(SubSeq(xs, k + 1, Len(xs)))
            stride == IF sub # 0 THEN sub ELSE 1
        IN  DimensionOf(stride, xs[k][1] * stride, Length(xs[k]) * sub)]

\* array_ref: the contiguous array of this shape at p.
Reference(p, xs) == [base |-> p, dims |-> LayoutOf(xs)]

\* layout_t::operator()(i, j, ...): the offsets are added.
At(dims, i) == FoldLeftDomain(LAMBDA n, k : n + dims[k].offset + i[k] * dims[k].stride, PointLayout.offset, dims)

Transpose(dims, k) == [dims EXCEPT ![k] = dims[k + 1], ![k + 1] = dims[k]]

Transposes(dims, ks) == FoldLeft(Transpose, dims, ks)

\* rotate() transposes and then rotates the sub-layout; unrotate() does the
\* opposite in the opposite order.
RotateFrom(dims, k) == Transposes(dims, [j \in 1 .. Len(dims) - k |-> k + j - 1])

UnrotateFrom(dims, k) == Transposes(dims, [j \in 1 .. Len(dims) - k |-> Len(dims) - j])

\* Wrong on purpose: to the other side.
Rotate_Backwards(dims) == UnrotateFrom(dims, 1)

Rotate(dims) == RotateFrom(dims, 1)

Unrotate(dims) == UnrotateFrom(dims, 1)

\* reverse() unrotates and then reverses the sub-layout: the dimensions, not
\* the elements, change their order.
ReverseDimensions(dims) == FoldLeftDomain(UnrotateFrom, dims, dims)

\* The same layout counted in elements of another size; the divisions round.
ScaleLayout(dims, num, den) ==
    [k \in DOMAIN dims |->
        DimensionOf(Quotient(dims[k].stride * num, den),
                    Quotient(dims[k].offset * num, den),
                    Quotient(dims[k].nelems * num, den))]

Reindex(dims, first) == [dims EXCEPT ![1].offset = first * dims[1].stride]

--------------------------------------------------------------------------------
(* Views.                                                                     *)

\* array_types: a layout, and the address its elements are counted from.
View(dims, base) == [base |-> base, dims |-> dims]

\* Wrong on purpose: the first index is taken to be zero.
Subscript_NoOffset(v, i) ==
    [base |-> v.base + i * v.dims[1].stride, dims |-> Tail(v.dims)]

\* operator[]: the view of the sub-layout at index i.
Subscript(v, i) ==
    View(Tail(v.dims), v.base + (i * v.dims[1].stride - v.dims[1].offset))

\* v[i][j]...: a view of fewer dimensions, or of none, an element.
Within(v, i) == FoldLeft(Subscript, v, i)

\* The element that v[i][j]... refers to.
Address(v, i) == Within(v, i).base

\* The element that the k-th step from v.begin() refers to, in all dimensions.
AddressByIterators(v, i) == v.base + FoldLeftDomain(LAMBDA n, k : n + i[k] * v.dims[k].stride, 0, v.dims)

\* v.elements_at(n): the row that has it, and in the row the element left over.
ElementsAt(v, n) ==
    LET Into(s, k) ==
            LET inner == NumElements(Tail(s.row.dims))
            IN  [row |-> Subscript(s.row, Quotient(s.left, inner)), left |-> Remainder(s.left, inner)]
    IN  FoldLeftDomain(Into, [row |-> v, left |-> n], v.dims).row.base

\* v.elements()[n]
ElementAt(v, n) == v.base + At(v.dims, FromLinear(Extensions(v.dims), n))

================================================================================
