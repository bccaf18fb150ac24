----------------------------- MODULE SubarrayViews -----------------------------
(******************************************************************************)
(* The views of subarray and const_subarray (array_ref.hpp), for any number   *)
(* of dimensions: a program starts from an array and takes views of views.    *)
(* Each member function makes a new layout and a new base out of the old ones *)
(* by the arithmetic of the code.  What the view should be is IndexMaps.      *)
(*                                                                            *)
(* Some of the functions work for some views only and do not check it, or     *)
(* check less: the program calls them on the views they are meant for.        *)
(******************************************************************************)
EXTENDS Layout, FiniteSets

CONSTANTS
    Roots,      \* the extensions of the arrays that views are made of
    Firsts,     \* the first indices that reindexed is called with
    Steps,      \* the steps that strided is called with
    RootWidth,  \* the size of an array's elements, in bytes
    Widths,     \* the sizes of the elements that they are cast to
    Members,    \* their members, as pairs <<place, size>>
    MaxElements,    \* the largest size_type
    MaxDims,    \* no view has more dimensions
    MaxCalls    \* the length of the longest chain of views of views

ASSUME ViewsAssumption ==
    /\ \A xs \in Roots :
           xs \in Seq(Int \X Int) /\ xs # <<>> /\ \A k \in DOMAIN xs : Length(xs[k]) >= 0
    /\ Firsts \subseteq Int
    /\ Steps \subseteq Nat \ {0}
    /\ RootWidth \in Nat \ {0} /\ Widths \subseteq Nat \ {0}
    /\ Members \subseteq Nat \X (Nat \ {0})
    /\ MaxElements \in Nat /\ MaxDims \in Nat /\ MaxCalls \in Nat

VARIABLES
    view,       \* base and layout of the current view, in elements
    width,      \* the size of its elements, in bytes
    origin,     \* the byte that its base is counted from
    call,       \* the function that made the view, with its arguments
    calls       \* how many functions have been called since the array

vars == <<view, width, origin, call, calls>>

--------------------------------------------------------------------------------
Top == view.dims[1]
Sub == Tail(view.dims)
D == Len(view.dims)

ZeroBased(dims) == \A k \in DOMAIN dims : dims[k].offset = 0

WithTop(v, top) == [v EXCEPT !.dims[1] = top]

\* The indices a .. b - 1 of the leading dimension, as sliced_aux_ selects them;
\* the new layout keeps the offset, and so the view keeps its first index.
Slice(v, a, b) ==
    View([v.dims EXCEPT ![1].nelems = v.dims[1].stride * (b - a)],
         v.base + (a * v.dims[1].stride - v.dims[1].offset))

\* Wrong on purpose: nelems in rows, not in elements.
Take_CountsRows(v, n) == WithTop(v, [v.dims[1] EXCEPT !.nelems = n])

Take(v, n) == WithTop(v, [v.dims[1] EXCEPT !.nelems = v.dims[1].stride * n])

Drop(v, n) ==
    View([v.dims EXCEPT ![1].nelems = v.dims[1].stride * (Size(v.dims[1]) - n)],
         v.base + n * v.dims[1].stride - v.dims[1].offset)

Stride(v, s) == WithTop(v, [v.dims[1] EXCEPT !.stride = v.dims[1].stride * s])

Partition(v, n) ==
    [v EXCEPT !.dims =
        <<DimensionOf(Quotient(v.dims[1].nelems, n), 0, v.dims[1].nelems),
          [v.dims[1] EXCEPT !.nelems = Quotient(v.dims[1].nelems, n)]>> \o Tail(v.dims)]

Rotation(v) == [v EXCEPT !.dims = Rotate(v.dims)]
Unrotation(v) == [v EXCEPT !.dims = Unrotate(v.dims)]

\* A row of broadcasted(), whose leading dimension has stride zero.
Broadcast(v, j) ==
    Subscript([v EXCEPT !.dims = <<DimensionOf(0, 0, MaxElements)>> \o @], j)

\* v(p, q): each range slices the leading dimension, which then goes last.
Parenthesis(v, p, q) ==
    Unrotation(Unrotation(Rotation(Slice(Rotation(Slice(v, p[1], p[2])), q[1], q[2]))))

--------------------------------------------------------------------------------
Init ==
    \E xs \in Roots :
        /\ view = View(LayoutOf(xs), 0)
        /\ width = RootWidth
        /\ origin = 0
        /\ call = <<"array", xs>>
        /\ calls = 0

Becomes(v, op) ==
    /\ calls < MaxCalls
    /\ view' = v
    /\ call' = op
    /\ calls' = calls + 1
    /\ UNCHANGED <<width, origin>>

Rotated == Becomes(Rotation(view), <<"rotated">>)

Unrotated == Becomes(Unrotation(view), <<"unrotated">>)

Transposed == D > 1 /\ Becomes([view EXCEPT !.dims = Transpose(view.dims, 1)], <<"transposed">>)

Reversed == Becomes([view EXCEPT !.dims = ReverseDimensions(view.dims)], <<"reversed">>)

Reindexed(f) == Becomes([view EXCEPT !.dims = Reindex(view.dims, f)], <<"reindexed", f>>)

IsFlattable(dims) == Size(dims[1]) <= 1 \/ dims[1].stride = dims[2].nelems

Flatted ==
    /\ D > 1
    /\ IsFlattable(view.dims)
    /\ Becomes([view EXCEPT !.dims = [Sub EXCEPT ![1].nelems = view.dims[2].nelems * Size(Top)]],
               <<"flatted">>)

Partitioned(n) ==
    /\ D < MaxDims
    /\ n # 0 /\ Remainder(Top.nelems, n) = 0
    /\ Remainder(Size(Top), n) = 0
    /\ Becomes(Partition(view, n), <<"partitioned", n>>)

Chunked(n) ==
    /\ D < MaxDims
    /\ n # 0 /\ Remainder(Size(Top), n) = 0
    /\ Size(Top) # 0
    /\ Becomes(Partition(view, Quotient(Size(Top), n)), <<"chunked", n>>)

Element(j) == D > 1 /\ Becomes(Subscript(view, j), <<"element", j>>)

Taked(n) == n <= Size(Top) /\ Becomes(Take(view, n), <<"taked", n>>)

Dropped(n) ==
    /\ n <= Size(Top)
    /\ Top.offset = 0
    /\ Becomes(Drop(view, n), <<"dropped", n>>)

Sliced(a, b) == Becomes(Slice(view, a, b), <<"sliced", a, b>>)

Block(v, a, b) == LET part == Slice(v, a, b) IN [part EXCEPT !.dims = Reindex(part.dims, a)]

Blocked(a, b) == Becomes(Block(view, a, b), <<"blocked", a, b>>)

Strided(s) ==
    /\ Remainder(Top.nelems, s * Top.stride) = 0 /\ Remainder(Top.offset, s * Top.stride) = 0
    /\ Becomes(Stride(view, s), <<"strided", s>>)

SlicedDown(a, b) ==
    /\ D = 1
    /\ Top.offset = 0
    /\ Becomes(Stride(Slice(view, a, b), -1), <<"sliced", a, b, -1>>)

Ranged(p, q) == D > 1 /\ Becomes(Parenthesis(view, p, q), <<"range", p, q>>)

\* stenciled({a, b}, {c, d}): a block, whose indices are those of v.
Stenciled(p, q) ==
    /\ D > 1
    /\ Becomes(Unrotation(Block(Rotation(Block(view, p[1], p[2])), q[1], q[2])), <<"stenciled", p, q>>)

\* v(p, j): the range, and then the index into the dimension that leads.
RangedElement(p, j) ==
    /\ D > 1
    /\ Becomes(Unrotation(Subscript(Rotation(Slice(view, p[1], p[2])), j)), <<"range_at", p, j>>)

Broadcasted(j) == Becomes(Broadcast(view, j), <<"broadcasted", j>>)

\* The view of the rows between two iterators.  nelems is the number of rows by
\* their size: right where the rows are adjacent vectors.
FromIterators(a, b) ==
    /\ D > 1
    /\ Top.stride = Size(view.dims[2])
    /\ Becomes(View(<<DimensionOf(Top.stride, 0, (b - a) * Size(view.dims[2]))>> \o Sub,
                    view.base + a * Top.stride),
               <<"iterators", a, b>>)

\* The strides of the two dimensions add up; the base stays where it is.  If
\* they are opposite the diagonal has no elements: the program takes no such one.
Diagonal ==
    /\ D > 1
    /\ Top.offset = 0 /\ view.dims[2].offset = 0
    /\ Top.stride + view.dims[2].stride # 0
    /\ LET side   == IF Size(Top) < Size(view.dims[2]) THEN Size(Top) ELSE Size(view.dims[2])
           square == Parenthesis(view, <<0, side>>, <<0, side>>).dims
           both   == DimensionOf(square[2].stride + square[1].stride, square[2].offset,
                                 square[2].nelems + square[1].nelems)
       IN  Becomes([view EXCEPT !.dims = [Tail(square) EXCEPT ![1] = both]], <<"diagonal">>)

\* tiled(n) with no full chunk would partition into zero parts, which asserts.
Chunks(n) == Size(Top) - Remainder(Size(Top), n)

TiledQuotient(n) ==
    /\ D < MaxDims
    /\ n # 0 /\ Chunks(n) # 0
    /\ Becomes(Partition(Take(view, Chunks(n)), Quotient(Chunks(n), n)), <<"quotient", n>>)

TiledRemainder(n) ==
    /\ n # 0 /\ Chunks(n) # 0
    /\ Top.offset = 0
    /\ Becomes(Drop(view, Chunks(n)), <<"remainder", n>>)

--------------------------------------------------------------------------------
(* Casts: views of the same memory with elements of another type.            *)

\* The view with these dimensions whose elements of size w start at this place
\* of the old ones; its base is a pointer of another type.
CastTo(dims, w, place, op) ==
    /\ calls < MaxCalls
    /\ view' = View(dims, 0)
    /\ width' = w
    /\ origin' = origin + width * view.base + place
    /\ call' = op
    /\ calls' = calls + 1

\* static_array_cast, const_array_cast and element_transformed, whose pointers
\* are read through another type or a function, keep the layout.
StaticArrayCast == CastTo(view.dims, width, 0, <<"static_cast">>)

\* The member must divide the element; the library asserts it.
MemberCast(m) ==
    /\ m[1] + m[2] <= width /\ Remainder(width, m[2]) = 0
    /\ CastTo(ScaleLayout(view.dims, width, m[2]), m[2], m[1], <<"member_cast", m>>)

\* Nothing is asserted here: the program casts where the new elements start at
\* the old ones.
ReinterpretArrayCast(w) ==
    /\ \A k \in 1 .. D : \A x \in {view.dims[k].stride, view.dims[k].offset, view.dims[k].nelems} :
           Remainder(x * width, w) = 0
    /\ CastTo(ScaleLayout(view.dims, width, w), w, 0, <<"reinterpret_cast", w>>)

\* One more dimension, the last one, for the parts of an element.
ReinterpretInParts(w) ==
    /\ D < MaxDims
    /\ Remainder(width, w) = 0
    /\ LET parts == DimensionOf(1, 0, Quotient(width, w))
       IN  CastTo(Rotate(<<parts>> \o ScaleLayout(view.dims, width, w)), w, 0, <<"reinterpret_cast", w, width>>)

--------------------------------------------------------------------------------
Valid == Extension(Top)

Subranges(x) == {y \in (x[1] .. x[2]) \X (x[1] .. x[2]) : y[1] <= y[2]}

\* subarray gives each function once more, for views that may be written through;
\* they make the same views.
Permuted == Rotated \/ Unrotated \/ Transposed

Shortened ==
    \/ \E s \in Steps : Strided(s)
    \/ \E n \in 0 .. Size(Top) : Taked(n) \/ Dropped(n)

Renamed == \E f \in Firsts : Reindexed(f)

Selected ==
    \/ \E j \in Valid[1] .. Valid[2] - 1 : Element(j)
    \/ \E y \in Subranges(Valid) : Sliced(y[1], y[2]) \/ Blocked(y[1], y[2])
    \/ \E a, b \in Valid[1] - 1 .. Valid[2] - 1 : b < a /\ SlicedDown(a, b)

\* Ranges in two dimensions are not empty here; an empty one is sliced.
Blocks(x) == {y \in Subranges(x) : y[1] < y[2]}

Called ==
    /\ D > 1
    /\ \E p \in Blocks(Valid) :
           \/ \E q \in Blocks(Extension(view.dims[2])) : Ranged(p, q) \/ Stenciled(p, q)
           \/ \E j \in Extension(view.dims[2])[1] .. Extension(view.dims[2])[2] - 1 : RangedElement(p, j)

Parted ==
    \/ Flatted
    \/ \E n \in 1 .. Size(Top) : Partitioned(n) \/ Chunked(n) \/ TiledQuotient(n) \/ TiledRemainder(n)

Reread ==
    \/ StaticArrayCast
    \/ \E m \in Members : MemberCast(m)
    \/ \E w \in Widths : ReinterpretArrayCast(w) \/ ReinterpretInParts(w)

Next ==
    \/ Permuted \/ Reversed \/ Shortened \/ Renamed \/ Selected \/ Called \/ Parted \/ Diagonal \/ Reread
    \/ Broadcasted(1)
    \/ \E y \in Subranges(<<0, Size(Top)>>) : FromIterators(y[1], y[2])

Spec == Init /\ [][Next]_vars

--------------------------------------------------------------------------------
(* Properties.                                                                *)

Valids == Indices(Extensions(view.dims))

\* extension() can be asked of every dimension, whatever was done before: its
\* assertions on the divisibility of offset and nelems hold.
ExtensionsExist == \A k \in DOMAIN view.dims : ExtensionExists(view.dims[k])

\* begin(), which ignores the offset, and operator[], which subtracts it, agree;
\* and end() is where size() steps from begin() lead.
IteratorsAgreeWithIndices ==
    /\ \A i \in Valids :
           AddressByIterators(view, [k \in DOMAIN i |-> i[k] - Extension(view.dims[k])[1]]) = Address(view, i)
    /\ Top.nelems = Size(Top) * Top.stride

\* Index i comes before j in canonical order.
Precedes(i, j) == \E k \in DOMAIN i : i[k] < j[k] /\ \A m \in 1 .. k - 1 : i[m] = j[m]

\* The range elements() of a view whose indices start at zero has as many
\* elements as there are indices, and lists them in canonical order, and so does
\* elements_at().
ElementsInOrder ==
    ZeroBased(view.dims) =>
        /\ NumElements(view.dims) = Cardinality(Valids)
        /\ \A i \in Valids :
               LET n == Cardinality({j \in Valids : Precedes(j, i)})
               IN  ElementAt(view, n) = Address(view, i) /\ ElementsAt(view, n) = Address(view, i)

\* The elements of a layout that is_compact() finds compact are next to each
\* other in memory, whatever their order, unless a stride is negative.
CompactIsContiguous ==
    IsCompact(view.dims) /\ (\A k \in 1 .. D : view.dims[k].stride > 0) =>
        {Address(view, i) : i \in Valids} = view.base .. view.base + Cardinality(Valids) - 1

\* Both together: the order of the elements, which elements(), elements_at() and
\* the copies of whole blocks rely on.
ElementsAreCanonical == ElementsInOrder /\ CompactIsContiguous

\* Layouts and addresses implement index maps: every function selects and
\* renames exactly the elements that it promises.
Maps == INSTANCE IndexMaps WITH
            exts <- Extensions(view.dims),
            elem <- [i \in Valids |-> origin + width * Address(view, i)]

ImplementsIndexMaps == Maps!Spec

================================================================================
