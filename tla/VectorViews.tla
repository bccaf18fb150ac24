------------------------------ MODULE VectorViews ------------------------------
(******************************************************************************)
(* The views of one dimension, const_subarray<T, 1> (array_ref.hpp), a        *)
(* specialisation with code of its own: a program starts from a vector and    *)
(* takes views of views, which slice it, cut it in parts, or see its elements *)
(* as elements of another type.  What a view should be is VectorMaps.         *)
(*                                                                            *)
(* A view is a base, counted in units of memory, the units of its element,    *)
(* and a layout, counted in elements.  A function that makes a view of two    *)
(* dimensions is modelled with the operator[] that takes a row of it.         *)
(******************************************************************************)
EXTENDS Layout, IndexRanges, FiniteSets

CONSTANTS
    Counts,     \* the sizes of the arrays that views are made of
    Width,      \* the units of memory of an element of an array
    Firsts,     \* the first indices that reindexed is called with
    Steps,      \* the steps that strided is called with
    Bounds,     \* the bounds that ranges are made of
    MaxCalls    \* the length of the longest chain of views of views

ASSUME VectorsAssumption ==
    /\ Counts \subseteq Nat /\ Firsts \subseteq Int /\ Bounds \subseteq Int
    /\ Width \in Nat \ {0}
    /\ Steps \subseteq Nat \ {0}
    /\ MaxCalls \in Nat

VARIABLES
    view,       \* base, width and layout of the current view
    call,       \* the function that made the view, with its arguments
    calls       \* how many functions have been called since the array

vars == <<view, call, calls>>

--------------------------------------------------------------------------------
(* Where things are.                                                          *)

\* p + k, for a pointer p to elements of the width of v
Plus(v, k) == v.base + v.width * k

\* Wrong on purpose: the first index is taken to be zero.
At1_NoOffset(v, i) == Plus(v, i * v.stride)

\* operator[]: at_aux_
At1(v, i) == Plus(v, i * v.stride - v.offset)

\* Row k of a view of two dimensions: the leading one moves the base.
Row(v, stride, inner, k) == [inner EXCEPT !.base = Plus(v, k * stride)]

IsEmpty(v) == v.nelems = 0

\* An iterator is a pointer and a stride.
Begin(v) == [ptr |-> v.base, stride |-> v.stride]

\* Wrong on purpose: a pointer to the last element.
End_Last(v) == [ptr |-> Plus(v, v.nelems - v.stride), stride |-> v.stride]

End(v) == [ptr |-> Plus(v, v.nelems), stride |-> v.stride]

Step(v, it, k) == [it EXCEPT !.ptr = @ + v.width * k * it.stride]

FrontElement(v) == Begin(v).ptr

BackElement(v) == Step(v, End(v), -1).ptr

\* The place and the number of elements that hull() returns.
HullSize(v) ==
    IF IsEmpty(v) THEN 0
    ELSE IF Magnitude(Size(v) * v.stride) > 1 THEN Size(v) * v.stride ELSE 1

Hull(v) == [from |-> Smaller(v.base, Plus(v, HullSize(v))), count |-> Magnitude(HullSize(v))]

--------------------------------------------------------------------------------
(* The functions that make views.                                             *)

\* Wrong on purpose: nelems counts rows, not elements.
TakeFront_Rows(v, k) == [v EXCEPT !.nelems = k]

TakeFront(v, k) == [v EXCEPT !.nelems = v.stride * k]

DropFront(v, k) ==
    [v EXCEPT !.base = Plus(v, k * v.stride - v.offset),
              !.nelems = v.stride * (Size(v) - k)]

SliceOf(v, a, b) ==
    [v EXCEPT !.base = Plus(v, a * v.stride - v.offset),
              !.nelems = IF IsEmpty(v) THEN 0 ELSE Quotient(@, Size(v)) * (b - a)]

ReindexedFrom(v, f) == [v EXCEPT !.offset = f * v.stride]

StrideBy(v, s) == [v EXCEPT !.stride = @ * s]

PartOf(v, p, k) ==
    Row(v, Quotient(v.nelems, p), [v EXCEPT !.nelems = Quotient(@, p)], k)

ChunkOf(v, c, k) == PartOf(v, Quotient(Size(v), c), k)

\* How many elements of v tiled(c) puts into whole tiles.
Tiled(v, c) == Size(v) - Remainder(Size(v), c)

\* layout_t::scale, from elements of one width to elements of another
Scale(v, from, to) ==
    [v EXCEPT !.width = to,
              !.stride = Quotient(@ * from, to),
              !.offset = Quotient(@ * from, to),
              !.nelems = Quotient(@ * from, to)]

\* Wrong on purpose: the stride counts the old elements.
MemberOf_OldStride(v, m) == [v EXCEPT !.base = @ + m, !.width = 1]

\* member_cast: the members of one unit at distance m from where each element starts
MemberOf(v, m) == [Scale(v, v.width, 1) EXCEPT !.base = @ + m]

\* reinterpret_array_cast<T2>(n)[i]: each element as an array of its units
UnitsOf(v, i) ==
    LET parts == Scale(v, v.width, 1)
    IN  Row([parts EXCEPT !.base = Plus(parts, -parts.offset)], parts.stride,
            [parts EXCEPT !.stride = 1, !.offset = 0, !.nelems = v.width], i)

\* reinterpret_array_cast<T>
WholesOf(v) == Scale(v, v.width, Width)

--------------------------------------------------------------------------------
Init ==
    \E count \in Counts :
        /\ view = [base |-> 0, width |-> Width, stride |-> 1, offset |-> 0, nelems |-> count]
        /\ call = <<"array", count>>
        /\ calls = 0

Becomes(v, op) ==
    /\ calls < MaxCalls
    /\ view' = v
    /\ call' = op
    /\ calls' = calls + 1

\* reversed, rotated, unrotated and operator() leave a vector as it is: they
\* permute dimensions, and it has one.  So do the rows of broadcasted.
Same == Becomes(Row(view, 0, view, 1), <<"same">>)

\* static_array_cast and element_transformed change the pointer's type only.
Transformed == Becomes(view, <<"transformed">>)

Reindexed(f) == Becomes(ReindexedFrom(view, f), <<"reindexed", f>>)

Taked(k) == k <= Size(view) /\ Becomes(TakeFront(view, k), <<"taked", k>>)

\* Right for views whose indices start at zero: the base is moved by the offset,
\* which the layout keeps.
Dropped(k) ==
    /\ k <= Size(view)
    /\ view.offset = 0
    /\ Becomes(DropFront(view, k), <<"dropped", k>>)

Sliced(a, b) == Becomes(SliceOf(view, a, b), <<"sliced", a, b>>)

Blocked(a, b) == Becomes(ReindexedFrom(SliceOf(view, a, b), a), <<"blocked", a, b>>)

\* v(a <= _ < b)
Intersected(a, b) ==
    LET r == Intersection(Extension(view), Upto(From(a, All), b))
    IN  Becomes(SliceOf(view, r[1], r[2]), <<"intersected", a, b>>)

\* Right where the step divides the size and the first index.
Divides(v, s) == Remainder(v.nelems, v.stride * s) = 0 /\ Remainder(v.offset, v.stride * s) = 0

Strided(s) == Divides(view, s) /\ Becomes(StrideBy(view, s), <<"strided", s>>)

SlicedBy(a, b, s) ==
    /\ Divides(SliceOf(view, a, b), s)
    /\ Becomes(StrideBy(SliceOf(view, a, b), s), <<"sliced", a, b, s>>)

Part(p, k) ==
    /\ Remainder(view.nelems, p) = 0 /\ Remainder(Size(view), p) = 0
    /\ k \in 0 .. p - 1
    /\ Becomes(PartOf(view, p, k), <<"part", p, k>>)

Chunk(c, k) ==
    /\ Remainder(Size(view), c) = 0
    /\ k \in 0 .. Quotient(Size(view), c) - 1
    /\ Becomes(ChunkOf(view, c, k), <<"chunk", c, k>>)

Tile(c, k) ==
    /\ k \in 0 .. Quotient(Tiled(view, c), c) - 1
    /\ Becomes(ChunkOf(TakeFront(view, Tiled(view, c)), c, k), <<"tile", c, k>>)

TileRemainder(c) ==
    /\ view.offset = 0
    /\ Becomes(DropFront(view, Tiled(view, c)), <<"remainder", c>>)

Member(m) == m < view.width /\ Becomes(MemberOf(view, m), <<"member", m>>)

Units(i) == Becomes(UnitsOf(view, i), <<"units", i>>)

\* Elements of their first type again, where the units are those of one element.
Wholes ==
    /\ Remainder(view.stride * view.width, Width) = 0
    /\ Remainder(view.base, Width) = 0
    /\ Becomes(WholesOf(view), <<"wholes">>)

Valid == Extension(view)

Next ==
    \/ Same \/ Transformed \/ Wholes
    \/ \E f \in Firsts : Reindexed(f)
    \/ \E k \in 0 .. Size(view) : Taked(k) \/ Dropped(k)
    \/ \E a, b \in Valid[1] .. Valid[2] : a <= b /\ (Sliced(a, b) \/ Blocked(a, b))
    \/ \E a, b \in Valid[1] .. Valid[2], s \in Steps : a <= b /\ SlicedBy(a, b, s)
    \/ \E a, b \in Bounds : Intersected(a, b)
    \/ \E s \in Steps : Strided(s)
    \/ \E p \in 1 .. Size(view) :
           TileRemainder(p) \/ \E k \in 0 .. Size(view) - 1 : Part(p, k) \/ Chunk(p, k) \/ Tile(p, k)
    \/ \E m \in 0 .. Width - 1 : Member(m)
    \/ \E i \in Valid[1] .. Valid[2] - 1 : Units(i)

Spec == Init /\ [][Next]_vars

--------------------------------------------------------------------------------
(* Properties.                                                                *)

Places == [k \in 1 .. Size(view) |-> At1(view, Valid[1] + k - 1)]

\* Bases and layouts implement sequences of elements: every chain of slices,
\* parts and casts selects the elements and gives the indices that it promises.
Maps == INSTANCE VectorMaps WITH
            first <- Valid[1], places <- Places, width <- view.width

ImplementsVectorMaps == Maps!Spec

\* The four ways through a vector meet: begin(), which ignores the offset, and
\* operator[], which subtracts it; end() and size() steps; front() and back();
\* the range elements() of a vector that starts at zero; and hull() has them all.
TraversalsAgree ==
    /\ \A k \in 1 .. Size(view) : Step(view, Begin(view), k - 1).ptr = Places[k]
    /\ Step(view, Begin(view), Size(view)) = End(view)
    /\ ~IsEmpty(view) => FrontElement(view) = Places[1] /\ BackElement(view) = Places[Size(view)]
    /\ view.offset = 0 =>
           \A k \in 1 .. Size(view) :
               view.base + view.width * At(<<view>>, FromLinear(<<Valid>>, k - 1)) = Places[k]
    /\ \A k \in 1 .. Size(view) :
           /\ Places[k] >= Hull(view).from
           /\ Places[k] < Hull(view).from + view.width * Hull(view).count

================================================================================
