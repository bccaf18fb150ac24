---------------------------- MODULE ElementsIterator ---------------------------
(******************************************************************************)
(* elements_iterator_t (array_ref.hpp): the iterator of the range elements(), *)
(* which lists the elements of a view in canonical order.  An iterator keeps  *)
(* its place twice: as a number n, which comparisons and differences use, and *)
(* as a tuple ns of indices, which dereferencing uses.  A program moves some  *)
(* iterators over some ranges and assigns them to each other.                 *)
(*                                                                            *)
(* Three operations move only one of the two: operator= and operator-= leave  *)
(* the indices behind, and operator++ from the last element sends them back   *)
(* to the first.  Two history variables, which no step depends on for what it *)
(* does to an iterator, record that: how far the indices are from the number, *)
(* and which iterators have members that do not belong together at all.       *)
(******************************************************************************)
EXTENDS Layout, FiniteSets

CONSTANTS
    Iterators,  \* the iterators of the program
    Ranges      \* the views whose elements they iterate over

ASSUME IteratorsAssumption ==
    \A r \in Ranges :
        /\ r.base \in Int /\ r.dims \in Seq(Dimensions) \ {<<>>}
        /\ \A k \in DOMAIN r.dims : ExtensionExists(r.dims[k]) /\ Size(r.dims[k]) >= 0

\* The views are those of arrays, in which no two elements share a place.
ASSUME ElementsApart ==
    \A r \in Ranges : \A i, j \in Indices(Extensions(r.dims)) : Address(r, i) = Address(r, j) => i = j

VARIABLES
    it,     \* the members base_, l_, n_, xs_ and ns_ of each iterator
    over,   \* the view that each iterator was made or assigned for
    skew,   \* history: how far its indices are ahead of its number
    astray  \* history: the iterators whose indices are those of no position

vars == <<it, over, skew, astray>>

--------------------------------------------------------------------------------
Count(r) == NumElements(r.dims)

Empty(r) == r.dims[1].nelems = 0

ZeroBased(r) == \A k \in DOMAIN r.dims : r.dims[k].offset = 0

\* elements() of a view
RangeOf(r) == [base |-> r.base, l |-> r.dims]

\* elements_iterator_t(base, layout, n)
Made(range, n) ==
    LET xs == Extensions(range.l)
    IN  [base |-> range.base, l |-> range.l, n |-> n, xs |-> xs,
         ns |-> IF range.l[1].nelems = 0 THEN [k \in DOMAIN xs |-> 0] ELSE FromLinear(xs, n)]

\* A conversion to an iterator over constant elements makes the indices anew.
Converted(i) == Made([base |-> i.base, l |-> i.l], i.n)

\* from_linear asserts that every inner dimension has elements.
CanBeMade(r) == Empty(r) \/ NumElements(Tail(r.dims)) # 0

\* Wrong on purpose: the indices to the right do not start over.
NextCanonical_NoReset(xs, ns) ==
    [k \in DOMAIN ns |->
        IF \A m \in k + 1 .. Len(xs) : ns[m] + 1 = xs[m][2] THEN ns[k] + 1 ELSE ns[k]]

\* The last index starts over from the back of its extension.
NextIndex(x, i) == IF i = x[2] - 1 THEN x[1] ELSE i + 1

PrevIndex(x, i) == IF i = x[1] THEN x[2] - 1 ELSE i - 1

\* Another index moves when all indices to its right start over.
NextCanonical(xs, ns) ==
    [k \in DOMAIN ns |->
        LET carried == \A m \in k + 1 .. Len(xs) : NextIndex(xs[m], ns[m]) = xs[m][1]
            next    == IF carried THEN ns[k] + 1 ELSE ns[k]
        IN  IF k = Len(xs) THEN NextIndex(xs[k], ns[k])
            ELSE IF next = xs[k][2] THEN xs[k][1] ELSE next]

PrevCanonical(xs, ns) ==
    [k \in DOMAIN ns |->
        LET borrowed == \A m \in k + 1 .. Len(xs) : PrevIndex(xs[m], ns[m]) = xs[m][2] - 1
            prev     == IF borrowed THEN ns[k] - 1 ELSE ns[k]
        IN  IF k = Len(xs) THEN PrevIndex(xs[k], ns[k])
            ELSE IF prev < xs[k][1] THEN xs[k][2] - 1 ELSE prev]

\* The position in the view that the indices of an iterator stand for.
Position(x) == it[x].n + skew[x]

--------------------------------------------------------------------------------
Init ==
    /\ over \in [Iterators -> {r \in Ranges : CanBeMade(r) /\ ZeroBased(r)}]
    /\ it = [x \in Iterators |-> Made(RangeOf(over[x]), 0)]
    /\ skew = [x \in Iterators |-> 0]
    /\ astray = {}

\* x becomes the iterator i over r, whose indices are s ahead of its number.
Becomes(x, i, r, s) ==
    /\ it' = [it EXCEPT ![x] = i]
    /\ over' = [over EXCEPT ![x] = r]
    /\ skew' = [skew EXCEPT ![x] = s]
    /\ astray' = astray \ {x}

\* The same, when there is no such s.
Strays(x, i, r) ==
    /\ it' = [it EXCEPT ![x] = i]
    /\ over' = [over EXCEPT ![x] = r]
    /\ skew' = [skew EXCEPT ![x] = 0]
    /\ astray' = astray \cup {x}

\* The constructors; from_linear counts from zero, so the view must start there.
Begin(x, r) ==
    /\ CanBeMade(r) /\ ZeroBased(r)
    /\ Becomes(x, Made(RangeOf(r), 0), r, 0)

End(x, r) ==
    /\ CanBeMade(r) /\ ZeroBased(r)
    /\ Becomes(x, Made(RangeOf(r), Count(r)), r, 0)

\* The defaulted copy constructor copies all members.
Copy(x, y) ==
    IF y \in astray THEN Strays(x, it[y], over[y]) ELSE Becomes(x, it[y], over[y], skew[y])

Convert(x, y) ==
    IF y \in astray THEN Strays(x, Converted(it[y]), over[y]) ELSE Becomes(x, Converted(it[y]), over[y], 0)

\* Wrong on purpose: the number stays behind, too.
Assigned_KeepsNumber(i, j) == [i EXCEPT !.base = j.base, !.xs = j.xs]

\* operator= copies the base, the extensions and the number.  The layout and the
\* indices stay what they were.
Assigned(i, j) == [i EXCEPT !.base = j.base, !.xs = j.xs, !.n = j.n]

\* Iterators of views of different dimensionality have different types.
Assign(x, y) ==
    /\ x # y /\ Len(it[x].l) = Len(it[y].l)
    /\ IF astray \cap {x, y} = {} /\ it[x].l = it[y].l
       THEN Becomes(x, Assigned(it[x], it[y]), over[y], Position(x) - it[y].n)
       ELSE Strays(x, Assigned(it[x], it[y]), over[y])

\* An iterator that has gone astray is not moved before it is replaced: wherever
\* it went it would be astray, and its indices would go on without end.
Movable(x) == x \notin astray

Incremented(i) == [i EXCEPT !.ns = NextCanonical(i.xs, i.ns), !.n = i.n + 1]

\* From the last position the indices return to the first.
Increment(x) ==
    /\ Movable(x) /\ it[x].n < Count(over[x])
    /\ \/ /\ Position(x) < Count(over[x]) - 1
          /\ Becomes(x, Incremented(it[x]), over[x], skew[x])
       \/ /\ Position(x) = Count(over[x]) - 1
          /\ Becomes(x, Incremented(it[x]), over[x], skew[x] - Count(over[x]))
       \/ /\ Position(x) = Count(over[x])
          /\ Strays(x, Incremented(it[x]), over[x])

Decremented(i) == [i EXCEPT !.ns = PrevCanonical(i.xs, i.ns), !.n = i.n - 1]

\* And from the first to the last.
Decrement(x) ==
    /\ Movable(x) /\ it[x].n > 0
    /\ \/ /\ Position(x) > 0
          /\ Becomes(x, Decremented(it[x]), over[x], skew[x])
       \/ /\ Position(x) = 0
          /\ Becomes(x, Decremented(it[x]), over[x], skew[x] + Count(over[x]))

Advanced(i, k) == [i EXCEPT !.ns = FromLinear(i.xs, ToLinear(i.xs, i.ns) + k), !.n = i.n + k]

\* y = x + k, and x += k where y is x.  The program keeps the number in the range;
\* the indices may be led out of it.
Plus(x, y, k) ==
    /\ Movable(x) /\ it[x].n + k \in 0 .. Count(over[x])
    /\ NumElementsIn(Tail(it[x].xs)) # 0
    /\ IF Position(x) + k \in 0 .. Count(over[x])
       THEN Becomes(y, Advanced(it[x], k), over[x], skew[x])
       ELSE Strays(y, Advanced(it[x], k), over[x])

\* operator-= leaves the indices where they were.
Retreated(i, k) == [i EXCEPT !.n = i.n - k]

\* y = x - k, and x -= k where y is x.
Minus(x, y, k) ==
    /\ Movable(x) /\ it[x].n - k \in 0 .. Count(over[x])
    /\ Becomes(y, Retreated(it[x], k), over[x], skew[x] + k)

--------------------------------------------------------------------------------
Steps(x) == -Count(over[x]) .. Count(over[x])

Next ==
    \E x \in Iterators :
        \/ \E r \in Ranges : Begin(x, r) \/ End(x, r)
        \/ \E y \in Iterators : Copy(x, y) \/ Convert(x, y) \/ Assign(x, y)
        \/ \E y \in Iterators, k \in Steps(x) : Plus(x, y, k) \/ Minus(x, y, k)
        \/ Increment(x)
        \/ Decrement(x)

Spec == Init /\ [][Next]_vars

--------------------------------------------------------------------------------
(* Reading.                                                                   *)

\* *it, and it[k]
Dereferenced(i) == i.base + At(i.l, i.ns)

Subscripted(i, k) == i.base + At(i.l, FromLinear(i.xs, ToLinear(i.xs, i.ns) + k))

\* What comparisons and differences assert.
Comparable(i, j) == i.base = j.base /\ i.l = j.l

Difference(i, j) == i.n - j.n

Less(i, j) == i.n < j.n

Equal(i, j) == i.n = j.n

\* front() and back() of a range that is not empty
FrontOf(range) == Dereferenced(Made(range, 0))

BackOf(range) == Dereferenced(Decremented(Made(range, NumElements(range.l))))

--------------------------------------------------------------------------------
(* Properties.                                                                *)

Precedes(i, j) == \E k \in DOMAIN i : i[k] < j[k] /\ \A m \in 1 .. k - 1 : i[m] = j[m]

\* The elements of each view in canonical order: the n-th one is that whose index
\* has n indices before it.
Listed ==
    [r \in Ranges |->
        LET box == Indices(Extensions(r.dims))
        IN  [n \in 0 .. Count(r) - 1 |->
                Address(r, CHOOSE i \in box : Cardinality({j \in box : Precedes(j, i)}) = n)]]

Nth(r, n) == Listed[r][n]

\* Whatever path led an iterator to number n, it refers to the element with that
\* number in the canonical order of its view, unless operator=, operator-= or
\* operator++ from the last element moved only one of number and indices: then it
\* refers to the element exactly as many positions on as these have left between
\* the two, until it is made anew (operator*, and every operation that moves).
PointsAtItsElement ==
    \A x \in Iterators \ astray :
        Position(x) < Count(over[x]) => Dereferenced(it[x]) = Nth(over[x], Position(x))

\* it[k] is the element k positions on from the one that it refers to, before or
\* after it; the same elements are found from the range itself, the first at its
\* front and the last at its back.
SubscriptReachesItsElement ==
    \A x \in Iterators \ astray : \A k \in Steps(x) :
        Position(x) + k \in 0 .. Count(over[x]) - 1
            => /\ Subscripted(it[x], k) = Nth(over[x], Position(x) + k)
               /\ ElementAt(over[x], Position(x) + k) = Nth(over[x], Position(x) + k)
               /\ FrontOf(RangeOf(over[x])) = Nth(over[x], 0)
               /\ BackOf(RangeOf(over[x])) = Nth(over[x], Count(over[x]) - 1)

\* Iterators over one view can be compared.  If their indices are equally far from
\* their numbers, they are equal exactly if they refer to the same element, one is
\* less exactly if its element comes first in canonical order, and x + (y - x)
\* refers to the element of y.  If not (operator= or operator-= moved one of them),
\* operator== never holds of two iterators that refer to the same element.
ComparisonsFollowTheElements ==
    \A x, y \in Iterators \ astray :
        over[x] = over[y] =>
            /\ Comparable(it[x], it[y])
            /\ (Position(x) < Count(over[x]) /\ Position(y) < Count(over[x])) =>
                   IF skew[x] = skew[y]
                   THEN /\ Equal(it[x], it[y]) <=> Dereferenced(it[x]) = Dereferenced(it[y])
                        /\ Less(it[x], it[y]) <=> Precedes(it[x].ns, it[y].ns)
                        /\ Dereferenced(Advanced(it[x], Difference(it[y], it[x]))) = Dereferenced(it[y])
                   ELSE ~ (Equal(it[x], it[y]) /\ Dereferenced(it[x]) = Dereferenced(it[y]))

================================================================================
