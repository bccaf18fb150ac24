----------------------------- MODULE ArrayIterators ----------------------------
(******************************************************************************)
(* What moves over an array and refers to a part of it: the iterator over the *)
(* subarrays of an array of several dimensions and the one over the elements  *)
(* of a vector (array_iterator), the pointer to a subarray (subarray_ptr),    *)
(* the cursor, which has no end (cursor_t), and the iterator over the indices *)
(* of an extension (range::const_iterator), with the operators that mixins    *)
(* derive from theirs (iterator_facade, incrementable).                       *)
(*                                                                            *)
(* Two of them move over each view; position says how many steps each is from *)
(* the first element, in each dimension that it moves in.                     *)
(******************************************************************************)
EXTENDS Layout, IndexRanges

CONSTANTS
    Walker,     \* the iterators, pointers and cursors of the program
    Sources,    \* what they move over: a kind and a view of an array
    Strides     \* the steps of += and -=

Kinds == {"rows", "elements", "pointer", "cursor", "indices"}

RowsAdjoin(dims) == dims[1].stride = dims[2].nelems

\* A dimension that a walker can move in: what extension() asserts, and a stride
\* also where there are no elements.
CanBeWalked(d) == d.stride # 0 /\ ExtensionExists(d) /\ Size(d) >= 0

ASSUME IteratorsAssumption ==
    /\ Strides \subseteq Int
    /\ \A s \in Sources :
           /\ s = [kind |-> s.kind, view |-> View(s.view.dims, s.view.base)]
           /\ s.view.base \in Int
           /\ s.view.dims \in Seq(Dimensions) \ {<<>>}
           /\ \A k \in DOMAIN s.view.dims : CanBeWalked(s.view.dims[k])
           /\ s.kind \in Kinds
           /\ s.kind \in {"rows", "pointer"} <=> s.kind # "cursor" /\ Len(s.view.dims) > 1
           /\ s.kind = "pointer" => RowsAdjoin(s.view.dims)

VARIABLES
    it,         \* the members of each walker
    over,       \* what it was made to move over
    position    \* how far it is from the start

vars == <<it, over, position>>

--------------------------------------------------------------------------------
(* Members.  A subarray_ptr also has an offset_ that is never read.           *)

\* The iterator over subarrays holds a pointer to one and the stride of the
\* dimension it moves in; when it is converted, both are copied.
RowIterator(b, sub, s) == [kind |-> "rows", base |-> b, sub |-> sub, stride |-> s]

ElementIterator(b, s) == [kind |-> "elements", base |-> b, stride |-> s]

\* &v, of a subarray v
AddressOf(v) == [kind |-> "pointer", base |-> v.base, sub |-> v.dims]

\* begin() of an array and of a vector, the address of the first row, home(),
\* and begin() of an extension.
Rows(v) == RowIterator(v.base, Tail(v.dims), v.dims[1].stride)

Elements(v) == ElementIterator(v.base, v.dims[1].stride)

Pointer(v) == AddressOf(Subscript(v, Extension(v.dims[1])[1]))

Cursor(v) == [kind |-> "cursor", base |-> v.base, strides |-> StridesOf(v.dims)]

IndexOf(v) == [kind |-> "indices", base |-> Extension(v.dims[1])[1]]

Made(s) ==
    CASE s.kind = "rows" -> Rows(s.view)
      [] s.kind = "elements" -> Elements(s.view)
      [] s.kind = "pointer" -> Pointer(s.view)
      [] s.kind = "cursor" -> Cursor(s.view)
      [] s.kind = "indices" -> IndexOf(s.view)

\* Wrong on purpose: a pointer to a subarray steps to the next element of it.
PointerStep_Inner(p) == p.sub[1].stride

\* A pointer to a subarray steps over as many elements as the subarray spans.
PointerStep(p) == p.sub[1].nelems

StepOf(w) ==
    CASE w.kind \in {"rows", "elements"} -> w.stride
      [] w.kind = "pointer" -> PointerStep(w)
      [] w.kind = "indices" -> 1

\* w + n, and with it += and, of those that have them, ++, -- and -=
Advanced(w, n) == [w EXCEPT !.base = @ + StepOf(w) * n]

\* cursor += (i, j, ...): the sum of the products with the strides
Shift(strides, t) == FoldLeftDomain(LAMBDA n, k : n + t[k] * strides[k], 0, t)

CursorAdvanced(c, t) == [c EXCEPT !.base = @ + Shift(c.strides, t)]

\* cursor[n]: a cursor with a dimension less; and cursor[i][j]...
CursorAt(c, n) ==
    [c EXCEPT !.base = @ + Head(c.strides) * n, !.strides = Tail(@)]

CursorWithin(c, i) == FoldLeft(CursorAt, c, i)

\* *p and p->, of a pointer, and *w of an iterator over subarrays
Pointee(p) == View(p.sub, p.base)

RowReferred(w) == Pointee(w)

\* An element, or an index, is a view without dimensions.
ElementReferred(w) == View(<<>>, w.base)

CursorReferred(c) == View(<<>>, c.base)

Dereferenced(w) ==
    CASE w.kind = "rows" -> RowReferred(w)
      [] w.kind = "pointer" -> Pointee(w)
      [] w.kind \in {"elements", "indices"} -> ElementReferred(w)
      [] w.kind = "cursor" -> CursorReferred(w)

\* w(i, j, ...), and apply(): i steps from w, and the indices j, ... of what is
\* found there.
Called(w, t) == Within(RowReferred(Advanced(w, Head(t))), Tail(t))

--------------------------------------------------------------------------------
(* Comparisons, of walkers over the same view.                                *)

\* The number of steps from a to b.
DistanceTo(a, b) == Quotient(b.base - a.base, PointerStep(a))

Difference(a, b) ==
    IF a.kind = "pointer" THEN DistanceTo(b, a) ELSE Quotient(a.base - b.base, StepOf(a))

\* All members of rows and pointers are compared; of the others the pointer.
Equal(a, b) == IF a.kind \in {"rows", "pointer"} THEN a = b ELSE a.base = b.base

\* Wrong on purpose: the order of the addresses.
ElementsLess_Ascending(a, b) == a.base < b.base

ElementsLess(a, b) == IF a.stride >= 0 THEN a.base < b.base ELSE b.base < a.base

RowsLess(a, b) ==
    \/ 0 < a.stride /\ a.base - b.base < 0
    \/ a.stride < 0 /\ 0 < a.base - b.base

Less(a, b) ==
    CASE a.kind = "rows" -> RowsLess(a, b)
      [] a.kind = "elements" -> ElementsLess(a, b)
      [] a.kind = "pointer" -> DistanceTo(a, b) > 0
      [] a.kind = "indices" -> a.base < b.base

\* iterator_facade
LessEqual(a, b) == Less(a, b) \/ Equal(a, b)
Greater(a, b) == ~LessEqual(a, b)
GreaterEqual(a, b) == ~Less(a, b)

--------------------------------------------------------------------------------
Moves(s) == IF s.kind = "cursor" THEN Len(s.view.dims) ELSE 1

\* The positions that *w is defined at, and that w may be at.
Counts(s) == [k \in 1 .. Moves(s) |-> Size(s.view.dims[k])]

Inside(s, p) == \A k \in DOMAIN p : p[k] \in 0 .. Counts(s)[k] - 1

Reachable(s, p) == IF s.kind = "cursor" THEN Inside(s, p) ELSE p[1] \in 0 .. Counts(s)[1]

Init ==
    /\ over \in [Walker -> Sources]
    /\ it = [w \in Walker |-> Made(over[w])]
    /\ position = [w \in Walker |-> [k \in 1 .. Moves(over[w]) |-> 0]]

Goes(w, x, p) ==
    /\ Reachable(over[w], p)
    /\ it' = [it EXCEPT ![w] = x]
    /\ position' = [position EXCEPT ![w] = p]
    /\ UNCHANGED over

Steps(w) == over[w].kind # "cursor"

By(w, n) == <<position[w][1] + n>>

\* A pointer to a subarray has operator+= only; its increment() and decrement()
\* are protected, and nothing calls them.
StepsEitherWay(w) == Steps(w) /\ over[w].kind # "pointer"

Increment(w) == StepsEitherWay(w) /\ Goes(w, Advanced(it[w], 1), By(w, 1))

Decrement(w) == StepsEitherWay(w) /\ Goes(w, Advanced(it[w], -1), By(w, -1))

Add(w, n) == Steps(w) /\ Goes(w, Advanced(it[w], n), By(w, n))

Subtract(w, n) == StepsEitherWay(w) /\ Goes(w, Advanced(it[w], -n), By(w, -n))

\* end(): nelems from the base, whatever the size is.
End(w) ==
    LET top == over[w].view.dims[1]
    IN  /\ over[w].kind \in {"rows", "elements", "indices"}
        /\ Goes(w, IF over[w].kind = "indices" THEN [Made(over[w]) EXCEPT !.base = Extension(top)[2]]
                   ELSE [Made(over[w]) EXCEPT !.base = @ + top.nelems],
                <<Size(top)>>)

\* find() of an extension
FindIndex(w, i) ==
    LET r == Extension(over[w].view.dims[1])
    IN  /\ over[w].kind = "indices"
        /\ Goes(w, [Made(over[w]) EXCEPT !.base = Find(r, i)],
                <<IF InRange(r, i) THEN i - r[1] ELSE RangeSize(r)>>)

Move(w, t) ==
    /\ over[w].kind = "cursor"
    /\ Goes(w, CursorAdvanced(it[w], t), [k \in DOMAIN t |-> position[w][k] + t[k]])

\* u = w++: the walker that is returned stays where w was.
PostIncrement(w, u) ==
    /\ u # w /\ StepsEitherWay(w) /\ Reachable(over[w], By(w, 1))
    /\ it' = [it EXCEPT ![w] = Advanced(it[w], 1), ![u] = it[w]]
    /\ position' = [position EXCEPT ![w] = By(w, 1), ![u] = position[w]]
    /\ over' = [over EXCEPT ![u] = over[w]]

\* u = w, copied or converted to a walker over constant elements
Assign(w, u) ==
    /\ u # w
    /\ it' = [it EXCEPT ![u] = it[w]]
    /\ position' = [position EXCEPT ![u] = position[w]]
    /\ over' = [over EXCEPT ![u] = over[w]]

\* u = &*w
TakeAddress(w, u) ==
    /\ over[w].kind = "rows" /\ Inside(over[w], position[w])
    /\ \E s \in Sources :
           /\ s = [over[w] EXCEPT !.kind = "pointer"]
           /\ it' = [it EXCEPT ![u] = AddressOf(RowReferred(it[w]))]
           /\ position' = [position EXCEPT ![u] = position[w]]
           /\ over' = [over EXCEPT ![u] = s]

Tuples(s) == [1 .. Moves(s) -> Strides]

Next ==
    \E w \in Walker :
        \/ Increment(w) \/ Decrement(w) \/ End(w)
        \/ \E n \in Strides : Add(w, n) \/ Subtract(w, n)
        \/ \E i \in Strides : FindIndex(w, i)
        \/ \E t \in Tuples(over[w]) : Move(w, t)
        \/ \E u \in Walker : PostIncrement(w, u) \/ Assign(w, u) \/ TakeAddress(w, u)

Spec == Init /\ [][Next]_vars

--------------------------------------------------------------------------------
(* Properties.                                                                *)

\* What a view has at a position, by operator[].
Part(s, p) ==
    IF s.kind = "indices"
    THEN [base |-> Extension(s.view.dims[1])[1] + p[1], dims |-> <<>>]
    ELSE Within(s.view, [k \in DOMAIN p |-> Extension(s.view.dims[k])[1] + p[k]])

\* However it came to its position, a walker refers to the subarray, element or
\* index that operator[] finds there; so do w[k], w(k, i, ...) and cursor[i][j],
\* from where w is; and the end that steps lead to is end().
RefersToItsElement ==
    \A w \in Walker :
        LET s == over[w]
            p == position[w]
        IN  /\ Inside(s, p) => Dereferenced(it[w]) = Part(s, p)
            /\ s.kind # "cursor" =>
                   \A k \in 0 .. Counts(s)[1] - 1 :
                       Dereferenced(Advanced(it[w], k - p[1])) = Part(s, <<k>>)
            /\ s.kind = "cursor" =>
                   \A q \in Indices(FromSizes(Counts(s))) :
                       CursorWithin(it[w], [k \in DOMAIN p |-> q[k] - p[k]]).base = Part(s, q).base
            /\ s.kind = "rows" =>
                   \A i \in Indices(Extensions(s.view.dims)) :
                       Called(it[w], [i EXCEPT ![1] = @ - Extension(s.view.dims[1])[1] - p[1]]).base
                         = Address(s.view, i)
            /\ s.kind \in {"rows", "elements"} /\ p = Counts(s) =>
                   it[w].base = s.view.base + s.view.dims[1].nelems

\* Comparisons and differences are those of the positions, also over a vector
\* whose elements go down in memory.
OrderIsPosition ==
    \A w, u \in Walker :
        LET n == position[w][1] - position[u][1]
        IN  over[w] = over[u] /\ over[w].kind # "cursor" =>
                /\ Difference(it[w], it[u]) = n
                /\ Equal(it[w], it[u]) <=> n = 0
                /\ Less(it[w], it[u]) <=> n < 0
                /\ LessEqual(it[w], it[u]) <=> n <= 0
                /\ Greater(it[w], it[u]) <=> n > 0
                /\ GreaterEqual(it[w], it[u]) <=> n >= 0

================================================================================
