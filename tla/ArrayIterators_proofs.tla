-------------------------- MODULE ArrayIterators_proofs ------------------------
(******************************************************************************)
(* For every set of iterators, pointers, cursors and index iterators over     *)
(* views of every size, number of dimensions and sign of strides: what a      *)
(* walker refers to is what operator[] finds at its position, and comparisons *)
(* and differences are those of the positions.                                *)
(*                                                                            *)
(* The second part is about the iterators of elements() (ElementsIterator),   *)
(* for every set of views that start at zero: their number and their indices  *)
(* stay in step, so that they refer to the elements in canonical order.       *)
(******************************************************************************)
EXTENDS ArrayIterators, Layout_proofs

\* p steps from where a walker starts.
Standing(s, p) == [Made(s) EXCEPT !.base = @ + StepOf(Made(s)) * p]

\* The cursor at a position.
CursorFrom(s, p) ==
    [Cursor(s.view) EXCEPT !.base = @ + Shift(StridesOf(s.view.dims), p)]

\* The walker x over s is at position p.
Placed(s, x, p) ==
    /\ p \in [1 .. Moves(s) -> Int]
    /\ x = IF s.kind = "cursor" THEN CursorFrom(s, p) ELSE Standing(s, p[1])

\* The inductive invariant: a walker's members are those of begin(), moved by its
\* position.
IInv ==
    /\ over \in [Walker -> Sources]
    /\ DOMAIN it = Walker /\ DOMAIN position = Walker
    /\ \A w \in Walker : Placed(over[w], it[w], position[w])

--------------------------------------------------------------------------------
(* What walkers move over.                                                    *)

LEMMA SourceDims ==
    ASSUME NEW s \in Sources
    PROVE  /\ s.kind \in Kinds /\ s.view.base \in Int
           /\ s.view.dims \in Seq(Dimensions) /\ Len(s.view.dims) \in Nat /\ Len(s.view.dims) >= 1
           /\ s.kind \in {"rows", "pointer"} => Len(s.view.dims) >= 2
           /\ s.kind \in {"elements", "indices"} => Len(s.view.dims) = 1
<1>1. /\ s.view.base \in Int /\ s.view.dims \in Seq(Dimensions) \ {<<>>} /\ s.kind \in Kinds
      /\ s.kind \in {"rows", "pointer"} <=> s.kind # "cursor" /\ Len(s.view.dims) > 1
    BY IteratorsAssumption
<1> PICK L \in Nat : L = Len(s.view.dims) /\ L # 0
    BY <1>1
<1>2. s.kind \in {"rows", "pointer"} => L >= 2
    BY ONLY <1>1, L \in Nat, L = Len(s.view.dims)
<1>3. s.kind \in {"elements", "indices"} => L = 1
    <2>1. s.kind \in {"elements", "indices"} => s.kind # "cursor" /\ s.kind \notin {"rows", "pointer"}
        OBVIOUS
    <2>2. s.kind \in {"elements", "indices"} => ~(L > 1)
        BY ONLY <1>1, <2>1, L = Len(s.view.dims)
    <2>3. QED
        BY ONLY <2>2, L \in Nat, L # 0
<1>4. QED
    BY ONLY <1>1, <1>2, <1>3, L \in Nat, L = Len(s.view.dims), L # 0

LEMMA SourceSteps ==
    ASSUME NEW s \in Sources, NEW k \in 1 .. Len(s.view.dims)
    PROVE  /\ s.view.dims[k] \in Dimensions
           /\ s.view.dims[k].stride \in Int /\ s.view.dims[k].offset \in Int /\ s.view.dims[k].nelems \in Int
           /\ s.view.dims[k].stride # 0
           /\ \E f \in Int, n \in Nat : HasSteps(s.view.dims[k], f, n)
<1>1. s.view.dims \in Seq(Dimensions) /\ k \in DOMAIN s.view.dims
    BY SourceDims
<1> PICK d : d = s.view.dims[k]
    OBVIOUS
<1>2. CanBeWalked(d)
    BY <1>1, IteratorsAssumption
<1>3. d \in Dimensions
    BY <1>1
<1>4. d.stride # 0 /\ ExtensionExists(d) /\ Size(d) >= 0
    BY <1>2 DEF CanBeWalked
<1>5. \E f \in Int, n \in Nat : HasSteps(d, f, n)
    BY ONLY <1>3, <1>4, DimensionSteps
<1>6. QED
    BY <1>3, <1>4, <1>5 DEF Dimensions

\* The leading dimension, and the type of what begin(), & and home() return.
LEMMA MadeType ==
    ASSUME NEW s \in Sources, s.kind # "cursor"
    PROVE  /\ Made(s).base \in Int /\ Made(s).kind = s.kind
           /\ StepOf(Made(s)) \in Int /\ StepOf(Made(s)) # 0
           /\ s.kind # "indices" => StepOf(Made(s)) = s.view.dims[1].stride
           /\ s.kind = "indices" => StepOf(Made(s)) = 1
<1>1. /\ s.kind \in {"rows", "elements", "pointer", "indices"} /\ s.view.base \in Int /\ 1 \in 1 .. Len(s.view.dims)
      /\ s.view.dims \in Seq(Dimensions)
    BY SourceDims DEF Kinds
<1> PICK d : d = s.view.dims[1]
    OBVIOUS
<1>2. d.stride \in Int /\ d.offset \in Int /\ d.stride # 0 /\ \E f \in Int, n \in Nat : HasSteps(d, f, n)
    BY ONLY <1>1, s \in Sources, d = s.view.dims[1], SourceSteps
<1>3. PICK f \in Int, n \in Nat : HasSteps(d, f, n)
    BY <1>2
<1>4. Extension(d)[1] \in Int
    BY <1>3 DEF HasSteps
<1>5. CASE s.kind = "rows"
    BY <1>1, <1>2, <1>5 DEF Made, Rows, RowIterator, StepOf
<1>6. CASE s.kind = "elements"
    BY <1>1, <1>2, <1>6 DEF Made, Elements, ElementIterator, StepOf
<1>7. CASE s.kind = "pointer"
    <2>1. Made(s) = [kind |-> "pointer", base |-> s.view.base + (Extension(d)[1] * d.stride - d.offset),
                     sub |-> Tail(s.view.dims)]
        BY <1>7 DEF Made, Pointer, AddressOf, Subscript, View
    <2>2. d.stride = s.view.dims[2].nelems
        BY <1>7, IteratorsAssumption DEF RowsAdjoin
    <2>3. Tail(s.view.dims)[1] = s.view.dims[2]
        BY <1>1, <1>7, SourceDims
    <2>4. StepOf(Made(s)) = d.stride
        <3>1. Made(s).kind = "pointer" /\ Made(s).sub = Tail(s.view.dims)
            BY <2>1
        <3>2. StepOf(Made(s)) = PointerStep(Made(s))
            BY ONLY <3>1 DEF StepOf
        <3>3. QED
            BY ONLY <2>2, <2>3, <3>1, <3>2 DEF PointerStep
    <2>5. Made(s).base \in Int
        <3>1. Made(s).base = s.view.base + (Extension(d)[1] * d.stride - d.offset)
            BY ONLY <2>1
        <3>2. QED
            BY ONLY <1>1, <1>2, <1>4, <3>1
    <2>6. QED
        BY <1>2, <1>7, <2>1, <2>4, <2>5
<1>8. CASE s.kind = "indices"
    BY <1>1, <1>4, <1>8 DEF Made, IndexOf, StepOf
<1>9. QED
    BY <1>1, <1>5, <1>6, <1>7, <1>8

LEMMA StandingSame ==
    ASSUME NEW s \in Sources, s.kind # "cursor", NEW p \in Int
    PROVE  /\ StepOf(Standing(s, p)) = StepOf(Made(s))
           /\ Standing(s, p).base = Made(s).base + StepOf(Made(s)) * p
           /\ Standing(s, p).kind = s.kind
<1>1. s.kind \in {"rows", "elements", "pointer", "indices"}
    BY SourceDims DEF Kinds
<1> PICK b : b = Made(s).base + StepOf(Made(s)) * p
    OBVIOUS
<1>2. Standing(s, p) = [Made(s) EXCEPT !.base = b]
    BY SMTT(30) DEF Standing
<1>3. CASE s.kind = "rows"
    BY <1>2, <1>3, SMTT(30) DEF Made, Rows, RowIterator, StepOf
<1>4. CASE s.kind = "elements"
    BY <1>2, <1>4, SMTT(30) DEF Made, Elements, ElementIterator, StepOf
<1>5. CASE s.kind = "pointer"
    BY <1>2, <1>5, ZenonT(30) DEF Made, Pointer, AddressOf, StepOf, PointerStep
<1>6. CASE s.kind = "indices"
    BY <1>2, <1>6 DEF Made, IndexOf, StepOf
<1>7. QED
    BY <1>1, <1>3, <1>4, <1>5, <1>6, SMTT(30)

\* Steps add up.
LEMMA AdvancedStanding ==
    ASSUME NEW s \in Sources, s.kind # "cursor", NEW p \in Int, NEW n \in Int
    PROVE  Advanced(Standing(s, p), n) = Standing(s, p + n)
<1> PICK t \in Int, b \in Int : t = StepOf(Made(s)) /\ b = Made(s).base
    BY MadeType
<1> PICK m : m = Made(s)
    OBVIOUS
<1>1. StepOf(Standing(s, p)) = t /\ Standing(s, p) = [m EXCEPT !.base = b + t * p]
    BY StandingSame DEF Standing
<1>2. Standing(s, p).base = b + t * p
    BY StandingSame
<1>3. Standing(s, p + n) = [m EXCEPT !.base = b + t * (p + n)]
    BY DEF Standing
<1>4. Advanced(Standing(s, p), n) = [Standing(s, p) EXCEPT !.base = b + t * p + t * n]
    BY ONLY <1>1, <1>2 DEF Advanced
<1>5. b + t * p + t * n = b + t * (p + n)
    OBVIOUS
<1>6. [[m EXCEPT !.base = b + t * p] EXCEPT !.base = b + t * (p + n)] = [m EXCEPT !.base = b + t * (p + n)]
    <2>1. DOMAIN m = DOMAIN [m EXCEPT !.base = b + t * p]
        OBVIOUS
    <2>2. QED
        OBVIOUS
<1>7. QED
    BY ONLY <1>1, <1>3, <1>4, <1>5, <1>6

--------------------------------------------------------------------------------
(* What walkers refer to.                                                     *)

\* The elements at one index of the leading dimension.
LEMMA PartAt ==
    ASSUME NEW s \in Sources, NEW k, s.kind # "indices"
    PROVE  Part(s, <<k>>) = Subscript(s.view, Extension(s.view.dims[1])[1] + k)
<1>1. [j \in DOMAIN <<k>> |-> Extension(s.view.dims[j])[1] + <<k>>[j]]
        = <<Extension(s.view.dims[1])[1] + k>>
    OBVIOUS
<1>2. Part(s, <<k>>) = Within(s.view, <<Extension(s.view.dims[1])[1] + k>>)
    BY ONLY <1>1, s.kind # "indices" DEF Part
<1>3. QED
    BY ONLY <1>2, WithinOne

LEMMA StandingRefers ==
    ASSUME NEW s \in Sources, s.kind # "cursor", NEW k \in 0 .. Size(s.view.dims[1]) - 1
    PROVE  Dereferenced(Standing(s, k)) = Part(s, <<k>>)
<1>1. s.kind \in {"rows", "elements", "pointer", "indices"} /\ 1 \in 1 .. Len(s.view.dims)
    BY SourceDims DEF Kinds
<1> PICK d : d = s.view.dims[1]
    OBVIOUS
<1> PICK b \in Int : b = s.view.base
    BY SourceDims
<1>2. d.stride \in Int /\ d.offset \in Int /\ \E f \in Int, n \in Nat : HasSteps(d, f, n)
    BY ONLY <1>1, s \in Sources, d = s.view.dims[1], SourceSteps
<1>3. PICK f \in Int, n \in Nat : HasSteps(d, f, n)
    BY <1>2
<1>4. k \in Int /\ d.offset = d.stride * f /\ Extension(d)[1] = f
    <2>1. k \in 0 .. n - 1
        BY <1>3 DEF HasSteps
    <2>2. n # 0
        BY <2>1
    <2>3. d.offset = d.stride * f /\ Extension(d) = <<f, f + n>>
        BY ONLY <1>3, <2>2 DEF HasSteps
    <2>4. QED
        BY <2>1, <2>3
<1> PICK t \in Int : t = d.stride
    BY <1>2
<1>5. Subscript(s.view, f + k) = View(Tail(s.view.dims), b + t * k)
    <2>1. (f + k) * t - t * f = t * k
        BY <1>4
    <2>2. Subscript(s.view, f + k) = View(Tail(s.view.dims), b + ((f + k) * t - t * f))
        BY ONLY <1>4, b = s.view.base, d = s.view.dims[1], t = d.stride DEF Subscript
    <2>3. QED
        BY ONLY <2>1, <2>2
<1>6. ASSUME s.kind # "indices" PROVE Part(s, <<k>>) = View(Tail(s.view.dims), b + t * k)
    BY ONLY <1>4, <1>5, <1>6, s \in Sources, d = s.view.dims[1], PartAt
<1> PICK x : x = Standing(s, k)
    OBVIOUS
<1>7. x.kind = s.kind /\ x.base = Made(s).base + StepOf(Made(s)) * k
    BY ONLY <1>4, s \in Sources, s.kind # "cursor", x = Standing(s, k), StandingSame
<1>8. s.kind # "indices" => StepOf(Made(s)) = t
    BY MadeType
<1>9. CASE s.kind \in {"rows", "pointer"}
    <2>1. x.sub = Tail(s.view.dims)
        BY <1>9 DEF Standing, Made, Rows, RowIterator, Pointer, AddressOf, Subscript, View
    <2>2. Made(s).base = b
        <3>1. CASE s.kind = "rows"
            BY <3>1 DEF Made, Rows, RowIterator
        <3>2. CASE s.kind = "pointer"
            <4>1. Made(s).base = b + (f * t - t * f)
                BY ONLY <1>4, <3>2, b = s.view.base, d = s.view.dims[1], t = d.stride
                DEF Made, Pointer, AddressOf, Subscript, View
            <4>2. QED
                BY <4>1
        <3>3. QED
            BY <1>9, <3>1, <3>2
    <2>3. Dereferenced(x) = View(Tail(s.view.dims), b + t * k)
        BY ONLY <1>7, <1>8, <1>9, <2>1, <2>2 DEF Dereferenced, RowReferred, Pointee
    <2>4. QED
        BY <1>6, <1>9, <2>3
<1>10. CASE s.kind = "elements"
    <2>1. Tail(s.view.dims) = <<>>
        <3> PICK ds \in Seq(Dimensions) : ds = s.view.dims /\ Len(ds) = 1
            BY <1>10, SourceDims
        <3>1. Len(Tail(ds)) = 0 /\ Tail(ds) \in Seq(Dimensions)
            OBVIOUS
        <3>2. Tail(ds) = <<>>
            BY ONLY <3>1, NoneIn
        <3>3. QED
            BY <3>2
    <2>2. Made(s).base = b
        BY <1>10 DEF Made, Elements, ElementIterator
    <2>3. Dereferenced(x) = View(<<>>, b + t * k)
        BY ONLY <1>7, <1>8, <1>10, <2>2 DEF Dereferenced, ElementReferred
    <2>4. QED
        BY <1>6, <1>10, <2>1, <2>3
<1>11. CASE s.kind = "indices"
    <2>1. Made(s).base = f /\ StepOf(Made(s)) = 1
        BY <1>4, <1>11 DEF Made, IndexOf, StepOf
    <2>2. Part(s, <<k>>) = [base |-> f + k, dims |-> <<>>]
        BY <1>4, <1>11 DEF Part
    <2>3. Dereferenced(x) = View(<<>>, f + 1 * k)
        BY ONLY <1>7, <1>11, <2>1 DEF Dereferenced, ElementReferred
    <2>4. QED
        BY <1>4, <2>2, <2>3 DEF View
<1>12. QED
    BY <1>1, <1>9, <1>10, <1>11

--------------------------------------------------------------------------------
(* Comparisons.                                                               *)

LEMMA OrderOfStanding ==
    ASSUME NEW s \in Sources, s.kind # "cursor", NEW p \in Int, NEW q \in Int,
           NEW a, a = Standing(s, p), NEW b, b = Standing(s, q)
    PROVE  /\ Difference(a, b) = p - q
           /\ Equal(a, b) <=> p = q
           /\ Less(a, b) <=> p < q
<1>1. s.kind \in {"rows", "elements", "pointer", "indices"}
    BY SourceDims DEF Kinds
<1> PICK t \in Int, o \in Int : t = StepOf(Made(s)) /\ o = Made(s).base
    BY MadeType
<1>2. /\ a.base = o + t * p /\ b.base = o + t * q /\ a.kind = s.kind /\ b.kind = s.kind
      /\ StepOf(a) = t /\ StepOf(b) = t /\ t # 0
    BY StandingSame, MadeType
<1>3. a.base - b.base = t * (p - q) /\ b.base - a.base = t * (q - p)
    BY <1>2
<1>4. \A k \in Int : Quotient(t * k, t) = k
    BY ONLY <1>2, t \in Int, QuotientExact
<1>5. Quotient(a.base - b.base, t) = p - q /\ Quotient(b.base - a.base, t) = q - p
    <2>1. p - q \in Int /\ q - p \in Int
        OBVIOUS
    <2>2. QED
        BY ONLY <1>3, <1>4, <2>1
<1>6. a.base = b.base <=> p = q
    <2>1. t * (p - q) = 0 <=> p = q
        BY <1>2
    <2>2. QED
        BY <1>2, <1>3, <2>1
<1>7. a = b <=> p = q
    <2>1. p = q => a = b
        OBVIOUS
    <2>2. a = b => p = q
        BY <1>6
    <2>3. QED
        BY <2>1, <2>2
<1>8. Equal(a, b) <=> p = q
    BY ONLY <1>6, <1>7 DEF Equal
<1>9. CASE s.kind = "rows"
    <2>1. a.stride = t
        BY ONLY <1>2, <1>9 DEF StepOf
    <2>2. Difference(a, b) = p - q
        BY ONLY <1>2, <1>5, <1>9 DEF Difference
    <2>3. Less(a, b) <=> (0 < t /\ t * (p - q) < 0) \/ (t < 0 /\ 0 < t * (p - q))
        BY ONLY <1>2, <1>3, <1>9, <2>1 DEF Less, RowsLess
    <2> PICK r \in Int : r = p - q
        OBVIOUS
    <2>4. (0 < t => (t * r < 0 <=> r < 0)) /\ (t < 0 => (0 < t * r <=> r < 0))
        BY ONLY t \in Int, r \in Int
    <2>5. Less(a, b) <=> r < 0
        BY ONLY <1>2, <2>3, <2>4, t \in Int, r = p - q
    <2>6. r < 0 <=> p < q
        OBVIOUS
    <2>7. QED
        BY ONLY <1>8, <2>2, <2>5, <2>6
<1>10. CASE s.kind = "elements"
    <2>1. a.stride = t
        BY ONLY <1>2, <1>10 DEF StepOf
    <2>2. Difference(a, b) = p - q
        BY ONLY <1>2, <1>5, <1>10 DEF Difference
    <2>3. Less(a, b) <=> IF t >= 0 THEN o + t * p < o + t * q ELSE o + t * q < o + t * p
        BY ONLY <1>2, <1>10, <2>1 DEF Less, ElementsLess
    <2>4. Less(a, b) <=> p < q
        BY ONLY <1>2, <2>3, t \in Int, o \in Int, p \in Int, q \in Int
    <2>5. QED
        BY <1>8, <2>2, <2>4
<1>11. CASE s.kind = "pointer"
    <2>1. PointerStep(a) = t /\ PointerStep(b) = t
        BY ONLY <1>2, <1>11 DEF StepOf
    <2>2. DistanceTo(a, b) = q - p /\ DistanceTo(b, a) = p - q
        BY ONLY <1>5, <2>1 DEF DistanceTo
    <2>3. Difference(a, b) = p - q
        BY ONLY <1>2, <1>11, <2>2 DEF Difference
    <2>4. Less(a, b) <=> q - p > 0
        BY ONLY <1>2, <1>11, <2>2 DEF Less
    <2>5. QED
        BY <1>8, <2>3, <2>4
<1>12. CASE s.kind = "indices"
    <2>1. t = 1
        BY MadeType, <1>12
    <2>2. Difference(a, b) = p - q
        BY ONLY <1>2, <1>5, <1>12 DEF Difference
    <2>3. Less(a, b) <=> o + t * p < o + t * q
        BY ONLY <1>2, <1>12 DEF Less
    <2>4. QED
        BY <1>8, <2>1, <2>2, <2>3
<1>13. QED
    BY <1>1, <1>9, <1>10, <1>11, <1>12

LEMMA OrderHolds == IInv => OrderIsPosition
<1> SUFFICES ASSUME IInv, NEW w \in Walker, NEW u \in Walker, over[w] = over[u], over[w].kind # "cursor",
                    NEW n, n = position[w][1] - position[u][1]
             PROVE  /\ Difference(it[w], it[u]) = n
                    /\ Equal(it[w], it[u]) <=> n = 0
                    /\ Less(it[w], it[u]) <=> n < 0
                    /\ LessEqual(it[w], it[u]) <=> n <= 0
                    /\ Greater(it[w], it[u]) <=> n > 0
                    /\ GreaterEqual(it[w], it[u]) <=> n >= 0
    BY DEF OrderIsPosition
<1> PICK s \in Sources : s = over[w] /\ s = over[u] /\ s.kind # "cursor"
    BY DEF IInv
<1>1. Placed(s, it[w], position[w]) /\ Placed(s, it[u], position[u])
    BY DEF IInv
<1>2. /\ position[w][1] \in Int /\ it[w] = Standing(s, position[w][1])
      /\ position[u][1] \in Int /\ it[u] = Standing(s, position[u][1])
    BY <1>1 DEF Placed, Moves
<1> PICK p \in Int, q \in Int : p = position[w][1] /\ q = position[u][1]
    BY <1>2
<1> PICK a, b : a = it[w] /\ b = it[u]
    OBVIOUS
<1>3. Difference(a, b) = p - q /\ (Equal(a, b) <=> p = q) /\ (Less(a, b) <=> p < q)
    <2>1. a = Standing(s, p) /\ b = Standing(s, q)
        BY <1>2
    <2>2. QED
        BY ONLY <2>1, s \in Sources, s.kind # "cursor", p \in Int, q \in Int, OrderOfStanding
<1>4. n = p - q
    OBVIOUS
<1>5. /\ LessEqual(a, b) <=> p <= q
      /\ Greater(a, b) <=> p > q
      /\ GreaterEqual(a, b) <=> p >= q
    BY ONLY <1>3, p \in Int, q \in Int DEF LessEqual, Greater, GreaterEqual
<1>6. QED
    BY ONLY <1>3, <1>4, <1>5, p \in Int, q \in Int, a = it[w], b = it[u]

--------------------------------------------------------------------------------
(* Cursors.  The sums that they go by.                                         *)

\* The products that a cursor adds, in each dimension.
ShiftsBy(g, strides, t, N) ==
  /\ g[0] = 0 /\ g[N] = Shift(strides, t)
  /\ \A k \in 1 .. N : g[k] = g[k - 1] + t[k] * strides[k]

LEMMA ShiftSteps ==
  ASSUME NEW N \in Nat, NEW strides, NEW t, DOMAIN t = 1 .. N
  PROVE  \E g : ShiftsBy(g, strides, t, N)
<1> DEFINE sq == [j \in DOMAIN t |-> j]
           Body(f, s) == IF s = {} THEN 0 ELSE f[s \ {Max(s)}] + t[sq[Max(s)]] * strides[sq[Max(s)]]
           iter == CHOOSE f : f = [s \in SUBSET DOMAIN sq |-> Body(f, s)]
           T == {m \in Nat : \E F : F = [s \in SUBSET (1 .. m) |-> Body(F, s)]}
<1>1. DOMAIN sq = 1 .. N
  OBVIOUS
<1>2. Shift(strides, t) = iter[DOMAIN sq]
  BY DEF Shift, FoldLeftDomain, FoldLeft, MapThenFoldSet
<1>3. 0 \in T
  <2> DEFINE F == [s \in SUBSET (1 .. 0) |-> 0]
  <2>1. \A s \in SUBSET (1 .. 0) : s = {}
    OBVIOUS
  <2>2. \A s \in SUBSET (1 .. 0) : F[s] = Body(F, s)
    BY <2>1
  <2>3. F = [s \in SUBSET (1 .. 0) |-> Body(F, s)]
    <3> HIDE DEF Body
    <3> QED
      BY <2>2
  <2>4. QED
    <3> HIDE DEF F, Body
    <3> QED
      BY <2>3
<1>4. ASSUME NEW m \in Nat, m \in T PROVE m + 1 \in T
  <2>1. PICK F : F = [s \in SUBSET (1 .. m) |-> Body(F, s)]
    <3> HIDE DEF Body
    <3> QED
      BY <1>4
  <2> DEFINE G == [s \in SUBSET (1 .. m + 1) |->
                     IF m + 1 \in s THEN F[s \ {m + 1}] + t[sq[m + 1]] * strides[sq[m + 1]] ELSE F[s]]
  <2>2. ASSUME NEW s \in SUBSET (1 .. m + 1) PROVE G[s] = Body(G, s)
    <3>1. CASE m + 1 \in s
      <4>1. Max(s) = m + 1 /\ s # {}
        <5>1. s \subseteq Int /\ \A y \in s : y <= m + 1
          OBVIOUS
        <5>2. QED
          BY ONLY <3>1, <5>1, MaxOf
      <4>2. m + 1 \notin s \ {m + 1} /\ s \ {m + 1} \in SUBSET (1 .. m + 1)
        OBVIOUS
      <4>3. G[s \ {m + 1}] = F[s \ {m + 1}]
        BY <4>2
      <4>4. G[s] = F[s \ {m + 1}] + t[sq[m + 1]] * strides[sq[m + 1]]
        BY <3>1
      <4>5. QED
        <5> HIDE DEF G, sq
        <5> QED
          BY ONLY <4>1, <4>3, <4>4
    <3>2. CASE m + 1 \notin s
      <4>1. s \in SUBSET (1 .. m)
        BY <3>2
      <4>2. F[s] = Body(F, s)
        <5> HIDE DEF Body
        <5> QED
          BY <2>1, <4>1
      <4>3. G[s] = F[s] /\ G[s \ {Max(s)}] = F[s \ {Max(s)}]
        BY <3>2
      <4>4. QED
        <5> HIDE DEF G, sq
        <5> QED
          BY ONLY <4>2, <4>3
    <3>3. QED
      BY <3>1, <3>2
  <2>3. G = [s \in SUBSET (1 .. m + 1) |-> Body(G, s)]
    <3> HIDE DEF Body
    <3> QED
      BY <2>2
  <2>4. QED
    <3> HIDE DEF G, Body
    <3> QED
      BY <2>3
<1>5. N \in T
  <2> HIDE DEF T
  <2>1. QED
    BY <1>3, <1>4, Induct
<1>6. iter = [s \in SUBSET (1 .. N) |-> Body(iter, s)]
  <2>1. \E f : f = [s \in SUBSET DOMAIN sq |-> Body(f, s)]
    <3> HIDE DEF Body, sq
    <3> QED
      BY <1>1, <1>5
  <2>2. iter = [s \in SUBSET DOMAIN sq |-> Body(iter, s)]
    <3> HIDE DEF Body, sq
    <3> QED
      BY ONLY <2>1
  <2>3. QED
    <3> HIDE DEF iter, Body, sq
    <3> QED
      BY ONLY <1>1, <2>2
<1>7. iter[{}] = 0
  <2>1. iter[{}] = Body(iter, {})
    <3> HIDE DEF iter, Body
    <3> QED
      BY <1>6
  <2>2. QED
    <3> HIDE DEF iter
    <3> QED
      BY <2>1
<1>8. ASSUME NEW k \in 1 .. N PROVE iter[1 .. k] = iter[1 .. k - 1] + t[k] * strides[k]
  <2>1. iter[1 .. k] = Body(iter, 1 .. k)
    <3> HIDE DEF iter, Body
    <3> QED
      BY <1>6, UpTo
  <2>2. Max(1 .. k) = k /\ (1 .. k) \ {k} = 1 .. k - 1 /\ 1 .. k # {} /\ sq[k] = k
    <3>1. sq[k] = k
      BY <1>1
    <3> HIDE DEF sq
    <3> QED
      BY ONLY <3>1, N \in Nat, k \in 1 .. N, UpTo
  <2>3. QED
    <3> HIDE DEF iter, sq
    <3> QED
      BY ONLY <2>1, <2>2
<1> DEFINE g == [k \in 0 .. N |-> iter[1 .. k]]
<1>9. g[0] = 0 /\ g[N] = Shift(strides, t)
  <2>1. 1 .. 0 = {} /\ 0 \in 0 .. N /\ N \in 0 .. N
    OBVIOUS
  <2> HIDE DEF iter, sq
  <2>2. QED
    BY <1>1, <1>2, <1>7, <2>1
<1>10. ASSUME NEW k \in 1 .. N PROVE g[k] = g[k - 1] + t[k] * strides[k]
  <2>1. k - 1 \in 0 .. N /\ k \in 0 .. N
    OBVIOUS
  <2>2. g[k - 1] = iter[1 .. k - 1] /\ g[k] = iter[1 .. k]
    <3> HIDE DEF iter
    <3> QED
      BY <2>1
  <2> HIDE DEF iter, g
  <2>3. QED
    BY ONLY <1>8, <2>2, k \in 1 .. N
<1>11. QED
  <2> HIDE DEF g
  <2> QED
    BY <1>9, <1>10 DEF ShiftsBy

\* The cursors that c[i][j]... goes through.
CursorDescends(g, c, i, N) ==
  /\ g[0] = c /\ g[N] = CursorWithin(c, i)
  /\ \A k \in 1 .. N : g[k] = CursorAt(g[k - 1], i[k])

LEMMA CursorSteps ==
  ASSUME NEW N \in Nat, NEW c, NEW i, DOMAIN i = 1 .. N
  PROVE  \E g : CursorDescends(g, c, i, N)
<1> DEFINE Body(f, s) == IF s = {} THEN c ELSE CursorAt(f[s \ {Max(s)}], i[Max(s)])
           iter == CHOOSE f : f = [s \in SUBSET DOMAIN i |-> Body(f, s)]
           T == {m \in Nat : \E F : F = [s \in SUBSET (1 .. m) |-> Body(F, s)]}
<1>1. DOMAIN i = 1 .. N
  OBVIOUS
<1>2. CursorWithin(c, i) = iter[DOMAIN i]
  BY DEF CursorWithin, FoldLeft, MapThenFoldSet
<1>3. 0 \in T
  <2> DEFINE F == [s \in SUBSET (1 .. 0) |-> c]
  <2>1. \A s \in SUBSET (1 .. 0) : s = {}
    OBVIOUS
  <2>2. \A s \in SUBSET (1 .. 0) : F[s] = Body(F, s)
    BY <2>1
  <2>3. F = [s \in SUBSET (1 .. 0) |-> Body(F, s)]
    <3> HIDE DEF Body
    <3> QED
      BY <2>2
  <2>4. QED
    <3> HIDE DEF F, Body
    <3> QED
      BY <2>3
<1>4. ASSUME NEW m \in Nat, m \in T PROVE m + 1 \in T
  <2>1. PICK F : F = [s \in SUBSET (1 .. m) |-> Body(F, s)]
    <3> HIDE DEF Body
    <3> QED
      BY <1>4
  <2> DEFINE G == [s \in SUBSET (1 .. m + 1) |->
                     IF m + 1 \in s THEN CursorAt(F[s \ {m + 1}], i[m + 1]) ELSE F[s]]
  <2>2. ASSUME NEW s \in SUBSET (1 .. m + 1) PROVE G[s] = Body(G, s)
    <3>1. CASE m + 1 \in s
      <4>1. Max(s) = m + 1 /\ s # {}
        <5>1. s \subseteq Int /\ \A y \in s : y <= m + 1
          OBVIOUS
        <5>2. QED
          BY ONLY <3>1, <5>1, MaxOf
      <4>2. m + 1 \notin s \ {m + 1} /\ s \ {m + 1} \in SUBSET (1 .. m + 1)
        OBVIOUS
      <4>3. G[s \ {m + 1}] = F[s \ {m + 1}]
        BY <4>2
      <4>4. G[s] = CursorAt(F[s \ {m + 1}], i[m + 1])
        BY <3>1
      <4>5. QED
        <5> HIDE DEF G
        <5> QED
          BY ONLY <4>1, <4>3, <4>4
    <3>2. CASE m + 1 \notin s
      <4>1. s \in SUBSET (1 .. m)
        BY <3>2
      <4>2. F[s] = Body(F, s)
        <5> HIDE DEF Body
        <5> QED
          BY <2>1, <4>1
      <4>3. G[s] = F[s] /\ G[s \ {Max(s)}] = F[s \ {Max(s)}]
        BY <3>2
      <4>4. QED
        <5> HIDE DEF G
        <5> QED
          BY ONLY <4>2, <4>3
    <3>3. QED
      BY <3>1, <3>2
  <2>3. G = [s \in SUBSET (1 .. m + 1) |-> Body(G, s)]
    <3> HIDE DEF Body
    <3> QED
      BY <2>2
  <2>4. QED
    <3> HIDE DEF G, Body
    <3> QED
      BY <2>3
<1>5. N \in T
  <2> HIDE DEF T
  <2>1. QED
    BY <1>3, <1>4, Induct
<1>6. iter = [s \in SUBSET (1 .. N) |-> Body(iter, s)]
  <2>1. \E f : f = [s \in SUBSET DOMAIN i |-> Body(f, s)]
    <3> HIDE DEF Body
    <3> QED
      BY <1>1, <1>5
  <2>2. iter = [s \in SUBSET DOMAIN i |-> Body(iter, s)]
    <3> HIDE DEF Body
    <3> QED
      BY ONLY <2>1
  <2>3. QED
    <3> HIDE DEF iter, Body
    <3> QED
      BY ONLY <1>1, <2>2
<1>7. iter[{}] = c
  <2>1. iter[{}] = Body(iter, {})
    <3> HIDE DEF iter, Body
    <3> QED
      BY <1>6
  <2>2. QED
    <3> HIDE DEF iter
    <3> QED
      BY <2>1
<1>8. ASSUME NEW k \in 1 .. N PROVE iter[1 .. k] = CursorAt(iter[1 .. k - 1], i[k])
  <2>1. iter[1 .. k] = Body(iter, 1 .. k)
    <3> HIDE DEF iter, Body
    <3> QED
      BY <1>6, UpTo
  <2>2. Max(1 .. k) = k /\ (1 .. k) \ {k} = 1 .. k - 1 /\ 1 .. k # {}
    BY ONLY N \in Nat, k \in 1 .. N, UpTo
  <2>3. QED
    <3> HIDE DEF iter
    <3> QED
      BY ONLY <2>1, <2>2
<1> DEFINE g == [k \in 0 .. N |-> iter[1 .. k]]
<1>9. g[0] = c /\ g[N] = CursorWithin(c, i)
  <2>1. 1 .. 0 = {} /\ 0 \in 0 .. N /\ N \in 0 .. N
    OBVIOUS
  <2> HIDE DEF iter
  <2>2. QED
    BY <1>1, <1>2, <1>7, <2>1
<1>10. ASSUME NEW k \in 1 .. N PROVE g[k] = CursorAt(g[k - 1], i[k])
  <2>1. k - 1 \in 0 .. N /\ k \in 0 .. N
    OBVIOUS
  <2>2. g[k - 1] = iter[1 .. k - 1] /\ g[k] = iter[1 .. k]
    <3> HIDE DEF iter
    <3> QED
      BY <2>1
  <2> HIDE DEF iter, g
  <2>3. QED
    BY ONLY <1>8, <2>2, k \in 1 .. N
<1>11. QED
  <2> HIDE DEF g
  <2> QED
    BY <1>9, <1>10 DEF CursorDescends


\* Whole numbers in N dimensions.
Numbers(N) == [1 .. N -> Int]

\* What is added so far.
Sums(h, strides, t, N) ==
    /\ h \in [0 .. N -> Int] /\ h[0] = 0 /\ h[N] = Shift(strides, t)
    /\ \A k \in 1 .. N : h[k] = h[k - 1] + t[k] * strides[k]

LEMMA ShiftSums ==
    ASSUME NEW N \in Nat, NEW strides \in Numbers(N), NEW t \in Numbers(N)
    PROVE  \E h : Sums(h, strides, t, N)
<1>1. DOMAIN t = 1 .. N
    BY DEF Numbers
<1>2. PICK g : ShiftsBy(g, strides, t, N)
    BY ONLY <1>1, N \in Nat, ShiftSteps
<1>3. g[0] = 0 /\ g[N] = Shift(strides, t) /\ \A k \in 1 .. N : g[k] = g[k - 1] + t[k] * strides[k]
    BY ONLY <1>2 DEF ShiftsBy
<1> DEFINE T == {m \in Nat : m <= N => g[m] \in Int}
<1>4. 0 \in T
    BY <1>3
<1>5. ASSUME NEW m \in Nat, m \in T PROVE m + 1 \in T
    <2> SUFFICES ASSUME m + 1 <= N PROVE g[m + 1] \in Int
        OBVIOUS
    <2>1. m + 1 \in 1 .. N /\ m + 1 - 1 = m /\ g[m] \in Int
        BY <1>5
    <2>2. g[m + 1] = g[m] + t[m + 1] * strides[m + 1]
        BY ONLY <1>3, <2>1
    <2>3. t[m + 1] \in Int /\ strides[m + 1] \in Int
        BY <2>1 DEF Numbers
    <2>4. QED
        BY ONLY <2>1, <2>2, <2>3
<1>6. \A m \in Nat : m \in T
    <2> HIDE DEF T
    <2> QED
        BY <1>4, <1>5, Induct
<1> DEFINE h == [k \in 0 .. N |-> g[k]]
<1>7. h \in [0 .. N -> Int]
    BY <1>6
<1>8. h[0] = 0 /\ h[N] = Shift(strides, t)
    BY <1>3
<1>9. \A k \in 1 .. N : h[k] = h[k - 1] + t[k] * strides[k]
    <2>1. ASSUME NEW k \in 1 .. N PROVE h[k] = h[k - 1] + t[k] * strides[k]
        <3>1. h[k] = g[k] /\ h[k - 1] = g[k - 1]
            OBVIOUS
        <3>2. QED
            BY ONLY <1>3, <3>1, k \in 1 .. N
    <2>2. QED
        BY <2>1
<1>10. QED
    <2> HIDE DEF h
    <2> QED
        BY ONLY <1>7, <1>8, <1>9 DEF Sums

\* Two moves are one: the products of the sum are the sums of the products.
Together(p, t, N) == [k \in 1 .. N |-> p[k] + t[k]]

LEMMA ShiftAdds ==
    ASSUME NEW N \in Nat, NEW strides \in Numbers(N), NEW p \in Numbers(N), NEW t \in Numbers(N)
    PROVE  /\ Shift(strides, Together(p, t, N)) = Shift(strides, p) + Shift(strides, t)
           /\ Shift(strides, p) \in Int /\ Shift(strides, t) \in Int
           /\ Together(p, t, N) \in Numbers(N)
<1> PICK r : r = Together(p, t, N)
    OBVIOUS
<1>1. r \in Numbers(N) /\ \A k \in 1 .. N : r[k] = p[k] + t[k] /\ p[k] \in Int /\ t[k] \in Int /\ strides[k] \in Int
    BY DEF Numbers, Together
<1>2. PICK f : Sums(f, strides, p, N)
    BY ONLY N \in Nat, strides \in Numbers(N), p \in Numbers(N), ShiftSums
<1>3. PICK g : Sums(g, strides, t, N)
    BY ONLY N \in Nat, strides \in Numbers(N), t \in Numbers(N), ShiftSums
<1>4. PICK h : Sums(h, strides, r, N)
    BY ONLY N \in Nat, strides \in Numbers(N), <1>1, ShiftSums
<1> DEFINE T == {m \in Nat : m <= N => h[m] = f[m] + g[m]}
<1>5. 0 \in T
    BY <1>2, <1>3, <1>4 DEF Sums
<1>6. ASSUME NEW m \in Nat, m \in T PROVE m + 1 \in T
    <2> SUFFICES ASSUME m + 1 <= N PROVE h[m + 1] = f[m + 1] + g[m + 1]
        OBVIOUS
    <2> PICK k \in 1 .. N : k = m + 1 /\ k - 1 = m
        OBVIOUS
    <2>1. h[k - 1] = f[k - 1] + g[k - 1]
        BY <1>6
    <2>2. f[k] = f[k - 1] + p[k] * strides[k]
        BY ONLY <1>2, k \in 1 .. N DEF Sums
    <2>3. g[k] = g[k - 1] + t[k] * strides[k]
        BY ONLY <1>3, k \in 1 .. N DEF Sums
    <2>4. h[k] = h[k - 1] + r[k] * strides[k]
        BY ONLY <1>4, k \in 1 .. N DEF Sums
    <2>5. f[k - 1] \in Int /\ g[k - 1] \in Int
        <3>1. k - 1 \in 0 .. N
            OBVIOUS
        <3>2. QED
            BY ONLY <1>2, <1>3, <3>1 DEF Sums
    <2>6. r[k] = p[k] + t[k] /\ p[k] \in Int /\ t[k] \in Int /\ strides[k] \in Int
        BY ONLY <1>1, k \in 1 .. N
    <2>7. r[k] * strides[k] = p[k] * strides[k] + t[k] * strides[k]
        BY ONLY <2>6
    <2>8. h[k] = f[k] + g[k]
        BY ONLY <2>1, <2>2, <2>3, <2>4, <2>5, <2>6, <2>7
    <2>9. QED
        BY ONLY <2>8, k = m + 1
<1>7. N \in T
    <2> HIDE DEF T
    <2> QED
        BY <1>5, <1>6, Induct
<1>8. h[N] = f[N] + g[N] /\ N \in 0 .. N
    BY <1>7
<1>9. h[N] = Shift(strides, r) /\ f[N] = Shift(strides, p) /\ g[N] = Shift(strides, t)
    BY ONLY <1>2, <1>3, <1>4 DEF Sums
<1>10. f[N] \in Int /\ g[N] \in Int
    BY ONLY <1>2, <1>3, <1>8 DEF Sums
<1>11. QED
    BY ONLY <1>1, <1>8, <1>9, <1>10, r = Together(p, t, N)

--------------------------------------------------------------------------------
(* The inductive invariant.                                                   *)

LEMMA CursorStrides ==
    ASSUME NEW s \in Sources
    PROVE  StridesOf(s.view.dims) \in Numbers(Len(s.view.dims)) /\ Len(s.view.dims) \in Nat
<1>1. DOMAIN s.view.dims = 1 .. Len(s.view.dims) /\ Len(s.view.dims) \in Nat
    BY SourceDims
<1>2. \A k \in 1 .. Len(s.view.dims) : s.view.dims[k].stride \in Int
    BY SourceSteps
<1>3. QED
    BY <1>1, <1>2 DEF StridesOf, Numbers

\* The walker of one dimension is at a position of one number.
LEMMA PlacedStanding ==
    ASSUME NEW s \in Sources, s.kind # "cursor", NEW n \in Int
    PROVE  Placed(s, Standing(s, n), <<n>>)
BY DEF Placed, Moves

LEMMA StartPlaced ==
    ASSUME NEW s \in Sources
    PROVE  Placed(s, Made(s), [k \in 1 .. Moves(s) |-> 0])
<1>1. CASE s.kind # "cursor"
    <2>1. Placed(s, Standing(s, 0), <<0>>)
        BY <1>1, PlacedStanding
    <2>2. Standing(s, 0) = Made(s)
        <3>1. s.kind \in {"rows", "elements", "pointer", "indices"}
            BY <1>1, SourceDims DEF Kinds
        <3> PICK b \in Int : b = Made(s).base /\ b + StepOf(Made(s)) * 0 = b
            BY <1>1, MadeType
        <3>2. Standing(s, 0) = [Made(s) EXCEPT !.base = b]
            BY DEF Standing
        <3>3. QED
            BY <3>1, <3>2 DEF Made, Rows, RowIterator, Elements, ElementIterator, Pointer, AddressOf, IndexOf
    <2>3. [k \in 1 .. Moves(s) |-> 0] = <<0>>
        BY <1>1 DEF Moves
    <2>4. QED
        BY <2>1, <2>2, <2>3
<1>2. CASE s.kind = "cursor"
    <2> PICK N \in Nat : N = Len(s.view.dims)
        BY CursorStrides
    <2> PICK z, strides : z = [k \in 1 .. N |-> 0] /\ strides = StridesOf(s.view.dims)
        OBVIOUS
    <2>1. z \in Numbers(N) /\ strides \in Numbers(N) /\ Together(z, z, N) = z
        BY CursorStrides DEF Numbers, Together
    <2>2. Shift(strides, z) = Shift(strides, z) + Shift(strides, z) /\ Shift(strides, z) \in Int
        BY ONLY <2>1, N \in Nat, ShiftAdds
    <2>3. Shift(strides, z) = 0
        <3> PICK q \in Int : q = Shift(strides, z) /\ q = q + q
            BY ONLY <2>2
        <3>1. q = 0
            BY ONLY q \in Int, q = q + q
        <3>2. QED
            BY ONLY <3>1, q = Shift(strides, z)
    <2>4. CursorFrom(s, z) = Made(s)
        <3>1. s.view.base + 0 = s.view.base
            BY SourceDims
        <3>2. QED
            BY <1>2, <2>3, <3>1 DEF CursorFrom, Made, Cursor
    <2>5. Moves(s) = N
        BY <1>2 DEF Moves
    <2>6. QED
        BY ONLY <1>2, <2>1, <2>4, <2>5, z = [k \in 1 .. N |-> 0] DEF Placed, Numbers
<1>3. QED
    BY <1>1, <1>2

LEMMA InitPlaced == Init => IInv
<1> SUFFICES ASSUME Init PROVE IInv
    OBVIOUS
<1>1. over \in [Walker -> Sources]
    BY DEF Init
<1>2. DOMAIN it = Walker /\ DOMAIN position = Walker
    BY DEF Init
<1>3. ASSUME NEW w \in Walker PROVE Placed(over[w], it[w], position[w])
    <2>1. it[w] = Made(over[w]) /\ position[w] = [k \in 1 .. Moves(over[w]) |-> 0] /\ over[w] \in Sources
        BY <1>1 DEF Init
    <2>2. QED
        BY ONLY <2>1, StartPlaced
<1>4. QED
    BY <1>1, <1>2, <1>3 DEF IInv

LEMMA GoesPlaced ==
    ASSUME IInv, NEW w \in Walker, NEW x, NEW p, Goes(w, x, p), Placed(over[w], x, p)
    PROVE  IInv'
<1>1. it' = [it EXCEPT ![w] = x] /\ position' = [position EXCEPT ![w] = p] /\ over' = over
    BY DEF Goes
<1>2. QED
    BY <1>1 DEF IInv

\* A copy, or what replaces it.
LEMMA CopyPlaced ==
    ASSUME IInv, NEW u \in Walker, NEW x, NEW p, NEW s \in Sources, Placed(s, x, p),
           it' = [it EXCEPT ![u] = x], position' = [position EXCEPT ![u] = p], over' = [over EXCEPT ![u] = s]
    PROVE  IInv'
BY DEF IInv

LEMMA StepPlaced ==
    ASSUME IInv, NEW w \in Walker, over[w].kind # "cursor", NEW n \in Int
    PROVE  Placed(over[w], Advanced(it[w], n), By(w, n))
<1> PICK s \in Sources : s = over[w] /\ s.kind # "cursor"
    BY DEF IInv
<1>1. Placed(s, it[w], position[w])
    BY DEF IInv
<1>2. position[w][1] \in Int /\ it[w] = Standing(s, position[w][1])
    BY <1>1 DEF Placed, Moves
<1> PICK p \in Int, m \in Int : p = position[w][1] /\ m = p + n
    BY <1>2
<1>3. Advanced(it[w], n) = Standing(s, m)
    BY <1>2, AdvancedStanding
<1>4. By(w, n) = <<m>>
    BY DEF By
<1>5. Placed(s, Standing(s, m), <<m>>)
    BY PlacedStanding
<1>6. QED
    BY <1>3, <1>4, <1>5

LEMMA EndPlaced ==
    ASSUME IInv, NEW w \in Walker, End(w)
    PROVE  IInv'
<1> PICK s \in Sources : s = over[w]
    BY DEF IInv
<1> PICK top : top = s.view.dims[1]
    OBVIOUS
<1>1. s.kind \in {"rows", "elements", "indices"} /\ s.kind # "cursor"
    BY DEF End
<1>2. PICK f \in Int, n \in Nat : HasSteps(top, f, n)
    <2>1. 1 \in 1 .. Len(s.view.dims)
        BY SourceDims
    <2>2. QED
        BY ONLY <2>1, s \in Sources, top = s.view.dims[1], SourceSteps
<1>3. Size(top) = n /\ top.nelems = top.stride * n /\ Extension(top)[2] = Extension(top)[1] + n
    BY ONLY <1>2, f \in Int, n \in Nat DEF HasSteps
<1> PICK x : x = IF s.kind = "indices" THEN [Made(s) EXCEPT !.base = Extension(top)[2]]
                 ELSE [Made(s) EXCEPT !.base = @ + top.nelems]
    OBVIOUS
<1>4. Goes(w, x, <<n>>)
    BY <1>3 DEF End
<1>5. x = Standing(s, n)
    <2>1. CASE s.kind = "indices"
        <3>1. StepOf(Made(s)) * n = n
            BY <2>1, MadeType
        <3>2. Made(s).base = Extension(top)[1]
            BY <2>1 DEF Made, IndexOf
        <3>3. QED
            BY ONLY <1>3, <2>1, <3>1, <3>2,
                    x = IF s.kind = "indices" THEN [Made(s) EXCEPT !.base = Extension(top)[2]]
                        ELSE [Made(s) EXCEPT !.base = @ + top.nelems]
            DEF Standing
    <2>2. CASE s.kind # "indices"
        <3>1. StepOf(Made(s)) = top.stride
            BY <1>1, <2>2, MadeType
        <3>2. QED
            BY <1>3, <2>2, <3>1 DEF Standing
    <2>3. QED
        BY <2>1, <2>2
<1>6. Placed(s, Standing(s, n), <<n>>)
    BY <1>1, PlacedStanding, SMTT(30)
<1>7. QED
    BY <1>4, <1>5, <1>6, GoesPlaced

LEMMA FindPlaced ==
    ASSUME IInv, NEW w \in Walker, NEW i \in Int, FindIndex(w, i)
    PROVE  IInv'
<1> PICK s \in Sources : s = over[w]
    BY DEF IInv
<1> PICK top, r : top = s.view.dims[1] /\ r = Extension(top)
    OBVIOUS
<1>1. s.kind = "indices"
    BY DEF FindIndex
<1>2. PICK f \in Int, n \in Nat : HasSteps(top, f, n)
    <2>1. 1 \in 1 .. Len(s.view.dims)
        BY SourceDims
    <2>2. QED
        BY ONLY <2>1, s \in Sources, top = s.view.dims[1], SourceSteps
<1>3. r[1] \in Int /\ r[2] \in Int
    BY ONLY <1>2, f \in Int, n \in Nat, r = Extension(top) DEF HasSteps
<1> PICK m \in Int : m = IF InRange(r, i) THEN i - r[1] ELSE RangeSize(r)
    BY <1>3, SMTT(30) DEF RangeSize
<1>4. Find(r, i) = r[1] + m
    BY <1>3 DEF Find, InRange, RangeSize, Front_
<1>5. Goes(w, [Made(s) EXCEPT !.base = Find(r, i)], <<m>>)
    BY DEF FindIndex
<1>6. Standing(s, m) = [Made(s) EXCEPT !.base = Find(r, i)]
    <2>1. StepOf(Made(s)) * m = m
        BY <1>1, MadeType
    <2>2. Made(s).base = r[1]
        BY <1>1 DEF Made, IndexOf
    <2>3. QED
        BY ONLY <1>4, <2>1, <2>2 DEF Standing
<1>7. Placed(s, Standing(s, m), <<m>>)
    BY <1>1, PlacedStanding
<1>8. QED
    BY <1>5, <1>6, <1>7, GoesPlaced

LEMMA MovePlaced ==
    ASSUME IInv, NEW w \in Walker, NEW t \in Tuples(over[w]), Move(w, t)
    PROVE  IInv'
<1> PICK s \in Sources : s = over[w] /\ s.kind = "cursor"
    BY DEF IInv, Move
<1> PICK N \in Nat : N = Len(s.view.dims)
    BY CursorStrides
<1> PICK strides, p : strides = StridesOf(s.view.dims) /\ p = position[w]
    OBVIOUS
<1>1. Moves(s) = N
    BY DEF Moves
<1>2. t \in Numbers(N)
    BY <1>1, IteratorsAssumption DEF Tuples, Numbers
<1>3. p \in Numbers(N) /\ it[w] = CursorFrom(s, p)
    <2>1. Placed(s, it[w], p)
        BY DEF IInv
    <2>2. QED
        BY <1>1, <2>1 DEF Placed, Numbers
<1>4. strides \in Numbers(N)
    BY CursorStrides
<1> PICK r : r = Together(p, t, N)
    OBVIOUS
<1>5. /\ Shift(strides, r) = Shift(strides, p) + Shift(strides, t)
      /\ Shift(strides, p) \in Int /\ Shift(strides, t) \in Int /\ r \in Numbers(N)
    BY ONLY <1>2, <1>3, <1>4, N \in Nat, r = Together(p, t, N), ShiftAdds
<1>6. Goes(w, CursorAdvanced(it[w], t), r)
    <2>1. [k \in DOMAIN t |-> position[w][k] + t[k]] = r
        BY <1>2 DEF Together, Numbers
    <2>2. QED
        BY <2>1 DEF Move
<1>7. CursorAdvanced(it[w], t) = CursorFrom(s, r)
    <2> PICK b \in Int : b = s.view.base
        BY SourceDims
    <2>1. it[w] = [kind |-> "cursor", base |-> b + Shift(strides, p), strides |-> strides]
        BY <1>3 DEF CursorFrom, Cursor
    <2>2. CursorAdvanced(it[w], t)
            = [kind |-> "cursor", base |-> b + Shift(strides, p) + Shift(strides, t), strides |-> strides]
        BY ONLY <2>1 DEF CursorAdvanced
    <2>3. CursorFrom(s, r) = [kind |-> "cursor", base |-> b + Shift(strides, r), strides |-> strides]
        BY DEF CursorFrom, Cursor
    <2>4. b + Shift(strides, p) + Shift(strides, t) = b + Shift(strides, r)
        BY ONLY <1>5, b \in Int
    <2>5. QED
        BY ONLY <2>2, <2>3, <2>4
<1>8. Placed(s, CursorFrom(s, r), r)
    BY ONLY <1>1, <1>5, s.kind = "cursor" DEF Placed, Numbers
<1>9. QED
    BY <1>6, <1>7, <1>8, GoesPlaced

\* The address of a row is the pointer to it: rows adjoin.
LEMMA AddressPlaced ==
    ASSUME IInv, NEW w \in Walker, NEW u \in Walker, TakeAddress(w, u)
    PROVE  IInv'
<1> PICK o \in Sources : o = over[w] /\ o.kind = "rows"
    BY DEF IInv, TakeAddress
<1>1. PICK s \in Sources :
          /\ s = [o EXCEPT !.kind = "pointer"]
          /\ it' = [it EXCEPT ![u] = AddressOf(RowReferred(it[w]))]
          /\ position' = [position EXCEPT ![u] = position[w]]
          /\ over' = [over EXCEPT ![u] = s]
    BY DEF TakeAddress
<1>2. s.kind = "pointer" /\ s.view = o.view /\ s.kind # "cursor"
    <2>1. o = [kind |-> o.kind, view |-> View(o.view.dims, o.view.base)]
        BY IteratorsAssumption
    <2>2. QED
        BY ONLY <1>1, <2>1
<1>3. PICK k \in Int : position[w] = <<k>> /\ it[w] = Standing(o, k)
    <2>1. Placed(o, it[w], position[w])
        BY DEF IInv
    <2>2. position[w] = <<position[w][1]>> /\ position[w][1] \in Int
        BY <2>1 DEF Placed, Moves
    <2>3. QED
        BY <2>1, <2>2 DEF Placed
<1> PICK d : d = o.view.dims[1]
    OBVIOUS
<1> PICK b \in Int : b = o.view.base
    BY SourceDims
<1>4. PICK f \in Int, n \in Nat : HasSteps(d, f, n)
    <2>1. 1 \in 1 .. Len(o.view.dims)
        BY SourceDims
    <2>2. QED
        BY ONLY <2>1, o \in Sources, d = o.view.dims[1], SourceSteps
<1>5. d.offset = d.stride * f /\ Extension(d)[1] = f
    <2>1. k \in 0 .. Size(d) - 1
        <3>1. Inside(o, position[w])
            BY DEF TakeAddress
        <3>2. Moves(o) = 1 /\ Counts(o)[1] = Size(d)
            BY DEF Moves, Counts
        <3>3. 1 \in DOMAIN position[w] /\ position[w][1] = k
            BY <1>3
        <3>4. QED
            BY ONLY <3>1, <3>2, <3>3 DEF Inside
    <2>2. n # 0
        BY <1>4, <2>1 DEF HasSteps
    <2>3. d.offset = d.stride * f /\ Extension(d) = <<f, f + n>>
        BY ONLY <1>4, <2>2 DEF HasSteps
    <2>4. QED
        BY <2>3
<1> PICK t \in Int : t = d.stride
    <2>1. 1 \in 1 .. Len(o.view.dims)
        BY SourceDims
    <2>2. QED
        BY ONLY <2>1, o \in Sources, d = o.view.dims[1], SourceSteps
<1>6. StepOf(Made(o)) = t /\ StepOf(Made(s)) = t
    BY <1>2, MadeType
<1>7. it[w] = [kind |-> "rows", base |-> b + t * k, sub |-> Tail(o.view.dims), stride |-> t]
    <2>1. Made(o) = [kind |-> "rows", base |-> b, sub |-> Tail(o.view.dims), stride |-> t]
        BY DEF Made, Rows, RowIterator
    <2> PICK m : m = Made(o)
        OBVIOUS
    <2>2. it[w] = [m EXCEPT !.base = m.base + t * k]
        BY ONLY <1>3, <1>6, m = Made(o) DEF Standing
    <2>3. m = [kind |-> "rows", base |-> b, sub |-> Tail(o.view.dims), stride |-> t]
        BY <2>1
    <2>4. QED
        BY ONLY <2>2, <2>3
<1>8. Standing(s, k) = [kind |-> "pointer", base |-> b + t * k, sub |-> Tail(o.view.dims)]
    <2>1. Made(s) = [kind |-> "pointer", base |-> b + (f * t - t * f), sub |-> Tail(o.view.dims)]
        BY ONLY <1>2, <1>5, b = o.view.base, d = o.view.dims[1], t = d.stride
        DEF Made, Pointer, AddressOf, Subscript, View
    <2>2. b + (f * t - t * f) = b
        OBVIOUS
    <2> PICK m : m = Made(s)
        OBVIOUS
    <2>3. Standing(s, k) = [m EXCEPT !.base = m.base + t * k]
        BY ONLY <1>6, m = Made(s) DEF Standing
    <2>4. m = [kind |-> "pointer", base |-> b, sub |-> Tail(o.view.dims)]
        BY <2>1, <2>2
    <2>5. QED
        BY ONLY <2>3, <2>4
<1>9. AddressOf(RowReferred(it[w])) = Standing(s, k)
    BY ONLY <1>7, <1>8 DEF AddressOf, RowReferred, Pointee, View
<1>10. Placed(s, Standing(s, k), <<k>>)
    BY <1>2, PlacedStanding
<1>11. QED
    BY ONLY <1>1, <1>3, <1>9, <1>10, IInv, u \in Walker, CopyPlaced

LEMMA AssignPlaced ==
    ASSUME IInv, NEW w \in Walker, NEW u \in Walker, Assign(w, u)
    PROVE  IInv'
BY DEF Assign, IInv

LEMMA PostPlaced ==
    ASSUME IInv, NEW w \in Walker, NEW u \in Walker, PostIncrement(w, u)
    PROVE  IInv'
<1>1. /\ u # w /\ over[w].kind # "cursor"
      /\ it' = [it EXCEPT ![w] = Advanced(it[w], 1), ![u] = it[w]]
      /\ position' = [position EXCEPT ![w] = By(w, 1), ![u] = position[w]]
      /\ over' = [over EXCEPT ![u] = over[w]]
    BY DEF PostIncrement, StepsEitherWay, Steps
<1> PICK x, p : x = Advanced(it[w], 1) /\ p = By(w, 1)
    OBVIOUS
<1>2. Placed(over[w], x, p)
    BY <1>1, StepPlaced
<1>3. it' = [it EXCEPT ![w] = x, ![u] = it[w]] /\ position' = [position EXCEPT ![w] = p, ![u] = position[w]]
    BY <1>1
<1>4. /\ DOMAIN it' = Walker /\ DOMAIN position' = Walker /\ over' \in [Walker -> Sources]
    BY <1>1, <1>3 DEF IInv
<1>5. ASSUME NEW v \in Walker PROVE Placed(over'[v], it'[v], position'[v])
    <2>1. CASE v = w
        <3>1. it'[v] = x /\ position'[v] = p /\ over'[v] = over[w]
            BY <1>1, <1>3, <2>1 DEF IInv
        <3>2. QED
            BY <1>2, <3>1
    <2>2. CASE v = u
        <3>1. it'[v] = it[w] /\ position'[v] = position[w] /\ over'[v] = over[w]
            BY <1>1, <1>3, <2>2 DEF IInv
        <3>2. QED
            BY <3>1 DEF IInv
    <2>3. CASE v # u /\ v # w
        <3>1. it'[v] = it[v] /\ position'[v] = position[v] /\ over'[v] = over[v]
            BY <1>1, <1>3, <2>3 DEF IInv
        <3>2. QED
            BY <3>1 DEF IInv
    <2>4. QED
        BY <2>1, <2>2, <2>3
<1>6. QED
    BY <1>4, <1>5 DEF IInv

LEMMA NextPlaced == IInv /\ [Next]_vars => IInv'
<1> SUFFICES ASSUME IInv, [Next]_vars PROVE IInv'
    OBVIOUS
<1>1. CASE UNCHANGED vars
    BY <1>1 DEF IInv, vars
<1>2. Strides \subseteq Int
    BY IteratorsAssumption
<1>3. ASSUME NEW w \in Walker, NEW n \in Int, Steps(w), Goes(w, Advanced(it[w], n), By(w, n))
      PROVE  IInv'
    <2> PICK x, p : x = Advanced(it[w], n) /\ p = By(w, n)
        OBVIOUS
    <2>1. Placed(over[w], x, p)
        BY <1>3, StepPlaced DEF Steps
    <2>2. Goes(w, x, p)
        BY <1>3
    <2>3. QED
        BY ONLY <2>1, <2>2, IInv, w \in Walker, GoesPlaced
<1>4. ASSUME NEW w \in Walker, Increment(w) \/ Decrement(w) PROVE IInv'
    <2>1. 1 \in Int /\ -1 \in Int
        OBVIOUS
    <2>2. CASE Increment(w)
        BY ONLY <1>3, <2>1, <2>2, w \in Walker DEF Increment, StepsEitherWay
    <2>3. CASE Decrement(w)
        BY ONLY <1>3, <2>1, <2>3, w \in Walker DEF Decrement, StepsEitherWay
    <2>4. QED
        BY <1>4, <2>2, <2>3
<1>5. ASSUME NEW w \in Walker, NEW n \in Strides, Add(w, n) \/ Subtract(w, n) PROVE IInv'
    <2>1. n \in Int /\ -n \in Int
        BY <1>2
    <2>2. CASE Add(w, n)
        BY ONLY <1>3, <2>1, <2>2, w \in Walker DEF Add
    <2>3. CASE Subtract(w, n)
        <3> PICK m \in Int : m = -n
            BY <2>1
        <3>1. Steps(w) /\ Goes(w, Advanced(it[w], m), By(w, m))
            BY <2>3 DEF Subtract, StepsEitherWay
        <3>2. QED
            BY ONLY <1>3, <3>1, m \in Int, w \in Walker
    <2>4. QED
        BY <1>5, <2>2, <2>3
<1>6. ASSUME NEW w \in Walker, End(w) PROVE IInv'
    BY <1>6, EndPlaced
<1>7. ASSUME NEW w \in Walker, NEW i \in Strides, FindIndex(w, i) PROVE IInv'
    BY <1>2, <1>7, FindPlaced
<1>8. ASSUME NEW w \in Walker, NEW t \in Tuples(over[w]), Move(w, t) PROVE IInv'
    BY <1>8, MovePlaced
<1>9. ASSUME NEW w \in Walker, NEW u \in Walker, PostIncrement(w, u) \/ Assign(w, u) \/ TakeAddress(w, u)
      PROVE  IInv'
    BY <1>9, PostPlaced, AssignPlaced, AddressPlaced
<1>10. QED
    BY <1>1, <1>4, <1>5, <1>6, <1>7, <1>8, <1>9 DEF Next

LEMMA AlwaysPlaced == Spec => []IInv
BY InitPlaced, NextPlaced, PTL DEF Spec

--------------------------------------------------------------------------------
(* The invariant implies the property.                                       *)

\* What operator[] finds at a position of a cursor.
LEMMA CursorPart ==
    ASSUME NEW s \in Sources, s.kind = "cursor",
           NEW p \in Numbers(Len(s.view.dims)), Inside(s, p)
    PROVE  Part(s, p) = View(<<>>, s.view.base + Shift(StridesOf(s.view.dims), p))
<1> PICK v : v = s.view
    OBVIOUS
<1> PICK N \in Nat : N = Len(v.dims)
    BY SourceDims
<1> PICK b \in Int : b = v.base
    BY SourceDims
<1> PICK strides \in Numbers(N) : strides = StridesOf(v.dims)
    BY CursorStrides
<1>1. v.dims \in Seq(Dimensions) /\ N >= 1 /\ DOMAIN v.dims = 1 .. N /\ p \in Numbers(N) /\ DOMAIN p = 1 .. N
    BY SourceDims DEF Numbers
<1> PICK i : i = [k \in DOMAIN p |-> Extension(v.dims[k])[1] + p[k]]
    OBVIOUS
<1>2. ASSUME NEW k \in 1 .. N
      PROVE  /\ i[k] \in Int /\ strides[k] \in Int /\ strides[k] = v.dims[k].stride /\ p[k] \in Int
             /\ i[k] * v.dims[k].stride - v.dims[k].offset = p[k] * strides[k]
    <2> PICK d : d = v.dims[k]
        OBVIOUS
    <2>1. d.stride \in Int /\ \E f \in Int, n \in Nat : HasSteps(d, f, n)
        BY ONLY k \in 1 .. N, s \in Sources, v = s.view, N = Len(v.dims), d = v.dims[k], SourceSteps
    <2>2. PICK f \in Int, n \in Nat : HasSteps(d, f, n)
        BY <2>1
    <2>3. p[k] \in 0 .. Size(d) - 1
        <3>1. Moves(s) = N
            BY DEF Moves
        <3>2. Counts(s)[k] = Size(d)
            BY ONLY <3>1, k \in 1 .. N, d = v.dims[k], v = s.view DEF Counts
        <3>3. QED
            BY ONLY <1>1, <3>2, k \in 1 .. N, Inside(s, p) DEF Inside
    <2>4. d.offset = d.stride * f /\ Extension(d) = <<f, f + n>>
        BY ONLY <2>2, <2>3, n \in Nat DEF HasSteps
    <2>5. i[k] = f + p[k]
        BY ONLY <1>1, <2>4, k \in 1 .. N, d = v.dims[k], i = [j \in DOMAIN p |-> Extension(v.dims[j])[1] + p[j]]
    <2>6. strides[k] = d.stride
        BY ONLY <1>1, k \in 1 .. N, d = v.dims[k], strides = StridesOf(v.dims) DEF StridesOf
    <2> PICK t \in Int, x \in Int : t = d.stride /\ x = p[k]
        <3>1. d.stride \in Int /\ p[k] \in Int
            BY ONLY <1>1, <2>1, k \in 1 .. N DEF Numbers
        <3>2. QED
            BY ONLY <3>1
    <2>7. (f + x) * t - t * f = x * t
        BY ONLY f \in Int, x \in Int, t \in Int, SMTT(30)
    <2>8. QED
        <3>1. i[k] = f + x /\ strides[k] = t /\ v.dims[k].stride = t /\ v.dims[k].offset = t * f /\ p[k] = x
            BY ONLY <2>4, <2>5, <2>6, t = d.stride, x = p[k], d = v.dims[k]
        <3>2. QED
            BY ONLY <2>7, <3>1, t \in Int, x \in Int, f \in Int
<1>3. CanDescend(v, i, N) /\ DOMAIN i = 1 .. N
    <2>1. \A k \in 1 .. N : i[k] \in Int
        BY ONLY <1>2
    <2>2. DOMAIN i = 1 .. N
        BY ONLY <1>1, i = [k \in DOMAIN p |-> Extension(v.dims[k])[1] + p[k]]
    <2>3. QED
        BY ONLY <1>1, <2>1, <2>2, N = Len(v.dims), N \in Nat, b \in Int, b = v.base DEF CanDescend
<1>4. PICK h : Moves_(h, v, i, N)
    BY ONLY <1>3, N \in Nat, WithinSteps
<1>5. /\ Within(v, i) = View(Within(v, i).dims, Within(v, i).base)
      /\ Within(v, i).dims \in Seq(Dimensions) /\ Len(Within(v, i).dims) = Len(v.dims) - N
    BY ONLY <1>1, <1>3, N \in Nat, WithinSteps
<1>6. Within(v, i).dims = <<>>
    <2>1. Len(Within(v, i).dims) = 0
        BY <1>5
    <2>2. QED
        BY ONLY <1>5, <2>1, NoneIn
<1>7. PICK g : Sums(g, strides, p, N)
    BY ONLY <1>1, N \in Nat, strides \in Numbers(N), ShiftSums
<1> DEFINE T == {m \in Nat : m <= N => h[m] = b + g[m]}
<1>8. 0 \in T
    BY <1>4, <1>7 DEF Sums, Moves_
<1>9. ASSUME NEW m \in Nat, m \in T PROVE m + 1 \in T
    <2> SUFFICES ASSUME m + 1 <= N PROVE h[m + 1] = b + g[m + 1]
        OBVIOUS
    <2> PICK k \in 1 .. N : k = m + 1 /\ k - 1 = m
        OBVIOUS
    <2>1. h[k - 1] = b + g[k - 1]
        BY <1>9
    <2>2. h[k] = h[k - 1] + (i[k] * v.dims[k].stride - v.dims[k].offset)
        BY ONLY <1>4, k \in 1 .. N DEF Moves_
    <2>3. g[k] = g[k - 1] + p[k] * strides[k]
        BY ONLY <1>7, k \in 1 .. N DEF Sums
    <2>4. g[k - 1] \in Int
        <3>1. k - 1 \in 0 .. N
            OBVIOUS
        <3>2. QED
            BY ONLY <1>7, <3>1 DEF Sums
    <2>5. PICK z \in Int : z = p[k] * strides[k]
        <3>1. p[k] \in Int /\ strides[k] \in Int
            BY ONLY <1>2, k \in 1 .. N
        <3>2. QED
            BY ONLY <3>1
    <2>6. h[k] = h[k - 1] + z /\ g[k] = g[k - 1] + z
        BY ONLY <1>2, <2>2, <2>3, <2>5, k \in 1 .. N
    <2>7. QED
        BY ONLY <2>1, <2>4, <2>6, z \in Int, b \in Int, k = m + 1
<1>10. N \in T
    <2> HIDE DEF T
    <2> QED
        BY <1>8, <1>9, Induct
<1>11. Within(v, i).base = b + Shift(strides, p)
    <2>1. h[N] = b + g[N]
        BY <1>10
    <2>2. QED
        BY ONLY <1>4, <1>7, <2>1 DEF Sums, Moves_
<1>12. Part(s, p) = Within(v, i)
    BY ONLY s.kind = "cursor", v = s.view, i = [k \in DOMAIN p |-> Extension(v.dims[k])[1] + p[k]] DEF Part
<1>13. QED
    BY ONLY <1>5, <1>6, <1>11, <1>12, v = s.view, b = v.base, strides = StridesOf(v.dims)

\* A cursor by its members; cursor[x].
CursorOf(b, strides) == [kind |-> "cursor", base |-> b, strides |-> strides]

LEMMA CursorNext ==
    ASSUME NEW q, NEW y, NEW x, NEW a, a = CursorOf(y, q)
    PROVE  CursorAt(a, x) = CursorOf(y + Head(q) * x, Tail(q))
<1> PICK w, r : w = y + Head(q) * x /\ r = Tail(q)
    OBVIOUS
<1>1. CursorAt(a, x) = [a EXCEPT !.base = w, !.strides = r]
    BY DEF CursorAt, CursorOf
<1> PICK b : b = [a EXCEPT !.base = w]
    OBVIOUS
<1>2. b = [kind |-> "cursor", base |-> w, strides |-> q]
    BY DEF CursorOf
<1> PICK c : c = [b EXCEPT !.strides = r]
    OBVIOUS
<1>3. DOMAIN c = {"kind", "base", "strides"} /\ c.kind = "cursor" /\ c.base = w /\ c.strides = r
    BY ONLY <1>2, c = [b EXCEPT !.strides = r]
<1>4. c = [k \in {"kind", "base", "strides"} |-> c[k]]
    BY ONLY <1>2, <1>3, c = [b EXCEPT !.strides = r]
<1>5. c = CursorOf(w, r)
    BY ONLY <1>3, <1>4 DEF CursorOf
<1>6. CursorAt(a, x) = c
    BY ONLY <1>1, b = [a EXCEPT !.base = w], c = [b EXCEPT !.strides = r]
<1>7. QED
    BY ONLY <1>5, <1>6, w = y + Head(q) * x, r = Tail(q)

\* cursor[i][j]... goes as far as cursor += (i, j, ...).
LEMMA CursorGoes ==
    ASSUME NEW N \in Nat, NEW strides \in Numbers(N), NEW b \in Int, NEW t \in Numbers(N),
           NEW c, c = [kind |-> "cursor", base |-> b, strides |-> strides]
    PROVE  CursorWithin(c, t).base = b + Shift(strides, t)
<1>1. DOMAIN t = 1 .. N
    BY DEF Numbers
<1>2. PICK g : CursorDescends(g, c, t, N)
    BY ONLY <1>1, N \in Nat, CursorSteps
<1>3. g[0] = c /\ g[N] = CursorWithin(c, t) /\ \A k \in 1 .. N : g[k] = CursorAt(g[k - 1], t[k])
    BY ONLY <1>2 DEF CursorDescends
<1>4. PICK h : Sums(h, strides, t, N)
    BY ONLY N \in Nat, strides \in Numbers(N), t \in Numbers(N), ShiftSums
<1> DEFINE Left(q, m) == /\ q \in Seq(Int) /\ Len(q) = N - m
                         /\ \A k \in 1 .. N - m : q[k] = strides[m + k]
           Good(m) == \E q \in Seq(Int) :
                          /\ Left(q, m)
                          /\ g[m] = [kind |-> "cursor", base |-> b + h[m], strides |-> q]
           T == {m \in Nat : m <= N => Good(m)}
<1>5. 0 \in T
    <2>1. strides \in Seq(Int) /\ Len(strides) = N
        BY DEF Numbers
    <2>2. Left(strides, 0)
        BY <2>1
    <2>3. b + h[0] = b
        BY <1>4 DEF Sums
    <2>4. g[0] = [kind |-> "cursor", base |-> b + h[0], strides |-> strides]
        BY ONLY <1>3, <2>3, c = [kind |-> "cursor", base |-> b, strides |-> strides]
    <2> HIDE DEF Left
    <2>5. QED
        BY <2>1, <2>2, <2>4
<1>6. ASSUME NEW m \in Nat, m \in T PROVE m + 1 \in T
    <2> SUFFICES ASSUME m + 1 <= N PROVE Good(m + 1)
        OBVIOUS
    <2> PICK k \in 1 .. N : k = m + 1 /\ k - 1 = m
        OBVIOUS
    <2>1. Good(m)
        <3>1. m <= N
            OBVIOUS
        <3> HIDE DEF Good
        <3>2. QED
            BY <1>6, <3>1
    <2>2. PICK q \in Seq(Int) : Left(q, m) /\ g[m] = [kind |-> "cursor", base |-> b + h[m], strides |-> q]
        <3> HIDE DEF Left
        <3> QED
            BY <2>1
    <2>3. g[k] = CursorAt(g[k - 1], t[k])
        BY <1>3
    <2>4. h[k] = h[k - 1] + t[k] * strides[k]
        BY ONLY <1>4, k \in 1 .. N DEF Sums
    <2>5. h[k - 1] \in Int /\ t[k] \in Int /\ strides[k] \in Int
        <3>1. k - 1 \in 0 .. N
            OBVIOUS
        <3>2. QED
            BY ONLY <1>4, <3>1, k \in 1 .. N, strides \in Numbers(N), t \in Numbers(N) DEF Sums, Numbers
    <2>6. Len(q) = N - m /\ q # <<>> /\ q[1] = strides[k]
        <3>1. 1 \in 1 .. N - m /\ Len(q) = N - m
            BY <2>2
        <3>2. QED
            BY <2>2, <3>1
    <2>7. Head(q) = strides[k] /\ Tail(q) \in Seq(Int) /\ Len(Tail(q)) = N - (m + 1)
        BY <2>6
    <2>8. \A l \in 1 .. N - (m + 1) : Tail(q)[l] = strides[m + 1 + l]
        <3>1. ASSUME NEW l \in 1 .. N - (m + 1) PROVE Tail(q)[l] = strides[m + 1 + l]
            <4>1. Tail(q)[l] = q[l + 1]
                BY <2>6
            <4>2. l + 1 \in 1 .. N - m /\ m + (l + 1) = m + 1 + l
                OBVIOUS
            <4>3. q[l + 1] = strides[m + (l + 1)]
                BY <2>2, <4>2
            <4>4. QED
                BY ONLY <4>1, <4>2, <4>3
        <3>2. QED
            BY <3>1
    <2> PICK y, x, z : y = b + h[m] /\ x = t[k] /\ z = strides[k]
        OBVIOUS
    <2> PICK r \in Seq(Int) : r = Tail(q)
        BY <2>7
    <2>9. g[m] = [kind |-> "cursor", base |-> y, strides |-> q]
        BY ONLY <2>2, y = b + h[m]
    <2>10. CursorAt(g[m], x) = [kind |-> "cursor", base |-> y + z * x, strides |-> r]
        <3>1. g[m] = CursorOf(y, q)
            BY ONLY <2>9 DEF CursorOf
        <3>2. CursorAt(g[m], x) = CursorOf(y + Head(q) * x, Tail(q))
            BY ONLY <3>1, CursorNext
        <3>3. QED
            BY ONLY <2>7, <3>2, z = strides[k], r = Tail(q) DEF CursorOf
    <2>11. y + z * x = b + h[m + 1]
        BY ONLY <2>4, <2>5, b \in Int, k = m + 1, k - 1 = m, y = b + h[m], x = t[k], z = strides[k], SMTT(30)
    <2>12. g[m + 1] = [kind |-> "cursor", base |-> b + h[m + 1], strides |-> Tail(q)]
        BY ONLY <2>3, <2>10, <2>11, k = m + 1, k - 1 = m, x = t[k], r = Tail(q)
    <2>13. Left(Tail(q), m + 1)
        BY ONLY <2>7, <2>8
    <2> HIDE DEF Left
    <2>14. QED
        BY ONLY <2>7, <2>12, <2>13
<1>7. N \in T
    <2> HIDE DEF T
    <2> QED
        BY <1>5, <1>6, Induct
<1>8. Good(N)
    <2> HIDE DEF Good
    <2> QED
        BY <1>7
<1>9. g[N].base = b + h[N]
    <2> HIDE DEF Left
    <2> QED
        BY <1>8
<1>10. QED
    BY ONLY <1>3, <1>4, <1>9 DEF Sums

\* The walkers of one dimension: *w and w[k].
LEMMA StepsRefer ==
    ASSUME IInv, NEW w \in Walker, NEW s \in Sources, s = over[w], s.kind # "cursor",
           NEW k \in 0 .. Size(s.view.dims[1]) - 1
    PROVE  Dereferenced(Advanced(it[w], k - position[w][1])) = Part(s, <<k>>)
<1> PICK p \in Int : p = position[w][1] /\ it[w] = Standing(s, p)
    <2>1. Placed(s, it[w], position[w])
        BY DEF IInv
    <2>2. QED
        BY <2>1 DEF Placed, Moves
<1>1. Size(s.view.dims[1]) \in Int
    <2>1. 1 \in 1 .. Len(s.view.dims)
        BY SourceDims
    <2>2. PICK f \in Int, n \in Nat : HasSteps(s.view.dims[1], f, n)
        BY ONLY <2>1, s \in Sources, SourceSteps
    <2>3. QED
        BY ONLY <2>2, n \in Nat DEF HasSteps
<1> PICK q \in Int : q = k
    BY <1>1
<1> PICK n \in Int : n = q - p /\ p + n = q
    OBVIOUS
<1> PICK m \in Int : m = p + n
    OBVIOUS
<1>2. Advanced(Standing(s, p), n) = Standing(s, m) /\ m = q
    BY AdvancedStanding
<1>3. Dereferenced(Standing(s, k)) = Part(s, <<k>>)
    BY StandingRefers
<1>4. QED
    BY <1>2, <1>3

\* *w, where there is something.
LEMMA InsideRefers ==
    ASSUME IInv, NEW w \in Walker, NEW s \in Sources, s = over[w], Inside(s, position[w])
    PROVE  Dereferenced(it[w]) = Part(s, position[w])
<1>1. Placed(s, it[w], position[w])
    BY DEF IInv
<1>2. CASE s.kind # "cursor"
    <2> PICK p \in Int : position[w] = <<p>> /\ it[w] = Standing(s, p)
        <3>1. position[w] = <<position[w][1]>> /\ position[w][1] \in Int
            BY <1>1, <1>2 DEF Placed, Moves
        <3>2. QED
            BY <1>1, <1>2, <3>1 DEF Placed
    <2>1. p \in 0 .. Size(s.view.dims[1]) - 1
        <3>1. 1 \in DOMAIN position[w] /\ position[w][1] = p /\ Counts(s)[1] = Size(s.view.dims[1])
            BY <1>2 DEF Counts, Moves
        <3>2. QED
            BY <3>1 DEF Inside
    <2>2. QED
        BY <1>2, <2>1, StandingRefers
<1>3. CASE s.kind = "cursor"
    <2> PICK p : p = position[w]
        OBVIOUS
    <2>1. p \in Numbers(Len(s.view.dims)) /\ it[w] = CursorFrom(s, p)
        BY <1>1, <1>3 DEF Placed, Moves, Numbers
    <2>2. Part(s, p) = View(<<>>, s.view.base + Shift(StridesOf(s.view.dims), p))
        BY <1>3, <2>1, CursorPart
    <2>3. it[w].kind = "cursor" /\ it[w].base = s.view.base + Shift(StridesOf(s.view.dims), p)
        BY <2>1 DEF CursorFrom, Cursor
    <2>4. Dereferenced(it[w]) = View(<<>>, it[w].base)
        BY ONLY <2>3 DEF Dereferenced, CursorReferred
    <2>5. QED
        BY ONLY <2>2, <2>3, <2>4, p = position[w]
<1>4. QED
    BY <1>2, <1>3

\* cursor[i][j]...
LEMMA CursorRefers ==
    ASSUME IInv, NEW w \in Walker, NEW s \in Sources, s = over[w], s.kind = "cursor",
           NEW q \in [DOMAIN position[w] -> Int], Inside(s, q)
    PROVE  CursorWithin(it[w], [k \in DOMAIN position[w] |-> q[k] - position[w][k]]).base = Part(s, q).base
<1> PICK N \in Nat : N = Len(s.view.dims)
    BY SourceDims
<1> PICK strides \in Numbers(N) : strides = StridesOf(s.view.dims)
    BY CursorStrides
<1> PICK b \in Int : b = s.view.base
    BY SourceDims
<1>1. position[w] \in Numbers(N) /\ it[w] = CursorFrom(s, position[w])
    BY DEF IInv, Placed, Moves, Numbers
<1> PICK p \in Numbers(N) : p = position[w]
    BY <1>1
<1>2. q \in Numbers(N)
    BY ONLY p \in Numbers(N), p = position[w], q \in [DOMAIN position[w] -> Int] DEF Numbers
<1> PICK t : t = [k \in DOMAIN p |-> q[k] - p[k]]
    OBVIOUS
<1>3. t \in Numbers(N)
    BY ONLY <1>2, p \in Numbers(N), t = [k \in DOMAIN p |-> q[k] - p[k]] DEF Numbers
<1>4. Together(p, t, N) = q
    <2>1. \A k \in 1 .. N : p[k] + t[k] = q[k]
        BY ONLY <1>2, p \in Numbers(N), t = [k \in DOMAIN p |-> q[k] - p[k]] DEF Numbers
    <2>2. q = [k \in 1 .. N |-> q[k]]
        BY ONLY <1>2 DEF Numbers
    <2>3. QED
        BY ONLY <2>1, <2>2 DEF Together
<1>5. /\ Shift(strides, q) = Shift(strides, p) + Shift(strides, t)
      /\ Shift(strides, p) \in Int /\ Shift(strides, t) \in Int
    BY ONLY <1>3, <1>4, N \in Nat, strides \in Numbers(N), p \in Numbers(N), ShiftAdds
<1> PICK o \in Int : o = b + Shift(strides, p)
    BY <1>5
<1> PICK c : c = it[w]
    OBVIOUS
<1>6. c = [kind |-> "cursor", base |-> o, strides |-> strides]
    <2>1. Cursor(s.view) = [kind |-> "cursor", base |-> b, strides |-> strides]
        BY DEF Cursor
    <2>2. c = [Cursor(s.view) EXCEPT !.base = o]
        BY ONLY <1>1, <2>1, c = it[w], p = position[w], o = b + Shift(strides, p), strides = StridesOf(s.view.dims)
        DEF CursorFrom
    <2>3. QED
        BY ONLY <2>1, <2>2
<1>7. CursorWithin(c, t).base = o + Shift(strides, t)
    BY ONLY <1>3, <1>6, N \in Nat, strides \in Numbers(N), o \in Int, CursorGoes
<1>8. Part(s, q).base = b + Shift(strides, q)
    <2>1. Part(s, q) = View(<<>>, b + Shift(strides, q))
        BY ONLY <1>2, s \in Sources, s.kind = "cursor", Inside(s, q), N = Len(s.view.dims),
                b = s.view.base, strides = StridesOf(s.view.dims), CursorPart
    <2>2. QED
        BY ONLY <2>1 DEF View
<1>9. o + Shift(strides, t) = b + Shift(strides, q)
    BY ONLY <1>5, b \in Int, o = b + Shift(strides, p)
<1>10. QED
    BY ONLY <1>7, <1>8, <1>9, c = it[w], t = [k \in DOMAIN p |-> q[k] - p[k]], p = position[w]

\* w(i, j, ...)
LEMMA CalledRefers ==
    ASSUME IInv, NEW w \in Walker, NEW s \in Sources, s = over[w], s.kind = "rows",
           NEW i \in Indices(Extensions(s.view.dims))
    PROVE  Called(it[w], [i EXCEPT ![1] = @ - Extension(s.view.dims[1])[1] - position[w][1]])
             = Within(s.view, i)
<1> PICK v : v = s.view
    OBVIOUS
<1> PICK L \in Nat : L = Len(v.dims) /\ L >= 1
    BY SourceDims
<1> PICK xs : xs = Extensions(v.dims)
    OBVIOUS
<1> PICK N \in Nat : L = N + 1
    <2>1. L - 1 \in Nat /\ L = (L - 1) + 1
        OBVIOUS
    <2>2. QED
        BY <2>1
<1>1. DOMAIN xs = 1 .. L /\ \A k \in 1 .. L : xs[k] = Extension(v.dims[k])
    <2>1. v.dims \in Seq(Dimensions)
        BY SourceDims
    <2>2. DOMAIN v.dims = 1 .. L
        BY ONLY <2>1, L = Len(v.dims)
    <2>3. QED
        BY ONLY <2>2, xs = Extensions(v.dims) DEF Extensions
<1>2. ASSUME NEW k \in 1 .. L PROVE xs[k][1] \in Int /\ xs[k][2] \in Int
    <2> PICK d : d = v.dims[k]
        OBVIOUS
    <2>1. PICK f \in Int, n \in Nat : HasSteps(d, f, n)
        BY ONLY k \in 1 .. L, s \in Sources, v = s.view, L = Len(v.dims), d = v.dims[k], SourceSteps
    <2>2. Extension(d) = <<0, 0>> \/ Extension(d) = <<f, f + n>>
        BY ONLY <2>1 DEF HasSteps
    <2>3. Extension(d)[1] \in Int /\ Extension(d)[2] \in Int
        BY ONLY <2>2, f \in Int, n \in Nat
    <2>4. QED
        BY ONLY <1>1, <2>3, k \in 1 .. L, d = v.dims[k]
<1>3. /\ i \in Seq(Int) /\ DOMAIN i = 1 .. L /\ Len(i) = L
      /\ \A k \in 1 .. L : i[k] \in xs[k][1] .. xs[k][2] - 1
    <2>1. \A k \in 1 .. L : xs[k][1] \in Int /\ xs[k][2] \in Int
        BY ONLY <1>2
    <2>2. i \in Indices(xs)
        BY ONLY i \in Indices(Extensions(s.view.dims)), v = s.view, xs = Extensions(v.dims)
    <2>3. QED
        BY ONLY <1>1, <2>1, <2>2, L \in Nat, IndicesIn
<1> PICK d : d = v.dims[1]
    OBVIOUS
<1>4. PICK f \in Int, n \in Nat : HasSteps(d, f, n)
    <2>1. 1 \in 1 .. Len(s.view.dims)
        BY SourceDims
    <2>2. QED
        BY ONLY <2>1, s \in Sources, v = s.view, d = v.dims[1], SourceSteps
<1>5. 1 \in 1 .. L /\ i[1] \in Int /\ i[1] \in Extension(d)[1] .. Extension(d)[2] - 1
    <2>1. 1 \in 1 .. L
        BY ONLY L \in Nat, L >= 1
    <2>2. xs[1] = Extension(d)
        BY ONLY <1>1, <2>1, d = v.dims[1]
    <2>3. i[1] \in xs[1][1] .. xs[1][2] - 1 /\ i[1] \in Int
        BY ONLY <1>3, <2>1
    <2>4. QED
        BY ONLY <2>1, <2>2, <2>3
<1> PICK x \in Int : x = i[1]
    BY <1>5
<1>6. n # 0 /\ Extension(d) = <<f, f + n>> /\ x \in f .. f + n - 1 /\ Size(d) = n
    <2>1. CASE n = 0
        <3>1. Extension(d) = <<0, 0>>
            BY ONLY <1>4, <2>1 DEF HasSteps
        <3>2. x \in 0 .. 0 - 1
            BY ONLY <1>5, <3>1, x = i[1]
        <3>3. QED
            BY ONLY <3>2
    <2>2. CASE n # 0
        <3>1. Extension(d) = <<f, f + n>> /\ Size(d) = n
            BY ONLY <1>4, <2>2 DEF HasSteps
        <3>2. x \in f .. f + n - 1
            BY ONLY <1>5, <3>1, x = i[1], f \in Int, n \in Nat
        <3>3. QED
            BY ONLY <2>2, <3>1, <3>2
    <2>3. QED
        BY <2>1, <2>2
<1> PICK k \in Int : k = x - f
    OBVIOUS
<1> PICK p \in Int : p = position[w][1]
    <2>1. Placed(s, it[w], position[w])
        BY DEF IInv
    <2>2. QED
        BY <2>1 DEF Placed, Moves
<1>7. k \in 0 .. Size(s.view.dims[1]) - 1
    BY ONLY <1>6, x \in Int, f \in Int, n \in Nat, k = x - f, d = v.dims[1], v = s.view
<1> PICK z \in Int : z = k - p
    OBVIOUS
<1>8. Dereferenced(Advanced(it[w], z)) = Subscript(v, x)
    <2>1. Dereferenced(Advanced(it[w], z)) = Part(s, <<k>>)
        BY <1>7, StepsRefer
    <2>2. Part(s, <<k>>) = Subscript(v, Extension(d)[1] + k)
        BY PartAt
    <2>3. Extension(d)[1] + k = x
        BY ONLY <1>6, k = x - f, x \in Int, f \in Int
    <2>4. QED
        BY ONLY <2>1, <2>2, <2>3
<1>9. RowReferred(Advanced(it[w], z)) = Subscript(v, x)
    <2> PICK o \in Int : it[w] = Standing(s, o)
        BY DEF IInv, Placed, Moves
    <2> PICK m \in Int : m = o + z
        OBVIOUS
    <2>1. Advanced(it[w], z) = Standing(s, m)
        BY AdvancedStanding
    <2>2. Advanced(it[w], z).kind = "rows"
        BY <2>1, StandingSame
    <2>3. QED
        BY ONLY <1>8, <2>2 DEF Dereferenced
<1> PICK t : t = [i EXCEPT ![1] = @ - Extension(s.view.dims[1])[1] - position[w][1]]
    OBVIOUS
<1>10. /\ t = [i EXCEPT ![1] = z]
    <2>1. i[1] - Extension(s.view.dims[1])[1] - position[w][1] = z
        <3>1. Extension(s.view.dims[1])[1] = f
            BY ONLY <1>6, d = v.dims[1], v = s.view
        <3>2. QED
            BY ONLY <3>1, x = i[1], k = x - f, z = k - p, p = position[w][1], x \in Int, f \in Int, p \in Int
    <2>2. QED
        BY ONLY <2>1, t = [i EXCEPT ![1] = @ - Extension(s.view.dims[1])[1] - position[w][1]]
<1>11. /\ t \in Seq(Int) /\ Len(t) = L /\ Head(t) = z /\ t # <<>>
       /\ \A l \in 1 .. L : l # 1 => t[l] = i[l]
    BY ONLY <1>3, <1>5, <1>10, z \in Int, L \in Nat, L >= 1, SMTT(30)
<1> PICK j \in Seq(Int) : j = Tail(t)
    <2>1. Tail(t) \in Seq(Int)
        BY ONLY <1>11
    <2>2. QED
        BY <2>1
<1>12. DOMAIN j = 1 .. N
    BY ONLY <1>11, j = Tail(t), L = N + 1, N \in Nat
<1>13. ASSUME NEW l \in 1 .. N PROVE j[l] = i[l + 1]
    <2>1. l + 1 \in 1 .. L /\ l + 1 # 1
        OBVIOUS
    <2>2. j[l] = t[l + 1]
        BY ONLY <1>11, l \in 1 .. N, j = Tail(t), L = N + 1, N \in Nat
    <2>3. QED
        BY ONLY <1>11, <2>1, <2>2
<1>14. Within(Subscript(v, i[1]), j) = Within(v, i)
    <2>1. \A l \in 1 .. N : j[l] = i[l + 1]
        BY ONLY <1>13
    <2>2. QED
        BY ONLY <1>3, <1>12, <2>1, N \in Nat, L = N + 1, WithinHead, SMTT(30)
<1>15. Called(it[w], t) = Within(Subscript(v, x), j)
    BY ONLY <1>9, <1>11, j = Tail(t) DEF Called
<1>16. QED
    BY ONLY <1>14, <1>15, x = i[1], v = s.view,
            t = [i EXCEPT ![1] = @ - Extension(s.view.dims[1])[1] - position[w][1]]

\* Steps to the end lead to end().
LEMMA EndReached ==
    ASSUME IInv, NEW w \in Walker, NEW s \in Sources, s = over[w], s.kind \in {"rows", "elements"},
           position[w] = Counts(s)
    PROVE  it[w].base = s.view.base + s.view.dims[1].nelems
<1> PICK d : d = s.view.dims[1]
    OBVIOUS
<1>1. PICK f \in Int, n \in Nat : HasSteps(d, f, n)
    <2>1. 1 \in 1 .. Len(s.view.dims)
        BY SourceDims
    <2>2. QED
        BY ONLY <2>1, s \in Sources, d = s.view.dims[1], SourceSteps
<1>2. Size(d) = n /\ d.nelems = d.stride * n
    BY ONLY <1>1 DEF HasSteps
<1>3. it[w] = Standing(s, n)
    <2>1. Counts(s)[1] = n
        BY <1>2 DEF Counts, Moves
    <2>2. QED
        BY <2>1 DEF IInv, Placed
<1>4. it[w].base = Made(s).base + d.stride * n
    BY <1>3, StandingSame, MadeType
<1>5. Made(s).base = s.view.base
    BY DEF Made, Rows, Elements, RowIterator, ElementIterator
<1>6. QED
    BY ONLY <1>2, <1>4, <1>5, d = s.view.dims[1]

\* The indices within the extensions that a cursor counts.
LEMMA CursorIndices ==
    ASSUME NEW s \in Sources, s.kind = "cursor", NEW q \in Indices(FromSizes(Counts(s)))
    PROVE  q \in [1 .. Moves(s) -> Int] /\ Inside(s, q)
<1> PICK N \in Nat : N = Moves(s) /\ N = Len(s.view.dims)
    BY SourceDims DEF Moves
<1> PICK xs : xs = FromSizes(Counts(s))
    OBVIOUS
<1>1. ASSUME NEW k \in 1 .. N PROVE Counts(s)[k] \in Int
    <2>1. PICK f \in Int, n \in Nat : HasSteps(s.view.dims[k], f, n)
        BY ONLY k \in 1 .. N, N = Len(s.view.dims), s \in Sources, SourceSteps
    <2>2. Size(s.view.dims[k]) = n
        BY ONLY <2>1 DEF HasSteps
    <2>3. QED
        BY ONLY <2>2, n \in Nat, N = Moves(s), k \in 1 .. N DEF Counts
<1>2. DOMAIN Counts(s) = 1 .. N
    BY DEF Counts
<1>3. DOMAIN xs = 1 .. N /\ \A k \in 1 .. N : xs[k][1] = 0 /\ xs[k][2] = Counts(s)[k]
    BY ONLY <1>2, xs = FromSizes(Counts(s)) DEF FromSizes
<1>4. \A k \in 1 .. N : xs[k][1] \in Int /\ xs[k][2] \in Int
    BY ONLY <1>1, <1>3
<1>5. q \in Seq(Int) /\ DOMAIN q = 1 .. N /\ \A k \in 1 .. N : q[k] \in xs[k][1] .. xs[k][2] - 1
    BY ONLY <1>3, <1>4, N \in Nat, q \in Indices(FromSizes(Counts(s))), xs = FromSizes(Counts(s)), IndicesIn
<1>6. q \in [1 .. N -> Int]
    BY ONLY <1>5
<1>7. QED
    BY ONLY <1>3, <1>5, <1>6, N = Moves(s) DEF Inside

LEMMA RefersHolds == IInv => RefersToItsElement
<1> SUFFICES ASSUME IInv, NEW w \in Walker, NEW s \in Sources, s = over[w], NEW p, p = position[w]
             PROVE  /\ Inside(s, p) => Dereferenced(it[w]) = Part(s, p)
                    /\ s.kind # "cursor" =>
                           \A k \in 0 .. Counts(s)[1] - 1 :
                               Dereferenced(Advanced(it[w], k - p[1])) = Part(s, <<k>>)
                    /\ s.kind = "cursor" =>
                           \A q \in Indices(FromSizes(Counts(s))) :
                               CursorWithin(it[w], [k \in DOMAIN p |-> q[k] - p[k]]).base = Part(s, q).base
                    /\ s.kind = "rows" =>
                           \A i \in Indices(Extensions(s.view.dims)) :
                               Called(it[w], [i EXCEPT ![1] = @ - Extension(s.view.dims[1])[1] - p[1]]).base
                                 = Address(s.view, i)
                    /\ s.kind \in {"rows", "elements"} /\ p = Counts(s) =>
                           it[w].base = s.view.base + s.view.dims[1].nelems
    BY DEF IInv, RefersToItsElement
<1>1. Inside(s, p) => Dereferenced(it[w]) = Part(s, p)
    BY InsideRefers
<1>2. ASSUME s.kind # "cursor", NEW k \in 0 .. Counts(s)[1] - 1
      PROVE  Dereferenced(Advanced(it[w], k - p[1])) = Part(s, <<k>>)
    <2>1. Counts(s)[1] = Size(s.view.dims[1])
        BY <1>2 DEF Counts, Moves
    <2>2. k \in 0 .. Size(s.view.dims[1]) - 1
        BY <2>1
    <2>3. QED
        BY <1>2, <2>2, StepsRefer
<1>3. ASSUME s.kind = "cursor", NEW q \in Indices(FromSizes(Counts(s)))
      PROVE  CursorWithin(it[w], [k \in DOMAIN p |-> q[k] - p[k]]).base = Part(s, q).base
    <2>1. q \in [DOMAIN position[w] -> Int] /\ Inside(s, q)
        <3>1. DOMAIN position[w] = 1 .. Moves(s)
            BY DEF IInv, Placed
        <3>2. QED
            BY ONLY <1>3, <3>1, s \in Sources, CursorIndices
    <2>2. QED
        BY ONLY <1>3, <2>1, IInv, w \in Walker, s \in Sources, s = over[w], p = position[w], CursorRefers
<1>4. ASSUME s.kind = "rows", NEW i \in Indices(Extensions(s.view.dims))
      PROVE  Called(it[w], [i EXCEPT ![1] = @ - Extension(s.view.dims[1])[1] - p[1]]).base = Address(s.view, i)
    BY <1>4, CalledRefers DEF Address
<1>5. s.kind \in {"rows", "elements"} /\ p = Counts(s) => it[w].base = s.view.base + s.view.dims[1].nelems
    BY EndReached
<1>6. QED
    BY <1>1, <1>2, <1>3, <1>4, <1>5

\* However a walker came to its position, *w, w[k], w(k, i, ...) and
\* cursor[i][j] are what operator[] finds there, and steps to the end lead to
\* end(): the members are always those of begin() moved by the position.
THEOREM WalkersRefer == Spec => []RefersToItsElement
BY AlwaysPlaced, RefersHolds, PTL

\* Comparisons and differences of walkers, those that mixins derive included,
\* are those of the positions, whatever the sign of the stride: it is never
\* zero, and both divide or multiply by the same one.
THEOREM WalkersInOrder == Spec => []OrderIsPosition
BY AlwaysPlaced, OrderHolds, PTL

--------------------------------------------------------------------------------
(* The iterators of elements() have a state of their own.                     *)

CONSTANTS
    Iterators,  \* those of ElementsIterator
    Ranges

VARIABLES
    elementsIt,     \* its variables it and over
    elementsOver,
    skew,
    astray

E == INSTANCE ElementsIterator WITH it <- elementsIt, over <- elementsOver

\* The operators of its layouts are those of Layout.
LEMMA SameExtensions ==
    ASSUME NEW xs, NEW n
    PROVE  /\ E!NumElementsIn(xs) = NumElementsIn(xs) /\ E!Indices(xs) = Indices(xs)
           /\ E!FromLinear(xs, n) = FromLinear(xs, n) /\ E!ToLinear(xs, n) = ToLinear(xs, n)
<1> USE DEF E!FoldLeftDomain, FoldLeftDomain, E!FoldLeft, FoldLeft, E!MapThenFoldSet, MapThenFoldSet, E!Max, Max
<1>1. ASSUME NEW ys PROVE E!NumElementsIn(ys) = NumElementsIn(ys)
    BY DEF E!NumElementsIn, NumElementsIn, E!PointExtensions, PointExtensions, E!Length, Length
<1>2. E!FromLinear(xs, n) = FromLinear(xs, n)
    BY <1>1 DEF E!FromLinear, FromLinear, E!Quotient, Quotient, E!Remainder, Remainder, E!Magnitude, Magnitude
<1>3. E!ToLinear(xs, n) = ToLinear(xs, n)
    BY DEF E!ToLinear, ToLinear, E!NumElementsIn, NumElementsIn, E!PointExtensions, PointExtensions, E!Length, Length
<1>4. E!Indices(xs) = Indices(xs)
    BY DEF E!Indices, Indices, E!WithNext, WithNext
<1>5. QED
    BY <1>1, <1>2, <1>3, <1>4

LEMMA SameLayouts ==
    ASSUME NEW dims, NEW v, NEW d, NEW i
    PROVE  /\ E!NumElements(dims) = NumElements(dims) /\ E!Extensions(dims) = Extensions(dims)
           /\ E!At(dims, i) = At(dims, i) /\ E!Address(v, i) = Address(v, i)
           /\ E!ElementAt(v, i) = ElementAt(v, i)
           /\ E!ExtensionExists(d) = ExtensionExists(d) /\ E!Size(d) = Size(d) /\ E!Dimensions = Dimensions
<1> USE DEF E!FoldLeftDomain, FoldLeftDomain, E!FoldLeft, FoldLeft, E!MapThenFoldSet, MapThenFoldSet, E!Max, Max,
            E!Quotient, Quotient, E!Magnitude, Magnitude, E!Size, Size
<1>1. E!NumElements(dims) = NumElements(dims)
    BY DEF E!NumElements, NumElements, E!PointLayout, PointLayout
<1>2. ASSUME NEW ds PROVE E!Extensions(ds) = Extensions(ds)
    BY DEF E!Extensions, Extensions, E!Extension, Extension
<1>3. ASSUME NEW ds, NEW j PROVE E!At(ds, j) = At(ds, j)
    BY DEF E!At, At, E!PointLayout, PointLayout
<1>4. E!Address(v, i) = Address(v, i)
    BY DEF E!Address, Address, E!Within, Within, E!Subscript, Subscript, E!View, View
<1>5. E!ElementAt(v, i) = ElementAt(v, i)
    BY <1>2, <1>3, SameExtensions DEF E!ElementAt, ElementAt
<1>6. E!ExtensionExists(d) = ExtensionExists(d) /\ E!Size(d) = Size(d) /\ E!Dimensions = Dimensions
    BY DEF E!ExtensionExists, ExtensionExists, E!Remainder, Remainder, E!Dimensions, Dimensions
<1>7. QED
    BY <1>1, <1>2, <1>3, <1>4, <1>5, <1>6

\* What next_canonical does to one index: it starts over if it and all to its right
\* are at their ends, moves on if only those are, and stays otherwise.
NextDigits(xs, i, j, N) ==
    /\ j = [k \in 1 .. N |-> j[k]]
    /\ \A k \in 1 .. N :
          /\ (\A m \in k + 1 .. N : i[m] = xs[m][2] - 1) /\ i[k] = xs[k][2] - 1 => j[k] = 0
          /\ (\A m \in k + 1 .. N : i[m] = xs[m][2] - 1) /\ i[k] # xs[k][2] - 1 => j[k] = i[k] + 1
          /\ ~(\A m \in k + 1 .. N : i[m] = xs[m][2] - 1) => j[k] = i[k]

LEMMA NextCanonicalDigits ==
    ASSUME NEW N \in Nat, NEW xs, Boxed(xs, N), NEW i, InBox(i, xs, N)
    PROVE  NextDigits(xs, i, E!NextCanonical(xs, i), N)
<1>1. DOMAIN i = 1 .. N /\ Len(xs) = N
    BY BoxRange DEF Boxed
<1>2. \A k \in 1 .. N : xs[k][1] = 0 /\ xs[k][2] \in Nat /\ i[k] \in Int /\ 0 <= i[k] /\ i[k] <= xs[k][2] - 1
    BY BoxRange DEF Boxed
<1>3. \A k \in 1 .. N : /\ E!NextIndex(xs[k], i[k]) = 0 <=> i[k] = xs[k][2] - 1
                        /\ i[k] # xs[k][2] - 1 => E!NextIndex(xs[k], i[k]) = i[k] + 1
    BY <1>2 DEF E!NextIndex
<1>4. \A k \in 1 .. N : i[k] + 1 = xs[k][2] <=> i[k] = xs[k][2] - 1
    BY <1>2
<1>5. ASSUME NEW k \in 1 .. N
      PROVE  (\A m \in k + 1 .. N : E!NextIndex(xs[m], i[m]) = xs[m][1]) <=> (\A m \in k + 1 .. N : i[m] = xs[m][2] - 1)
    <2>1. \A m \in k + 1 .. N : m \in 1 .. N
        OBVIOUS
    <2>2. QED
        BY ONLY <1>2, <1>3, <2>1
<1> PICK j : j = E!NextCanonical(xs, i)
    OBVIOUS
<1>6. j = [k \in 1 .. N |-> j[k]]
    BY <1>1 DEF E!NextCanonical
<1>7. ASSUME NEW k \in 1 .. N
      PROVE  /\ (\A m \in k + 1 .. N : i[m] = xs[m][2] - 1) /\ i[k] = xs[k][2] - 1 => j[k] = 0
             /\ (\A m \in k + 1 .. N : i[m] = xs[m][2] - 1) /\ i[k] # xs[k][2] - 1 => j[k] = i[k] + 1
             /\ ~(\A m \in k + 1 .. N : i[m] = xs[m][2] - 1) => j[k] = i[k]
    <2>1. CASE k = N
        <3>1. j[k] = E!NextIndex(xs[k], i[k])
            BY <1>1, <2>1 DEF E!NextCanonical
        <3>2. k + 1 .. N = {}
            BY <2>1
        <3>3. QED
            BY ONLY <1>3, <3>1, <3>2, k \in 1 .. N
    <2>2. CASE k # N
        <3> PICK carried \in BOOLEAN : carried <=> \A m \in k + 1 .. N : i[m] = xs[m][2] - 1
            OBVIOUS
        <3>1. j[k] = LET next == IF carried THEN i[k] + 1 ELSE i[k]
                     IN  IF next = xs[k][2] THEN xs[k][1] ELSE next
            BY <1>1, <1>5, <2>2 DEF E!NextCanonical
        <3>2. QED
            BY ONLY <1>2, <1>4, <3>1, k \in 1 .. N, carried \in BOOLEAN,
                    carried <=> \A m \in k + 1 .. N : i[m] = xs[m][2] - 1
    <2>3. QED
        BY <2>1, <2>2
<1>8. QED
    BY ONLY <1>6, <1>7, j = E!NextCanonical(xs, i) DEF NextDigits

\* prev_canonical the other way round, from an index or from the place behind the last,
\* whose first index is its extension's end.
PrevDigits(xs, i, j, N) ==
    /\ j = [k \in 1 .. N |-> j[k]]
    /\ \A k \in 1 .. N :
          /\ (\A m \in k + 1 .. N : i[m] = 0) /\ i[k] = 0 => j[k] = xs[k][2] - 1
          /\ (\A m \in k + 1 .. N : i[m] = 0) /\ i[k] # 0 => j[k] = i[k] - 1
          /\ ~(\A m \in k + 1 .. N : i[m] = 0) => j[k] = i[k]

LEMMA PrevCanonicalDigits ==
    ASSUME NEW N \in Nat, NEW xs, Boxed(xs, N), NEW i, DOMAIN i = 1 .. N,
           \A k \in 1 .. N : i[k] \in Int /\ 0 <= i[k],
           \A k \in 2 .. N : i[k] <= xs[k][2] - 1
    PROVE  PrevDigits(xs, i, E!PrevCanonical(xs, i), N)
<1>1. Len(xs) = N
    BY DEF Boxed
<1>2. \A k \in 1 .. N : xs[k][1] = 0 /\ xs[k][2] \in Nat /\ i[k] \in Int /\ 0 <= i[k]
    BY DEF Boxed
<1>3. \A k \in 1 .. N : /\ i[k] = 0 => E!PrevIndex(xs[k], i[k]) = xs[k][2] - 1
                        /\ i[k] # 0 => E!PrevIndex(xs[k], i[k]) = i[k] - 1
    BY <1>2 DEF E!PrevIndex
<1>4. \A k \in 2 .. N : E!PrevIndex(xs[k], i[k]) = xs[k][2] - 1 <=> i[k] = 0
    <2> SUFFICES ASSUME NEW k \in 2 .. N PROVE E!PrevIndex(xs[k], i[k]) = xs[k][2] - 1 <=> i[k] = 0
        OBVIOUS
    <2> PICK x \in Nat, n \in Nat : x = xs[k][2] /\ n = i[k]
        BY <1>2
    <2>1. n <= x - 1
        OBVIOUS
    <2>2. (n = 0 => E!PrevIndex(xs[k], i[k]) = x - 1) /\ (n # 0 => E!PrevIndex(xs[k], i[k]) = n - 1)
        BY <1>3
    <2>3. QED
        BY ONLY <2>1, <2>2, x \in Nat, n \in Nat, x = xs[k][2], n = i[k]
<1>5. ASSUME NEW k \in 1 .. N
      PROVE  (\A m \in k + 1 .. N : E!PrevIndex(xs[m], i[m]) = xs[m][2] - 1) <=> (\A m \in k + 1 .. N : i[m] = 0)
    <2>1. \A m \in k + 1 .. N : m \in 2 .. N
        OBVIOUS
    <2>2. QED
        BY ONLY <1>4, <2>1
<1> PICK j : j = E!PrevCanonical(xs, i)
    OBVIOUS
<1>6. j = [k \in 1 .. N |-> j[k]]
    BY <1>1 DEF E!PrevCanonical
<1>7. ASSUME NEW k \in 1 .. N
      PROVE  /\ (\A m \in k + 1 .. N : i[m] = 0) /\ i[k] = 0 => j[k] = xs[k][2] - 1
             /\ (\A m \in k + 1 .. N : i[m] = 0) /\ i[k] # 0 => j[k] = i[k] - 1
             /\ ~(\A m \in k + 1 .. N : i[m] = 0) => j[k] = i[k]
    <2>1. CASE k = N
        <3>1. j[k] = E!PrevIndex(xs[k], i[k])
            BY <1>1, <2>1 DEF E!PrevCanonical
        <3>2. k + 1 .. N = {}
            BY <2>1
        <3>3. QED
            BY ONLY <1>3, <3>1, <3>2, k \in 1 .. N
    <2>2. CASE k # N
        <3> PICK borrowed \in BOOLEAN : borrowed <=> \A m \in k + 1 .. N : i[m] = 0
            OBVIOUS
        <3>1. j[k] = LET prev == IF borrowed THEN i[k] - 1 ELSE i[k]
                     IN  IF prev < xs[k][1] THEN xs[k][2] - 1 ELSE prev
            BY <1>1, <1>5, <2>2 DEF E!PrevCanonical
        <3>2. QED
            BY ONLY <1>2, <3>1, k \in 1 .. N, borrowed \in BOOLEAN,
                    borrowed <=> \A m \in k + 1 .. N : i[m] = 0
    <2>3. QED
        BY <2>1, <2>2
<1>8. QED
    BY ONLY <1>6, <1>7, j = E!PrevCanonical(xs, i) DEF PrevDigits

LEMMA GreatestNumber ==
    ASSUME NEW N \in Nat, NEW S \in SUBSET (1 .. N), S # {}
    PROVE  \E p \in S : \A m \in S : m <= p
<1> DEFINE T == {k \in Nat : N - k \in S}
<1>1. T # {} /\ T \subseteq Nat
    <2> PICK p \in S : TRUE
        OBVIOUS
    <2>1. N - p \in Nat /\ N - (N - p) = p
        OBVIOUS
    <2>2. QED
        BY <2>1
<1>2. PICK k \in T : \A m \in T : k <= m
    <2> HIDE DEF T
    <2> QED
        BY <1>1, LeastNumber
<1>3. N - k \in S
    OBVIOUS
<1>4. ASSUME NEW m \in S PROVE m <= N - k
    <2>1. N - m \in T
        <3>1. N - m \in Nat /\ N - (N - m) = m
            OBVIOUS
        <3>2. QED
            BY <3>1
    <2>2. k <= N - m
        BY <1>2, <2>1
    <2>3. QED
        BY <2>2
<1>5. QED
    BY <1>3, <1>4

\* A sequence of indices in the box.
LEMMA InBoxIf ==
    ASSUME NEW N \in Nat, NEW xs, NEW j, j = [k \in 1 .. N |-> j[k]],
           \A k \in 1 .. N : j[k] \in 0 .. xs[k][2] - 1,
           \A k \in 1 .. N : xs[k][2] \in Nat
    PROVE  InBox(j, xs, N)
<1>1. \A k \in 1 .. N : j[k] \in Int
    OBVIOUS
<1>2. j \in [1 .. N -> Int]
    BY <1>1
<1>3. j \in Seq(Int) /\ Len(j) = N
    BY <1>2
<1>4. QED
    BY ONLY <1>3, \A k \in 1 .. N : j[k] \in 0 .. xs[k][2] - 1 DEF InBox

\* operator++ of an index moves to the next one, and from the last one to the first.
LEMMA NextFollows ==
    ASSUME NEW N \in Nat, NEW xs, Boxed(xs, N), NEW n \in Nat, n < NumElementsIn(xs)
    PROVE  E!NextCanonical(xs, FromLinear(xs, n))
               = IF n + 1 = NumElementsIn(xs) THEN FromLinear(xs, 0) ELSE FromLinear(xs, n + 1)
<1> PICK S \in Nat : S = NumElementsIn(xs) /\ S # 0
    <2>1. NumElementsIn(xs) \in Nat
        <3>1. 0 \in 0 .. N
            OBVIOUS
        <3>2. QED
            BY <3>1, BoxSteps
    <2>2. QED
        BY <2>1
<1> PICK i, j : i = FromLinear(xs, n) /\ j = E!NextCanonical(xs, i)
    OBVIOUS
<1>1. InBox(i, xs, N) /\ ToLinear(xs, i) = n
    BY FromLinearInBox
<1>2. \A k \in 1 .. N : xs[k][2] \in Nat /\ i[k] \in Int /\ 0 <= i[k] /\ i[k] <= xs[k][2] - 1
    BY ONLY <1>1, N \in Nat, Boxed(xs, N), BoxRange
<1>3. NextDigits(xs, i, j, N)
    BY <1>1, NextCanonicalDigits
<1>4. InBox(j, xs, N)
    <2>1. ASSUME NEW k \in 1 .. N PROVE j[k] \in 0 .. xs[k][2] - 1
        <3> PICK x \in Nat, u \in Int : x = xs[k][2] /\ u = i[k] /\ 0 <= u /\ u <= x - 1
            BY <1>2
        <3>1. \/ j[k] = 0
              \/ j[k] = u + 1 /\ u # x - 1
              \/ j[k] = u
            BY <1>3 DEF NextDigits
        <3>2. QED
            BY ONLY <3>1, x \in Nat, u \in Int, 0 <= u, u <= x - 1, x = xs[k][2]
    <2>2. j = [k \in 1 .. N |-> j[k]]
        BY <1>3 DEF NextDigits
    <2>3. QED
        BY ONLY <1>2, <2>1, <2>2, N \in Nat, InBoxIf
<1>5. CASE \A k \in 1 .. N : i[k] = xs[k][2] - 1
    <2>1. n = S - 1
        BY <1>1, <1>5, FirstAndLast
    <2>2. \A k \in 1 .. N : j[k] = 0
        <3> SUFFICES ASSUME NEW k \in 1 .. N PROVE j[k] = 0
            OBVIOUS
        <3>1. \A m \in k + 1 .. N : i[m] = xs[m][2] - 1
            <4>1. \A m \in k + 1 .. N : m \in 1 .. N
                OBVIOUS
            <4>2. QED
                BY <1>5, <4>1
        <3>2. QED
            BY <1>3, <1>5, <3>1 DEF NextDigits
    <2>3. j = FromLinear(xs, 0)
        BY <1>4, <2>2, FirstAndLast
    <2>4. QED
        BY <2>1, <2>3
<1>6. CASE ~(\A k \in 1 .. N : i[k] = xs[k][2] - 1)
    <2> DEFINE Q == {k \in 1 .. N : i[k] # xs[k][2] - 1}
    <2>1. PICK p \in Q : \A m \in Q : m <= p
        <3>1. Q # {} /\ Q \in SUBSET (1 .. N)
            BY <1>6
        <3> HIDE DEF Q
        <3>2. QED
            BY ONLY <3>1, N \in Nat, GreatestNumber
    <2>2. p \in 1 .. N /\ i[p] # xs[p][2] - 1
        OBVIOUS
    <2>3. \A m \in p + 1 .. N : m \in 1 .. N /\ i[m] = xs[m][2] - 1
        BY <2>1
    <2>4. Neighbours(xs, i, j, p, N)
        <3>1. j[p] = i[p] + 1
            BY <1>3, <2>2, <2>3 DEF NextDigits
        <3>2. ASSUME NEW k \in 1 .. p - 1 PROVE i[k] = j[k]
            <4>1. k \in 1 .. N /\ p \in k + 1 .. N
                BY <2>2
            <4>2. ~(\A m \in k + 1 .. N : i[m] = xs[m][2] - 1)
                BY <2>2, <4>1
            <4>3. QED
                BY <1>3, <4>1, <4>2 DEF NextDigits
        <3>3. ASSUME NEW k \in p + 1 .. N PROVE i[k] = xs[k][2] - 1 /\ j[k] = 0
            <4>1. \A m \in k + 1 .. N : i[m] = xs[m][2] - 1
                <5>1. \A m \in k + 1 .. N : m \in p + 1 .. N
                    BY <2>2
                <5>2. QED
                    BY <2>3, <5>1
            <4>2. k \in 1 .. N /\ i[k] = xs[k][2] - 1
                BY <2>3
            <4>3. QED
                BY <1>3, <4>1, <4>2 DEF NextDigits
        <3>4. QED
            BY ONLY <3>1, <3>2, <3>3 DEF Neighbours
    <2>5. ToLinear(xs, j) = n + 1
        BY <1>1, <1>4, <2>2, <2>4, NeighboursFollow
    <2>6. FromLinear(xs, n + 1) = j
        BY <1>4, <2>5, FromLinearOfToLinear
    <2>7. n + 1 # S
        <3>1. ToLinear(xs, j) \in 0 .. S - 1
            BY <1>4, ToLinearInRange
        <3>2. QED
            BY <2>5, <3>1
    <2>8. QED
        BY <2>6, <2>7
<1>7. QED
    BY <1>5, <1>6

\* operator-- moves to the index before, and from the first to the last.
LEMMA PrevPrecedes ==
    ASSUME NEW N \in Nat, NEW xs, Boxed(xs, N), NEW n \in Nat, n < NumElementsIn(xs)
    PROVE  E!PrevCanonical(xs, FromLinear(xs, n))
               = FromLinear(xs, IF n = 0 THEN NumElementsIn(xs) - 1 ELSE n - 1)
<1> PICK S \in Nat : S = NumElementsIn(xs) /\ S # 0
    <2>1. NumElementsIn(xs) \in Nat
        <3>1. 0 \in 0 .. N
            OBVIOUS
        <3>2. QED
            BY <3>1, BoxSteps
    <2>2. QED
        BY <2>1
<1> PICK i, j : i = FromLinear(xs, n) /\ j = E!PrevCanonical(xs, i)
    OBVIOUS
<1>1. InBox(i, xs, N) /\ ToLinear(xs, i) = n
    BY FromLinearInBox
<1>2. /\ DOMAIN i = 1 .. N
      /\ \A k \in 1 .. N : xs[k][2] \in Nat /\ i[k] \in Int /\ 0 <= i[k] /\ i[k] <= xs[k][2] - 1
    BY ONLY <1>1, N \in Nat, Boxed(xs, N), BoxRange
<1>3. PrevDigits(xs, i, j, N)
    <2>1. \A k \in 2 .. N : i[k] <= xs[k][2] - 1
        BY <1>2
    <2>2. QED
        BY <1>2, <2>1, PrevCanonicalDigits
<1>4. InBox(j, xs, N)
    <2>1. ASSUME NEW k \in 1 .. N PROVE j[k] \in 0 .. xs[k][2] - 1
        <3> PICK x \in Nat, u \in Int : x = xs[k][2] /\ u = i[k] /\ 0 <= u /\ u <= x - 1
            BY <1>2
        <3>1. \/ j[k] = x - 1
              \/ j[k] = u - 1 /\ u # 0
              \/ j[k] = u
            BY <1>3 DEF PrevDigits
        <3>2. QED
            BY ONLY <3>1, x \in Nat, u \in Int, 0 <= u, u <= x - 1, x = xs[k][2]
    <2>2. j = [k \in 1 .. N |-> j[k]]
        BY <1>3 DEF PrevDigits
    <2>3. QED
        BY ONLY <1>2, <2>1, <2>2, N \in Nat, InBoxIf
<1>5. CASE \A k \in 1 .. N : i[k] = 0
    <2>1. n = 0
        BY <1>1, <1>5, FirstAndLast
    <2>2. \A k \in 1 .. N : j[k] = xs[k][2] - 1
        <3> SUFFICES ASSUME NEW k \in 1 .. N PROVE j[k] = xs[k][2] - 1
            OBVIOUS
        <3>1. \A m \in k + 1 .. N : i[m] = 0
            <4>1. \A m \in k + 1 .. N : m \in 1 .. N
                OBVIOUS
            <4>2. QED
                BY <1>5, <4>1
        <3>2. QED
            BY <1>3, <1>5, <3>1 DEF PrevDigits
    <2>3. j = FromLinear(xs, S - 1)
        BY <1>4, <2>2, FirstAndLast
    <2>4. QED
        BY <2>1, <2>3
<1>6. CASE ~(\A k \in 1 .. N : i[k] = 0)
    <2> DEFINE Q == {k \in 1 .. N : i[k] # 0}
    <2>1. PICK p \in Q : \A m \in Q : m <= p
        <3>1. Q # {} /\ Q \in SUBSET (1 .. N)
            BY <1>6
        <3> HIDE DEF Q
        <3>2. QED
            BY ONLY <3>1, N \in Nat, GreatestNumber
    <2>2. p \in 1 .. N /\ i[p] # 0
        OBVIOUS
    <2>3. \A m \in p + 1 .. N : m \in 1 .. N /\ i[m] = 0
        BY <2>1
    <2>4. Neighbours(xs, j, i, p, N)
        <3>1. i[p] = j[p] + 1
            <4>1. j[p] = i[p] - 1 /\ i[p] \in Int
                BY <1>2, <1>3, <2>2, <2>3 DEF PrevDigits
            <4>2. QED
                BY <4>1
        <3>2. ASSUME NEW k \in 1 .. p - 1 PROVE j[k] = i[k]
            <4>1. k \in 1 .. N /\ p \in k + 1 .. N
                BY <2>2
            <4>2. ~(\A m \in k + 1 .. N : i[m] = 0)
                BY <2>2, <4>1
            <4>3. QED
                BY <1>3, <4>1, <4>2 DEF PrevDigits
        <3>3. ASSUME NEW k \in p + 1 .. N PROVE j[k] = xs[k][2] - 1 /\ i[k] = 0
            <4>1. \A m \in k + 1 .. N : i[m] = 0
                <5>1. \A m \in k + 1 .. N : m \in p + 1 .. N
                    BY <2>2
                <5>2. QED
                    BY <2>3, <5>1
            <4>2. k \in 1 .. N /\ i[k] = 0
                BY <2>3
            <4>3. QED
                BY <1>3, <4>1, <4>2 DEF PrevDigits
        <3>4. QED
            BY ONLY <3>1, <3>2, <3>3 DEF Neighbours
    <2>5. ToLinear(xs, i) = ToLinear(xs, j) + 1 /\ ToLinear(xs, j) \in 0 .. S - 1
        BY <1>1, <1>4, <2>2, <2>4, NeighboursFollow, ToLinearInRange
    <2>6. ToLinear(xs, j) = n - 1 /\ n # 0
        BY <1>1, <2>5
    <2>7. FromLinear(xs, n - 1) = j
        BY <1>4, <2>6, FromLinearOfToLinear
    <2>8. QED
        BY <2>6, <2>7
<1>7. QED
    BY <1>5, <1>6

\* From the place behind the last index, to which operator-- returns, it moves to the last.
LEMMA PrevOfBehind ==
    ASSUME NEW N \in Nat, N # 0, NEW xs, Boxed(xs, N), NumElementsIn(xs) # 0
    PROVE  E!PrevCanonical(xs, FromLinear(xs, NumElementsIn(xs))) = FromLinear(xs, NumElementsIn(xs) - 1)
<1> PICK S \in Nat : S = NumElementsIn(xs) /\ S # 0
    <2>1. NumElementsIn(xs) \in Nat
        <3>1. 0 \in 0 .. N
            OBVIOUS
        <3>2. QED
            BY <3>1, BoxSteps
    <2>2. QED
        BY <2>1
<1>1. PICK e : /\ e = FromLinear(xs, S)
               /\ DOMAIN e = 1 .. N /\ e[1] = xs[1][2] /\ \A k \in 2 .. N : e[k] = 0
    BY PlaceBehind
<1>2. \A k \in 1 .. N : xs[k][2] \in Nat /\ xs[k][2] # 0
    <2> SUFFICES ASSUME NEW k \in 1 .. N PROVE xs[k][2] \in Nat /\ xs[k][2] # 0
        OBVIOUS
    <2>1. InBox(FromLinear(xs, 0), xs, N)
        BY FromLinearInBox
    <2>2. xs[k][2] \in Nat /\ FromLinear(xs, 0)[k] \in Int /\ 0 <= FromLinear(xs, 0)[k]
            /\ FromLinear(xs, 0)[k] <= xs[k][2] - 1
        BY <2>1, BoxRange
    <2>3. QED
        BY <2>2
<1>3. \A k \in 1 .. N : e[k] \in Int /\ 0 <= e[k]
    BY <1>1, <1>2
<1>4. \A k \in 2 .. N : e[k] <= xs[k][2] - 1
    BY <1>1, <1>2
<1> PICK j : j = E!PrevCanonical(xs, e)
    OBVIOUS
<1>5. PrevDigits(xs, e, j, N)
    BY <1>1, <1>3, <1>4, PrevCanonicalDigits
<1>6. ASSUME NEW k \in 1 .. N PROVE j[k] = xs[k][2] - 1
    <2>1. \A m \in k + 1 .. N : e[m] = 0
        <3>1. \A m \in k + 1 .. N : m \in 2 .. N
            OBVIOUS
        <3>2. QED
            BY <1>1, <3>1
    <2>2. CASE k = 1
        <3>1. e[k] = xs[k][2] /\ e[k] # 0
            BY <1>1, <1>2, <2>2
        <3>2. QED
            BY <1>5, <2>1, <3>1 DEF PrevDigits
    <2>3. CASE k # 1
        <3>1. e[k] = 0
            BY <1>1, <2>3
        <3>2. QED
            BY <1>5, <2>1, <3>1 DEF PrevDigits
    <2>4. QED
        BY <2>2, <2>3
<1>7. InBox(j, xs, N)
    <2>1. \A k \in 1 .. N : j[k] \in 0 .. xs[k][2] - 1
        BY <1>2, <1>6
    <2>2. j = [k \in 1 .. N |-> j[k]]
        BY <1>5 DEF PrevDigits
    <2>3. QED
        BY ONLY <1>2, <2>1, <2>2, N \in Nat, InBoxIf
<1>8. j = FromLinear(xs, S - 1)
    BY <1>6, <1>7, FirstAndLast
<1>9. QED
    BY <1>1, <1>8

--------------------------------------------------------------------------------
\* A view whose elements an iterator can go through.
IsRange(r) == r \in Ranges /\ E!CanBeMade(r) /\ E!ZeroBased(r)

LEMMA RangeFacts ==
    ASSUME E!IteratorsAssumption, NEW r, IsRange(r)
    PROVE  /\ r.base \in Int /\ Len(r.dims) \in Nat /\ Len(r.dims) # 0
           /\ IsZeroBased(r.dims, Len(r.dims)) /\ Boxed(Extensions(r.dims), Len(r.dims))
           /\ E!Count(r) \in Nat /\ E!Count(r) = NumElements(r.dims)
           /\ E!Count(r) = NumElementsIn(Extensions(r.dims))
           /\ r.dims[1].nelems = 0 <=> E!Count(r) = 0
<1>1. r.base \in Int /\ r.dims \in Seq(Dimensions) \ {<<>>}
    BY SameLayouts DEF IsRange, E!IteratorsAssumption
<1> PICK ds \in Seq(Dimensions), M \in Nat : ds = r.dims /\ Len(ds) = M + 1
    <2>1. Len(r.dims) \in Nat /\ Len(r.dims) # 0
        BY <1>1
    <2>2. Len(r.dims) - 1 \in Nat /\ Len(r.dims) - 1 + 1 = Len(r.dims)
        BY <2>1
    <2>3. QED
        BY <1>1, <2>2
<1>2. ASSUME NEW k \in 1 .. M + 1
      PROVE  ds[k] \in Dimensions /\ ds[k].offset = 0 /\ ExtensionExists(ds[k]) /\ Size(ds[k]) >= 0
    <2>1. k \in DOMAIN r.dims
        OBVIOUS
    <2>2. ds[k] \in Dimensions /\ ds[k].offset = 0
        BY <2>1 DEF IsRange, E!ZeroBased
    <2>3. E!ExtensionExists(r.dims[k]) /\ E!Size(r.dims[k]) >= 0
        BY <2>1 DEF IsRange, E!IteratorsAssumption
    <2>4. QED
        BY <2>2, <2>3, SameLayouts
<1>3. IsZeroBased(ds, M + 1)
    <2>1. \A k \in 1 .. M + 1 : \E n \in Nat : FromZero(ds[k], n)
        BY <1>2, ZeroDimension
    <2>2. QED
        BY ONLY <2>1, ds \in Seq(Dimensions), Len(ds) = M + 1 DEF IsZeroBased
<1> PICK N \in Nat : N = M + 1 /\ N # 0
    OBVIOUS
<1> PICK xs : xs = Extensions(ds)
    OBVIOUS
<1>4. /\ Boxed(xs, N) /\ NumElements(ds) = NumElementsIn(xs)
      /\ \A k \in 1 .. N : xs[k] = <<0, Size(ds[k])>>
    BY <1>3, ZeroBasedIsBox
<1>5. E!Count(r) = NumElements(ds)
    BY SameLayouts DEF E!Count
<1>6. 0 \in 0 .. N /\ 1 \in 0 .. N /\ 1 \in 1 .. N /\ 1 - 1 = 0
    OBVIOUS
<1>7. NumElementsIn(xs) \in Nat /\ NumElementsIn(xs) = xs[1][2] * Inner(xs, 1) /\ Inner(xs, 1) \in Nat
    <2>1. /\ Inner(xs, 0) = NumElementsIn(xs)
          /\ \A k \in 0 .. N : Inner(xs, k) \in Nat
          /\ \A k \in 1 .. N : Inner(xs, k - 1) = xs[k][2] * Inner(xs, k)
        BY ONLY <1>4, N \in Nat, BoxSteps
    <2>2. Inner(xs, 1 - 1) = xs[1][2] * Inner(xs, 1)
        BY ONLY <1>6, <2>1
    <2>3. QED
        BY ONLY <1>6, <2>1, <2>2
<1>8. Size(ds[1]) \in Nat /\ xs[1][2] = Size(ds[1]) /\ NumElements(Tail(ds)) = Inner(xs, 1)
    <2>1. Size(ds[1]) \in Nat
        BY <1>3, <1>6, ZeroBasedParts
    <2>2. xs[1][2] = Size(ds[1])
        BY <1>4, <1>6
    <2>3. NumElements(SubSeq(ds, 2, M + 1)) = Inner(xs, 1)
        <3>1. NumElements(SubSeq(ds, 1 + 1, M + 1)) = Inner(Extensions(ds), 1)
            <4>1. M + 1 \in Nat /\ 1 \in 0 .. M + 1
                OBVIOUS
            <4>2. QED
                BY ONLY <1>3, <4>1, RestOfZeroBased
        <3>2. 1 + 1 = 2
            OBVIOUS
        <3>3. QED
            BY ONLY <3>1, <3>2, xs = Extensions(ds)
    <2>4. Tail(ds) = SubSeq(ds, 2, M + 1)
        BY TailIsRest
    <2>5. QED
        BY <2>1, <2>2, <2>3, <2>4
<1>9. ds[1].nelems = 0 => Size(ds[1]) = 0
    BY DEF Size
<1>10. ds[1].nelems # 0 => Size(ds[1]) # 0
    <2> SUFFICES ASSUME ds[1].nelems # 0 PROVE Size(ds[1]) # 0
        OBVIOUS
    <2>1. ds[1] \in Dimensions /\ ExtensionExists(ds[1]) /\ Size(ds[1]) >= 0
        BY <1>2, <1>6
    <2>2. ds[1].stride # 0 /\ ds[1].stride \in Int
        BY <2>1 DEF ExtensionExists, Dimensions
    <2>3. PICK f \in Int, n \in Nat : HasSteps(ds[1], f, n)
        BY <2>1, <2>2, DimensionSteps
    <2>4. ds[1].nelems = ds[1].stride * n /\ Size(ds[1]) = n
        BY ONLY <2>3 DEF HasSteps
    <2>5. QED
        BY ONLY <2>2, <2>4, ds[1].nelems # 0, n \in Nat
<1>11. ds[1].nelems # 0 => NumElements(Tail(ds)) # 0
    BY SameLayouts DEF IsRange, E!CanBeMade, E!Empty
<1>12. ds[1].nelems = 0 <=> NumElementsIn(xs) = 0
    <2> PICK a \in Nat, b \in Nat : a = Size(ds[1]) /\ b = Inner(xs, 1)
        BY <1>7, <1>8
    <2>1. NumElementsIn(xs) = a * b
        BY <1>7, <1>8
    <2>2. (ds[1].nelems = 0 => a = 0) /\ (ds[1].nelems # 0 => a # 0 /\ b # 0)
        BY <1>8, <1>9, <1>10, <1>11
    <2>3. QED
        BY ONLY <2>1, <2>2, a \in Nat, b \in Nat
<1>13. r.base \in Int /\ N = Len(ds)
    BY <1>1
<1>14. QED
    BY ONLY <1>3, <1>4, <1>5, <1>7, <1>12, <1>13, N \in Nat, N = M + 1, N # 0, ds = r.dims, xs = Extensions(ds)

\* The iterator of r with number n and indices ns.
Pointing(r, n, ns) ==
    [base |-> r.base, l |-> r.dims, n |-> n, xs |-> Extensions(r.dims), ns |-> ns]

\* An iterator of r whose indices are those of position p, whatever its number is.
\* Nothing is read through the indices of an empty range.
Positioned(r, i, p) ==
    /\ p \in 0 .. E!Count(r)
    /\ \E n \in 0 .. E!Count(r) : \E ns :
           i = Pointing(r, n, ns) /\ (E!Count(r) # 0 => ns = FromLinear(Extensions(r.dims), p))

LEMMA PositionedParts ==
    ASSUME NEW r, NEW i, NEW p, Positioned(r, i, p)
    PROVE  /\ p \in 0 .. E!Count(r) /\ i.n \in 0 .. E!Count(r)
           /\ i = Pointing(r, i.n, i.ns)
           /\ i.base = r.base /\ i.l = r.dims /\ i.xs = Extensions(r.dims)
           /\ E!Count(r) # 0 => i.ns = FromLinear(Extensions(r.dims), p)
<1> PICK n \in 0 .. E!Count(r) : \E ns :
        i = Pointing(r, n, ns) /\ (E!Count(r) # 0 => ns = FromLinear(Extensions(r.dims), p))
    BY DEF Positioned
<1> PICK ns : i = Pointing(r, n, ns) /\ (E!Count(r) # 0 => ns = FromLinear(Extensions(r.dims), p))
    OBVIOUS
<1>1. i.n = n /\ i.ns = ns /\ i.base = r.base /\ i.l = r.dims /\ i.xs = Extensions(r.dims)
    BY DEF Pointing
<1>2. p \in 0 .. E!Count(r)
    BY DEF Positioned
<1>3. QED
    BY <1>1, <1>2

\* The constructor.
LEMMA MadePoints ==
    ASSUME E!IteratorsAssumption, NEW r, IsRange(r), NEW n \in 0 .. E!Count(r)
    PROVE  \E ns : /\ E!Made(E!RangeOf(r), n) = Pointing(r, n, ns)
                   /\ E!Count(r) # 0 => ns = FromLinear(Extensions(r.dims), n)
<1>1. r.dims[1].nelems = 0 <=> E!Count(r) = 0
    BY RangeFacts
<1> PICK xs : xs = Extensions(r.dims)
    OBVIOUS
<1> PICK ns : ns = IF r.dims[1].nelems = 0 THEN [k \in DOMAIN xs |-> 0] ELSE FromLinear(xs, n)
    OBVIOUS
<1>2. E!Extensions(r.dims) = xs /\ E!FromLinear(xs, n) = FromLinear(xs, n)
    BY SameLayouts, SameExtensions
<1>3. E!Made(E!RangeOf(r), n) = Pointing(r, n, ns)
    BY <1>2 DEF E!Made, E!RangeOf, Pointing
<1>4. QED
    BY <1>1, <1>3

LEMMA MadeIsPositioned ==
    ASSUME E!IteratorsAssumption, NEW r, IsRange(r), NEW n \in 0 .. E!Count(r)
    PROVE  Positioned(r, E!Made(E!RangeOf(r), n), n) /\ E!Made(E!RangeOf(r), n).n = n
<1>1. PICK ns : /\ E!Made(E!RangeOf(r), n) = Pointing(r, n, ns)
                /\ E!Count(r) # 0 => ns = FromLinear(Extensions(r.dims), n)
    BY MadePoints
<1>2. Positioned(r, E!Made(E!RangeOf(r), n), n)
    BY <1>1 DEF Positioned
<1>3. E!Made(E!RangeOf(r), n).n = n
    BY DEF E!Made
<1>4. QED
    BY <1>2, <1>3

\* A conversion makes the indices of the number.
LEMMA ConvertedIsPositioned ==
    ASSUME E!IteratorsAssumption, NEW r, IsRange(r), NEW i, NEW p, Positioned(r, i, p)
    PROVE  Positioned(r, E!Converted(i), i.n) /\ E!Converted(i).n = i.n
<1>1. i.base = r.base /\ i.l = r.dims /\ i.n \in 0 .. E!Count(r)
    BY PositionedParts
<1>2. E!Converted(i) = E!Made(E!RangeOf(r), i.n)
    BY <1>1 DEF E!Converted, E!RangeOf
<1>3. QED
    BY <1>1, <1>2, MadeIsPositioned

\* operator++ moves the indices on, and from the last position back to the first.
LEMMA IncrementedIsPositioned ==
    ASSUME E!IteratorsAssumption, NEW r, IsRange(r), NEW i, NEW p, Positioned(r, i, p),
           i.n < E!Count(r), p < E!Count(r)
    PROVE  /\ Positioned(r, E!Incremented(i), IF p + 1 = E!Count(r) THEN 0 ELSE p + 1)
           /\ E!Incremented(i).n = i.n + 1
<1> PICK xs, S, n, ns : xs = Extensions(r.dims) /\ S = E!Count(r) /\ n = i.n /\ ns = i.ns
    OBVIOUS
<1>1. S \in Nat /\ S = NumElementsIn(xs) /\ Len(r.dims) \in Nat /\ Boxed(xs, Len(r.dims))
    BY RangeFacts
<1>2. /\ p \in 0 .. S /\ n \in 0 .. S /\ n < S /\ p < S
      /\ i = Pointing(r, n, ns) /\ i.xs = xs /\ (S # 0 => ns = FromLinear(xs, p))
    BY PositionedParts
<1>3. p \in Nat /\ S # 0 /\ n + 1 \in 0 .. S
    BY ONLY <1>1, <1>2
<1> PICK ms : ms = E!NextCanonical(xs, ns)
    OBVIOUS
<1> PICK q : q = IF p + 1 = S THEN 0 ELSE p + 1
    OBVIOUS
<1>4. q \in 0 .. S
    BY ONLY <1>1, <1>2, q = IF p + 1 = S THEN 0 ELSE p + 1
<1>5. ms = FromLinear(xs, q)
    <2>1. ms = IF p + 1 = S THEN FromLinear(xs, 0) ELSE FromLinear(xs, p + 1)
        BY ONLY <1>1, <1>2, <1>3, ms = E!NextCanonical(xs, ns), NextFollows
    <2>2. QED
        BY ONLY <2>1, q = IF p + 1 = S THEN 0 ELSE p + 1
<1>6. E!Incremented(i) = Pointing(r, n + 1, ms)
    <2> PICK u : u = [i EXCEPT !.ns = ms]
        OBVIOUS
    <2>1. E!Incremented(i) = [u EXCEPT !.n = n + 1]
        BY <1>2 DEF E!Incremented
    <2>2. u = Pointing(r, n, ms)
        BY <1>2 DEF Pointing
    <2>3. [u EXCEPT !.n = n + 1] = Pointing(r, n + 1, ms)
        BY ONLY <2>2 DEF Pointing
    <2>4. QED
        BY ONLY <2>1, <2>3
<1>7. Positioned(r, E!Incremented(i), q)
    BY <1>3, <1>4, <1>5, <1>6 DEF Positioned
<1>8. E!Incremented(i).n = n + 1
    BY ONLY <1>6 DEF Pointing
<1>9. QED
    BY <1>7, <1>8

\* operator-- moves them back, and from the first position to the last.
LEMMA DecrementedIsPositioned ==
    ASSUME E!IteratorsAssumption, NEW r, IsRange(r), NEW i, NEW p, Positioned(r, i, p), i.n > 0
    PROVE  /\ Positioned(r, E!Decremented(i), IF p = 0 THEN E!Count(r) - 1 ELSE p - 1)
           /\ E!Decremented(i).n = i.n - 1
<1> PICK xs, S, N, n, ns : xs = Extensions(r.dims) /\ S = E!Count(r) /\ N = Len(r.dims) /\ n = i.n /\ ns = i.ns
    OBVIOUS
<1>1. S \in Nat /\ S = NumElementsIn(xs) /\ N \in Nat /\ N # 0 /\ Boxed(xs, N)
    BY RangeFacts
<1>2. /\ p \in 0 .. S /\ n \in 0 .. S /\ n > 0
      /\ i = Pointing(r, n, ns) /\ i.xs = xs /\ (S # 0 => ns = FromLinear(xs, p))
    BY PositionedParts
<1>3. p \in Nat /\ S # 0 /\ n - 1 \in 0 .. S
    BY ONLY <1>1, <1>2
<1> PICK ms : ms = E!PrevCanonical(xs, ns)
    OBVIOUS
<1> PICK q : q = IF p = 0 THEN S - 1 ELSE p - 1
    OBVIOUS
<1>4. q \in 0 .. S
    BY ONLY <1>1, <1>2, <1>3, q = IF p = 0 THEN S - 1 ELSE p - 1
<1>5. ms = FromLinear(xs, q)
    <2>1. CASE p < S
        <3>1. E!PrevCanonical(xs, FromLinear(xs, p))
                  = FromLinear(xs, IF p = 0 THEN NumElementsIn(xs) - 1 ELSE p - 1)
            BY ONLY <1>1, <1>3, <2>1, PrevPrecedes
        <3>2. QED
            BY ONLY <1>1, <1>2, <1>3, <3>1, ms = E!PrevCanonical(xs, ns), q = IF p = 0 THEN S - 1 ELSE p - 1
    <2>2. CASE p = S
        <3>1. E!PrevCanonical(xs, FromLinear(xs, NumElementsIn(xs))) = FromLinear(xs, NumElementsIn(xs) - 1)
            <4>1. NumElementsIn(xs) # 0
                BY ONLY <1>1, <1>3
            <4>2. QED
                BY ONLY <1>1, <4>1, PrevOfBehind
        <3>2. q = S - 1
            BY ONLY <1>3, <2>2, q = IF p = 0 THEN S - 1 ELSE p - 1
        <3>3. QED
            BY ONLY <1>1, <1>2, <1>3, <2>2, <3>1, <3>2, ms = E!PrevCanonical(xs, ns)
    <2>3. p < S \/ p = S
        BY ONLY <1>1, <1>2
    <2>4. QED
        BY ONLY <2>1, <2>2, <2>3
<1>6. E!Decremented(i) = Pointing(r, n - 1, ms)
    <2> PICK u : u = [i EXCEPT !.ns = ms]
        OBVIOUS
    <2>1. E!Decremented(i) = [u EXCEPT !.n = n - 1]
        BY <1>2 DEF E!Decremented
    <2>2. u = Pointing(r, n, ms)
        BY <1>2 DEF Pointing
    <2>3. [u EXCEPT !.n = n - 1] = Pointing(r, n - 1, ms)
        BY ONLY <2>2 DEF Pointing
    <2>4. QED
        BY ONLY <2>1, <2>3
<1>7. Positioned(r, E!Decremented(i), q)
    BY <1>3, <1>4, <1>5, <1>6 DEF Positioned
<1>8. E!Decremented(i).n = n - 1
    BY ONLY <1>6 DEF Pointing
<1>9. QED
    BY <1>7, <1>8

\* The indices made from a position give the position back, also behind the last.
LEMMA PositionOfIndices ==
    ASSUME E!IteratorsAssumption, NEW r, IsRange(r), E!Count(r) # 0, NEW p \in 0 .. E!Count(r)
    PROVE  ToLinear(Extensions(r.dims), FromLinear(Extensions(r.dims), p)) = p
<1> PICK xs, S, N : xs = Extensions(r.dims) /\ S = E!Count(r) /\ N = Len(r.dims)
    OBVIOUS
<1>1. S \in Nat /\ S = NumElementsIn(xs) /\ N \in Nat /\ N # 0 /\ Boxed(xs, N)
    BY RangeFacts
<1>2. \A m \in Nat : m < S => ToLinear(xs, FromLinear(xs, m)) = m
    BY ONLY <1>1, FromLinearInBox
<1>3. ToLinear(xs, FromLinear(xs, S)) = S
    <2>1. S # 0
        OBVIOUS
    <2>2. QED
        BY ONLY <1>1, <2>1, PlaceBehind
<1>4. p \in Nat /\ (p < S \/ p = S)
    BY <1>1
<1>5. QED
    BY ONLY <1>2, <1>3, <1>4, xs = Extensions(r.dims)

\* A jump moves number and indices by the same.
LEMMA AdvancedIsPositioned ==
    ASSUME E!IteratorsAssumption, NEW r, IsRange(r), NEW i, NEW p, Positioned(r, i, p), NEW k \in Int,
           i.n + k \in 0 .. E!Count(r), p + k \in 0 .. E!Count(r)
    PROVE  Positioned(r, E!Advanced(i, k), p + k) /\ E!Advanced(i, k).n = i.n + k
<1> PICK xs, S, n, ns : xs = Extensions(r.dims) /\ S = E!Count(r) /\ n = i.n /\ ns = i.ns
    OBVIOUS
<1>1. /\ p \in 0 .. S /\ n \in 0 .. S
      /\ i = Pointing(r, n, ns) /\ i.xs = xs /\ (S # 0 => ns = FromLinear(xs, p))
    BY PositionedParts
<1> PICK ms : ms = FromLinear(xs, ToLinear(xs, ns) + k)
    OBVIOUS
<1>2. E!Advanced(i, k) = Pointing(r, n + k, ms)
    <2>1. E!FromLinear(xs, E!ToLinear(xs, ns) + k) = ms
        BY SameExtensions
    <2> PICK u : u = [i EXCEPT !.ns = ms]
        OBVIOUS
    <2>2. E!Advanced(i, k) = [u EXCEPT !.n = n + k]
        BY <1>1, <2>1 DEF E!Advanced
    <2>3. u = Pointing(r, n, ms)
        BY <1>1 DEF Pointing
    <2>4. [u EXCEPT !.n = n + k] = Pointing(r, n + k, ms)
        BY ONLY <2>3 DEF Pointing
    <2>5. QED
        BY ONLY <2>2, <2>4
<1>3. ASSUME S # 0 PROVE ms = FromLinear(xs, p + k)
    <2>1. ToLinear(xs, FromLinear(xs, p)) = p
        BY <1>1, <1>3, PositionOfIndices
    <2>2. QED
        BY ONLY <1>1, <1>3, <2>1, ms = FromLinear(xs, ToLinear(xs, ns) + k)
<1>4. Positioned(r, E!Advanced(i, k), p + k)
    <2>1. n + k \in 0 .. S /\ p + k \in 0 .. S
        OBVIOUS
    <2>2. QED
        BY ONLY <1>2, <1>3, <2>1, xs = Extensions(r.dims), S = E!Count(r) DEF Positioned
<1>5. E!Advanced(i, k).n = n + k
    BY ONLY <1>2 DEF Pointing
<1>6. QED
    BY <1>4, <1>5

\* operator-= moves the number alone.
LEMMA RetreatedIsPositioned ==
    ASSUME NEW r, NEW i, NEW p, Positioned(r, i, p), NEW k \in Int, i.n - k \in 0 .. E!Count(r)
    PROVE  Positioned(r, E!Retreated(i, k), p) /\ E!Retreated(i, k).n = i.n - k
<1> PICK n, ns : n = i.n /\ ns = i.ns
    OBVIOUS
<1>1. /\ p \in 0 .. E!Count(r) /\ i = Pointing(r, n, ns)
      /\ E!Count(r) # 0 => ns = FromLinear(Extensions(r.dims), p)
    BY PositionedParts
<1>2. E!Retreated(i, k) = Pointing(r, n - k, ns)
    <2>1. E!Retreated(i, k) = [i EXCEPT !.n = n - k]
        BY DEF E!Retreated
    <2>2. [i EXCEPT !.n = n - k] = Pointing(r, n - k, ns)
        BY ONLY <1>1 DEF Pointing
    <2>3. QED
        BY ONLY <2>1, <2>2
<1>3. Positioned(r, E!Retreated(i, k), p)
    BY <1>1, <1>2 DEF Positioned
<1>4. E!Retreated(i, k).n = n - k
    BY ONLY <1>2 DEF Pointing
<1>5. QED
    BY <1>3, <1>4

\* operator= between iterators of one layout leaves the indices at their position.
LEMMA AssignedIsPositioned ==
    ASSUME NEW r, NEW i, NEW p, Positioned(r, i, p), NEW q, NEW j, NEW m, Positioned(q, j, m), i.l = j.l
    PROVE  Positioned(q, E!Assigned(i, j), p) /\ E!Assigned(i, j).n = j.n
<1> PICK n, ns : n = i.n /\ ns = i.ns
    OBVIOUS
<1> PICK o : o = j.n
    OBVIOUS
<1>1. /\ p \in 0 .. E!Count(r) /\ i = Pointing(r, n, ns) /\ i.l = r.dims
      /\ E!Count(r) # 0 => ns = FromLinear(Extensions(r.dims), p)
    BY PositionedParts
<1>2. o \in 0 .. E!Count(q) /\ j.base = q.base /\ j.l = q.dims /\ j.xs = Extensions(q.dims)
    BY PositionedParts
<1>3. r.dims = q.dims /\ E!Count(r) = E!Count(q)
    BY <1>1, <1>2 DEF E!Count
<1>4. E!Assigned(i, j) = Pointing(q, o, ns)
    <2> PICK a : a = [i EXCEPT !.base = q.base]
        OBVIOUS
    <2> PICK b : b = [a EXCEPT !.xs = Extensions(q.dims)]
        OBVIOUS
    <2> PICK c : c = [b EXCEPT !.n = o]
        OBVIOUS
    <2>1. E!Assigned(i, j) = c
        BY <1>2 DEF E!Assigned
    <2>2. i = [base |-> r.base, l |-> q.dims, n |-> n, xs |-> Extensions(r.dims), ns |-> ns]
        BY ONLY <1>1, <1>3 DEF Pointing
    <2>3. a = [base |-> q.base, l |-> q.dims, n |-> n, xs |-> Extensions(r.dims), ns |-> ns]
        BY ONLY <2>2, a = [i EXCEPT !.base = q.base]
    <2>4. b = [base |-> q.base, l |-> q.dims, n |-> n, xs |-> Extensions(q.dims), ns |-> ns]
        BY ONLY <2>3, b = [a EXCEPT !.xs = Extensions(q.dims)]
    <2>5. c = [base |-> q.base, l |-> q.dims, n |-> o, xs |-> Extensions(q.dims), ns |-> ns]
        BY ONLY <2>4, c = [b EXCEPT !.n = o]
    <2>6. QED
        BY ONLY <2>1, <2>5 DEF Pointing
<1>5. Positioned(q, E!Assigned(i, j), p)
    BY ONLY <1>1, <1>2, <1>3, <1>4 DEF Positioned
<1>6. E!Assigned(i, j).n = o
    BY ONLY <1>4 DEF Pointing
<1>7. QED
    BY <1>5, <1>6

--------------------------------------------------------------------------------
\* The inductive invariant: the indices of an iterator that has not gone astray are
\* those of the position that the history gives it, and its other members those of
\* the view that it is over.
ElementsInv ==
    /\ DOMAIN elementsIt = Iterators /\ DOMAIN elementsOver = Iterators /\ DOMAIN skew = Iterators
    /\ \A x \in Iterators : IsRange(elementsOver[x]) /\ skew[x] \in Int
    /\ \A x \in Iterators \ astray : Positioned(elementsOver[x], elementsIt[x], E!Position(x))

LEMMA ElementsInit == E!IteratorsAssumption /\ E!Init => ElementsInv
<1> SUFFICES ASSUME E!IteratorsAssumption, E!Init PROVE ElementsInv
    OBVIOUS
<1>1. DOMAIN elementsIt = Iterators /\ DOMAIN elementsOver = Iterators /\ DOMAIN skew = Iterators
    BY DEF E!Init
<1>2. ASSUME NEW x \in Iterators
      PROVE  /\ IsRange(elementsOver[x]) /\ skew[x] \in Int
             /\ Positioned(elementsOver[x], elementsIt[x], E!Position(x))
    <2>1. IsRange(elementsOver[x])
        BY DEF E!Init, IsRange
    <2>2. elementsIt[x] = E!Made(E!RangeOf(elementsOver[x]), 0) /\ skew[x] = 0
        BY DEF E!Init
    <2>3. 0 \in 0 .. E!Count(elementsOver[x])
        <3>1. E!Count(elementsOver[x]) \in Nat
            BY <2>1, RangeFacts
        <3>2. QED
            BY <3>1
    <2>4. Positioned(elementsOver[x], elementsIt[x], 0) /\ elementsIt[x].n = 0
        BY <2>1, <2>2, <2>3, MadeIsPositioned
    <2>5. E!Position(x) = 0
        BY <2>2, <2>4 DEF E!Position
    <2>6. QED
        BY <2>1, <2>2, <2>4, <2>5
<1>3. QED
    BY <1>1, <1>2 DEF ElementsInv

LEMMA BecomesKeeps ==
    ASSUME ElementsInv, NEW x \in Iterators, NEW i, NEW r, NEW s \in Int, E!Becomes(x, i, r, s),
           IsRange(r), Positioned(r, i, i.n + s)
    PROVE  ElementsInv'
<1>1. /\ elementsIt' = [elementsIt EXCEPT ![x] = i] /\ elementsOver' = [elementsOver EXCEPT ![x] = r]
      /\ skew' = [skew EXCEPT ![x] = s] /\ astray' = astray \ {x}
    BY DEF E!Becomes
<1>2. ASSUME NEW y \in Iterators PROVE IsRange(elementsOver'[y]) /\ skew'[y] \in Int
    BY <1>1 DEF ElementsInv
<1>3. ASSUME NEW y \in Iterators \ astray'
      PROVE  Positioned(elementsOver'[y], elementsIt'[y], elementsIt'[y].n + skew'[y])
    <2>1. CASE y = x
        <3>1. elementsOver'[y] = r /\ elementsIt'[y] = i /\ skew'[y] = s
            BY <1>1, <2>1 DEF ElementsInv
        <3>2. QED
            BY <3>1
    <2>2. CASE y # x
        <3>1. elementsOver'[y] = elementsOver[y] /\ elementsIt'[y] = elementsIt[y] /\ skew'[y] = skew[y]
            BY <1>1, <2>2 DEF ElementsInv
        <3>2. y \in Iterators \ astray
            BY <1>1, <2>2
        <3>3. QED
            BY <3>1, <3>2 DEF ElementsInv, E!Position
    <2>3. QED
        BY <2>1, <2>2
<1>4. DOMAIN elementsIt' = Iterators /\ DOMAIN elementsOver' = Iterators /\ DOMAIN skew' = Iterators
    BY <1>1 DEF ElementsInv
<1>5. (\A y \in Iterators : IsRange(elementsOver[y]) /\ skew[y] \in Int)'
    BY <1>2
<1>6. (\A y \in Iterators \ astray : Positioned(elementsOver[y], elementsIt[y], E!Position(y)))'
    BY <1>3 DEF E!Position
<1>7. QED
    BY <1>4, <1>5, <1>6 DEF ElementsInv

LEMMA StraysKeeps ==
    ASSUME ElementsInv, NEW x \in Iterators, NEW i, NEW r, E!Strays(x, i, r), IsRange(r)
    PROVE  ElementsInv'
<1>1. /\ elementsIt' = [elementsIt EXCEPT ![x] = i] /\ elementsOver' = [elementsOver EXCEPT ![x] = r]
      /\ skew' = [skew EXCEPT ![x] = 0] /\ astray' = astray \cup {x}
    BY DEF E!Strays
<1>2. ASSUME NEW y \in Iterators PROVE IsRange(elementsOver'[y]) /\ skew'[y] \in Int
    BY <1>1 DEF ElementsInv
<1>3. ASSUME NEW y \in Iterators \ astray'
      PROVE  Positioned(elementsOver'[y], elementsIt'[y], elementsIt'[y].n + skew'[y])
    <2>1. y # x /\ y \in Iterators \ astray
        BY <1>1
    <2>2. elementsOver'[y] = elementsOver[y] /\ elementsIt'[y] = elementsIt[y] /\ skew'[y] = skew[y]
        BY <1>1, <2>1 DEF ElementsInv
    <2>3. QED
        BY <2>1, <2>2 DEF ElementsInv, E!Position
<1>4. DOMAIN elementsIt' = Iterators /\ DOMAIN elementsOver' = Iterators /\ DOMAIN skew' = Iterators
    BY <1>1 DEF ElementsInv
<1>5. (\A y \in Iterators : IsRange(elementsOver[y]) /\ skew[y] \in Int)'
    BY <1>2
<1>6. (\A y \in Iterators \ astray : Positioned(elementsOver[y], elementsIt[y], E!Position(y)))'
    BY <1>3 DEF E!Position
<1>7. QED
    BY <1>4, <1>5, <1>6 DEF ElementsInv

LEMMA ElementsNext == E!IteratorsAssumption /\ ElementsInv /\ [E!Next]_(E!vars) => ElementsInv'
<1> SUFFICES ASSUME E!IteratorsAssumption, ElementsInv, [E!Next]_(E!vars) PROVE ElementsInv'
    OBVIOUS
<1>1. CASE UNCHANGED E!vars
    BY <1>1 DEF ElementsInv, E!vars, IsRange, Positioned, E!Position
<1>2. ASSUME NEW x \in Iterators
      PROVE  IsRange(elementsOver[x]) /\ skew[x] \in Int /\ E!Count(elementsOver[x]) \in Nat
    <2>1. IsRange(elementsOver[x]) /\ skew[x] \in Int
        BY DEF ElementsInv
    <2>2. QED
        BY <2>1, RangeFacts
\* An iterator that has not gone astray.
<1>3. ASSUME NEW x \in Iterators, x \notin astray
      PROVE  /\ Positioned(elementsOver[x], elementsIt[x], E!Position(x))
             /\ E!Position(x) = elementsIt[x].n + skew[x]
             /\ E!Position(x) \in 0 .. E!Count(elementsOver[x])
             /\ elementsIt[x].n \in 0 .. E!Count(elementsOver[x])
    <2>1. Positioned(elementsOver[x], elementsIt[x], E!Position(x))
        BY <1>3 DEF ElementsInv
    <2>2. QED
        BY <2>1, PositionedParts DEF E!Position
<1>4. ASSUME NEW x \in Iterators, NEW r \in Ranges, E!Begin(x, r) \/ E!End(x, r) PROVE ElementsInv'
    <2>1. IsRange(r)
        BY <1>4 DEF E!Begin, E!End, IsRange
    <2>2. E!Count(r) \in Nat
        BY <2>1, RangeFacts
    <2>3. PICK n \in 0 .. E!Count(r) : E!Becomes(x, E!Made(E!RangeOf(r), n), r, 0)
        <3>1. 0 \in 0 .. E!Count(r) /\ E!Count(r) \in 0 .. E!Count(r)
            BY <2>2
        <3>2. QED
            BY <1>4, <3>1 DEF E!Begin, E!End
    <2>4. Positioned(r, E!Made(E!RangeOf(r), n), n) /\ E!Made(E!RangeOf(r), n).n + 0 = n
        BY <2>1, MadeIsPositioned
    <2>5. QED
        BY <2>1, <2>3, <2>4, BecomesKeeps
<1>5. ASSUME NEW x \in Iterators, NEW y \in Iterators, E!Copy(x, y) PROVE ElementsInv'
    <2>1. CASE y \in astray
        BY <1>2, <1>5, <2>1, StraysKeeps DEF E!Copy
    <2>2. CASE y \notin astray
        <3>1. E!Becomes(x, elementsIt[y], elementsOver[y], skew[y])
            BY <1>5, <2>2 DEF E!Copy
        <3>2. Positioned(elementsOver[y], elementsIt[y], elementsIt[y].n + skew[y])
            BY <1>3, <2>2
        <3>3. QED
            BY <1>2, <3>1, <3>2, BecomesKeeps
    <2>3. QED
        BY <2>1, <2>2
<1>6. ASSUME NEW x \in Iterators, NEW y \in Iterators, E!Convert(x, y) PROVE ElementsInv'
    <2>1. CASE y \in astray
        BY <1>2, <1>6, <2>1, StraysKeeps DEF E!Convert
    <2>2. CASE y \notin astray
        <3> PICK c : c = E!Converted(elementsIt[y])
            OBVIOUS
        <3>1. E!Becomes(x, c, elementsOver[y], 0)
            BY <1>6, <2>2 DEF E!Convert
        <3>2. Positioned(elementsOver[y], c, elementsIt[y].n) /\ c.n = elementsIt[y].n
            BY <1>2, <1>3, <2>2, ConvertedIsPositioned
        <3>3. c.n + 0 = elementsIt[y].n
            BY <1>3, <2>2, <3>2
        <3>4. QED
            BY <1>2, <3>1, <3>2, <3>3, BecomesKeeps
    <2>3. QED
        BY <2>1, <2>2
<1>7. ASSUME NEW x \in Iterators, NEW y \in Iterators, E!Assign(x, y) PROVE ElementsInv'
    <2> PICK c : c = E!Assigned(elementsIt[x], elementsIt[y])
        OBVIOUS
    <2>1. CASE x \notin astray /\ y \notin astray /\ elementsIt[x].l = elementsIt[y].l
        <3>1. E!Becomes(x, c, elementsOver[y], E!Position(x) - elementsIt[y].n)
            BY <1>7, <2>1 DEF E!Assign
        <3>2. Positioned(elementsOver[y], c, E!Position(x)) /\ c.n = elementsIt[y].n
            BY <1>3, <2>1, AssignedIsPositioned
        <3> PICK s : s = E!Position(x) - elementsIt[y].n
            OBVIOUS
        <3>3. s \in Int /\ c.n + s = E!Position(x)
            BY <1>3, <2>1, <3>2
        <3>4. QED
            BY <1>2, <3>1, <3>2, <3>3, BecomesKeeps
    <2>2. CASE ~(x \notin astray /\ y \notin astray /\ elementsIt[x].l = elementsIt[y].l)
        <3>1. E!Strays(x, c, elementsOver[y])
            BY <1>7, <2>2 DEF E!Assign
        <3>2. QED
            BY <1>2, <3>1, StraysKeeps
    <2>3. QED
        BY <2>1, <2>2
<1>8. ASSUME NEW x \in Iterators, NEW y \in Iterators, NEW k \in E!Steps(x), E!Plus(x, y, k) PROVE ElementsInv'
    <2> PICK c : c = E!Advanced(elementsIt[x], k)
        OBVIOUS
    <2>1. k \in Int
        BY <1>2 DEF E!Steps
    <2>2. x \notin astray /\ elementsIt[x].n + k \in 0 .. E!Count(elementsOver[x])
        BY <1>8 DEF E!Plus, E!Movable
    <2>3. CASE E!Position(x) + k \in 0 .. E!Count(elementsOver[x])
        <3>1. E!Becomes(y, c, elementsOver[x], skew[x])
            BY <1>8, <2>3 DEF E!Plus
        <3>2. Positioned(elementsOver[x], c, E!Position(x) + k) /\ c.n = elementsIt[x].n + k
            BY <1>2, <1>3, <2>1, <2>2, <2>3, AdvancedIsPositioned
        <3>3. c.n + skew[x] = E!Position(x) + k
            BY <1>2, <1>3, <2>1, <2>2, <3>2
        <3>4. QED
            BY <1>2, <3>1, <3>2, <3>3, BecomesKeeps
    <2>4. CASE E!Position(x) + k \notin 0 .. E!Count(elementsOver[x])
        <3>1. E!Strays(y, c, elementsOver[x])
            BY <1>8, <2>4 DEF E!Plus
        <3>2. QED
            BY <1>2, <3>1, StraysKeeps
    <2>5. QED
        BY <2>3, <2>4
<1>9. ASSUME NEW x \in Iterators, NEW y \in Iterators, NEW k \in E!Steps(x), E!Minus(x, y, k) PROVE ElementsInv'
    <2> PICK c : c = E!Retreated(elementsIt[x], k)
        OBVIOUS
    <2>1. k \in Int
        BY <1>2 DEF E!Steps
    <2>2. /\ x \notin astray /\ elementsIt[x].n - k \in 0 .. E!Count(elementsOver[x])
          /\ E!Becomes(y, c, elementsOver[x], skew[x] + k)
        BY <1>9 DEF E!Minus, E!Movable
    <2>3. Positioned(elementsOver[x], c, E!Position(x)) /\ c.n = elementsIt[x].n - k
        BY <1>3, <2>1, <2>2, RetreatedIsPositioned
    <2> PICK s : s = skew[x] + k
        OBVIOUS
    <2>4. s \in Int /\ c.n + s = E!Position(x)
        <3> PICK n \in Int, t \in Int : n = elementsIt[x].n /\ t = skew[x]
            BY <1>2, <1>3, <2>2
        <3>1. c.n = n - k /\ s = t + k /\ E!Position(x) = n + t
            BY <1>3, <2>2, <2>3
        <3>2. QED
            BY ONLY <2>1, <3>1, n \in Int, t \in Int
    <2>5. QED
        BY <1>2, <2>2, <2>3, <2>4, BecomesKeeps
<1>10. ASSUME NEW x \in Iterators, E!Increment(x) PROVE ElementsInv'
    <2> PICK c, r, p, n : c = E!Incremented(elementsIt[x]) /\ r = elementsOver[x] /\ p = E!Position(x) /\ n = elementsIt[x].n
        OBVIOUS
    <2>1. x \notin astray /\ n < E!Count(r)
        BY <1>10 DEF E!Increment, E!Movable
    <2>2. PICK S \in Nat : S = E!Count(r)
        BY <1>2
    <2>3. PICK t \in Int : t = skew[x]
        BY <1>2
    <2>4. n \in 0 .. S /\ p \in 0 .. S /\ p = n + t
        BY <1>3, <2>1, <2>2, <2>3
    <2>5. CASE p = S
        <3>1. p # S - 1 /\ ~(p < S - 1)
            BY ONLY <2>5, S \in Nat
        <3>2. E!Strays(x, c, r)
            BY <1>10, <2>2, <3>1 DEF E!Increment
        <3>3. QED
            BY <1>2, <3>2, StraysKeeps
    <2>6. CASE p < S
        <3> PICK q : q = IF p + 1 = S THEN 0 ELSE p + 1
            OBVIOUS
        <3>1. Positioned(r, c, q) /\ c.n = n + 1
            BY <1>2, <1>3, <2>1, <2>2, <2>6, IncrementedIsPositioned
        <3> PICK s : s = IF p + 1 = S THEN t - S ELSE t
            OBVIOUS
        <3>2. s \in Int /\ (n + 1) + s = q
            BY ONLY <2>4, <2>6, S \in Nat, t \in Int, s = IF p + 1 = S THEN t - S ELSE t,
                    q = IF p + 1 = S THEN 0 ELSE p + 1
        <3>3. E!Becomes(x, c, r, s)
            <4>1. CASE p = S - 1
                <5>1. p # S /\ ~(p < S - 1) /\ s = t - S
                    BY <2>4, <4>1
                <5>2. QED
                    BY <1>10, <2>2, <2>3, <5>1 DEF E!Increment
            <4>2. CASE p # S - 1
                <5>1. p # S /\ p < S - 1 /\ s = t
                    BY <2>4, <2>6, <4>2
                <5>2. QED
                    BY <1>10, <2>2, <2>3, <4>2, <5>1 DEF E!Increment
            <4>3. QED
                BY <4>1, <4>2
        <3>4. QED
            BY <1>2, <3>1, <3>2, <3>3, BecomesKeeps
    <2>7. p = S \/ p < S
        BY ONLY <2>4, S \in Nat
    <2>8. QED
        BY <2>5, <2>6, <2>7
<1>11. ASSUME NEW x \in Iterators, E!Decrement(x) PROVE ElementsInv'
    <2> PICK c, r, p, n : c = E!Decremented(elementsIt[x]) /\ r = elementsOver[x] /\ p = E!Position(x) /\ n = elementsIt[x].n
        OBVIOUS
    <2>1. x \notin astray /\ n > 0
        BY <1>11 DEF E!Decrement, E!Movable
    <2>2. PICK S \in Nat : S = E!Count(r)
        BY <1>2
    <2>3. PICK t \in Int : t = skew[x]
        BY <1>2
    <2>4. n \in 0 .. S /\ p \in 0 .. S /\ p = n + t
        BY <1>3, <2>1, <2>2, <2>3
    <2> PICK q : q = IF p = 0 THEN S - 1 ELSE p - 1
        OBVIOUS
    <2>5. Positioned(r, c, q) /\ c.n = n - 1
        BY <1>2, <1>3, <2>1, <2>2, DecrementedIsPositioned
    <2> PICK s : s = IF p = 0 THEN t + S ELSE t
        OBVIOUS
    <2>6. s \in Int /\ (n - 1) + s = q
        BY ONLY <2>4, S \in Nat, t \in Int, s = IF p = 0 THEN t + S ELSE t, q = IF p = 0 THEN S - 1 ELSE p - 1
    <2>7. E!Becomes(x, c, r, s)
        <3>1. CASE p = 0
            <4>1. ~(p > 0) /\ s = t + S
                BY <3>1
            <4>2. QED
                BY <1>11, <2>2, <2>3, <4>1 DEF E!Decrement
        <3>2. CASE p # 0
            <4>1. p # 0 /\ s = t
                BY <3>2
            <4>2. QED
                BY <1>11, <2>2, <2>3, <4>1 DEF E!Decrement
        <3>3. QED
            BY <3>1, <3>2
    <2>8. QED
        BY <1>2, <2>5, <2>6, <2>7, BecomesKeeps
<1>12. CASE E!Next
    BY <1>4, <1>5, <1>6, <1>7, <1>8, <1>9, <1>10, <1>11, <1>12 DEF E!Next
<1>13. QED
    BY <1>1, <1>12

--------------------------------------------------------------------------------
(* What the properties say of an iterator at a position.                      *)

\* The n-th element of a view is at the n-th index.
LEMMA NthIsAt ==
    ASSUME E!IteratorsAssumption, NEW r, IsRange(r), NEW n \in 0 .. E!Count(r) - 1
    PROVE  /\ E!Nth(r, n) = Address(r, FromLinear(Extensions(r.dims), n))
           /\ E!Nth(r, n) = r.base + At(r.dims, FromLinear(Extensions(r.dims), n))
           /\ E!Nth(r, n) = ElementAt(r, n)
<1> PICK xs, S, N : xs = Extensions(r.dims) /\ S = E!Count(r) /\ N = Len(r.dims)
    OBVIOUS
<1>1. /\ r.base \in Int /\ N \in Nat /\ IsZeroBased(r.dims, N) /\ Boxed(xs, N)
      /\ S \in Nat /\ S = NumElements(r.dims) /\ S = NumElementsIn(xs)
    BY RangeFacts
<1>2. n \in Nat /\ n < S /\ n \in 0 .. S - 1
    BY <1>1
<1> PICK i : i = FromLinear(xs, n)
    OBVIOUS
<1>3. InBox(i, xs, N) /\ ToLinear(xs, i) = n
    BY ONLY <1>1, <1>2, i = FromLinear(xs, n), FromLinearInBox
<1>4. i \in Indices(xs)
    BY ONLY <1>1, <1>3, IndicesOfBox
<1> DEFINE Before_(j) == {k \in Indices(xs) : Before(k, j)}
<1>5. \A j \in Indices(xs) : Cardinality(Before_(j)) = ToLinear(xs, j) /\ FromLinear(xs, ToLinear(xs, j)) = j
    BY ONLY <1>1, CountIndices
<1>6. \A j : {k \in Indices(xs) : E!Precedes(k, j)} = Before_(j)
    BY DEF E!Precedes, Before
<1>7. E!Nth(r, n) = Address(r, CHOOSE j \in Indices(xs) : Cardinality(Before_(j)) = n)
    <2>1. E!Indices(E!Extensions(r.dims)) = Indices(xs)
        BY SameLayouts, SameExtensions
    <2>2. \A j : E!Address(r, j) = Address(r, j)
        BY SameLayouts
    <2>3. E!Nth(r, n) = E!Address(r, CHOOSE j \in Indices(xs) : Cardinality({k \in Indices(xs) : E!Precedes(k, j)}) = n)
        <3>1. \A T : E!Cardinality(T) = Cardinality(T)
            BY DEF E!Cardinality, Cardinality
        <3>2. r \in Ranges
            BY DEF IsRange
        <3>3. QED
            BY <2>1, <3>1, <3>2 DEF E!Nth, E!Listed
    <2>4. E!Nth(r, n) = E!Address(r, CHOOSE j \in Indices(xs) : Cardinality(Before_(j)) = n)
        BY <1>6, <2>3
    <2> HIDE DEF Before_
    <2>5. QED
        BY <2>2, <2>4
<1> HIDE DEF Before_
<1>8. (CHOOSE j \in Indices(xs) : Cardinality(Before_(j)) = n) = i
    <2>1. Cardinality(Before_(i)) = n
        BY ONLY <1>3, <1>4, <1>5
    <2> PICK c : c = CHOOSE j \in Indices(xs) : Cardinality(Before_(j)) = n
        OBVIOUS
    <2>2. c \in Indices(xs) /\ Cardinality(Before_(c)) = n
        BY <1>4, <2>1
    <2>3. c = i
        BY ONLY <1>3, <1>4, <1>5, <2>2
    <2>4. QED
        BY <2>3
<1>9. E!Nth(r, n) = Address(r, i)
    BY <1>7, <1>8
<1>10. Address(r, i) = r.base + At(r.dims, i)
    <2>1. i \in Seq(Int) /\ Len(i) = N
        BY <1>3 DEF InBox
    <2>2. QED
        BY <1>1, <2>1, AddressAt
<1>11. ElementAt(r, n) = Address(r, i)
    BY <1>1, <1>2, ElementAtIsAddress
<1>12. QED
    BY ONLY <1>9, <1>10, <1>11, i = FromLinear(xs, n), xs = Extensions(r.dims)

\* Dereferencing the indices of position n finds that element.
LEMMA DereferencedAt ==
    ASSUME E!IteratorsAssumption, NEW r, IsRange(r), NEW n \in 0 .. E!Count(r) - 1,
           NEW i, i.base = r.base, i.l = r.dims, i.ns = FromLinear(Extensions(r.dims), n)
    PROVE  E!Dereferenced(i) = E!Nth(r, n)
<1>1. E!Dereferenced(i) = r.base + At(r.dims, FromLinear(Extensions(r.dims), n))
    BY SameLayouts DEF E!Dereferenced
<1>2. QED
    BY <1>1, NthIsAt

\* An iterator whose indices are not those behind the last.
LEMMA InsideIsNth ==
    ASSUME E!IteratorsAssumption, NEW r, IsRange(r), NEW i, NEW p, Positioned(r, i, p), p < E!Count(r)
    PROVE  /\ p \in 0 .. E!Count(r) - 1 /\ E!Count(r) # 0 /\ i.ns = FromLinear(Extensions(r.dims), p)
           /\ E!Dereferenced(i) = E!Nth(r, p)
<1>1. PICK S \in Nat : S = E!Count(r)
    BY RangeFacts
<1>2. /\ p \in 0 .. E!Count(r) /\ i.base = r.base /\ i.l = r.dims
      /\ E!Count(r) # 0 => i.ns = FromLinear(Extensions(r.dims), p)
    BY PositionedParts
<1>3. p \in 0 .. S - 1 /\ S # 0
    BY ONLY <1>1, <1>2, p < E!Count(r)
<1>4. E!Dereferenced(i) = E!Nth(r, p)
    BY <1>1, <1>2, <1>3, DereferencedAt
<1>5. QED
    BY ONLY <1>1, <1>2, <1>3, <1>4

\* front() and back().
LEMMA FrontAndBack ==
    ASSUME E!IteratorsAssumption, NEW r, IsRange(r), E!Count(r) # 0
    PROVE  E!FrontOf(E!RangeOf(r)) = E!Nth(r, 0) /\ E!BackOf(E!RangeOf(r)) = E!Nth(r, E!Count(r) - 1)
<1>1. PICK S \in Nat : S = E!Count(r) /\ S # 0
    BY RangeFacts
<1>2. 0 \in 0 .. E!Count(r) /\ S \in 0 .. E!Count(r) /\ 0 < S /\ S > 0 /\ S - 1 < S
    BY <1>1
<1>3. E!FrontOf(E!RangeOf(r)) = E!Nth(r, 0)
    <2> PICK i : i = E!Made(E!RangeOf(r), 0)
        OBVIOUS
    <2>1. Positioned(r, i, 0)
        BY <1>2, MadeIsPositioned
    <2>2. E!Dereferenced(i) = E!Nth(r, 0)
        BY <1>1, <1>2, <2>1, InsideIsNth
    <2>3. QED
        BY <2>2 DEF E!FrontOf
<1>4. E!BackOf(E!RangeOf(r)) = E!Nth(r, S - 1)
    <2> PICK e, i : e = E!Made(E!RangeOf(r), S) /\ i = E!Decremented(e)
        OBVIOUS
    <2>1. Positioned(r, e, S) /\ e.n = S
        BY <1>2, MadeIsPositioned
    <2>2. Positioned(r, i, IF S = 0 THEN E!Count(r) - 1 ELSE S - 1)
        BY <1>2, <2>1, DecrementedIsPositioned
    <2>3. Positioned(r, i, S - 1)
        BY <1>1, <2>2
    <2>4. E!Dereferenced(i) = E!Nth(r, S - 1)
        BY <1>1, <1>2, <2>3, InsideIsNth
    <2>5. E!NumElements(E!RangeOf(r).l) = S
        BY <1>1 DEF E!RangeOf, E!Count
    <2>6. QED
        BY <2>4, <2>5 DEF E!BackOf
<1>5. QED
    BY <1>1, <1>3, <1>4

\* it[k] is the element k positions on from where the indices are.
LEMMA SubscriptedAt ==
    ASSUME E!IteratorsAssumption, NEW r, IsRange(r), NEW i, NEW p, Positioned(r, i, p), NEW k \in Int,
           p + k \in 0 .. E!Count(r) - 1
    PROVE  E!Subscripted(i, k) = E!Nth(r, p + k)
<1>1. PICK S \in Nat : S = E!Count(r) /\ S # 0
    BY RangeFacts
<1>2. /\ p \in 0 .. E!Count(r) /\ i.base = r.base /\ i.l = r.dims /\ i.xs = Extensions(r.dims)
      /\ i.ns = FromLinear(Extensions(r.dims), p)
    BY <1>1, PositionedParts
<1>3. ToLinear(i.xs, i.ns) = p
    BY <1>1, <1>2, PositionOfIndices
<1>4. E!Subscripted(i, k) = r.base + At(r.dims, FromLinear(Extensions(r.dims), p + k))
    BY <1>2, <1>3, SameExtensions, SameLayouts DEF E!Subscripted
<1>5. E!Nth(r, p + k) = r.base + At(r.dims, FromLinear(Extensions(r.dims), p + k))
    BY NthIsAt
<1>6. QED
    BY ONLY <1>4, <1>5

\* Indices of two positions that are not behind the last: the elements are the same
\* only if the positions are, and the order of the indices is that of the positions.
LEMMA PositionsTellElements ==
    ASSUME E!IteratorsAssumption, E!ElementsApart, NEW r, IsRange(r),
           NEW i, NEW p, Positioned(r, i, p), p < E!Count(r),
           NEW j, NEW q, Positioned(r, j, q), q < E!Count(r)
    PROVE  /\ E!Dereferenced(i) = E!Dereferenced(j) <=> p = q
           /\ E!Precedes(i.ns, j.ns) <=> p < q
<1> PICK xs, N : xs = Extensions(r.dims) /\ N = Len(r.dims)
    OBVIOUS
<1>1. PICK S \in Nat : S = E!Count(r) /\ S = NumElementsIn(xs) /\ N \in Nat /\ Boxed(xs, N)
    BY RangeFacts
<1>2. p \in 0 .. E!Count(r) - 1 /\ i.ns = FromLinear(xs, p) /\ E!Dereferenced(i) = E!Nth(r, p)
    BY InsideIsNth
<1>3. q \in 0 .. E!Count(r) - 1 /\ j.ns = FromLinear(xs, q) /\ E!Dereferenced(j) = E!Nth(r, q)
    BY InsideIsNth
<1>4. InBox(i.ns, xs, N) /\ ToLinear(xs, i.ns) = p /\ InBox(j.ns, xs, N) /\ ToLinear(xs, j.ns) = q
    <2>1. p \in Nat /\ p < NumElementsIn(xs) /\ q \in Nat /\ q < NumElementsIn(xs)
        BY <1>1, <1>2, <1>3
    <2>2. QED
        BY ONLY <1>1, <1>2, <1>3, <2>1, FromLinearInBox
<1>5. E!Precedes(i.ns, j.ns) <=> p < q
    <2>1. Before(i.ns, j.ns) <=> p < q
        BY <1>1, <1>4, BeforeIffLess
    <2>2. QED
        BY <2>1 DEF E!Precedes, Before
<1>6. ASSUME E!Dereferenced(i) = E!Dereferenced(j) PROVE p = q
    <2>1. Address(r, i.ns) = Address(r, j.ns)
        <3>1. E!Nth(r, p) = Address(r, FromLinear(xs, p)) /\ E!Nth(r, q) = Address(r, FromLinear(xs, q))
            BY <1>2, <1>3, NthIsAt
        <3>2. QED
            BY ONLY <1>2, <1>3, <1>6, <3>1
    <2>2. i.ns \in Indices(xs) /\ j.ns \in Indices(xs)
        BY ONLY <1>1, <1>4, IndicesOfBox
    <2>3. i.ns = j.ns
        <3>1. r \in Ranges
            BY DEF IsRange
        <3>2. E!Indices(E!Extensions(r.dims)) = Indices(xs)
            BY SameLayouts, SameExtensions
        <3>3. E!Address(r, i.ns) = E!Address(r, j.ns)
            BY <2>1, SameLayouts
        <3>4. QED
            BY <2>2, <3>1, <3>2, <3>3 DEF E!ElementsApart
    <2>4. QED
        BY <1>4, <2>3
<1>7. p = q => E!Dereferenced(i) = E!Dereferenced(j)
    BY <1>2, <1>3
<1>8. QED
    BY <1>5, <1>6, <1>7

--------------------------------------------------------------------------------
LEMMA ElementsInvAlways == E!IteratorsAssumption => (E!Spec => []ElementsInv)
<1> SUFFICES ASSUME E!IteratorsAssumption PROVE E!Spec => []ElementsInv
    OBVIOUS
<1>1. E!Init => ElementsInv
    BY ElementsInit
<1>2. ElementsInv /\ [E!Next]_(E!vars) => ElementsInv'
    BY ElementsNext
<1>3. QED
    BY <1>1, <1>2, PTL DEF E!Spec

\* An iterator of elements() refers to the element with its number in the canonical
\* order of its view, and after operator=, operator-= or operator++ from the last
\* element to the one as many positions on as these have left its indices ahead of its
\* number (elements_iterator_t::operator*, and all operations that move one).
THEOREM IteratorsPoint == E!IteratorsAssumption => (E!Spec => []E!PointsAtItsElement)
<1> SUFFICES ASSUME E!IteratorsAssumption PROVE E!Spec => []E!PointsAtItsElement
    OBVIOUS
<1>1. ElementsInv => E!PointsAtItsElement
    <2> SUFFICES ASSUME ElementsInv, NEW x \in Iterators \ astray, E!Position(x) < E!Count(elementsOver[x])
                 PROVE  E!Dereferenced(elementsIt[x]) = E!Nth(elementsOver[x], E!Position(x))
        BY DEF E!PointsAtItsElement
    <2>1. IsRange(elementsOver[x]) /\ Positioned(elementsOver[x], elementsIt[x], E!Position(x))
        BY DEF ElementsInv
    <2>2. QED
        BY <2>1, InsideIsNth
<1>2. QED
    BY <1>1, ElementsInvAlways, PTL

\* it[k] is the element k positions on or back from the one that the iterator refers
\* to, and front(), back() and the range itself find the same elements.
THEOREM SubscriptsReach == E!IteratorsAssumption => (E!Spec => []E!SubscriptReachesItsElement)
<1> SUFFICES ASSUME E!IteratorsAssumption PROVE E!Spec => []E!SubscriptReachesItsElement
    OBVIOUS
<1>1. ElementsInv => E!SubscriptReachesItsElement
    <2> SUFFICES ASSUME ElementsInv, NEW x \in Iterators \ astray, NEW k \in E!Steps(x),
                        E!Position(x) + k \in 0 .. E!Count(elementsOver[x]) - 1
                 PROVE  /\ E!Subscripted(elementsIt[x], k) = E!Nth(elementsOver[x], E!Position(x) + k)
                        /\ E!ElementAt(elementsOver[x], E!Position(x) + k)
                               = E!Nth(elementsOver[x], E!Position(x) + k)
                        /\ E!FrontOf(E!RangeOf(elementsOver[x])) = E!Nth(elementsOver[x], 0)
                        /\ E!BackOf(E!RangeOf(elementsOver[x]))
                               = E!Nth(elementsOver[x], E!Count(elementsOver[x]) - 1)
        BY DEF E!SubscriptReachesItsElement
    <2> PICK r, i, p : r = elementsOver[x] /\ i = elementsIt[x] /\ p = E!Position(x)
        OBVIOUS
    <2>1. IsRange(r) /\ Positioned(r, i, p)
        BY DEF ElementsInv
    <2>2. PICK S \in Nat : S = E!Count(r)
        BY <2>1, RangeFacts
    <2>3. p + k \in 0 .. E!Count(r) - 1 /\ S # 0 /\ k \in Int
        BY <2>2 DEF E!Steps
    <2>4. E!ElementAt(r, p + k) = E!Nth(r, p + k)
        <3>1. E!Nth(r, p + k) = ElementAt(r, p + k)
            BY <2>1, <2>3, NthIsAt
        <3>2. QED
            BY <3>1, SameLayouts
    <2>5. E!FrontOf(E!RangeOf(r)) = E!Nth(r, 0) /\ E!BackOf(E!RangeOf(r)) = E!Nth(r, E!Count(r) - 1)
        BY <2>1, <2>2, <2>3, FrontAndBack
    <2>6. E!Subscripted(i, k) = E!Nth(r, p + k)
        BY <2>1, <2>3, SubscriptedAt
    <2>7. QED
        BY ONLY <2>4, <2>5, <2>6, r = elementsOver[x], i = elementsIt[x], p = E!Position(x)
<1>2. QED
    BY <1>1, ElementsInvAlways, PTL

\* Iterators over one view compare as the elements do that they refer to, if their
\* indices are equally far from their numbers; of others, operator== never holds
\* where they refer to the same element.
THEOREM ComparedByPlace ==
    E!IteratorsAssumption /\ E!ElementsApart => (E!Spec => []E!ComparisonsFollowTheElements)
<1> SUFFICES ASSUME E!IteratorsAssumption, E!ElementsApart PROVE E!Spec => []E!ComparisonsFollowTheElements
    OBVIOUS
<1>1. ElementsInv => E!ComparisonsFollowTheElements
    <2> SUFFICES ASSUME ElementsInv, NEW x \in Iterators \ astray, NEW y \in Iterators \ astray,
                        elementsOver[x] = elementsOver[y]
                 PROVE  /\ E!Comparable(elementsIt[x], elementsIt[y])
                        /\ (E!Position(x) < E!Count(elementsOver[x]) /\ E!Position(y) < E!Count(elementsOver[x])) =>
                           IF skew[x] = skew[y]
                           THEN /\ E!Equal(elementsIt[x], elementsIt[y])
                                       <=> E!Dereferenced(elementsIt[x]) = E!Dereferenced(elementsIt[y])
                                /\ E!Less(elementsIt[x], elementsIt[y])
                                       <=> E!Precedes(elementsIt[x].ns, elementsIt[y].ns)
                                /\ E!Dereferenced(E!Advanced(elementsIt[x], E!Difference(elementsIt[y], elementsIt[x])))
                                       = E!Dereferenced(elementsIt[y])
                           ELSE ~ (/\ E!Equal(elementsIt[x], elementsIt[y])
                                   /\ E!Dereferenced(elementsIt[x]) = E!Dereferenced(elementsIt[y]))
        BY DEF E!ComparisonsFollowTheElements
    <2> PICK r, i, j, p, q : /\ r = elementsOver[x] /\ i = elementsIt[x] /\ j = elementsIt[y]
                             /\ p = E!Position(x) /\ q = E!Position(y)
        OBVIOUS
    <2>1. IsRange(r) /\ Positioned(r, i, p) /\ Positioned(r, j, q)
        BY DEF ElementsInv
    <2>2. E!Comparable(i, j)
        BY <2>1, PositionedParts DEF E!Comparable
    <2>3. PICK S \in Nat : S = E!Count(r)
        BY <2>1, RangeFacts
    <2>4. /\ p \in 0 .. S /\ q \in 0 .. S /\ i.n \in 0 .. S /\ j.n \in 0 .. S
          /\ p = i.n + skew[x] /\ q = j.n + skew[y] /\ skew[x] \in Int /\ skew[y] \in Int
        BY <2>1, <2>3, PositionedParts DEF E!Position, ElementsInv
    <2> PICK n \in 0 .. S, m \in 0 .. S : n = i.n /\ m = j.n
        BY <2>4
    <2> PICK s \in Int, t \in Int : s = skew[x] /\ t = skew[y]
        BY <2>4
    <2>5. p = n + s /\ q = m + t
        BY <2>4
    <2>6. ASSUME p < E!Count(r), q < E!Count(r)
          PROVE  /\ E!Dereferenced(i) = E!Dereferenced(j) <=> p = q
                 /\ E!Precedes(i.ns, j.ns) <=> p < q
        BY <2>1, <2>6, PositionsTellElements
    <2>7. (E!Equal(i, j) <=> n = m) /\ (E!Less(i, j) <=> n < m) /\ E!Difference(j, i) = m - n
        BY DEF E!Equal, E!Less, E!Difference
    <2>8. ASSUME p < E!Count(r), q < E!Count(r), s = t
          PROVE  /\ E!Equal(i, j) <=> E!Dereferenced(i) = E!Dereferenced(j)
                 /\ E!Less(i, j) <=> E!Precedes(i.ns, j.ns)
                 /\ E!Dereferenced(E!Advanced(i, E!Difference(j, i))) = E!Dereferenced(j)
        <3>1. (n = m <=> p = q) /\ (n < m <=> p < q)
            BY ONLY <2>5, <2>8, s \in Int, t \in Int, n \in 0 .. S, m \in 0 .. S, S \in Nat
        <3> PICK k \in Int : k = m - n
            OBVIOUS
        <3>2. i.n + k = m /\ p + k = q
            BY ONLY <2>5, <2>8, s \in Int, t \in Int, n \in 0 .. S, m \in 0 .. S, S \in Nat, k = m - n, n = i.n
        <3>3. i.n + k \in 0 .. E!Count(r) /\ p + k \in 0 .. E!Count(r)
            BY ONLY <2>3, <2>4, <3>2, m \in 0 .. S
        <3>4. Positioned(r, E!Advanced(i, k), q)
            <4>1. Positioned(r, E!Advanced(i, k), p + k)
                BY ONLY <2>1, <3>3, k \in Int, E!IteratorsAssumption, AdvancedIsPositioned
            <4>2. QED
                BY ONLY <3>2, <4>1
        <3>5. E!Dereferenced(E!Advanced(i, k)) = E!Nth(r, q) /\ E!Dereferenced(j) = E!Nth(r, q)
            BY <2>1, <2>8, <3>4, InsideIsNth
        <3>6. QED
            BY <2>6, <2>7, <2>8, <3>1, <3>5
    <2>9. ASSUME p < E!Count(r), q < E!Count(r), s # t
          PROVE  ~ (E!Equal(i, j) /\ E!Dereferenced(i) = E!Dereferenced(j))
        <3>1. ~ (n = m /\ p = q)
            BY ONLY <2>5, <2>9, s \in Int, t \in Int, n \in 0 .. S, m \in 0 .. S, S \in Nat
        <3>2. QED
            BY <2>6, <2>7, <2>9, <3>1
    <2>10. QED
        BY ONLY <2>2, <2>8, <2>9, r = elementsOver[x], i = elementsIt[x], j = elementsIt[y],
                p = E!Position(x), q = E!Position(y), s = skew[x], t = skew[y]
<1>2. QED
    BY <1>1, ElementsInvAlways, PTL

================================================================================
