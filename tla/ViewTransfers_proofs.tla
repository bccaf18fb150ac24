-------------------------- MODULE ViewTransfers_proofs -------------------------
(******************************************************************************)
(* Proofs about ViewTransfers.  What an assignment and a swap do is proved    *)
(* for every memory and all views of it, whether they overlap or not.  First, *)
(* the three loops go through the same elements in the same order; then the   *)
(* invariant, which adds to the properties that the lists of cells of the     *)
(* current transfer have no repetitions and are those of its views, and what  *)
(* the archive has; last, the comparisons.                                    *)
(******************************************************************************)
EXTENDS ViewTransfers, Layout_proofs, FiniteSetTheorems

--------------------------------------------------------------------------------
(* The three loops visit the same elements in the same order.                 *)

LEMMA ViewFacts ==
    ASSUME NEW v \in Views
    PROVE  /\ v.base \in Int /\ v.dims \in Seq(Dimensions) /\ Len(v.dims) \in Nat
           /\ IsZeroBased(v.dims, Len(v.dims))
<1>1. v.base \in Int /\ v.dims \in Seq(Dimensions)
    BY ViewsStartAtZero
<1> PICK ds \in Seq(Dimensions), N \in Nat : ds = v.dims /\ N = Len(ds)
    BY <1>1
<1>2. ASSUME NEW k \in 1 .. N PROVE \E n \in Nat : FromZero(ds[k], n)
    <2>1. k \in DOMAIN v.dims /\ ds[k] \in Dimensions
        OBVIOUS
    <2>2. ds[k].offset = 0 /\ ExtensionExists(ds[k]) /\ Size(ds[k]) >= 0
        BY <2>1, ViewsStartAtZero
    <2>3. QED
        BY ONLY <2>1, <2>2, ZeroDimension
<1>3. QED
    BY ONLY <1>1, <1>2, ds = v.dims, N = Len(ds), ds \in Seq(Dimensions), N \in Nat DEF IsZeroBased

LEMMA NoDimensions ==
    ASSUME NEW v, v.base \in Int, IsZeroBased(v.dims, 0)
    PROVE  NumElements(v.dims) = 1 /\ ElementAt(v, 0) = v.base
<1> PICK N \in Nat : N = 0
    OBVIOUS
<1>1. IsZeroBased(v.dims, N)
    OBVIOUS
<1>2. DOMAIN v.dims = 1 .. N
    BY ONLY <1>1, N \in Nat, ZeroBasedParts
<1>3. NumElements(v.dims) = 1
    <2>1. \A k \in 1 .. N : Size(v.dims[k]) \in Int
        OBVIOUS
    <2>2. PICK g \in [0 .. N -> Int] : g[0] = 1 /\ g[N] = NumElements(v.dims)
        BY ONLY <1>2, <2>1, N \in Nat, NumElementsSteps
    <2>3. QED
        BY ONLY <2>2, N = 0
<1> PICK i : i = FromLinear(Extensions(v.dims), 0)
    OBVIOUS
<1>4. At(v.dims, i) = 0
    <2>1. HasIndex(v.dims, i, N)
        BY <1>2 DEF HasIndex
    <2>2. PICK g : AddsUp(g, v.dims, i, N)
        BY ONLY <2>1, N \in Nat, AtSteps
    <2>3. QED
        BY ONLY <2>2, N = 0 DEF AddsUp
<1>5. ElementAt(v, 0) = v.base + 0
    BY ONLY <1>4, i = FromLinear(Extensions(v.dims), 0) DEF ElementAt
<1>6. QED
    BY ONLY <1>3, <1>5, v.base \in Int

LEMMA SameList ==
    ASSUME NEW A, NEW s \in Seq(A), NEW t \in Seq(A), Len(s) = Len(t), \A n \in 1 .. Len(s) : s[n] = t[n]
    PROVE  s = t
    OBVIOUS

LEMMA ElementsOf ==
    ASSUME NEW v \in Views
    PROVE  /\ elements[v] \in Seq(Cells) /\ Len(elements[v]) = NumElements(v.dims) /\ NumElements(v.dims) \in Nat
           /\ \A n \in 1 .. NumElements(v.dims) : elements[v][n] = ElementAt(v, n - 1)
           /\ rows[v] \in Seq(Cells) /\ Len(rows[v]) = NumElements(v.dims) /\ rows[v] = RowOrder(v)
<1>1. ListsCells(elements[v], NumElements(v.dims)) /\ ListsCells(rows[v], NumElements(v.dims))
    BY TransfersAssumption
<1>2. elements[v] = CanonicalOrder(v) /\ rows[v] = RowOrder(v)
    BY DEF elements, rows
<1>3. elements[v] = [n \in 1 .. NumElements(v.dims) |-> ElementAt(v, n - 1)]
    BY ONLY <1>2 DEF CanonicalOrder
<1>4. elements[v] \in Seq(Cells) /\ Len(elements[v]) = NumElements(v.dims)
      /\ rows[v] \in Seq(Cells) /\ Len(rows[v]) = NumElements(v.dims)
    BY ONLY <1>1 DEF ListsCells
<1>5. NumElements(v.dims) \in Nat
    BY ONLY <1>4
<1>6. QED
    BY ONLY <1>2, <1>3, <1>4, <1>5

\* A position in rows of one length is a row and a place in it.
LEMMA PlaceInRows ==
    ASSUME NEW R \in Nat, NEW L \in Nat, NEW n \in 1 .. R * L
    PROVE  \E k \in 0 .. R - 1, j \in 0 .. L - 1 : k * L + j + 1 = n
<1> PICK t \in Nat : t = R * L
    OBVIOUS
<1>1. L # 0
    <2> SUFFICES ASSUME L = 0 PROVE FALSE
        OBVIOUS
    <2>1. R * L = 0
        OBVIOUS
    <2> QED  BY <2>1
<1> PICK p \in Nat : p = n - 1 /\ n = p + 1 /\ p < t
    OBVIOUS
<1> PICK q \in Nat : L * q <= p /\ p < L * q + L
    <2>1. p \div L \in Nat /\ L * (p \div L) <= p /\ p < L * (p \div L) + L
        BY ONLY L \in Nat, <1>1, p \in Nat, DivBounds
    <2> QED  BY ONLY <2>1
<1> PICK a \in Nat : a = L * q
    OBVIOUS
<1>2. ASSUME R <= q PROVE FALSE
    <2> PICK x \in Nat : x = q - R
        BY <1>2
    <2>1. L * q = R * L + L * x /\ L * x \in Nat
        BY ONLY R \in Nat, L \in Nat, x \in Nat, x = q - R, q \in Nat
    <2> PICK w \in Nat : w = L * x
        BY <2>1
    <2> QED  BY ONLY <2>1, L * q <= p, p < t, t = R * L, w = L * x, t \in Nat, w \in Nat, a = L * q, a \in Nat, p \in Nat
<1>3. q \in 0 .. R - 1
    BY ONLY <1>2, R \in Nat, q \in Nat
<1> PICK j \in 0 .. L - 1 : j = p - a
    BY ONLY L \in Nat, L * q <= p, p < L * q + L, a = L * q, a \in Nat, p \in Nat
<1>4. q * L + j + 1 = n
    <2>1. q * L = a
        BY ONLY L \in Nat, a = L * q, q \in Nat
    <2> QED  BY ONLY <2>1, j = p - a, n = p + 1, a \in Nat, p \in Nat
<1> QED  BY <1>3, <1>4

\* A copy row by row goes through the elements in their canonical order.
LEMMA RowsAreElements ==
    ASSUME NEW v \in Views
    PROVE  rows[v] = elements[v]
<1> PICK N \in Nat, ds \in Seq(Dimensions), b \in Int : N = Len(ds) /\ ds = v.dims /\ b = v.base
    BY ViewFacts
<1>1. IsZeroBased(v.dims, N) /\ v.base \in Int
    BY ViewFacts
<1> PICK e \in Seq(Cells), r \in Seq(Cells) : e = elements[v] /\ r = rows[v]
    BY ElementsOf
<1> PICK n \in Nat : n = NumElements(v.dims)
    BY ElementsOf
<1>2. Len(e) = n /\ Len(r) = n /\ r = RowOrder(v) /\ \A m \in 1 .. n : e[m] = ElementAt(v, m - 1)
    BY ElementsOf
<1>3. SUFFICES \A m \in 1 .. n : r[m] = e[m]
    BY ONLY <1>2, <1>3, e \in Seq(Cells), r \in Seq(Cells), e = elements[v], r = rows[v], SameList
<1>4. CASE N = 0
    <2>1. ds = <<>>
        BY ONLY <1>4, N = Len(ds), ds \in Seq(Dimensions), NoneIn
    <2>2. n = 1 /\ ElementAt(v, 0) = b
        BY ONLY <1>1, <1>4, n = NumElements(v.dims), b = v.base, NoDimensions
    <2>3. r = <<b>>
        BY ONLY <1>2, <2>1, ds = v.dims, b = v.base DEF RowOrder
    <2>4. ASSUME NEW m \in 1 .. n PROVE r[m] = e[m]
        <3>1. m = 1 /\ m - 1 = 0
            BY <2>2
        <3>2. e[m] = ElementAt(v, m - 1)
            BY <1>2
        <3>3. e[m] = b
            BY ONLY <2>2, <3>1, <3>2
        <3>4. r[m] = b
            BY ONLY <2>3, <3>1
        <3>5. QED
            BY ONLY <3>3, <3>4
    <2>5. QED
        BY <2>4
<1>5. CASE N # 0
    <2> PICK M \in Nat : M = N - 1 /\ M + 1 = N
        BY ONLY <1>5, N \in Nat
    <2>1. IsZeroBased(v.dims, M + 1)
        BY ONLY <1>1, M + 1 = N
    <2>2. \E R \in Nat, L \in Nat : HasRows(v, M, R, L)
        <3> PICK R, L : HasRows(v, M, R, L)
            BY ONLY <1>1, <2>1, M \in Nat, RowsOfElements
        <3>1. R \in Nat /\ L \in Nat
            BY DEF HasRows
        <3>2. QED
            BY <3>1
    <2> PICK R \in Nat, L \in Nat : HasRows(v, M, R, L)
        BY <2>2
    <2>3. /\ R \in Nat /\ L \in Nat /\ R = Size(ds[1]) /\ L = NumElements(Tail(ds)) /\ n = R * L
          /\ IsZeroBased(Tail(ds), M) /\ ds[1].stride \in Int
          /\ \A k \in 0 .. R - 1 :
                /\ Subscript(v, k) = View(Tail(ds), b + k * ds[1].stride)
                /\ Subscript(v, k).base \in Int
                /\ \A j \in 0 .. L - 1 : k * L + j \in 0 .. R * L - 1 /\ ElementAt(v, k * L + j) = ElementAt(Subscript(v, k), j)
        BY ONLY HasRows(v, M, R, L), ds = v.dims, b = v.base, n = NumElements(v.dims) DEF HasRows
    <2>4. ds # <<>>
        BY ONLY N = Len(ds), <1>5
    <2>5. CASE M = 0
        <3>1. L = 1
            <4>1. IsZeroBased(Tail(ds), 0)
                BY ONLY <2>3, <2>5
            <4> PICK u : u = View(Tail(ds), 0)
                OBVIOUS
            <4>2. u.base \in Int /\ u.dims = Tail(ds)
                BY DEF View
            <4>3. QED
                BY ONLY <2>3, <4>1, <4>2, NoDimensions
        <3>2. n = R
            BY ONLY <2>3, <3>1
        <3>3. Len(v.dims) = 1
            BY ONLY N = Len(ds), ds = v.dims, <2>5, M + 1 = N
        <3>4. r = [k \in 1 .. R |-> b + (k - 1) * ds[1].stride]
            BY ONLY <1>2, <2>3, <2>4, <3>3, ds = v.dims, b = v.base DEF RowOrder
        <3>5. ASSUME NEW m \in 1 .. R PROVE e[m] = b + (m - 1) * ds[1].stride
            <4> PICK k \in 0 .. R - 1 : k = m - 1
                BY <2>3
            <4> PICK u : u = Subscript(v, k)
                OBVIOUS
            <4>1. /\ u = View(Tail(ds), b + k * ds[1].stride) /\ u.base \in Int
                  /\ \A j \in 0 .. L - 1 : ElementAt(v, k * L + j) = ElementAt(u, j)
                BY ONLY <2>3, k \in 0 .. R - 1, u = Subscript(v, k)
            <4>2. u.dims = Tail(ds) /\ u.base = b + k * ds[1].stride
                BY ONLY <4>1 DEF View
            <4>3. IsZeroBased(u.dims, 0)
                BY ONLY <2>3, <2>5, <4>2
            <4>4. ElementAt(u, 0) = u.base
                BY ONLY <4>1, <4>3, NoDimensions
            <4>5. ElementAt(v, k * L + 0) = ElementAt(u, 0)
                <5>1. 0 \in 0 .. L - 1
                    BY <3>1
                <5>2. QED
                    BY ONLY <4>1, <5>1
            <4>6. k * L + 0 = m - 1
                BY ONLY <3>1, k = m - 1, k \in 0 .. R - 1, <2>3
            <4>7. e[m] = ElementAt(v, m - 1)
                BY ONLY <1>2, <3>2, m \in 1 .. R
            <4>8. QED
                BY ONLY <4>2, <4>4, <4>5, <4>6, <4>7, k = m - 1
        <3>6. QED
            BY ONLY <3>2, <3>4, <3>5
    <2>6. CASE M # 0
        <3> DEFINE ss == [k \in 1 .. R |-> CanonicalOrder(Row(v, k - 1))]
        <3>1. ~(Len(v.dims) = 1)
            <4>1. N # 1
                BY ONLY <2>6, M + 1 = N, M \in Nat
            <4>2. QED
                BY ONLY <4>1, N = Len(ds), ds = v.dims
        <3>2. r = FoldLeft(\o, <<>>, ss)
            BY ONLY <1>2, <2>3, <2>4, <3>1, ds = v.dims DEF RowOrder
        <3>3. ASSUME NEW k \in 1 .. R
              PROVE  /\ ss[k] \in Seq(Cells) /\ Len(ss[k]) = L
                     /\ \A j \in 1 .. L : (k - 1) * L + j \in 1 .. n /\ ss[k][j] = e[(k - 1) * L + j]
            <4> PICK c \in 0 .. R - 1 : c = k - 1
                BY <2>3
            <4> PICK u : u = Subscript(v, c)
                OBVIOUS
            <4>1. /\ u = View(Tail(ds), b + c * ds[1].stride)
                  /\ \A j \in 0 .. L - 1 : c * L + j \in 0 .. R * L - 1 /\ ElementAt(v, c * L + j) = ElementAt(u, j)
                BY ONLY <2>3, c \in 0 .. R - 1, u = Subscript(v, c)
            <4>2. u = Row(v, k - 1) /\ u.dims = Tail(ds)
                BY ONLY <4>1, c = k - 1, ds = v.dims, b = v.base DEF Row, View
            <4>3. ss[k] = CanonicalOrder(u)
                BY <4>2
            <4>4. ss[k] = [j \in 1 .. L |-> ElementAt(u, j - 1)]
                BY ONLY <2>3, <4>2, <4>3 DEF CanonicalOrder
            <4> HIDE DEF ss
            <4>5. ASSUME NEW j \in 1 .. L
                  PROVE  (k - 1) * L + j \in 1 .. n /\ ss[k][j] = e[(k - 1) * L + j]
                <5> PICK i \in 0 .. L - 1 : i = j - 1
                    BY <2>3
                <5> PICK a \in Nat : a = c * L
                    <6>1. c * L \in Nat
                        BY ONLY L \in Nat, c \in 0 .. R - 1
                    <6>2. QED
                        BY ONLY <6>1
                <5>1. a + i \in 0 .. R * L - 1 /\ ElementAt(v, a + i) = ElementAt(u, i)
                    BY ONLY <4>1, i \in 0 .. L - 1, a = c * L
                <5> PICK m \in Nat : m = a + j
                    BY <2>3, SMTT(30)
                <5>2. m \in 1 .. n /\ m - 1 = a + i
                    BY ONLY <2>3, <5>1, m = a + j, i = j - 1, i \in 0 .. L - 1, a \in Nat, m \in Nat, j \in 1 .. L, n \in Nat, SMTT(30)
                <5>3. e[m] = ElementAt(v, m - 1)
                    BY ONLY <1>2, <5>2
                <5>4. ss[k][j] = ElementAt(u, i)
                    BY ONLY <4>4, j \in 1 .. L, i = j - 1
                <5>5. (k - 1) * L + j = m
                    BY ONLY m = a + j, a = c * L, c = k - 1
                <5>6. QED
                    BY ONLY <5>1, <5>2, <5>3, <5>4, <5>5
            <4>6. ss[k] \in Seq(Cells) /\ Len(ss[k]) = L
                <5>1. \A j \in 1 .. L : ss[k][j] \in Cells
                    <6>1. \A m \in 1 .. n : e[m] \in Cells
                        BY ONLY <1>2, e \in Seq(Cells), n \in Nat
                    <6>2. QED
                        BY ONLY <4>5, <6>1
                <5>2. ss[k] = [j \in 1 .. L |-> ss[k][j]]
                    BY ONLY <4>4
                <5>3. QED
                    BY ONLY L \in Nat, <5>1, <5>2, SMTT(30)
            <4>7. QED
                BY <4>5, <4>6
        <3>4. DOMAIN ss = 1 .. R
            OBVIOUS
        <3> HIDE DEF ss
        <3>5. \A k \in 1 .. R, j \in 1 .. L : r[(k - 1) * L + j] = ss[k][j]
            <4>1. \A k \in 1 .. R : ss[k] \in Seq(Cells) /\ Len(ss[k]) = L
                BY ONLY <3>3
            <4> PICK rs : rs = ss
                OBVIOUS
            <4>2. DOMAIN rs = 1 .. R
                BY ONLY <3>4, rs = ss
            <4>3. RowsOf(rs, R, L, Cells)
                BY ONLY <4>1, rs = ss DEF RowsOf
            <4> PICK g : Joins(g, rs, R)
                BY ONLY R \in Nat, <4>2, JoinSteps
            <4>5. FoldLeft(\o, <<>>, rs) = g[R] /\ LaidOut(g, rs, R)
                BY ONLY Joins(g, rs, R) DEF Joins
            <4>4. \A k \in 1 .. R, j \in 1 .. L : g[R][(k - 1) * L + j] = rs[k][j]
                <5>1. EndToEnd(g[R], rs, R, L, Cells)
                    BY ONLY R \in Nat, L \in Nat, <4>3, <4>5, JoinedRows
                <5>2. QED
                    BY ONLY <5>1 DEF EndToEnd
            <4>6. QED
                BY ONLY <3>2, <4>4, <4>5, rs = ss
        <3>6. ASSUME NEW m \in 1 .. n PROVE r[m] = e[m]
            <4>1. m \in 1 .. R * L
                BY ONLY <2>3, m \in 1 .. n
            <4> PICK q \in 0 .. R - 1, i \in 0 .. L - 1 : q * L + i + 1 = m
                BY ONLY <4>1, R \in Nat, L \in Nat, PlaceInRows
            <4> PICK k \in 1 .. R, j \in 1 .. L : k - 1 = q /\ j = i + 1
                BY ONLY R \in Nat, L \in Nat, q \in 0 .. R - 1, i \in 0 .. L - 1
            <4> PICK a \in Nat : a = q * L
                BY ONLY L \in Nat, q \in 0 .. R - 1, R \in Nat
            <4>4. (k - 1) * L + j = m
                <5>1. a + i + 1 = m /\ a + j = a + i + 1
                    BY ONLY q * L + i + 1 = m, a = q * L, j = i + 1, a \in Nat, i \in 0 .. L - 1
                <5>2. QED
                    BY ONLY <5>1, k - 1 = q, a = q * L
            <4>5. r[(k - 1) * L + j] = ss[k][j] /\ ss[k][j] = e[(k - 1) * L + j]
                BY ONLY <3>3, <3>5, k \in 1 .. R, j \in 1 .. L
            <4>6. QED
                BY ONLY <4>4, <4>5
        <3>7. QED
            BY <3>6
    <2>7. QED
        BY <2>5, <2>6
<1>6. QED
    BY <1>4, <1>5

\* The block of memory that an array refers to has its elements in their order.
LEMMA BlockIsElements ==
    ASSUME NEW v \in Views, IsArray(v)
    PROVE  Block(v) = elements[v] /\ CanonicalOrder(CArrayOf(v)) = elements[v]
<1> PICK N \in Nat, b \in Int : N = Len(v.dims) /\ b = v.base
    BY ViewFacts
<1> PICK n \in Nat : n = NumElements(v.dims)
    BY ElementsOf
<1>1. IsZeroBased(v.dims, N) /\ v.base \in Int
    BY ViewFacts
<1>2. /\ DOMAIN v.dims = 1 .. N
      /\ \A k \in 1 .. N : Size(v.dims[k]) \in Nat /\ Extension(v.dims[k]) = <<0, Size(v.dims[k])>>
    BY ONLY <1>1, N \in Nat, ZeroBasedParts
<1>3. v = Reference(v.base, Extensions(v.dims))
    BY DEF IsArray, Pointee
<1>4. v.dims = LayoutOf(Extensions(v.dims))
    BY ONLY <1>3 DEF Reference
<1> PICK e \in Seq(Cells) : e = elements[v]
    BY ElementsOf
<1>5. Len(e) = n /\ \A m \in 1 .. n : e[m] = ElementAt(v, m - 1)
    BY ElementsOf
<1>6. \A m \in 0 .. n - 1 : ElementAt(v, m) = b + m
    BY ONLY <1>1, <1>4, N \in Nat, n = NumElements(v.dims), b = v.base, ArrayIsContiguous
<1>7. Block(v) = [k \in 1 .. n |-> b + (k - 1) * 1]
    <2> PICK xs : xs = <<<<0, n>>>>
        OBVIOUS
    <2>1. xs \in Seq(Int \X Int) /\ Len(xs) = 1 /\ DOMAIN xs = 1 .. 1 /\ xs[1] = <<0, n>> /\ xs[1][1] = 0 /\ xs[1][2] = n
        OBVIOUS
    <2> PICK one \in Nat : one = 1
        OBVIOUS
    <2>2. Boxed(xs, one)
        <3>1. \A k \in 1 .. one : k = 1
            OBVIOUS
        <3>2. \A k \in 1 .. one : xs[k][1] = 0 /\ xs[k][2] \in Nat
            BY ONLY <3>1, <2>1, n \in Nat
        <3>3. QED
            BY ONLY <2>1, <3>2, one = 1 DEF Boxed
    <2>3. Inner(xs, one) = 1
        BY ONLY <2>2, one \in Nat, BoxSteps
    <2>4. NumElementsIn(SubSeq(xs, 1 + 1, Len(xs))) = 1
        BY ONLY <2>3, one = 1 DEF Inner
    <2> PICK d : d = DimensionOf(1, 0 * 1, n * 1)
        OBVIOUS
    <2> PICK f : f = Flat(v)
        OBVIOUS
    <2>5. f.base = b /\ f.dims = LayoutOf(xs)
        BY ONLY f = Flat(v), xs = <<<<0, n>>>>, n = NumElements(v.dims), b = v.base DEF Flat, Reference
    <2>6. LayoutOf(xs)[1] = d
        <3>1. LayoutOf(xs)[1] = DimensionOf(1, xs[1][1] * 1, Length(xs[1]) * 1)
            BY ONLY <2>1, <2>4 DEF LayoutOf
        <3>2. Length(xs[1]) = n
            BY ONLY <2>1, n \in Nat DEF Length
        <3>3. QED
            BY ONLY <2>1, <3>1, <3>2, d = DimensionOf(1, 0 * 1, n * 1)
    <2>7. DOMAIN f.dims = 1 .. 1 /\ f.dims[1] = d
        <3>1. DOMAIN LayoutOf(xs) = DOMAIN xs
            BY ONLY DEF LayoutOf
        <3>2. QED
            BY ONLY <2>1, <2>5, <2>6, <3>1
    <2>8. d.stride = 1 /\ d.nelems = n
        BY ONLY d = DimensionOf(1, 0 * 1, n * 1), n \in Nat DEF DimensionOf
    <2>9. Size(d) = n
        <3>1. Quotient(n, 1) = n
            BY ONLY n \in Nat, QuotientOfNat
        <3>2. QED
            BY ONLY <2>8, <3>1 DEF Size
    <2>10. f.dims # <<>> /\ Len(f.dims) = 1
        <3> PICK ds : ds = f.dims
            OBVIOUS
        <3>1. ds = [k \in 1 .. 1 |-> d]
            <4>1. ds = [k \in DOMAIN xs |-> ds[k]]
                BY ONLY <2>5, ds = f.dims DEF LayoutOf
            <4>2. \A k \in 1 .. 1 : ds[k] = d
                <5>1. \A k \in 1 .. 1 : k = 1
                    OBVIOUS
                <5>2. QED
                    BY ONLY <5>1, <2>7, ds = f.dims
            <4>3. QED
                BY ONLY <2>1, <4>1, <4>2
        <3>2. ds \in Seq({d}) /\ Len(ds) = 1
            <4>1. ds \in Seq({d})
                BY ONLY <3>1
            <4>2. DOMAIN ds = 1 .. 1
                BY ONLY <3>1
            <4>3. Len(ds) \in Nat /\ DOMAIN ds = 1 .. Len(ds)
                BY ONLY <4>1
            <4>4. 1 .. Len(ds) = 1 .. 1
                BY ONLY <4>2, <4>3, SMTT(30)
            <4> PICK l \in Nat : l = Len(ds)
                BY ONLY <4>3
            <4>5. l = 1
                <5>1. 1 .. l = 1 .. 1
                    BY ONLY <4>4, l = Len(ds)
                <5>2. 1 \in 1 .. l /\ (l = 0 \/ l \in 1 .. 1)
                    BY ONLY <5>1, l \in Nat, SMTT(30)
                <5>3. QED
                    BY ONLY <5>2, l \in Nat
            <4>6. QED
                BY ONLY <4>1, <4>5, l = Len(ds)
        <3>3. ds # <<>>
            <4> PICK l \in Nat : l = 1
                OBVIOUS
            <4>1. l # 0 /\ l = Len(ds)
                BY ONLY <3>2, l = 1
            <4>2. QED
                BY ONLY <4>1
        <3>4. QED
            BY ONLY <3>2, <3>3, ds = f.dims
    <2>11. RowOrder(f) = [k \in 1 .. Size(f.dims[1]) |-> f.base + (k - 1) * f.dims[1].stride]
        BY ONLY <2>10 DEF RowOrder
    <2>12. QED
        BY ONLY <2>5, <2>7, <2>8, <2>9, <2>11, f = Flat(v) DEF Block
<1>8. Block(v) = e
    <2> PICK s : s = Block(v)
        OBVIOUS
    <2>1. DOMAIN s = 1 .. n /\ \A m \in 1 .. n : s[m] = e[m]
        <3>1. DOMAIN s = 1 .. n
            BY ONLY <1>7, s = Block(v)
        <3>2. ASSUME NEW m \in 1 .. n PROVE s[m] = e[m]
            <4> PICK k \in 0 .. n - 1 : k = m - 1
                OBVIOUS
            <4>1. s[m] = b + k * 1
                BY ONLY <1>7, s = Block(v), k = m - 1, m \in 1 .. n
            <4>2. e[m] = b + k
                BY ONLY <1>5, <1>6, k = m - 1, m \in 1 .. n, k \in 0 .. n - 1
            <4>3. k * 1 = k
                BY ONLY k \in 0 .. n - 1
            <4>4. QED
                BY ONLY <4>1, <4>2, <4>3
        <3>3. QED
            BY ONLY <3>1, <3>2
    <2>2. ListsCells(s, n)
        BY TransfersAssumption
    <2>3. s \in Seq(Cells) /\ Len(s) = n
        BY ONLY <2>2 DEF ListsCells
    <2>4. \A m \in 1 .. Len(s) : s[m] = e[m]
        BY ONLY <2>1, <2>3
    <2>5. s = e
        BY ONLY <1>5, <2>3, <2>4, e \in Seq(Cells), SameList
    <2>6. QED
        BY ONLY <2>5, s = Block(v)
<1>9. CanonicalOrder(CArrayOf(v)) = e
    <2>1. FromSizes(Sizes(v.dims)) = Extensions(v.dims)
        <3> PICK ds : ds = v.dims
            OBVIOUS
        <3>1. DOMAIN Sizes(ds) = DOMAIN ds /\ \A k \in DOMAIN ds : Sizes(ds)[k] = Size(ds[k])
            BY ONLY DEF Sizes
        <3>2. FromSizes(Sizes(ds)) = [k \in DOMAIN ds |-> <<0, Size(ds[k])>>]
            BY ONLY <3>1 DEF FromSizes
        <3>3. QED
            BY ONLY <1>2, <3>2, ds = v.dims DEF Extensions
    <2>2. CArrayOf(v) = v
        BY ONLY <1>3, <2>1 DEF CArrayOf
    <2>3. elements[v] = CanonicalOrder(v)
        BY DEF elements
    <2>4. QED
        BY ONLY <2>2, <2>3, e = elements[v]
<1>10. QED
    BY ONLY <1>8, <1>9, e = elements[v]

\* The element of index i is found at the position of i, in every view alike.
LEMMA PlaceOfIndex ==
    ASSUME NEW v \in Views, NEW i \in Indices(Extensions(v.dims))
    PROVE  /\ ToLinear(Extensions(v.dims), i) + 1 \in 1 .. NumElements(v.dims)
           /\ elements[v][ToLinear(Extensions(v.dims), i) + 1] = Address(v, i)
<1> PICK N \in Nat : N = Len(v.dims)
    BY ViewFacts
<1> PICK xs : xs = Extensions(v.dims)
    OBVIOUS
<1>1. IsZeroBased(v.dims, N) /\ v.base \in Int
    BY ViewFacts
<1>2. Boxed(xs, N) /\ NumElements(v.dims) = NumElementsIn(xs)
    BY ONLY <1>1, N \in Nat, xs = Extensions(v.dims), ZeroBasedIsBox
<1>3. InBox(i, xs, N)
    BY ONLY <1>2, N \in Nat, xs = Extensions(v.dims), i \in Indices(Extensions(v.dims)), IndicesOfBox
<1>4. ToLinear(xs, i) \in 0 .. NumElementsIn(xs) - 1
    BY ONLY <1>2, <1>3, N \in Nat, ToLinearInRange
<1>5. NumElements(v.dims) \in Nat /\ \A n \in 1 .. NumElements(v.dims) : elements[v][n] = ElementAt(v, n - 1)
    BY ElementsOf
<1> PICK L \in Nat : L = NumElements(v.dims)
    BY <1>5
<1> PICK n \in 0 .. L - 1 : n = ToLinear(xs, i)
    BY ONLY <1>2, <1>4, L = NumElements(v.dims)
<1>6. ElementAt(v, n) = Address(v, i)
    BY ONLY <1>1, N \in Nat, xs = Extensions(v.dims), i \in Indices(Extensions(v.dims)), n = ToLinear(xs, i), ElementAtIsAddress
<1> PICK m \in 1 .. L : m = n + 1 /\ m - 1 = n
    OBVIOUS
<1>7. elements[v][m] = Address(v, i)
    BY ONLY <1>5, <1>6, m - 1 = n, m \in 1 .. L, L = NumElements(v.dims)
<1>8. QED
    BY ONLY <1>7, m = n + 1, n = ToLinear(xs, i), xs = Extensions(v.dims), L = NumElements(v.dims), m \in 1 .. L

--------------------------------------------------------------------------------
(* The invariant.                                                             *)

\* The cells of a transfer are listed without repetitions, and a load has an
\* archive of the right length.
WellFormed ==
    /\ IsInjective(job.dst) /\ IsInjective(job.src)
    /\ job.op = "load" => Len(archive) = Len(job.dst)

\* The loops go through the elements of the views, in canonical order; a load
\* does not go through the view that was saved.
Listed ==
    job.op # "none" =>
        /\ job.dst = elements[job.to]
        /\ job.op # "load" => job.src = elements[job.from]

\* The archive has the values of the elements saved, those that they had when
\* the load began, and as much of it as has been loaded is in its place.
Archived ==
    /\ job.op = "save" =>
           /\ Len(archive) = done
           /\ \A n \in 1 .. done : archive[n] = mem[elements[job.from][n]]
    /\ job.op = "load" =>
           /\ SameShape(job.to, job.from)
           /\ \A n \in 1 .. Len(archive) : archive[n] = before[elements[job.from][n]]
           /\ \A n \in 1 .. done : mem[job.dst[n]] = archive[n]

Inv == TypeOK /\ WellFormed /\ Listed /\ Archived /\ Assigned /\ SwapExchanges /\ MovedOnce

\* A transfer as Begin may start it.
StartsWell(op, to, from, dst, src, x) ==
    /\ op \in Ops /\ to \in Views /\ from \in Views /\ x \in Values
    /\ dst \in Seq(Cells) /\ src \in Seq(Cells) /\ Len(src) = Len(dst)
    /\ IsInjective(dst) /\ IsInjective(src)
    /\ dst = elements[to]
    /\ op # "load" => src = elements[from]
    /\ op = "load" => Len(archive) = Len(dst) /\ job.op = "save" /\ from = job.from /\ SameShape(to, from)
    /\ ~running /\ transfers < MaxTransfers
    /\ Start(op, to, from, dst, src, x)

\* Every transfer of the program starts well: this is what the assertions of
\* the assignments are for.
LEMMA BeginStartsWell ==
    ASSUME TypeOK, Begin
    PROVE  \E op, to, from, dst, src, x : StartsWell(op, to, from, dst, src, x)
<1>0. ~running /\ transfers < MaxTransfers
    BY DEF Begin
<1> USE <1>0
<1>1. ASSUME NEW v \in Views, NEW w \in Views, SameRank(v, w), AssignView(v, w)
      PROVE  StartsWell("copy", v, w, elements[v], elements[w], Moved)
    BY <1>1, TransfersAssumption DEF AssignView, StartsWell, ListsCells, Ops
<1>2. ASSUME NEW v \in Views, NEW w \in Views, SameRank(v, w), AssignRows(v, w)
      PROVE  StartsWell("copy", v, w, rows[v], rows[w], Moved)
    BY <1>2, TransfersAssumption, RowsAreElements DEF AssignRows, StartsWell, ListsCells, Ops
<1>3. ASSUME NEW v \in Views, NEW w \in Views, SameRank(v, w), AssignArray(v, w)
      PROVE  StartsWell("copy", v, w, Block(v), Block(w), Moved)
    BY <1>3, TransfersAssumption, BlockIsElements DEF AssignArray, StartsWell, ListsCells, Ops
<1>4. ASSUME NEW v \in Views, NEW w \in Views, SameRank(v, w), MoveElements(v, w)
      PROVE  StartsWell("move", v, w, elements[v], elements[w], Moved)
    BY <1>4, TransfersAssumption DEF MoveElements, StartsWell, ListsCells, Ops
<1>5. ASSUME NEW v \in Views, NEW w \in Views, SameRank(v, w), SwapViews(v, w)
      PROVE  StartsWell("swap", v, w, elements[v], elements[w], Moved)
    BY <1>5, TransfersAssumption DEF SwapViews, StartsWell, ListsCells, Ops
<1>6. ASSUME NEW v \in Views, NEW x \in Fills, FillView(v, x)
      PROVE  StartsWell("fill", v, v, rows[v], rows[v], x)
    BY <1>6, TransfersAssumption, RowsAreElements DEF FillView, StartsWell, ListsCells, Ops
<1>7. ASSUME NEW v \in Views, NEW version, SaveView(v, version)
      PROVE  StartsWell("save", v, v, Order(v, version), Order(v, version), Moved)
    BY <1>7, TransfersAssumption, RowsAreElements DEF SaveView, StartsWell, ListsCells, Ops, Order
<1>8. ASSUME NEW v \in Views, NEW version, LoadView(v, version)
      PROVE  StartsWell("load", v, job.from, Order(v, version), Order(v, version), Moved)
    BY <1>8, TransfersAssumption, RowsAreElements DEF LoadView, StartsWell, ListsCells, Ops, Order, TypeOK, Jobs
<1>9. ASSUME NEW v \in Views, NEW w \in Views, SameRank(v, w), ConvertArray(v, w)
      PROVE  StartsWell("copy", v, w, Block(v), Block(w), Moved)
    <2>1. NumElements(v.dims) = NumElements(w.dims)
        BY <1>9, TransfersAssumption DEF ConvertArray, ListsCells
    <2> QED  BY <1>9, <2>1, TransfersAssumption, BlockIsElements DEF ConvertArray, StartsWell, ListsCells, Ops
<1>10. ASSUME NEW v \in Views, NEW w \in Views, SameRank(v, w), AssignCArray(v, w)
       PROVE  StartsWell("copy", v, w, elements[v], CanonicalOrder(CArrayOf(w)), Moved)
    BY <1>10, TransfersAssumption, BlockIsElements DEF AssignCArray, StartsWell, ListsCells, Ops
<1>11. ASSUME NEW v \in Views, NEW w \in Views, SameRank(v, w), ConstructRows(v, w)
       PROVE  StartsWell("copy", v, w, rows[v], rows[w], Moved)
    BY <1>11, TransfersAssumption, RowsAreElements DEF ConstructRows, StartsWell, ListsCells, Ops
<1>12. ASSUME NEW v \in Views, NEW w \in Views, SameRank(v, w), AssignPoint(v, w)
       PROVE  StartsWell("copy", v, w, rows[v], rows[w], Moved)
    BY <1>12, TransfersAssumption, RowsAreElements DEF AssignPoint, StartsWell, ListsCells, Ops
<1>13. ASSUME NEW v \in Views, NEW x \in Fills, FillPoint(v, x)
       PROVE  StartsWell("fill", v, v, rows[v], rows[v], x)
    BY <1>13, TransfersAssumption, RowsAreElements DEF FillPoint, StartsWell, ListsCells, Ops
<1>14. ASSUME NEW v \in Views, NEW w \in Views, SameRank(v, w), MoveRange(v, w)
       PROVE  StartsWell(IF Len(v.dims) = 1 THEN "move" ELSE "copy", v, w, rows[v], rows[w], Moved)
    BY <1>14, TransfersAssumption, RowsAreElements DEF MoveRange, StartsWell, ListsCells, Ops
<1> QED
    BY <1>1, <1>2, <1>3, <1>4, <1>5, <1>6, <1>7, <1>8, <1>9, <1>10, <1>11, <1>12, <1>13, <1>14 DEF Begin

\* Nothing has been visited yet, and so nothing can be wrong.
LEMMA StartKeepsInv ==
    ASSUME Inv, NEW op, NEW to, NEW from, NEW dst, NEW src, NEW x, StartsWell(op, to, from, dst, src, x)
    PROVE  Inv'
<1> USE DEF StartsWell, Start
<1>1. TypeOK'
    <2>1. job' \in Jobs /\ Len(job'.src) = Len(job'.dst) /\ done' \in 0 .. Len(job'.dst)
        BY DEF Jobs
    <2>2. archive' \in Seq(Values)
        BY DEF Inv, TypeOK
    <2>3. transfers' \in 0 .. MaxTransfers
        BY TransfersAssumption DEF Inv, TypeOK
    <2> QED  BY <2>1, <2>2, <2>3 DEF Inv, TypeOK
<1>2. WellFormed'
    <2>1. op = "load" => archive' = archive
        OBVIOUS
    <2> QED  BY <2>1 DEF WellFormed
<1>3. Assigned' /\ SwapExchanges' /\ MovedOnce'
    BY DEF Assigned, SwapExchanges, MovedOnce
<1>4. Listed'
    BY DEF Listed
<1>5. Archived'
    <2>1. CASE op = "save"
        <3>1. Len(archive') = 0
            BY <2>1
        <3> QED  BY <2>1, <3>1 DEF Archived
    <2>2. CASE op = "load"
        <3>1. /\ job'.op = "load" /\ job'.from = job.from /\ SameShape(job'.to, job'.from)
              /\ archive' = archive /\ done' = 0 /\ before' = mem
            BY <2>2
        <3>2. Len(archive) = done /\ \A n \in 1 .. done : archive[n] = mem[elements[job.from][n]]
            BY <2>2 DEF Inv, Archived
        <3> QED  BY <3>1, <3>2 DEF Archived
    <2>3. CASE op # "save" /\ op # "load"
        BY <2>3 DEF Archived
    <2> QED  BY <2>1, <2>2, <2>3
<1> QED  BY <1>1, <1>2, <1>3, <1>4, <1>5 DEF Inv

\* A step that visits an element leaves the transfer as it is, and the element
\* is one of the memory.
LEMMA VisitFacts ==
    ASSUME Inv, NEW op, Visiting(op)
    PROVE  /\ done + 1 \in 1 .. Len(job.dst)
           /\ Target \in Cells /\ Source \in Cells
           /\ DOMAIN job.dst = 1 .. Len(job.dst) /\ DOMAIN job.src = 1 .. Len(job.dst)
           /\ done \in Nat /\ Len(job.dst) \in Nat
           /\ job.dst \in Seq(Cells) /\ job.src \in Seq(Cells)
           /\ \A n \in 1 .. done : n \in 1 .. Len(job.dst) /\ n < done + 1 /\ job.dst[n] \in Cells /\ job.src[n] \in Cells
BY DEF Inv, TypeOK, Jobs, Visiting, Target, Source

LEMMA VisitKeepsTypes ==
    ASSUME Inv, NEW op, Visiting(op), Visited, mem' \in [Cells -> Values], archive' \in Seq(Values)
    PROVE  TypeOK'
BY VisitFacts DEF Inv, TypeOK, Visited, Visiting

LEMMA CopyKeepsInv ==
    ASSUME Inv, CopyElement
    PROVE  Inv'
<1> USE VisitFacts
<1>1. Visiting("copy") /\ Visited /\ archive' = archive
    BY DEF CopyElement
<1>2. mem \in [Cells -> Values] /\ mem' = [mem EXCEPT ![Target] = mem[Source]]
    BY DEF CopyElement, Inv, TypeOK
<1>3. job' = job /\ before' = before /\ done' = done + 1 /\ job.op = "copy"
    BY <1>1 DEF Visited, Visiting
<1>4. TypeOK'
    BY <1>1, <1>2, VisitKeepsTypes DEF Inv, TypeOK
<1>5. WellFormed'
    BY <1>1, <1>3 DEF Inv, WellFormed
<1>6. Assigned'
    <2> SUFFICES ASSUME ReadInTime(job.dst, job.src)
                 PROVE  /\ \A n \in 1 .. done + 1 : mem'[job.dst[n]] = before[job.src[n]]
                        /\ \A c \in Cells : (\A n \in 1 .. done + 1 : c # job.dst[n]) => mem'[c] = before[c]
        BY <1>3 DEF Assigned
    <2>1. /\ \A n \in 1 .. done : mem[job.dst[n]] = before[job.src[n]]
          /\ \A c \in Cells : (\A n \in 1 .. done : c # job.dst[n]) => mem[c] = before[c]
        BY <1>3 DEF Inv, Assigned
    <2>2. mem[Source] = before[Source]
        BY <1>1, <2>1 DEF ReadInTime, Source
    <2>3. ASSUME NEW n \in 1 .. done
          PROVE  mem'[job.dst[n]] = before[job.src[n]]
        <3>1. job.dst[n] # Target
            BY <1>1 DEF Inv, WellFormed, IsInjective, Target
        <3> QED  BY <1>1, <1>2, <2>1, <3>1
    <2>4. mem'[Target] = before[Source]
        BY <1>1, <1>2, <2>2
    <2>5. ASSUME NEW c \in Cells, \A n \in 1 .. done + 1 : c # job.dst[n]
          PROVE  mem'[c] = before[c]
        <3>1. c # Target /\ \A n \in 1 .. done : c # job.dst[n]
            BY <1>1, <2>5 DEF Target
        <3> QED  BY <1>2, <2>1, <3>1
    <2>6. \A n \in 1 .. done + 1 : n \in 1 .. done \/ n = done + 1
        BY <1>1
    <2> QED  BY <2>3, <2>4, <2>5, <2>6 DEF Target, Source
<1>7. SwapExchanges' /\ MovedOnce'
    BY <1>3 DEF SwapExchanges, MovedOnce
<1>8. Listed' /\ Archived'
    BY <1>3 DEF Inv, Listed, Archived
<1> QED  BY <1>4, <1>5, <1>6, <1>7, <1>8 DEF Inv

LEMMA SwapKeepsInv ==
    ASSUME Inv, SwapElement
    PROVE  Inv'
<1> USE VisitFacts
<1>1. Visiting("swap") /\ Visited /\ archive' = archive
    BY DEF SwapElement
<1>2. /\ mem \in [Cells -> Values] /\ mem' \in [Cells -> Values]
      /\ Target # Source => mem'[Target] = mem[Source] /\ mem'[Source] = mem[Target]
      /\ \A c \in Cells : c # Target /\ c # Source => mem'[c] = mem[c]
    BY <1>1, TransfersAssumption DEF SwapElement, Inv, TypeOK
<1>3. job' = job /\ before' = before /\ done' = done + 1 /\ job.op = "swap"
    BY <1>1 DEF Visited, Visiting
<1>4. TypeOK'
    BY <1>1, <1>2, VisitKeepsTypes DEF Inv, TypeOK
<1>5. WellFormed'
    BY <1>1, <1>3 DEF Inv, WellFormed
<1>6. SwapExchanges'
    <2> SUFFICES ASSUME Disjoint(job.dst, job.src)
                 PROVE  /\ \A n \in 1 .. done + 1 : mem'[job.dst[n]] = before[job.src[n]] /\ mem'[job.src[n]] = before[job.dst[n]]
                        /\ \A c \in Cells : (\A n \in 1 .. done + 1 : c # job.dst[n] /\ c # job.src[n]) => mem'[c] = before[c]
        BY <1>3 DEF SwapExchanges
    <2>1. /\ \A n \in 1 .. done : mem[job.dst[n]] = before[job.src[n]] /\ mem[job.src[n]] = before[job.dst[n]]
          /\ \A c \in Cells : (\A n \in 1 .. done : c # job.dst[n] /\ c # job.src[n]) => mem[c] = before[c]
        BY <1>3 DEF Inv, SwapExchanges
    <2>2. ASSUME NEW n \in 1 .. done
          PROVE  /\ job.dst[n] # Target /\ job.dst[n] # Source
                 /\ job.src[n] # Target /\ job.src[n] # Source
        BY <1>1 DEF Inv, WellFormed, IsInjective, Disjoint, Target, Source
    <2>3. Target # Source
        BY <1>1 DEF Disjoint, Target, Source
    <2>4. mem[Source] = before[Source] /\ mem[Target] = before[Target]
        BY <1>1, <2>1, <2>2
    <2>5. ASSUME NEW n \in 1 .. done
          PROVE  mem'[job.dst[n]] = before[job.src[n]] /\ mem'[job.src[n]] = before[job.dst[n]]
        BY <1>1, <1>2, <2>1, <2>2
    <2>6. mem'[Target] = before[Source] /\ mem'[Source] = before[Target]
        BY <1>1, <1>2, <2>3, <2>4
    <2>7. ASSUME NEW c \in Cells, \A n \in 1 .. done + 1 : c # job.dst[n] /\ c # job.src[n]
          PROVE  mem'[c] = before[c]
        <3>1. c # Target /\ c # Source /\ \A n \in 1 .. done : c # job.dst[n] /\ c # job.src[n]
            BY <1>1, <2>7 DEF Target, Source
        <3> QED  BY <1>2, <2>1, <3>1
    <2>8. \A n \in 1 .. done + 1 : n \in 1 .. done \/ n = done + 1
        BY <1>1
    <2> QED  BY <2>5, <2>6, <2>7, <2>8 DEF Target, Source
<1>7. Assigned' /\ MovedOnce'
    BY <1>3 DEF Assigned, MovedOnce
<1>8. Listed' /\ Archived'
    BY <1>3 DEF Inv, Listed, Archived
<1> QED  BY <1>4, <1>5, <1>6, <1>7, <1>8 DEF Inv

LEMMA MoveKeepsInv ==
    ASSUME Inv, MoveElement
    PROVE  Inv'
<1> USE VisitFacts
<1>1. Visiting("move") /\ Visited /\ archive' = archive
    BY DEF MoveElement
<1>2. /\ mem \in [Cells -> Values] /\ mem' \in [Cells -> Values]
      /\ Target # Source => mem'[Target] = mem[Source] /\ mem'[Source] = Moved
      /\ \A c \in Cells : c # Target /\ c # Source => mem'[c] = mem[c]
    BY <1>1, TransfersAssumption, SMTT(30) DEF MoveElement, Inv, TypeOK
<1>3. job' = job /\ before' = before /\ done' = done + 1 /\ job.op = "move"
    BY <1>1 DEF Visited, Visiting
<1>4. TypeOK'
    BY <1>1, <1>2, VisitKeepsTypes DEF Inv, TypeOK
<1>5. WellFormed'
    BY <1>1, <1>3 DEF Inv, WellFormed
<1>6. MovedOnce'
    <2> SUFFICES ASSUME Disjoint(job.dst, job.src)
                 PROVE  /\ \A n \in 1 .. done + 1 : mem'[job.dst[n]] = before[job.src[n]] /\ mem'[job.src[n]] = Moved
                        /\ \A c \in Cells : (\A n \in 1 .. done + 1 : c # job.dst[n] /\ c # job.src[n]) => mem'[c] = before[c]
        BY <1>3 DEF MovedOnce
    <2>1. /\ \A n \in 1 .. done : mem[job.dst[n]] = before[job.src[n]] /\ mem[job.src[n]] = Moved
          /\ \A c \in Cells : (\A n \in 1 .. done : c # job.dst[n] /\ c # job.src[n]) => mem[c] = before[c]
        BY <1>3 DEF Inv, MovedOnce
    <2>2. ASSUME NEW n \in 1 .. done
          PROVE  /\ job.dst[n] # Target /\ job.dst[n] # Source
                 /\ job.src[n] # Target /\ job.src[n] # Source
        BY <1>1 DEF Inv, WellFormed, IsInjective, Disjoint, Target, Source
    <2>3. Target # Source
        BY <1>1 DEF Disjoint, Target, Source
    <2>4. mem[Source] = before[Source] /\ mem[Target] = before[Target]
        BY <1>1, <2>1, <2>2
    <2>5. ASSUME NEW n \in 1 .. done
          PROVE  mem'[job.dst[n]] = before[job.src[n]] /\ mem'[job.src[n]] = Moved
        BY <1>1, <1>2, <2>1, <2>2
    <2>6. mem'[Target] = before[Source] /\ mem'[Source] = Moved
        BY <1>1, <1>2, <2>3, <2>4
    <2>7. ASSUME NEW c \in Cells, \A n \in 1 .. done + 1 : c # job.dst[n] /\ c # job.src[n]
          PROVE  mem'[c] = before[c]
        <3>1. c # Target /\ c # Source /\ \A n \in 1 .. done : c # job.dst[n] /\ c # job.src[n]
            BY <1>1, <2>7 DEF Target, Source
        <3> QED  BY <1>2, <2>1, <3>1
    <2>8. \A n \in 1 .. done + 1 : n \in 1 .. done \/ n = done + 1
        BY <1>1
    <2> QED  BY <2>5, <2>6, <2>7, <2>8 DEF Target, Source
<1>7. Assigned' /\ SwapExchanges'
    BY <1>3 DEF Assigned, SwapExchanges
<1>8. Listed' /\ Archived'
    BY <1>3 DEF Inv, Listed, Archived
<1> QED  BY <1>4, <1>5, <1>6, <1>7, <1>8 DEF Inv

\* The other loops: nothing of what Inv says is about them.
LEMMA OthersKeepInv ==
    ASSUME Inv, FillElement \/ SaveElement \/ LoadElement
    PROVE  Inv'
<1> USE VisitFacts
<1>1. PICK op \in {"fill", "save", "load"} : Visiting(op) /\ Visited
    BY DEF FillElement, SaveElement, LoadElement
<1>2. mem' \in [Cells -> Values] /\ archive' \in Seq(Values)
    <2>1. CASE FillElement
        BY <2>1 DEF FillElement, Inv, TypeOK, Jobs
    <2>2. CASE SaveElement
        BY <2>2 DEF SaveElement, Inv, TypeOK
    <2>3. CASE LoadElement
        <3>1. archive[done + 1] \in Values
            BY <2>3 DEF LoadElement, Inv, TypeOK, WellFormed, Visiting
        <3> QED  BY <2>3, <3>1 DEF LoadElement, Inv, TypeOK
    <2> QED  BY <2>1, <2>2, <2>3
<1>3. job' = job /\ job.op \in {"fill", "save", "load"} /\ (job.op = "load" => archive' = archive)
    BY <1>1 DEF Visited, Visiting, FillElement, SaveElement, LoadElement
<1>4. TypeOK'
    BY <1>1, <1>2, VisitKeepsTypes
<1>5. WellFormed'
    BY <1>3 DEF Inv, WellFormed
<1>6. Assigned' /\ SwapExchanges' /\ MovedOnce'
    BY <1>3 DEF Assigned, SwapExchanges, MovedOnce
<1>7. Listed'
    BY <1>3 DEF Inv, Listed
<1>8. Archived'
    <2>1. CASE FillElement
        BY <1>3, <2>1 DEF FillElement, Visiting, Archived
    <2>2. CASE SaveElement
        <3>1. /\ job.op = "save" /\ archive' = Append(archive, mem[Source]) /\ mem' = mem
              /\ archive \in Seq(Values) /\ Len(archive) = done
              /\ job.src = elements[job.from] /\ done' = done + 1
              /\ \A n \in 1 .. done : archive[n] = mem[elements[job.from][n]]
            BY <1>1, <2>2 DEF SaveElement, Visiting, Visited, Inv, TypeOK, Listed, Archived
        <3>2. Source = elements[job.from][done + 1]
            BY <3>1 DEF Source
        <3>3. Len(archive') = done + 1 /\ archive'[done + 1] = mem[Source] /\ \A n \in 1 .. done : archive'[n] = archive[n]
            BY <3>1
        <3>4. \A n \in 1 .. done + 1 : n \in 1 .. done \/ n = done + 1
            BY <1>1
        <3>5. \A n \in 1 .. done + 1 : archive'[n] = mem'[elements[job'.from][n]]
            BY <1>3, <3>1, <3>2, <3>3, <3>4
        <3> QED  BY <1>3, <3>1, <3>3, <3>5 DEF Archived
    <2>3. CASE LoadElement
        <3>1. /\ job.op = "load" /\ mem' = [mem EXCEPT ![Target] = archive[done + 1]] /\ archive' = archive
              /\ mem \in [Cells -> Values] /\ before' = before /\ done' = done + 1
              /\ SameShape(job.to, job.from)
              /\ \A n \in 1 .. Len(archive) : archive[n] = before[elements[job.from][n]]
              /\ \A n \in 1 .. done : mem[job.dst[n]] = archive[n]
            BY <1>1, <2>3 DEF LoadElement, Visiting, Visited, Inv, TypeOK, Archived
        <3>2. ASSUME NEW n \in 1 .. done PROVE mem'[job.dst[n]] = archive[n]
            <4>1. job.dst[n] # Target
                BY <1>1 DEF Inv, WellFormed, IsInjective, Target
            <4> QED  BY <1>1, <3>1, <4>1
        <3>3. mem'[job.dst[done + 1]] = archive[done + 1]
            BY <1>1, <3>1 DEF Target
        <3>4. \A n \in 1 .. done + 1 : n \in 1 .. done \/ n = done + 1
            BY <1>1
        <3> QED  BY <1>3, <3>1, <3>2, <3>3, <3>4 DEF Archived
    <2> QED  BY <2>1, <2>2, <2>3
<1> QED  BY <1>4, <1>5, <1>6, <1>7, <1>8 DEF Inv

\* Inv is inductive.
LEMMA InitInv == Init => Inv
<1> SUFFICES ASSUME Init PROVE Inv
    OBVIOUS
<1>1. TypeOK
    <2>1. PICK v \in Views :
              job = [op |-> "none", to |-> v, from |-> v, dst |-> <<>>, src |-> <<>>, value |-> Moved]
        BY DEF Init
    <2>2. job \in Jobs /\ Len(job.src) = Len(job.dst) /\ Len(job.dst) = 0
        <3>1. <<>> \in Seq(Cells) /\ Len(<<>>) = 0 /\ "none" \in Ops /\ Moved \in Values
            BY TransfersAssumption DEF Ops
        <3> QED  BY <2>1, <3>1 DEF Jobs
    <2>3. mem \in [Cells -> Values] /\ before \in [Cells -> Values]
        BY TransfersAssumption DEF Init
    <2>4. done \in 0 .. Len(job.dst)
        BY <2>2 DEF Init
    <2>5. running \in BOOLEAN
        BY DEF Init
    <2>6. archive \in Seq(Values)
        BY DEF Init
    <2>7. transfers \in 0 .. MaxTransfers
        BY TransfersAssumption DEF Init
    <2> QED  BY <2>2, <2>3, <2>4, <2>5, <2>6, <2>7 DEF TypeOK
<1>2. WellFormed /\ Listed /\ Archived /\ Assigned /\ SwapExchanges /\ MovedOnce
    BY DEF Init, WellFormed, Listed, Archived, Assigned, SwapExchanges, MovedOnce, IsInjective
<1> QED  BY <1>1, <1>2 DEF Inv

LEMMA NextInv == Inv /\ [Next]_vars => Inv'
<1> SUFFICES ASSUME Inv, [Next]_vars PROVE Inv'
    OBVIOUS
<1>1. CASE Begin
    BY <1>1, BeginStartsWell, StartKeepsInv DEF Inv
<1>2. CASE Leave
    BY <1>2, ZenonT(30) DEF Leave, Inv, TypeOK, WellFormed, Listed, Archived, Assigned, SwapExchanges, MovedOnce
<1>3. CASE UNCHANGED vars
    BY <1>3, SMTT(30) DEF vars, Inv, TypeOK, WellFormed, Listed, Archived, Assigned, SwapExchanges, MovedOnce
<1> QED  BY <1>1, <1>2, <1>3, CopyKeepsInv, SwapKeepsInv, MoveKeepsInv, OthersKeepInv DEF Next, Step

\* The types are respected, whatever the views and the transfers.
THEOREM TypeCorrect == Spec => []TypeOK
<1>1. Inv => TypeOK
    BY DEF Inv
<1> QED  BY <1>1, InitInv, NextInv, PTL DEF Spec

\* A copy that goes element by element is an assignment of all elements at
\* once, for any two views of any memory that overlap in no worse a way than
\* that each element is read before it is written over: at every step, and so
\* also when the copy of an element throws.
THEOREM CopyIsAssignment == Spec => []Assigned
<1>1. Inv => Assigned
    BY DEF Inv
<1> QED  BY <1>1, InitInv, NextInv, PTL DEF Spec

\* swap exchanges the elements of any two views that share none.
THEOREM SwapIsExchange == Spec => []SwapExchanges
<1>1. Inv => SwapExchanges
    BY DEF Inv
<1> QED  BY <1>1, InitInv, NextInv, PTL DEF Spec

\* element_moved moves each element once, for any two views that share none.
THEOREM MoveIsOnce == Spec => []MovedOnce
<1>1. Inv => MovedOnce
    BY DEF Inv
<1> QED  BY <1>1, InitInv, NextInv, PTL DEF Spec

--------------------------------------------------------------------------------
(* By index.                                                                  *)

\* An assignment gives v[i][j] the value of w[i][j], whichever of the loops it
\* goes by: for any two views of one shape that share no element.
THEOREM AssignmentByIndex == Spec => []AssignedByIndex
<1>1. Inv => AssignedByIndex
    <2> SUFFICES ASSUME Inv, job.op = "copy", done = Len(job.dst), SameShape(job.to, job.from),
                        Disjoint(elements[job.to], elements[job.from]),
                        NEW i \in Indices(Extensions(job.to.dims))
                 PROVE  mem[Address(job.to, i)] = before[Address(job.from, i)]
        BY DEF AssignedByIndex
    <2> PICK v \in Views, w \in Views : v = job.to /\ w = job.from
        BY DEF Inv, TypeOK, Jobs
    <2>1. job.dst = elements[v] /\ job.src = elements[w]
        BY DEF Inv, Listed
    <2>2. ReadInTime(job.dst, job.src)
        BY <2>1 DEF Disjoint, ReadInTime
    <2>3. \A n \in 1 .. done : mem[job.dst[n]] = before[job.src[n]]
        BY <2>2 DEF Inv, Assigned
    <2>4. Extensions(v.dims) = Extensions(w.dims) /\ i \in Indices(Extensions(v.dims))
        BY DEF SameShape
    <2> PICK n : n = ToLinear(Extensions(v.dims), i) + 1
        OBVIOUS
    <2>5. n \in 1 .. NumElements(v.dims) /\ elements[v][n] = Address(v, i)
        BY ONLY <2>4, n = ToLinear(Extensions(v.dims), i) + 1, v \in Views, PlaceOfIndex
    <2>6. elements[w][n] = Address(w, i)
        <3>1. i \in Indices(Extensions(w.dims)) /\ n = ToLinear(Extensions(w.dims), i) + 1
            BY ONLY <2>4, n = ToLinear(Extensions(v.dims), i) + 1
        <3> QED  BY ONLY <3>1, w \in Views, PlaceOfIndex
    <2>7. done = NumElements(v.dims)
        BY <2>1, ElementsOf
    <2> QED
        BY ONLY <2>1, <2>3, <2>5, <2>6, <2>7, v = job.to, w = job.from
<1> QED  BY <1>1, InitInv, NextInv, PTL DEF Spec

\* What is saved from one view is found, by index, in any view of the same shape
\* that it is loaded into, although one may go by rows and the other by elements.
THEOREM SavedIsLoaded == Spec => []RoundTrip
<1>1. Inv => RoundTrip
    <2> SUFFICES ASSUME Inv, job.op = "load", done = Len(job.dst),
                        NEW i \in Indices(Extensions(job.to.dims))
                 PROVE  mem[Address(job.to, i)] = before[Address(job.from, i)]
        BY DEF RoundTrip
    <2> PICK v \in Views, w \in Views : v = job.to /\ w = job.from
        BY DEF Inv, TypeOK, Jobs
    <2>1. /\ job.dst = elements[v] /\ SameShape(v, w) /\ Len(archive) = Len(job.dst)
          /\ \A n \in 1 .. Len(archive) : archive[n] = before[elements[w][n]]
          /\ \A n \in 1 .. done : mem[job.dst[n]] = archive[n]
        BY DEF Inv, Listed, Archived, WellFormed
    <2>2. Extensions(v.dims) = Extensions(w.dims) /\ i \in Indices(Extensions(v.dims))
        BY <2>1 DEF SameShape
    <2> PICK n : n = ToLinear(Extensions(v.dims), i) + 1
        OBVIOUS
    <2>3. n \in 1 .. NumElements(v.dims) /\ elements[v][n] = Address(v, i)
        BY ONLY <2>2, n = ToLinear(Extensions(v.dims), i) + 1, v \in Views, PlaceOfIndex
    <2>4. elements[w][n] = Address(w, i)
        <3>1. i \in Indices(Extensions(w.dims)) /\ n = ToLinear(Extensions(w.dims), i) + 1
            BY ONLY <2>2, n = ToLinear(Extensions(v.dims), i) + 1
        <3> QED  BY ONLY <3>1, w \in Views, PlaceOfIndex
    <2>5. done = NumElements(v.dims) /\ Len(archive) = done
        BY <2>1, ElementsOf
    <2> QED
        BY ONLY <2>1, <2>3, <2>4, <2>5, v = job.to, w = job.from
<1> QED  BY <1>1, InitInv, NextInv, PTL DEF Spec

--------------------------------------------------------------------------------
(* Rearrangement.                                                             *)

\* The exchange of two cells changes no count.
LEMMA ExchangeKeepsCounts ==
    \A m, m2 \in [Cells -> Values], a, b \in Cells, x \in Values :
        m2 = [m EXCEPT ![a] = m[b], ![b] = m[a]] =>
            Cardinality(Holding(m2, x)) = Cardinality(Holding(m, x))
<1> SUFFICES ASSUME NEW m \in [Cells -> Values], NEW m2 \in [Cells -> Values],
                    NEW a \in Cells, NEW b \in Cells, NEW x \in Values,
                    m2 = [m EXCEPT ![a] = m[b], ![b] = m[a]]
             PROVE  Cardinality(Holding(m2, x)) = Cardinality(Holding(m, x))
    OBVIOUS
<1> DEFINE other(c) == IF c = a THEN b ELSE IF c = b THEN a ELSE c
           f == [c \in Holding(m2, x) |-> other(c)]
<1>1. IsFiniteSet(Holding(m, x)) /\ IsFiniteSet(Holding(m2, x))
    BY TransfersAssumption, FS_Subset DEF Holding
<1>2. \A c \in Cells : m2[c] = m[other(c)] /\ other(c) \in Cells /\ other(other(c)) = c
    OBVIOUS
<1>3. \A c \in Cells : c \in Holding(m2, x) <=> other(c) \in Holding(m, x)
    BY <1>2 DEF Holding
<1>4. f \in [Holding(m2, x) -> Holding(m, x)]
    BY <1>3 DEF Holding
<1>5. \A c, d \in Holding(m2, x) : f[c] = f[d] => c = d
    BY <1>2 DEF Holding
<1>6. \A d \in Holding(m, x) : \E c \in Holding(m2, x) : f[c] = d
    <2> TAKE d \in Holding(m, x)
    <2>1. d \in Cells /\ other(d) \in Holding(m2, x) /\ f[other(d)] = d
        BY <1>2, <1>3 DEF Holding
    <2> QED  BY <2>1
<1>7. f \in Bijection(Holding(m2, x), Holding(m, x))
    BY <1>4, <1>5, <1>6 DEF Bijection, Injection, Surjection, IsInjective
<1> QED  BY <1>1, <1>7, FS_Bijection DEF ExistsBijection

\* swap rearranges the values, for any two views, overlapping ones included.
THEOREM SwapIsRearrangement == Spec => []SwapRearranges
<1>1. Init => SwapRearranges
    BY DEF Init, SwapRearranges
<1>2. Inv /\ SwapRearranges /\ [Next]_vars => SwapRearranges'
    <2> SUFFICES ASSUME Inv, SwapRearranges, [Next]_vars PROVE SwapRearranges'
        OBVIOUS
    <2>1. CASE Begin
        <3> PICK op, to, from, dst, src, x : StartsWell(op, to, from, dst, src, x)
            BY <2>1, BeginStartsWell DEF Inv
        <3>1. mem' = mem /\ before' = mem
            BY DEF StartsWell, Start
        <3> QED  BY <3>1 DEF SwapRearranges
    <2>2. CASE SwapElement
        <3>1. /\ mem \in [Cells -> Values] /\ mem' \in [Cells -> Values] /\ Target \in Cells /\ Source \in Cells
              /\ mem' = [mem EXCEPT ![Target] = mem[Source], ![Source] = mem[Target]]
              /\ before' = before /\ job' = job
            BY <2>2, VisitFacts DEF SwapElement, Visited, Inv, TypeOK
        <3>2. \A x \in Values : Cardinality(Holding(mem', x)) = Cardinality(Holding(mem, x))
            BY <3>1, ExchangeKeepsCounts DEF Holding
        <3> QED  BY <3>1, <3>2 DEF SwapRearranges
    <2>3. CASE Leave \/ UNCHANGED vars
        BY <2>3 DEF Leave, vars, SwapRearranges
    <2>4. CASE CopyElement \/ MoveElement \/ FillElement \/ SaveElement \/ LoadElement
        <3>1. job.op # "swap" /\ job' = job
            BY <2>4 DEF CopyElement, MoveElement, FillElement, SaveElement, LoadElement, Visiting, Visited
        <3> QED  BY <3>1 DEF SwapRearranges
    <2> QED  BY <2>1, <2>2, <2>3, <2>4 DEF Next, Step
<1> QED  BY <1>1, <1>2, InitInv, NextInv, PTL DEF Spec

--------------------------------------------------------------------------------
(* Comparisons.                                                               *)

\* Of two ranges whose items differ at the positions A, where the first has the
\* smaller item, and B, where it has the greater, one is less than the other
\* unless they have one length and differ nowhere.
LEMMA LexicographicOrder ==
    ASSUME NEW m \in Nat, NEW n \in Nat, NEW A \in SUBSET Nat, NEW B \in SUBSET Nat, A \cap B = {}
    PROVE  /\ ~(LexicographicallyLess(m, n, A, B) /\ LexicographicallyLess(n, m, B, A))
           /\ ~LexicographicallyLess(m, n, A, B) /\ ~LexicographicallyLess(n, m, B, A) <=>
                  m = n /\ A \cup B = {}
<1> A \cup B = B \cup A
    OBVIOUS
<1>1. CASE A \cup B = {}
    BY <1>1 DEF LexicographicallyLess
<1>2. CASE A \cup B # {}
    <2> PICK x \in A \cup B : \A y \in A \cup B : x <= y
        BY <1>2, LeastNumber
    <2>1. x \in Nat /\ \A j \in 0 .. x - 1 : j \notin A \cup B
        OBVIOUS
    <2>2. CASE x \in A
        <3>1. LexicographicallyLess(m, n, A, B)
            BY <2>1, <2>2 DEF LexicographicallyLess
        <3>2. ASSUME NEW k \in B PROVE \E j \in 0 .. k - 1 : j \in A \cup B
            <4>1. x # k /\ x <= k /\ k \in Nat
                BY <2>2
            <4>2. x \in 0 .. k - 1
                BY <2>1, <4>1
            <4> QED  BY <4>2
        <3>3. ~LexicographicallyLess(n, m, B, A)
            BY <1>2, <3>2 DEF LexicographicallyLess
        <3> QED  BY <1>2, <3>1, <3>3
    <2>3. CASE x \in B
        <3>1. LexicographicallyLess(n, m, B, A)
            BY <2>1, <2>3 DEF LexicographicallyLess
        <3>2. ASSUME NEW k \in A PROVE \E j \in 0 .. k - 1 : j \in A \cup B
            <4>1. x # k /\ x <= k /\ k \in Nat
                BY <2>3
            <4>2. x \in 0 .. k - 1
                BY <2>1, <4>1
            <4> QED  BY <4>2
        <3>3. ~LexicographicallyLess(m, n, A, B)
            BY <1>2, <3>2 DEF LexicographicallyLess
        <3> QED  BY <1>2, <3>1, <3>3
    <2> QED  BY <2>2, <2>3
<1> QED  BY <1>1, <1>2

ItemOf(u, k) == mem[u.base + k * u.dims[1].stride]

IsVector(u, n) ==
    /\ FirstOf(u) = 0 /\ Size(u.dims[1]) = n
    /\ \A k \in 0 .. n - 1 : ItemOf(u, k) \in Int

SameItems(u, m, w, n) == m = n /\ \A k \in 0 .. n - 1 : ItemOf(u, k) = ItemOf(w, k)

LEMMA VectorOrder ==
    ASSUME NEW u, NEW w, NEW m \in Nat, NEW n \in Nat, IsVector(u, m), IsVector(w, n)
    PROVE  /\ ~(LessVector(u, w) /\ LessVector(w, u))
           /\ ~LessVector(u, w) /\ ~LessVector(w, u) <=> SameItems(u, m, w, n)
<1> DEFINE A == {k \in Common(u, w) : ItemOf(u, k) < ItemOf(w, k)}
           B == {k \in Common(u, w) : ItemOf(w, k) < ItemOf(u, k)}
<1>1. Common(u, w) = {k \in 0 .. m - 1 : k < n} /\ Common(w, u) = Common(u, w)
    <2>1. Size(u.dims[1]) = m /\ Size(w.dims[1]) = n
        BY DEF IsVector
    <2>2. {k \in 0 .. m - 1 : k < n} = {k \in 0 .. n - 1 : k < m}
        OBVIOUS
    <2> QED  BY ONLY <2>1, <2>2 DEF Common
<1>2. \A k \in Common(u, w) : ItemOf(u, k) \in Int /\ ItemOf(w, k) \in Int
    BY <1>1 DEF IsVector
<1>3. LessVector(u, w) <=> LexicographicallyLess(m, n, A, B)
    <2>1. LessVector(u, w) <=> Compare(u, w, A, B)
        BY DEF LessVector, ItemOf
    <2>2. FirstOf(u) = 0 /\ FirstOf(w) = 0 /\ Size(u.dims[1]) = m /\ Size(w.dims[1]) = n
        BY DEF IsVector
    <2> HIDE DEF A, B
    <2> QED  BY ONLY <2>1, <2>2 DEF Compare
<1>4. LessVector(w, u) <=> LexicographicallyLess(n, m, B, A)
    <2>1. LessVector(w, u) <=> Compare(w, u, B, A)
        BY <1>1 DEF LessVector, ItemOf
    <2>2. FirstOf(w) = 0 /\ FirstOf(u) = 0 /\ Size(w.dims[1]) = n /\ Size(u.dims[1]) = m
        BY DEF IsVector
    <2> HIDE DEF A, B
    <2> QED  BY ONLY <2>1, <2>2 DEF Compare
<1>5. A \in SUBSET Nat /\ B \in SUBSET Nat /\ A \cap B = {}
    <2>1. Common(u, w) \subseteq Nat
        BY <1>1
    <2>2. \A k \in Common(u, w) : ~(ItemOf(u, k) < ItemOf(w, k) /\ ItemOf(w, k) < ItemOf(u, k))
        BY <1>2
    <2> QED  BY ONLY <2>1, <2>2
<1>6. ASSUME m = n PROVE A \cup B = {} <=> \A k \in 0 .. n - 1 : ItemOf(u, k) = ItemOf(w, k)
    <2>1. Common(u, w) = 0 .. n - 1
        BY <1>1, <1>6
    <2>2. \A k \in Common(u, w) : ItemOf(u, k) = ItemOf(w, k) <=> ~(ItemOf(u, k) < ItemOf(w, k)) /\ ~(ItemOf(w, k) < ItemOf(u, k))
        BY <1>2
    <2> QED  BY ONLY <2>1, <2>2
<1> HIDE DEF A, B
<1>7. /\ ~(LexicographicallyLess(m, n, A, B) /\ LexicographicallyLess(n, m, B, A))
      /\ ~LexicographicallyLess(m, n, A, B) /\ ~LexicographicallyLess(n, m, B, A) <=> m = n /\ A \cup B = {}
    BY <1>5, LexicographicOrder
<1>8. SameItems(u, m, w, n) <=> m = n /\ A \cup B = {}
    BY <1>6 DEF SameItems
<1> QED  BY ONLY <1>3, <1>4, <1>7, <1>8

IsMatrix(v, R, L) ==
    /\ FirstOf(v) = 0 /\ Size(v.dims[1]) = R
    /\ \A k \in 0 .. R - 1 : IsVector(Row(v, k), L)

SameRows(v, R, L, w, S, M) == R = S /\ \A k \in 0 .. R - 1 : SameItems(Row(v, k), L, Row(w, k), M)

LEMMA MatrixOrder ==
    ASSUME NEW v, NEW w, NEW R \in Nat, NEW L \in Nat, NEW S \in Nat, NEW M \in Nat,
           IsMatrix(v, R, L), IsMatrix(w, S, M)
    PROVE  /\ ~(LessMatrix(v, w) /\ LessMatrix(w, v))
           /\ ~LessMatrix(v, w) /\ ~LessMatrix(w, v) <=> SameRows(v, R, L, w, S, M)
<1> DEFINE A == {k \in Common(v, w) : LessVector(Row(v, k), Row(w, k))}
           B == {k \in Common(v, w) : LessVector(Row(w, k), Row(v, k))}
<1>1. Common(v, w) = {k \in 0 .. R - 1 : k < S} /\ Common(w, v) = Common(v, w)
    <2>1. Size(v.dims[1]) = R /\ Size(w.dims[1]) = S
        BY DEF IsMatrix
    <2>2. {k \in 0 .. R - 1 : k < S} = {k \in 0 .. S - 1 : k < R}
        OBVIOUS
    <2> QED  BY ONLY <2>1, <2>2 DEF Common
<1>2. ASSUME NEW k \in Common(v, w)
      PROVE  /\ ~(LessVector(Row(v, k), Row(w, k)) /\ LessVector(Row(w, k), Row(v, k)))
             /\ ~LessVector(Row(v, k), Row(w, k)) /\ ~LessVector(Row(w, k), Row(v, k)) <=>
                    SameItems(Row(v, k), L, Row(w, k), M)
    <2>1. k \in 0 .. R - 1 /\ k \in 0 .. S - 1
        BY <1>1
    <2> PICK x, y : x = Row(v, k) /\ y = Row(w, k)
        OBVIOUS
    <2>2. IsVector(x, L) /\ IsVector(y, M)
        BY <2>1 DEF IsMatrix
    <2>3. /\ ~(LessVector(x, y) /\ LessVector(y, x))
          /\ ~LessVector(x, y) /\ ~LessVector(y, x) <=> SameItems(x, L, y, M)
        BY ONLY <2>2, L \in Nat, M \in Nat, VectorOrder
    <2> QED  BY ONLY <2>3, x = Row(v, k), y = Row(w, k)
<1>3. LessMatrix(v, w) <=> LexicographicallyLess(R, S, A, B)
    <2>1. LessMatrix(v, w) <=> Compare(v, w, A, B)
        BY DEF LessMatrix
    <2>2. FirstOf(v) = 0 /\ FirstOf(w) = 0 /\ Size(v.dims[1]) = R /\ Size(w.dims[1]) = S
        BY DEF IsMatrix
    <2> HIDE DEF A, B
    <2> QED  BY ONLY <2>1, <2>2 DEF Compare
<1>4. LessMatrix(w, v) <=> LexicographicallyLess(S, R, B, A)
    <2>1. LessMatrix(w, v) <=> Compare(w, v, B, A)
        BY <1>1 DEF LessMatrix
    <2>2. FirstOf(w) = 0 /\ FirstOf(v) = 0 /\ Size(w.dims[1]) = S /\ Size(v.dims[1]) = R
        BY DEF IsMatrix
    <2> HIDE DEF A, B
    <2> QED  BY ONLY <2>1, <2>2 DEF Compare
<1>5. A \in SUBSET Nat /\ B \in SUBSET Nat /\ A \cap B = {}
    <2>1. Common(v, w) \subseteq Nat
        BY <1>1
    <2> QED  BY ONLY <1>2, <2>1
<1>6. ASSUME R = S PROVE A \cup B = {} <=> \A k \in 0 .. R - 1 : SameItems(Row(v, k), L, Row(w, k), M)
    <2>1. Common(v, w) = 0 .. R - 1
        BY <1>1, <1>6
    <2> QED  BY ONLY <1>2, <2>1
<1> HIDE DEF A, B
<1>7. /\ ~(LexicographicallyLess(R, S, A, B) /\ LexicographicallyLess(S, R, B, A))
      /\ ~LexicographicallyLess(R, S, A, B) /\ ~LexicographicallyLess(S, R, B, A) <=> R = S /\ A \cup B = {}
    BY <1>5, LexicographicOrder
<1>8. SameRows(v, R, L, w, S, M) <=> R = S /\ A \cup B = {}
    BY <1>6 DEF SameRows
<1> QED  BY ONLY <1>3, <1>4, <1>7, <1>8

\* The elements of a vector are its items.
LEMMA VectorElements ==
    ASSUME NEW u, u.base \in Int, IsZeroBased(u.dims, 1)
    PROVE  /\ NumElements(u.dims) \in Nat /\ Size(u.dims[1]) = NumElements(u.dims) /\ FirstOf(u) = 0
           /\ \A j \in 0 .. NumElements(u.dims) - 1 : ElementAt(u, j) = u.base + j * u.dims[1].stride
<1> PICK O \in Nat : O = 0 /\ O + 1 = 1
    OBVIOUS
<1>1. IsZeroBased(u.dims, O + 1)
    OBVIOUS
<1>2. \E n \in Nat, L \in Nat : HasRows(u, O, n, L)
    <2> PICK n, L : HasRows(u, O, n, L)
        BY ONLY <1>1, O \in Nat, u.base \in Int, RowsOfElements
    <2>1. n \in Nat /\ L \in Nat
        BY DEF HasRows
    <2> QED  BY <2>1
<1> PICK n \in Nat, L \in Nat : HasRows(u, O, n, L)
    BY <1>2
<1> PICK t : t = Tail(u.dims)
    OBVIOUS
<1> PICK b \in Int : b = u.base
    OBVIOUS
<1>3. /\ n = Size(u.dims[1]) /\ L = NumElements(t) /\ NumElements(u.dims) = n * L /\ IsZeroBased(t, O)
      /\ Extensions(u.dims)[1] = <<0, n>> /\ u.dims[1].stride \in Int
      /\ \A k \in 0 .. n - 1 :
            /\ Subscript(u, k) = View(t, b + k * u.dims[1].stride)
            /\ Subscript(u, k).base \in Int
            /\ \A j \in 0 .. L - 1 : ElementAt(u, k * L + j) = ElementAt(Subscript(u, k), j)
    BY ONLY HasRows(u, O, n, L), t = Tail(u.dims), b = u.base DEF HasRows
<1>4. IsZeroBased(t, 0)
    BY ONLY <1>3, O = 0
<1>5. L = 1
    <2> PICK x : x = View(t, 0)
        OBVIOUS
    <2>1. x.base \in Int /\ x.dims = t
        BY DEF View
    <2> QED  BY ONLY <1>3, <1>4, <2>1, NoDimensions
<1>6. NumElements(u.dims) = n
    BY ONLY <1>3, <1>5, n \in Nat
<1>7. FirstOf(u) = 0
    <2>1. DOMAIN u.dims = 1 .. 1
        <3> PICK one \in Nat : one = 1
            OBVIOUS
        <3>1. IsZeroBased(u.dims, one)
            OBVIOUS
        <3>2. DOMAIN u.dims = 1 .. one
            BY ONLY <3>1, one \in Nat, ZeroBasedParts
        <3> QED  BY ONLY <3>2, one = 1
    <2>2. 1 \in DOMAIN u.dims
        BY ONLY <2>1
    <2>3. Extension(u.dims[1]) = <<0, n>>
        BY ONLY <1>3, <2>2 DEF Extensions
    <2> QED  BY ONLY <2>3 DEF FirstOf
<1>8. ASSUME NEW j \in 0 .. n - 1 PROVE ElementAt(u, j) = b + j * u.dims[1].stride
    <2> PICK x : x = Subscript(u, j)
        OBVIOUS
    <2>1. x = View(t, b + j * u.dims[1].stride) /\ x.base \in Int
        BY ONLY <1>3, x = Subscript(u, j), j \in 0 .. n - 1
    <2>2. x.dims = t /\ x.base = b + j * u.dims[1].stride
        BY ONLY <2>1 DEF View
    <2>3. IsZeroBased(x.dims, 0)
        BY ONLY <1>4, <2>2
    <2>4. ElementAt(x, 0) = x.base
        BY ONLY <2>1, <2>3, NoDimensions
    <2>5. 0 \in 0 .. L - 1
        BY ONLY <1>5
    <2>6. ElementAt(u, j * L + 0) = ElementAt(x, 0)
        BY ONLY <1>3, <2>5, x = Subscript(u, j), j \in 0 .. n - 1
    <2>7. j * L + 0 = j
        BY ONLY <1>5, j \in 0 .. n - 1
    <2> QED  BY ONLY <2>2, <2>4, <2>6, <2>7
<1> QED  BY ONLY <1>3, <1>6, <1>7, <1>8, n \in Nat, b = u.base

\* The value of each element of a view.
ValueAt(v, n) == mem[elements[v][n]]

LEMMA SameValues ==
    ASSUME NEW v \in Views, NEW w \in Views, mem \in [Cells -> Values]
    PROVE  /\ \A n \in 1 .. NumElements(v.dims) : ValueAt(v, n) \in Int
           /\ ValuesOf(v) = ValuesOf(w) <=>
                  /\ NumElements(v.dims) = NumElements(w.dims)
                  /\ \A n \in 1 .. NumElements(v.dims) : ValueAt(v, n) = ValueAt(w, n)
<1> PICK m \in Nat, n \in Nat : m = NumElements(v.dims) /\ n = NumElements(w.dims)
    BY ElementsOf
<1> PICK e \in Seq(Cells), f \in Seq(Cells) : e = elements[v] /\ f = elements[w]
    BY ElementsOf
<1>1. Len(e) = m /\ Len(f) = n
    BY ElementsOf
<1>2. DOMAIN e = 1 .. m /\ DOMAIN f = 1 .. n
    BY ONLY <1>1, e \in Seq(Cells), f \in Seq(Cells)
<1> PICK x, y : x = ValuesOf(v) /\ y = ValuesOf(w)
    OBVIOUS
<1>3. /\ x = [k \in 1 .. m |-> mem[e[k]]]
      /\ y = [k \in 1 .. n |-> mem[f[k]]]
    BY ONLY <1>2, x = ValuesOf(v), y = ValuesOf(w), e = elements[v], f = elements[w] DEF ValuesOf
<1>4. x = y => m = n
    <2> SUFFICES ASSUME x = y PROVE m = n
        OBVIOUS
    <2>1. DOMAIN x = 1 .. m /\ DOMAIN y = 1 .. n
        BY ONLY <1>3
    <2>2. 1 .. m = 1 .. n
        BY <2>1
    <2>3. (m = 0 \/ m \in 1 .. m) /\ (n = 0 \/ n \in 1 .. n)
        OBVIOUS
    <2>4. (m = 0 \/ m \in 1 .. n) /\ (n = 0 \/ n \in 1 .. m)
        BY ONLY <2>2, <2>3
    <2> QED  BY ONLY <2>4, m \in Nat, n \in Nat
<1>5. ASSUME m = n PROVE x = y <=> \A k \in 1 .. m : mem[e[k]] = mem[f[k]]
    <2>1. ASSUME x = y, NEW k \in 1 .. m PROVE mem[e[k]] = mem[f[k]]
        <3>1. x[k] = mem[e[k]] /\ y[k] = mem[f[k]]
            BY ONLY <1>3, <1>5, k \in 1 .. m
        <3> QED  BY ONLY <2>1, <3>1
    <2>2. ASSUME \A k \in 1 .. m : mem[e[k]] = mem[f[k]] PROVE x = y
        BY ONLY <1>3, <1>5, <2>2
    <2> QED  BY <2>1, <2>2
<1>6. \A k \in 1 .. m : mem[e[k]] \in Int
    <2>1. \A k \in 1 .. m : e[k] \in Cells
        BY ONLY <1>1, e \in Seq(Cells), m \in Nat
    <2> QED  BY <2>1, ValuesAreOrdered
<1>7. \A k : ValueAt(v, k) = mem[e[k]] /\ ValueAt(w, k) = mem[f[k]]
    BY ONLY e = elements[v], f = elements[w] DEF ValueAt
<1> QED
    BY ONLY <1>4, <1>5, <1>6, <1>7, m = NumElements(v.dims), n = NumElements(w.dims), x = ValuesOf(v), y = ValuesOf(w)

LEMMA VectorView ==
    ASSUME NEW v \in Views, mem \in [Cells -> Values], Len(v.dims) = 1
    PROVE  /\ IsVector(v, NumElements(v.dims))
           /\ \A k \in 0 .. NumElements(v.dims) - 1 : ItemOf(v, k) = ValueAt(v, k + 1)
<1> PICK n \in Nat : n = NumElements(v.dims)
    BY ElementsOf
<1>1. v.base \in Int /\ IsZeroBased(v.dims, 1)
    BY ViewFacts
<1>2. /\ Size(v.dims[1]) = n /\ FirstOf(v) = 0
      /\ \A k \in 0 .. n - 1 : ElementAt(v, k) = v.base + k * v.dims[1].stride
    BY ONLY <1>1, n = NumElements(v.dims), VectorElements
<1>3. \A k \in 1 .. n : ValueAt(v, k) \in Int
    BY SameValues
<1>4. ASSUME NEW k \in 0 .. n - 1 PROVE ItemOf(v, k) = ValueAt(v, k + 1)
    <2> PICK m \in 1 .. n : m = k + 1 /\ m - 1 = k
        OBVIOUS
    <2>1. elements[v][m] = ElementAt(v, m - 1)
        BY ElementsOf
    <2>2. elements[v][m] = v.base + k * v.dims[1].stride
        BY ONLY <1>2, <2>1, m - 1 = k, k \in 0 .. n - 1
    <2> QED  BY ONLY <2>2, m = k + 1 DEF ItemOf, ValueAt
<1>5. \A k \in 0 .. n - 1 : ItemOf(v, k) \in Int
    <2> SUFFICES ASSUME NEW k \in 0 .. n - 1 PROVE ItemOf(v, k) \in Int
        OBVIOUS
    <2>1. k + 1 \in 1 .. n
        OBVIOUS
    <2> QED  BY ONLY <1>3, <1>4, <2>1, k \in 0 .. n - 1
<1> QED  BY ONLY <1>2, <1>4, <1>5, n = NumElements(v.dims) DEF IsVector

\* The items of the rows of a matrix are its elements, row after row.
IsMatrixView(v, R, L) ==
    /\ IsMatrix(v, R, L) /\ NumElements(v.dims) = R * L
    /\ Extension(v.dims[1]) = <<0, R>>
    /\ \A k \in 0 .. R - 1, j \in 0 .. L - 1 :
           k * L + j + 1 \in 1 .. R * L /\ ItemOf(Row(v, k), j) = ValueAt(v, k * L + j + 1)

LEMMA MatrixView ==
    ASSUME NEW v \in Views, mem \in [Cells -> Values], Len(v.dims) = 2
    PROVE  \E R \in Nat, L \in Nat : IsMatrixView(v, R, L)
<1> PICK one \in Nat : one = 1 /\ one + 1 = 2
    OBVIOUS
<1> PICK n \in Nat : n = NumElements(v.dims)
    BY ElementsOf
<1>1. v.base \in Int /\ IsZeroBased(v.dims, one + 1) /\ IsZeroBased(v.dims, 2)
    BY ViewFacts
<1>2. \E R \in Nat, L \in Nat : HasRows(v, one, R, L)
    <2> PICK R, L : HasRows(v, one, R, L)
        BY ONLY <1>1, one \in Nat, RowsOfElements
    <2>1. R \in Nat /\ L \in Nat
        BY DEF HasRows
    <2> QED  BY <2>1
<1> PICK R \in Nat, L \in Nat : HasRows(v, one, R, L)
    BY <1>2
<1> PICK t : t = Tail(v.dims)
    OBVIOUS
<1> PICK b \in Int : b = v.base
    BY <1>1
<1>3. /\ R = Size(v.dims[1]) /\ L = NumElements(t) /\ n = R * L /\ IsZeroBased(t, one)
      /\ Extensions(v.dims)[1] = <<0, R>>
      /\ \A k \in 0 .. R - 1 :
            /\ Subscript(v, k) = View(t, b + k * v.dims[1].stride)
            /\ Subscript(v, k).base \in Int
            /\ \A j \in 0 .. L - 1 : k * L + j \in 0 .. R * L - 1 /\ ElementAt(v, k * L + j) = ElementAt(Subscript(v, k), j)
    BY ONLY HasRows(v, one, R, L), t = Tail(v.dims), b = v.base, n = NumElements(v.dims) DEF HasRows
<1>4. Extension(v.dims[1]) = <<0, R>> /\ FirstOf(v) = 0
    <2> PICK two \in Nat : two = 2
        OBVIOUS
    <2>1. IsZeroBased(v.dims, two)
        BY ONLY <1>1, two = 2
    <2>2. DOMAIN v.dims = 1 .. two
        BY ONLY <2>1, two \in Nat, ZeroBasedParts
    <2>3. 1 \in DOMAIN v.dims
        BY ONLY <2>2, two = 2
    <2>4. Extension(v.dims[1]) = <<0, R>>
        BY ONLY <1>3, <2>3 DEF Extensions
    <2> QED  BY ONLY <2>4 DEF FirstOf
<1>5. \A m \in 1 .. n : ValueAt(v, m) \in Int /\ elements[v][m] = ElementAt(v, m - 1)
    BY SameValues, ElementsOf
<1>6. ASSUME NEW k \in 0 .. R - 1
      PROVE  /\ IsVector(Row(v, k), L)
             /\ \A j \in 0 .. L - 1 : k * L + j + 1 \in 1 .. R * L /\ ItemOf(Row(v, k), j) = ValueAt(v, k * L + j + 1)
    <2> PICK u : u = Row(v, k)
        OBVIOUS
    <2>1. u = View(t, b + k * v.dims[1].stride)
        BY ONLY u = Row(v, k), t = Tail(v.dims), b = v.base DEF Row
    <2>2. /\ u.base \in Int
          /\ \A j \in 0 .. L - 1 : k * L + j \in 0 .. R * L - 1 /\ ElementAt(v, k * L + j) = ElementAt(u, j)
        <3>1. u = Subscript(v, k)
            BY ONLY <1>3, <2>1, k \in 0 .. R - 1
        <3> QED  BY ONLY <1>3, <3>1, k \in 0 .. R - 1
    <2>3. u.dims = t
        BY ONLY <2>1 DEF View
    <2>4. IsZeroBased(u.dims, 1) /\ NumElements(u.dims) = L
        BY ONLY <1>3, <2>3, one = 1
    <2>5. /\ Size(u.dims[1]) = L /\ FirstOf(u) = 0
          /\ \A j \in 0 .. L - 1 : ElementAt(u, j) = u.base + j * u.dims[1].stride
        BY ONLY <2>2, <2>4, VectorElements
    <2>6. ASSUME NEW j \in 0 .. L - 1
          PROVE  k * L + j + 1 \in 1 .. R * L /\ ItemOf(u, j) = ValueAt(v, k * L + j + 1) /\ ItemOf(u, j) \in Int
        <3>1. k * L \in Nat /\ k * L + j \in 0 .. n - 1
            <4>1. k * L \in Nat
                BY ONLY L \in Nat, k \in 0 .. R - 1, R \in Nat
            <4> QED  BY ONLY <1>3, <2>2, <4>1, j \in 0 .. L - 1
        <3> PICK a \in Nat : a = k * L
            BY <3>1
        <3> PICK m \in 1 .. n : m = a + j + 1 /\ m - 1 = a + j
            BY ONLY <3>1, a = k * L, a \in Nat, j \in 0 .. L - 1, n \in Nat, L \in Nat
        <3>2. elements[v][m] = ElementAt(v, a + j)
            BY ONLY <1>5, m \in 1 .. n, m - 1 = a + j
        <3>3. ElementAt(v, a + j) = u.base + j * u.dims[1].stride
            BY ONLY <2>2, <2>5, a = k * L, j \in 0 .. L - 1
        <3>4. ItemOf(u, j) = ValueAt(v, m)
            BY ONLY <3>2, <3>3 DEF ItemOf, ValueAt
        <3>5. ValueAt(v, m) \in Int
            BY ONLY <1>5, m \in 1 .. n
        <3>6. k * L + j + 1 = m
            BY ONLY a = k * L, m = a + j + 1
        <3> QED  BY ONLY <1>3, <3>4, <3>5, <3>6, m \in 1 .. n
    <2>7. IsVector(u, L)
        BY ONLY <2>5, <2>6 DEF IsVector
    <2> QED  BY ONLY <2>6, <2>7, u = Row(v, k)
<1>7. IsMatrix(v, R, L)
    BY ONLY <1>3, <1>4, <1>6 DEF IsMatrix
<1>8. IsMatrixView(v, R, L)
    BY ONLY <1>3, <1>4, <1>6, <1>7, n = NumElements(v.dims) DEF IsMatrixView
<1> QED  BY <1>8

\* Two matrices of as many rows are equal, row by row, if they have the same
\* values in their order.
LEMMA SameMatrices ==
    ASSUME NEW v, NEW w, NEW R \in Nat, NEW L \in Nat, NEW M \in Nat,
           IsMatrixView(v, R, L), IsMatrixView(w, R, M)
    PROVE  SameRows(v, R, L, w, R, M) <=>
               R * L = R * M /\ \A n \in 1 .. R * L : ValueAt(v, n) = ValueAt(w, n)
<1>1. \A k \in 0 .. R - 1, j \in 0 .. L - 1 : k * L + j + 1 \in 1 .. R * L /\ ItemOf(Row(v, k), j) = ValueAt(v, k * L + j + 1)
    BY DEF IsMatrixView
<1>2. \A k \in 0 .. R - 1, j \in 0 .. M - 1 : k * M + j + 1 \in 1 .. R * M /\ ItemOf(Row(w, k), j) = ValueAt(w, k * M + j + 1)
    BY DEF IsMatrixView
<1>3. SameRows(v, R, L, w, R, M) <=> \A k \in 0 .. R - 1 : L = M /\ \A j \in 0 .. M - 1 : ItemOf(Row(v, k), j) = ItemOf(Row(w, k), j)
    BY DEF SameRows, SameItems
<1>4. CASE R = 0
    <2>1. R * L = 0 /\ R * M = 0 /\ 0 .. R - 1 = {} /\ 1 .. R * L = {}
        BY <1>4
    <2> QED  BY ONLY <1>3, <2>1
<1>5. CASE R # 0
    <2>1. 0 \in 0 .. R - 1
        BY <1>5
    <2>2. R * L = R * M <=> L = M
        <3>1. ASSUME L < M PROVE R * L < R * M
            <4> PICK d \in Nat : d = M - L - 1
                BY <3>1
            <4>1. R * M = R * L + R + R * d /\ R * d \in Nat /\ R * L \in Nat
                BY ONLY R \in Nat, L \in Nat, M \in Nat, d \in Nat, d = M - L - 1
            <4> PICK x \in Nat, y \in Nat : x = R * L /\ y = R * d
                BY <4>1
            <4> QED  BY ONLY <1>5, <4>1, x = R * L, y = R * d, x \in Nat, y \in Nat, R \in Nat
        <3>2. ASSUME M < L PROVE R * M < R * L
            <4> PICK d \in Nat : d = L - M - 1
                BY <3>2
            <4>1. R * L = R * M + R + R * d /\ R * d \in Nat /\ R * M \in Nat
                BY ONLY R \in Nat, L \in Nat, M \in Nat, d \in Nat, d = L - M - 1
            <4> PICK x \in Nat, y \in Nat : x = R * M /\ y = R * d
                BY <4>1
            <4> QED  BY ONLY <1>5, <4>1, x = R * M, y = R * d, x \in Nat, y \in Nat, R \in Nat
        <3> PICK x \in Nat, y \in Nat : x = R * L /\ y = R * M
            OBVIOUS
        <3> QED  BY ONLY <3>1, <3>2, x = R * L, y = R * M, x \in Nat, y \in Nat, L \in Nat, M \in Nat
    <2>3. ASSUME L = M, \A n \in 1 .. R * L : ValueAt(v, n) = ValueAt(w, n), NEW k \in 0 .. R - 1, NEW j \in 0 .. M - 1
          PROVE  ItemOf(Row(v, k), j) = ItemOf(Row(w, k), j)
        BY ONLY <1>1, <1>2, <2>3, k \in 0 .. R - 1, j \in 0 .. M - 1
    <2>4. ASSUME L = M, \A k \in 0 .. R - 1 : \A j \in 0 .. M - 1 : ItemOf(Row(v, k), j) = ItemOf(Row(w, k), j),
                 NEW n \in 1 .. R * L
          PROVE  ValueAt(v, n) = ValueAt(w, n)
        <3> PICK k \in 0 .. R - 1, j \in 0 .. L - 1 : k * L + j + 1 = n
            BY ONLY R \in Nat, L \in Nat, n \in 1 .. R * L, PlaceInRows
        <3> QED  BY ONLY <1>1, <1>2, <2>4, k \in 0 .. R - 1, j \in 0 .. L - 1, k * L + j + 1 = n
    <2> QED  BY ONLY <1>3, <2>1, <2>2, <2>3, <2>4
<1> QED  BY <1>4, <1>5

\* Of two views of one rank, at most two, one is less or they are equal: first,
\* those whose indices start at zero, which the items decide.
LEMMA PointsTrichotomy ==
    ASSUME NEW v \in Views, NEW w \in Views, mem \in [Cells -> Values], Len(v.dims) = 0, Len(w.dims) = 0
    PROVE  OneOfThree(v, w)
<1>1. ASSUME NEW u \in Views, Len(u.dims) = 0
      PROVE  u.dims = <<>> /\ NumElements(u.dims) = 1 /\ ValueAt(u, 1) = mem[u.base]
    <2>1. IsZeroBased(u.dims, 0) /\ u.base \in Int /\ u.dims \in Seq(Dimensions)
        BY <1>1, ViewFacts
    <2>2. NumElements(u.dims) = 1 /\ ElementAt(u, 0) = u.base
        BY ONLY <2>1, NoDimensions
    <2> PICK n \in Nat : n = NumElements(u.dims)
        BY ElementsOf
    <2> PICK m \in 1 .. n : m = 1 /\ m - 1 = 0
        BY ONLY <2>2, n = NumElements(u.dims)
    <2>3. elements[u][m] = ElementAt(u, m - 1)
        BY ElementsOf
    <2>4. elements[u][1] = u.base
        BY ONLY <2>2, <2>3, m = 1, m - 1 = 0
    <2>5. u.dims = <<>>
        <3> PICK ds \in Seq(Dimensions) : ds = u.dims
            BY <2>1
        <3>1. Len(ds) = 0
            BY <1>1
        <3> QED  BY ONLY <3>1, ds = u.dims, ds \in Seq(Dimensions), NoneIn
    <2> QED  BY ONLY <2>2, <2>4, <2>5 DEF ValueAt
<1> PICK x, y : x = mem[v.base] /\ y = mem[w.base]
    OBVIOUS
<1>2. v.dims = <<>> /\ w.dims = <<>> /\ ValueAt(v, 1) = x /\ ValueAt(w, 1) = y
      /\ NumElements(v.dims) = 1 /\ NumElements(w.dims) = 1
    BY <1>1
<1>3. x \in Int /\ y \in Int
    <2>1. 1 \in 1 .. 1
        OBVIOUS
    <2> QED  BY <1>2, <2>1, SameValues
<1>4. Equal(v, w) <=> x = y
    <2>1. SameExtension(v, w)
        BY ONLY <1>2 DEF SameExtension
    <2>2. ValuesOf(v) = ValuesOf(w) <=> \A n \in 1 .. 1 : ValueAt(v, n) = ValueAt(w, n)
        BY <1>2, SameValues
    <2>3. \A n \in 1 .. 1 : n = 1
        OBVIOUS
    <2>4. 1 \in 1 .. 1
        OBVIOUS
    <2> QED  BY ONLY <1>2, <2>1, <2>2, <2>3, <2>4 DEF Equal
<1>5. (Less(v, w) <=> x < y) /\ (Less(w, v) <=> y < x)
    <2>1. Less(v, w) <=> LessPoint(v, w)
        BY ONLY Len(v.dims) = 0 DEF Less
    <2>2. Less(w, v) <=> LessPoint(w, v)
        BY ONLY Len(w.dims) = 0 DEF Less
    <2> QED  BY ONLY <2>1, <2>2, x = mem[v.base], y = mem[w.base] DEF LessPoint
<1> QED  BY ONLY <1>3, <1>4, <1>5 DEF OneOfThree

\* The leading extensions are equal if the leading sizes are: they start at zero.
LEMMA SameLeading ==
    ASSUME NEW v, NEW w, NEW m \in Nat, NEW n \in Nat, v.dims # <<>>,
           Extension(v.dims[1]) = <<0, m>>, Extension(w.dims[1]) = <<0, n>>
    PROVE  SameExtension(v, w) <=> m = n
BY DEF SameExtension

LEMMA VectorsTrichotomy ==
    ASSUME NEW v \in Views, NEW w \in Views, mem \in [Cells -> Values], Len(v.dims) = 1, Len(w.dims) = 1
    PROVE  OneOfThree(v, w)
<1> PICK m \in Nat, n \in Nat : m = NumElements(v.dims) /\ n = NumElements(w.dims)
    BY ElementsOf
<1>1. /\ IsVector(v, m) /\ \A k \in 0 .. m - 1 : ItemOf(v, k) = ValueAt(v, k + 1)
      /\ IsVector(w, n) /\ \A k \in 0 .. n - 1 : ItemOf(w, k) = ValueAt(w, k + 1)
    BY VectorView
<1>2. /\ ~(LessVector(v, w) /\ LessVector(w, v))
      /\ ~LessVector(v, w) /\ ~LessVector(w, v) <=> SameItems(v, m, w, n)
    BY ONLY <1>1, m \in Nat, n \in Nat, VectorOrder
<1>3. (Less(v, w) <=> LessVector(v, w)) /\ (Less(w, v) <=> LessVector(w, v))
    <2>1. Less(v, w) <=> LessVector(v, w)
        BY ONLY Len(v.dims) = 1 DEF Less
    <2>2. Less(w, v) <=> LessVector(w, v)
        BY ONLY Len(w.dims) = 1 DEF Less
    <2> QED  BY ONLY <2>1, <2>2
<1>4. ASSUME NEW u \in Views, Len(u.dims) = 1, NEW l \in Nat, IsVector(u, l)
      PROVE  u.dims # <<>> /\ Extension(u.dims[1]) = <<0, l>>
    <2>1. IsZeroBased(u.dims, 1)
        BY <1>4, ViewFacts
    <2> PICK one \in Nat : one = 1
        OBVIOUS
    <2>2. IsZeroBased(u.dims, one)
        BY ONLY <2>1, one = 1
    <2>3. \A k \in 1 .. one : Extension(u.dims[k]) = <<0, Size(u.dims[k])>>
        BY ONLY <2>2, one \in Nat, ZeroBasedParts
    <2>4. 1 \in 1 .. one
        BY ONLY one = 1
    <2>5. Size(u.dims[1]) = l
        BY <1>4 DEF IsVector
    <2>6. Len(u.dims) # 0
        BY <1>4
    <2>7. u.dims # <<>>
        BY ONLY <2>6
    <2> QED  BY ONLY <2>3, <2>4, <2>5, <2>7
<1>5. SameExtension(v, w) <=> m = n
    <2>1. v.dims # <<>> /\ Extension(v.dims[1]) = <<0, m>> /\ Extension(w.dims[1]) = <<0, n>>
        BY <1>1, <1>4
    <2> QED  BY ONLY <2>1, m \in Nat, n \in Nat, SameLeading
<1>6. ValuesOf(v) = ValuesOf(w) <=> m = n /\ \A k \in 1 .. m : ValueAt(v, k) = ValueAt(w, k)
    BY SameValues
<1>7. ASSUME m = n
      PROVE  (\A k \in 1 .. m : ValueAt(v, k) = ValueAt(w, k)) <=> \A k \in 0 .. n - 1 : ItemOf(v, k) = ItemOf(w, k)
    <2>1. ASSUME \A k \in 1 .. m : ValueAt(v, k) = ValueAt(w, k), NEW k \in 0 .. n - 1 PROVE ItemOf(v, k) = ItemOf(w, k)
        <3>1. k + 1 \in 1 .. m
            BY <1>7
        <3> QED  BY ONLY <1>1, <1>7, <2>1, <3>1, k \in 0 .. n - 1
    <2>2. ASSUME \A k \in 0 .. n - 1 : ItemOf(v, k) = ItemOf(w, k), NEW k \in 1 .. m PROVE ValueAt(v, k) = ValueAt(w, k)
        <3> PICK j \in 0 .. n - 1 : j + 1 = k
            BY <1>7
        <3>1. ValueAt(v, j + 1) = ValueAt(w, j + 1)
            BY ONLY <1>1, <1>7, <2>2, j \in 0 .. n - 1
        <3> QED  BY ONLY <3>1, j + 1 = k
    <2> QED  BY ONLY <2>1, <2>2
<1>8. Equal(v, w) <=> SameItems(v, m, w, n)
    BY ONLY <1>5, <1>6, <1>7 DEF Equal, SameItems
<1> QED  BY ONLY <1>2, <1>3, <1>8 DEF OneOfThree

LEMMA MatricesTrichotomy ==
    ASSUME NEW v \in Views, NEW w \in Views, mem \in [Cells -> Values], Len(v.dims) = 2, Len(w.dims) = 2
    PROVE  OneOfThree(v, w)
<1> PICK R \in Nat, L \in Nat : IsMatrixView(v, R, L)
    BY MatrixView
<1> PICK S \in Nat, M \in Nat : IsMatrixView(w, S, M)
    BY MatrixView
<1>1. /\ IsMatrix(v, R, L) /\ NumElements(v.dims) = R * L /\ Extension(v.dims[1]) = <<0, R>>
      /\ IsMatrix(w, S, M) /\ NumElements(w.dims) = S * M /\ Extension(w.dims[1]) = <<0, S>>
    BY DEF IsMatrixView
<1>2. /\ ~(LessMatrix(v, w) /\ LessMatrix(w, v))
      /\ ~LessMatrix(v, w) /\ ~LessMatrix(w, v) <=> SameRows(v, R, L, w, S, M)
    BY ONLY <1>1, R \in Nat, L \in Nat, S \in Nat, M \in Nat, MatrixOrder
<1>3. (Less(v, w) <=> LessMatrix(v, w)) /\ (Less(w, v) <=> LessMatrix(w, v))
    <2>1. Less(v, w) <=> LessMatrix(v, w)
        BY ONLY Len(v.dims) = 2 DEF Less
    <2>2. Less(w, v) <=> LessMatrix(w, v)
        BY ONLY Len(w.dims) = 2 DEF Less
    <2> QED  BY ONLY <2>1, <2>2
<1>4. SameExtension(v, w) <=> R = S
    <2>1. Len(v.dims) # 0
        OBVIOUS
    <2>2. v.dims # <<>>
        BY ONLY <2>1
    <2> QED  BY ONLY <1>1, <2>2, R \in Nat, S \in Nat, SameLeading
<1>5. ValuesOf(v) = ValuesOf(w) <=> R * L = S * M /\ \A n \in 1 .. R * L : ValueAt(v, n) = ValueAt(w, n)
    BY <1>1, SameValues
<1>6. ASSUME R = S
      PROVE  SameRows(v, R, L, w, S, M) <=> R * L = S * M /\ \A n \in 1 .. R * L : ValueAt(v, n) = ValueAt(w, n)
    <2>1. IsMatrixView(w, R, M)
        BY <1>6
    <2>2. SameRows(v, R, L, w, R, M) <=> R * L = R * M /\ \A n \in 1 .. R * L : ValueAt(v, n) = ValueAt(w, n)
        BY ONLY <2>1, R \in Nat, L \in Nat, M \in Nat, IsMatrixView(v, R, L), SameMatrices
    <2> QED  BY ONLY <1>6, <2>2
<1>7. SameRows(v, R, L, w, S, M) => R = S
    BY DEF SameRows
<1>8. Equal(v, w) <=> SameRows(v, R, L, w, S, M)
    BY ONLY <1>4, <1>5, <1>6, <1>7 DEF Equal
<1> QED  BY ONLY <1>2, <1>3, <1>8 DEF OneOfThree

\* Of two arrays of one shape the elements in memory are compared in their order.
LEMMA EqualAsArrays ==
    ASSUME NEW v \in Views, NEW w \in Views, mem \in [Cells -> Values],
           IsArray(v), IsArray(w), SameShape(v, w)
    PROVE  EqualArrays(v, w) <=> Equal(v, w)
<1> PICK m \in Nat : m = NumElements(v.dims)
    BY ElementsOf
<1> PICK N \in Nat, ds \in Seq(Dimensions), N2 \in Nat, es \in Seq(Dimensions) :
        N = Len(ds) /\ ds = v.dims /\ N2 = Len(es) /\ es = w.dims
    BY ViewFacts
<1>1. Extensions(ds) = Extensions(es)
    BY DEF SameShape
<1>2. NumElements(w.dims) = m
    <2>1. NumElements(v.dims) = NumElementsIn(Extensions(v.dims))
        <3>1. IsZeroBased(v.dims, N)
            BY ViewFacts
        <3> QED  BY ONLY <3>1, N \in Nat, ZeroBasedIsBox
    <2>2. NumElements(w.dims) = NumElementsIn(Extensions(w.dims))
        <3>1. IsZeroBased(w.dims, N2)
            BY ViewFacts
        <3> QED  BY ONLY <3>1, N2 \in Nat, ZeroBasedIsBox
    <2> QED  BY ONLY <1>1, <2>1, <2>2, m = NumElements(v.dims), ds = v.dims, es = w.dims
<1>3. SameExtension(v, w)
    <2> SUFFICES ASSUME ds # <<>> PROVE Extension(ds[1]) = Extension(es[1])
        BY DEF SameExtension
    <2>1. DOMAIN Extensions(ds) = DOMAIN ds /\ DOMAIN Extensions(es) = DOMAIN es
        BY ONLY DEF Extensions
    <2>2. N # 0
        <3>1. ASSUME N = 0 PROVE FALSE
            <4>1. ds = <<>>
                BY ONLY <3>1, N = Len(ds), ds \in Seq(Dimensions), NoneIn
            <4> QED  BY <4>1
        <3> QED  BY <3>1
    <2>3. 1 \in DOMAIN ds
        BY ONLY <2>2, N = Len(ds), N \in Nat, ds \in Seq(Dimensions)
    <2>4. 1 \in DOMAIN es
        BY ONLY <1>1, <2>1, <2>3
    <2>5. Extensions(ds)[1] = Extension(ds[1]) /\ Extensions(es)[1] = Extension(es[1])
        BY ONLY <2>3, <2>4 DEF Extensions
    <2> QED  BY ONLY <1>1, <2>5
<1>4. Block(v) = elements[v] /\ Block(w) = elements[w]
    BY BlockIsElements
<1>5. DOMAIN elements[v] = 1 .. m
    <2> PICK e \in Seq(Cells) : e = elements[v]
        BY ElementsOf
    <2>1. Len(e) = m
        BY ElementsOf
    <2> QED  BY ONLY <2>1, e = elements[v], e \in Seq(Cells)
<1>6. EqualArrays(v, w) <=> \A n \in 1 .. m : ValueAt(v, n) = ValueAt(w, n)
    <2>1. EqualArrays(v, w) <=> \A n \in DOMAIN elements[v] : mem[elements[v][n]] = mem[elements[w][n]]
        BY <1>4 DEF EqualArrays
    <2> QED  BY ONLY <1>5, <2>1 DEF ValueAt
<1>7. ValuesOf(v) = ValuesOf(w) <=> \A n \in 1 .. m : ValueAt(v, n) = ValueAt(w, n)
    BY <1>2, SameValues
<1> QED  BY ONLY <1>3, <1>6, <1>7 DEF Equal

--------------------------------------------------------------------------------
(* Views of different first indices, whatever their items are.                *)

\* The extension begins at the new first index.
LEMMA ReindexedExtension ==
    ASSUME NEW v \in Views, HasItems(v), NEW i \in Int
    PROVE  /\ Len(Reindexed(v, i).dims) = Len(v.dims) /\ Reindexed(v, i).dims # <<>>
           /\ FirstOf(Reindexed(v, i)) = i
           /\ Extension(Reindexed(v, i).dims[1])[1] = i
<1> PICK ds \in Seq(Dimensions), N \in Nat : ds = v.dims /\ N = Len(ds)
    BY ViewFacts
<1>1. N # 0
    <2>1. ASSUME N = 0 PROVE FALSE
        <3>1. ds = <<>>
            BY ONLY <2>1, N = Len(ds), ds \in Seq(Dimensions), NoneIn
        <3> QED  BY <3>1 DEF HasItems
    <2> QED  BY <2>1
<1>2. 1 \in DOMAIN ds /\ ds[1] \in Dimensions
    BY ONLY <1>1, N = Len(ds), N \in Nat, ds \in Seq(Dimensions)
<1> PICK d \in Dimensions : d = ds[1]
    BY <1>2
<1>3. d.nelems # 0 /\ ExtensionExists(d)
    <2>1. Size(d) # 0
        BY DEF HasItems
    <2>2. d.nelems # 0
        BY ONLY <2>1 DEF Size
    <2> QED  BY <1>2, <2>2, ViewsStartAtZero
<1> PICK s \in Int, z \in Int : s = d.stride /\ z = d.nelems
    BY DEF Dimensions
<1>4. s # 0 /\ z # 0
    BY ONLY <1>3, s = d.stride, z = d.nelems DEF ExtensionExists
<1> PICK e : e = [d EXCEPT !.offset = i * d.stride]
    OBVIOUS
<1>5. e.stride = s /\ e.offset = i * s /\ e.nelems = z
    BY ONLY d \in Dimensions, s = d.stride, z = d.nelems, e = [d EXCEPT !.offset = i * d.stride] DEF Dimensions
<1>6. Reindexed(v, i).dims = [ds EXCEPT ![1] = e]
    <2>1. Reindex(ds, i) = [ds EXCEPT ![1] = e]
        BY ONLY d = ds[1], e = [d EXCEPT !.offset = i * d.stride], d \in Dimensions DEF Reindex, Dimensions
    <2> QED  BY ONLY <2>1, ds = v.dims DEF Reindexed, View
<1> PICK es : es = [ds EXCEPT ![1] = e]
    OBVIOUS
<1>7. es[1] = e /\ Len(es) = N /\ es # <<>>
    <2>1. DOMAIN es = DOMAIN ds /\ es[1] = e
        BY ONLY <1>2, es = [ds EXCEPT ![1] = e]
    <2>2. DOMAIN ds = 1 .. N
        BY ONLY ds \in Seq(Dimensions), N = Len(ds)
    <2>3. Len(es) = N
        BY ONLY <2>1, <2>2, N \in Nat
    <2> QED  BY ONLY <1>1, <2>1, <2>3
<1>8. Extension(e)[1] = i
    <2>1. Quotient(s * i, s) = i
        BY ONLY <1>4, s \in Int, i \in Int, QuotientExact
    <2>2. s * i = i * s
        OBVIOUS
    <2> QED  BY ONLY <1>4, <1>5, <2>1, <2>2 DEF Extension
<1> QED  BY ONLY <1>6, <1>7, <1>8, es = [ds EXCEPT ![1] = e], N = Len(ds), ds = v.dims DEF FirstOf

LEMMA FirstIndexDecides ==
    ASSUME NEW v, NEW w, FirstOf(v) \in Int, FirstOf(w) \in Int, FirstOf(v) # FirstOf(w),
           NEW A, NEW B
    PROVE  Compare(v, w, A, B) <=> FirstOf(v) > FirstOf(w)
BY DEF Compare

\* Exactly one of two views of different first indices is less, and they are not
\* equal: so operator==, which compares the extensions first.
LEMMA ReindexedTrichotomy ==
    ASSUME NEW v \in Views, NEW w \in Views, Len(v.dims) = 1 \/ Len(v.dims) = 2, Len(w.dims) = Len(v.dims),
           HasItems(v), HasItems(w), NEW i \in Int, NEW j \in Int, i # j
    PROVE  OneOfThree(Reindexed(v, i), Reindexed(w, j))
<1> PICK a, b : a = Reindexed(v, i) /\ b = Reindexed(w, j)
    OBVIOUS
<1>1. /\ Len(a.dims) = Len(v.dims) /\ a.dims # <<>> /\ FirstOf(a) = i /\ Extension(a.dims[1])[1] = i
      /\ Len(b.dims) = Len(v.dims) /\ b.dims # <<>> /\ FirstOf(b) = j /\ Extension(b.dims[1])[1] = j
    BY ReindexedExtension
<1>2. ~Equal(a, b)
    BY ONLY <1>1, i # j DEF Equal, SameExtension
<1>3. ASSUME NEW x, NEW y, FirstOf(x) \in Int, FirstOf(y) \in Int, FirstOf(x) # FirstOf(y)
      PROVE  /\ LessVector(x, y) <=> FirstOf(x) > FirstOf(y)
             /\ LessMatrix(x, y) <=> FirstOf(x) > FirstOf(y)
    <2> DEFINE A == {k \in Common(x, y) : ItemOf(x, k) < ItemOf(y, k)}
               B == {k \in Common(x, y) : ItemOf(y, k) < ItemOf(x, k)}
               C == {k \in Common(x, y) : LessVector(Row(x, k), Row(y, k))}
               D == {k \in Common(x, y) : LessVector(Row(y, k), Row(x, k))}
    <2>1. LessVector(x, y) <=> Compare(x, y, A, B)
        BY DEF LessVector, ItemOf
    <2>2. LessMatrix(x, y) <=> Compare(x, y, C, D)
        BY DEF LessMatrix
    <2> HIDE DEF A, B, C, D
    <2> QED  BY ONLY <1>3, <2>1, <2>2, FirstIndexDecides
<1>4. (Less(a, b) <=> i > j) /\ (Less(b, a) <=> j > i)
    <2>1. /\ LessVector(a, b) <=> i > j
          /\ LessMatrix(a, b) <=> i > j
          /\ LessVector(b, a) <=> j > i
          /\ LessMatrix(b, a) <=> j > i
        BY ONLY <1>1, <1>3, i \in Int, j \in Int, i # j
    <2>2. CASE Len(v.dims) = 1
        <3>1. (Less(a, b) <=> LessVector(a, b)) /\ (Less(b, a) <=> LessVector(b, a))
            BY ONLY <1>1, <2>2 DEF Less
        <3> QED  BY ONLY <2>1, <3>1
    <2>3. CASE Len(v.dims) = 2
        <3>1. (Less(a, b) <=> LessMatrix(a, b)) /\ (Less(b, a) <=> LessMatrix(b, a))
            BY ONLY <1>1, <2>3 DEF Less
        <3> QED  BY ONLY <2>1, <3>1
    <2> QED  BY <2>2, <2>3
<1>5. OneOfThree(a, b)
    <2>1. ~(i > j /\ j > i) /\ (i > j \/ j > i)
        OBVIOUS
    <2>2. ~(Less(a, b) /\ Less(b, a)) /\ (Less(a, b) \/ Less(b, a))
        BY ONLY <1>4, <2>1, i \in Int, j \in Int
    <2> QED  BY ONLY <1>2, <2>2 DEF OneOfThree
<1> QED  BY ONLY <1>5, a = Reindexed(v, i), b = Reindexed(w, j)

\* operator== and operator< agree for whatever the memory holds: of two views of
\* one rank, at most two, one is less than the other or they are equal; so are two
\* views to which reindexed has given first indices of their own, any two; and
\* arrays are compared as views are.
THEOREM ComparedByOrder == Spec => []Trichotomy
<1>1. Inv => Trichotomy
    <2> SUFFICES ASSUME Inv, NEW p \in Comparable
                 PROVE  /\ OneOfThree(p[1], p[2])
                        /\ HasItems(p[1]) /\ HasItems(p[2]) =>
                               \A i, j \in Firsts : i # j => OneOfThree(Reindexed(p[1], i), Reindexed(p[2], j))
                        /\ p \in TwoArrays => EqualArrays(p[1], p[2]) = Equal(p[1], p[2])
        BY DEF Trichotomy
    <2> PICK v, w : v = p[1] /\ w = p[2]
        OBVIOUS
    <2>1. v \in Views /\ w \in Views /\ Len(v.dims) = Len(w.dims) /\ Len(v.dims) <= 2
        BY DEF Comparable, SameRank
    <2>2. mem \in [Cells -> Values]
        BY DEF Inv, TypeOK
    <2>3. Len(v.dims) = 0 \/ Len(v.dims) = 1 \/ Len(v.dims) = 2
        <3> PICK n \in Nat : n = Len(v.dims)
            BY <2>1, ViewFacts
        <3>1. n <= 2
            BY ONLY <2>1, n = Len(v.dims)
        <3>2. n = 0 \/ n = 1 \/ n = 2
            BY ONLY <3>1, n \in Nat
        <3> QED  BY ONLY <3>2, n = Len(v.dims)
    <2>4. OneOfThree(v, w)
        BY <2>1, <2>2, <2>3, PointsTrichotomy, VectorsTrichotomy, MatricesTrichotomy
    <2>5. p \in TwoArrays => (EqualArrays(v, w) <=> Equal(v, w))
        BY <2>1, <2>2, EqualAsArrays DEF TwoArrays
    <2>6. Equal(v, w) \in BOOLEAN /\ EqualArrays(v, w) \in BOOLEAN
        BY DEF Equal, EqualArrays
    <2>7. ASSUME HasItems(v), HasItems(w), NEW i \in Firsts, NEW j \in Firsts, i # j
          PROVE  OneOfThree(Reindexed(v, i), Reindexed(w, j))
        <3>1. i \in Int /\ j \in Int
            BY FirstsAreIndices
        <3>2. Len(v.dims) # 0
            <4> PICK ds \in Seq(Dimensions) : ds = v.dims
                BY <2>1, ViewFacts
            <4>1. ASSUME Len(ds) = 0 PROVE FALSE
                <5>1. ds = <<>>
                    BY ONLY <4>1, ds \in Seq(Dimensions), NoneIn
                <5> QED  BY <2>7, <5>1 DEF HasItems
            <4> QED  BY <4>1
        <3>3. Len(v.dims) = 1 \/ Len(v.dims) = 2
            BY ONLY <2>3, <3>2
        <3> QED  BY ONLY <2>1, <2>7, <3>1, <3>3, ReindexedTrichotomy
    <2> QED
        BY ONLY <2>4, <2>5, <2>6, <2>7, v = p[1], w = p[2]
<1> QED  BY <1>1, InitInv, NextInv, PTL DEF Spec

================================================================================
