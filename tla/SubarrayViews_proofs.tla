-------------------------- MODULE SubarrayViews_proofs -------------------------
(******************************************************************************)
(* For arrays of every number of dimensions and every shape, and every chain  *)
(* of views of views: what extension() asserts is never violated, the steps   *)
(* from begin() lead to the elements that operator[] finds, elements() is in  *)
(* canonical order, and every function of a view renames the elements of the  *)
(* array as IndexMaps says it does.                                           *)
(******************************************************************************)
EXTENDS SubarrayViews, Layout_proofs

\* The inductive invariant.
IInv == view \in RegularViews /\ width \in Nat \ {0}

--------------------------------------------------------------------------------
(* Regular dimensions.                                                        *)

LEMMA RegularExists ==
    ASSUME NEW d \in Regular
    PROVE  ExtensionExists(d)
<1>1. IsRegular(d.stride, d.offset, d.nelems) /\ d.stride \in Int /\ d.offset \in Int /\ d.nelems \in Int
    BY RegularParts
<1> PICK s \in Int, o \in Int, n \in Int : s = d.stride /\ o = d.offset /\ n = d.nelems
    BY <1>1
<1>2. ASSUME n # 0 PROVE s # 0 /\ Remainder(o, s) = 0 /\ Remainder(n, s) = 0
    <2>1. s # 0 /\ (\E f \in Int : o = s * f) /\ (\E m \in Int : n = s * m)
        BY <1>1, <1>2 DEF IsRegular
    <2>2. QED
        BY ONLY <2>1, s \in Int, o \in Int, n \in Int, RemainderZero
<1>3. QED
    BY <1>2 DEF ExtensionExists

\* More or fewer steps of the same stride, none if there were none.
LEMMA Resized ==
    ASSUME NEW d \in Regular, NEW n \in Nat, d.nelems = 0 => n = 0
    PROVE  /\ [d EXCEPT !.nelems = d.stride * n] = DimensionOf(d.stride, d.offset, d.stride * n)
           /\ [d EXCEPT !.nelems = d.stride * n] \in Regular
<1>1. IsRegular(d.stride, d.offset, d.nelems) /\ d = DimensionOf(d.stride, d.offset, d.nelems)
    BY RegularParts
<1> PICK s \in Int, o \in Int : s = d.stride /\ o = d.offset
    BY RegularParts
<1> PICK m \in Int : m = s * n
    OBVIOUS
<1>2. [d EXCEPT !.nelems = m] = DimensionOf(s, o, m)
    BY ONLY <1>1, s = d.stride, o = d.offset DEF DimensionOf
<1>3. IsRegular(s, o, m)
    <2>1. ASSUME m # 0 PROVE s # 0 /\ (\E f \in Int : o = s * f) /\ (\E k \in Nat : m = s * k)
        <3>1. n # 0
            BY <2>1
        <3>2. d.nelems # 0
            BY <3>1
        <3>3. s # 0 /\ (\E f \in Int : o = s * f)
            BY ONLY <1>1, <3>2, s = d.stride, o = d.offset DEF IsRegular
        <3>4. QED
            BY <3>3
    <2>2. QED
        BY ONLY <2>1, s \in Int, o \in Int, m \in Int DEF IsRegular
<1>4. QED
    BY <1>2, <1>3, MadeRegular

\* A first index.
LEMMA Offset ==
    ASSUME NEW d \in Regular, NEW f \in Int
    PROVE  /\ [d EXCEPT !.offset = f * d.stride] = DimensionOf(d.stride, f * d.stride, d.nelems)
           /\ [d EXCEPT !.offset = f * d.stride] \in Regular
<1>1. IsRegular(d.stride, d.offset, d.nelems) /\ d = DimensionOf(d.stride, d.offset, d.nelems)
    BY RegularParts
<1> PICK s \in Int, n \in Int : s = d.stride /\ n = d.nelems
    BY RegularParts
<1> PICK m \in Int : m = f * s
    OBVIOUS
<1>2. [d EXCEPT !.offset = m] = DimensionOf(s, m, n)
    BY ONLY <1>1, s = d.stride, n = d.nelems DEF DimensionOf
<1>3. IsRegular(s, m, n)
    <2>1. m = s * f
        OBVIOUS
    <2>2. QED
        BY ONLY <1>1, <2>1, s = d.stride, n = d.nelems, s \in Int, n \in Int, m \in Int, f \in Int DEF IsRegular
<1>4. QED
    BY <1>2, <1>3, MadeRegular

\* A stride that divides what there is.
LEMMA Restrided ==
    ASSUME NEW d \in Regular, NEW s \in Int,
           d.nelems # 0 => s # 0 /\ Remainder(d.offset, s) = 0 /\ \E k \in Nat : d.nelems = s * k
    PROVE  /\ [d EXCEPT !.stride = s] = DimensionOf(s, d.offset, d.nelems)
           /\ [d EXCEPT !.stride = s] \in Regular
<1>1. IsRegular(d.stride, d.offset, d.nelems) /\ d = DimensionOf(d.stride, d.offset, d.nelems)
    BY RegularParts
<1> PICK o \in Int, n \in Int : o = d.offset /\ n = d.nelems
    BY RegularParts
<1>2. [d EXCEPT !.stride = s] = DimensionOf(s, o, n)
    BY ONLY <1>1, o = d.offset, n = d.nelems DEF DimensionOf
<1>3. IsRegular(s, o, n)
    <2>1. ASSUME n # 0 PROVE s # 0 /\ (\E f \in Int : o = s * f) /\ (\E k \in Nat : n = s * k)
        <3>1. s # 0 /\ Remainder(o, s) = 0 /\ \E k \in Nat : n = s * k
            BY <2>1
        <3>2. QED
            BY ONLY <3>1, s \in Int, o \in Int, n \in Int, RemainderZero
    <2>2. QED
        BY ONLY <2>1, s \in Int, o \in Int, n \in Int DEF IsRegular
<1>4. QED
    BY <1>2, <1>3, MadeRegular

--------------------------------------------------------------------------------
(* Views of regular dimensions.                                               *)

LEMMA WithTopView ==
    ASSUME NEW v \in RegularViews, NEW x \in Regular
    PROVE  /\ WithTop(v, x) = View([v.dims EXCEPT ![1] = x], v.base)
           /\ WithTop(v, x) \in RegularViews
<1>1. v.base \in Int /\ v.dims \in Seq(Regular) \ {<<>>} /\ v = [base |-> v.base, dims |-> v.dims]
    BY DEF RegularViews, ViewsOf
<1> PICK ds : ds = [v.dims EXCEPT ![1] = x]
    OBVIOUS
<1>2. WithTop(v, x) = [v EXCEPT !.dims = ds]
    BY DEF WithTop
<1>3. WithTop(v, x) = View(ds, v.base)
    BY ONLY <1>1, <1>2 DEF View
<1>4. ds \in Seq(Regular) /\ ds # <<>>
    BY <1>1, TopReplaced
<1>5. View(ds, v.base) \in RegularViews
    BY ONLY <1>1, <1>4, MadeView
<1>6. QED
    BY ONLY <1>3, <1>5, ds = [v.dims EXCEPT ![1] = x]

LEMMA SliceView ==
    ASSUME NEW v \in RegularViews, NEW a \in Int, NEW b \in Int, a <= b, v.dims[1].nelems = 0 => a = b
    PROVE  /\ Slice(v, a, b) \in RegularViews /\ Len(Slice(v, a, b).dims) = Len(v.dims)
           /\ Slice(v, a, b).dims[1] = DimensionOf(v.dims[1].stride, v.dims[1].offset, v.dims[1].stride * (b - a))
           /\ \A k \in 1 .. Len(v.dims) : k # 1 => Slice(v, a, b).dims[k] = v.dims[k]
<1> PICK d \in Regular : d = v.dims[1]
    BY ViewParts
<1> PICK n \in Nat : n = b - a
    OBVIOUS
<1> PICK x : x = [d EXCEPT !.nelems = d.stride * n]
    OBVIOUS
<1>1. x = DimensionOf(d.stride, d.offset, d.stride * n) /\ x \in Regular
    BY Resized
<1> PICK c \in Int : c = v.base + (a * d.stride - d.offset)
    <2>1. v.base \in Int /\ d.stride \in Int /\ d.offset \in Int
        BY ViewParts, RegularParts
    <2>2. QED
        BY <2>1
<1> PICK ds : ds = [v.dims EXCEPT ![1] = x]
    OBVIOUS
<1>2. Slice(v, a, b) = View(ds, c)
    <2>1. [v.dims EXCEPT ![1].nelems = v.dims[1].stride * (b - a)] = [v.dims EXCEPT ![1] = x]
        BY ONLY d = v.dims[1], n = b - a, x = [d EXCEPT !.nelems = d.stride * n]
    <2>2. QED
        BY ONLY <2>1, d = v.dims[1], ds = [v.dims EXCEPT ![1] = x], c = v.base + (a * d.stride - d.offset) DEF Slice
<1>3. /\ ds \in Seq(Regular) /\ ds # <<>> /\ Len(ds) = Len(v.dims) /\ ds[1] = x
      /\ \A k \in 1 .. Len(v.dims) : k # 1 => ds[k] = v.dims[k]
    <2>1. v.dims \in Seq(Regular) /\ v.dims # <<>>
        BY ViewParts
    <2>2. QED
        BY ONLY <1>1, <2>1, ds = [v.dims EXCEPT ![1] = x], TopReplaced
<1>4. View(ds, c) \in RegularViews /\ View(ds, c).dims = ds
    BY <1>3, MadeView
<1>5. QED
    BY ONLY <1>1, <1>2, <1>3, <1>4, d = v.dims[1], n = b - a

LEMMA PartsOf ==
    ASSUME NEW R, NEW v \in ViewsOf(R)
    PROVE  /\ v.base \in Int /\ v.dims \in Seq(R) /\ v.dims # <<>> /\ v = View(v.dims, v.base)
           /\ Len(v.dims) \in Nat /\ Len(v.dims) >= 1 /\ DOMAIN v.dims = 1 .. Len(v.dims)
           /\ v.dims[1] \in R /\ \A k \in 1 .. Len(v.dims) : v.dims[k] \in R
<1>1. v.base \in Int /\ v.dims \in Seq(R) \ {<<>>} /\ v = View(v.dims, v.base)
    BY DEF ViewsOf, View
<1> PICK ds \in Seq(R) : ds = v.dims /\ ds # <<>>
    BY <1>1
<1>2. Len(ds) \in Nat /\ Len(ds) >= 1 /\ DOMAIN ds = 1 .. Len(ds) /\ 1 \in DOMAIN ds
    OBVIOUS
<1>3. \A k \in 1 .. Len(ds) : ds[k] \in R
    OBVIOUS
<1>4. QED
    BY ONLY <1>1, <1>2, <1>3, ds = v.dims, ds \in Seq(R)

LEMMA MadeOf ==
    ASSUME NEW R, NEW ds \in Seq(R), ds # <<>>, NEW b \in Int
    PROVE  View(ds, b) \in ViewsOf(R) /\ View(ds, b).dims = ds /\ View(ds, b).base = b
BY DEF View, ViewsOf

LEMMA RotationOf ==
    ASSUME NEW R, NEW v \in ViewsOf(R)
    PROVE  /\ Rotation(v) \in ViewsOf(R) /\ Len(Rotation(v).dims) = Len(v.dims)
           /\ \A k \in 1 .. Len(v.dims) - 1 : Rotation(v).dims[k] = v.dims[k + 1]
           /\ Rotation(v).dims[Len(v.dims)] = v.dims[1]
<1> PICK ds \in Seq(R), L \in Nat : ds = v.dims /\ L = Len(ds) /\ L >= 1
    BY PartsOf
<1> PICK e : e = RotateFrom(ds, 1)
    OBVIOUS
<1>1. CanRoll(ds, L, 1, R)
    BY DEF CanRoll
<1>2. e \in [1 .. L -> R] /\ \A m \in 1 .. L : e[m] = Rolled(ds, L, 1, m)
    <2>1. IsRolled(e, ds, L, 1, R)
        BY ONLY <1>1, e = RotateFrom(ds, 1), RotateExact
    <2>2. QED
        BY ONLY <2>1 DEF IsRolled
<1>3. \A k \in 1 .. L - 1 : e[k] = ds[k + 1]
    BY ONLY <1>2, L \in Nat DEF Rolled
<1>4. e[L] = ds[1]
    BY ONLY <1>2, L \in Nat, L >= 1 DEF Rolled
<1>5. e \in Seq(R) /\ Len(e) = L /\ e # <<>>
    BY ONLY <1>2, L \in Nat, L >= 1
<1>6. Rotation(v) = View(e, v.base)
    <2>1. v = View(v.dims, v.base)
        BY PartsOf
    <2>2. QED
        BY ONLY <2>1, e = RotateFrom(ds, 1), ds = v.dims DEF Rotation, Rotate, View
<1>7. View(e, v.base) \in ViewsOf(R) /\ View(e, v.base).dims = e
    BY <1>5, PartsOf, MadeOf
<1>8. QED
    BY ONLY <1>3, <1>4, <1>5, <1>6, <1>7, ds = v.dims, L = Len(ds)

LEMMA UnrotationOf ==
    ASSUME NEW R, NEW v \in ViewsOf(R)
    PROVE  /\ Unrotation(v) \in ViewsOf(R) /\ Len(Unrotation(v).dims) = Len(v.dims)
           /\ Unrotation(v).dims[1] = v.dims[Len(v.dims)]
           /\ \A k \in 2 .. Len(v.dims) : Unrotation(v).dims[k] = v.dims[k - 1]
<1> PICK ds \in Seq(R), L \in Nat : ds = v.dims /\ L = Len(ds) /\ L >= 1
    BY PartsOf
<1> PICK e : e = UnrotateFrom(ds, 1)
    OBVIOUS
<1>1. CanRoll(ds, L, 1, R)
    BY DEF CanRoll
<1>2. e \in [1 .. L -> R] /\ \A m \in 1 .. L : e[m] = Unrolled(ds, L, 1, m)
    <2>1. IsUnrolled(e, ds, L, 1, R)
        BY ONLY <1>1, e = UnrotateFrom(ds, 1), UnrotateExact
    <2>2. QED
        BY ONLY <2>1 DEF IsUnrolled
<1>3. \A k \in 2 .. L : e[k] = ds[k - 1]
    BY ONLY <1>2, L \in Nat DEF Unrolled
<1>4. e[1] = ds[L]
    BY ONLY <1>2, L \in Nat, L >= 1 DEF Unrolled
<1>5. e \in Seq(R) /\ Len(e) = L /\ e # <<>>
    BY ONLY <1>2, L \in Nat, L >= 1
<1>6. Unrotation(v) = View(e, v.base)
    <2>1. v = View(v.dims, v.base)
        BY PartsOf
    <2>2. QED
        BY ONLY <2>1, e = UnrotateFrom(ds, 1), ds = v.dims DEF Unrotation, Unrotate, View
<1>7. View(e, v.base) \in ViewsOf(R) /\ View(e, v.base).dims = e
    BY <1>5, PartsOf, MadeOf
<1>8. QED
    BY ONLY <1>3, <1>4, <1>5, <1>6, <1>7, ds = v.dims, L = Len(ds)

LEMMA RotationView ==
    ASSUME NEW v \in RegularViews
    PROVE  /\ Rotation(v) \in RegularViews /\ Len(Rotation(v).dims) = Len(v.dims)
           /\ \A k \in 1 .. Len(v.dims) - 1 : Rotation(v).dims[k] = v.dims[k + 1]
           /\ Rotation(v).dims[Len(v.dims)] = v.dims[1]
BY RotationOf DEF RegularViews

LEMMA UnrotationView ==
    ASSUME NEW v \in RegularViews
    PROVE  /\ Unrotation(v) \in RegularViews /\ Len(Unrotation(v).dims) = Len(v.dims)
           /\ Unrotation(v).dims[1] = v.dims[Len(v.dims)]
           /\ \A k \in 2 .. Len(v.dims) : Unrotation(v).dims[k] = v.dims[k - 1]
BY UnrotationOf DEF RegularViews

--------------------------------------------------------------------------------
(* The functions, one by one.                                                 *)

LEMMA DimsReplaced ==
    ASSUME NEW v \in RegularViews, NEW ds \in Seq(Regular), ds # <<>>
    PROVE  [v EXCEPT !.dims = ds] = View(ds, v.base) /\ [v EXCEPT !.dims = ds] \in RegularViews
<1>1. v.base \in Int /\ v = View(v.dims, v.base)
    BY ViewParts
<1>2. [v EXCEPT !.dims = ds] = View(ds, v.base)
    BY ONLY <1>1 DEF View
<1>3. QED
    BY <1>1, <1>2, MadeView

LEMMA BecomesRegular ==
    ASSUME IInv, NEW v \in RegularViews, NEW op, Becomes(v, op)
    PROVE  IInv'
BY DEF IInv, Becomes

\* The leading dimension, its steps, and what selects in it.
LEMMA TopSteps ==
    ASSUME NEW v \in RegularViews
    PROVE  \E f, n : Stepped(v.dims[1], f, n)
BY ViewParts, RegularSteps

LEMMA RotatedRegular ==
    ASSUME IInv, Rotated \/ Unrotated
    PROVE  IInv'
BY RotationView, UnrotationView, BecomesRegular DEF Rotated, Unrotated, IInv

LEMMA TransposedRegular ==
    ASSUME IInv, Transposed
    PROVE  IInv'
<1> PICK v \in RegularViews : v = view
    BY DEF IInv
<1> PICK ds \in Seq(Regular) : ds = v.dims
    BY ViewParts
<1> PICK L \in Nat : L = Len(ds) /\ L > 1
    BY DEF Transposed, D
<1> PICK e : e = Transpose(ds, 1)
    OBVIOUS
<1>1. CanSwap(ds, L, 1, Regular)
    BY DEF CanSwap
<1>2. e \in [1 .. L -> Regular]
    <2>1. Swapped(e, ds, L, 1, Regular)
        BY ONLY <1>1, e = Transpose(ds, 1), TransposeSwaps
    <2>2. QED
        BY ONLY <2>1 DEF Swapped
<1>3. e \in Seq(Regular) /\ e # <<>>
    BY ONLY <1>2, L \in Nat, L > 1
<1>4. [v EXCEPT !.dims = e] \in RegularViews
    BY <1>3, DimsReplaced
<1>5. QED
    BY <1>4, BecomesRegular DEF Transposed

LEMMA ReversedRegular ==
    ASSUME IInv, Reversed
    PROVE  IInv'
<1> PICK v \in RegularViews : v = view
    BY DEF IInv
<1> PICK ds \in Seq(Regular) : ds = v.dims
    BY ViewParts
<1> PICK L \in Nat : L = Len(ds) /\ L >= 1
    BY ViewParts
<1> PICK e : e = ReverseDimensions(ds)
    OBVIOUS
<1>1. ds \in [1 .. L -> Regular] /\ Len(ds) = L
    OBVIOUS
<1>2. e \in [1 .. L -> Regular]
    BY ONLY <1>1, L \in Nat, e = ReverseDimensions(ds), ReverseExact
<1>3. e \in Seq(Regular) /\ e # <<>>
    BY ONLY <1>2, L \in Nat, L >= 1
<1>4. [v EXCEPT !.dims = e] \in RegularViews
    BY <1>3, DimsReplaced
<1>5. QED
    BY <1>4, BecomesRegular DEF Reversed

LEMMA ReindexRegular ==
    ASSUME NEW ds \in Seq(Regular), ds # <<>>, NEW f \in Int
    PROVE  Reindex(ds, f) \in Seq(Regular) /\ Reindex(ds, f) # <<>>
<1> PICK d \in Regular : d = ds[1]
    OBVIOUS
<1> PICK x : x = [d EXCEPT !.offset = f * d.stride]
    OBVIOUS
<1>1. x \in Regular
    BY Offset
<1>2. Reindex(ds, f) = [ds EXCEPT ![1] = x]
    BY ONLY d = ds[1], x = [d EXCEPT !.offset = f * d.stride] DEF Reindex
<1>3. QED
    BY ONLY <1>1, <1>2, ds \in Seq(Regular), ds # <<>>, TopReplaced

LEMMA ReindexedRegular ==
    ASSUME IInv, NEW f \in Int, Reindexed(f)
    PROVE  IInv'
<1>1. view \in RegularViews /\ view.dims \in Seq(Regular) /\ view.dims # <<>>
    BY ViewParts DEF IInv
<1>2. Reindex(view.dims, f) \in Seq(Regular) /\ Reindex(view.dims, f) # <<>>
    BY <1>1, ReindexRegular
<1>3. [view EXCEPT !.dims = Reindex(view.dims, f)] \in RegularViews
    BY <1>1, <1>2, DimsReplaced
<1>4. QED
    BY <1>3, BecomesRegular DEF Reindexed

LEMMA FlattedRegular ==
    ASSUME IInv, Flatted
    PROVE  IInv'
<1> PICK v \in RegularViews : v = view
    BY DEF IInv
<1> PICK ds \in Seq(Regular) : ds = v.dims
    BY ViewParts
<1>1. Len(ds) \in Nat /\ Len(ds) > 1
    BY DEF Flatted, D
<1>9. Tail(ds) \in Seq(Regular) /\ Tail(ds) # <<>> /\ Tail(ds)[1] = ds[2]
    <2>1. Tail(ds) \in Seq(Regular) /\ Tail(ds) # <<>> /\ \A k \in 1 .. Len(ds) - 1 : Tail(ds)[k] = ds[k + 1]
        BY <1>1, TailRegular
    <2>2. 1 \in 1 .. Len(ds) - 1 /\ 1 + 1 = 2
        BY <1>1
    <2>3. QED
        BY ONLY <2>1, <2>2
<1> PICK sub \in Seq(Regular) : sub = Tail(ds) /\ sub # <<>> /\ sub[1] = ds[2]
    BY ONLY <1>9
<1>10. ds[1] \in Regular /\ ds[2] \in Regular
    BY ONLY <1>1, ds \in Seq(Regular)
<1> PICK d \in Regular : d = ds[2]
    BY ONLY <1>10
<1> PICK t \in Regular : t = ds[1]
    BY ONLY <1>10
<1>11. d = sub[1]
    BY ONLY sub[1] = ds[2], d = ds[2]
<1> PICK m \in Nat, k \in Nat : m = Size(d) /\ k = Size(t)
    BY SizeOf
<1> PICK n \in Nat : n = m * k
    BY ONLY m \in Nat, k \in Nat
<1>2. d.nelems = d.stride * m /\ (d.nelems = 0 => n = 0) /\ d.stride \in Int
    <2>1. d.nelems = d.stride * m /\ (d.nelems = 0 <=> m = 0)
        BY ONLY d \in Regular, m = Size(d), SizeOf
    <2>2. d.stride \in Int
        BY ONLY d \in Regular, RegularParts
    <2>3. m = 0 => n = 0
        BY ONLY k \in Nat, n = m * k
    <2>4. QED
        BY ONLY <2>1, <2>2, <2>3
<1>3. d.nelems * k = d.stride * n
    BY ONLY <1>2, d.stride \in Int, m \in Nat, k \in Nat, n = m * k
<1> PICK x : x = [d EXCEPT !.nelems = d.stride * n]
    OBVIOUS
<1>4. x \in Regular
    BY <1>2, Resized
<1>5. [sub EXCEPT ![1].nelems = ds[2].nelems * k] = [sub EXCEPT ![1] = x]
    BY ONLY <1>3, <1>11, d = ds[2], x = [d EXCEPT !.nelems = d.stride * n]
<1>6. [sub EXCEPT ![1] = x] \in Seq(Regular) /\ [sub EXCEPT ![1] = x] # <<>>
    BY <1>4, TopReplaced
<1>7. [v EXCEPT !.dims = [sub EXCEPT ![1].nelems = ds[2].nelems * k]] \in RegularViews
    BY <1>5, <1>6, DimsReplaced
<1>8. QED
    BY <1>7, BecomesRegular DEF Flatted, Sub, Top

LEMMA ElementRegular ==
    ASSUME NEW v \in RegularViews, NEW j \in Int, Len(v.dims) > 1
    PROVE  Subscript(v, j) \in RegularViews
<1> PICK ds \in Seq(Regular) : ds = v.dims /\ Len(ds) \in Nat /\ Len(ds) > 1
    BY ViewParts
<1>1. Tail(ds) \in Seq(Regular) /\ Tail(ds) # <<>>
    BY TailRegular
<1>2. v.base + (j * v.dims[1].stride - v.dims[1].offset) \in Int
    BY ViewParts, RegularParts
<1>3. QED
    BY <1>1, <1>2, MadeView DEF Subscript

LEMMA TakeView ==
    ASSUME NEW v \in RegularViews, NEW n \in Nat, v.dims[1].nelems = 0 => n = 0
    PROVE  /\ Take(v, n) \in RegularViews /\ Len(Take(v, n).dims) = Len(v.dims)
           /\ Take(v, n).dims[1] = DimensionOf(v.dims[1].stride, v.dims[1].offset, v.dims[1].stride * n)
           /\ Take(v, n).base = v.base
           /\ \A k \in 1 .. Len(v.dims) : k # 1 => Take(v, n).dims[k] = v.dims[k]
<1> PICK d \in Regular : d = v.dims[1]
    BY ViewParts
<1> PICK x : x = [d EXCEPT !.nelems = d.stride * n]
    OBVIOUS
<1>1. x = DimensionOf(d.stride, d.offset, d.stride * n) /\ x \in Regular
    BY Resized
<1>2. Take(v, n) = View([v.dims EXCEPT ![1] = x], v.base) /\ Take(v, n) \in RegularViews
    BY <1>1, WithTopView DEF Take
<1>3. v.dims \in Seq(Regular) /\ v.dims # <<>>
    BY ViewParts
<1>4. QED
    BY ONLY <1>1, <1>2, <1>3, d = v.dims[1], TopReplaced DEF View

LEMMA TakedRegular ==
    ASSUME IInv, NEW n \in 0 .. Size(Top), Taked(n)
    PROVE  IInv'
<1>1. view \in RegularViews /\ Top \in Regular /\ Top = view.dims[1]
    BY ViewParts DEF IInv, Top
<1>2. n \in Nat /\ (Top.nelems = 0 => n = 0)
    BY <1>1, SizeOf
<1>3. Take(view, n) \in RegularViews
    BY <1>1, <1>2, TakeView
<1>4. QED
    BY <1>3, BecomesRegular DEF Taked

LEMMA DropRegular ==
    ASSUME NEW v \in RegularViews, NEW n \in Int, n <= Size(v.dims[1]), v.dims[1].nelems = 0 => n = 0
    PROVE  Drop(v, n) \in RegularViews
<1> PICK d \in Regular : d = v.dims[1]
    BY ViewParts
<1> PICK m \in Nat : m = Size(d) - n
    BY SizeOf
<1>1. d.nelems = 0 => m = 0
    BY SizeOf
<1> PICK x : x = [d EXCEPT !.nelems = d.stride * m]
    OBVIOUS
<1>2. x \in Regular
    BY <1>1, Resized
<1> PICK ds : ds = [v.dims EXCEPT ![1] = x]
    OBVIOUS
<1>3. ds \in Seq(Regular) /\ ds # <<>>
    BY <1>2, ViewParts, TopReplaced
<1> PICK c \in Int : c = v.base + n * d.stride - d.offset
    <2>1. v.base \in Int
        BY ViewParts
    <2>2. d.stride \in Int /\ d.offset \in Int
        BY ONLY d \in Regular, RegularParts
    <2>3. v.base + n * d.stride - d.offset \in Int
        BY ONLY <2>1, <2>2, n \in Int
    <2>4. QED
        BY ONLY <2>3
<1>4. Drop(v, n) = View(ds, c)
    <2>1. [v.dims EXCEPT ![1].nelems = v.dims[1].stride * (Size(v.dims[1]) - n)] = [v.dims EXCEPT ![1] = x]
        BY ONLY d = v.dims[1], m = Size(d) - n, x = [d EXCEPT !.nelems = d.stride * m]
    <2>2. QED
        BY ONLY <2>1, ds = [v.dims EXCEPT ![1] = x], d = v.dims[1], c = v.base + n * d.stride - d.offset DEF Drop
<1>5. QED
    BY ONLY <1>3, <1>4, c \in Int, MadeView

LEMMA DroppedRegular ==
    ASSUME IInv, NEW n \in 0 .. Size(Top), Dropped(n)
    PROVE  IInv'
<1>1. view \in RegularViews /\ Top \in Regular /\ Top = view.dims[1]
    BY ViewParts DEF IInv, Top
<1>2. n \in Int /\ (Top.nelems = 0 => n = 0)
    BY <1>1, SizeOf
<1>3. Drop(view, n) \in RegularViews
    BY <1>1, <1>2, DropRegular
<1>4. QED
    BY <1>3, BecomesRegular DEF Dropped

\* A subrange of the valid indices of an empty dimension is empty.
LEMMA SubrangeOf ==
    ASSUME NEW d \in Regular, NEW y \in Subranges(Extension(d))
    PROVE  y[1] \in Int /\ y[2] \in Int /\ y[1] <= y[2] /\ (d.nelems = 0 => y[1] = y[2])
<1>1. y[1] \in Extension(d)[1] .. Extension(d)[2] /\ y[2] \in Extension(d)[1] .. Extension(d)[2] /\ y[1] <= y[2]
    BY DEF Subranges
<1>2. y[1] \in Int /\ y[2] \in Int
    BY <1>1, SizeOf
<1>3. d.nelems = 0 => Extension(d)[1] = 0 /\ Extension(d)[2] = 0
    BY SizeOf
<1>4. QED
    BY ONLY <1>1, <1>2, <1>3

LEMMA BlockView ==
    ASSUME NEW v \in RegularViews, NEW a \in Int, NEW b \in Int, a <= b, v.dims[1].nelems = 0 => a = b
    PROVE  /\ Block(v, a, b) \in RegularViews /\ Len(Block(v, a, b).dims) = Len(v.dims)
           /\ \A k \in 1 .. Len(v.dims) : k # 1 => Block(v, a, b).dims[k] = v.dims[k]
<1> PICK s \in RegularViews : s = Slice(v, a, b)
    BY SliceView
<1>1. Len(s.dims) = Len(v.dims) /\ \A k \in 1 .. Len(v.dims) : k # 1 => s.dims[k] = v.dims[k]
    BY SliceView
<1> PICK ds \in Seq(Regular) : ds = s.dims /\ ds # <<>>
    BY ViewParts
<1> PICK e : e = Reindex(ds, a)
    OBVIOUS
<1>2. e \in Seq(Regular) /\ e # <<>>
    BY ReindexRegular
<1>3. Len(e) = Len(ds) /\ \A k \in 1 .. Len(ds) : k # 1 => e[k] = ds[k]
    BY ONLY ds \in Seq(Regular), e = Reindex(ds, a) DEF Reindex
<1>4. Block(v, a, b) = [s EXCEPT !.dims = e]
    BY DEF Block
<1>5. [s EXCEPT !.dims = e] \in RegularViews /\ [s EXCEPT !.dims = e] = View(e, s.base)
    BY <1>2, DimsReplaced
<1>6. Block(v, a, b).dims = e
    BY ONLY <1>4, <1>5 DEF View
<1>7. QED
    BY ONLY <1>1, <1>3, <1>4, <1>5, <1>6, ds = s.dims

LEMMA SlicedRegular ==
    ASSUME IInv, NEW y \in Subranges(Valid), Sliced(y[1], y[2]) \/ Blocked(y[1], y[2])
    PROVE  IInv'
<1>1. view \in RegularViews /\ Top \in Regular /\ Top = view.dims[1] /\ Valid = Extension(Top)
    BY ViewParts DEF IInv, Top, Valid
<1>2. y[1] \in Int /\ y[2] \in Int /\ y[1] <= y[2] /\ (Top.nelems = 0 => y[1] = y[2])
    BY <1>1, SubrangeOf
<1>3. Slice(view, y[1], y[2]) \in RegularViews /\ Block(view, y[1], y[2]) \in RegularViews
    BY <1>1, <1>2, SliceView, BlockView
<1>4. QED
    BY <1>3, BecomesRegular DEF Sliced, Blocked

--------------------------------------------------------------------------------
(* Partitions.                                                                *)

LEMMA PartsRegular ==
    ASSUME NEW d \in Regular, NEW n \in Nat, NEW q \in Nat, n # 0, Size(d) = n * q
    PROVE  /\ DimensionOf(Quotient(d.nelems, n), 0, d.nelems) \in Regular
           /\ [d EXCEPT !.nelems = Quotient(d.nelems, n)] \in Regular
<1> PICK s \in Int : s = d.stride
    BY RegularParts
<1> PICK t \in Int : t = d.nelems
    BY RegularParts
<1> PICK m \in Int : m = s * q
    OBVIOUS
<1>1. t = s * (n * q) /\ (t = 0 <=> n * q = 0)
    BY SizeOf
<1>2. t = n * m
    BY ONLY <1>1, s \in Int, n \in Nat, q \in Nat, m = s * q
<1>3. Quotient(t, n) = m
    BY ONLY <1>2, n \in Nat, m \in Int, n # 0, QuotientExact
<1>4. IsRegular(m, 0, t)
    <2>1. t # 0 => m # 0
        BY ONLY <1>2, n \in Nat, m \in Int
    <2>2. 0 = m * 0 /\ t = m * n
        BY ONLY <1>2, n \in Nat, m \in Int
    <2>3. QED
        BY ONLY <2>1, <2>2, m \in Int, t \in Int, n \in Nat DEF IsRegular
<1>5. DimensionOf(m, 0, t) \in Regular
    BY <1>4, MadeRegular
<1>6. d.nelems = 0 => q = 0
    BY ONLY <1>1, t = d.nelems, n \in Nat, q \in Nat, n # 0
<1>7. [d EXCEPT !.nelems = d.stride * q] \in Regular
    BY <1>6, Resized
<1>8. QED
    BY ONLY <1>3, <1>5, <1>7, m = s * q, s = d.stride, t = d.nelems

LEMMA TwoBefore ==
    ASSUME NEW R, NEW ds \in Seq(R), ds # <<>>, NEW x \in R, NEW y \in R
    PROVE  <<x, y>> \o Tail(ds) \in Seq(R) /\ <<x, y>> \o Tail(ds) # <<>>
<1>1. Tail(ds) \in Seq(R)
    OBVIOUS
<1>2. <<x, y>> \in Seq(R) /\ Len(<<x, y>>) = 2
    OBVIOUS
<1>3. <<x, y>> \o Tail(ds) \in Seq(R) /\ Len(<<x, y>> \o Tail(ds)) = 2 + Len(Tail(ds)) /\ Len(Tail(ds)) \in Nat
    BY <1>1, <1>2
<1>4. Len(<<x, y>> \o Tail(ds)) # 0
    BY ONLY <1>3
<1>5. QED
    BY ONLY <1>3, <1>4

LEMMA PartitionView ==
    ASSUME NEW v \in RegularViews, NEW n \in Nat, NEW q \in Nat, n # 0, Size(v.dims[1]) = n * q
    PROVE  Partition(v, n) \in RegularViews
<1> PICK d \in Regular : d = v.dims[1]
    BY ViewParts
<1> PICK x \in Regular : x = DimensionOf(Quotient(d.nelems, n), 0, d.nelems)
    BY PartsRegular
<1> PICK y \in Regular : y = [d EXCEPT !.nelems = Quotient(d.nelems, n)]
    BY PartsRegular
<1> PICK ds : ds = <<x, y>> \o Tail(v.dims)
    OBVIOUS
<1>1. ds \in Seq(Regular) /\ ds # <<>>
    <2>1. v.dims \in Seq(Regular) /\ v.dims # <<>>
        BY ViewParts
    <2>2. QED
        BY ONLY <2>1, x \in Regular, y \in Regular, ds = <<x, y>> \o Tail(v.dims), TwoBefore
<1>2. Partition(v, n) = [v EXCEPT !.dims = ds]
    BY ONLY d = v.dims[1], ds = <<x, y>> \o Tail(v.dims), x = DimensionOf(Quotient(d.nelems, n), 0, d.nelems),
            y = [d EXCEPT !.nelems = Quotient(d.nelems, n)] DEF Partition
<1>3. QED
    BY ONLY <1>1, <1>2, v \in RegularViews, DimsReplaced

LEMMA PartitionedRegular ==
    ASSUME IInv, NEW n \in 1 .. Size(Top), Partitioned(n) \/ Chunked(n)
    PROVE  IInv'
<1>1. view \in RegularViews /\ Top \in Regular /\ Top = view.dims[1]
    BY ViewParts DEF IInv, Top
<1> PICK z \in Nat : z = Size(Top)
    BY <1>1, SizeOf
<1>2. n \in Nat /\ n # 0 /\ z # 0
    OBVIOUS
<1>3. Remainder(z, n) = 0
    BY DEF Partitioned, Chunked
<1> PICK q \in Nat : z = n * q
    <2>1. PICK k \in Int : z = n * k
        <3>1. n \in Int /\ z \in Int
            BY <1>2
        <3>2. QED
            BY ONLY <1>2, <1>3, <3>1, RemainderZero
    <2>2. k >= 0
        BY ONLY <1>2, <2>1, k \in Int, z \in Nat
    <2>3. QED
        BY <2>1, <2>2
<1>4. q # 0 /\ z = q * n
    BY ONLY <1>2, z = n * q, q \in Nat
<1>5. Quotient(z, n) = q
    BY ONLY <1>2, z = n * q, q \in Nat, QuotientExact
<1>6. Partition(view, n) \in RegularViews
    BY <1>1, <1>2, PartitionView
<1>7. Partition(view, q) \in RegularViews
    BY <1>1, <1>2, <1>4, PartitionView
<1>8. CASE Partitioned(n)
    BY <1>6, <1>8, BecomesRegular DEF Partitioned
<1>9. CASE Chunked(n)
    BY <1>5, <1>7, <1>9, BecomesRegular DEF Chunked
<1>10. QED
    BY <1>8, <1>9

\* The full chunks.
LEMMA ChunksOf ==
    ASSUME IInv, NEW n \in 1 .. Size(Top)
    PROVE  Chunks(n) = n * Quotient(Size(Top), n) /\ Quotient(Size(Top), n) \in Nat /\ Chunks(n) \in Nat /\ Chunks(n) <= Size(Top)
<1>1. Size(Top) \in Nat
    BY ViewParts, SizeOf DEF IInv, Top
<1>2. n \in Nat \ {0}
    BY <1>1
<1> PICK z \in Nat : z = Size(Top)
    BY <1>1
<1>3. Quotient(z, n) \in Int /\ Remainder(z, n) \in Int /\ z = n * Quotient(z, n) + Remainder(z, n)
    <2>1. n \in Int /\ n # 0 /\ z \in Int
        BY <1>2
    <2>2. QED
        BY ONLY <2>1, QuotientRemainder
<1>4. Quotient(z, n) \in Nat /\ Remainder(z, n) \in Nat
    <2>1. Quotient(z, n) = z \div n /\ Remainder(z, n) \in 0 .. n - 1
        BY ONLY <1>2, z \in Nat, QuotientOfNat
    <2>2. QED
        BY ONLY <1>2, <2>1, z \in Nat
<1> PICK q \in Nat, m \in Nat : q = Quotient(z, n) /\ m = Remainder(z, n)
    BY <1>4
<1>5. Chunks(n) = z - m /\ z - m = n * q /\ n * q \in Nat
    BY ONLY <1>2, <1>3, z = Size(Top), z \in Nat, q = Quotient(z, n), m = Remainder(z, n), q \in Nat, m \in Nat DEF Chunks
<1>6. QED
    BY ONLY <1>2, <1>5, z = Size(Top), z \in Nat, q = Quotient(z, n), q \in Nat, m \in Nat

LEMMA TiledQuotientRegular ==
    ASSUME IInv, NEW n \in 1 .. Size(Top), TiledQuotient(n)
    PROVE  IInv'
<1>1. view \in RegularViews /\ Top \in Regular /\ Top = view.dims[1]
    BY ViewParts DEF IInv, Top
<1> PICK k \in Nat : k = Quotient(Size(Top), n)
    BY ChunksOf
<1> PICK c \in Nat : c = Chunks(n)
    BY ChunksOf
<1>2. n \in Nat /\ n # 0 /\ c = n * k /\ c # 0 /\ Top.nelems # 0
    <2>1. c = n * k
        BY ChunksOf
    <2>2. c # 0
        BY DEF TiledQuotient
    <2>3. Size(Top) \in Int /\ (Top.nelems = 0 => Size(Top) = 0)
        BY <1>1, SizeOf
    <2>4. QED
        BY <2>1, <2>2, <2>3
<1>3. k # 0 /\ c = k * n
    BY ONLY <1>2, k \in Nat
<1>4. Quotient(c, n) = k
    BY ONLY <1>2, k \in Nat, QuotientExact
<1> PICK v \in RegularViews : v = Take(view, c)
    BY <1>1, <1>2, TakeView
<1> PICK s \in Int : s = Top.stride
    BY <1>1, RegularParts
<1>5. v.dims[1] = DimensionOf(s, Top.offset, s * c)
    BY <1>1, <1>2, TakeView
<1>6. s # 0
    <2>1. IsRegular(Top.stride, Top.offset, Top.nelems)
        BY <1>1, RegularParts
    <2>2. QED
        BY ONLY <1>2, <2>1, s = Top.stride DEF IsRegular
<1>7. Size(v.dims[1]) = k * n
    <2>1. s * c # 0
        BY ONLY <1>2, <1>6, s \in Int, c \in Nat
    <2>2. Quotient(s * c, s) = c
        BY ONLY <1>6, s \in Int, c \in Nat, QuotientExact
    <2>3. QED
        BY ONLY <1>3, <1>5, <2>1, <2>2 DEF Size, DimensionOf
<1>8. Partition(v, k) \in RegularViews
    BY ONLY <1>2, <1>3, <1>7, v \in RegularViews, k \in Nat, PartitionView
<1>9. QED
    BY <1>4, <1>8, BecomesRegular DEF TiledQuotient

LEMMA TiledRemainderRegular ==
    ASSUME IInv, NEW n \in 1 .. Size(Top), TiledRemainder(n)
    PROVE  IInv'
<1>1. view \in RegularViews /\ Top \in Regular /\ Top = view.dims[1]
    BY ViewParts DEF IInv, Top
<1>2. Size(Top) \in Int /\ (Top.nelems = 0 => Size(Top) = 0)
    BY <1>1, SizeOf
<1>3. Top.nelems # 0
    BY <1>2
<1> PICK c \in Nat : c = Chunks(n) /\ c <= Size(Top)
    BY ChunksOf
<1>4. Drop(view, c) \in RegularViews
    BY <1>1, <1>3, DropRegular
<1>5. QED
    BY <1>4, BecomesRegular DEF TiledRemainder

--------------------------------------------------------------------------------
(* Strides.                                                                   *)

LEMMA StrideView ==
    ASSUME NEW v \in RegularViews, NEW t \in Int, t # 0,
           v.dims[1].nelems # 0 => /\ \E k \in Nat : v.dims[1].nelems = v.dims[1].stride * t * k
                                   /\ Remainder(v.dims[1].offset, v.dims[1].stride * t) = 0
    PROVE  Stride(v, t) \in RegularViews
<1> PICK d \in Regular : d = v.dims[1]
    BY ViewParts
<1> PICK s \in Int : s = d.stride
    BY RegularParts
<1> PICK m \in Int : m = s * t
    OBVIOUS
<1>1. d.nelems # 0 => s # 0
    <2>1. IsRegular(d.stride, d.offset, d.nelems)
        BY RegularParts
    <2>2. QED
        BY ONLY <2>1, s = d.stride DEF IsRegular
<1>2. d.nelems # 0 => m # 0 /\ Remainder(d.offset, m) = 0 /\ \E k \in Nat : d.nelems = m * k
    <2>1. d.nelems # 0 => m # 0
        BY ONLY <1>1, s \in Int, t \in Int, t # 0, m = s * t
    <2>2. QED
        BY <2>1
<1> PICK x : x = [d EXCEPT !.stride = m]
    OBVIOUS
<1>3. x \in Regular
    BY <1>2, Restrided
<1>4. WithTop(v, x) \in RegularViews
    BY <1>3, WithTopView
<1>5. Stride(v, t) = WithTop(v, x)
    BY ONLY d = v.dims[1], s = d.stride, m = s * t, x = [d EXCEPT !.stride = m] DEF Stride
<1>6. QED
    BY <1>4, <1>5

LEMMA StrideOfSteps ==
    ASSUME IInv, NEW s \in Steps, Strided(s)
    PROVE  Stride(view, s) \in RegularViews
<1>1. view \in RegularViews /\ Top \in Regular /\ Top = view.dims[1]
    BY ViewParts DEF IInv, Top
<1>2. s \in Int /\ s # 0
    BY ViewsAssumption
<1>3. Top.stride \in Int
    BY <1>1, RegularParts
<1>4. s * Top.stride = Top.stride * s
    BY <1>2, <1>3
<1>5. Remainder(Top.nelems, Top.stride * s) = 0 /\ Remainder(Top.offset, Top.stride * s) = 0
    BY ONLY <1>4, Strided(s) DEF Strided
<1>6. Top.nelems # 0 => \E k \in Nat : Top.nelems = Top.stride * s * k
    <2> SUFFICES ASSUME Top.nelems # 0 PROVE \E k \in Nat : Top.nelems = Top.stride * s * k
        OBVIOUS
    <2> PICK t \in Int, z \in Nat : t = Top.stride /\ z = Size(Top)
        BY <1>1, <1>3, SizeOf
    <2>1. Top.nelems = t * z /\ z # 0 /\ t # 0 /\ s \in Nat /\ s # 0
        <3>1. Top.nelems = t * z /\ z # 0
            BY <1>1, SizeOf
        <3>2. QED
            BY <3>1, ViewsAssumption
    <2> PICK m \in Int : m = t * s
        BY <1>2
    <2>2. m # 0 /\ t * z \in Int /\ Remainder(t * z, m) = 0
        <3>1. m # 0
            BY ONLY <2>1, m = t * s, t \in Int
        <3>2. QED
            BY ONLY <1>5, <2>1, <3>1, m = t * s, t = Top.stride, t \in Int, z \in Nat
    <2>3. PICK k \in Int : t * z = m * k
        <3> PICK a \in Int : a = t * z
            BY <2>2
        <3>1. \E k \in Int : a = m * k
            BY ONLY <2>2, a = t * z, a \in Int, m \in Int, RemainderZero
        <3>2. QED
            BY <3>1
    <2>4. z = s * k
        <3> PICK y \in Int : y = s * k
            BY <1>2
        <3>1. t * z = t * y
            <4>1. (t * s) * k = t * (s * k)
                BY ONLY t \in Int, k \in Int, <1>2
            <4>2. QED
                BY ONLY <2>3, <4>1, m = t * s, y = s * k
        <3>2. QED
            BY ONLY <2>1, <3>1, t \in Int, z \in Nat, y \in Int, y = s * k
    <2>5. k \in Nat
        BY ONLY <2>1, <2>4, k \in Int, z \in Nat
    <2>6. QED
        BY ONLY <2>1, <2>3, <2>5, m = t * s, t = Top.stride
<1>7. QED
    BY <1>1, <1>2, <1>5, <1>6, StrideView

LEMMA StridedRegular ==
    ASSUME IInv, NEW s \in Steps, Strided(s)
    PROVE  IInv'
BY StrideOfSteps, BecomesRegular DEF Strided

--------------------------------------------------------------------------------
(* Calls with ranges.                                                         *)

LEMMA ViewsHaveDimensions == RegularViews \subseteq ViewsOf(Dimensions)
<1> SUFFICES ASSUME NEW v \in RegularViews PROVE v \in ViewsOf(Dimensions)
    OBVIOUS
<1>1. v.base \in Int /\ v.dims \in Seq(Regular) /\ v = View(v.dims, v.base) /\ v.dims # <<>>
    BY PartsOf DEF RegularViews
<1>2. Regular \subseteq Dimensions
    BY DEF Regular
<1> PICK ds \in Seq(Regular) : ds = v.dims
    BY <1>1
<1>3. ds \in Seq(Dimensions)
    <2>1. Len(ds) \in Nat /\ ds \in [1 .. Len(ds) -> Regular]
        OBVIOUS
    <2>2. ds \in [1 .. Len(ds) -> Dimensions]
        BY ONLY <1>2, <2>1
    <2>3. QED
        BY ONLY <2>1, <2>2
<1>4. QED
    BY ONLY <1>1, <1>3, ds = v.dims, MadeOf

\* The dimension that a slice leaves.
Sliver(d, a, b) == DimensionOf(d.stride, d.offset, d.stride * (b - a))

LEMMA SliceOf ==
    ASSUME NEW v \in ViewsOf(Dimensions), NEW a \in Int, NEW b \in Int
    PROVE  /\ Slice(v, a, b) \in ViewsOf(Dimensions) /\ Len(Slice(v, a, b).dims) = Len(v.dims)
           /\ Slice(v, a, b).dims[1] = Sliver(v.dims[1], a, b)
           /\ \A k \in 1 .. Len(v.dims) : k # 1 => Slice(v, a, b).dims[k] = v.dims[k]
<1> PICK ds \in Seq(Dimensions) : ds = v.dims /\ ds # <<>>
    BY PartsOf
<1> PICK d \in Dimensions : d = ds[1]
    BY PartsOf
<1>1. d.stride \in Int /\ d.offset \in Int /\ v.base \in Int /\ d = DimensionOf(d.stride, d.offset, d.nelems)
    BY PartsOf DEF Dimensions, DimensionOf
<1>7. Sliver(d, a, b) \in Dimensions
    <2>1. d.stride * (b - a) \in Int
        BY <1>1
    <2>2. QED
        BY ONLY <1>1, <2>1 DEF Sliver, DimensionOf, Dimensions
<1> PICK x \in Dimensions : x = Sliver(d, a, b)
    BY <1>7
<1> PICK c \in Int : c = v.base + (a * d.stride - d.offset)
    BY <1>1, SMTT(30)
<1>2. [d EXCEPT !.nelems = d.stride * (b - a)] = x
    BY ONLY <1>1, x = Sliver(d, a, b) DEF Sliver, DimensionOf
<1> PICK e : e = [ds EXCEPT ![1] = x]
    OBVIOUS
<1>3. Slice(v, a, b) = View(e, c)
    <2>1. [ds EXCEPT ![1].nelems = ds[1].stride * (b - a)] = [ds EXCEPT ![1] = x]
        BY ONLY <1>2, d = ds[1]
    <2>2. QED
        BY ONLY <2>1, d = ds[1], ds = v.dims, e = [ds EXCEPT ![1] = x], c = v.base + (a * d.stride - d.offset) DEF Slice
<1>4. /\ e \in Seq(Dimensions) /\ e # <<>> /\ Len(e) = Len(ds) /\ e[1] = x
      /\ \A k \in 1 .. Len(ds) : k # 1 => e[k] = ds[k]
    BY ONLY ds \in Seq(Dimensions), ds # <<>>, x \in Dimensions, e = [ds EXCEPT ![1] = x]
<1>5. View(e, c) \in ViewsOf(Dimensions) /\ View(e, c).dims = e
    BY ONLY <1>4, c \in Int, MadeOf
<1>6. QED
    BY ONLY <1>3, <1>4, <1>5, ds = v.dims, d = ds[1], x = Sliver(d, a, b)

\* Both dimensions are sliced and the order is as before.
LEMMA ParenthesisOf ==
    ASSUME NEW v \in ViewsOf(Dimensions), Len(v.dims) > 1, NEW p, NEW q,
           p[1] \in Int, p[2] \in Int, q[1] \in Int, q[2] \in Int
    PROVE  /\ Parenthesis(v, p, q) \in ViewsOf(Dimensions) /\ Len(Parenthesis(v, p, q).dims) = Len(v.dims)
           /\ Parenthesis(v, p, q).dims[1] = Sliver(v.dims[1], p[1], p[2])
           /\ Parenthesis(v, p, q).dims[2] = Sliver(v.dims[2], q[1], q[2])
           /\ \A k \in 3 .. Len(v.dims) : Parenthesis(v, p, q).dims[k] = v.dims[k]
<1> PICK L \in Nat : L = Len(v.dims) /\ L > 1
    BY PartsOf
<1> PICK x, y : x = Sliver(v.dims[1], p[1], p[2]) /\ y = Sliver(v.dims[2], q[1], q[2])
    OBVIOUS
<1> PICK s1 \in ViewsOf(Dimensions) : s1 = Slice(v, p[1], p[2])
    BY SliceOf
<1>1. Len(s1.dims) = L /\ s1.dims[1] = x /\ \A k \in 2 .. L : s1.dims[k] = v.dims[k]
    <2>1. /\ Len(s1.dims) = Len(v.dims) /\ s1.dims[1] = Sliver(v.dims[1], p[1], p[2])
          /\ \A k \in 1 .. Len(v.dims) : k # 1 => s1.dims[k] = v.dims[k]
        BY SliceOf
    <2>2. \A k \in 2 .. L : k \in 1 .. L /\ k # 1
        BY ONLY L \in Nat
    <2>3. QED
        BY ONLY <2>1, <2>2, L = Len(v.dims), x = Sliver(v.dims[1], p[1], p[2])
<1> PICK r1 \in ViewsOf(Dimensions) : r1 = Rotation(s1)
    BY RotationOf
<1>2. Len(r1.dims) = L /\ r1.dims[L] = x /\ \A k \in 1 .. L - 1 : r1.dims[k] = v.dims[k + 1]
    <2>1. /\ Len(r1.dims) = Len(s1.dims) /\ r1.dims[Len(s1.dims)] = s1.dims[1]
          /\ \A k \in 1 .. Len(s1.dims) - 1 : r1.dims[k] = s1.dims[k + 1]
        BY ONLY s1 \in ViewsOf(Dimensions), r1 = Rotation(s1), RotationOf
    <2>2. \A k \in 1 .. L - 1 : k + 1 \in 2 .. L
        BY ONLY L \in Nat
    <2>3. QED
        BY ONLY <1>1, <2>1, <2>2
<1> PICK s2 \in ViewsOf(Dimensions) : s2 = Slice(r1, q[1], q[2])
    BY SliceOf
<1>3. Len(s2.dims) = L /\ s2.dims[1] = y /\ s2.dims[L] = x /\ \A k \in 2 .. L - 1 : s2.dims[k] = v.dims[k + 1]
    <2>1. /\ Len(s2.dims) = Len(r1.dims) /\ s2.dims[1] = Sliver(r1.dims[1], q[1], q[2])
          /\ \A k \in 1 .. Len(r1.dims) : k # 1 => s2.dims[k] = r1.dims[k]
        BY ONLY r1 \in ViewsOf(Dimensions), q[1] \in Int, q[2] \in Int, s2 = Slice(r1, q[1], q[2]), SliceOf
    <2>2. 1 \in 1 .. L - 1 /\ 1 + 1 = 2 /\ L # 1 /\ L \in 1 .. L /\ \A k \in 2 .. L - 1 : k \in 1 .. L - 1 /\ k \in 1 .. L /\ k # 1
        BY ONLY L \in Nat, L > 1
    <2>3. r1.dims[1] = v.dims[2]
        BY ONLY <1>2, <2>2
    <2>4. QED
        BY ONLY <1>2, <2>1, <2>2, <2>3, y = Sliver(v.dims[2], q[1], q[2])
<1> PICK r2 \in ViewsOf(Dimensions) : r2 = Rotation(s2)
    BY RotationOf
<1>4. Len(r2.dims) = L /\ r2.dims[L] = y /\ r2.dims[L - 1] = x /\ \A k \in 1 .. L - 2 : r2.dims[k] = v.dims[k + 2]
    <2>1. /\ Len(r2.dims) = Len(s2.dims) /\ r2.dims[Len(s2.dims)] = s2.dims[1]
          /\ \A k \in 1 .. Len(s2.dims) - 1 : r2.dims[k] = s2.dims[k + 1]
        BY ONLY s2 \in ViewsOf(Dimensions), r2 = Rotation(s2), RotationOf
    <2>2. L - 1 \in 1 .. L - 1 /\ (L - 1) + 1 = L
        BY ONLY L \in Nat, L > 1
    <2>3. \A k \in 1 .. L - 2 : k \in 1 .. L - 1 /\ k + 1 \in 2 .. L - 1 /\ (k + 1) + 1 = k + 2
        BY ONLY L \in Nat, L > 1
    <2>4. QED
        BY ONLY <1>3, <2>1, <2>2, <2>3
<1> PICK u1 \in ViewsOf(Dimensions) : u1 = Unrotation(r2)
    BY UnrotationOf
<1>5. Len(u1.dims) = L /\ u1.dims[1] = y /\ u1.dims[L] = x /\ \A k \in 2 .. L - 1 : u1.dims[k] = v.dims[k + 1]
    <2>1. /\ Len(u1.dims) = Len(r2.dims) /\ u1.dims[1] = r2.dims[Len(r2.dims)]
          /\ \A k \in 2 .. Len(r2.dims) : u1.dims[k] = r2.dims[k - 1]
        BY ONLY r2 \in ViewsOf(Dimensions), u1 = Unrotation(r2), UnrotationOf
    <2>2. L \in 2 .. L
        BY ONLY L \in Nat, L > 1
    <2>3. \A k \in 2 .. L - 1 : k \in 2 .. L /\ k - 1 \in 1 .. L - 2 /\ (k - 1) + 2 = k + 1
        BY ONLY L \in Nat, L > 1
    <2>4. QED
        BY ONLY <1>4, <2>1, <2>2, <2>3
<1> PICK u2 \in ViewsOf(Dimensions) : u2 = Unrotation(u1)
    BY UnrotationOf
<1>6. Len(u2.dims) = L /\ u2.dims[1] = x /\ u2.dims[2] = y /\ \A k \in 3 .. L : u2.dims[k] = v.dims[k]
    <2>1. /\ Len(u2.dims) = Len(u1.dims) /\ u2.dims[1] = u1.dims[Len(u1.dims)]
          /\ \A k \in 2 .. Len(u1.dims) : u2.dims[k] = u1.dims[k - 1]
        BY ONLY u1 \in ViewsOf(Dimensions), u2 = Unrotation(u1), UnrotationOf
    <2>2. 2 \in 2 .. L /\ 2 - 1 = 1
        BY ONLY L \in Nat, L > 1
    <2>3. \A k \in 3 .. L : k \in 2 .. L /\ k - 1 \in 2 .. L - 1 /\ (k - 1) + 1 = k
        BY ONLY L \in Nat, L > 1
    <2>4. QED
        BY ONLY <1>5, <2>1, <2>2, <2>3
<1>7. Parenthesis(v, p, q) = u2
    BY DEF Parenthesis
<1>8. QED
    BY ONLY <1>6, <1>7, u2 \in ViewsOf(Dimensions), L = Len(v.dims), x = Sliver(v.dims[1], p[1], p[2]), y = Sliver(v.dims[2], q[1], q[2])

LEMMA AllRegular ==
    ASSUME NEW v \in ViewsOf(Dimensions), \A k \in 1 .. Len(v.dims) : v.dims[k] \in Regular
    PROVE  v \in RegularViews
<1> PICK ds \in Seq(Dimensions) : ds = v.dims
    BY PartsOf
<1>1. v.base \in Int /\ ds # <<>> /\ v = View(ds, v.base)
    BY PartsOf
<1>2. ds \in Seq(Regular)
    <2>1. Len(ds) \in Nat /\ ds \in [1 .. Len(ds) -> Dimensions]
        OBVIOUS
    <2>2. ds \in [1 .. Len(ds) -> Regular]
        BY <2>1
    <2>3. QED
        BY ONLY <2>1, <2>2
<1>3. QED
    BY ONLY <1>1, <1>2, MadeView

\* A slice from a down to b has the stride and the elements the other way round.
LEMMA SlicedDownView ==
    ASSUME IInv, NEW a \in Valid[1] - 1 .. Valid[2] - 1, NEW b \in Valid[1] - 1 .. Valid[2] - 1,
           b < a, SlicedDown(a, b)
    PROVE  \E u \in RegularViews :
               /\ u = Stride(Slice(view, a, b), -1) /\ Len(u.dims) = Len(view.dims)
               /\ u.base = Slice(view, a, b).base
               /\ u.dims[1] = DimensionOf(Top.stride * (-1), Top.offset, Top.stride * (b - a))
               /\ \A k \in 1 .. Len(view.dims) : k # 1 => u.dims[k] = view.dims[k]
<1> PICK v \in RegularViews : v = view
    BY DEF IInv
<1> PICK d \in Regular : d = v.dims[1] /\ d = Top
    BY ViewParts DEF Top
<1>1. Valid[1] \in Int /\ Valid[2] \in Int /\ (d.nelems = 0 => Valid[1] = 0 /\ Valid[2] = 0)
    BY SizeOf DEF Valid
<1>2. a \in Int /\ b \in Int /\ d.nelems # 0
    BY <1>1
<1> PICK s \in Int, o \in Int : s = d.stride /\ o = d.offset
    BY RegularParts
<1> PICK n \in Nat : n = a - b
    BY <1>2
<1>3. s # 0 /\ \E f \in Int : o = s * f
    <2>1. IsRegular(d.stride, d.offset, d.nelems)
        BY RegularParts
    <2>2. QED
        BY ONLY <1>2, <2>1, s = d.stride, o = d.offset DEF IsRegular
<1> PICK t \in Int, m \in Int : t = s * (-1) /\ m = s * (b - a)
    BY <1>2
<1>4. IsRegular(t, o, m)
    <2>1. PICK f \in Int : o = s * f
        BY <1>3
    <2>2. -f \in Int /\ o = t * (-f)
        BY ONLY <2>1, t = s * (-1), s \in Int, f \in Int
    <2>3. m = t * n
        BY ONLY <1>2, t = s * (-1), m = s * (b - a), n = a - b, s \in Int
    <2>4. t # 0
        BY ONLY <1>3, t = s * (-1), s \in Int
    <2>5. QED
        BY ONLY <2>2, <2>3, <2>4, t \in Int, o \in Int, m \in Int, n \in Nat DEF IsRegular
<1> PICK x \in Regular : x = DimensionOf(t, o, m)
    BY <1>4, MadeRegular
<1>5. v \in ViewsOf(Dimensions)
    BY ViewsHaveDimensions
<1> PICK w \in ViewsOf(Dimensions) : w = Slice(v, a, b)
    BY <1>2, <1>5, SliceOf
<1>6. /\ Len(w.dims) = Len(v.dims) /\ w.dims[1] = DimensionOf(s, o, m)
      /\ \A k \in 1 .. Len(v.dims) : k # 1 => w.dims[k] = v.dims[k]
    <2>1. /\ Len(w.dims) = Len(v.dims) /\ w.dims[1] = Sliver(v.dims[1], a, b)
          /\ \A k \in 1 .. Len(v.dims) : k # 1 => w.dims[k] = v.dims[k]
        BY ONLY <1>2, <1>5, w = Slice(v, a, b), SliceOf
    <2>2. QED
        BY ONLY <2>1, d = v.dims[1], s = d.stride, o = d.offset, m = s * (b - a) DEF Sliver
<1> PICK ws \in Seq(Dimensions) : ws = w.dims /\ ws # <<>>
    BY PartsOf
<1> PICK e : e = [ws EXCEPT ![1] = x]
    OBVIOUS
<1>7. Stride(w, -1) = View(e, w.base)
    <2>1. [w.dims[1] EXCEPT !.stride = w.dims[1].stride * (-1)] = x
        BY ONLY <1>6, x = DimensionOf(t, o, m), t = s * (-1), SMTT(30) DEF DimensionOf
    <2>2. w = [base |-> w.base, dims |-> ws]
        BY DEF ViewsOf
    <2>3. [w EXCEPT !.dims[1] = x] = [base |-> w.base, dims |-> e]
        BY ONLY <2>2, e = [ws EXCEPT ![1] = x], SMTT(30)
    <2>4. QED
        BY ONLY <2>1, <2>3 DEF Stride, WithTop, View
<1>8. View(e, w.base) \in RegularViews
    <2>1. x \in Dimensions
        BY RegularParts
    <2>2. e \in Seq(Dimensions) /\ e # <<>> /\ Len(e) = Len(ws) /\ e[1] = x /\ \A k \in 1 .. Len(ws) : k # 1 => e[k] = ws[k]
        BY ONLY <2>1, ws \in Seq(Dimensions), ws # <<>>, e = [ws EXCEPT ![1] = x]
    <2>3. w.base \in Int
        BY PartsOf
    <2>4. View(e, w.base) \in ViewsOf(Dimensions) /\ View(e, w.base).dims = e
        BY ONLY <2>2, <2>3, MadeOf
    <2>5. \A k \in 1 .. Len(e) : e[k] \in Regular
        <3>1. \A k \in 1 .. Len(v.dims) : v.dims[k] \in Regular
            BY ViewParts
        <3>2. QED
            BY ONLY <1>6, <2>2, <3>1, ws = w.dims, x \in Regular
    <2>6. QED
        BY ONLY <2>4, <2>5, AllRegular
<1>9. Len(e) = Len(v.dims) /\ e[1] = x /\ \A k \in 1 .. Len(v.dims) : k # 1 => e[k] = v.dims[k]
    <2>1. Len(e) = Len(ws) /\ e[1] = x /\ \A k \in 1 .. Len(ws) : k # 1 => e[k] = ws[k]
        BY ONLY ws \in Seq(Dimensions), ws # <<>>, e = [ws EXCEPT ![1] = x]
    <2>2. QED
        BY ONLY <1>6, <2>1, ws = w.dims
<1>10. View(e, w.base).dims = e /\ View(e, w.base).base = w.base
    BY DEF View
<1>11. x = DimensionOf(Top.stride * (-1), Top.offset, Top.stride * (b - a))
    OBVIOUS
<1>12. QED
    BY ONLY <1>7, <1>8, <1>9, <1>10, <1>11, v = view, w = Slice(v, a, b)

LEMMA SlicedDownRegular ==
    ASSUME IInv, NEW a \in Valid[1] - 1 .. Valid[2] - 1, NEW b \in Valid[1] - 1 .. Valid[2] - 1,
           b < a, SlicedDown(a, b)
    PROVE  IInv'
BY SlicedDownView, BecomesRegular DEF SlicedDown

LEMMA SliverRegular ==
    ASSUME NEW d \in Regular, NEW a \in Int, NEW b \in Int, a <= b, d.nelems = 0 => a = b
    PROVE  Sliver(d, a, b) \in Regular
<1> PICK n \in Nat : n = b - a
    OBVIOUS
<1>1. d.nelems = 0 => n = 0
    OBVIOUS
<1>2. /\ [d EXCEPT !.nelems = d.stride * n] = DimensionOf(d.stride, d.offset, d.stride * n)
      /\ [d EXCEPT !.nelems = d.stride * n] \in Regular
    BY <1>1, Resized
<1>3. QED
    BY ONLY <1>2, n = b - a DEF Sliver

LEMMA BlockOf ==
    ASSUME NEW d \in Regular, NEW y \in Blocks(Extension(d))
    PROVE  y[1] \in Int /\ y[2] \in Int /\ y[1] <= y[2] /\ (d.nelems = 0 => y[1] = y[2])
BY SubrangeOf DEF Blocks

LEMMA RangedRegular ==
    ASSUME IInv, D > 1, NEW p \in Blocks(Valid), NEW q \in Blocks(Extension(view.dims[2])), Ranged(p, q)
    PROVE  IInv'
<1> PICK v \in RegularViews : v = view
    BY DEF IInv
<1> PICK L \in Nat : L = Len(v.dims) /\ L > 1
    BY ViewParts DEF D
<1>1. \A k \in 1 .. L : v.dims[k] \in Regular
    BY ViewParts
<1>2. v.dims[1] \in Regular /\ v.dims[2] \in Regular
    BY ONLY <1>1, L \in Nat, L > 1
<1>3. p[1] \in Int /\ p[2] \in Int /\ p[1] <= p[2] /\ (v.dims[1].nelems = 0 => p[1] = p[2])
    BY <1>2, BlockOf DEF Valid, Top
<1>4. q[1] \in Int /\ q[2] \in Int /\ q[1] <= q[2] /\ (v.dims[2].nelems = 0 => q[1] = q[2])
    BY <1>2, BlockOf
<1>5. v \in ViewsOf(Dimensions)
    BY ViewsHaveDimensions
<1> PICK w : w = Parenthesis(v, p, q)
    OBVIOUS
<1>6. /\ w \in ViewsOf(Dimensions) /\ Len(w.dims) = L
      /\ w.dims[1] = Sliver(v.dims[1], p[1], p[2]) /\ w.dims[2] = Sliver(v.dims[2], q[1], q[2])
      /\ \A k \in 3 .. L : w.dims[k] = v.dims[k]
    BY ONLY <1>3, <1>4, <1>5, L \in Nat, L = Len(v.dims), L > 1, w = Parenthesis(v, p, q), ParenthesisOf, SMTT(30)
<1>7. w.dims[1] \in Regular /\ w.dims[2] \in Regular
    BY ONLY <1>2, <1>3, <1>4, <1>6, SliverRegular
<1>8. \A k \in 1 .. L : k = 1 \/ k = 2 \/ k \in 3 .. L
    BY ONLY L \in Nat
<1>9. \A k \in 1 .. L : w.dims[k] \in Regular
    BY ONLY <1>1, <1>6, <1>7, <1>8
<1>10. w \in RegularViews
    BY ONLY <1>6, <1>9, AllRegular
<1>11. QED
    BY <1>10, BecomesRegular DEF Ranged

LEMMA StenciledRegular ==
    ASSUME IInv, D > 1, NEW p \in Blocks(Valid), NEW q \in Blocks(Extension(view.dims[2])), Stenciled(p, q)
    PROVE  IInv'
<1> PICK v \in RegularViews : v = view
    BY DEF IInv
<1> PICK L \in Nat : L = Len(v.dims) /\ L > 1
    BY ViewParts DEF D
<1>1. v.dims[1] \in Regular /\ v.dims[2] \in Regular
    <2>1. \A k \in 1 .. L : v.dims[k] \in Regular
        BY ViewParts
    <2>2. QED
        BY ONLY <2>1, L \in Nat, L > 1
<1>2. p[1] \in Int /\ p[2] \in Int /\ p[1] <= p[2] /\ (v.dims[1].nelems = 0 => p[1] = p[2])
    BY <1>1, BlockOf DEF Valid, Top
<1>3. q[1] \in Int /\ q[2] \in Int /\ q[1] <= q[2] /\ (v.dims[2].nelems = 0 => q[1] = q[2])
    BY <1>1, BlockOf
<1> PICK b \in RegularViews : b = Block(v, p[1], p[2])
    BY <1>2, BlockView
<1>4. Len(b.dims) = L /\ b.dims[2] = v.dims[2]
    <2>1. Len(b.dims) = L /\ \A k \in 1 .. L : k # 1 => b.dims[k] = v.dims[k]
        BY <1>2, BlockView
    <2>2. QED
        BY ONLY <2>1, L \in Nat, L > 1
<1> PICK r \in RegularViews : r = Rotation(b)
    BY RotationView
<1>5. r.dims[1] = v.dims[2]
    <2>1. \A k \in 1 .. L - 1 : r.dims[k] = b.dims[k + 1]
        BY <1>4, RotationView
    <2>2. 1 \in 1 .. L - 1 /\ 1 + 1 = 2
        BY ONLY L \in Nat, L > 1
    <2>3. QED
        BY ONLY <1>4, <2>1, <2>2
<1> PICK c \in RegularViews : c = Block(r, q[1], q[2])
    BY <1>3, <1>5, BlockView
<1>6. Unrotation(c) \in RegularViews
    BY UnrotationView
<1>7. QED
    BY <1>6, BecomesRegular DEF Stenciled

LEMMA RangedElementRegular ==
    ASSUME IInv, D > 1, NEW p \in Blocks(Valid), NEW j \in Int, RangedElement(p, j)
    PROVE  IInv'
<1> PICK v \in RegularViews : v = view
    BY DEF IInv
<1>1. v.dims[1] \in Regular
    BY ViewParts
<1>2. p[1] \in Int /\ p[2] \in Int /\ p[1] <= p[2] /\ (v.dims[1].nelems = 0 => p[1] = p[2])
    BY <1>1, BlockOf DEF Valid, Top
<1> PICK b \in RegularViews : b = Slice(v, p[1], p[2])
    BY <1>2, SliceView
<1>3. Len(b.dims) = Len(v.dims)
    BY <1>2, SliceView
<1> PICK r \in RegularViews : r = Rotation(b)
    BY RotationView
<1>4. Len(r.dims) > 1
    BY <1>3, RotationView DEF D
<1> PICK c \in RegularViews : c = Subscript(r, j)
    BY <1>4, ElementRegular
<1>5. Unrotation(c) \in RegularViews
    BY UnrotationView
<1>6. QED
    BY <1>5, BecomesRegular DEF RangedElement

LEMMA CalledRegular ==
    ASSUME IInv, Called
    PROVE  IInv'
<1>1. D > 1
    BY DEF Called
<1>2. PICK p \in Blocks(Valid) :
          \/ \E q \in Blocks(Extension(view.dims[2])) : Ranged(p, q) \/ Stenciled(p, q)
          \/ \E j \in Extension(view.dims[2])[1] .. Extension(view.dims[2])[2] - 1 : RangedElement(p, j)
    BY DEF Called
<1>3. ASSUME NEW q \in Blocks(Extension(view.dims[2])), Ranged(p, q) PROVE IInv'
    BY <1>1, <1>3, RangedRegular
<1>4. ASSUME NEW q \in Blocks(Extension(view.dims[2])), Stenciled(p, q) PROVE IInv'
    BY <1>1, <1>4, StenciledRegular
<1>5. ASSUME NEW j \in Extension(view.dims[2])[1] .. Extension(view.dims[2])[2] - 1, RangedElement(p, j) PROVE IInv'
    <2>1. view \in RegularViews /\ Len(view.dims) \in Nat /\ Len(view.dims) > 1
        BY <1>1, ViewParts DEF IInv, D
    <2>2. \A k \in 1 .. Len(view.dims) : view.dims[k] \in Regular
        BY <2>1, ViewParts
    <2>3. view.dims[2] \in Regular
        BY ONLY <2>1, <2>2
    <2>4. j \in Int
        BY <2>3, SizeOf
    <2>5. QED
        BY <1>1, <1>5, <2>4, RangedElementRegular
<1>6. QED
    BY <1>2, <1>3, <1>4, <1>5

--------------------------------------------------------------------------------
(* Broadcast rows, rows between iterators, the diagonal.                      *)

LEMMA OneBefore ==
    ASSUME NEW R, NEW ds \in Seq(R), NEW x \in R
    PROVE  <<x>> \o ds \in Seq(R) /\ <<x>> \o ds # <<>>
<1>1. <<x>> \o ds \in Seq(R) /\ Len(<<x>> \o ds) = 1 + Len(ds) /\ Len(ds) \in Nat
    OBVIOUS
<1>2. Len(<<x>> \o ds) # 0
    BY ONLY <1>1
<1>3. QED
    BY ONLY <1>1, <1>2

LEMMA BroadcastRow ==
    ASSUME NEW v \in RegularViews, NEW j \in Int
    PROVE  Broadcast(v, j) = v
<1> PICK ds \in Seq(Regular) : ds = v.dims
    BY ViewParts
<1>1. v.base \in Int /\ v = View(ds, v.base)
    BY ViewParts
<1> PICK x : x = DimensionOf(0, 0, MaxElements)
    OBVIOUS
<1>2. x.stride = 0 /\ x.offset = 0
    BY DEF DimensionOf
<1> PICK u : u = View(<<x>> \o ds, v.base)
    OBVIOUS
<1>3. [v EXCEPT !.dims = <<x>> \o @] = u
    <2>1. [v EXCEPT !.dims = <<x>> \o v.dims] = u
        <3>1. v = [base |-> v.base, dims |-> ds]
            BY ONLY <1>1 DEF View
        <3> PICK b : b = v.base
            OBVIOUS
        <3> PICK e : e = <<x>> \o ds
            OBVIOUS
        <3>2. [v EXCEPT !.dims = e] = [base |-> b, dims |-> e]
            BY ONLY <3>1, b = v.base
        <3>3. QED
            BY ONLY <3>2, b = v.base, e = <<x>> \o ds, ds = v.dims, u = View(<<x>> \o ds, v.base) DEF View
    <2>2. QED
        BY ONLY <2>1
<1>4. Tail(u.dims) = ds /\ u.dims[1] = x /\ u.base = v.base
    <2>1. u.dims = <<x>> \o ds /\ u.base = v.base
        BY DEF View
    <2>2. QED
        BY ONLY <2>1, ds \in Seq(Regular), TailOfOne
<1>5. u.base + (j * u.dims[1].stride - u.dims[1].offset) = v.base
    <2>1. u.base + (j * u.dims[1].stride - u.dims[1].offset) = v.base + (j * 0 - 0)
        BY ONLY <1>2, <1>4
    <2>2. QED
        BY ONLY <1>1, <2>1, j \in Int
<1>6. Subscript(u, j) = View(ds, v.base)
    BY ONLY <1>4, <1>5 DEF Subscript
<1>7. QED
    BY ONLY <1>1, <1>3, <1>6, x = DimensionOf(0, 0, MaxElements) DEF Broadcast

LEMMA BroadcastedRegular ==
    ASSUME IInv, Broadcasted(1)
    PROVE  IInv'
<1>1. view \in RegularViews /\ 1 \in Int
    BY DEF IInv
<1>2. Broadcast(view, 1) = view
    BY <1>1, BroadcastRow
<1>3. Becomes(view, <<"broadcasted", 1>>)
    BY <1>2 DEF Broadcasted
<1>4. QED
    BY <1>1, <1>3, BecomesRegular

LEMMA FromIteratorsRegular ==
    ASSUME IInv, NEW y \in Subranges(<<0, Size(Top)>>), FromIterators(y[1], y[2])
    PROVE  IInv'
<1> PICK v \in RegularViews : v = view
    BY DEF IInv
<1> PICK ds \in Seq(Regular) : ds = v.dims
    BY ViewParts
<1>1. Len(ds) \in Nat /\ Len(ds) > 1 /\ v.base \in Int
    BY ViewParts DEF FromIterators, D
<1>2. v.base \in Int
    BY ONLY <1>1
<1> PICK t \in Regular : t = ds[1] /\ t = Top
    BY ViewParts DEF Top
<1>3. y[1] \in Int /\ y[2] \in Int /\ y[1] <= y[2]
    <2>1. y[1] \in 0 .. Size(t) /\ y[2] \in 0 .. Size(t) /\ y[1] <= y[2]
        BY DEF Subranges
    <2>2. QED
        BY <2>1
<1> PICK a \in Int, b \in Int : a = y[1] /\ b = y[2]
    BY <1>3
<1> PICK s \in Int : s = t.stride
    BY RegularParts
<1>4. Size(ds[2]) = s
    BY DEF FromIterators
<1> PICK n \in Nat : n = b - a
    BY <1>3
<1> PICK x : x = DimensionOf(s, 0, (b - a) * s)
    OBVIOUS
<1>5. x \in Regular
    <2>1. (b - a) * s = s * n
        BY ONLY n = b - a, s \in Int, n \in Nat, a \in Int, b \in Int
    <2>2. QED
        BY <2>1, ZeroOffset
<1>6. Tail(ds) \in Seq(Regular)
    BY <1>1, TailRegular
<1> PICK e : e = <<x>> \o Tail(ds)
    OBVIOUS
<1>7. e \in Seq(Regular) /\ e # <<>>
    BY ONLY <1>5, <1>6, e = <<x>> \o Tail(ds), OneBefore
<1>8. v.base + a * s \in Int
    BY ONLY <1>2, a \in Int, s \in Int
<1>9. View(e, v.base + a * s) \in RegularViews
    BY ONLY <1>7, <1>8, MadeView
<1>10. Becomes(View(e, v.base + a * s), <<"iterators", a, b>>)
    <2>1. Becomes(View(<<DimensionOf(t.stride, 0, (b - a) * Size(ds[2]))>> \o Tail(ds), v.base + a * t.stride),
                  <<"iterators", a, b>>)
        <3>1. t = Top
            BY Zenon
        <3>2. QED
            BY ONLY FromIterators(y[1], y[2]), <3>1, a = y[1], b = y[2], v = view, ds = v.dims DEF FromIterators, Sub
    <2>2. QED
        BY ONLY <1>4, <2>1, s = t.stride, e = <<x>> \o Tail(ds), x = DimensionOf(s, 0, (b - a) * s)
<1>11. QED
    BY <1>9, <1>10, BecomesRegular

\* The view u is the diagonal, of m elements.
IsDiagonal(u, m) ==
    /\ Becomes(u, <<"diagonal">>) /\ u.base = view.base /\ Len(u.dims) = Len(view.dims) - 1
    /\ m = IF Size(Top) < Size(view.dims[2]) THEN Size(Top) ELSE Size(view.dims[2])
    /\ u.dims[1] = DimensionOf(view.dims[2].stride + view.dims[1].stride, 0,
                               view.dims[2].stride * m + view.dims[1].stride * m)
    /\ \A k \in 2 .. Len(view.dims) - 1 : u.dims[k] = view.dims[k + 1]

LEMMA DiagonalView ==
    ASSUME IInv, Diagonal
    PROVE  \E u \in RegularViews, m \in Nat : IsDiagonal(u, m)
<1>1. PICK v \in RegularViews : v = view
    BY ONLY IInv, ZenonT(30) DEF IInv
<1>2. PICK L \in Nat : L = Len(v.dims) /\ L > 1
    BY <1>1, ViewParts DEF Diagonal, D
<1>3. \A k \in 1 .. L : v.dims[k] \in Regular
    BY <1>2, ViewParts
<1>4. v.dims[1] \in Regular /\ v.dims[2] \in Regular
    BY ONLY <1>2, <1>3, L \in Nat
<1>5. PICK m \in Nat : m = IF Size(Top) < Size(v.dims[2]) THEN Size(Top) ELSE Size(v.dims[2])
    BY <1>1, <1>4, SizeOf DEF Top
<1> PICK w : w = Parenthesis(v, <<0, m>>, <<0, m>>)
    OBVIOUS
<1>6. v.dims[1].stride \in Int /\ v.dims[2].stride \in Int
    BY ONLY <1>4, RegularParts
<1>7. PICK s1 \in Int, s2 \in Int : s1 = v.dims[1].stride /\ s2 = v.dims[2].stride
    BY ONLY <1>6
<1>8. v.dims[1].offset = 0 /\ v.dims[2].offset = 0
    BY ONLY Diagonal, <1>1, Zenon DEF Diagonal, Top
<1>9. /\ w \in ViewsOf(Dimensions) /\ Len(w.dims) = L
      /\ w.dims[1] = Sliver(v.dims[1], 0, m) /\ w.dims[2] = Sliver(v.dims[2], 0, m)
      /\ \A k \in 3 .. L : w.dims[k] = v.dims[k]
    <2>1. v \in ViewsOf(Dimensions)
        BY ViewsHaveDimensions
    <2>2. <<0, m>>[1] = 0 /\ <<0, m>>[2] = m /\ 0 \in Int
        OBVIOUS
    <2> PICK p : p = <<0, m>>
        OBVIOUS
    <2>3. QED
        BY ONLY <1>2, <2>1, <2>2, p = <<0, m>>, m \in Nat, w = Parenthesis(v, <<0, m>>, <<0, m>>), ParenthesisOf
<1> PICK ws \in Seq(Dimensions) : ws = w.dims
    BY <1>9, PartsOf
<1> PICK x \in Dimensions, y \in Dimensions : x = ws[1] /\ y = ws[2]
    <2>1. \A k \in 1 .. L : ws[k] \in Dimensions
        BY <1>9
    <2>2. QED
        BY ONLY <1>2, <2>1, L \in Nat
<1>10. x.stride = s1 /\ x.nelems = s1 * m /\ y = DimensionOf(s2, 0, s2 * m)
    <2>1. m - 0 = m
        OBVIOUS
    <2>2. QED
        BY ONLY <1>8, <1>9, <2>1, <1>7, ws = w.dims, x = ws[1], y = ws[2]
           DEF Sliver, DimensionOf
<1> PICK r : r = Tail(ws)
    OBVIOUS
<1>11. /\ r \in Seq(Dimensions) /\ r # <<>> /\ Len(r) = L - 1 /\ r[1] = y
      /\ \A k \in 2 .. L - 1 : r[k] = v.dims[k + 1]
    <2>1. Len(ws) = L
        BY <1>9
    <2>2. r \in Seq(Dimensions) /\ Len(r) = L - 1 /\ \A k \in 1 .. L - 1 : r[k] = ws[k + 1]
        BY ONLY <1>2, <2>1, ws \in Seq(Dimensions), r = Tail(ws), L \in Nat
    <2>3. 1 \in 1 .. L - 1 /\ 1 + 1 = 2 /\ L - 1 # 0 /\ \A k \in 2 .. L - 1 : k \in 1 .. L - 1 /\ k + 1 \in 3 .. L
        <3>1. L > 1
            BY ONLY <1>2
        <3>2. QED
            BY ONLY <3>1, L \in Nat
    <2>4. r # <<>>
        BY ONLY <2>2, <2>3
    <2>5. r[1] = y
        BY ONLY <2>2, <2>3, y = ws[2]
    <2>6. \A k \in 2 .. L - 1 : r[k] = v.dims[k + 1]
        BY ONLY <1>9, <2>2, <2>3, ws = w.dims
    <2>7. QED
        BY ONLY <2>2, <2>4, <2>5, <2>6
<1> PICK z : z = DimensionOf(s2 + s1, 0, s2 * m + s1 * m)
    OBVIOUS
<1>12. z \in Regular
    <2>1. s2 + s1 \in Int /\ s2 * m + s1 * m = (s2 + s1) * m
        BY ONLY s1 \in Int, s2 \in Int, m \in Nat
    <2>2. QED
        BY ONLY <2>1, m \in Nat, z = DimensionOf(s2 + s1, 0, s2 * m + s1 * m), ZeroOffset
<1> PICK e : e = [r EXCEPT ![1] = z]
    OBVIOUS
<1>13. DimensionOf(ws[2].stride + ws[1].stride, ws[2].offset, ws[2].nelems + ws[1].nelems) = z
    BY ONLY <1>10, x = ws[1], y = ws[2], z = DimensionOf(s2 + s1, 0, s2 * m + s1 * m) DEF DimensionOf
<1>14. e \in Seq(Regular) /\ e # <<>>
    <2>0. r \in Seq(Dimensions) /\ Len(r) = L - 1
        BY ONLY <1>11
    <2>1. DOMAIN r = 1 .. L - 1
        BY ONLY <2>0
    <2>2. \A k \in 1 .. L - 1 : k = 1 \/ (k \in 2 .. L - 1 /\ k + 1 \in 1 .. L)
        BY ONLY <1>2, L \in Nat
    <2>3. DOMAIN e = 1 .. L - 1 /\ \A k \in 1 .. L - 1 : e[k] = IF k = 1 THEN z ELSE r[k]
        BY ONLY <2>1, e = [r EXCEPT ![1] = z]
    <2>4. \A k \in 1 .. L - 1 : e[k] \in Regular
        BY ONLY <1>3, <1>11, <1>12, <2>2, <2>3
    <2>5. e \in [1 .. L - 1 -> Regular]
        <3>1. e = [k \in 1 .. L - 1 |-> e[k]]
            BY ONLY <2>1, <1>11, e = [r EXCEPT ![1] = z]
        <3>2. QED
            BY ONLY <2>4, <3>1
    <2>6. QED
        BY ONLY <1>2, <2>5, L \in Nat
<1>15. [v EXCEPT !.dims = e] = View(e, v.base) /\ [v EXCEPT !.dims = e] \in RegularViews
    BY ONLY <1>14, v \in RegularViews, DimsReplaced
<1>16. PICK u \in RegularViews : u = [v EXCEPT !.dims = e] /\ u = View(e, v.base)
    BY ONLY <1>15
<1>17. u.base = v.base /\ u.dims = e
    BY ONLY <1>16 DEF View
<1>18. Becomes(u, <<"diagonal">>)
    <2>1. Becomes([v EXCEPT !.dims =
                       [Tail(ws) EXCEPT ![1] =
                           DimensionOf(ws[2].stride + ws[1].stride, ws[2].offset, ws[2].nelems + ws[1].nelems)]],
                  <<"diagonal">>)
        BY ONLY Diagonal, <1>1, <1>5, ws = w.dims, w = Parenthesis(v, <<0, m>>, <<0, m>>), ZenonT(30) DEF Diagonal
    <2>2. QED
        <3>1. Becomes([v EXCEPT !.dims = e], <<"diagonal">>)
            BY ONLY <1>13, <2>1, r = Tail(ws), e = [r EXCEPT ![1] = z], Zenon
        <3>2. QED
            BY ONLY <1>16, <3>1
<1>19. Len(e) = L - 1 /\ e[1] = z /\ \A k \in 2 .. L - 1 : e[k] = v.dims[k + 1]
    <2>0. r \in Seq(Dimensions) /\ Len(r) = L - 1 /\ L > 1
        BY ONLY <1>11, <1>2
    <2>1. DOMAIN r = 1 .. L - 1 /\ 1 \in 1 .. L - 1 /\ \A k \in 2 .. L - 1 : k \in 1 .. L - 1 /\ k # 1
        BY ONLY <2>0, L \in Nat
    <2>2. DOMAIN e = 1 .. L - 1 /\ \A k \in 1 .. L - 1 : e[k] = IF k = 1 THEN z ELSE r[k]
        BY ONLY <2>1, e = [r EXCEPT ![1] = z]
    <2>3. Len(e) = L - 1
        BY ONLY <1>13, <2>2, <1>2, L \in Nat
    <2>4. QED
        BY ONLY <1>11, <2>1, <2>2, <2>3
<1>20. IsDiagonal(u, m)
    BY ONLY <1>17, <1>18, <1>19, <1>1, <1>2, <1>5, <1>7, z = DimensionOf(s2 + s1, 0, s2 * m + s1 * m) DEF IsDiagonal
<1>21. QED
    BY ONLY u \in RegularViews, m \in Nat, <1>20

LEMMA DiagonalRegular ==
    ASSUME IInv, Diagonal
    PROVE  IInv'
BY DiagonalView, BecomesRegular DEF IsDiagonal

--------------------------------------------------------------------------------
(* Casts.                                                                     *)

LEMMA DividedExact ==
    ASSUME NEW a \in Int, NEW b \in Int, b # 0, Remainder(a, b) = 0
    PROVE  \E k \in Int : a = b * k
BY RemainderZero

\* Elements of a size that divides the old one.
LEMMA SplitParts ==
    ASSUME NEW v \in RegularViews, NEW num \in Nat \ {0}, NEW den \in Nat \ {0}, Remainder(num, den) = 0
    PROVE  \A k \in 1 .. Len(v.dims) : IsScaled(v.dims[k].stride, v.dims[k].offset, v.dims[k].nelems, num, den)
<1> PICK c \in Int : num = den * c
    BY DividedExact
<1>1. ASSUME NEW a \in Int PROVE \E k \in Int : a * num = den * k
    <2>1. a * num = den * (a * c) /\ a * c \in Int
        BY ONLY num = den * c, a \in Int, c \in Int, den \in Nat
    <2>2. QED
        BY ONLY <2>1
<1>2. ASSUME NEW k \in 1 .. Len(v.dims)
      PROVE  IsScaled(v.dims[k].stride, v.dims[k].offset, v.dims[k].nelems, num, den)
    <2>1. v.dims[k] \in Regular
        BY ViewParts
    <2>2. v.dims[k].stride \in Int /\ v.dims[k].offset \in Int /\ v.dims[k].nelems \in Int
        BY <2>1, RegularParts
    <2>3. QED
        BY ONLY <1>1, <2>2 DEF IsScaled
<1>3. QED
    BY ONLY <1>2

LEMMA SplitScaled ==
    ASSUME NEW v \in RegularViews, NEW num \in Nat \ {0}, NEW den \in Nat \ {0}, Remainder(num, den) = 0
    PROVE  ScaleLayout(v.dims, num, den) \in Seq(Regular) /\ ScaleLayout(v.dims, num, den) # <<>>
<1>1. num \in Int /\ den \in Int /\ num # 0 /\ den # 0
    OBVIOUS
<1>2. QED
    BY <1>1, SplitParts, ScaledView

LEMMA CastRegular ==
    ASSUME IInv, NEW ds \in Seq(Regular), ds # <<>>, NEW w \in Nat \ {0}, NEW place, NEW op, CastTo(ds, w, place, op)
    PROVE  IInv'
<1>1. View(ds, 0) \in RegularViews
    BY MadeView
<1>2. QED
    BY <1>1 DEF IInv, CastTo

LEMMA StaticCastRegular ==
    ASSUME IInv, StaticArrayCast
    PROVE  IInv'
<1>1. view.dims \in Seq(Regular) /\ view.dims # <<>> /\ width \in Nat \ {0}
    BY PartsOf DEF IInv, RegularViews
<1>2. QED
    BY <1>1, CastRegular DEF StaticArrayCast

LEMMA MemberCastRegular ==
    ASSUME IInv, NEW m \in Members, MemberCast(m)
    PROVE  IInv'
<1>1. view \in RegularViews /\ width \in Nat \ {0}
    BY DEF IInv
<1>2. m[2] \in Nat \ {0}
    BY ViewsAssumption
<1>3. Remainder(width, m[2]) = 0
    BY DEF MemberCast
<1>4. ScaleLayout(view.dims, width, m[2]) \in Seq(Regular) /\ ScaleLayout(view.dims, width, m[2]) # <<>>
    BY <1>1, <1>2, <1>3, SplitScaled
<1>5. QED
    BY <1>2, <1>4, CastRegular DEF MemberCast

LEMMA ReinterpretedParts ==
    ASSUME IInv, NEW w \in Widths, ReinterpretArrayCast(w)
    PROVE  \A k \in 1 .. Len(view.dims) :
               IsScaled(view.dims[k].stride, view.dims[k].offset, view.dims[k].nelems, width, w)
<1>1. view \in RegularViews /\ width \in Nat \ {0} /\ w \in Nat \ {0}
    BY ViewsAssumption DEF IInv
<1>2. width \in Int /\ w \in Int /\ width # 0 /\ w # 0
    BY <1>1
<1>3. ASSUME NEW k \in 1 .. Len(view.dims)
      PROVE  IsScaled(view.dims[k].stride, view.dims[k].offset, view.dims[k].nelems, width, w)
    <2> PICK s, o, n : s = view.dims[k].stride /\ o = view.dims[k].offset /\ n = view.dims[k].nelems
        OBVIOUS
    <2>1. \A x \in {s, o, n} : Remainder(x * width, w) = 0
        BY DEF ReinterpretArrayCast, D
    <2>2. s \in Int /\ o \in Int /\ n \in Int
        <3>1. view.dims[k] \in Regular
            BY <1>1, ViewParts
        <3>2. QED
            BY <3>1, RegularParts
    <2>3. ASSUME NEW x \in {s, o, n} PROVE \E c \in Int : x * width = w * c
        <3>1. x \in Int
            BY <2>2
        <3> PICK t \in Int : t = x * width
            BY <1>2, <3>1
        <3>2. Remainder(t, w) = 0
            BY <2>1
        <3>3. QED
            BY ONLY <1>2, <3>2, t \in Int, t = x * width, DividedExact
    <2>4. QED
        BY ONLY <2>3, s = view.dims[k].stride, o = view.dims[k].offset, n = view.dims[k].nelems DEF IsScaled
<1>4. QED
    BY ONLY <1>3

LEMMA ReinterpretedRegular ==
    ASSUME IInv, NEW w \in Widths, ReinterpretArrayCast(w)
    PROVE  IInv'
<1>1. view \in RegularViews /\ width \in Nat \ {0} /\ w \in Nat \ {0}
    BY ViewsAssumption DEF IInv
<1>2. width \in Int /\ w \in Int /\ width # 0 /\ w # 0
    BY <1>1
<1>3. ScaleLayout(view.dims, width, w) \in Seq(Regular) /\ ScaleLayout(view.dims, width, w) # <<>>
    BY <1>1, <1>2, ReinterpretedParts, ScaledView
<1>4. QED
    BY <1>1, <1>3, CastRegular DEF ReinterpretArrayCast

LEMMA ReinterpretedInPartsRegular ==
    ASSUME IInv, NEW w \in Widths, ReinterpretInParts(w)
    PROVE  IInv'
<1>1. view \in RegularViews /\ width \in Nat \ {0} /\ w \in Nat \ {0}
    BY ViewsAssumption DEF IInv
<1>2. Remainder(width, w) = 0
    BY DEF ReinterpretInParts
<1>3. ScaleLayout(view.dims, width, w) \in Seq(Regular)
    BY <1>1, <1>2, SplitScaled
<1> PICK parts : parts = DimensionOf(1, 0, Quotient(width, w))
    OBVIOUS
<1>4. parts \in Regular
    <2>1. Quotient(width, w) \in Nat
        <3> PICK a \in Nat, b \in Nat \ {0} : a = width /\ b = w
            BY <1>1
        <3>1. Quotient(a, b) = a \div b /\ a \div b \in Nat
            BY ONLY a \in Nat, b \in Nat \ {0}, QuotientOfNat, DivBounds
        <3>2. QED
            BY <3>1
    <2> PICK n \in Nat : n = Quotient(width, w)
        BY <2>1
    <2>2. n = 1 * n /\ 1 \in Int
        OBVIOUS
    <2>3. DimensionOf(1, 0, n) \in Regular
        BY ONLY <2>2, n \in Nat, ZeroOffset
    <2>4. QED
        BY ONLY <2>3, n = Quotient(width, w), parts = DimensionOf(1, 0, Quotient(width, w))
<1> PICK ds : ds = <<parts>> \o ScaleLayout(view.dims, width, w)
    OBVIOUS
<1>5. ds \in Seq(Regular) /\ ds # <<>>
    BY ONLY <1>3, <1>4, ds = <<parts>> \o ScaleLayout(view.dims, width, w), OneBefore
<1>6. Rotate(ds) \in Seq(Regular) /\ Rotate(ds) # <<>>
    <2>3. View(ds, 0) \in RegularViews /\ View(ds, 0).dims = ds
        BY ONLY <1>5, 0 \in Int, MadeView
    <2> PICK v \in RegularViews : v = View(ds, 0) /\ v.dims = ds
        BY <2>3
    <2> PICK u \in RegularViews : u = Rotation(v)
        BY RotationView
    <2>1. u.dims = Rotate(ds)
        <3>1. u = [v EXCEPT !.dims = Rotate(ds)]
            BY DEF Rotation
        <3>2. v = [base |-> 0, dims |-> ds]
            BY DEF View
        <3>3. QED
            BY ONLY <3>1, <3>2
    <2>2. QED
        BY <2>1, PartsOf DEF RegularViews
<1>7. QED
    BY <1>1, <1>6, CastRegular DEF ReinterpretInParts

--------------------------------------------------------------------------------
(* The initial view, every step, and the theorems.                            *)

LEMMA InitRegular == Init => IInv
<1> SUFFICES ASSUME Init PROVE IInv
    OBVIOUS
<1> PICK xs \in Roots : view = View(LayoutOf(xs), 0) /\ width = RootWidth
    BY DEF Init
<1>1. xs \in Seq(Int \X Int) /\ xs # <<>> /\ (\A k \in DOMAIN xs : Length(xs[k]) >= 0) /\ width \in Nat \ {0}
    BY ViewsAssumption
<1> PICK L \in Nat : L = Len(xs) /\ L >= 1
    BY <1>1
<1>2. DOMAIN xs = 1 .. L /\ \A k \in 1 .. L : xs[k][1] \in Int /\ Length(xs[k]) \in Nat
    <2>1. DOMAIN xs = 1 .. L /\ \A k \in 1 .. L : xs[k] \in Int \X Int
        BY <1>1
    <2>2. ASSUME NEW k \in 1 .. L PROVE xs[k][1] \in Int /\ Length(xs[k]) \in Nat
        <3>1. xs[k] \in Int \X Int /\ Length(xs[k]) >= 0
            BY ONLY <1>1, <2>1
        <3>2. xs[k][1] \in Int /\ Length(xs[k]) \in Int
            BY ONLY <3>1 DEF Length
        <3>3. QED
            BY ONLY <3>1, <3>2
    <2>3. QED
        BY ONLY <2>1, <2>2
<1> DEFINE Below(k) == NumElementsIn(SubSeq(xs, k + 1, Len(xs)))
           Step(k) == IF Below(k) # 0 THEN Below(k) ELSE 1
           Made(k) == DimensionOf(Step(k), xs[k][1] * Step(k), Length(xs[k]) * Below(k))
<1>3. ASSUME NEW k \in 1 .. L PROVE Below(k) \in Nat
    <2> PICK N \in Nat : N = L - k
        BY ONLY L \in Nat, k \in 1 .. L
    <2> PICK ys : ys = SubSeq(xs, k + 1, L)
        OBVIOUS
    <2>1. DOMAIN ys = 1 .. N /\ \A j \in 1 .. N : ys[j] = xs[k + j]
        <3>1. k + 1 \in 1 .. L + 1 /\ L <= Len(xs)
            OBVIOUS
        <3>2. ys \in Seq(Int \X Int) /\ Len(ys) = N
            BY ONLY <1>1, <3>1, ys = SubSeq(xs, k + 1, L), L = Len(xs), k \in 1 .. L, L \in Nat, N = L - k, SMTT(30)
        <3>3. \A j \in 1 .. N : ys[j] = xs[(k + 1) + j - 1]
            BY ONLY <1>1, <3>1, ys = SubSeq(xs, k + 1, L), L = Len(xs), k \in 1 .. L, L \in Nat, N = L - k
        <3>4. \A j \in 1 .. N : (k + 1) + j - 1 = k + j
            OBVIOUS
        <3>5. QED
            BY ONLY <3>2, <3>3, <3>4, SMTT(30)
    <2>2. \A j \in 1 .. N : k + j \in 1 .. L
        OBVIOUS
    <2>3. \A j \in 1 .. N : Length(ys[j]) \in Nat
        BY ONLY <1>2, <2>1, <2>2
    <2>4. NumElementsIn(ys) \in Nat
        BY ONLY <2>1, <2>3, N \in Nat, NumElementsInNat
    <2>5. QED
        BY ONLY <2>4, ys = SubSeq(xs, k + 1, L), L = Len(xs)
<1>4. ASSUME NEW k \in 1 .. L PROVE Made(k) \in Regular
    <2> PICK b \in Nat : b = Below(k)
        BY <1>3
    <2> PICK s \in Int : s = IF b # 0 THEN b ELSE 1
        OBVIOUS
    <2> PICK f \in Int : f = xs[k][1]
        BY <1>2
    <2> PICK n \in Nat : n = Length(xs[k])
        BY <1>2
    <2>1. f * s = s * f /\ f * s \in Int /\ n * b \in Int /\ s # 0
        BY ONLY f \in Int, s \in Int, n \in Nat, b \in Nat, s = IF b # 0 THEN b ELSE 1
    <2>2. n * b # 0 => n * b = s * n
        BY ONLY s \in Int, n \in Nat, b \in Nat, s = IF b # 0 THEN b ELSE 1
    <2>3. IsRegular(s, f * s, n * b)
        BY ONLY <2>1, <2>2, s \in Int, f \in Int, n \in Nat DEF IsRegular
    <2>4. DimensionOf(s, f * s, n * b) \in Regular
        BY <2>3, MadeRegular
    <2>5. QED
        BY ONLY <2>4, b = Below(k), s = IF b # 0 THEN b ELSE 1, f = xs[k][1], n = Length(xs[k])
<1> PICK e : e = LayoutOf(xs)
    OBVIOUS
<1>5. e = [k \in 1 .. L |-> Made(k)]
    BY ONLY <1>2, e = LayoutOf(xs) DEF LayoutOf
<1>6. e \in [1 .. L -> Regular]
    <2> HIDE DEF Made
    <2> QED
        BY ONLY <1>4, <1>5
<1>7. e \in Seq(Regular) /\ e # <<>>
    BY ONLY <1>6, L \in Nat, L >= 1
<1>8. View(e, 0) \in RegularViews
    BY <1>7, MadeView
<1>9. QED
    BY <1>1, <1>8 DEF IInv

LEMMA ElementsRegular ==
    ASSUME IInv, NEW j \in Valid[1] .. Valid[2] - 1, Element(j)
    PROVE  IInv'
<1>1. view \in RegularViews /\ Top \in Regular /\ Len(view.dims) > 1
    BY ViewParts DEF IInv, Top, Element, D
<1>2. j \in Int
    BY <1>1, SizeOf DEF Valid
<1>3. Subscript(view, j) \in RegularViews
    BY <1>1, <1>2, ElementRegular
<1>4. QED
    BY <1>3, BecomesRegular DEF Element

LEMMA ShortenedRegular ==
    ASSUME IInv, Shortened
    PROVE  IInv'
<1>1. ASSUME NEW s \in Steps, Strided(s) PROVE IInv'
    BY <1>1, StridedRegular
<1>2. ASSUME NEW n \in 0 .. Size(Top), Taked(n) PROVE IInv'
    BY <1>2, TakedRegular
<1>3. ASSUME NEW n \in 0 .. Size(Top), Dropped(n) PROVE IInv'
    BY <1>3, DroppedRegular
<1>4. QED
    BY ONLY <1>1, <1>2, <1>3, Shortened DEF Shortened

LEMMA SelectedRegular ==
    ASSUME IInv, Selected
    PROVE  IInv'
<1>1. ASSUME NEW j \in Valid[1] .. Valid[2] - 1, Element(j) PROVE IInv'
    BY <1>1, ElementsRegular
<1>2. ASSUME NEW y \in Subranges(Valid), Sliced(y[1], y[2]) \/ Blocked(y[1], y[2]) PROVE IInv'
    BY <1>2, SlicedRegular
<1>3. ASSUME NEW a \in Valid[1] - 1 .. Valid[2] - 1, NEW b \in Valid[1] - 1 .. Valid[2] - 1,
             b < a, SlicedDown(a, b)
      PROVE  IInv'
    BY <1>3, SlicedDownRegular
<1>4. QED
    BY ONLY <1>1, <1>2, <1>3, Selected DEF Selected

LEMMA PartedRegular ==
    ASSUME IInv, Parted
    PROVE  IInv'
<1>1. ASSUME NEW n \in 1 .. Size(Top), Partitioned(n) \/ Chunked(n) PROVE IInv'
    BY <1>1, PartitionedRegular
<1>2. ASSUME NEW n \in 1 .. Size(Top), TiledQuotient(n) PROVE IInv'
    BY <1>2, TiledQuotientRegular
<1>3. ASSUME NEW n \in 1 .. Size(Top), TiledRemainder(n) PROVE IInv'
    BY <1>3, TiledRemainderRegular
<1>4. Flatted => IInv'
    BY FlattedRegular
<1>5. QED
    BY ONLY <1>1, <1>2, <1>3, <1>4, Parted DEF Parted

LEMMA RereadRegular ==
    ASSUME IInv, Reread
    PROVE  IInv'
<1>1. StaticArrayCast => IInv'
    BY StaticCastRegular
<1>2. ASSUME NEW m \in Members, MemberCast(m) PROVE IInv'
    BY <1>2, MemberCastRegular
<1>3. ASSUME NEW w \in Widths, ReinterpretArrayCast(w) PROVE IInv'
    BY <1>3, ReinterpretedRegular
<1>4. ASSUME NEW w \in Widths, ReinterpretInParts(w) PROVE IInv'
    BY <1>4, ReinterpretedInPartsRegular
<1>5. QED
    BY ONLY <1>1, <1>2, <1>3, <1>4, Reread DEF Reread

LEMMA NextRegular == IInv /\ [Next]_vars => IInv'
<1> SUFFICES ASSUME IInv, [Next]_vars PROVE IInv'
    OBVIOUS
<1>1. CASE Permuted
    BY <1>1, RotatedRegular, TransposedRegular DEF Permuted
<1>2. CASE Reversed
    BY <1>2, ReversedRegular
<1>3. CASE Renamed
    <2>1. PICK f \in Firsts : Reindexed(f)
        BY <1>3 DEF Renamed
    <2>2. f \in Int
        BY ViewsAssumption
    <2>3. QED
        BY <2>1, <2>2, ReindexedRegular
<1>4. ASSUME NEW y \in Subranges(<<0, Size(Top)>>), FromIterators(y[1], y[2]) PROVE IInv'
    BY <1>4, FromIteratorsRegular
<1>5. CASE UNCHANGED vars
    BY <1>5 DEF vars, IInv
<1>6. QED
    BY <1>1, <1>2, <1>3, <1>4, <1>5, ShortenedRegular, SelectedRegular, CalledRegular, PartedRegular,
       DiagonalRegular, RereadRegular, BroadcastedRegular DEF Next

LEMMA AlwaysRegular == Spec => []IInv
<1>1. Init => IInv
    BY InitRegular
<1>2. IInv /\ [Next]_vars => IInv'
    BY NextRegular
<1>3. QED
    BY <1>1, <1>2, PTL DEF Spec

\* What extension() asserts of the stride, the offset and nelems of a dimension
\* holds of every dimension of every view that a program can make.
THEOREM ExtensionsAlwaysExist == Spec => []ExtensionsExist
<1>1. IInv => ExtensionsExist
    <2> SUFFICES ASSUME IInv PROVE ExtensionsExist
        OBVIOUS
    <2>1. view \in RegularViews /\ DOMAIN view.dims = 1 .. Len(view.dims)
        BY ViewParts DEF IInv
    <2>2. \A k \in DOMAIN view.dims : view.dims[k] \in Regular
        BY <2>1, ViewParts
    <2>3. \A k \in DOMAIN view.dims : ExtensionExists(view.dims[k])
        BY <2>2, RegularExists
    <2>4. QED
        BY <2>3 DEF ExtensionsExist
<1>2. QED
    BY <1>1, AlwaysRegular, PTL

--------------------------------------------------------------------------------
(* Iterators and indices.                                                     *)

\* In one dimension: the steps from the first index lead where the index does.
LEMMA StepsToIndex ==
    ASSUME NEW d \in Regular, NEW j, j \in Extension(d)[1] .. Extension(d)[2] - 1
    PROVE  /\ j \in Int /\ Extension(d)[1] \in Int /\ d.stride \in Int /\ d.offset \in Int
           /\ (j - Extension(d)[1]) * d.stride = j * d.stride - d.offset
<1>1. PICK f, n : Stepped(d, f, n)
    BY RegularSteps
<1>2. f \in Int /\ n \in Int /\ HasSteps(d, f, n)
    BY ONLY <1>1 DEF Stepped
<1>3. Extension(d)[1] \in Int /\ Extension(d)[2] \in Int /\ d.stride \in Int /\ d.offset \in Int
    BY SizeOf, RegularParts
<1>4. j \in Int
    BY <1>3
<1>5. n # 0
    <2> SUFFICES ASSUME n = 0 PROVE FALSE
        OBVIOUS
    <2>1. Extension(d)[1] = 0 /\ Extension(d)[2] = 0
        BY ONLY <1>2, n = 0 DEF HasSteps
    <2>2. j \in 0 .. 0 - 1
        BY ONLY <2>1, j \in Extension(d)[1] .. Extension(d)[2] - 1
    <2>3. QED
        BY ONLY <2>2
<1>6. d.offset = d.stride * f /\ Extension(d)[1] = f
    BY ONLY <1>2, <1>5 DEF HasSteps
<1> PICK s \in Int : s = d.stride
    BY <1>3
<1>7. (j - f) * s = j * s - s * f
    BY ONLY <1>2, <1>4, s \in Int
<1>8. QED
    BY ONLY <1>3, <1>4, <1>6, <1>7, s = d.stride

\* In all of them.
LEMMA StepsToElement ==
    ASSUME IInv, NEW i \in Valids
    PROVE  AddressByIterators(view, [k \in DOMAIN i |-> i[k] - Extension(view.dims[k])[1]]) = Address(view, i)
<1> PICK v \in RegularViews : v = view
    BY DEF IInv
<1> PICK N \in Nat : N = Len(v.dims) /\ N >= 1
    BY ViewParts
<1>1. DOMAIN v.dims = 1 .. N /\ v.base \in Int /\ \A k \in 1 .. N : v.dims[k] \in Regular
    BY ViewParts
<1> PICK xs : xs = Extensions(v.dims)
    OBVIOUS
<1>2. DOMAIN xs = 1 .. N /\ \A k \in 1 .. N : xs[k] = Extension(v.dims[k])
    BY ONLY <1>1, xs = Extensions(v.dims) DEF Extensions
<1>3. \A k \in 1 .. N : xs[k][1] \in Int /\ xs[k][2] \in Int
    <2>1. ASSUME NEW k \in 1 .. N PROVE Extension(v.dims[k])[1] \in Int /\ Extension(v.dims[k])[2] \in Int
        BY <1>1, SizeOf
    <2>2. QED
        BY ONLY <1>2, <2>1
<1>4. i \in Seq(Int) /\ DOMAIN i = 1 .. N /\ \A k \in 1 .. N : i[k] \in xs[k][1] .. xs[k][2] - 1
    <2>1. i \in Indices(xs)
        BY DEF Valids
    <2>2. QED
        BY ONLY <1>2, <1>3, <2>1, N \in Nat, IndicesIn
<1>5. ASSUME NEW k \in 1 .. N
      PROVE  /\ i[k] \in Int /\ xs[k][1] \in Int /\ v.dims[k].stride \in Int /\ v.dims[k].offset \in Int
             /\ (i[k] - xs[k][1]) * v.dims[k].stride = i[k] * v.dims[k].stride - v.dims[k].offset
    <2>1. v.dims[k] \in Regular /\ xs[k] = Extension(v.dims[k]) /\ i[k] \in xs[k][1] .. xs[k][2] - 1
        BY ONLY <1>1, <1>2, <1>4, k \in 1 .. N
    <2> PICK d \in Regular : d = v.dims[k]
        BY ONLY <2>1
    <2>2. i[k] \in Extension(d)[1] .. Extension(d)[2] - 1
        BY ONLY <2>1, d = v.dims[k]
    <2>3. /\ i[k] \in Int /\ Extension(d)[1] \in Int /\ d.stride \in Int /\ d.offset \in Int
          /\ (i[k] - Extension(d)[1]) * d.stride = i[k] * d.stride - d.offset
        BY ONLY <2>2, d \in Regular, StepsToIndex
    <2>4. QED
        BY ONLY <2>1, <2>3, d = v.dims[k]
<1> PICK j : j = [k \in DOMAIN i |-> i[k] - Extension(v.dims[k])[1]]
    OBVIOUS
<1>6. \A k \in 1 .. N : j[k] = i[k] - xs[k][1] /\ j[k] \in Int
    <2>1. \A k \in 1 .. N : j[k] = i[k] - xs[k][1]
        BY ONLY <1>2, <1>4, j = [k \in DOMAIN i |-> i[k] - Extension(v.dims[k])[1]]
    <2>2. QED
        BY ONLY <1>5, <2>1
<1>7. PICK h : Moves_(h, v, i, N)
    <2>1. v.dims \in Seq(Dimensions) /\ Len(v.dims) = N
        <3>1. v \in ViewsOf(Dimensions)
            BY ViewsHaveDimensions
        <3>2. QED
            BY ONLY <3>1, N = Len(v.dims), PartsOf
    <2>2. CanDescend(v, i, N)
        BY ONLY <1>1, <1>5, <2>1, N \in Nat DEF CanDescend
    <2>3. QED
        BY ONLY <1>4, <2>2, N \in Nat, WithinSteps
<1>8. /\ h[0] = v.base /\ h[N] = Within(v, i).base
      /\ \A k \in 1 .. N : h[k] = h[k - 1] + (i[k] * v.dims[k].stride - v.dims[k].offset)
    BY ONLY <1>7 DEF Moves_
<1>9. PICK g : StepsUp(g, v, j, N)
    <2>1. HasStep(v, j, N)
        BY ONLY <1>1, <1>5, <1>6 DEF HasStep
    <2>2. QED
        BY ONLY <2>1, N \in Nat, BeginSteps
<1>10. /\ g \in [0 .. N -> Int] /\ g[0] = 0 /\ AddressByIterators(v, j) = v.base + g[N]
       /\ \A k \in 1 .. N : g[k] = g[k - 1] + j[k] * v.dims[k].stride
    BY ONLY <1>9 DEF StepsUp
<1>11. ASSUME NEW k \in 1 .. N PROVE g[k] = g[k - 1] + (i[k] * v.dims[k].stride - v.dims[k].offset)
    <2>1. g[k] = g[k - 1] + (i[k] - xs[k][1]) * v.dims[k].stride
        BY ONLY <1>6, <1>10, k \in 1 .. N
    <2>2. QED
        BY ONLY <1>5, <2>1, k \in 1 .. N
<1> DEFINE T == {m \in Nat : m <= N => h[m] = v.base + g[m]}
<1>12. 0 \in T
    BY <1>1, <1>8, <1>10
<1>13. ASSUME NEW m \in Nat, m \in T PROVE m + 1 \in T
    <2> SUFFICES ASSUME m + 1 <= N PROVE h[m + 1] = v.base + g[m + 1]
        OBVIOUS
    <2>1. h[m] = v.base + g[m] /\ m + 1 \in 1 .. N /\ (m + 1) - 1 = m /\ m \in 0 .. N
        BY <1>13
    <2> PICK c \in Int : c = i[m + 1] * v.dims[m + 1].stride - v.dims[m + 1].offset
        BY ONLY <1>5, <2>1
    <2>2. h[m + 1] = h[m] + c /\ g[m + 1] = g[m] + c
        BY ONLY <1>8, <1>11, <2>1, c = i[m + 1] * v.dims[m + 1].stride - v.dims[m + 1].offset
    <2>3. g[m] \in Int
        BY ONLY <1>10, <2>1
    <2>4. QED
        BY ONLY <1>1, <2>1, <2>2, <2>3, c \in Int
<1>14. N \in T
    <2> HIDE DEF T
    <2> QED
        BY <1>12, <1>13, Induct
<1>15. h[N] = v.base + g[N]
    BY <1>14
<1>16. QED
    BY ONLY <1>8, <1>10, <1>15, v = view, j = [k \in DOMAIN i |-> i[k] - Extension(v.dims[k])[1]] DEF Address

\* Of every view, whatever its offsets: the steps from begin(), which ignores
\* the offset, refer to the elements that operator[], which subtracts it, finds;
\* and end() is size() strides after begin().
THEOREM IteratorsAlwaysAgree == Spec => []IteratorsAgreeWithIndices
<1>1. IInv => IteratorsAgreeWithIndices
    <2> SUFFICES ASSUME IInv PROVE IteratorsAgreeWithIndices
        OBVIOUS
    <2>1. Top \in Regular
        BY ViewParts DEF IInv, Top
    <2> PICK s \in Int, n \in Int : s = Top.stride /\ n = Size(Top)
        BY <2>1, RegularParts, SizeOf
    <2>2. Top.nelems = s * n
        BY <2>1, SizeOf
    <2>3. Top.nelems = Size(Top) * Top.stride
        BY ONLY <2>2, s \in Int, n \in Int, s = Top.stride, n = Size(Top)
    <2>4. QED
        BY <2>3, StepsToElement DEF IteratorsAgreeWithIndices
<1>2. QED
    BY <1>1, AlwaysRegular, PTL

--------------------------------------------------------------------------------
(* The canonical order.                                                       *)

LEMMA ViewIsZeroBased ==
    ASSUME NEW v \in RegularViews, ZeroBased(v.dims)
    PROVE  IsZeroBased(v.dims, Len(v.dims))
<1> PICK N \in Nat, ds \in Seq(Regular) : N = Len(v.dims) /\ ds = v.dims
    BY ViewParts
<1>1. DOMAIN ds = 1 .. N /\ \A k \in 1 .. N : ds[k] \in Regular
    BY ViewParts
<1>2. ds \in Seq(Dimensions)
    <2>1. v \in ViewsOf(Dimensions)
        BY ViewsHaveDimensions
    <2>2. QED
        BY <2>1, PartsOf
<1>3. ASSUME NEW k \in 1 .. N PROVE \E n \in Nat : FromZero(ds[k], n)
    <2> PICK d \in Regular : d = ds[k]
        BY <1>1
    <2>1. d.offset = 0
        BY ONLY ZeroBased(v.dims), <1>1, k \in 1 .. N, d = ds[k], ds = v.dims DEF ZeroBased
    <2>2. PICK f, n : Stepped(d, f, n)
        BY RegularSteps
    <2>3. f \in Int /\ n \in Nat /\ Size(d) = n /\ (n = 0 => Extension(d) = <<0, 0>>)
          /\ (n # 0 => d.stride # 0 /\ d.offset = d.stride * f /\ Extension(d) = <<f, f + n>>)
        BY ONLY <2>2 DEF Stepped, HasSteps
    <2>4. d.stride \in Int
        BY RegularParts
    <2>5. n # 0 => f = 0
        BY ONLY <2>1, <2>3, <2>4
    <2>6. Extension(d) = <<0, n>>
        BY ONLY <2>3, <2>5
    <2>7. QED
        BY ONLY <2>1, <2>3, <2>6, d = ds[k] DEF FromZero
<1>4. QED
    BY ONLY <1>2, <1>3, N \in Nat, N = Len(v.dims), ds = v.dims DEF IsZeroBased

\* Of every view whose indices start at zero, and for every array that the chain
\* of views began with: elements() has one element for each index, and the one
\* that elements()[n] and elements_at(n) refer to is the element at the index that
\* n others come before.
THEOREM ElementsAlwaysInOrder == Spec => []ElementsInOrder
<1>1. IInv => ElementsInOrder
    <2> SUFFICES ASSUME IInv, ZeroBased(view.dims)
                 PROVE  /\ NumElements(view.dims) = Cardinality(Valids)
                        /\ \A i \in Valids :
                               LET n == Cardinality({j \in Valids : Precedes(j, i)})
                               IN  ElementAt(view, n) = Address(view, i) /\ ElementsAt(view, n) = Address(view, i)
        BY DEF ElementsInOrder
    <2> PICK v \in RegularViews : v = view
        BY DEF IInv
    <2> PICK N \in Nat : N = Len(v.dims)
        BY ViewParts
    <2> PICK xs : xs = Extensions(v.dims)
        OBVIOUS
    <2>1. IsZeroBased(v.dims, N) /\ v.base \in Int
        BY ViewIsZeroBased, ViewParts
    <2>2. Boxed(xs, N) /\ NumElements(v.dims) = NumElementsIn(xs)
        BY ONLY <2>1, N \in Nat, xs = Extensions(v.dims), ZeroBasedIsBox
    <2>3. /\ Cardinality(Indices(xs)) = NumElementsIn(xs)
          /\ \A i \in Indices(xs) : /\ Cardinality({j \in Indices(xs) : Before(j, i)}) = ToLinear(xs, i)
                                    /\ ToLinear(xs, i) \in 0 .. NumElementsIn(xs) - 1
                                    /\ FromLinear(xs, ToLinear(xs, i)) = i
        BY ONLY <2>2, N \in Nat, CountIndices
    <2>4. NumElements(v.dims) = Cardinality(Indices(xs))
        BY ONLY <2>2, <2>3
    <2>5. ASSUME NEW i \in Indices(xs), NEW n, n = Cardinality({j \in Indices(xs) : Precedes(j, i)})
          PROVE  ElementAt(v, n) = Address(v, i) /\ ElementsAt(v, n) = Address(v, i)
        <3>1. {j \in Indices(xs) : Precedes(j, i)} = {j \in Indices(xs) : Before(j, i)}
            BY DEF Precedes, Before
        <3>2. n = ToLinear(xs, i) /\ n \in 0 .. NumElements(v.dims) - 1 /\ FromLinear(xs, n) = i
            BY ONLY <2>2, <2>3, <2>5, <3>1
        <3>3. ElementAt(v, n) = Address(v, FromLinear(xs, n))
            BY ONLY <2>1, <3>2, N \in Nat, xs = Extensions(v.dims), ElementAtIsAddress
        <3>4. ElementsAt(v, n) = Address(v, FromLinear(xs, n))
            BY ONLY <2>1, <3>2, N \in Nat, xs = Extensions(v.dims), ElementsAtIsAddress
        <3>5. QED
            BY ONLY <3>2, <3>3, <3>4
    <2>6. Valids = Indices(xs)
        BY DEF Valids
    <2>7. QED
        BY ONLY <2>4, <2>5, <2>6, v = view
<1>2. QED
    BY <1>1, AlwaysRegular, PTL

--------------------------------------------------------------------------------
(* The refinement.  A view maps indices to elements: it names each element that *)
(* IndexMaps says it names, by the same index.                                *)

\* The indices of the abstract specification.
LEMMA BoxIsIndices ==
    ASSUME NEW dims \in Seq(Regular)
    PROVE  Maps!Box(Extensions(dims)) = Indices(Extensions(dims))
<1> PICK L \in Nat : L = Len(dims)
    OBVIOUS
<1> PICK xs : xs = Extensions(dims)
    OBVIOUS
<1>1. DOMAIN xs = 1 .. L /\ \A k \in 1 .. L : xs[k][1] \in Int /\ xs[k][2] \in Int
    BY ExtensionsOf, SizeOf, SMTT(30)
<1>2. ASSUME NEW i \in Maps!Box(xs) PROVE i \in Indices(xs)
    <2>1. /\ i \in [1 .. L -> UNION {Maps!Interval(xs[k]) : k \in 1 .. L}]
          /\ \A k \in 1 .. L : i[k] \in Maps!Interval(xs[k])
        BY ONLY <1>1, <1>2 DEF Maps!Box
    <2>2. \A k \in 1 .. L : i[k] \in xs[k][1] .. xs[k][2] - 1
        BY ONLY <2>1 DEF Maps!Interval
    <2>3. \A k \in 1 .. L : i[k] \in Int
        BY ONLY <1>1, <2>2
    <2>4. i \in [1 .. L -> Int]
        BY ONLY <2>1, <2>3
    <2>5. i \in Seq(Int) /\ Len(i) = L
        BY ONLY <2>4, L \in Nat
    <2>6. QED
        BY ONLY <1>1, <2>2, <2>5, L \in Nat, IndicesHas
<1>3. ASSUME NEW i \in Indices(xs) PROVE i \in Maps!Box(xs)
    <2>1. i \in Seq(Int) /\ Len(i) = L /\ \A k \in 1 .. L : i[k] \in xs[k][1] .. xs[k][2] - 1
        BY ONLY <1>1, <1>3, L \in Nat, IndicesIn
    <2>2. \A k \in 1 .. L : i[k] \in Maps!Interval(xs[k])
        BY ONLY <2>1 DEF Maps!Interval
    <2> PICK S : S = UNION {Maps!Interval(xs[k]) : k \in 1 .. L}
        OBVIOUS
    <2>3. \A k \in 1 .. L : i[k] \in S
        BY ONLY <2>2, S = UNION {Maps!Interval(xs[k]) : k \in 1 .. L}
    <2>4. i \in [1 .. L -> Int]
        BY ONLY <2>1, L \in Nat
    <2>5. i \in [1 .. L -> S]
        BY ONLY <2>3, <2>4
    <2>6. QED
        BY ONLY <1>1, <2>2, <2>5, S = UNION {Maps!Interval(xs[k]) : k \in 1 .. L} DEF Maps!Box
<1>4. QED
    BY ONLY <1>2, <1>3, xs = Extensions(dims)

\* The abstract variables.
Elem == [i \in Valids |-> origin + width * Address(view, i)]

\* A new view is the map that IndexMaps asks for: it has extensions xs, and its
\* index i names what F[i] named.
IsMapOf(u, xs, F) ==
    /\ Extensions(u.dims) = xs
    /\ \A i : IsIndex(i, u.dims) => IsIndex(F[i], view.dims) /\ Address(u, i) = Address(view, F[i])

LEMMA BecomesMap ==
    ASSUME IInv, NEW u \in RegularViews, NEW op, Becomes(u, op), NEW xs, NEW F, IsMapOf(u, xs, F)
    PROVE  /\ call' = op /\ width' = width /\ Extensions(view.dims)' = xs
           /\ Elem' = [i \in Maps!Box(xs) |-> Elem[F[i]]]
<1>1. view' = u /\ call' = op /\ width' = width /\ origin' = origin
    BY DEF Becomes
<1>2. Extensions(view.dims)' = xs
    BY <1>1 DEF IsMapOf
<1>3. Valids' = Maps!Box(xs)
    BY <1>2, ViewParts, BoxIsIndices DEF Valids, IsMapOf
<1>4. ASSUME NEW i \in Maps!Box(xs) PROVE F[i] \in Valids /\ Address(u, i) = Address(view, F[i])
    <2>1. view.dims \in Seq(Regular) /\ u.dims \in Seq(Regular)
        BY ViewParts DEF IInv
    <2>2. i \in Indices(Extensions(u.dims))
        BY <1>4, <2>1, BoxIsIndices DEF IsMapOf
    <2>3. IsIndex(i, u.dims)
        BY <2>1, <2>2, IndicesAreOf
    <2>4. IsIndex(F[i], view.dims) /\ Address(u, i) = Address(view, F[i])
        BY <2>3 DEF IsMapOf
    <2>5. QED
        BY <2>1, <2>4, IndicesAreOf DEF Valids
<1>5. Elem' = [i \in Maps!Box(xs) |-> origin + width * Address(u, i)]
    BY <1>1, <1>3 DEF Elem
<1>6. \A i \in Maps!Box(xs) : origin + width * Address(u, i) = Elem[F[i]]
    BY <1>4 DEF Elem
<1>7. QED
    BY <1>1, <1>2, <1>5, <1>6

--------------------------------------------------------------------------------
(* Functions that change the leading dimension.                               *)

LEMMA LeadIsMap ==
    ASSUME IInv, NEW u \in RegularViews, SameRest(u, view), NEW G, MovesLead(u, view, G),
           NEW F, \A i : IsIndex(i, u.dims) => F[i] = <<G[i[1]]>> \o Tail(i)
    PROVE  IsMapOf(u, <<Extension(u.dims[1])>> \o Tail(Extensions(view.dims)), F)
<1> PICK v \in RegularViews : v = view
    BY DEF IInv
<1> PICK a \in Seq(Regular), b \in Seq(Regular), L \in Nat :
            a = u.dims /\ b = v.dims /\ L = Len(a) /\ L = Len(b) /\ L >= 1
    BY ViewParts DEF SameRest
<1>1. ASSUME NEW i, IsIndex(i, a) PROVE IsIndex(F[i], b) /\ Address(u, i) = Address(v, F[i])
    <2>1. i \in Seq(Int) /\ Len(i) = L /\ i[1] \in Int /\ InDimension(i[1], a[1])
        <3>1. i \in Seq(Int) /\ Len(i) = L /\ \A k \in 1 .. L : InDimension(i[k], a[k])
            BY ONLY <1>1, L = Len(a) DEF IsIndex
        <3>2. 1 \in 1 .. L
            OBVIOUS
        <3>3. QED
            BY ONLY <3>1, <3>2, L \in Nat
    <2>2. InDimension(G[i[1]], b[1]) /\ PlaceAt(u, i[1]) = PlaceAt(v, G[i[1]])
        BY <2>1 DEF MovesLead
    <2> PICK j \in Int : j = G[i[1]]
        <3>1. b[1] \in Regular
            OBVIOUS
        <3>2. QED
            BY <2>2, <3>1, SizeOf DEF InDimension
    <2> PICK t \in Seq(Int) : t = Tail(i) /\ Len(t) = L - 1 /\ \A k \in 1 .. L - 1 : t[k] = i[k + 1]
        BY ONLY <2>1, L \in Nat, L >= 1, TailOfInts
    <2> PICK h : h = <<j>> \o t
        OBVIOUS
    <2>3. h \in Seq(Int) /\ Len(h) = L /\ h[1] = j /\ \A k \in 1 .. L - 1 : h[k + 1] = t[k]
        BY OneThen
    <2>4. h = F[i]
        BY <1>1
    <2>5. ASSUME NEW k \in 1 .. L PROVE InDimension(h[k], b[k])
        <3>1. CASE k = 1
            BY <2>2, <2>3, <3>1
        <3>2. CASE k # 1
            <4> PICK m \in 1 .. L - 1 : m + 1 = k
                <5>1. k - 1 \in 1 .. L - 1 /\ (k - 1) + 1 = k
                    BY <3>2
                <5>2. QED
                    BY <5>1
            <4>1. h[m + 1] = i[m + 1]
                BY <2>3
            <4>2. a[k] = b[k]
                BY <3>2 DEF SameRest
            <4>3. InDimension(i[k], a[k])
                BY <1>1 DEF IsIndex
            <4>4. QED
                BY <4>1, <4>2, <4>3
        <3>3. QED
            BY <3>1, <3>2
    <2>6. IsIndex(h, b)
        BY <2>3, <2>5 DEF IsIndex
    <2>7. Tail(h) = t
        <3>1. Tail(h) \in Seq(Int) /\ Len(Tail(h)) = L - 1 /\ \A k \in 1 .. L - 1 : Tail(h)[k] = h[k + 1]
            BY <2>3, TailOfSeq
        <3>2. Len(Tail(h)) = Len(t) /\ \A k \in 1 .. Len(Tail(h)) : Tail(h)[k] = t[k]
            BY ONLY <2>3, <3>1, Len(t) = L - 1
        <3>3. QED
            BY ONLY <3>1, <3>2, t \in Seq(Int), SeqsEqual
    <2>8. Subscript(u, i[1]) = Subscript(v, j)
        <3>1. Subscript(u, i[1]) = View(Tail(u.dims), PlaceAt(u, i[1]))
            BY <2>1, PlaceIs
        <3>2. Subscript(v, j) = View(Tail(v.dims), PlaceAt(v, j))
            BY PlaceIs
        <3>3. PlaceAt(u, i[1]) = PlaceAt(v, j)
            BY <2>2
        <3>4. Tail(u.dims) = Tail(v.dims)
            BY SameTails
        <3>5. QED
            BY ONLY <3>1, <3>2, <3>3, <3>4
    <2>9. Address(u, i) = Address(Subscript(u, i[1]), t)
        BY ONLY <2>1, t = Tail(i), L \in Nat, L >= 1, DownOne
    <2>10. Address(v, h) = Address(Subscript(v, h[1]), Tail(h))
        BY ONLY <2>3, L \in Nat, L >= 1, DownOne
    <2>11. QED
        BY <2>3, <2>4, <2>6, <2>7, <2>8, <2>9, <2>10
<1>2. QED
    BY <1>1, LeadExtensions DEF IsMapOf

\* Rows m .. m + k - 1 of v, under indices from g.
PartOf(u, v, g, m, k) ==
    /\ g \in Int /\ m \in Int /\ k \in Nat
    /\ v.dims[1].nelems = 0 => u.dims[1].nelems = 0 /\ k = 0
    /\ v.dims[1].nelems # 0 =>
           /\ u.dims[1].stride = v.dims[1].stride
           /\ u.dims[1].offset = v.dims[1].stride * g /\ u.dims[1].nelems = v.dims[1].stride * k
           /\ u.base = v.base + m * v.dims[1].stride
           /\ 0 <= m /\ m + k <= Size(v.dims[1])

From(v, g, m) == [j \in Int |-> j - g + Extension(v.dims[1])[1] + m]

LEMMA PartMoves ==
    ASSUME NEW u \in RegularViews, NEW v \in RegularViews, NEW g, NEW m, NEW k, PartOf(u, v, g, m, k)
    PROVE  /\ Extension(u.dims[1]) = Maps!Bounds(g, g + k)
           /\ MovesLead(u, v, From(v, g, m))
<1>0. g \in Int /\ m \in Int /\ k \in Nat
    BY DEF PartOf
<1>1. CASE u.dims[1].nelems = 0
    <2>1. Extension(u.dims[1]) = <<0, 0>> /\ MovesLead(u, v, From(v, g, m))
        BY <1>1, EmptyDimension DEF MovesLead
    <2>2. k = 0
        <3>1. CASE v.dims[1].nelems = 0
            BY <3>1 DEF PartOf
        <3>2. CASE v.dims[1].nelems # 0
            <4>1. PICK s, f, n : Spanned(v.dims[1], s, f, n)
                BY <3>2, ViewParts, DimensionCases
            <4>2. s \in Int /\ s # 0 /\ s * k = 0
                BY <1>1, <3>2, <4>1 DEF Spanned, PartOf
            <4>3. QED
                BY ONLY <1>0, <4>2
        <3>3. QED
            BY <3>1, <3>2
    <2>3. g = g + k
        BY <1>0, <2>2
    <2>4. QED
        BY <2>1, <2>3 DEF Maps!Bounds
<1>2. CASE u.dims[1].nelems # 0
    <2>1. v.dims[1].nelems # 0
        BY <1>2 DEF PartOf
    <2>2. PICK s, f, n : Spanned(v.dims[1], s, f, n)
        BY <2>1, ViewParts, DimensionCases
    <2>3. s \in Int /\ s # 0 /\ f \in Int /\ n \in Nat /\ Extension(v.dims[1]) = <<f, f + n>>
        BY <2>2 DEF Spanned
    <2>4. /\ u.dims[1].stride = s /\ u.dims[1].offset = s * g /\ u.dims[1].nelems = s * k
          /\ u.base = v.base + m * s /\ 0 <= m /\ m + k <= n
        BY <2>1, <2>2 DEF PartOf, Spanned
    <2>5. k # 0
        BY ONLY <1>2, <2>3, <2>4
    <2>6. Spanned(u.dims[1], s, g, k)
        BY ONLY <1>0, <2>3, <2>4, <2>5, MadeSpanned
    <2>7. Extension(u.dims[1]) = <<g, g + k>> /\ g # g + k
        BY <1>0, <2>5, <2>6 DEF Spanned
    <2>8. ASSUME NEW j, InDimension(j, u.dims[1])
          PROVE  InDimension(From(v, g, m)[j], v.dims[1]) /\ PlaceAt(u, j) = PlaceAt(v, From(v, g, m)[j])
        <3>1. j \in Int /\ g <= j /\ j <= g + k - 1
            BY <1>0, <2>7, <2>8 DEF InDimension
        <3> PICK h \in Int : h = j - g + f + m
            BY <1>0, <2>3, <3>1
        <3>2. From(v, g, m)[j] = h
            BY <2>3, <3>1 DEF From
        <3>3. f <= h /\ h <= f + n - 1
            BY ONLY <1>0, <2>3, <2>4, <3>1, h = j - g + f + m
        <3>4. h \in f .. f + n - 1
            BY ONLY <3>3, <2>3, h \in Int
        <3>5. InDimension(h, v.dims[1])
            BY ONLY <3>4, <2>3 DEF InDimension
        <3>6. PlaceAt(u, j) = u.base + (j - g) * s
            BY <2>6, <3>1, PlaceSpanned
        <3>7. PlaceAt(v, h) = v.base + (h - f) * s
            BY <2>2, PlaceSpanned
        <3>8. v.base \in Int
            BY ViewParts
        <3>9. v.base + m * s + (j - g) * s = v.base + (h - f) * s
            BY ONLY <1>0, <2>3, <3>1, <3>8, h \in Int, h = j - g + f + m
        <3>10. QED
            BY <2>4, <3>2, <3>5, <3>6, <3>7, <3>9
    <2>9. QED
        BY <2>7, <2>8 DEF Maps!Bounds, MovesLead
<1>3. QED
    BY <1>1, <1>2

LEMMA TopIs ==
    ASSUME IInv
    PROVE  /\ view \in RegularViews /\ Top \in Regular /\ Top = view.dims[1] /\ Valid = Extension(Top)
           /\ Extensions(view.dims)[1] = Valid /\ Maps!first = Valid[1] /\ Maps!last = Valid[2]
           /\ Maps!size = Size(Top) /\ Valid[1] \in Int /\ Valid[2] \in Int /\ Size(Top) \in Nat
           /\ Maps!D = D
<1>1. view \in RegularViews /\ Top \in Regular /\ Top = view.dims[1] /\ Valid = Extension(Top)
    BY ViewParts DEF IInv, Top, Valid
<1>2. view.dims \in Seq(Regular) /\ Len(view.dims) >= 1
    BY <1>1, ViewParts
<1>3. Extensions(view.dims)[1] = Valid /\ Len(Extensions(view.dims)) = D
    BY <1>1, <1>2, ExtensionsOf DEF D
<1>4. Maps!first = Valid[1] /\ Maps!last = Valid[2] /\ Maps!D = D
    BY <1>3 DEF Maps!first, Maps!last, Maps!D
<1>5. Maps!size = Size(Top) /\ Valid[1] \in Int /\ Valid[2] \in Int /\ Size(Top) \in Nat
    BY <1>1, <1>3, SizeOf DEF Maps!size, Maps!Count
<1>6. QED
    BY <1>1, <1>3, <1>4, <1>5

\* The new extensions, and what the new indices name.
LEMMA LeadBecomes ==
    ASSUME IInv, NEW u \in RegularViews, NEW op, Becomes(u, op), SameRest(u, view),
           NEW x, x = Extension(u.dims[1]), NEW G, MovesLead(u, view, G)
    PROVE  /\ call' = op /\ width' = width /\ Extensions(view.dims)' = Maps!WithLeading(x)
           /\ Elem' = [i \in Maps!Box(Maps!WithLeading(x)) |-> Elem[<<G[i[1]]>> \o Tail(i)]]
           /\ \A i \in Maps!Box(Maps!WithLeading(x)) :
                  i \in Seq(Int) /\ Len(i) = D /\ i[1] \in Int /\ <<i[1]>> \o Tail(i) = i
<1> PICK xs : xs = Maps!WithLeading(x)
    OBVIOUS
<1> DEFINE F == [i \in Maps!Box(xs) |-> <<G[i[1]]>> \o Tail(i)]
<1>1. xs = <<x>> \o Tail(Extensions(view.dims))
    BY DEF Maps!WithLeading
<1>2. u.dims \in Seq(Regular) /\ Len(u.dims) >= 1 /\ Extensions(u.dims) = xs
    BY <1>1, LeadExtensions, ViewParts DEF IInv
<1>3. \A i : i \in Maps!Box(xs) <=> IsIndex(i, u.dims)
    BY <1>2, IndicesAreOf, BoxIsIndices
<1>4. \A i : IsIndex(i, u.dims) => F[i] = <<G[i[1]]>> \o Tail(i)
    BY <1>3
<1>5. IsMapOf(u, xs, F)
    <2> HIDE DEF F
    <2> QED
        BY <1>1, <1>4, LeadIsMap
<1>6. /\ call' = op /\ width' = width /\ Extensions(view.dims)' = xs
      /\ Elem' = [i \in Maps!Box(xs) |-> Elem[F[i]]]
    <2> HIDE DEF F
    <2> QED
        BY <1>5, BecomesMap
<1>7. ASSUME NEW i \in Maps!Box(xs)
      PROVE  i \in Seq(Int) /\ Len(i) = D /\ i[1] \in Int /\ <<i[1]>> \o Tail(i) = i
    <2>1. i \in Seq(Int) /\ Len(i) = Len(u.dims)
        BY <1>2, <1>3, IndexParts
    <2>2. Len(u.dims) = D
        BY DEF SameRest, D
    <2>3. Len(i) >= 1 /\ i[1] \in Int
        BY <1>2, <2>1
    <2>4. QED
        BY <2>1, <2>2, <2>3, HeadTail
<1>8. QED
    BY <1>6, <1>7

NamesRows(op, x, g, m) ==
    /\ call' = op /\ width' = width /\ Extensions(view.dims)' = Maps!WithLeading(x)
    /\ Elem' = [i \in Maps!Box(Maps!WithLeading(x)) |-> Elem[<<i[1] - g + Valid[1] + m>> \o Tail(i)]]
    /\ \A i \in Maps!Box(Maps!WithLeading(x)) :
           i \in Seq(Int) /\ Len(i) = D /\ i[1] \in Int /\ <<i[1]>> \o Tail(i) = i

LEMMA PartBecomes ==
    ASSUME IInv, NEW u \in RegularViews, NEW op, Becomes(u, op), SameRest(u, view),
           NEW g, NEW m, NEW k, PartOf(u, view, g, m, k)
    PROVE  NamesRows(op, Maps!Bounds(g, g + k), g, m)
<1> PICK x : x = Maps!Bounds(g, g + k)
    OBVIOUS
<1>1. x = Extension(u.dims[1]) /\ MovesLead(u, view, From(view, g, m))
    BY PartMoves DEF IInv
<1>2. /\ call' = op /\ width' = width /\ Extensions(view.dims)' = Maps!WithLeading(x)
      /\ Elem' = [i \in Maps!Box(Maps!WithLeading(x)) |-> Elem[<<From(view, g, m)[i[1]]>> \o Tail(i)]]
      /\ \A i \in Maps!Box(Maps!WithLeading(x)) :
             i \in Seq(Int) /\ Len(i) = D /\ i[1] \in Int /\ <<i[1]>> \o Tail(i) = i
    BY <1>1, LeadBecomes
<1>3. \A i \in Maps!Box(Maps!WithLeading(x)) : From(view, g, m)[i[1]] = i[1] - g + Valid[1] + m
    BY <1>2 DEF From, Valid, Top
<1>4. QED
    BY <1>2, <1>3 DEF NamesRows

\* Where the leading dimension has indices, its offset is at the first.
LEMMA TopSpanned ==
    ASSUME IInv
    PROVE  /\ Top.stride \in Int /\ Top.offset \in Int /\ view.base \in Int
           /\ Top.nelems = 0 <=> Size(Top) = 0
           /\ Top.nelems # 0 => /\ Top.offset = Top.stride * Valid[1] /\ Top.stride # 0
                                /\ Valid[2] = Valid[1] + Size(Top)
           /\ Top.nelems = 0 => Valid = <<0, 0>>
<1>1. Top.nelems # 0 => /\ Top.offset = Top.stride * Valid[1] /\ Top.stride # 0
                        /\ Valid[2] = Valid[1] + Size(Top) /\ Size(Top) # 0
    BY TopIs, DimensionCases DEF Spanned
<1>2. Top.nelems = 0 => Size(Top) = 0 /\ Valid = <<0, 0>>
    BY TopIs, EmptyDimension
<1>3. QED
    BY <1>1, <1>2, TopIs, ViewParts, RegularParts

\* The first n rows.
LEMMA TakedMaps ==
    ASSUME IInv, NEW n \in 0 .. Size(Top), Taked(n)
    PROVE  Maps!Taked(n)
<1>1. n \in Nat /\ n <= Size(Top) /\ (Top.nelems = 0 => n = 0)
    BY TopIs, TopSpanned
<1> PICK u \in RegularViews : u = Take(view, n)
    BY <1>1, TopIs, TakeView
<1>2. /\ Len(u.dims) = Len(view.dims) /\ u.base = view.base
      /\ u.dims[1] = DimensionOf(Top.stride, Top.offset, Top.stride * n)
      /\ \A k \in 1 .. Len(view.dims) : k # 1 => u.dims[k] = view.dims[k]
    BY <1>1, TopIs, TakeView
<1>3. SameRest(u, view) /\ PartOf(u, view, Valid[1], 0, n)
    <2>1. u.dims[1].stride = Top.stride /\ u.dims[1].offset = Top.offset /\ u.dims[1].nelems = Top.stride * n
        BY ONLY <1>2 DEF DimensionOf
    <2>2. view.base = view.base + 0 * Top.stride /\ (n = 0 => Top.stride * n = 0) /\ 0 + n <= Size(Top)
        BY <1>1, TopSpanned
    <2>3. QED
        BY <1>1, <1>2, <2>1, <2>2, TopIs, TopSpanned, SMTT(30) DEF PartOf, SameRest
<1>4. NamesRows(<<"taked", n>>, Maps!Bounds(Valid[1], Valid[1] + n), Valid[1], 0)
    <2>1. Becomes(u, <<"taked", n>>)
        BY DEF Taked
    <2>2. QED
        BY ONLY IInv, u \in RegularViews, <1>3, <2>1, PartBecomes
<1> PICK x : x = Maps!Bounds(Valid[1], Valid[1] + n)
    OBVIOUS
<1>5. Elem' = [i \in Maps!Box(Maps!WithLeading(x)) |-> Elem[i]]
    <2>1. ASSUME NEW i \in Maps!Box(Maps!WithLeading(x)) PROVE <<i[1] - Valid[1] + Valid[1] + 0>> \o Tail(i) = i
        <3>1. i[1] \in Int /\ <<i[1]>> \o Tail(i) = i
            BY ONLY <1>4, <2>1, x = Maps!Bounds(Valid[1], Valid[1] + n) DEF NamesRows
        <3>2. i[1] - Valid[1] + Valid[1] + 0 = i[1]
            BY <3>1, TopIs
        <3>3. QED
            BY ONLY <3>1, <3>2 DEF Maps!Lead
    <2>2. QED
        BY ONLY <1>4, <2>1, x = Maps!Bounds(Valid[1], Valid[1] + n) DEF NamesRows
<1>6. QED
    BY <1>4, <1>5, TopIs DEF NamesRows, Maps!Taked, Maps!Becomes, Elem

\* The same rows, numbered from k.
LEMMA ReindexedMaps ==
    ASSUME IInv, NEW f \in Int, Reindexed(f)
    PROVE  Maps!Reindexed(f)
<1> PICK n \in Nat : n = Size(Top)
    BY TopIs
<1> PICK d : d = [Top EXCEPT !.offset = f * Top.stride]
    OBVIOUS
<1> PICK u : u = [view EXCEPT !.dims = Reindex(view.dims, f)]
    OBVIOUS
<1>1. d = DimensionOf(Top.stride, f * Top.stride, Top.nelems) /\ d \in Regular
    BY TopIs, Offset
<1>2. u \in RegularViews /\ u.base = view.base /\ u.dims = [view.dims EXCEPT ![1] = d]
    <2>1. view.dims \in Seq(Regular) /\ view.dims # <<>>
        BY TopIs, ViewParts
    <2>2. Reindex(view.dims, f) = [view.dims EXCEPT ![1] = d]
        BY DEF Reindex, Top
    <2>3. Reindex(view.dims, f) \in Seq(Regular) /\ Reindex(view.dims, f) # <<>>
        BY <2>1, ReindexRegular
    <2>4. u = View(Reindex(view.dims, f), view.base) /\ u \in RegularViews
        BY <2>3, TopIs, DimsReplaced
    <2>5. QED
        BY <2>2, <2>4 DEF View
<1>3. u \in RegularViews /\ SameRest(u, view) /\ u.dims[1] = d
    <2>1. view \in RegularViews
        BY TopIs
    <2>2. d \in Regular
        BY <1>1
    <2>3. u.dims = [view.dims EXCEPT ![1] = d]
        BY <1>2
    <2>4. SameRest(u, view) /\ u.dims[1] = d
        BY ONLY <2>1, <2>2, <2>3, OtherTop, ZenonT(30)
    <2>5. QED
        BY <1>2, <2>4
<1>4. SameRest(u, view) /\ PartOf(u, view, f, 0, n)
    <2>1. d.stride = Top.stride /\ d.offset = f * Top.stride /\ d.nelems = Top.nelems
        BY <1>1 DEF DimensionOf
    <2>2. Top.nelems = Top.stride * n /\ f * Top.stride = Top.stride * f
          /\ view.base = view.base + 0 * Top.stride
        BY TopIs, TopSpanned, SizeOf
    <2>3. (Top.nelems = 0 => n = 0) /\ 0 + n <= Size(Top)
        BY TopSpanned
    <2>4. QED
        BY ONLY <1>2, <1>3, <2>1, <2>2, <2>3, f \in Int, n \in Nat, TopIs, IInv DEF PartOf
<1>5. NamesRows(<<"reindexed", f>>, Maps!Bounds(f, f + n), f, 0)
    <2>1. Becomes(u, <<"reindexed", f>>)
        BY DEF Reindexed
    <2>2. QED
        BY ONLY IInv, <1>3, <1>4, <2>1, PartBecomes
<1> PICK x : x = Maps!Bounds(f, f + n)
    OBVIOUS
<1>6. Elem' = [i \in Maps!Box(Maps!WithLeading(x)) |-> Elem[Maps!Lead(i[1] - f + Maps!first, i)]]
    <2>1. ASSUME NEW i \in Maps!Box(Maps!WithLeading(x)) PROVE <<i[1] - f + Valid[1] + 0>> \o Tail(i) = Maps!Lead(i[1] - f + Maps!first, i)
        <3>1. i[1] \in Int /\ <<i[1]>> \o Tail(i) = i
            BY ONLY <1>5, <2>1, x = Maps!Bounds(f, f + n) DEF NamesRows
        <3>2. i[1] - f + Valid[1] + 0 = i[1] - f + Maps!first
            BY <3>1, TopIs
        <3>3. QED
            BY ONLY <3>1, <3>2 DEF Maps!Lead
    <2>2. QED
        BY ONLY <1>5, <2>1, x = Maps!Bounds(f, f + n) DEF NamesRows
<1>7. QED
    BY <1>5, <1>6, TopIs DEF NamesRows, Maps!Reindexed, Maps!Becomes, Elem

\* The rows from the m-th on, under the same first index.
LEMMA DropParts ==
    ASSUME IInv, Top.offset = 0, NEW m \in Nat, m <= Size(Top)
    PROVE  /\ Drop(view, m) \in RegularViews /\ SameRest(Drop(view, m), view)
           /\ PartOf(Drop(view, m), view, Valid[1], m, Size(Top) - m)
           /\ Valid[1] = 0
<1> PICK n \in Nat : n = Size(Top) - m
    BY TopIs
<1>1. m \in Int /\ (Top.nelems = 0 => m = 0 /\ n = 0)
    BY TopIs, TopSpanned
<1> PICK u \in RegularViews : u = Drop(view, m)
    BY <1>1, TopIs, DropRegular
<1> PICK d : d = [Top EXCEPT !.nelems = Top.stride * n]
    OBVIOUS
<1>2. d = DimensionOf(Top.stride, Top.offset, Top.stride * n) /\ d \in Regular
    BY <1>1, TopIs, Resized
<1>3. u = View([view.dims EXCEPT ![1] = d], view.base + m * Top.stride - Top.offset)
    BY DEF Drop, Top
<1>4. u.dims = [view.dims EXCEPT ![1] = d] /\ u.base = view.base + m * Top.stride
    BY <1>1, <1>3, TopSpanned DEF View
<1>5. SameRest(u, view) /\ u.dims[1] = d
    BY <1>2, <1>4, TopIs, OtherTop
<1>6. PartOf(u, view, Valid[1], m, n)
    <2>1. d.stride = Top.stride /\ d.offset = Top.offset /\ d.nelems = Top.stride * n
        BY <1>2 DEF DimensionOf
    <2>2. n = 0 => Top.stride * n = 0
        BY TopSpanned
    <2>3. m + n <= Size(Top)
        BY TopIs
    <2>4. m \in Int /\ 0 <= m /\ (Top.nelems # 0 => Top.offset = Top.stride * Valid[1])
        BY TopSpanned
    <2>5. QED
        BY ONLY <1>1, <1>4, <1>5, <2>1, <2>2, <2>3, <2>4, n \in Nat, IInv, TopIs DEF PartOf
<1>7. Valid[1] = 0
    <2>1. CASE Top.nelems = 0
        BY <2>1, TopSpanned
    <2>2. CASE Top.nelems # 0
        <3>1. Top.stride \in Int /\ Top.stride # 0 /\ Valid[1] \in Int /\ Top.stride * Valid[1] = 0
            BY <2>2, TopIs, TopSpanned
        <3>2. QED
            BY ONLY <3>1
    <2>3. QED
        BY <2>1, <2>2
<1>8. QED
    BY <1>5, <1>6, <1>7

\* The rows without the first n.
LEMMA DroppedMaps ==
    ASSUME IInv, NEW n \in 0 .. Size(Top), Dropped(n)
    PROVE  Maps!Dropped(n)
<1>1. n \in Nat /\ n <= Size(Top) /\ Top.offset = 0
    BY TopIs DEF Dropped
<1> PICK u \in RegularViews : u = Drop(view, n)
    BY <1>1, DropParts
<1>2. SameRest(u, view) /\ PartOf(u, view, Valid[1], n, Size(Top) - n)
    BY <1>1, DropParts
<1>3. Valid[1] + (Size(Top) - n) = Valid[1] + Size(Top) - n
    BY TopIs
<1>4. NamesRows(<<"dropped", n>>, Maps!Bounds(Valid[1], Valid[1] + (Size(Top) - n)), Valid[1], n)
    <2>1. Becomes(u, <<"dropped", n>>)
        BY DEF Dropped
    <2>2. QED
        BY ONLY IInv, u \in RegularViews, <1>2, <2>1, PartBecomes
<1> PICK x : x = Maps!Bounds(Valid[1], Valid[1] + (Size(Top) - n))
    OBVIOUS
<1>5. Elem' = [i \in Maps!Box(Maps!WithLeading(x)) |-> Elem[Maps!Lead(i[1] + n, i)]]
    <2>1. ASSUME NEW i \in Maps!Box(Maps!WithLeading(x)) PROVE <<i[1] - Valid[1] + Valid[1] + n>> \o Tail(i) = Maps!Lead(i[1] + n, i)
        <3>1. i[1] \in Int /\ <<i[1]>> \o Tail(i) = i
            BY ONLY <1>4, <2>1, x = Maps!Bounds(Valid[1], Valid[1] + (Size(Top) - n)) DEF NamesRows
        <3>2. i[1] - Valid[1] + Valid[1] + n = i[1] + n
            BY <3>1, TopIs
        <3>3. QED
            BY ONLY <3>1, <3>2 DEF Maps!Lead
    <2>2. QED
        BY ONLY <1>4, <2>1, x = Maps!Bounds(Valid[1], Valid[1] + (Size(Top) - n)) DEF NamesRows
<1>6. QED
    BY <1>3, <1>4, <1>5, TopIs DEF NamesRows, Maps!Dropped, Maps!Becomes, Elem

\* What every range of rows has.
LEMMA RowsOfRange ==
    ASSUME IInv, NEW y \in Subranges(Valid)
    PROVE  /\ y[1] \in Int /\ y[2] \in Int /\ y[1] <= y[2] /\ (Top.nelems = 0 => y[1] = y[2])
           /\ Valid[1] <= y[1] /\ y[2] <= Valid[2]
<1>1. y[1] \in Valid[1] .. Valid[2] /\ y[2] \in Valid[1] .. Valid[2]
    BY DEF Subranges
<1>2. Top \in Regular /\ Valid = Extension(Top)
    BY TopIs
<1>3. y[1] \in Int /\ y[2] \in Int /\ y[1] <= y[2] /\ (Top.nelems = 0 => y[1] = y[2])
    BY ONLY <1>2, y \in Subranges(Valid), SubrangeOf
<1>4. QED
    BY <1>1, <1>3, TopIs

LEMMA SliceParts ==
    ASSUME IInv, NEW a \in Int, NEW b \in Int, a <= b, Top.nelems = 0 => a = b, Valid[1] <= a, b <= Valid[2]
    PROVE  /\ Slice(view, a, b) \in RegularViews /\ SameRest(Slice(view, a, b), view)
           /\ PartOf(Slice(view, a, b), view, Valid[1], a - Valid[1], b - a)
<1> PICK u \in RegularViews : u = Slice(view, a, b)
    BY TopIs, SliceView
<1> PICK f \in Int, n \in Nat, m \in Int : f = Valid[1] /\ n = b - a /\ m = a - f
    BY TopIs
<1>1. /\ Len(u.dims) = Len(view.dims)
      /\ u.dims[1] = DimensionOf(Top.stride, Top.offset, Top.stride * n)
      /\ \A k \in 1 .. Len(view.dims) : k # 1 => u.dims[k] = view.dims[k]
    BY TopIs, SliceView, SMTT(30)
<1>2. u.base = view.base + (a * Top.stride - Top.offset)
    BY DEF Slice, View, Top
<1>3. u.dims[1].stride = Top.stride /\ u.dims[1].offset = Top.offset /\ u.dims[1].nelems = Top.stride * n
    BY ONLY <1>1 DEF DimensionOf
<1>4. Top.nelems = 0 => u.dims[1].nelems = 0 /\ n = 0
    <2>1. Top.nelems = 0 => n = 0
        BY ONLY n = b - a, a \in Int, b \in Int, Top.nelems = 0 => a = b
    <2>2. Top.stride \in Int
        BY TopSpanned
    <2>3. QED
        BY ONLY <1>3, <2>1, <2>2
<1>5. ASSUME Top.nelems # 0
      PROVE  /\ Top.offset = Top.stride * f /\ u.base = view.base + m * Top.stride
             /\ 0 <= m /\ m + n <= Size(Top)
    <2>1. /\ Top.stride \in Int /\ view.base \in Int /\ Top.offset = Top.stride * f
          /\ Valid[2] = f + Size(Top) /\ Size(Top) \in Nat
        BY <1>5, TopIs, TopSpanned
    <2> PICK s \in Int : s = Top.stride
        BY <2>1
    <2>2. a * s - s * f = m * s
        BY ONLY m = a - f, a \in Int, f \in Int, s \in Int
    <2>3. 0 <= m /\ m + n <= Size(Top)
        BY ONLY <2>1, m = a - f, n = b - a, f = Valid[1], Valid[1] <= a, b <= Valid[2], a \in Int, b \in Int, f \in Int
    <2>4. QED
        BY ONLY <1>2, <2>1, <2>2, <2>3, s = Top.stride
<1>6. SameRest(u, view)
    BY ONLY <1>1 DEF SameRest
<1>7. PartOf(u, view, f, m, n)
    BY ONLY <1>3, <1>4, <1>5, IInv, TopIs, f \in Int, m \in Int, n \in Nat DEF PartOf
<1>8. QED
    BY ONLY <1>6, <1>7, u \in RegularViews, u = Slice(view, a, b), f = Valid[1], n = b - a, m = a - f

\* The rows of a range.
LEMMA SlicedMaps ==
    ASSUME IInv, NEW y \in Subranges(Valid), Sliced(y[1], y[2])
    PROVE  Maps!Sliced(y[1], y[2])
<1> PICK a \in Int, b \in Int : a = y[1] /\ b = y[2]
    BY RowsOfRange
<1>1. a <= b /\ (Top.nelems = 0 => a = b) /\ Valid[1] <= a /\ b <= Valid[2]
    BY RowsOfRange
<1> PICK u \in RegularViews : u = Slice(view, a, b)
    BY <1>1, SliceParts
<1>2. SameRest(u, view) /\ PartOf(u, view, Valid[1], a - Valid[1], b - a)
    BY <1>1, SliceParts
<1>3. Valid[1] + (b - a) = Valid[1] + b - a
    BY TopIs
<1>4. NamesRows(<<"sliced", a, b>>, Maps!Bounds(Valid[1], Valid[1] + (b - a)), Valid[1], a - Valid[1])
    <2>1. Becomes(u, <<"sliced", a, b>>)
        BY DEF Sliced
    <2>2. QED
        BY ONLY IInv, u \in RegularViews, <1>2, <2>1, PartBecomes
<1> PICK x : x = Maps!Bounds(Valid[1], Valid[1] + (b - a))
    OBVIOUS
<1>5. Elem' = [i \in Maps!Box(Maps!WithLeading(x)) |-> Elem[Maps!Lead(i[1] - Maps!first + a, i)]]
    <2>1. ASSUME NEW i \in Maps!Box(Maps!WithLeading(x))
          PROVE  <<i[1] - Valid[1] + Valid[1] + (a - Valid[1])>> \o Tail(i) = Maps!Lead(i[1] - Maps!first + a, i)
        <3>1. i[1] \in Int
            BY ONLY <1>4, <2>1, x = Maps!Bounds(Valid[1], Valid[1] + (b - a)) DEF NamesRows
        <3>2. i[1] - Valid[1] + Valid[1] + (a - Valid[1]) = i[1] - Maps!first + a
            BY <3>1, TopIs
        <3>3. QED
            BY ONLY <3>2 DEF Maps!Lead
    <2>2. QED
        BY ONLY <1>4, <2>1, x = Maps!Bounds(Valid[1], Valid[1] + (b - a)) DEF NamesRows
<1>6. Maps!Sliced(a, b)
    BY <1>3, <1>4, <1>5, TopIs DEF NamesRows, Maps!Sliced, Maps!Becomes, Elem
<1>7. QED
    BY ONLY <1>6, a = y[1], b = y[2]

LEMMA BlockParts ==
    ASSUME IInv, NEW a \in Int, NEW b \in Int, a <= b, Top.nelems = 0 => a = b, Valid[1] <= a, b <= Valid[2]
    PROVE  /\ Block(view, a, b) \in RegularViews /\ SameRest(Block(view, a, b), view)
           /\ PartOf(Block(view, a, b), view, a, a - Valid[1], b - a)
<1> PICK w \in RegularViews : w = Slice(view, a, b)
    BY SliceParts
<1>1. SameRest(w, view) /\ PartOf(w, view, Valid[1], a - Valid[1], b - a)
    BY SliceParts
<1> PICK t \in Regular : t = w.dims[1]
    BY ViewParts
<1> PICK d : d = [t EXCEPT !.offset = a * t.stride]
    OBVIOUS
<1>2. d = DimensionOf(t.stride, a * t.stride, t.nelems) /\ d \in Regular
    BY Offset
<1> PICK u \in RegularViews : u = Block(view, a, b)
    BY TopIs, BlockView
<1>3. u.base = w.base /\ u.dims = [w.dims EXCEPT ![1] = d]
    <2>1. Reindex(w.dims, a) = [w.dims EXCEPT ![1] = d]
        BY DEF Reindex
    <2>2. Reindex(w.dims, a) \in Seq(Regular) /\ Reindex(w.dims, a) # <<>>
        BY ViewParts, ReindexRegular
    <2>3. u = View(Reindex(w.dims, a), w.base)
        BY <2>2, DimsReplaced DEF Block
    <2>4. QED
        BY ONLY <2>1, <2>3 DEF View
<1>4. SameRest(u, w) /\ u.dims[1] = d
    <2>1. d \in Regular
        BY <1>2
    <2>2. u.dims = [w.dims EXCEPT ![1] = d]
        BY <1>3
    <2>3. w \in RegularViews
        OBVIOUS
    <2>4. SameRest(u, w) /\ u.dims[1] = d
        BY <2>1, <2>2, <2>3, OtherTop
    <2>5. QED
        BY ONLY <2>4
<1>5. SameRest(u, view)
    BY <1>1, <1>4 DEF SameRest
<1>6. u.dims[1].stride = t.stride /\ u.dims[1].offset = a * t.stride /\ u.dims[1].nelems = t.nelems
    BY ONLY <1>2, <1>4 DEF DimensionOf
<1>7. t.stride \in Int /\ a * t.stride = t.stride * a
    BY RegularParts
<1>8. PartOf(u, view, a, a - Valid[1], b - a)
    BY ONLY <1>1, <1>3, <1>6, <1>7, t = w.dims[1], a \in Int DEF PartOf
<1>9. QED
    BY <1>5, <1>8

\* The rows of a block.
LEMMA BlockedMaps ==
    ASSUME IInv, NEW y \in Subranges(Valid), Blocked(y[1], y[2])
    PROVE  Maps!Blocked(y[1], y[2])
<1> PICK a \in Int, b \in Int : a = y[1] /\ b = y[2]
    BY RowsOfRange
<1>1. a <= b /\ (Top.nelems = 0 => a = b) /\ Valid[1] <= a /\ b <= Valid[2]
    BY RowsOfRange
<1> PICK u \in RegularViews : u = Block(view, a, b)
    BY <1>1, BlockParts
<1>2. SameRest(u, view) /\ PartOf(u, view, a, a - Valid[1], b - a)
    BY <1>1, BlockParts
<1>3. a + (b - a) = b
    OBVIOUS
<1>4. NamesRows(<<"blocked", a, b>>, Maps!Bounds(a, a + (b - a)), a, a - Valid[1])
    <2>1. Becomes(u, <<"blocked", a, b>>)
        BY DEF Blocked
    <2>2. QED
        BY ONLY IInv, u \in RegularViews, <1>2, <2>1, PartBecomes
<1> PICK x : x = Maps!Bounds(a, b)
    OBVIOUS
<1>5. Elem' = [i \in Maps!Box(Maps!WithLeading(x)) |-> Elem[i]]
    <2>1. ASSUME NEW i \in Maps!Box(Maps!WithLeading(x)) PROVE <<i[1] - a + Valid[1] + (a - Valid[1])>> \o Tail(i) = i
        <3>1. i[1] \in Int /\ <<i[1]>> \o Tail(i) = i
            BY ONLY <1>3, <1>4, <2>1, x = Maps!Bounds(a, b) DEF NamesRows
        <3>2. i[1] - a + Valid[1] + (a - Valid[1]) = i[1]
            BY <3>1, TopIs
        <3>3. QED
            BY ONLY <3>1, <3>2
    <2>2. QED
        BY ONLY <1>3, <1>4, <2>1, x = Maps!Bounds(a, b) DEF NamesRows
<1>6. Maps!Blocked(a, b)
    BY <1>3, <1>4, <1>5, TopIs DEF NamesRows, Maps!Blocked, Maps!Becomes, Elem
<1>7. QED
    BY ONLY <1>6, a = y[1], b = y[2]

\* The chunks in one number.
LEMMA ChunksAre ==
    ASSUME IInv, NEW n \in 1 .. Size(Top)
    PROVE  /\ n \in Nat \ {0} /\ n <= Size(Top) /\ Size(Top) % n \in Nat
           /\ Chunks(n) = Size(Top) - (Size(Top) % n) /\ Chunks(n) \in Nat /\ Chunks(n) <= Size(Top)
           /\ Chunks(n) = n * (Size(Top) \div n) /\ Size(Top) \div n \in Nat
<1>1. n \in Nat \ {0} /\ n <= Size(Top) /\ Size(Top) \in Nat
    BY TopIs
<1>2. Quotient(Size(Top), n) = Size(Top) \div n /\ Remainder(Size(Top), n) = Size(Top) % n /\ Size(Top) % n \in 0 .. n - 1
    BY <1>1, QuotientOfNat
<1>3. Size(Top) % n \in Nat
    BY <1>1, <1>2
<1>4. QED
    BY <1>1, <1>2, <1>3, ChunksOf DEF Chunks

\* The rows that the tiles leave over.
LEMMA TiledRemainderMaps ==
    ASSUME IInv, NEW n \in 1 .. Size(Top), TiledRemainder(n)
    PROVE  Maps!TiledRemainder(n)
<1>1. Top.offset = 0
    BY DEF TiledRemainder
<1> PICK z \in Nat, r \in Nat, c \in Nat : z = Size(Top) /\ r = Size(Top) % n /\ c = Chunks(n) /\ c <= z /\ c = z - r
    BY TopIs, ChunksAre
<1>2. n \in Nat \ {0} /\ n <= z
    BY ChunksAre
<1> PICK u \in RegularViews : u = Drop(view, c)
    BY <1>1, DropParts
<1>3. SameRest(u, view) /\ PartOf(u, view, Valid[1], c, z - c)
    BY <1>1, DropParts
<1>4. z - c = r /\ c = z - r
    OBVIOUS
<1>5. NamesRows(<<"remainder", n>>, Maps!Bounds(Valid[1], Valid[1] + r), Valid[1], c)
    <2>1. Becomes(u, <<"remainder", n>>)
        BY DEF TiledRemainder
    <2>2. PartOf(u, view, Valid[1], c, r)
        BY ONLY <1>3, <1>4
    <2>3. QED
        BY ONLY IInv, u \in RegularViews, <1>3, <2>1, <2>2, PartBecomes
<1> PICK x : x = Maps!Bounds(Valid[1], Valid[1] + r)
    OBVIOUS
<1>6. Elem' = [i \in Maps!Box(Maps!WithLeading(x)) |-> Elem[Maps!Lead(i[1] + Maps!size - (Maps!size % n), i)]]
    <2>1. ASSUME NEW i \in Maps!Box(Maps!WithLeading(x))
          PROVE  <<i[1] - Valid[1] + Valid[1] + c>> \o Tail(i) = Maps!Lead(i[1] + Maps!size - (Maps!size % n), i)
        <3>1. i[1] \in Int
            BY ONLY <1>5, <2>1, x = Maps!Bounds(Valid[1], Valid[1] + r) DEF NamesRows
        <3>2. i[1] - Valid[1] + Valid[1] + c = i[1] + z - r
            BY <1>4, <3>1, TopIs
        <3>3. Maps!size = z /\ Maps!size % n = r
            BY TopIs
        <3>4. QED
            BY ONLY <3>2, <3>3 DEF Maps!Lead
    <2>2. QED
        BY ONLY <1>5, <2>1, x = Maps!Bounds(Valid[1], Valid[1] + r) DEF NamesRows
<1>7. QED
    BY <1>2, <1>5, <1>6, TopIs, SMTT(30) DEF NamesRows, Maps!TiledRemainder, Maps!Becomes, Elem

\* The one row, as often as one likes.
LEMMA BroadcastedMaps ==
    ASSUME IInv, NEW j \in Int, Broadcasted(j)
    PROVE  Maps!Broadcasted(j)
<1>1. Broadcast(view, j) = view
    BY TopIs, BroadcastRow
<1>2. Becomes(view, <<"broadcasted", j>>)
    BY <1>1 DEF Broadcasted
<1>3. view' = view /\ call' = <<"broadcasted", j>> /\ width' = width /\ origin' = origin
    BY <1>2 DEF Becomes
<1>4. Valids' = Valids /\ Extensions(view.dims)' = Extensions(view.dims)
    BY <1>3 DEF Valids
<1>5. Elem' = Elem
    BY <1>3, <1>4 DEF Elem
<1>6. Maps!Box(Extensions(view.dims)) = Valids
    BY ViewParts, BoxIsIndices DEF Valids, IInv
<1>7. Elem = [i \in Valids |-> Elem[i]]
    BY DEF Elem
<1>8. QED
    BY <1>3, <1>4, <1>5, <1>6, <1>7 DEF Maps!Broadcasted, Maps!Becomes, Elem

\* The rows between two iterators.
LEMMA FromIteratorsMaps ==
    ASSUME IInv, NEW y \in Subranges(<<0, Size(Top)>>), FromIterators(y[1], y[2])
    PROVE  Maps!FromIterators(y[1], y[2])
<1> PICK v \in RegularViews : v = view
    BY TopIs
<1> PICK z \in Nat, s \in Int : z = Size(Top) /\ s = Top.stride
    BY TopIs, TopSpanned
<1>1. z = Size(Top) /\ s = Top.stride
    OBVIOUS
<1>2. y[1] \in 0 .. z /\ y[2] \in 0 .. z /\ y[1] <= y[2]
    BY DEF Subranges
<1> PICK a \in Nat, b \in Nat, k \in Nat : a = y[1] /\ b = y[2] /\ a <= b /\ b <= z /\ k = b - a
    <2>1. y[1] \in Nat /\ y[2] \in Nat /\ y[2] - y[1] \in Nat /\ y[2] <= z
        BY <1>2
    <2>2. QED
        BY <1>2, <2>1
<1>3. a = y[1] /\ b = y[2] /\ b <= z /\ k = b - a
    OBVIOUS
<1>4. D > 1 /\ Size(view.dims[2]) = s
    BY DEF FromIterators
<1> PICK d : d = DimensionOf(s, 0, k * s)
    OBVIOUS
<1>5. d \in Regular
    <2>1. k * s = s * k
        OBVIOUS
    <2>2. QED
        BY <2>1, ZeroOffset
<1> PICK ds \in Seq(Regular) : ds = view.dims /\ ds # <<>> /\ Len(ds) > 1
    BY <1>4, TopIs, ViewParts DEF D
<1>6. Tail(ds) \in Seq(Regular) /\ Len(Tail(ds)) = Len(ds) - 1 /\ \A m \in 1 .. Len(ds) - 1 : Tail(ds)[m] = ds[m + 1]
    BY TailRegular
<1> PICK e : e = <<d>> \o Tail(ds)
    OBVIOUS
<1>7. /\ e \in Seq(Regular) /\ Len(e) = Len(ds) /\ e[1] = d
      /\ \A m \in 1 .. Len(ds) - 1 : e[m + 1] = Tail(ds)[m]
    <2>1. /\ e \in Seq(Regular) /\ Len(e) = Len(Tail(ds)) + 1 /\ e[1] = d
          /\ \A m \in 1 .. Len(Tail(ds)) : e[m + 1] = Tail(ds)[m]
        BY ONLY <1>5, <1>6, e = <<d>> \o Tail(ds), OneThen
    <2>2. QED
        BY <1>6, <2>1
<1>8. ASSUME NEW m \in 1 .. Len(ds), m # 1 PROVE e[m] = ds[m]
    <2>1. m - 1 \in 1 .. Len(ds) - 1 /\ (m - 1) + 1 = m
        BY <1>8
    <2>2. e[(m - 1) + 1] = ds[(m - 1) + 1]
        BY ONLY <1>6, <1>7, <2>1
    <2>3. QED
        BY ONLY <2>1, <2>2
<1>9. view.base \in Int
    BY ONLY IInv, TopIs, ViewParts
<1>10. PICK c \in Int : c = view.base + a * s
    BY ONLY <1>9, a \in Nat, s \in Int
<1>11. PICK u \in RegularViews : u = View(e, c) /\ u.dims = e /\ u.base = c
    <2>1. e # <<>> /\ e \in Seq(Regular)
        BY <1>7
    <2>2. QED
        BY ONLY <2>1, c \in Int, MadeView
<1>12. SameRest(u, view)
    BY ONLY <1>7, <1>8, <1>11, ds = view.dims DEF SameRest
<1>13. PartOf(u, view, 0, a, k)
    <2>1. u.dims[1].stride = s /\ u.dims[1].offset = 0 /\ u.dims[1].nelems = k * s
        <3>1. u.dims[1] = d
            BY ONLY <1>7, <1>11
        <3>2. QED
            BY ONLY <3>1, d = DimensionOf(s, 0, k * s) DEF DimensionOf
    <2>2. k * s = s * k /\ s * 0 = 0 /\ a + k = b /\ 0 \in Int /\ a \in Int /\ 0 <= a
        BY ONLY <1>3, a \in Nat, b \in Nat, s \in Int, k \in Nat, SMTT(30)
    <2>3. Top.nelems = 0 => k = 0 /\ k * s = 0
        <3>1. Top.nelems = 0 => z = 0
            BY TopSpanned
        <3>2. QED
            BY <3>1, SMTT(30)
    <2>4. QED
        BY ONLY <1>10, <1>1, <1>3, <1>11, <2>1, <2>2, <2>3, TopIs, IInv, k \in Nat DEF PartOf
<1>14. NamesRows(<<"iterators", a, b>>, Maps!Bounds(0, 0 + k), 0, a)
    <2>1. u = View(<<DimensionOf(Top.stride, 0, (b - a) * Size(view.dims[2]))>> \o Sub, view.base + a * Top.stride)
        BY ONLY <1>4, <1>10, <1>1, <1>3, <1>11, e = <<d>> \o Tail(ds), d = DimensionOf(s, 0, k * s), ds = view.dims, SMTT(30) DEF Sub
    <2>2. Becomes(u, <<"iterators", a, b>>)
        <3>1. Becomes(View(<<DimensionOf(Top.stride, 0, (b - a) * Size(view.dims[2]))>> \o Sub, view.base + a * Top.stride),
                      <<"iterators", a, b>>)
            BY ONLY FromIterators(y[1], y[2]), <1>3, Zenon DEF FromIterators
        <3>2. QED
            BY ONLY <2>1, <3>1, Zenon
    <2>3. QED
        BY ONLY IInv, u \in RegularViews, <1>12, <1>13, <2>2, PartBecomes
<1>15. 0 + k = b - a
    BY ONLY <1>3, k \in Nat
<1> PICK x : x = Maps!Bounds(0, 0 + k)
    OBVIOUS
<1>16. Elem' = [i \in Maps!Box(Maps!WithLeading(x)) |-> Elem[Maps!Lead(i[1] + Maps!first + a, i)]]
    <2>1. ASSUME NEW i \in Maps!Box(Maps!WithLeading(x))
          PROVE  <<i[1] - 0 + Valid[1] + a>> \o Tail(i) = Maps!Lead(i[1] + Maps!first + a, i)
        <3>1. i[1] \in Int
            BY ONLY <1>14, <2>1, x = Maps!Bounds(0, 0 + k) DEF NamesRows
        <3>2. i[1] - 0 + Valid[1] + a = i[1] + Maps!first + a
            BY <3>1, TopIs
        <3>3. QED
            BY ONLY <3>2 DEF Maps!Lead
    <2>2. QED
        BY ONLY <1>14, <2>1, x = Maps!Bounds(0, 0 + k) DEF NamesRows
<1>17. Maps!FromIterators(a, b)
    BY <1>14, <1>15, <1>16, TopIs DEF NamesRows, Maps!FromIterators, Maps!Becomes, Elem
<1>18. QED
    BY ONLY <1>3, <1>17

--------------------------------------------------------------------------------
(* Every s-th row, and rows backwards.                                        *)

\* Rows that are moved one by one: the extensions and the elements.
LEMMA StridedMoves ==
    ASSUME IInv, NEW s \in Nat \ {0}, Strided(s), NEW u \in RegularViews, u = Stride(view, s)
    PROVE  /\ SameRest(u, view)
           /\ Maps!size % s = 0 /\ Maps!first % s = 0
           /\ Extension(u.dims[1]) = Maps!Bounds(Maps!first \div s, Maps!last \div s)
           /\ MovesLead(u, view, [j \in Int |-> j * s])
<1> PICK v \in RegularViews, t \in Int : v = view /\ t = Top.stride
    BY TopIs, TopSpanned
<1>0. Top \in Regular /\ Top = v.dims[1] /\ s \in Int /\ s # 0 /\ s > 0
    BY TopIs
<1> PICK d : d = [Top EXCEPT !.stride = Top.stride * s]
    OBVIOUS
<1>1. d.stride = t * s /\ d.offset = Top.offset /\ d.nelems = Top.nelems
    <2>1. Top = DimensionOf(Top.stride, Top.offset, Top.nelems)
        BY <1>0, RegularParts
    <2>2. d = DimensionOf(t * s, Top.offset, Top.nelems)
        BY ONLY <2>1, d = [Top EXCEPT !.stride = Top.stride * s], t = Top.stride DEF DimensionOf
    <2>3. QED
        BY ONLY <2>2 DEF DimensionOf
<1>2. u.base = v.base /\ u.dims = [v.dims EXCEPT ![1] = d]
    <2>1. v = View(v.dims, v.base)
        BY ViewParts
    <2>2. v = [base |-> v.base, dims |-> v.dims]
        BY ONLY <2>1 DEF View
    <2> PICK ds, b : ds = v.dims /\ b = v.base
        OBVIOUS
    <2> PICK e : e = [ds EXCEPT ![1] = d]
        OBVIOUS
    <2>3. v = [base |-> b, dims |-> ds]
        BY ONLY <2>2, ds = v.dims, b = v.base
    <2>4. [v EXCEPT !.dims[1] = d] = [base |-> b, dims |-> e]
        BY ONLY <2>3, e = [ds EXCEPT ![1] = d]
    <2>5. u = [v EXCEPT !.dims[1] = d]
        BY ONLY u = Stride(view, s), v = view, d = [Top EXCEPT !.stride = Top.stride * s] DEF Stride, WithTop, Top
    <2>6. QED
        BY ONLY <2>4, <2>5, e = [ds EXCEPT ![1] = d], ds = v.dims, b = v.base
<1>3. SameRest(u, view) /\ u.dims[1] = d
    <2> PICK a \in Seq(Regular) : a = v.dims /\ a # <<>>
        BY ViewParts
    <2> PICK e : e = [a EXCEPT ![1] = d]
        OBVIOUS
    <2>1. Len(e) = Len(a) /\ e[1] = d /\ \A k \in 1 .. Len(a) : k # 1 => e[k] = a[k]
        BY ONLY a \in Seq(Regular), a # <<>>, e = [a EXCEPT ![1] = d]
    <2>2. QED
        BY ONLY <1>2, <2>1, a = v.dims, e = [a EXCEPT ![1] = d], v = view DEF SameRest
<1>4. Remainder(Top.nelems, s * t) = 0 /\ Remainder(Top.offset, s * t) = 0
    BY DEF Strided
<1>5. CASE Top.nelems = 0
    <2>1. Maps!size = 0 /\ Maps!first = 0 /\ Maps!last = 0
        BY <1>5, TopIs, TopSpanned
    <2>2. 0 \div s = 0 /\ 0 % s = 0
        <3>1. (s * 0) \div s = 0 /\ (s * 0) % s = 0
            BY <1>0, RemainderOfMultiple
        <3>2. s * 0 = 0
            BY <1>0
        <3>3. QED
            BY ONLY <3>1, <3>2
    <2>3. Extension(d) = <<0, 0>> /\ \A j : ~InDimension(j, d)
        BY <1>1, <1>5, EmptyDimension
    <2>4. QED
        BY <1>3, <2>1, <2>2, <2>3 DEF Maps!Bounds, MovesLead
<1>6. CASE Top.nelems # 0
    <2>1. PICK tt, f, n : Spanned(v.dims[1], tt, f, n)
        BY <1>0, <1>6, DimensionCases
    <2>2. /\ tt = t /\ t # 0 /\ f \in Int /\ n \in Nat /\ n # 0 /\ v.dims[1].offset = t * f /\ v.dims[1].nelems = t * n
          /\ Extension(v.dims[1]) = <<f, f + n>> /\ Size(v.dims[1]) = n
        BY <1>0, <2>1 DEF Spanned
    <2>3. PICK g \in Int : f = s * g
        BY <1>0, <1>4, <2>2, StridedFactor
    <2>4. PICK m \in Int : n = s * m
        BY <1>0, <1>4, <2>2, StridedFactor
    <2>5. m \in Nat /\ m # 0
        BY ONLY <1>0, <2>2, <2>4, m \in Int
    <2> PICK r \in Int : r = t * s /\ r # 0
        <3>1. t * s # 0 /\ t * s \in Int
            BY ONLY <1>0, <2>2, t \in Int
        <3>2. QED
            BY ONLY <3>1
    <2>13. Spanned(v.dims[1], t, f, n)
        BY ONLY <2>1, <2>2
    <2>6. Spanned(u.dims[1], r, g, m)
        <3>1. (t * s) * g = t * (s * g) /\ (t * s) * m = t * (s * m)
            BY ONLY t \in Int, s \in Int, g \in Int, m \in Int, <1>0
        <3>2. u.dims[1].stride = r /\ u.dims[1].offset = r * g /\ u.dims[1].nelems = r * m
            BY ONLY <1>0, <1>1, <1>3, <2>2, <2>3, <2>4, <3>1, r = t * s
        <3>3. QED
            BY ONLY <2>5, <3>2, r \in Int, r # 0, g \in Int, MadeSpanned
    <2>7. Maps!size = n /\ Maps!first = f /\ Maps!last = f + n
        BY <1>0, <2>2, TopIs
    <2>8. f \div s = g /\ f % s = 0 /\ (f + n) \div s = g + m /\ n % s = 0
        <3>1. f + n = s * (g + m) /\ g + m \in Int
            BY ONLY <1>0, <2>3, <2>4, g \in Int, m \in Int
        <3>2. QED
            BY ONLY <1>0, <2>3, <2>4, <3>1, g \in Int, m \in Int, RemainderOfMultiple
    <2>9. Extension(u.dims[1]) = <<g, g + m>> /\ g # g + m
        BY <2>5, <2>6 DEF Spanned
    <2>10. ASSUME NEW j, InDimension(j, u.dims[1])
           PROVE  InDimension(j * s, v.dims[1]) /\ PlaceAt(u, j) = PlaceAt(v, j * s) /\ j \in Int
        <3>1. j \in Int /\ g <= j /\ j <= g + m - 1
            BY <2>5, <2>9, <2>10 DEF InDimension
        <3> PICK h \in Int : h = j * s
            BY <1>0, <3>1
        <3>2. f <= h /\ h <= f + n - 1
            <4>1. s * g <= s * j /\ s * j <= s * (g + m - 1)
                BY ONLY <1>0, <3>1, g \in Int, m \in Int
            <4>2. s * (g + m - 1) = f + n - s
                BY ONLY <1>0, <2>3, <2>4, g \in Int, m \in Int
            <4>3. s * j = h
                BY ONLY <1>0, <3>1, h = j * s
            <4>4. QED
                BY ONLY <1>0, <2>2, <2>3, <4>1, <4>2, <4>3, h \in Int
        <3>3. InDimension(h, v.dims[1])
            BY ONLY <2>2, <3>2, h \in Int DEF InDimension
        <3>4. PlaceAt(u, j) = u.base + (j - g) * r
            BY ONLY <2>6, <3>1, u \in RegularViews, PlaceSpanned
        <3>5. PlaceAt(v, h) = v.base + (h - f) * t
            BY ONLY <2>13, v \in RegularViews, h \in Int, PlaceSpanned
        <3>6. (j - g) * r = (h - f) * t
            BY ONLY <1>0, <2>3, <3>1, r = t * s, h = j * s, g \in Int, t \in Int
        <3>7. QED
            BY ONLY <1>2, <3>1, <3>3, <3>4, <3>5, <3>6, h = j * s
    <2>11. MovesLead(u, view, [j \in Int |-> j * s])
        BY <2>10 DEF MovesLead
    <2>12. QED
        BY <1>3, <2>7, <2>8, <2>9, <2>11 DEF Maps!Bounds
<1>7. QED
    BY <1>5, <1>6

\* Every s-th row.
LEMMA StridedMaps ==
    ASSUME IInv, NEW s \in Steps, Strided(s)
    PROVE  Maps!Strided(s)
<1>1. s \in Nat \ {0}
    BY ViewsAssumption
<1> PICK u \in RegularViews : u = Stride(view, s)
    BY StrideOfSteps
<1> PICK x, G : x = Maps!Bounds(Maps!first \div s, Maps!last \div s) /\ G = [j \in Int |-> j * s]
    OBVIOUS
<1>2. SameRest(u, view) /\ Maps!size % s = 0 /\ Maps!first % s = 0 /\ Extension(u.dims[1]) = x /\ MovesLead(u, view, G)
    BY <1>1, StridedMoves
<1>3. Becomes(u, <<"strided", s>>)
    BY DEF Strided
<1>4. /\ call' = <<"strided", s>> /\ width' = width /\ Extensions(view.dims)' = Maps!WithLeading(x)
      /\ Elem' = [i \in Maps!Box(Maps!WithLeading(x)) |-> Elem[<<G[i[1]]>> \o Tail(i)]]
      /\ \A i \in Maps!Box(Maps!WithLeading(x)) : i[1] \in Int
    <2>1. SameRest(u, view)
        BY <1>2
    <2>2. x = Extension(u.dims[1])
        BY <1>2
    <2>3. MovesLead(u, view, G)
        BY <1>2
    <2>4. /\ call' = <<"strided", s>> /\ width' = width /\ Extensions(view.dims)' = Maps!WithLeading(x)
          /\ Elem' = [i \in Maps!Box(Maps!WithLeading(x)) |-> Elem[<<G[i[1]]>> \o Tail(i)]]
          /\ \A i \in Maps!Box(Maps!WithLeading(x)) :
                 i \in Seq(Int) /\ Len(i) = D /\ i[1] \in Int /\ <<i[1]>> \o Tail(i) = i
        BY ONLY IInv, u \in RegularViews, <1>3, <2>1, <2>2, <2>3, LeadBecomes
    <2>5. QED
        BY ONLY <2>4
<1>5. \A i \in Maps!Box(Maps!WithLeading(x)) : <<G[i[1]]>> \o Tail(i) = Maps!Lead(i[1] * s, i)
    BY <1>4 DEF Maps!Lead
<1>6. QED
    BY <1>2, <1>4, <1>5, ZenonT(30) DEF Maps!Strided, Maps!Becomes, Elem

\* The rows of a range, from the last one down.
LEMMA SlicedDownMaps ==
    ASSUME IInv, NEW a \in Valid[1] - 1 .. Valid[2] - 1, NEW b \in Valid[1] - 1 .. Valid[2] - 1,
           b < a, SlicedDown(a, b)
    PROVE  Maps!SlicedDown(a, b)
<1> PICK v \in RegularViews, s \in Int : v = view /\ s = Top.stride
    BY TopIs, TopSpanned
<1> PICK z \in Nat : z = Size(Top)
    BY TopIs
<1>1. Top.nelems # 0 /\ s # 0 /\ Valid[1] = 0 /\ Valid[2] = z /\ a \in Int /\ b \in Int
    <2>1. Valid[1] \in Int /\ Valid[2] \in Int
        BY TopIs
    <2>2. Top.nelems # 0
        BY <2>1, TopSpanned
    <2>3. Top.offset = s * Valid[1] /\ s # 0 /\ Valid[2] = Valid[1] + z /\ Top.offset = 0
        BY <2>2, TopSpanned DEF SlicedDown
    <2>4. Valid[1] = 0
        <3> PICK f \in Int : f = Valid[1]
            BY <2>1
        <3>1. s * f = 0 /\ s # 0
            BY <2>3
        <3>2. f = 0
            BY ONLY <3>1, s \in Int, f \in Int
        <3>3. QED
            BY <3>2
    <2>5. QED
        BY <2>1, <2>2, <2>3, <2>4
<1>2. -1 <= b /\ b < a /\ a <= z - 1
    BY ONLY <1>1, a \in Valid[1] - 1 .. Valid[2] - 1, b \in Valid[1] - 1 .. Valid[2] - 1, b < a, z \in Nat
<1> PICK t \in Int : t = s * (-1)
    OBVIOUS
<1> PICK n \in Nat : n = a - b
    BY <1>1, <1>2
<1> PICK u \in RegularViews :
       /\ u = Stride(Slice(view, a, b), -1) /\ Len(u.dims) = Len(view.dims)
       /\ u.base = Slice(view, a, b).base
       /\ u.dims[1] = DimensionOf(Top.stride * (-1), Top.offset, Top.stride * (b - a))
       /\ \A k \in 1 .. Len(view.dims) : k # 1 => u.dims[k] = view.dims[k]
    BY SlicedDownView
<1>3. SameRest(u, view)
    BY DEF SameRest
<1>4. u.base = v.base + a * s
    <2>1. u.base = view.base + (a * s - 0)
        BY DEF Slice, View, SlicedDown, Top
    <2>2. v.base \in Int
        BY ViewParts
    <2>3. QED
        BY <1>1, <2>1, <2>2, SMTT(30)
<1>5. Spanned(u.dims[1], t, 0, n)
    <2>1. u.dims[1].stride = t /\ u.dims[1].offset = 0 /\ u.dims[1].nelems = s * (b - a)
        <3>1. Top.offset = 0
            BY DEF SlicedDown
        <3>2. u.dims[1] = DimensionOf(t, 0, s * (b - a))
            BY <3>1
        <3>3. QED
            BY ONLY <3>2 DEF DimensionOf
    <2>2. s * (b - a) = t * n /\ t * 0 = 0 /\ t # 0 /\ n # 0
        BY ONLY <1>1, <1>2, s \in Int, n = a - b, t = s * (-1)
    <2>3. QED
        BY ONLY <2>1, <2>2, t \in Int, n \in Nat, 0 \in Int, MadeSpanned
<1>6. Extension(u.dims[1]) = <<0, n>> /\ Maps!Bounds(0, a - b) = <<0, n>>
    <2>1. 0 + n = n /\ n # 0
        BY ONLY <1>1, <1>2, n = a - b, n \in Nat
    <2>2. QED
        BY ONLY <1>5, <2>1, n = a - b DEF Spanned, Maps!Bounds
<1>7. Spanned(v.dims[1], s, 0, z) /\ Extension(v.dims[1]) = <<0, z>>
    <2>1. v.dims[1] = Top /\ Top \in Regular
        BY TopIs
    <2>2. PICK ss, f, m : Spanned(v.dims[1], ss, f, m)
        BY <1>1, <2>1, DimensionCases
    <2>3. ss = s /\ m = z /\ Extension(v.dims[1]) = <<f, f + m>> /\ f \in Int
        BY <2>1, <2>2 DEF Spanned
    <2>4. f = 0
        BY <1>1, <2>1, <2>3 DEF Valid
    <2>5. 0 + z = z
        OBVIOUS
    <2>6. QED
        BY ONLY <2>2, <2>3, <2>4, <2>5
<1> PICK G : G = [j \in Int |-> a - j]
    OBVIOUS
<1>8. ASSUME NEW j, InDimension(j, u.dims[1])
      PROVE  InDimension(G[j], v.dims[1]) /\ PlaceAt(u, j) = PlaceAt(v, G[j])
    <2>1. j \in Int /\ 0 <= j /\ j <= n - 1
        BY ONLY <1>6, <1>8, n \in Nat DEF InDimension
    <2> PICK h \in Int : h = a - j
        BY <1>1, <2>1
    <2>2. G[j] = h
        BY <2>1
    <2>3. h \in 0 .. z - 1
        BY ONLY <1>1, <1>2, <2>1, h = a - j, n = a - b, z \in Nat
    <2>4. InDimension(h, v.dims[1])
        BY ONLY <1>7, <2>3 DEF InDimension
    <2>5. PlaceAt(u, j) = u.base + (j - 0) * t
        BY ONLY <1>5, <2>1, u \in RegularViews, PlaceSpanned
    <2>6. PlaceAt(v, h) = v.base + (h - 0) * s
        BY ONLY <1>7, v \in RegularViews, h \in Int, PlaceSpanned
    <2>7. v.base + a * s + (j - 0) * t = v.base + (h - 0) * s
        <3>1. v.base \in Int
            BY ViewParts
        <3>2. QED
            BY ONLY <1>1, <2>1, <3>1, h = a - j, t = s * (-1), s \in Int
    <2>8. QED
        BY ONLY <1>4, <2>2, <2>4, <2>5, <2>6, <2>7
<1>9. MovesLead(u, view, G)
    BY <1>8 DEF MovesLead
<1>10. Becomes(u, <<"sliced", a, b, -1>>)
    BY DEF SlicedDown
<1> PICK x : x = Maps!Bounds(0, a - b)
    OBVIOUS
<1>11. x = Extension(u.dims[1])
    BY <1>6
<1>12. /\ call' = <<"sliced", a, b, -1>> /\ width' = width /\ Extensions(view.dims)' = Maps!WithLeading(x)
       /\ Elem' = [i \in Maps!Box(Maps!WithLeading(x)) |-> Elem[<<G[i[1]]>> \o Tail(i)]]
       /\ \A i \in Maps!Box(Maps!WithLeading(x)) :
              i \in Seq(Int) /\ Len(i) = D /\ i[1] \in Int /\ <<i[1]>> \o Tail(i) = i
    BY ONLY IInv, u \in RegularViews, <1>3, <1>9, <1>10, <1>11, LeadBecomes
<1>13. \A i \in Maps!Box(Maps!WithLeading(x)) : <<G[i[1]]>> \o Tail(i) = Maps!Lead(a - i[1], i)
    BY <1>12 DEF Maps!Lead
<1>14. Maps!first = 0
    BY <1>1, TopIs
<1>15. QED
    BY <1>12, <1>13, <1>14, ZenonT(30) DEF Maps!SlicedDown, Maps!Becomes, Elem

--------------------------------------------------------------------------------
(* Leading dimensions, one and two at a time.                                 *)

\* A view with two leading dimensions, and its extensions.
HasTwo(d, e, ds) ==
    /\ d \in Regular /\ e \in Regular /\ ds \in Seq(Regular)
    /\ d = Top /\ e = view.dims[2] /\ view.dims = LedByTwo(d, e, ds) /\ Tail(view.dims) = Led(e, ds)
    /\ view = View(LedByTwo(d, e, ds), view.base) /\ view.base \in Int
    /\ Extensions(ds) \in Seq(Int \X Int)
    /\ Extensions(view.dims) = LedByTwo(Extension(d), Extension(e), Extensions(ds))
    /\ Extensions(view.dims)[1] = Extension(d) /\ Extensions(view.dims)[2] = Extension(e)
    /\ Tail(Extensions(view.dims)) = Led(Extension(e), Extensions(ds))
    /\ SubSeq(Extensions(view.dims), 3, Maps!D) = Extensions(ds) /\ Maps!D = D
    /\ Len(ds) + 2 = D

LEMMA TopTwo ==
    ASSUME IInv, D > 1
    PROVE  \E d, e, ds : HasTwo(d, e, ds)
<1>1. PICK v \in RegularViews : v = view /\ Len(v.dims) > 1
    BY TopIs DEF D
<1>2. PICK d \in Regular, e \in Regular, ds \in Seq(Regular) :
       /\ d = v.dims[1] /\ e = v.dims[2] /\ ds = Tail(Tail(v.dims)) /\ Tail(v.dims) = Led(e, ds)
       /\ v = View(LedByTwo(d, e, ds), v.base)
    BY <1>1, ViewTwo
<1>3. v.dims = LedByTwo(d, e, ds)
    BY ONLY <1>2 DEF View
<1>4. v.base \in Int
    BY <1>1, ViewParts
<1>5. PICK P : P = Int \X Int
    OBVIOUS
<1>6. PICK x \in P : x = Extension(d)
    BY <1>5, ExtensionPair
<1>7. PICK y \in P : y = Extension(e)
    BY <1>5, ExtensionPair
<1>8. PICK z \in Seq(P) : z = Extensions(ds) /\ Len(z) = Len(ds)
    BY <1>5, ExtensionsOf
<1> PICK r : r = LedByTwo(x, y, z)
    OBVIOUS
<1> PICK n : n = Len(z) + 2
    OBVIOUS
<1>9. Len(r) = n /\ r[1] = x /\ r[2] = y /\ Tail(r) = Led(y, z) /\ SubSeq(r, 3, n) = z
    <2>1. IsLed(r, n, x, y, z)
        BY DEF IsLed
    <2>2. QED
        BY ONLY <2>1, x \in P, y \in P, z \in Seq(P), RestOfTwo
<1>10. Extensions(v.dims) = r
    <2>1. Extensions(LedByTwo(d, e, ds)) = LedByTwo(Extension(d), Extension(e), Extensions(ds))
        BY ONLY d \in Regular, e \in Regular, ds \in Seq(Regular), ExtensionsTwo
    <2>2. QED
        BY ONLY <1>3, <2>1, <1>6, <1>7, <1>8, r = LedByTwo(x, y, z)
<1>11. Len(r) = D /\ Maps!D = D /\ Top = d
    <2>1. Maps!D = D /\ Maps!D = Len(Extensions(view.dims))
        BY TopIs DEF Maps!D
    <2>2. QED
        BY <1>9, <1>10, <1>2, <1>1, <2>1 DEF Top
<1>12. Extensions(view.dims) = r
    BY ONLY <1>10, <1>1
<1>13. SubSeq(Extensions(view.dims), 3, Maps!D) = z /\ Tail(Extensions(view.dims)) = Led(y, z)
    BY ONLY <1>9, <1>11, <1>12
<1>14. Len(ds) + 2 = D
    BY ONLY <1>9, <1>11, <1>8, n = Len(z) + 2
<1>15. HasTwo(d, e, ds)
    BY ONLY <1>3, <1>4, <1>9, <1>11, <1>12, <1>13, <1>14, <1>2, <1>1, <1>5, <1>6, <1>7, <1>8, d \in Regular, e \in Regular,
            ds \in Seq(Regular), z \in Seq(P), r = LedByTwo(x, y, z) DEF HasTwo
<1>16. QED
    BY <1>15

\* An element of the leading dimension: the others are left.
LEMMA RestBecomes ==
    ASSUME IInv, D > 1, NEW j, InDimension(j, Top), NEW op, Becomes(Subscript(view, j), op)
    PROVE  /\ call' = op /\ width' = width /\ Extensions(view.dims)' = Tail(Extensions(view.dims))
           /\ Elem' = [i \in Maps!Box(Tail(Extensions(view.dims))) |-> Elem[Led(j, i)]]
<1> PICK d, e, ds : HasTwo(d, e, ds)
    BY TopTwo
<1>1. d \in Regular /\ e \in Regular /\ ds \in Seq(Regular) /\ d = Top /\ view.base \in Int
    BY DEF HasTwo
<1> PICK es \in Seq(Regular) : es = Led(e, ds) /\ LedByTwo(d, e, ds) = Led(d, es) /\ es # <<>>
    <2>1. Led(e, ds) \in Seq(Regular) /\ Led(e, ds) # <<>>
        BY ONLY <1>1, ExtensionsCons
    <2>2. LedByTwo(d, e, ds) = Led(d, Led(e, ds))
        BY ONLY <1>1, TailOfTwo
    <2>3. QED
        BY ONLY <2>1, <2>2
<1>2. view = View(Led(d, es), view.base) /\ Tail(view.dims) = es /\ Tail(Extensions(view.dims)) = Extensions(es)
    <2>1. Extensions(es) = Led(Extension(e), Extensions(ds))
        BY <1>1, ExtensionsCons
    <2>2. QED
        BY <2>1 DEF HasTwo
<1>3. j \in Int
    BY <1>1, SizeOf DEF InDimension
<1> PICK b \in Int : b = view.base + StepAt(d, j)
    <2>1. d.stride \in Int /\ d.offset \in Int
        BY <1>1, RegularParts
    <2>2. QED
        BY <1>1, <1>3, <2>1 DEF StepAt
<1> PICK u \in RegularViews : u = View(es, b) /\ u.dims = es
    BY MadeView
<1>4. u = Subscript(view, j)
    BY <1>1, <1>2 DEF Subscript, StepAt, Top
<1> PICK xs : xs = Extensions(es)
    OBVIOUS
<1> DEFINE F == [i \in Maps!Box(xs) |-> Led(j, i)]
<1>5. \A i : i \in Maps!Box(xs) <=> IsIndex(i, es)
    BY IndicesAreOf, BoxIsIndices
<1>6. ASSUME NEW i, IsIndex(i, es) PROVE IsIndex(F[i], view.dims) /\ Address(u, i) = Address(view, F[i])
    <2> PICK t \in Seq(Int) : t = i
        BY <1>6 DEF IsIndex
    <2> PICK h : h = Led(j, t)
        OBVIOUS
    <2>1. h = <<j>> \o t
        BY DEF Led
    <2>2. h \in Seq(Int) /\ Len(h) = Len(t) + 1 /\ h[1] = j
        BY ONLY <1>3, <2>1, t \in Seq(Int), OneThen
    <2>3. Tail(h) = t
        BY ONLY <2>1, t \in Seq(Int), TailOfOne
    <2>4. Len(h) >= 1
        BY ONLY <2>2, t \in Seq(Int)
    <2>5. IsIndex(h, Led(d, es))
        <3>1. IsIndex(h, Led(d, es)) <=> h \in Seq(Int) /\ Len(h) >= 1 /\ InDimension(h[1], d) /\ IsIndex(Tail(h), es)
            BY ONLY <1>1, es \in Seq(Regular), IndexCons
        <3>2. QED
            BY <1>1, <1>6, <2>2, <2>3, <2>4, <3>1
    <2>6. Address(View(Led(d, es), view.base), h) = Address(View(es, view.base + (h[1] * d.stride - d.offset)), Tail(h))
        BY ONLY <1>1, <2>2, <2>4, es \in Seq(Regular), AddressCons
    <2>7. Address(view, h) = Address(u, t)
        BY ONLY <1>2, <2>2, <2>3, <2>6, u = View(es, b), b = view.base + StepAt(d, j) DEF StepAt
    <2>8. F[i] = h
        BY <1>5, <1>6
    <2>9. view.dims = Led(d, es)
        BY DEF HasTwo
    <2>10. QED
        BY ONLY <2>5, <2>7, <2>8, <2>9, t = i
<1>7. IsMapOf(u, xs, F)
    BY <1>6 DEF IsMapOf
<1>8. Becomes(u, op)
    BY <1>4
<1>9. call' = op /\ width' = width /\ Extensions(view.dims)' = xs /\ Elem' = [i \in Maps!Box(xs) |-> Elem[F[i]]]
    <2> HIDE DEF F
    <2> QED
        BY ONLY IInv, u \in RegularViews, <1>7, <1>8, BecomesMap
<1>10. xs = Tail(Extensions(view.dims))
    BY <1>2
<1>11. QED
    BY ONLY <1>9, <1>10

\* One row.
LEMMA ElementMaps ==
    ASSUME IInv, NEW j \in Valid[1] .. Valid[2] - 1, Element(j)
    PROVE  Maps!Element(j)
<1>1. D > 1 /\ Becomes(Subscript(view, j), <<"element", j>>)
    BY DEF Element
<1>2. InDimension(j, Top)
    BY DEF InDimension, Valid
<1> PICK xs : xs = Tail(Extensions(view.dims))
    OBVIOUS
<1>3. /\ call' = <<"element", j>> /\ width' = width /\ Extensions(view.dims)' = xs
      /\ Elem' = [i \in Maps!Box(xs) |-> Elem[Led(j, i)]]
    BY ONLY IInv, <1>1, <1>2, xs = Tail(Extensions(view.dims)), RestBecomes
<1>4. Maps!D > 1
    BY <1>1, TopIs
<1>5. QED
    BY <1>3, <1>4 DEF Maps!Element, Maps!Becomes, Elem, Led

--------------------------------------------------------------------------------
(* New names: the elements that a function keeps, and what it names them.     *)

\* The new box, and the index F[i] that each new index i stands for.
Named(op, xs, F) ==
    /\ call' = op /\ width' = width /\ Extensions(view.dims)' = xs
    /\ Elem' = [i \in Maps!Box(xs) |-> Elem[F[i]]]

LEMMA NamedBy ==
    ASSUME IInv, NEW u \in RegularViews, NEW op, Becomes(u, op), NEW F,
           \A i : IsIndex(i, u.dims) => IsIndex(F[i], view.dims) /\ Address(u, i) = Address(view, F[i])
    PROVE  Named(op, Extensions(u.dims), F)
<1>1. IsMapOf(u, Extensions(u.dims), F)
    BY DEF IsMapOf
<1>2. QED
    BY <1>1, BecomesMap DEF Named

\* The index j of a dimension leads where P[j], Q[j] of two others do.
MovesOne(c, b, d, e, P, Q) ==
    \A j : InDimension(j, c) =>
        /\ InDimension(P[j], d) /\ InDimension(Q[j], e)
        /\ b + StepAt(c, j) = view.base + StepAt(d, P[j]) + StepAt(e, Q[j])

\* Two dimensions become one.
LEMMA OneForTwo ==
    ASSUME IInv, NEW d, NEW e, NEW ds, HasTwo(d, e, ds), NEW c \in Regular, NEW b \in Int, NEW op,
           Becomes(View(Led(c, ds), b), op), NEW P, NEW Q, MovesOne(c, b, d, e, P, Q)
    PROVE  \E F : /\ Named(op, Led(Extension(c), Extensions(ds)), F)
                  /\ \A i \in Maps!Box(Led(Extension(c), Extensions(ds))) :
                         /\ F[i] = LedByTwo(P[i[1]], Q[i[1]], Tail(i))
                         /\ i[1] \in Int /\ InDimension(i[1], c)
<1>1. d \in Regular /\ e \in Regular /\ ds \in Seq(Regular) /\ view = View(LedByTwo(d, e, ds), view.base)
      /\ view.dims = LedByTwo(d, e, ds)
    BY DEF HasTwo
<1> PICK cs \in Seq(Regular) : cs = Led(c, ds) /\ cs # <<>> /\ Extensions(cs) = Led(Extension(c), Extensions(ds))
    BY <1>1, ExtensionsCons
<1> PICK u \in RegularViews : u = View(cs, b) /\ u.dims = cs
    BY MadeView
<1> PICK xs : xs = Extensions(cs)
    OBVIOUS
<1> PICK F : F = [i \in Maps!Box(xs) |-> LedByTwo(P[i[1]], Q[i[1]], Tail(i))]
    OBVIOUS
<1>2. \A i : i \in Maps!Box(xs) <=> IsIndex(i, cs)
    BY IndicesAreOf, BoxIsIndices
<1>3. ASSUME NEW i, IsIndex(i, cs)
      PROVE  /\ IsIndex(F[i], view.dims) /\ Address(u, i) = Address(view, F[i])
             /\ i[1] \in Int /\ InDimension(i[1], c) /\ F[i] = LedByTwo(P[i[1]], Q[i[1]], Tail(i))
    <2>1. i[1] \in Int /\ InDimension(i[1], c) /\ Tail(i) \in Seq(Int) /\ IsIndex(Tail(i), ds) /\ i = Led(i[1], Tail(i))
        BY <1>1, <1>3, HeadOf
    <2> PICK j, t : j = i[1] /\ t = Tail(i)
        OBVIOUS
    <2>2. j \in Int /\ InDimension(j, c) /\ t \in Seq(Int) /\ IsIndex(t, ds) /\ i = Led(j, t)
        BY ONLY <2>1, j = i[1], t = Tail(i)
    <2>3. F[i] = LedByTwo(P[j], Q[j], t)
        BY <1>2, <1>3
    <2>4. InDimension(P[j], d) /\ InDimension(Q[j], e) /\ b + StepAt(c, j) = view.base + StepAt(d, P[j]) + StepAt(e, Q[j])
        BY ONLY <2>2, MovesOne(c, b, d, e, P, Q) DEF MovesOne
    <2> PICK p \in Int : p = P[j]
        BY <1>1, <2>4, SizeOf, SMTT(30) DEF InDimension
    <2> PICK q \in Int : q = Q[j]
        BY <1>1, <2>4, SizeOf, SMTT(30) DEF InDimension
    <2> PICK a : a = view.base
        OBVIOUS
    <2>5. /\ IsIndex(LedByTwo(p, q, t), LedByTwo(d, e, ds)) <=> InDimension(p, d) /\ InDimension(q, e) /\ IsIndex(t, ds)
          /\ Address(View(LedByTwo(d, e, ds), a), LedByTwo(p, q, t)) = Address(View(ds, a + StepAt(d, p) + StepAt(e, q)), t)
        BY ONLY <1>1, <2>2, p \in Int, q \in Int, LedByTwoIndex
    <2>6. Address(View(Led(c, ds), b), Led(j, t)) = Address(View(ds, b + StepAt(c, j)), t)
        BY ONLY <1>1, <2>2, c \in Regular, LedIndex
    <2>7. F[i] = LedByTwo(P[i[1]], Q[i[1]], Tail(i))
        BY <1>2, <1>3
    <2>8. IsIndex(F[i], view.dims)
        BY ONLY <1>1, <2>2, <2>3, <2>4, <2>5, p = P[j], q = Q[j]
    <2>9. Address(u, i) = Address(view, F[i])
        BY ONLY <1>1, <2>2, <2>3, <2>4, <2>5, <2>6, p = P[j], q = Q[j], a = view.base, u = View(cs, b), cs = Led(c, ds)
    <2>10. QED
        BY ONLY <2>1, <2>7, <2>8, <2>9
<1>4. Named(op, xs, F)
    <2>1. Becomes(u, op)
        OBVIOUS
    <2>2. \A i : IsIndex(i, u.dims) => IsIndex(F[i], view.dims) /\ Address(u, i) = Address(view, F[i])
        BY <1>3
    <2>3. Named(op, Extensions(u.dims), F)
        BY ONLY IInv, u \in RegularViews, <2>1, <2>2, NamedBy
    <2>4. QED
        BY <2>3
<1>5. \A i \in Maps!Box(xs) : F[i] = LedByTwo(P[i[1]], Q[i[1]], Tail(i)) /\ i[1] \in Int /\ InDimension(i[1], c)
    BY ONLY <1>2, <1>3
<1>6. QED
    BY ONLY <1>4, <1>5, xs = Extensions(cs), Extensions(cs) = Led(Extension(c), Extensions(ds))

\* A view, and its extensions, with the leading dimension apart.
HasOne(d, ds) ==
    /\ d \in Regular /\ ds \in Seq(Regular) /\ d = Top /\ view.dims = Led(d, ds) /\ Tail(view.dims) = ds
    /\ view = View(Led(d, ds), view.base) /\ view.base \in Int
    /\ Tail(Extensions(view.dims)) = Extensions(ds)
    /\ Len(ds) + 1 = D /\ Len(Extensions(ds)) + 1 = Maps!D /\ Maps!D = D

LEMMA TopOne ==
    ASSUME IInv
    PROVE  \E d, ds : HasOne(d, ds)
<1> PICK v \in RegularViews : v = view
    BY TopIs
<1> PICK d \in Regular, ds \in Seq(Regular) : d = v.dims[1] /\ ds = Tail(v.dims) /\ v = View(Led(d, ds), v.base)
    BY ViewCons
<1>1. v.dims = Led(d, ds)
    BY ONLY v = View(Led(d, ds), v.base) DEF View
<1>2. v.base \in Int /\ Len(v.dims) >= 1
    BY ViewParts
<1> PICK P : P = Int \X Int
    OBVIOUS
<1> PICK x \in P : x = Extension(d)
    BY ExtensionPair
<1> PICK z \in Seq(P) : z = Extensions(ds) /\ Len(z) = Len(ds)
    BY ExtensionsOf
<1>3. Extensions(v.dims) = <<x>> \o z
    <2>1. Extensions(Led(d, ds)) = Led(Extension(d), Extensions(ds))
        BY ExtensionsCons
    <2>2. QED
        BY ONLY <1>1, <2>1, x = Extension(d), z = Extensions(ds) DEF Led
<1>4. Tail(Extensions(v.dims)) = z
    BY ONLY <1>3, z \in Seq(P), TailOfOne
<1>5. Len(ds) + 1 = Len(v.dims)
    BY <1>1, OneThen DEF Led
<1>6. Maps!D = D /\ D = Len(v.dims)
    BY TopIs DEF D
<1>7. HasOne(d, ds)
    BY <1>1, <1>2, <1>4, <1>5, <1>6 DEF HasOne, Top
<1>8. QED
    BY <1>7

\* One dimension becomes two, in rows of n.
LEMMA TwoForOne ==
    ASSUME IInv, NEW d, NEW ds, HasOne(d, ds), NEW c \in Regular, NEW e \in Regular, NEW b \in Int, NEW op,
           Becomes(View(LedByTwo(c, e, ds), b), op), NEW n \in Int,
           \A j, k : InDimension(j, c) /\ InDimension(k, e) =>
               InDimension(j * n + k, d) /\ b + StepAt(c, j) + StepAt(e, k) = view.base + StepAt(d, j * n + k)
    PROVE  \E F : /\ Named(op, LedByTwo(Extension(c), Extension(e), Extensions(ds)), F)
                  /\ \A i \in Maps!Box(LedByTwo(Extension(c), Extension(e), Extensions(ds))) :
                         F[i] = Led(i[1] * n + i[2], SubSeq(i, 3, D + 1))
<1>1. d \in Regular /\ ds \in Seq(Regular) /\ view = View(Led(d, ds), view.base) /\ view.dims = Led(d, ds)
    BY DEF HasOne
<1> PICK cs \in Seq(Regular) : cs = LedByTwo(c, e, ds) /\ cs # <<>>
  /\ Extensions(cs) = LedByTwo(Extension(c), Extension(e), Extensions(ds))
    BY <1>1, ExtensionsTwo
<1> PICK u \in RegularViews : u = View(cs, b) /\ u.dims = cs
    BY MadeView
<1> PICK xs : xs = Extensions(cs)
    OBVIOUS
<1> PICK F : F = [i \in Maps!Box(xs) |-> Led(i[1] * n + i[2], SubSeq(i, 3, D + 1))]
    OBVIOUS
<1>2. \A i : i \in Maps!Box(xs) <=> IsIndex(i, cs)
    BY IndicesAreOf, BoxIsIndices
<1>3. ASSUME NEW i, IsIndex(i, cs)
      PROVE  IsIndex(F[i], view.dims) /\ Address(u, i) = Address(view, F[i])
    <2> PICK j, k, t : HeadsAre(i, j, k, t)
        BY DEF HeadsAre
    <2>1. j = i[1] /\ k = i[2] /\ t = Tail(Tail(i))
        BY DEF HeadsAre
    <2>2. j \in Int /\ k \in Int /\ InDimension(j, c) /\ InDimension(k, e) /\ t \in Seq(Int) /\ IsIndex(t, ds)
          /\ i = LedByTwo(j, k, t)
        <3>1. d \in Regular /\ ds \in Seq(Regular) /\ IsIndex(i, LedByTwo(c, e, ds))
            BY <1>1, <1>3
        <3>2. QED
            BY ONLY <3>1, c \in Regular, e \in Regular, HeadsAre(i, j, k, t), HeadsOf
    <2> PICK h \in Int : h = j * n + k
        BY <2>2
    <2>3. InDimension(h, d) /\ b + StepAt(c, j) + StepAt(e, k) = view.base + StepAt(d, h)
        BY <2>2
    <2>4. SubSeq(i, 3, D + 1) = t
        <3>1. i \in Seq(Int) /\ Len(i) = Len(cs)
            BY <1>3, IndexParts
        <3>2. Len(cs) = D + 1 /\ D + 1 >= 2
            <4>1. cs = <<c, e>> \o ds
                BY DEF LedByTwo
            <4>2. Len(cs) = Len(ds) + 2
                BY ONLY <1>1, <4>1, c \in Regular, e \in Regular, TwoThen
            <4>3. Len(ds) + 1 = D
                BY DEF HasOne
            <4>4. QED
                BY ONLY <1>1, <4>2, <4>3
        <3>3. SubSeq(i, 3, D + 1) = Tail(Tail(i))
            BY ONLY <3>1, <3>2, FromThird
        <3>4. QED
            BY ONLY <2>1, <3>3
    <2>5. F[i] = Led(h, t)
        <3>1. F[i] = Led(i[1] * n + i[2], SubSeq(i, 3, D + 1))
            BY <1>2, <1>3
        <3>2. QED
            BY ONLY <2>1, <3>1, <2>4, h = j * n + k
    <2> PICK a : a = view.base
        OBVIOUS
    <2>6. /\ IsIndex(Led(h, t), Led(d, ds)) <=> InDimension(h, d) /\ IsIndex(t, ds)
          /\ Address(View(Led(d, ds), a), Led(h, t)) = Address(View(ds, a + StepAt(d, h)), t)
        BY ONLY <1>1, <2>2, h \in Int, LedIndex
    <2>7. Address(View(LedByTwo(c, e, ds), b), LedByTwo(j, k, t)) = Address(View(ds, b + StepAt(c, j) + StepAt(e, k)), t)
        BY ONLY <1>1, <2>2, c \in Regular, e \in Regular, LedByTwoIndex
    <2>8. IsIndex(F[i], view.dims)
        BY ONLY <1>1, <2>2, <2>3, <2>5, <2>6
    <2>9. Address(u, i) = Address(view, F[i])
        BY ONLY <1>1, <2>2, <2>3, <2>5, <2>6, <2>7, a = view.base, u = View(cs, b), cs = LedByTwo(c, e, ds)
    <2>10. QED
        BY ONLY <2>8, <2>9
<1>4. Named(op, xs, F)
    <2>1. Becomes(u, op)
        OBVIOUS
    <2>2. \A i : IsIndex(i, u.dims) => IsIndex(F[i], view.dims) /\ Address(u, i) = Address(view, F[i])
        BY <1>3
    <2>3. Named(op, Extensions(u.dims), F)
        BY ONLY IInv, u \in RegularViews, <2>1, <2>2, NamedBy
    <2>4. QED
        BY <2>3
<1>5. \A i \in Maps!Box(xs) : F[i] = Led(i[1] * n + i[2], SubSeq(i, 3, D + 1))
    BY ONLY F = [i \in Maps!Box(xs) |-> Led(i[1] * n + i[2], SubSeq(i, 3, D + 1))]
<1>6. QED
    BY ONLY <1>4, <1>5, xs = Extensions(cs), Extensions(cs) = LedByTwo(Extension(c), Extension(e), Extensions(ds))

\* The indices j, k of two dimensions lead where P[j][k], Q[j][k] of two others do.
MovesTwo(c, g, b, d, e, P, Q) ==
    \A j, k : InDimension(j, c) /\ InDimension(k, g) =>
        /\ InDimension(P[j][k], d) /\ InDimension(Q[j][k], e)
        /\ b + StepAt(c, j) + StepAt(g, k) = view.base + StepAt(d, P[j][k]) + StepAt(e, Q[j][k])

NamedByTwo(op, xs, P, Q) ==
    /\ call' = op /\ width' = width /\ Extensions(view.dims)' = xs
    /\ Elem' = [i \in Maps!Box(xs) |-> Elem[LedByTwo(P[i[1]][i[2]], Q[i[1]][i[2]], SubSeq(i, 3, Maps!D))]]
    /\ \A i \in Maps!Box(xs) : i[1] \in Int /\ i[2] \in Int /\ i = LedByTwo(i[1], i[2], SubSeq(i, 3, Maps!D))

\* Two dimensions become two others.
LEMMA TwoForTwo ==
    ASSUME IInv, NEW d, NEW e, NEW ds, HasTwo(d, e, ds), NEW c \in Regular, NEW g \in Regular, NEW b \in Int, NEW op,
           Becomes(View(LedByTwo(c, g, ds), b), op), NEW P, NEW Q, MovesTwo(c, g, b, d, e, P, Q)
    PROVE  NamedByTwo(op, LedByTwo(Extension(c), Extension(g), Extensions(ds)), P, Q)
<1>1. d \in Regular /\ e \in Regular /\ ds \in Seq(Regular) /\ view = View(LedByTwo(d, e, ds), view.base)
      /\ view.dims = LedByTwo(d, e, ds)
    BY DEF HasTwo
<1> PICK cs \in Seq(Regular) : cs = LedByTwo(c, g, ds) /\ cs # <<>>
  /\ Extensions(cs) = LedByTwo(Extension(c), Extension(g), Extensions(ds))
    BY <1>1, ExtensionsTwo
<1> PICK u \in RegularViews : u = View(cs, b) /\ u.dims = cs
    BY MadeView
<1> PICK xs : xs = Extensions(cs)
    OBVIOUS
<1> PICK F : F = [i \in Maps!Box(xs) |-> LedByTwo(P[i[1]][i[2]], Q[i[1]][i[2]], SubSeq(i, 3, D))]
    OBVIOUS
<1>2. \A i : i \in Maps!Box(xs) <=> IsIndex(i, cs)
    BY IndicesAreOf, BoxIsIndices
<1>3. ASSUME NEW i, IsIndex(i, cs)
      PROVE  /\ IsIndex(F[i], view.dims) /\ Address(u, i) = Address(view, F[i])
             /\ i[1] \in Int /\ i[2] \in Int /\ i = LedByTwo(i[1], i[2], SubSeq(i, 3, D))
    <2> PICK j, k, t : HeadsAre(i, j, k, t)
        BY DEF HeadsAre
    <2>1. j = i[1] /\ k = i[2] /\ t = Tail(Tail(i))
        BY DEF HeadsAre
    <2>2. j \in Int /\ k \in Int /\ InDimension(j, c) /\ InDimension(k, g) /\ t \in Seq(Int) /\ IsIndex(t, ds)
          /\ i = LedByTwo(j, k, t)
        <3>1. d \in Regular /\ ds \in Seq(Regular) /\ IsIndex(i, LedByTwo(c, g, ds))
            BY <1>1, <1>3
        <3>2. QED
            BY ONLY <3>1, c \in Regular, g \in Regular, HeadsAre(i, j, k, t), HeadsOf
    <2>3. /\ InDimension(P[j][k], d) /\ InDimension(Q[j][k], e)
          /\ b + StepAt(c, j) + StepAt(g, k) = view.base + StepAt(d, P[j][k]) + StepAt(e, Q[j][k])
        BY <2>2 DEF MovesTwo
    <2>4. d \in Regular /\ e \in Regular
        BY ONLY <1>1
    <2> PICK p \in Int : p = P[j][k]
        BY ONLY <2>3, <2>4, SizeOf, SMTT(30) DEF InDimension
    <2> PICK q \in Int : q = Q[j][k]
        BY ONLY <2>3, <2>4, SizeOf DEF InDimension
    <2> PICK a : a = view.base
        OBVIOUS
    <2>5. SubSeq(i, 3, D) = t
        <3>1. i \in Seq(Int) /\ Len(i) = Len(cs)
            BY <1>3, IndexParts
        <3>2. Len(cs) = D /\ D >= 2
            <4>1. cs = <<c, g>> \o ds
                BY DEF LedByTwo
            <4>2. Len(cs) = Len(ds) + 2
                BY ONLY <1>1, <4>1, c \in Regular, g \in Regular, TwoThen
            <4>3. Len(ds) + 2 = D
                BY DEF HasTwo
            <4>4. QED
                BY ONLY <1>1, <4>2, <4>3
        <3>3. SubSeq(i, 3, D) = Tail(Tail(i))
            BY ONLY <3>1, <3>2, FromThird
        <3>4. QED
            BY ONLY <2>1, <3>3
    <2>6. F[i] = LedByTwo(p, q, t)
        <3>1. F[i] = LedByTwo(P[i[1]][i[2]], Q[i[1]][i[2]], SubSeq(i, 3, D))
            BY <1>2, <1>3
        <3>2. QED
            BY ONLY <2>1, <3>1, <2>5, p = P[j][k], q = Q[j][k]
    <2>7. /\ IsIndex(LedByTwo(p, q, t), LedByTwo(d, e, ds)) <=> InDimension(p, d) /\ InDimension(q, e) /\ IsIndex(t, ds)
          /\ Address(View(LedByTwo(d, e, ds), a), LedByTwo(p, q, t)) = Address(View(ds, a + StepAt(d, p) + StepAt(e, q)), t)
        BY ONLY <1>1, <2>2, p \in Int, q \in Int, LedByTwoIndex
    <2>8. Address(View(LedByTwo(c, g, ds), b), LedByTwo(j, k, t)) = Address(View(ds, b + StepAt(c, j) + StepAt(g, k)), t)
        BY ONLY <1>1, <2>2, c \in Regular, g \in Regular, LedByTwoIndex
    <2>9. IsIndex(F[i], view.dims)
        BY ONLY <1>1, <2>2, <2>3, <2>6, <2>7, p = P[j][k], q = Q[j][k]
    <2>10. Address(u, i) = Address(view, F[i])
        BY ONLY <1>1, <2>2, <2>3, <2>6, <2>7, <2>8, a = view.base, u = View(cs, b), cs = LedByTwo(c, g, ds),
                p = P[j][k], q = Q[j][k]
    <2>11. i[1] \in Int /\ i[2] \in Int /\ i = LedByTwo(i[1], i[2], SubSeq(i, 3, D))
        BY ONLY <2>1, <2>2, <2>5
    <2>12. QED
        BY ONLY <2>9, <2>10, <2>11
<1>4. Named(op, xs, F)
    <2>1. Becomes(u, op)
        OBVIOUS
    <2>2. \A i : IsIndex(i, u.dims) => IsIndex(F[i], view.dims) /\ Address(u, i) = Address(view, F[i])
        BY <1>3
    <2>3. Named(op, Extensions(u.dims), F)
        BY ONLY IInv, u \in RegularViews, <2>1, <2>2, NamedBy
    <2>4. QED
        BY <2>3
<1>5. \A i \in Maps!Box(xs) : /\ F[i] = LedByTwo(P[i[1]][i[2]], Q[i[1]][i[2]], SubSeq(i, 3, D))
                              /\ i[1] \in Int /\ i[2] \in Int /\ i = LedByTwo(i[1], i[2], SubSeq(i, 3, D))
    <2>1. \A i \in Maps!Box(xs) : F[i] = LedByTwo(P[i[1]][i[2]], Q[i[1]][i[2]], SubSeq(i, 3, D))
        BY ONLY F = [i \in Maps!Box(xs) |-> LedByTwo(P[i[1]][i[2]], Q[i[1]][i[2]], SubSeq(i, 3, D))]
    <2>2. QED
        BY ONLY <1>2, <1>3, <2>1
<1>6. Maps!D = D
    BY TopIs
<1>7. \A i \in Maps!Box(xs) : Elem[F[i]] = Elem[LedByTwo(P[i[1]][i[2]], Q[i[1]][i[2]], SubSeq(i, 3, Maps!D))]
    BY ONLY <1>5, <1>6
<1>8. Elem' = [i \in Maps!Box(xs) |-> Elem[LedByTwo(P[i[1]][i[2]], Q[i[1]][i[2]], SubSeq(i, 3, Maps!D))]]
    BY ONLY <1>4, <1>7 DEF Named
<1>9. call' = op /\ width' = width /\ Extensions(view.dims)' = xs
    BY ONLY <1>4 DEF Named
<1>10. \A i \in Maps!Box(xs) : i[1] \in Int /\ i[2] \in Int /\ i = LedByTwo(i[1], i[2], SubSeq(i, 3, Maps!D))
    BY ONLY <1>5, <1>6
<1>11. NamedByTwo(op, xs, P, Q)
    BY ONLY <1>8, <1>9, <1>10 DEF NamedByTwo
<1>12. QED
    BY ONLY <1>11, xs = Extensions(cs), Extensions(cs) = LedByTwo(Extension(c), Extension(g), Extensions(ds))

--------------------------------------------------------------------------------
(* Parts, chunks and tiles.                                                   *)

\* The first n * q rows of the view, in n parts of q rows.
RowsInParts(v, n, q) ==
    /\ v \in RegularViews /\ v.base = view.base /\ Tail(v.dims) = Tail(view.dims)
    /\ v.dims[1].stride = Top.stride /\ v.dims[1].offset = Top.offset
    /\ v.dims[1].nelems = Top.stride * (n * q) /\ n * q <= Size(Top)

LEMMA PartedRows ==
    ASSUME IInv, NEW n \in Nat, n # 0, NEW q \in Nat, NEW v, RowsInParts(v, n, q)
    PROVE  \E c \in Regular, e \in Regular :
               /\ Partition(v, n) = View(LedByTwo(c, e, Tail(view.dims)), view.base)
               /\ Extension(c) = Maps!Bounds(0, IF q = 0 THEN 0 ELSE n)
               /\ Extension(e) = Maps!Bounds(Valid[1], Valid[1] + q)
               /\ \A j, k : InDimension(j, c) /\ InDimension(k, e) =>
                      /\ InDimension(j * q + k, Top)
                      /\ view.base + StepAt(c, j) + StepAt(e, k) = view.base + StepAt(Top, j * q + k)
<1> PICK d \in Regular : d = v.dims[1]
    BY ViewParts DEF RowsInParts
<1> PICK s \in Int, b \in Int : s = Top.stride /\ b = view.base
    BY TopSpanned
<1> PICK f \in Int : f = Valid[1]
    BY TopIs
<1> PICK z \in Nat : z = Size(Top)
    BY TopIs
<1> PICK m \in Nat : m = n * q
    OBVIOUS
<1>1. d.stride = s /\ d.offset = Top.offset /\ d.nelems = s * m /\ m <= z
    BY DEF RowsInParts
<1>2. (z = 0 => Top.nelems = 0) /\ (Top.nelems # 0 => Spanned(Top, s, f, z))
    <2>1. Top.nelems = 0 <=> Size(Top) = 0
        BY TopSpanned
    <2>2. ASSUME Top.nelems # 0 PROVE Spanned(Top, s, f, z)
        <3>1. PICK t, g, y : Spanned(Top, t, g, y)
            BY <2>2, TopIs, DimensionCases
        <3>2. t = s /\ g = f /\ y = z
            BY <3>1, TopIs DEF Spanned
        <3>3. QED
            BY <3>1, <3>2
    <2>3. QED
        BY <2>1, <2>2
<1>3. m # 0 => s # 0 /\ d.nelems # 0 /\ Top.nelems # 0
    <2>1. m # 0 => z # 0 /\ Top.nelems # 0
        BY <1>1, <1>2, TopSpanned
    <2>2. m # 0 => s # 0
        BY <1>2, <2>1 DEF Spanned
    <2>3. s # 0 /\ m # 0 => s * m # 0
        OBVIOUS
    <2>4. QED
        BY ONLY <1>1, <2>1, <2>2, <2>3
<1>4. Size(d) = n * q
    <2>1. CASE m = 0
        <3>1. d.nelems = 0
            BY ONLY <1>1, <2>1, s \in Int
        <3>2. QED
            BY <2>1, <3>1, EmptyDimension
    <2>2. CASE m # 0
        <3>1. Spanned(Top, s, f, z)
            BY <1>2, <1>3, <2>2
        <3>2. d.offset = s * f
            BY <1>1, <3>1 DEF Spanned
        <3>3. Spanned(d, s, f, m)
            BY ONLY <1>1, <1>3, <2>2, <3>2, s \in Int, f \in Int, m \in Nat, MadeSpanned
        <3>4. QED
            BY <3>3 DEF Spanned
    <2>3. QED
        BY <2>1, <2>2
<1> PICK c \in Regular : c = DimensionOf(Quotient(d.nelems, n), 0, d.nelems)
    BY <1>4, PartsRegular
<1> PICK e \in Regular : e = [d EXCEPT !.nelems = Quotient(d.nelems, n)]
    BY <1>4, PartsRegular
<1>5. Partition(v, n) = View(LedByTwo(c, e, Tail(view.dims)), view.base)
    <2>1. v.dims \in Seq(Regular) /\ v.dims # <<>>
        BY ViewParts DEF RowsInParts
    <2>2. LedByTwo(c, e, Tail(v.dims)) \in Seq(Regular) /\ LedByTwo(c, e, Tail(v.dims)) # <<>>
        BY ONLY <2>1, c \in Regular, e \in Regular, TwoBefore DEF LedByTwo
    <2>3. Partition(v, n) = [v EXCEPT !.dims = LedByTwo(c, e, Tail(v.dims))]
        BY ONLY d = v.dims[1], c = DimensionOf(Quotient(d.nelems, n), 0, d.nelems),
                e = [d EXCEPT !.nelems = Quotient(d.nelems, n)] DEF Partition, LedByTwo
    <2>4. v \in RegularViews /\ v.base = view.base /\ Tail(v.dims) = Tail(view.dims)
        BY DEF RowsInParts
    <2>5. QED
        BY ONLY <2>2, <2>3, <2>4, DimsReplaced
<1> PICK a \in Int : a = s * q
    OBVIOUS
<1>6. Quotient(d.nelems, n) = a
    <2>1. d.nelems = n * a
        BY ONLY <1>1, m = n * q, a = s * q, n \in Nat, q \in Nat, s \in Int
    <2>2. QED
        BY ONLY <2>1, n \in Nat, a \in Int, n # 0, QuotientExact
<1>7. /\ c.stride = a /\ c.offset = 0 /\ c.nelems = s * m
      /\ e.stride = s /\ e.offset = Top.offset /\ e.nelems = a
    <2>1. d.stride \in Int /\ d = DimensionOf(d.stride, d.offset, d.nelems)
        BY RegularParts
    <2>2. e = DimensionOf(d.stride, d.offset, a)
        BY ONLY <1>6, <2>1, e = [d EXCEPT !.nelems = Quotient(d.nelems, n)] DEF DimensionOf
    <2>3. QED
        BY ONLY <1>1, <1>6, <2>2, c = DimensionOf(Quotient(d.nelems, n), 0, d.nelems) DEF DimensionOf
<1>8. CASE q = 0
    <2>1. c.nelems = 0 /\ e.nelems = 0
        BY ONLY <1>7, <1>8, m = n * q, a = s * q, n \in Nat, s \in Int
    <2>2. Extension(c) = <<0, 0>> /\ Extension(e) = <<0, 0>> /\ \A j : ~InDimension(j, c)
        BY <2>1, EmptyDimension
    <2>3. Valid[1] = Valid[1] + q
        BY <1>8, TopIs
    <2>4. QED
        BY <1>5, <1>8, <2>2, <2>3 DEF Maps!Bounds
<1>9. CASE q # 0
    <2>1. m # 0 /\ s # 0
        <3>1. m # 0
            BY ONLY <1>9, m = n * q, n \in Nat, n # 0, q \in Nat
        <3>2. QED
            BY <1>3, <3>1
    <2>2. Spanned(Top, s, f, z)
        BY <1>2, <1>3, <2>1
    <2>3. e.offset = s * f /\ a = s * q /\ c.offset = a * 0 /\ c.nelems = a * n /\ a # 0
        <3>1. Top.offset = s * f
            BY <2>2 DEF Spanned
        <3>2. c.nelems = a * n /\ a * 0 = 0
            BY ONLY <1>7, m = n * q, a = s * q, n \in Nat, q \in Nat, s \in Int
        <3>3. a # 0
            BY ONLY <1>9, <2>1, a = s * q, q \in Nat, s \in Int
        <3>4. QED
            BY ONLY <1>7, <3>1, <3>2, <3>3, a = s * q
    <2>4. Spanned(c, a, 0, n)
        BY ONLY <1>7, <2>3, a \in Int, n \in Nat, n # 0, MadeSpanned
    <2>5. Spanned(e, s, f, q)
        BY ONLY <1>7, <1>9, <2>1, <2>3, s \in Int, f \in Int, q \in Nat, MadeSpanned
    <2>6. Extension(c) = <<0, n>> /\ Extension(e) = <<f, f + q>> /\ f # f + q
        <3>1. Extension(c) = <<0, 0 + n>> /\ Extension(e) = <<f, f + q>>
            BY <2>4, <2>5 DEF Spanned
        <3>2. QED
            BY <1>9, <3>1
    <2>7. ASSUME NEW j, NEW k, InDimension(j, c), InDimension(k, e)
          PROVE  /\ InDimension(j * q + k, Top)
                 /\ view.base + StepAt(c, j) + StepAt(e, k) = view.base + StepAt(Top, j * q + k)
        <3>1. j \in Int /\ 0 <= j /\ j < n
            BY <2>4, <2>7, StepSpanned
        <3>2. k \in Int /\ f <= k /\ k < f + q
            BY <2>5, <2>7, StepSpanned
        <3>3. /\ j * q + k \in Int /\ f <= j * q + k /\ j * q + k < f + n * q
              /\ b + (j - 0) * (s * q) + (k - f) * s = b + (j * q + k - f) * s
            BY ONLY <3>1, <3>2, f \in Int, n \in Nat, q \in Nat, s \in Int, b \in Int, RowInPart
        <3> PICK h \in Int : h = j * q + k
            BY <3>3
        <3>4. f <= h /\ h < f + z
            BY ONLY <1>1, <3>3, h = j * q + k, h \in Int, m = n * q, m \in Nat, z \in Nat, f \in Int
        <3>5. InDimension(h, Top)
            BY <2>2, <3>4, StepSpanned
        <3>6. StepAt(c, j) = (j - 0) * a
            BY <2>4, <3>1, StepSpanned
        <3>7. StepAt(e, k) = (k - f) * s
            BY <2>5, <3>2, StepSpanned
        <3>8. StepAt(Top, h) = (h - f) * s
            BY <2>2, StepSpanned
        <3> PICK x \in Int : x = (j - 0) * (s * q)
            BY <3>1
        <3> PICK y \in Int : y = (k - f) * s
            BY <3>2
        <3> PICK g \in Int : g = (h - f) * s
            OBVIOUS
        <3>9. StepAt(c, j) = x /\ StepAt(e, k) = y /\ StepAt(Top, h) = g
            <4>1. StepAt(c, j) = x
                BY ONLY <3>6, a = s * q, x = (j - 0) * (s * q)
            <4>2. StepAt(e, k) = y
                BY ONLY <3>7, y = (k - f) * s
            <4>3. StepAt(Top, h) = g
                BY ONLY <3>8, g = (h - f) * s
            <4>4. QED
                BY <4>1, <4>2, <4>3
        <3>10. b + x + y = b + g
            <4>1. b + (j - 0) * (s * q) + (k - f) * s = b + (j * q + k - f) * s
                BY <3>3
            <4>2. (j * q + k - f) * s = g
                <5>1. j \in Int /\ k \in Int
                    BY <3>1, <3>2
                <5>2. j * q + k - f = h - f
                    BY ONLY <5>1, h = j * q + k
                <5>3. QED
                    BY ONLY <5>2, g = (h - f) * s
            <4>3. QED
                BY ONLY <4>1, <4>2, x = (j - 0) * (s * q), y = (k - f) * s
        <3>11. InDimension(j * q + k, Top)
            BY ONLY <3>5, h = j * q + k
        <3>12. view.base + StepAt(c, j) + StepAt(e, k) = view.base + StepAt(Top, j * q + k)
            BY ONLY <3>9, <3>10, h = j * q + k, b = view.base
        <3>13. QED
            BY ONLY <3>11, <3>12
    <2>8. QED
        BY <1>5, <1>9, <2>6, <2>7 DEF Maps!Bounds
<1>10. QED
    BY <1>8, <1>9

\* What the parts of q rows are, told by the old indices.
NamesParts(op, x, y, q) ==
    /\ call' = op /\ width' = width
    /\ Extensions(view.dims)' = <<x, y>> \o Tail(Extensions(view.dims))
    /\ Elem' = [i \in Maps!Box(<<x, y>> \o Tail(Extensions(view.dims))) |->
                    Elem[<<i[1] * q + i[2]>> \o SubSeq(i, 3, Maps!D + 1)]]

LEMMA PartedBecomes ==
    ASSUME IInv, NEW n \in Nat, n # 0, NEW q \in Nat, NEW v, RowsInParts(v, n, q), NEW op, Becomes(Partition(v, n), op)
    PROVE  NamesParts(op, Maps!Bounds(0, IF q = 0 THEN 0 ELSE n), Maps!Bounds(Valid[1], Valid[1] + q), q)
<1> PICK x, y : x = Maps!Bounds(0, IF q = 0 THEN 0 ELSE n) /\ y = Maps!Bounds(Valid[1], Valid[1] + q)
    OBVIOUS
<1> PICK d, ds : HasOne(d, ds)
    BY TopOne
<1>1. d = Top /\ ds = Tail(view.dims) /\ Extensions(ds) = Tail(Extensions(view.dims)) /\ view.base \in Int
    BY DEF HasOne
<1>2. PICK c \in Regular, e \in Regular :
          /\ Partition(v, n) = View(LedByTwo(c, e, Tail(view.dims)), view.base)
          /\ Extension(c) = x /\ Extension(e) = y
          /\ \A j, k : InDimension(j, c) /\ InDimension(k, e) =>
                 /\ InDimension(j * q + k, Top)
                 /\ view.base + StepAt(c, j) + StepAt(e, k) = view.base + StepAt(Top, j * q + k)
    BY PartedRows
<1>3. Becomes(View(LedByTwo(c, e, ds), view.base), op)
    BY <1>1, <1>2
<1>4. \A j, k : InDimension(j, c) /\ InDimension(k, e) =>
          InDimension(j * q + k, d) /\ view.base + StepAt(c, j) + StepAt(e, k) = view.base + StepAt(d, j * q + k)
    BY ONLY <1>1, <1>2
<1> PICK b \in Int : b = view.base
    BY <1>1
<1> PICK m \in Int : m = q
    OBVIOUS
<1>5. \A j, k : InDimension(j, c) /\ InDimension(k, e) =>
          InDimension(j * m + k, d) /\ b + StepAt(c, j) + StepAt(e, k) = view.base + StepAt(d, j * m + k)
    BY ONLY <1>4, m = q, b = view.base
<1>6. Becomes(View(LedByTwo(c, e, ds), b), op)
    BY ONLY <1>3, b = view.base
<1>7. PICK F : /\ Named(op, LedByTwo(Extension(c), Extension(e), Extensions(ds)), F)
               /\ \A i \in Maps!Box(LedByTwo(Extension(c), Extension(e), Extensions(ds))) :
                      F[i] = Led(i[1] * m + i[2], SubSeq(i, 3, D + 1))
    BY ONLY IInv, HasOne(d, ds), c \in Regular, e \in Regular, b \in Int, m \in Int, <1>5, <1>6, TwoForOne
<1> PICK xs : xs = <<x, y>> \o Tail(Extensions(view.dims))
    OBVIOUS
<1>8. LedByTwo(Extension(c), Extension(e), Extensions(ds)) = xs
    BY ONLY <1>1, <1>2, xs = <<x, y>> \o Tail(Extensions(view.dims)) DEF LedByTwo
<1>9. Named(op, xs, F) /\ \A i \in Maps!Box(xs) : F[i] = Led(i[1] * m + i[2], SubSeq(i, 3, D + 1))
    BY ONLY <1>7, <1>8
<1>10. \A i \in Maps!Box(xs) : Elem[F[i]] = Elem[<<i[1] * q + i[2]>> \o SubSeq(i, 3, Maps!D + 1)]
    <2>1. Maps!D = D
        BY TopIs
    <2>2. QED
        BY ONLY <1>9, <2>1, m = q DEF Led
<1>11. Elem' = [i \in Maps!Box(xs) |-> Elem[<<i[1] * q + i[2]>> \o SubSeq(i, 3, Maps!D + 1)]]
    BY ONLY <1>9, <1>10 DEF Named
<1>12. call' = op /\ width' = width /\ Extensions(view.dims)' = xs
    BY ONLY <1>9 DEF Named
<1>13. NamesParts(op, x, y, q)
    BY ONLY <1>11, <1>12, xs = <<x, y>> \o Tail(Extensions(view.dims)) DEF NamesParts
<1>14. QED
    BY ONLY <1>13, x = Maps!Bounds(0, IF q = 0 THEN 0 ELSE n), y = Maps!Bounds(Valid[1], Valid[1] + q)

\* The whole view, in n parts.
LEMMA WholeInParts ==
    ASSUME IInv, NEW n \in Nat, NEW q \in Nat, Size(Top) = n * q
    PROVE  RowsInParts(view, n, q)
<1>1. Top.nelems = Top.stride * Size(Top) /\ Size(Top) \in Nat
    BY TopIs, SizeOf
<1>2. QED
    BY <1>1, TopIs DEF RowsInParts

\* n parts.
LEMMA PartitionedMaps ==
    ASSUME IInv, NEW n \in 1 .. Size(Top), Partitioned(n)
    PROVE  Maps!Partitioned(n)
<1> PICK z \in Nat : z = Size(Top)
    BY TopIs
<1>1. n \in Nat /\ n # 0 /\ n > 0 /\ z # 0
    BY TopIs
<1>2. Remainder(z, n) = 0 /\ Becomes(Partition(view, n), <<"partitioned", n>>)
    BY DEF Partitioned
<1>3. z % n = 0 /\ z = n * (z \div n) /\ z \div n \in Nat /\ z \div n # 0
    <2>1. z \in Nat \ {0} /\ n \in Nat \ {0} /\ Remainder(z, n) = 0
        BY <1>1, <1>2
    <2>2. QED
        BY ONLY <2>1, NatParts
<1> PICK q \in Nat : q = z \div n /\ q # 0
    BY <1>3
<1>4. RowsInParts(view, n, q)
    BY <1>1, <1>3, WholeInParts
<1>5. NamesParts(<<"partitioned", n>>, Maps!Bounds(0, IF q = 0 THEN 0 ELSE n), Maps!Bounds(Valid[1], Valid[1] + q), q)
    BY <1>1, <1>2, <1>4, PartedBecomes
<1>6. NamesParts(<<"partitioned", n>>, Maps!Bounds(0, IF Maps!size = 0 THEN 0 ELSE n),
                 Maps!Bounds(Maps!first, Maps!first + Maps!size \div n), Maps!size \div n)
    <2>1. Maps!size = z /\ Maps!first = Valid[1]
        BY TopIs
    <2>2. QED
        BY ONLY <1>1, <1>5, <2>1, q = z \div n, q # 0
<1>7. Maps!size % n = 0 /\ Maps!D = D
    BY <1>3, TopIs
<1>8. QED
    BY <1>1, <1>6, <1>7 DEF NamesParts, Maps!Partitioned, Maps!Split, Maps!Becomes, Elem

\* Parts of n rows.
LEMMA ChunkedMaps ==
    ASSUME IInv, NEW n \in 1 .. Size(Top), Chunked(n)
    PROVE  Maps!Chunked(n)
<1> PICK z \in Nat : z = Size(Top)
    BY TopIs
<1>1. n \in Nat /\ n # 0 /\ n > 0 /\ z # 0 /\ z > 0
    BY TopIs
<1>2. Remainder(z, n) = 0 /\ Becomes(Partition(view, Quotient(z, n)), <<"chunked", n>>)
    BY DEF Chunked
<1>3. z % n = 0 /\ z = n * (z \div n) /\ z \div n \in Nat /\ z \div n # 0 /\ Quotient(z, n) = z \div n
    <2>1. z \in Nat \ {0} /\ n \in Nat \ {0} /\ Remainder(z, n) = 0
        BY <1>1, <1>2
    <2>2. QED
        BY ONLY <2>1, NatParts
<1> PICK m \in Nat : m = z \div n /\ m # 0
    BY <1>3
<1>4. z = m * n /\ z \div m = n
    <2>1. z = n * m /\ m * n = n * m
        BY <1>3, <1>1
    <2>2. (m * n) \div m = n
        BY <1>1, RemainderOfMultiple
    <2>3. QED
        BY ONLY <2>1, <2>2
<1>5. RowsInParts(view, m, n)
    BY <1>1, <1>4, WholeInParts
<1>6. Becomes(Partition(view, m), <<"chunked", n>>)
    BY <1>2, <1>3
<1>7. NamesParts(<<"chunked", n>>, Maps!Bounds(0, IF n = 0 THEN 0 ELSE m), Maps!Bounds(Valid[1], Valid[1] + n), n)
    BY <1>1, <1>5, <1>6, PartedBecomes
<1>8. Maps!size = z /\ Maps!first = Valid[1] /\ Maps!D = D
    BY TopIs
<1>9. NamesParts(<<"chunked", n>>, Maps!Bounds(0, IF Maps!size = 0 THEN 0 ELSE m),
                 Maps!Bounds(Maps!first, Maps!first + Maps!size \div m), Maps!size \div m)
    BY ONLY <1>1, <1>4, <1>7, <1>8
<1>10. Maps!size \div n = m
    BY <1>8
<1>11. Maps!Split(m, <<"chunked", n>>)
    BY <1>8, <1>9 DEF NamesParts, Maps!Split, Maps!Becomes, Elem
<1>12. Maps!size % n = 0 /\ Maps!size > 0
    BY <1>1, <1>3, <1>8
<1>13. QED
    BY ONLY <1>1, <1>10, <1>11, <1>12 DEF Maps!Chunked

\* The tiles.
LEMMA TiledQuotientMaps ==
    ASSUME IInv, NEW n \in 1 .. Size(Top), TiledQuotient(n)
    PROVE  Maps!TiledQuotient(n)
<1> PICK z \in Nat : z = Size(Top)
    BY TopIs
<1> PICK c \in Nat : c = Chunks(n)
    BY ChunksAre
<1> PICK m \in Nat : m = z \div n
    BY ChunksAre
<1>1. n \in Nat /\ n # 0 /\ n > 0 /\ z >= n /\ c = n * m /\ c <= z
    BY ChunksAre
<1>2. c # 0 /\ Becomes(Partition(Take(view, c), Quotient(c, n)), <<"quotient", n>>)
    BY DEF TiledQuotient
<1>3. m # 0 /\ c = m * n
    BY ONLY <1>1, <1>2, m \in Nat, c \in Nat
<1>4. Quotient(c, n) = m
    BY ONLY <1>1, m \in Nat, QuotientExact
<1>5. Top.nelems # 0
    <2>1. Top.nelems = 0 <=> z = 0
        BY TopSpanned
    <2>2. QED
        BY <1>1, <2>1
<1> PICK v \in RegularViews : v = Take(view, c)
    BY <1>5, TopIs, TakeView
<1>6. RowsInParts(v, m, n)
    <2>1. /\ Len(v.dims) = Len(view.dims) /\ v.base = view.base
          /\ v.dims[1] = DimensionOf(Top.stride, Top.offset, Top.stride * c)
          /\ \A k \in 1 .. Len(view.dims) : k # 1 => v.dims[k] = view.dims[k]
        BY <1>5, TopIs, TakeView, SMTT(30)
    <2>2. Tail(v.dims) = Tail(view.dims)
        BY <2>1, TopIs, SameTails DEF SameRest
    <2>3. v.dims[1].stride = Top.stride /\ v.dims[1].offset = Top.offset /\ v.dims[1].nelems = Top.stride * c
        BY ONLY <2>1 DEF DimensionOf
    <2>4. QED
        BY ONLY <1>1, <1>3, <2>1, <2>2, <2>3, v \in RegularViews, z = Size(Top) DEF RowsInParts
<1>7. Becomes(Partition(v, m), <<"quotient", n>>)
    BY <1>2, <1>4
<1>8. NamesParts(<<"quotient", n>>, Maps!Bounds(0, IF n = 0 THEN 0 ELSE m), Maps!Bounds(Valid[1], Valid[1] + n), n)
    BY <1>1, <1>3, <1>6, <1>7, PartedBecomes
<1>9. Maps!size = z /\ Maps!first = Valid[1] /\ Maps!D = D
    BY TopIs
<1>10. Maps!Bounds(0, IF n = 0 THEN 0 ELSE m) = <<0, m>>
    BY ONLY <1>1, <1>3 DEF Maps!Bounds
<1>11. NamesParts(<<"quotient", n>>, <<0, Maps!size \div n>>, Maps!Bounds(Maps!first, Maps!first + n), n)
    BY ONLY <1>8, <1>9, <1>10, m = z \div n
<1>12. QED
    BY <1>1, <1>9, <1>11 DEF NamesParts, Maps!TiledQuotient, Maps!Becomes, Elem

--------------------------------------------------------------------------------
(* Calls, transposed() and the stencil.                                       *)

\* A view of the dimensions c, g and the rest of the old ones.
LEMMA TwoLed ==
    ASSUME NEW d, NEW e, NEW ds, HasTwo(d, e, ds), NEW c \in Regular, NEW g \in Regular, NEW u \in RegularViews,
           Len(u.dims) = D, u.dims[1] = c, u.dims[2] = g, \A k \in 3 .. D : u.dims[k] = view.dims[k]
    PROVE  u = View(LedByTwo(c, g, ds), u.base) /\ u.base \in Int
<1>1. d \in Regular /\ e \in Regular /\ ds \in Seq(Regular) /\ view.dims = <<d, e>> \o ds /\ Len(ds) + 2 = D
    BY DEF HasTwo, LedByTwo
<1> PICK N \in Nat : N = Len(ds)
    BY <1>1
<1> PICK us \in Seq(Regular) : us = u.dims /\ u = View(us, u.base) /\ u.base \in Int
    BY ViewParts
<1> PICK cs : cs = <<c, g>> \o ds
    OBVIOUS
<1>2. cs \in Seq(Regular) /\ Len(cs) = N + 2 /\ cs[1] = c /\ cs[2] = g /\ \A k \in 1 .. N : cs[k + 2] = ds[k]
    BY <1>1, TwoThen
<1> PICK vs : vs = <<d, e>> \o ds
    OBVIOUS
<1>3. \A k \in 1 .. N : vs[k + 2] = ds[k]
    BY <1>1, TwoThen
<1>4. \A k \in 3 .. N + 2 : us[k] = vs[k]
    BY <1>1
<1>5. ASSUME NEW k \in 1 .. N + 2 PROVE us[k] = cs[k]
    <2>1. k = 1 \/ k = 2 \/ (k \in 3 .. N + 2 /\ k - 2 \in 1 .. N /\ (k - 2) + 2 = k)
        OBVIOUS
    <2>2. ASSUME k \in 3 .. N + 2, k - 2 \in 1 .. N, (k - 2) + 2 = k PROVE us[k] = cs[k]
        BY ONLY <1>2, <1>3, <1>4, <2>2
    <2>3. us[1] = c /\ us[2] = g
        OBVIOUS
    <2>4. QED
        BY ONLY <1>2, <2>1, <2>2, <2>3
<1>6. Len(us) = N + 2
    BY <1>1
<1>7. us = cs
    <2>1. Len(us) = Len(cs) /\ \A k \in 1 .. Len(us) : us[k] = cs[k]
        BY ONLY <1>2, <1>5, <1>6
    <2>2. QED
        BY ONLY <1>2, <2>1, us \in Seq(Regular), SeqsEqual
<1>8. QED
    BY ONLY <1>7, u = View(us, u.base), u.base \in Int, cs = <<c, g>> \o ds DEF LedByTwo

\* The same with one dimension in the place of two.
LEMMA OneLed ==
    ASSUME NEW d, NEW e, NEW ds, HasTwo(d, e, ds), NEW c \in Regular, NEW u \in RegularViews,
           Len(u.dims) = D - 1, u.dims[1] = c, \A k \in 2 .. D - 1 : u.dims[k] = view.dims[k + 1]
    PROVE  u = View(Led(c, ds), u.base) /\ u.base \in Int
<1>1. d \in Regular /\ e \in Regular /\ ds \in Seq(Regular) /\ view.dims = <<d, e>> \o ds /\ Len(ds) + 2 = D
    BY DEF HasTwo, LedByTwo
<1> PICK N \in Nat : N = Len(ds)
    BY <1>1
<1> PICK us \in Seq(Regular) : us = u.dims /\ u = View(us, u.base) /\ u.base \in Int
    BY ViewParts
<1> PICK cs : cs = <<c>> \o ds
    OBVIOUS
<1>2. cs \in Seq(Regular) /\ Len(cs) = N + 1 /\ cs[1] = c /\ \A k \in 1 .. N : cs[k + 1] = ds[k]
    BY <1>1, OneThen
<1> PICK vs : vs = <<d, e>> \o ds
    OBVIOUS
<1>3. \A k \in 1 .. N : vs[k + 2] = ds[k]
    BY <1>1, TwoThen
<1>4. Len(us) = N + 1 /\ \A k \in 2 .. N + 1 : us[k] = vs[k + 1]
    BY <1>1
<1>5. ASSUME NEW k \in 1 .. N + 1 PROVE us[k] = cs[k]
    <2>1. k = 1 \/ (k \in 2 .. N + 1 /\ k - 1 \in 1 .. N /\ (k - 1) + 1 = k /\ (k - 1) + 2 = k + 1)
        OBVIOUS
    <2>2. ASSUME k \in 2 .. N + 1, k - 1 \in 1 .. N, (k - 1) + 1 = k, (k - 1) + 2 = k + 1 PROVE us[k] = cs[k]
        <3>1. us[k] = vs[k + 1]
            BY ONLY <1>4, <2>2
        <3>2. vs[(k - 1) + 2] = ds[k - 1] /\ cs[(k - 1) + 1] = ds[k - 1]
            BY ONLY <1>2, <1>3, <2>2
        <3>3. QED
            BY ONLY <2>2, <3>1, <3>2
    <2>3. us[1] = c
        OBVIOUS
    <2>4. QED
        BY ONLY <1>2, <2>1, <2>2, <2>3
<1>7. us = cs
    <2>1. Len(us) = Len(cs) /\ \A k \in 1 .. Len(us) : us[k] = cs[k]
        BY ONLY <1>2, <1>4, <1>5
    <2>2. QED
        BY ONLY <1>2, <2>1, us \in Seq(Regular), SeqsEqual
<1>8. QED
    BY ONLY <1>7, u = View(us, u.base), u.base \in Int, cs = <<c>> \o ds DEF Led

\* The rows p of a dimension, from its first index on.
SliverOf(c, d, p, f) ==
    /\ c \in Regular /\ c = Sliver(d, p[1], p[2]) /\ f = Extension(d)[1] /\ f \in Int
    /\ p[1] \in Int /\ p[2] \in Int /\ p[1] <= p[2] /\ (d.nelems = 0 => p[1] = p[2])
    /\ Extension(c) = Maps!Bounds(f, f + Maps!Count(p))
    /\ StepAt(d, p[1]) \in Int
    /\ \A j : InDimension(j, c) =>
           /\ j \in Int /\ InDimension(j - f + p[1], d) /\ StepAt(c, j) \in Int
           /\ StepAt(d, p[1]) + StepAt(c, j) = StepAt(d, j - f + p[1])

LEMMA SliverSteps ==
    ASSUME NEW d \in Regular, NEW p \in Blocks(Extension(d))
    PROVE  \E c, f : SliverOf(c, d, p, f)
<1>1. p[1] \in Int /\ p[2] \in Int /\ p[1] <= p[2] /\ (d.nelems = 0 => p[1] = p[2])
    BY BlockOf
<1> PICK a \in Int, b \in Int : a = p[1] /\ b = p[2]
    BY <1>1
<1>2. a < b /\ Extension(d)[1] <= a /\ b <= Extension(d)[2]
    <2>1. Extension(d)[1] \in Int /\ Extension(d)[2] \in Int
        BY SizeOf
    <2>2. p \in (Extension(d)[1] .. Extension(d)[2]) \X (Extension(d)[1] .. Extension(d)[2]) /\ p[1] < p[2]
        BY DEF Blocks, Subranges
    <2>3. QED
        BY <2>1, <2>2
<1>3. d.nelems # 0
    BY <1>1, <1>2
<1> PICK s, f, n : Spanned(d, s, f, n)
    BY <1>3, DimensionCases
<1>4. /\ s \in Int /\ f \in Int /\ n \in Nat /\ s # 0 /\ Extension(d) = <<f, f + n>>
      /\ d.stride = s /\ d.offset = s * f
    BY DEF Spanned
<1> PICK m \in Nat : m = b - a /\ m # 0
    BY <1>2
<1> PICK c \in Regular : c = Sliver(d, a, b)
    BY <1>1, SliverRegular
<1>5. c.stride = s /\ c.offset = s * f /\ c.nelems = s * m
    BY ONLY <1>4, c = Sliver(d, a, b), m = b - a DEF Sliver, DimensionOf
<1>6. Spanned(c, s, f, m)
    BY ONLY <1>4, <1>5, m \in Nat, m # 0, MadeSpanned
<1>7. Extension(c) = Maps!Bounds(f, f + Maps!Count(p))
    <2>1. Maps!Count(p) = m
        BY DEF Maps!Count
    <2>2. Extension(c) = <<f, f + m>>
        BY <1>6 DEF Spanned
    <2>3. QED
        BY <1>4, <2>1, <2>2 DEF Maps!Bounds
<1>8. f <= a /\ b <= f + n
    BY <1>2, <1>4
<1>9. StepAt(d, a) = (a - f) * s
    BY StepSpanned
<1>10. ASSUME NEW j, InDimension(j, c)
       PROVE  /\ j \in Int /\ InDimension(j - f + a, d) /\ StepAt(c, j) \in Int
              /\ StepAt(d, a) + StepAt(c, j) = StepAt(d, j - f + a)
    <2>1. j \in Int /\ f <= j /\ j < f + m
        BY <1>6, <1>10, StepSpanned
    <2> PICK h \in Int : h = j - f + a
        BY <1>4, <2>1
    <2>2. f <= h /\ h < f + n
        BY ONLY <1>4, <1>8, <2>1, h = j - f + a, h \in Int, a \in Int, b \in Int, m \in Nat, m = b - a
    <2>3. InDimension(h, d)
        BY <2>2, StepSpanned
    <2>4. StepAt(c, j) = (j - f) * s
        BY <1>6, <2>1, StepSpanned
    <2>5. StepAt(d, h) = (h - f) * s
        BY StepSpanned
    <2>6. (a - f) * s + (j - f) * s = (h - f) * s
        BY ONLY <1>4, <2>1, h = j - f + a, a \in Int, h \in Int
    <2>7. (j - f) * s \in Int
        BY ONLY <1>4, <2>1
    <2>8. QED
        BY ONLY <1>9, <2>1, <2>3, <2>4, <2>5, <2>6, <2>7, h = j - f + a
<1>11. StepAt(d, a) \in Int
    BY ONLY <1>4, <1>9, a \in Int
<1>12. SliverOf(c, d, p, f)
    BY ONLY <1>1, <1>4, <1>7, <1>10, <1>11, a = p[1], b = p[2], c \in Regular, c = Sliver(d, a, b) DEF SliverOf
<1>13. QED
    BY <1>12

\* Rotations keep the base; slices and blocks move it to their first row.
LEMMA RotationBase ==
    ASSUME NEW v
    PROVE  Rotation(v).base = v.base /\ Unrotation(v).base = v.base
    BY DEF Rotation, Unrotation

LEMMA SliceBase ==
    ASSUME NEW v, NEW a, NEW b
    PROVE  /\ Slice(v, a, b).base = v.base + StepAt(v.dims[1], a)
           /\ Block(v, a, b).base = v.base + StepAt(v.dims[1], a)
<1>1. Slice(v, a, b).base = v.base + StepAt(v.dims[1], a)
    BY DEF Slice, View, StepAt
<1>2. Block(v, a, b).base = Slice(v, a, b).base
    BY DEF Block, Slice, View
<1>3. QED
    BY <1>1, <1>2

LEMMA ParenthesisBase ==
    ASSUME NEW v \in ViewsOf(Dimensions), Len(v.dims) > 1, NEW p, NEW q,
           p[1] \in Int, p[2] \in Int, q[1] \in Int, q[2] \in Int
    PROVE  Parenthesis(v, p, q).base = v.base + StepAt(v.dims[1], p[1]) + StepAt(v.dims[2], q[1])
<1> PICK L \in Nat : L = Len(v.dims) /\ L > 1
    BY PartsOf
<1> PICK s1 \in ViewsOf(Dimensions) : s1 = Slice(v, p[1], p[2])
    BY SliceOf
<1>1. Len(s1.dims) = L /\ \A k \in 1 .. L : k # 1 => s1.dims[k] = v.dims[k]
    BY SliceOf
<1> PICK r1 \in ViewsOf(Dimensions) : r1 = Rotation(s1)
    BY RotationOf
<1>2. r1.dims[1] = v.dims[2]
    <2>1. \A k \in 1 .. L - 1 : r1.dims[k] = s1.dims[k + 1]
        BY ONLY <1>1, s1 \in ViewsOf(Dimensions), r1 = Rotation(s1), RotationOf
    <2>2. 1 \in 1 .. L - 1 /\ 1 + 1 = 2 /\ 2 \in 1 .. L /\ 2 # 1
        BY ONLY L \in Nat, L > 1
    <2>3. QED
        BY ONLY <1>1, <2>1, <2>2
<1> PICK s2 : s2 = Slice(r1, q[1], q[2])
    OBVIOUS
<1>3. s1.base = v.base + StepAt(v.dims[1], p[1]) /\ r1.base = s1.base
    BY SliceBase, RotationBase
<1>4. s2.base = r1.base + StepAt(v.dims[2], q[1])
    BY <1>2, SliceBase
<1> PICK r2 : r2 = Rotation(s2)
    OBVIOUS
<1> PICK u1 : u1 = Unrotation(r2)
    OBVIOUS
<1> PICK u2 : u2 = Unrotation(u1)
    OBVIOUS
<1>5. Parenthesis(v, p, q) = u2
    BY DEF Parenthesis
<1>6. Parenthesis(v, p, q).base = s2.base
    BY <1>5, RotationBase
<1>7. QED
    BY ONLY <1>3, <1>4, <1>6

\* A call with a range, and one with an index and a range.
LEMMA RangedMaps ==
    ASSUME IInv, D > 1, NEW p \in Blocks(Valid), NEW q \in Blocks(Extension(view.dims[2])), Ranged(p, q)
    PROVE  Maps!Ranged(p, q)
<1> PICK d, e, ds : HasTwo(d, e, ds)
    BY TopTwo
<1>1. d \in Regular /\ e \in Regular /\ ds \in Seq(Regular) /\ d = view.dims[1] /\ e = view.dims[2] /\ d = Top
      /\ view.base \in Int
    BY DEF HasTwo, Top
<1>2. PICK c, f : SliverOf(c, d, p, f)
    <2>1. p \in Blocks(Extension(d))
        BY <1>1 DEF Valid
    <2>2. QED
        BY <1>1, <2>1, SliverSteps
<1>3. PICK g, h : SliverOf(g, e, q, h)
    BY <1>1, SliverSteps
<1> PICK w : w = Parenthesis(view, p, q)
    OBVIOUS
<1>4. c \in Regular /\ g \in Regular /\ p[1] \in Int /\ p[2] \in Int /\ q[1] \in Int /\ q[2] \in Int
    BY <1>2, <1>3 DEF SliverOf
<1>5. view \in ViewsOf(Dimensions) /\ view \in RegularViews /\ Len(view.dims) = D
    BY TopIs, ViewsHaveDimensions DEF D
<1>6. /\ w \in ViewsOf(Dimensions) /\ Len(w.dims) = D /\ w.dims[1] = c /\ w.dims[2] = g
      /\ \A k \in 3 .. D : w.dims[k] = view.dims[k]
    <2>1. /\ w \in ViewsOf(Dimensions) /\ Len(w.dims) = Len(view.dims)
          /\ w.dims[1] = Sliver(view.dims[1], p[1], p[2]) /\ w.dims[2] = Sliver(view.dims[2], q[1], q[2])
          /\ \A k \in 3 .. Len(view.dims) : w.dims[k] = view.dims[k]
        BY ONLY <1>4, <1>5, D > 1, w = Parenthesis(view, p, q), ParenthesisOf
    <2>2. c = Sliver(d, p[1], p[2]) /\ g = Sliver(e, q[1], q[2])
        BY <1>2, <1>3 DEF SliverOf
    <2>3. QED
        BY ONLY <1>1, <1>5, <2>1, <2>2
<1>7. w \in RegularViews
    <2>1. \A k \in 1 .. D : view.dims[k] \in Regular
        BY <1>5, ViewParts
    <2>2. \A k \in 1 .. D : k = 1 \/ k = 2 \/ k \in 3 .. D
        BY <1>5
    <2>3. \A k \in 1 .. D : w.dims[k] \in Regular
        BY ONLY <1>4, <1>6, <2>1, <2>2
    <2>4. QED
        BY ONLY <1>6, <2>3, AllRegular
<1> PICK b \in Int : b = w.base
    BY <1>7, ViewParts
<1>8. w = View(LedByTwo(c, g, ds), b)
    BY <1>4, <1>6, <1>7, TwoLed
<1>9. b = view.base + StepAt(d, p[1]) + StepAt(e, q[1])
    BY ONLY <1>1, <1>4, <1>5, D > 1, w = Parenthesis(view, p, q), b = w.base, ParenthesisBase, ZenonT(30)
<1> PICK P : P = [j \in Int |-> [k \in Int |-> j - f + p[1]]]
    OBVIOUS
<1> PICK Q : Q = [j \in Int |-> [k \in Int |-> k - h + q[1]]]
    OBVIOUS
<1>10. ASSUME NEW j, NEW k, InDimension(j, c), InDimension(k, g)
       PROVE  /\ InDimension(P[j][k], d) /\ InDimension(Q[j][k], e)
              /\ b + StepAt(c, j) + StepAt(g, k) = view.base + StepAt(d, P[j][k]) + StepAt(e, Q[j][k])
    <2>1. j \in Int /\ InDimension(j - f + p[1], d) /\ StepAt(c, j) \in Int
          /\ StepAt(d, p[1]) + StepAt(c, j) = StepAt(d, j - f + p[1])
        BY <1>2, <1>10 DEF SliverOf
    <2>2. k \in Int /\ InDimension(k - h + q[1], e) /\ StepAt(g, k) \in Int
          /\ StepAt(e, q[1]) + StepAt(g, k) = StepAt(e, k - h + q[1])
        BY <1>3, <1>10 DEF SliverOf
    <2>3. P[j][k] = j - f + p[1] /\ Q[j][k] = k - h + q[1]
        BY <2>1, <2>2
    <2>4. StepAt(d, p[1]) \in Int /\ StepAt(e, q[1]) \in Int
        BY <1>2, <1>3 DEF SliverOf
    <2>5. b + StepAt(c, j) + StepAt(g, k) = view.base + StepAt(d, j - f + p[1]) + StepAt(e, k - h + q[1])
        <3>1. view.base \in Int
            BY ONLY <1>1
        <3>2. QED
            BY ONLY <1>9, <2>1, <2>2, <2>4, <3>1
    <2>6. QED
        BY ONLY <2>1, <2>2, <2>3, <2>5
<1> PICK op : op = <<"range", p, q>>
    OBVIOUS
<1>11. Becomes(View(LedByTwo(c, g, ds), b), op)
    BY <1>8 DEF Ranged
<1>12. NamedByTwo(op, LedByTwo(Extension(c), Extension(g), Extensions(ds)), P, Q)
    <2>1. MovesTwo(c, g, b, d, e, P, Q)
        BY ONLY <1>10 DEF MovesTwo
    <2>2. QED
        BY ONLY IInv, HasTwo(d, e, ds), <1>4, <1>11, <2>1, b \in Int, TwoForTwo
<1>13. Maps!first = f /\ Extensions(view.dims)[2][1] = h /\ SubSeq(Extensions(view.dims), 3, Maps!D) = Extensions(ds)
       /\ Maps!D = D
    BY <1>1, <1>2, <1>3, TopIs, Zenon DEF HasTwo, SliverOf, Valid
<1> PICK xs : xs = <<Maps!Bounds(Maps!first, Maps!first + Maps!Count(p)),
                     Maps!Bounds(Extensions(view.dims)[2][1], Extensions(view.dims)[2][1] + Maps!Count(q))>>
                       \o SubSeq(Extensions(view.dims), 3, Maps!D)
    OBVIOUS
<1>14. xs = LedByTwo(Extension(c), Extension(g), Extensions(ds))
    <2>1. Extension(c) = Maps!Bounds(f, f + Maps!Count(p)) /\ Extension(g) = Maps!Bounds(h, h + Maps!Count(q))
        BY <1>2, <1>3 DEF SliverOf
    <2>2. QED
        BY <1>13, <2>1 DEF LedByTwo
<1>15. NamedByTwo(op, xs, P, Q)
    BY ONLY <1>12, <1>14
<1>16. ASSUME NEW i \in Maps!Box(xs)
       PROVE  Elem[LedByTwo(P[i[1]][i[2]], Q[i[1]][i[2]], SubSeq(i, 3, Maps!D))] =
              Elem[<<i[1] - Maps!first + p[1], i[2] - Extensions(view.dims)[2][1] + q[1]>> \o SubSeq(i, 3, Maps!D)]
    <2>1. i[1] \in Int /\ i[2] \in Int
        BY ONLY <1>15, i \in Maps!Box(xs) DEF NamedByTwo
    <2>2. P[i[1]][i[2]] = i[1] - f + p[1] /\ Q[i[1]][i[2]] = i[2] - h + q[1]
        BY ONLY <2>1, P = [j \in Int |-> [k \in Int |-> j - f + p[1]]], Q = [j \in Int |-> [k \in Int |-> k - h + q[1]]]
    <2>3. QED
        BY ONLY <1>13, <2>2 DEF LedByTwo
<1>17. Elem' = [i \in Maps!Box(xs) |->
           Elem[<<i[1] - Maps!first + p[1], i[2] - Extensions(view.dims)[2][1] + q[1]>> \o SubSeq(i, 3, Maps!D)]]
    BY ONLY <1>15, <1>16 DEF NamedByTwo
<1>18. call' = op /\ width' = width /\ Extensions(view.dims)' = xs
    BY ONLY <1>15 DEF NamedByTwo
<1>19. Maps!D > 1
    BY <1>13
<1>20. QED
    BY <1>17, <1>18, <1>19 DEF Maps!Ranged, Maps!Becomes, Elem

\* The first two dimensions, exchanged.
LEMMA TransposedMaps ==
    ASSUME IInv, Transposed
    PROVE  Maps!Transposed
<1>1. D > 1
    BY DEF Transposed
<1> PICK d, e, ds : HasTwo(d, e, ds)
    BY <1>1, TopTwo
<1>2. d \in Regular /\ e \in Regular /\ ds \in Seq(Regular) /\ d = view.dims[1] /\ e = view.dims[2] /\ view.base \in Int
    BY DEF HasTwo, Top
<1> PICK v \in RegularViews : v = view
    BY TopIs
<1> PICK vs \in Seq(Regular), L \in Nat : vs = v.dims /\ L = Len(vs) /\ L > 1 /\ L = D
    BY <1>1, ViewParts DEF D
<1> PICK es : es = Transpose(vs, 1)
    OBVIOUS
<1>3. /\ es \in Seq(Regular) /\ es # <<>> /\ Len(es) = L /\ es[1] = e /\ es[2] = d
      /\ \A k \in 3 .. L : es[k] = vs[k]
    <2>1. CanSwap(vs, L, 1, Regular)
        BY ONLY vs \in Seq(Regular), L = Len(vs), L > 1, L \in Nat DEF CanSwap
    <2>2. Swapped(es, vs, L, 1, Regular)
        BY ONLY <2>1, es = Transpose(vs, 1), TransposeSwaps
    <2>3. /\ es \in [1 .. L -> Regular] /\ es[1] = vs[2] /\ es[2] = vs[1]
          /\ \A m \in 1 .. L : m # 1 /\ m # 2 => es[m] = vs[m]
        BY ONLY <2>2, L \in Nat, L > 1 DEF Swapped
    <2>4. \A k \in 3 .. L : k \in 1 .. L /\ k # 1 /\ k # 2
        BY ONLY L \in Nat
    <2>5. es \in Seq(Regular) /\ Len(es) = L /\ es # <<>>
        BY ONLY <2>3, L \in Nat, L > 1
    <2>6. QED
        BY ONLY <1>2, <2>3, <2>4, <2>5, vs = v.dims, v = view
<1> PICK u \in RegularViews : u = View(es, v.base) /\ u = [v EXCEPT !.dims = es] /\ u.dims = es /\ u.base = v.base
    <2>1. [v EXCEPT !.dims = es] = View(es, v.base) /\ [v EXCEPT !.dims = es] \in RegularViews
        BY <1>3, DimsReplaced
    <2>2. View(es, v.base).dims = es /\ View(es, v.base).base = v.base
        BY DEF View
    <2>3. QED
        BY ONLY <2>1, <2>2
<1> PICK b \in Int : b = v.base
    BY <1>2
<1>4. u = View(LedByTwo(e, d, ds), b)
    <2>1. /\ Len(u.dims) = D /\ u.dims[1] = e /\ u.dims[2] = d
          /\ \A k \in 3 .. D : u.dims[k] = view.dims[k]
        BY ONLY <1>3, u.dims = es, L = D, vs = v.dims, v = view
    <2>2. u = View(LedByTwo(e, d, ds), u.base)
        BY ONLY HasTwo(d, e, ds), <1>2, <2>1, u \in RegularViews, TwoLed
    <2>3. QED
        BY ONLY <2>2, u.base = v.base, b = v.base
<1> PICK P : P = [j \in Int |-> [k \in Int |-> k]]
    OBVIOUS
<1> PICK Q : Q = [j \in Int |-> [k \in Int |-> j]]
    OBVIOUS
<1>5. MovesTwo(e, d, b, d, e, P, Q)
    <2>1. ASSUME NEW j, NEW k, InDimension(j, e), InDimension(k, d)
          PROVE  /\ InDimension(P[j][k], d) /\ InDimension(Q[j][k], e)
                 /\ b + StepAt(e, j) + StepAt(d, k) = view.base + StepAt(d, P[j][k]) + StepAt(e, Q[j][k])
        <3>1. j \in Int /\ k \in Int
            BY <1>2, <2>1, SizeOf DEF InDimension
        <3>2. P[j][k] = k /\ Q[j][k] = j
            BY <3>1
        <3>3. StepAt(e, j) \in Int /\ StepAt(d, k) \in Int
            BY ONLY <1>2, <3>1, StepInt
        <3>4. QED
            BY ONLY <1>2, <2>1, <3>2, <3>3, b = v.base, v = view
    <2>2. QED
        BY ONLY <2>1 DEF MovesTwo
<1> PICK op : op = <<"transposed">>
    OBVIOUS
<1>6. Becomes(View(LedByTwo(e, d, ds), b), op)
    BY <1>4 DEF Transposed
<1>7. NamedByTwo(op, LedByTwo(Extension(e), Extension(d), Extensions(ds)), P, Q)
    BY ONLY IInv, HasTwo(d, e, ds), <1>2, <1>5, <1>6, b \in Int, TwoForTwo
<1> PICK xs : xs = <<Extensions(view.dims)[2], Extensions(view.dims)[1]>> \o SubSeq(Extensions(view.dims), 3, Maps!D)
    OBVIOUS
<1>8. xs = LedByTwo(Extension(e), Extension(d), Extensions(ds))
    BY DEF HasTwo, LedByTwo
<1>9. NamedByTwo(op, xs, P, Q)
    BY ONLY <1>7, <1>8
<1>10. ASSUME NEW i \in Maps!Box(xs)
       PROVE  Elem[LedByTwo(P[i[1]][i[2]], Q[i[1]][i[2]], SubSeq(i, 3, Maps!D))] =
              Elem[<<i[2], i[1]>> \o SubSeq(i, 3, Maps!D)]
    <2>1. i[1] \in Int /\ i[2] \in Int
        BY ONLY <1>9, i \in Maps!Box(xs) DEF NamedByTwo
    <2>2. P[i[1]][i[2]] = i[2] /\ Q[i[1]][i[2]] = i[1]
        BY ONLY <2>1, P = [j \in Int |-> [k \in Int |-> k]], Q = [j \in Int |-> [k \in Int |-> j]]
    <2>3. QED
        BY ONLY <2>2 DEF LedByTwo
<1>11. Elem' = [i \in Maps!Box(xs) |-> Elem[<<i[2], i[1]>> \o SubSeq(i, 3, Maps!D)]]
    BY ONLY <1>9, <1>10 DEF NamedByTwo
<1>12. call' = op /\ width' = width /\ Extensions(view.dims)' = xs
    BY ONLY <1>9 DEF NamedByTwo
<1>13. Maps!D > 1
    BY <1>1, TopIs
<1>14. QED
    BY <1>11, <1>12, <1>13 DEF Maps!Transposed, Maps!Becomes, Elem

LEMMA PatchSteps ==
    ASSUME NEW d \in Regular, NEW p \in Blocks(Extension(d))
    PROVE  \E c : PatchOf(c, d, p)
<1>1. p[1] \in Int /\ p[2] \in Int /\ p[1] <= p[2] /\ (d.nelems = 0 => p[1] = p[2])
    BY BlockOf
<1> PICK a \in Int, b \in Int : a = p[1] /\ b = p[2]
    BY <1>1
<1>2. a < b /\ Extension(d)[1] <= a /\ b <= Extension(d)[2] /\ p = <<a, b>>
    <2>1. Extension(d)[1] \in Int /\ Extension(d)[2] \in Int
        BY SizeOf
    <2>2. p \in (Extension(d)[1] .. Extension(d)[2]) \X (Extension(d)[1] .. Extension(d)[2]) /\ p[1] < p[2]
        BY DEF Blocks, Subranges
    <2>3. QED
        BY <2>1, <2>2
<1>3. d.nelems # 0
    BY <1>1, <1>2
<1> PICK s, f, n : Spanned(d, s, f, n)
    BY <1>3, DimensionCases
<1>4. /\ s \in Int /\ f \in Int /\ n \in Nat /\ s # 0 /\ Extension(d) = <<f, f + n>>
      /\ d.stride = s /\ d.offset = s * f
    BY DEF Spanned
<1> PICK m \in Nat : m = b - a /\ m # 0
    BY <1>2
<1> PICK c : c = DimensionOf(s, a * s, s * m)
    OBVIOUS
<1>5. c.stride = s /\ c.offset = s * a /\ c.nelems = s * m
    <2>1. a * s = s * a
        BY ONLY <1>4, a \in Int
    <2>2. QED
        BY ONLY <2>1, c = DimensionOf(s, a * s, s * m) DEF DimensionOf
<1>6. c \in Regular
    <2>1. s * a \in Int /\ s * m \in Int
        BY ONLY <1>4, a \in Int, m \in Nat
    <2>2. IsRegular(s, s * a, s * m)
        BY ONLY <1>4, <2>1, a \in Int, m \in Nat DEF IsRegular
    <2>3. a * s = s * a
        BY ONLY <1>4, a \in Int
    <2>4. IsRegular(s, a * s, s * m)
        BY ONLY <2>2, <2>3
    <2>5. QED
        BY ONLY <2>4, c = DimensionOf(s, a * s, s * m), MadeRegular
<1>7. Spanned(c, s, a, m)
    BY ONLY <1>4, <1>5, a \in Int, m \in Nat, m # 0, MadeSpanned
<1>8. Extension(c) = p
    <2>1. Extension(c) = <<a, a + m>> /\ a + m = b
        BY <1>7 DEF Spanned
    <2>2. QED
        BY ONLY <1>2, <2>1
<1>9. f <= a /\ b <= f + n /\ StepAt(d, a) = (a - f) * s
    BY <1>2, <1>4, StepSpanned
<1>10. ASSUME NEW j, InDimension(j, c)
       PROVE  /\ j \in Int /\ InDimension(j, d) /\ StepAt(c, j) \in Int
              /\ StepAt(d, a) + StepAt(c, j) = StepAt(d, j)
    <2>1. j \in Int /\ a <= j /\ j < a + m
        BY <1>7, <1>10, StepSpanned
    <2>2. f <= j /\ j < f + n
        BY ONLY <1>4, <1>9, <2>1, a \in Int, b \in Int, m \in Nat, m = b - a
    <2>3. InDimension(j, d)
        BY <2>1, <2>2, StepSpanned
    <2>4. StepAt(c, j) = (j - a) * s
        BY <1>7, <2>1, StepSpanned
    <2>5. StepAt(d, j) = (j - f) * s
        BY <2>1, StepSpanned
    <2>6. (a - f) * s + (j - a) * s = (j - f) * s /\ (j - a) * s \in Int
        BY ONLY <1>4, <2>1, a \in Int
    <2>7. QED
        BY ONLY <1>9, <2>1, <2>3, <2>4, <2>5, <2>6
<1>11. StepAt(d, a) \in Int
    BY ONLY <1>4, <1>9, a \in Int
<1>12. PatchOf(c, d, p)
    <2>1. c = DimensionOf(d.stride, p[1] * d.stride, d.stride * (p[2] - p[1]))
        BY ONLY <1>4, c = DimensionOf(s, a * s, s * m), a = p[1], b = p[2], m = b - a
    <2>2. QED
        BY ONLY <1>1, <1>6, <1>8, <1>10, <1>11, <2>1, a = p[1] DEF PatchOf
<1>13. QED
    BY <1>12

\* What a block makes of the leading dimension.
LEMMA BlockTop ==
    ASSUME NEW v \in RegularViews, NEW a \in Int, NEW b \in Int, a <= b, v.dims[1].nelems = 0 => a = b
    PROVE  Block(v, a, b).dims[1] = DimensionOf(v.dims[1].stride, a * v.dims[1].stride, v.dims[1].stride * (b - a))
<1> PICK w \in RegularViews : w = Slice(v, a, b)
    BY SliceView
<1>1. w.dims[1] = DimensionOf(v.dims[1].stride, v.dims[1].offset, v.dims[1].stride * (b - a))
    BY SliceView
<1> PICK t \in Regular : t = w.dims[1]
    BY ViewParts
<1>2. [t EXCEPT !.offset = a * t.stride] = DimensionOf(t.stride, a * t.stride, t.nelems)
    BY Offset
<1>3. [t EXCEPT !.offset = a * t.stride] \in Regular
    BY Offset
<1> PICK d \in Regular : d = [t EXCEPT !.offset = a * t.stride]
    BY <1>3
<1>4. Block(v, a, b).dims = [w.dims EXCEPT ![1] = d]
    <2>1. Reindex(w.dims, a) = [w.dims EXCEPT ![1] = d]
        BY DEF Reindex
    <2>2. Reindex(w.dims, a) \in Seq(Regular) /\ Reindex(w.dims, a) # <<>>
        BY ViewParts, ReindexRegular
    <2>3. Block(v, a, b) = View(Reindex(w.dims, a), w.base)
        BY <2>2, DimsReplaced DEF Block
    <2>4. QED
        BY ONLY <2>1, <2>3 DEF View
<1>5. Block(v, a, b).dims[1] = d
    <2>1. w.dims \in Seq(Regular) /\ w.dims # <<>>
        BY ViewParts
    <2>2. [w.dims EXCEPT ![1] = d][1] = d
        BY <2>1, TopReplaced
    <2>3. QED
        BY ONLY <1>4, <2>2
<1>6. QED
    BY ONLY <1>1, <1>2, <1>5, t = w.dims[1], d = [t EXCEPT !.offset = a * t.stride] DEF DimensionOf

\* The view u is the stencil of v with these two dimensions.
StencilFrom(u, v, p, q, c, g) ==
    /\ u = Unrotation(Block(Rotation(Block(v, p[1], p[2])), q[1], q[2]))
    /\ Len(u.dims) = Len(v.dims) /\ u.dims[1] = c /\ u.dims[2] = g
    /\ \A k \in 3 .. Len(v.dims) : u.dims[k] = v.dims[k]
    /\ u.base = v.base + StepAt(v.dims[1], p[1]) + StepAt(v.dims[2], q[1])

\* The two dimensions of a stencil, and where it starts.
LEMMA StencilOf ==
    ASSUME NEW v \in RegularViews, Len(v.dims) > 1, NEW p, NEW q, NEW c, NEW g,
           PatchOf(c, v.dims[1], p), PatchOf(g, v.dims[2], q)
    PROVE  \E u \in RegularViews : StencilFrom(u, v, p, q, c, g)
<1> PICK L \in Nat : L = Len(v.dims) /\ L > 1
    BY ViewParts
<1> PICK a1, a2, b1, b2 : a1 = p[1] /\ a2 = p[2] /\ b1 = q[1] /\ b2 = q[2]
    OBVIOUS
<1>1. /\ a1 \in Int /\ a2 \in Int /\ a1 <= a2 /\ (v.dims[1].nelems = 0 => a1 = a2)
      /\ c = DimensionOf(v.dims[1].stride, a1 * v.dims[1].stride, v.dims[1].stride * (a2 - a1))
    BY DEF PatchOf
<1>2. /\ b1 \in Int /\ b2 \in Int /\ b1 <= b2 /\ (v.dims[2].nelems = 0 => b1 = b2)
      /\ g = DimensionOf(v.dims[2].stride, b1 * v.dims[2].stride, v.dims[2].stride * (b2 - b1))
    BY DEF PatchOf
<1> PICK s1 \in RegularViews : s1 = Block(v, a1, a2)
    BY <1>1, BlockView
<1>3. Len(s1.dims) = L /\ s1.dims[1] = c /\ \A k \in 2 .. L : s1.dims[k] = v.dims[k]
    <2>1. Len(s1.dims) = Len(v.dims) /\ \A k \in 1 .. Len(v.dims) : k # 1 => s1.dims[k] = v.dims[k]
        BY <1>1, BlockView, SMTT(30)
    <2>2. s1.dims[1] = c
        BY <1>1, BlockTop, SMTT(30)
    <2>3. \A k \in 2 .. L : k \in 1 .. L /\ k # 1
        BY ONLY L \in Nat
    <2>4. QED
        BY ONLY <2>1, <2>2, <2>3, L = Len(v.dims)
<1> PICK r1 \in RegularViews : r1 = Rotation(s1)
    BY RotationView
<1>4. Len(r1.dims) = L /\ r1.dims[L] = c /\ \A k \in 1 .. L - 1 : r1.dims[k] = v.dims[k + 1]
    <2>1. /\ Len(r1.dims) = Len(s1.dims) /\ r1.dims[Len(s1.dims)] = s1.dims[1]
          /\ \A k \in 1 .. Len(s1.dims) - 1 : r1.dims[k] = s1.dims[k + 1]
        BY ONLY s1 \in RegularViews, r1 = Rotation(s1), RotationView
    <2>2. \A k \in 1 .. L - 1 : k + 1 \in 2 .. L
        BY ONLY L \in Nat
    <2>3. QED
        BY ONLY <1>3, <2>1, <2>2
<1>5. r1.dims[1] = v.dims[2]
    <2>1. 1 \in 1 .. L - 1 /\ 1 + 1 = 2
        BY ONLY L \in Nat, L > 1
    <2>2. QED
        BY ONLY <1>4, <2>1
<1> PICK s2 : s2 = Block(r1, b1, b2)
    OBVIOUS
<1>6. b1 \in Int /\ b2 \in Int /\ b1 <= b2 /\ (r1.dims[1].nelems = 0 => b1 = b2)
    BY ONLY <1>2, <1>5
<1>7. s2 \in RegularViews
    BY ONLY <1>6, r1 \in RegularViews, s2 = Block(r1, b1, b2), BlockView
<1>8. Len(s2.dims) = L /\ s2.dims[1] = g /\ s2.dims[L] = c /\ \A k \in 2 .. L - 1 : s2.dims[k] = v.dims[k + 1]
    <2>1. Len(s2.dims) = Len(r1.dims) /\ \A k \in 1 .. Len(r1.dims) : k # 1 => s2.dims[k] = r1.dims[k]
        BY ONLY <1>6, r1 \in RegularViews, s2 = Block(r1, b1, b2), BlockView
    <2>2. s2.dims[1] = g
        <3>1. s2.dims[1] = DimensionOf(r1.dims[1].stride, b1 * r1.dims[1].stride, r1.dims[1].stride * (b2 - b1))
            BY ONLY <1>6, r1 \in RegularViews, s2 = Block(r1, b1, b2), BlockTop
        <3>2. QED
            BY ONLY <1>2, <1>5, <3>1
    <2>3. L # 1 /\ L \in 1 .. L /\ \A k \in 2 .. L - 1 : k \in 1 .. L - 1 /\ k \in 1 .. L /\ k # 1
        BY ONLY L \in Nat, L > 1
    <2>4. QED
        BY ONLY <1>4, <2>1, <2>2, <2>3
<1> PICK u \in RegularViews : u = Unrotation(s2)
    BY <1>7, UnrotationView
<1>9. Len(u.dims) = L /\ u.dims[1] = c /\ u.dims[2] = g /\ \A k \in 3 .. L : u.dims[k] = v.dims[k]
    <2>1. /\ Len(u.dims) = Len(s2.dims) /\ u.dims[1] = s2.dims[Len(s2.dims)]
          /\ \A k \in 2 .. Len(s2.dims) : u.dims[k] = s2.dims[k - 1]
        BY ONLY <1>7, u = Unrotation(s2), UnrotationView
    <2>2. 2 \in 2 .. L /\ 2 - 1 = 1
        BY ONLY L \in Nat, L > 1
    <2>3. \A k \in 3 .. L : k \in 2 .. L /\ k - 1 \in 2 .. L - 1 /\ (k - 1) + 1 = k
        BY ONLY L \in Nat, L > 1
    <2>4. QED
        BY ONLY <1>8, <2>1, <2>2, <2>3
<1>10. u.base = v.base + StepAt(v.dims[1], a1) + StepAt(v.dims[2], b1)
    <2>1. s1.base = v.base + StepAt(v.dims[1], a1) /\ r1.base = s1.base
        BY SliceBase, RotationBase
    <2>2. s2.base = r1.base + StepAt(v.dims[2], b1) /\ u.base = s2.base
        BY <1>5, SliceBase, RotationBase
    <2>3. QED
        BY ONLY <2>1, <2>2
<1>11. u = Unrotation(Block(Rotation(Block(v, p[1], p[2])), q[1], q[2]))
    OBVIOUS
<1>12. QED
    BY ONLY <1>9, <1>10, <1>11, u \in RegularViews, L = Len(v.dims), a1 = p[1], b1 = q[1]
       DEF StencilFrom

\* The ranges of a stencil.
LEMMA StenciledMaps ==
    ASSUME IInv, D > 1, NEW p \in Blocks(Valid), NEW q \in Blocks(Extension(view.dims[2])), Stenciled(p, q)
    PROVE  Maps!Stenciled(p, q)
<1> PICK d, e, ds : HasTwo(d, e, ds)
    BY TopTwo
<1>1. d \in Regular /\ e \in Regular /\ ds \in Seq(Regular) /\ d = view.dims[1] /\ e = view.dims[2] /\ d = Top
      /\ view.base \in Int
    BY DEF HasTwo, Top
<1>2. PICK c : PatchOf(c, d, p)
    <2>1. p \in Blocks(Extension(d))
        BY <1>1 DEF Valid
    <2>2. QED
        BY <1>1, <2>1, PatchSteps
<1>3. PICK g : PatchOf(g, e, q)
    BY <1>1, PatchSteps
<1>4. c \in Regular /\ g \in Regular
    BY <1>2, <1>3 DEF PatchOf
<1>5. view \in RegularViews /\ Len(view.dims) = D
    BY TopIs DEF D
<1>6. PICK u \in RegularViews :
          /\ u = Unrotation(Block(Rotation(Block(view, p[1], p[2])), q[1], q[2]))
          /\ Len(u.dims) = D /\ u.dims[1] = c /\ u.dims[2] = g
          /\ \A k \in 3 .. D : u.dims[k] = view.dims[k]
          /\ u.base = view.base + StepAt(d, p[1]) + StepAt(e, q[1])
    <2> PICK v \in RegularViews : v = view
        BY <1>5
    <2>1. PatchOf(c, v.dims[1], p) /\ PatchOf(g, v.dims[2], q) /\ Len(v.dims) > 1
        BY <1>1, <1>2, <1>3, <1>5
    <2>2. \E u \in RegularViews : StencilFrom(u, v, p, q, c, g)
        BY <2>1, StencilOf
    <2>3. QED
        BY ONLY <1>1, <1>5, <2>2, v = view DEF StencilFrom
<1> PICK b \in Int : b = u.base
    BY <1>6, ViewParts
<1>7. u = View(LedByTwo(c, g, ds), b)
    BY <1>4, <1>6, TwoLed
<1> PICK P : P = [j \in Int |-> [k \in Int |-> j]]
    OBVIOUS
<1> PICK Q : Q = [j \in Int |-> [k \in Int |-> k]]
    OBVIOUS
<1>8. MovesTwo(c, g, b, d, e, P, Q)
    <2>1. ASSUME NEW j, NEW k, InDimension(j, c), InDimension(k, g)
          PROVE  /\ InDimension(P[j][k], d) /\ InDimension(Q[j][k], e)
                 /\ b + StepAt(c, j) + StepAt(g, k) = view.base + StepAt(d, P[j][k]) + StepAt(e, Q[j][k])
        <3>1. j \in Int /\ InDimension(j, d) /\ StepAt(c, j) \in Int /\ StepAt(d, p[1]) + StepAt(c, j) = StepAt(d, j)
            BY <1>2, <2>1 DEF PatchOf
        <3>2. k \in Int /\ InDimension(k, e) /\ StepAt(g, k) \in Int /\ StepAt(e, q[1]) + StepAt(g, k) = StepAt(e, k)
            BY <1>3, <2>1 DEF PatchOf
        <3>3. P[j][k] = j /\ Q[j][k] = k
            BY <3>1, <3>2
        <3>4. StepAt(d, p[1]) \in Int /\ StepAt(e, q[1]) \in Int
            BY <1>2, <1>3 DEF PatchOf
        <3>5. b + StepAt(c, j) + StepAt(g, k) = view.base + StepAt(d, j) + StepAt(e, k)
            <4>1. view.base \in Int /\ b = view.base + StepAt(d, p[1]) + StepAt(e, q[1])
                BY ONLY <1>1, <1>6, b = u.base
            <4>2. QED
                BY ONLY <3>1, <3>2, <3>4, <4>1
        <3>6. QED
            BY ONLY <3>1, <3>2, <3>3, <3>5
    <2>2. QED
        BY ONLY <2>1 DEF MovesTwo
<1> PICK op : op = <<"stenciled", p, q>>
    OBVIOUS
<1>9. Becomes(View(LedByTwo(c, g, ds), b), op)
    BY <1>6, <1>7 DEF Stenciled
<1>10. NamedByTwo(op, LedByTwo(Extension(c), Extension(g), Extensions(ds)), P, Q)
    BY ONLY IInv, HasTwo(d, e, ds), <1>4, <1>8, <1>9, b \in Int, TwoForTwo
<1> PICK xs : xs = <<p, q>> \o SubSeq(Extensions(view.dims), 3, Maps!D)
    OBVIOUS
<1>11. xs = LedByTwo(Extension(c), Extension(g), Extensions(ds))
    <2>1. Extension(c) = p /\ Extension(g) = q
        BY <1>2, <1>3 DEF PatchOf
    <2>2. SubSeq(Extensions(view.dims), 3, Maps!D) = Extensions(ds)
        BY DEF HasTwo
    <2>3. QED
        BY ONLY <2>1, <2>2, xs = <<p, q>> \o SubSeq(Extensions(view.dims), 3, Maps!D) DEF LedByTwo
<1>12. NamedByTwo(op, xs, P, Q)
    BY ONLY <1>10, <1>11
<1>13. ASSUME NEW i \in Maps!Box(xs)
       PROVE  Elem[LedByTwo(P[i[1]][i[2]], Q[i[1]][i[2]], SubSeq(i, 3, Maps!D))] = Elem[i]
    <2>1. i[1] \in Int /\ i[2] \in Int /\ i = LedByTwo(i[1], i[2], SubSeq(i, 3, Maps!D))
        BY ONLY <1>12, i \in Maps!Box(xs) DEF NamedByTwo
    <2>2. P[i[1]][i[2]] = i[1] /\ Q[i[1]][i[2]] = i[2]
        BY ONLY <2>1, P = [j \in Int |-> [k \in Int |-> j]], Q = [j \in Int |-> [k \in Int |-> k]]
    <2>3. QED
        BY ONLY <2>1, <2>2
<1>14. Elem' = [i \in Maps!Box(xs) |-> Elem[i]]
    BY ONLY <1>12, <1>13 DEF NamedByTwo
<1>15. call' = op /\ width' = width /\ Extensions(view.dims)' = xs
    BY ONLY <1>12 DEF NamedByTwo
<1>16. Maps!D > 1
    BY TopIs
<1>17. QED
    BY <1>14, <1>15, <1>16 DEF Maps!Stenciled, Maps!Becomes, Elem

\* A call with a range and an index.
LEMMA RangedElementMaps ==
    ASSUME IInv, D > 1, NEW p \in Blocks(Valid), NEW j, InDimension(j, view.dims[2]), RangedElement(p, j)
    PROVE  Maps!RangedElement(p, j)
<1> PICK d, e, ds : HasTwo(d, e, ds)
    BY TopTwo
<1>1. d \in Regular /\ e \in Regular /\ ds \in Seq(Regular) /\ d = view.dims[1] /\ e = view.dims[2] /\ d = Top
      /\ view.base \in Int
    BY DEF HasTwo, Top
<1>2. PICK c, f : SliverOf(c, d, p, f)
    <2>1. p \in Blocks(Extension(d))
        BY <1>1 DEF Valid
    <2>2. QED
        BY <1>1, <2>1, SliverSteps
<1>3. /\ c \in Regular /\ p[1] \in Int /\ p[2] \in Int /\ p[1] <= p[2] /\ (d.nelems = 0 => p[1] = p[2])
      /\ c = Sliver(d, p[1], p[2])
    BY <1>2 DEF SliverOf
<1>4. j \in Int
    BY <1>1, SizeOf DEF InDimension
<1> PICK v \in RegularViews, L \in Nat : v = view /\ L = Len(v.dims) /\ L > 1 /\ L = D
    BY TopIs, ViewParts DEF D
<1> PICK a1, a2 : a1 = p[1] /\ a2 = p[2]
    OBVIOUS
<1>5. a1 \in Int /\ a2 \in Int /\ a1 <= a2 /\ (v.dims[1].nelems = 0 => a1 = a2)
    BY ONLY <1>1, <1>3, v = view, a1 = p[1], a2 = p[2]
<1> PICK s \in RegularViews : s = Slice(v, a1, a2)
    BY <1>5, SliceView
<1>6. Len(s.dims) = L /\ s.dims[1] = c /\ (\A k \in 1 .. L : k # 1 => s.dims[k] = v.dims[k])
      /\ s.base = v.base + StepAt(d, p[1])
    <2>1. /\ Len(s.dims) = Len(v.dims)
          /\ s.dims[1] = DimensionOf(v.dims[1].stride, v.dims[1].offset, v.dims[1].stride * (a2 - a1))
          /\ \A k \in 1 .. Len(v.dims) : k # 1 => s.dims[k] = v.dims[k]
        BY ONLY <1>5, v \in RegularViews, s = Slice(v, a1, a2), SliceView, ZenonT(30)
    <2>2. s.dims[1] = c
        BY ONLY <1>1, <1>3, <2>1, v = view, a1 = p[1], a2 = p[2] DEF Sliver
    <2>3. s.base = v.base + StepAt(d, p[1])
        <3>1. s.base = v.base + StepAt(v.dims[1], a1)
            BY ONLY <1>5, v \in RegularViews, s = Slice(v, a1, a2), SliceBase
        <3>2. QED
            BY ONLY <3>1, <1>1, v = view, a1 = p[1]
    <2>4. QED
        BY ONLY <2>1, <2>2, <2>3, L = Len(v.dims)
<1> PICK r \in RegularViews : r = Rotation(s)
    BY RotationView
<1>7. Len(r.dims) = L /\ r.dims[L] = c /\ r.base = s.base /\ \A k \in 1 .. L - 1 : r.dims[k] = v.dims[k + 1]
    <2>1. /\ Len(r.dims) = Len(s.dims) /\ r.dims[Len(s.dims)] = s.dims[1]
          /\ \A k \in 1 .. Len(s.dims) - 1 : r.dims[k] = s.dims[k + 1]
        BY ONLY s \in RegularViews, r = Rotation(s), RotationView
    <2>2. \A k \in 1 .. L - 1 : k + 1 \in 1 .. L /\ k + 1 # 1
        BY ONLY L \in Nat
    <2>3. r.base = s.base
        BY RotationBase
    <2>4. QED
        BY ONLY <1>6, <2>1, <2>2, <2>3
<1>8. r.dims[1] = e
    <2>1. 1 \in 1 .. L - 1 /\ 1 + 1 = 2
        BY ONLY L \in Nat, L > 1
    <2>2. QED
        BY ONLY <1>1, <1>7, <2>1, v = view
<1> PICK x \in RegularViews : x = Subscript(r, j)
    BY <1>4, <1>7, ElementRegular
<1>9. Len(x.dims) = L - 1 /\ x.base = r.base + StepAt(e, j) /\ \A k \in 1 .. L - 1 : x.dims[k] = r.dims[k + 1]
    <2>1. x.dims = Tail(r.dims) /\ x.base = r.base + StepAt(r.dims[1], j)
        BY ONLY x = Subscript(r, j) DEF Subscript, View, StepAt
    <2>2. r.dims \in Seq(Regular) /\ Len(r.dims) > 1
        BY <1>7, ViewParts
    <2>3. Len(Tail(r.dims)) = Len(r.dims) - 1 /\ \A k \in 1 .. Len(r.dims) - 1 : Tail(r.dims)[k] = r.dims[k + 1]
        BY ONLY <2>2, TailRegular
    <2>4. QED
        BY ONLY <1>7, <1>8, <2>1, <2>3
<1> PICK u \in RegularViews : u = Unrotation(x)
    BY UnrotationView
<1>10. Len(u.dims) = L - 1 /\ u.dims[1] = c /\ u.base = x.base /\ \A k \in 2 .. L - 1 : u.dims[k] = v.dims[k + 1]
    <2>1. /\ Len(u.dims) = Len(x.dims) /\ u.dims[1] = x.dims[Len(x.dims)]
          /\ \A k \in 2 .. Len(x.dims) : u.dims[k] = x.dims[k - 1]
        BY ONLY x \in RegularViews, u = Unrotation(x), UnrotationView
    <2>2. L - 1 \in 1 .. L - 1 /\ (L - 1) + 1 = L
        BY ONLY L \in Nat, L > 1
    <2>3. u.dims[1] = c
        BY ONLY <1>7, <1>9, <2>1, <2>2
    <2>4. ASSUME NEW k \in 2 .. L - 1 PROVE u.dims[k] = v.dims[k + 1]
        <3>1. k - 1 \in 1 .. L - 1 /\ (k - 1) + 1 = k /\ k \in 1 .. L - 1
            OBVIOUS
        <3>2. u.dims[k] = x.dims[k - 1]
            BY ONLY <1>9, <2>1, k \in 2 .. L - 1
        <3>3. x.dims[k - 1] = r.dims[k]
            BY ONLY <1>9, <3>1
        <3>4. QED
            BY ONLY <1>7, <3>1, <3>2, <3>3
    <2>5. u.base = x.base
        BY RotationBase
    <2>6. QED
        BY ONLY <1>9, <2>1, <2>3, <2>4, <2>5
<1> PICK b \in Int : b = u.base
    BY ViewParts
<1>11. u = View(Led(c, ds), b)
    <2>1. /\ Len(u.dims) = D - 1 /\ u.dims[1] = c
          /\ \A k \in 2 .. D - 1 : u.dims[k] = view.dims[k + 1]
        BY ONLY <1>10, L = D, v = view
    <2>2. u = View(Led(c, ds), u.base)
        BY ONLY HasTwo(d, e, ds), <1>3, <2>1, u \in RegularViews, OneLed, SMTT(30)
    <2>3. QED
        BY ONLY <2>2, b = u.base
<1>12. b = view.base + StepAt(d, p[1]) + StepAt(e, j)
    BY ONLY <1>6, <1>7, <1>9, <1>10, b = u.base, v = view
<1> PICK P, Q : P = [k \in Int |-> k - f + p[1]] /\ Q = [k \in Int |-> j]
    OBVIOUS
<1>13. ASSUME NEW k, InDimension(k, c)
       PROVE  /\ InDimension(P[k], d) /\ InDimension(Q[k], e)
              /\ b + StepAt(c, k) = view.base + StepAt(d, P[k]) + StepAt(e, Q[k])
    <2>1. k \in Int /\ InDimension(k - f + p[1], d) /\ StepAt(c, k) \in Int
          /\ StepAt(d, p[1]) + StepAt(c, k) = StepAt(d, k - f + p[1])
        BY <1>2, <1>13 DEF SliverOf
    <2>2. P[k] = k - f + p[1] /\ Q[k] = j
        BY <2>1
    <2>3. StepAt(d, p[1]) \in Int /\ StepAt(e, j) \in Int
        BY <1>1, <1>2, <1>4, StepInt DEF SliverOf
    <2>4. b + StepAt(c, k) = view.base + StepAt(d, k - f + p[1]) + StepAt(e, j)
        <3>1. view.base \in Int
            BY ONLY <1>1
        <3>2. QED
            BY ONLY <1>12, <2>1, <2>3, <3>1
    <2>5. InDimension(j, e)
        BY <1>1
    <2>6. QED
        BY ONLY <2>1, <2>2, <2>4, <2>5
<1>14. MovesOne(c, b, d, e, P, Q)
    BY ONLY <1>13 DEF MovesOne
<1> PICK op : op = <<"range_at", p, j>>
    OBVIOUS
<1>15. Becomes(View(Led(c, ds), b), op)
    BY <1>11 DEF RangedElement
<1> PICK ys : ys = Led(Extension(c), Extensions(ds))
    OBVIOUS
<1>16. PICK F : /\ Named(op, ys, F)
                /\ \A i \in Maps!Box(ys) :
                       F[i] = LedByTwo(P[i[1]], Q[i[1]], Tail(i)) /\ i[1] \in Int /\ InDimension(i[1], c)
    <2>1. \E F : /\ Named(op, Led(Extension(c), Extensions(ds)), F)
                 /\ \A i \in Maps!Box(Led(Extension(c), Extensions(ds))) :
                       /\ F[i] = LedByTwo(P[i[1]], Q[i[1]], Tail(i))
                       /\ i[1] \in Int /\ InDimension(i[1], c)
        BY ONLY IInv, HasTwo(d, e, ds), <1>3, b \in Int, <1>15, <1>14, OneForTwo
    <2>2. QED
        BY ONLY <2>1, ys = Led(Extension(c), Extensions(ds))
<1>17. Maps!first = f /\ SubSeq(Extensions(view.dims), 3, Maps!D) = Extensions(ds) /\ Maps!D = D
    BY <1>1, <1>2, TopIs, Zenon DEF HasTwo, SliverOf, Valid
<1> PICK xs : xs = <<Maps!Bounds(Maps!first, Maps!first + Maps!Count(p))>> \o SubSeq(Extensions(view.dims), 3, Maps!D)
    OBVIOUS
<1>18. xs = ys
    <2>1. Extension(c) = Maps!Bounds(f, f + Maps!Count(p))
        BY <1>2 DEF SliverOf
    <2>2. QED
        BY <1>17, <2>1 DEF Led
<1>19. ASSUME NEW i \in Maps!Box(xs)
       PROVE  Elem[F[i]] = Elem[<<i[1] - Maps!first + p[1], j>> \o Tail(i)]
    <2>1. F[i] = LedByTwo(P[i[1]], Q[i[1]], Tail(i)) /\ i[1] \in Int
        BY ONLY <1>16, <1>18, i \in Maps!Box(xs)
    <2>2. P[i[1]] = i[1] - f + p[1] /\ Q[i[1]] = j
        BY ONLY <2>1, P = [k \in Int |-> k - f + p[1]], Q = [k \in Int |-> j]
    <2>3. QED
        BY ONLY <1>17, <2>1, <2>2 DEF LedByTwo
<1>20. Elem' = [i \in Maps!Box(xs) |-> Elem[<<i[1] - Maps!first + p[1], j>> \o Tail(i)]]
    BY ONLY <1>16, <1>18, <1>19 DEF Named
<1>21. call' = op /\ width' = width /\ Extensions(view.dims)' = xs
    BY ONLY <1>16, <1>18 DEF Named
<1>22. Maps!D > 1
    BY <1>17
<1>23. QED
    BY <1>20, <1>21, <1>22 DEF Maps!RangedElement, Maps!Becomes, Elem

--------------------------------------------------------------------------------
(* flatted() and diagonal().                                                  *)

\* The dimension c has all the elements of the rows e of d.
FlatOf(c, d, e, P, Q) ==
    /\ c \in Regular
    /\ Extension(c) = Maps!Bounds(Extension(e)[1], Extension(e)[1] + Size(d) * Size(e))
    /\ \A j : InDimension(j, c) =>
           /\ j \in Int /\ InDimension(P[j], d) /\ InDimension(Q[j], e)
           /\ StepAt(c, j) \in Int /\ StepAt(d, P[j]) \in Int /\ StepAt(e, Q[j]) \in Int
           /\ StepAt(c, j) = StepAt(d, P[j]) + StepAt(e, Q[j])

LEMMA FlatSteps ==
    ASSUME NEW d \in Regular, NEW e \in Regular, Size(d) <= 1 \/ d.stride = e.nelems,
           NEW c, c = [e EXCEPT !.nelems = e.nelems * Size(d)],
           NEW P, P = [j \in Int |-> Extension(d)[1] + (j - Extension(e)[1]) \div Size(e)],
           NEW Q, Q = [j \in Int |-> Extension(e)[1] + ((j - Extension(e)[1]) % Size(e))]
    PROVE  FlatOf(c, d, e, P, Q)
<1> PICK m \in Nat, n \in Nat : m = Size(d) /\ n = Size(e)
    BY SizeOf
<1> PICK g \in Int : g = Extension(e)[1]
    BY SizeOf
<1> PICK k \in Nat : k = m * n
    OBVIOUS
<1> PICK t \in Int : t = e.stride
    BY RegularParts
<1>1. e.nelems = t * n /\ (e.nelems = 0 <=> n = 0) /\ (d.nelems = 0 <=> m = 0)
    BY SizeOf
<1>2. e.nelems * m = t * k
    BY ONLY <1>1, k = m * n, t \in Int, m \in Nat, n \in Nat
<1>3. c = DimensionOf(t, e.offset, t * k) /\ c \in Regular
    <2>1. e.nelems = 0 => k = 0
        BY ONLY <1>1, k = m * n, m \in Nat, n \in Nat
    <2>2. c = [e EXCEPT !.nelems = e.stride * k]
        BY ONLY <1>2, c = [e EXCEPT !.nelems = e.nelems * Size(d)], m = Size(d), t = e.stride
    <2>3. QED
        BY ONLY <2>1, <2>2, e \in Regular, k \in Nat, t = e.stride, Resized
<1>4. c.stride = t /\ c.offset = e.offset /\ c.nelems = t * k
    BY ONLY <1>3 DEF DimensionOf
<1>5. CASE k = 0
    <2>1. c.nelems = 0
        BY ONLY <1>4, <1>5, t \in Int
    <2>2. Extension(c) = <<0, 0>> /\ \A j : ~InDimension(j, c)
        BY ONLY <2>1, EmptyDimension
    <2>3. Extension(c) = Maps!Bounds(g, g + m * n)
        BY ONLY <1>5, <2>2, k = m * n, g \in Int DEF Maps!Bounds
    <2>4. QED
        BY ONLY <1>3, <2>2, <2>3, m = Size(d), n = Size(e), g = Extension(e)[1] DEF FlatOf
<1>6. CASE k # 0
    <2>1. m # 0 /\ n # 0
        BY ONLY <1>6, k = m * n, m \in Nat, n \in Nat
    <2> PICK s, f, n1 : Spanned(d, s, f, n1)
        BY <1>1, <2>1, DimensionCases
    <2> PICK t2, g2, n2 : Spanned(e, t2, g2, n2)
        BY <1>1, <2>1, DimensionCases
    <2>2. s \in Int /\ f \in Int /\ n1 = m /\ d.stride = s /\ s # 0 /\ Extension(d)[1] = f
        BY DEF Spanned
    <2>3. t2 = t /\ g2 = g /\ n2 = n /\ t # 0 /\ e.offset = t * g
        BY DEF Spanned
    <2>4. Spanned(c, t, g, k)
        BY ONLY <1>4, <1>6, <2>3, t \in Int, g \in Int, k \in Nat, MadeSpanned
    <2>5. Extension(c) = Maps!Bounds(g, g + m * n)
        <3>1. Extension(c) = <<g, g + k>>
            BY ONLY <2>4 DEF Spanned
        <3>2. g # g + k
            BY ONLY <1>6, g \in Int, k \in Nat
        <3>3. QED
            BY ONLY <3>1, <3>2, k = m * n DEF Maps!Bounds
    <2>6. ASSUME NEW j, InDimension(j, c)
          PROVE  /\ j \in Int /\ InDimension(P[j], d) /\ InDimension(Q[j], e)
                 /\ StepAt(c, j) \in Int /\ StepAt(d, P[j]) \in Int /\ StepAt(e, Q[j]) \in Int
                 /\ StepAt(c, j) = StepAt(d, P[j]) + StepAt(e, Q[j])
        <3>1. j \in Int /\ g <= j /\ j < g + k /\ StepAt(c, j) = (j - g) * t
            BY <2>4, <2>6, StepSpanned
        <3> PICK x \in Nat : x = j - g
            BY <3>1
        <3> PICK q, r : q = x \div n /\ r = x % n
            OBVIOUS
        <3>2. q \in Nat /\ r \in Nat /\ r < n /\ q < m /\ x = n * q + r /\ (x < n => q = 0 /\ r = x)
            <4>1. x < m * n
                BY ONLY <3>1, k = m * n, x = j - g, g \in Int, k \in Nat
            <4>2. QED
                BY ONLY <2>1, <4>1, n \in Nat, m \in Nat, x \in Nat, q = x \div n, r = x % n, FlatRow
        <3>3. P[j] = f + q /\ Q[j] = g + r
            BY ONLY <2>2, <3>1, x = j - g, q = x \div n, r = x % n, n = Size(e), g = Extension(e)[1],
                    P = [z \in Int |-> Extension(d)[1] + (z - Extension(e)[1]) \div Size(e)],
                    Q = [z \in Int |-> Extension(e)[1] + ((z - Extension(e)[1]) % Size(e))]
        <3>9. f + q \in Int /\ g + r \in Int
            BY ONLY <2>2, <3>2, g \in Int
        <3> PICK a \in Int, b \in Int : a = f + q /\ b = g + r
            BY ONLY <3>9
        <3>4. InDimension(a, d) /\ StepAt(d, a) = q * s
            <4>1. f <= a /\ a < f + m /\ a - f = q
                BY ONLY <2>2, <3>2, a = f + q, m \in Nat
            <4>2. InDimension(a, d) /\ StepAt(d, a) = (a - f) * s
                BY <2>2, <4>1, StepSpanned
            <4>3. QED
                BY ONLY <4>1, <4>2
        <3>5. InDimension(b, e) /\ StepAt(e, b) = r * t
            <4>1. g <= b /\ b < g + n /\ b - g = r
                BY ONLY <3>2, b = g + r, g \in Int, n \in Nat
            <4>2. InDimension(b, e) /\ StepAt(e, b) = (b - g) * t
                BY <2>3, <4>1, StepSpanned
            <4>3. QED
                BY ONLY <4>1, <4>2
        <3>6. x * t = q * s + r * t
            <4>1. CASE m <= 1
                <5>1. x < n
                    BY ONLY <2>1, <3>1, <4>1, x = j - g, k = m * n, m \in Nat, n \in Nat, g \in Int, x \in Nat
                <5>2. q = 0 /\ r = x
                    BY ONLY <3>2, <5>1
                <5>3. QED
                    BY ONLY <2>2, <5>2, x \in Nat, t \in Int
            <4>2. CASE s = t * n
                <5>1. x * t = (n * q + r) * t
                    BY ONLY <3>2
                <5>2. (n * q + r) * t = q * (t * n) + r * t
                    BY ONLY <3>2, n \in Nat, t \in Int
                <5>3. QED
                    BY ONLY <4>2, <5>1, <5>2
            <4>3. m <= 1 \/ s = t * n
                BY ONLY <1>1, <2>2, Size(d) <= 1 \/ d.stride = e.nelems, m = Size(d)
            <4>4. QED
                BY ONLY <4>1, <4>2, <4>3
        <3>7. x * t \in Int /\ q * s \in Int /\ r * t \in Int
            BY ONLY <2>2, <3>2, x \in Nat, t \in Int, SMTT(30)
        <3>8. QED
            BY ONLY <3>1, <3>3, <3>4, <3>5, <3>6, <3>7, a = f + q, b = g + r, x = j - g
    <2>7. QED
        BY ONLY <1>3, <2>5, <2>6, m = Size(d), n = Size(e), g = Extension(e)[1] DEF FlatOf
<1>7. QED
    BY ONLY <1>5, <1>6

\* flatted() numbers the elements of the rows one after the other.
LEMMA FlattedMaps ==
    ASSUME IInv, Flatted
    PROVE  Maps!Flatted
<1>1. D > 1
    BY ONLY Flatted, SMTT(30) DEF Flatted
<1> PICK d, e, ds : HasTwo(d, e, ds)
    BY <1>1, TopTwo
<1>2. d \in Regular /\ e \in Regular /\ ds \in Seq(Regular) /\ d = view.dims[1] /\ e = view.dims[2] /\ d = Top
      /\ view.base \in Int
    BY DEF HasTwo, Top
<1> PICK c : c = [e EXCEPT !.nelems = e.nelems * Size(d)]
    OBVIOUS
<1> PICK P : P = [j \in Int |-> Extension(d)[1] + (j - Extension(e)[1]) \div Size(e)]
    OBVIOUS
<1> PICK Q : Q = [j \in Int |-> Extension(e)[1] + ((j - Extension(e)[1]) % Size(e))]
    OBVIOUS
<1>3. FlatOf(c, d, e, P, Q)
    <2>1. Size(d) <= 1 \/ d.stride = e.nelems
        BY <1>2 DEF Flatted, IsFlattable
    <2>2. QED
        BY ONLY <1>2, <2>1, c = [e EXCEPT !.nelems = e.nelems * Size(d)],
                P = [j \in Int |-> Extension(d)[1] + (j - Extension(e)[1]) \div Size(e)],
                Q = [j \in Int |-> Extension(e)[1] + ((j - Extension(e)[1]) % Size(e))], FlatSteps
<1>4. c \in Regular
    BY ONLY <1>3 DEF FlatOf
<1> PICK b \in Int : b = view.base
    BY <1>2
<1> PICK op : op = <<"flatted">>
    OBVIOUS
<1>5. Becomes(View(Led(c, ds), b), op)
    <2>1. [Sub EXCEPT ![1].nelems = view.dims[2].nelems * Size(Top)] = Led(c, ds)
        <3>1. Sub = <<e>> \o ds /\ Sub \in Seq(Regular)
            BY <1>2, OneBefore, Zenon DEF HasTwo, Sub, Led
        <3> PICK s \in Seq(Regular) : s = <<e>> \o ds
            BY <3>1
        <3>2. s # <<>> /\ s[1] = e /\ Len(s) = Len(ds) + 1 /\ \A k \in 1 .. Len(ds) : s[k + 1] = ds[k]
            BY <1>2, OneThen
        <3>3. [s EXCEPT ![1].nelems = e.nelems * Size(d)] = [s EXCEPT ![1] = c]
            BY ONLY <3>2, c = [e EXCEPT !.nelems = e.nelems * Size(d)], s \in Seq(Regular)
        <3>4. [s EXCEPT ![1] = c] = <<c>> \o ds
            <4> PICK z : z = [s EXCEPT ![1] = c]
                OBVIOUS
            <4> PICK y : y = <<c>> \o ds
                OBVIOUS
            <4>1. z \in Seq(Regular) /\ Len(z) = Len(s) /\ z[1] = c /\ \A k \in 1 .. Len(s) : k # 1 => z[k] = s[k]
                BY ONLY <1>4, <3>2, s \in Seq(Regular), z = [s EXCEPT ![1] = c], TopReplaced
            <4>2. y \in Seq(Regular) /\ Len(y) = Len(ds) + 1 /\ y[1] = c /\ \A k \in 1 .. Len(ds) : y[k + 1] = ds[k]
                BY <1>2, <1>4, OneThen
            <4>6. Len(ds) \in Nat
                BY ONLY <1>2
            <4> PICK N \in Nat : N = Len(ds)
                BY ONLY <4>6
            <4>3. ASSUME NEW k \in 1 .. N + 1 PROVE z[k] = y[k]
                <5>1. k = 1 \/ (k # 1 /\ k - 1 \in 1 .. N /\ (k - 1) + 1 = k)
                    OBVIOUS
                <5>2. ASSUME k # 1, k - 1 \in 1 .. N, (k - 1) + 1 = k PROVE z[k] = y[k]
                    <6>1. z[k] = s[k]
                        BY ONLY <3>2, <4>1, <5>2, N = Len(ds), k \in 1 .. N + 1
                    <6>2. s[(k - 1) + 1] = ds[k - 1] /\ y[(k - 1) + 1] = ds[k - 1]
                        BY ONLY <3>2, <4>2, <5>2, N = Len(ds)
                    <6>3. QED
                        BY ONLY <5>2, <6>1, <6>2
                <5>3. QED
                    BY ONLY <4>1, <4>2, <5>1, <5>2
            <4>4. Len(z) = Len(y) /\ \A k \in 1 .. Len(z) : z[k] = y[k]
                BY ONLY <3>2, <4>1, <4>2, <4>3, N = Len(ds)
            <4>5. z \in Seq(Regular) /\ y \in Seq(Regular)
                BY ONLY <4>1, <4>2
            <4>7. z = y
                BY ONLY <4>4, <4>5, SeqsEqual
            <4>8. QED
                BY ONLY <4>7, z = [s EXCEPT ![1] = c], y = <<c>> \o ds
        <3>5. QED
            BY ONLY <1>2, <3>1, <3>3, <3>4, s = <<e>> \o ds DEF Led
    <2> PICK w \in Seq(Regular) : w = Led(c, ds) /\ w # <<>>
        BY <1>2, <1>4, ExtensionsCons
    <2>2. [view EXCEPT !.dims = w] = View(w, b)
        BY TopIs, DimsReplaced
    <2>3. QED
        BY <2>1, <2>2 DEF Flatted
<1>6. ASSUME NEW j, InDimension(j, c)
      PROVE  /\ InDimension(P[j], d) /\ InDimension(Q[j], e)
             /\ b + StepAt(c, j) = view.base + StepAt(d, P[j]) + StepAt(e, Q[j])
    <2>1. /\ InDimension(P[j], d) /\ InDimension(Q[j], e)
          /\ StepAt(c, j) \in Int /\ StepAt(d, P[j]) \in Int /\ StepAt(e, Q[j]) \in Int
          /\ StepAt(c, j) = StepAt(d, P[j]) + StepAt(e, Q[j])
        BY ONLY <1>3, <1>6 DEF FlatOf
    <2>2. QED
        BY ONLY <2>1, b = view.base, b \in Int
<1>7. MovesOne(c, b, d, e, P, Q)
    BY ONLY <1>6 DEF MovesOne
<1> PICK ys : ys = Led(Extension(c), Extensions(ds))
    OBVIOUS
<1>8. PICK F : /\ Named(op, ys, F)
               /\ \A i \in Maps!Box(ys) :
                       F[i] = LedByTwo(P[i[1]], Q[i[1]], Tail(i)) /\ i[1] \in Int /\ InDimension(i[1], c)
    <2>1. \E F : /\ Named(op, Led(Extension(c), Extensions(ds)), F)
                 /\ \A i \in Maps!Box(Led(Extension(c), Extensions(ds))) :
                       /\ F[i] = LedByTwo(P[i[1]], Q[i[1]], Tail(i))
                       /\ i[1] \in Int /\ InDimension(i[1], c)
        BY ONLY IInv, HasTwo(d, e, ds), <1>4, b \in Int, <1>5, <1>7, OneForTwo
    <2>2. QED
        BY ONLY <2>1, ys = Led(Extension(c), Extensions(ds))
<1>9. /\ Maps!first = Extension(d)[1] /\ Maps!size = Size(d) /\ Extensions(view.dims)[2] = Extension(e)
      /\ SubSeq(Extensions(view.dims), 3, Maps!D) = Extensions(ds) /\ Maps!D = D
    BY <1>2, TopIs, Zenon DEF HasTwo, Valid
<1> DEFINE inner == Maps!Count(Extensions(view.dims)[2])
<1> DEFINE from == Extensions(view.dims)[2][1]
<1>10. inner = Size(e) /\ from = Extension(e)[1]
    BY <1>2, <1>9, SizeOf DEF Maps!Count
<1> HIDE DEF inner, from
<1> PICK xs : xs = <<Maps!Bounds(from, from + Maps!size * inner)>> \o SubSeq(Extensions(view.dims), 3, Maps!D)
    OBVIOUS
<1>11. xs = ys
    <2>1. Extension(c) = Maps!Bounds(Extension(e)[1], Extension(e)[1] + Size(d) * Size(e))
        BY ONLY <1>3 DEF FlatOf
    <2>2. QED
        BY ONLY <1>9, <1>10, <2>1, ys = Led(Extension(c), Extensions(ds)),
                xs = <<Maps!Bounds(from, from + Maps!size * inner)>> \o SubSeq(Extensions(view.dims), 3, Maps!D) DEF Led
<1>12. ASSUME NEW i \in Maps!Box(xs)
       PROVE  Elem[F[i]] = Elem[<<Maps!first + (i[1] - from) \div inner, from + ((i[1] - from) % inner)>> \o Tail(i)]
    <2>1. F[i] = LedByTwo(P[i[1]], Q[i[1]], Tail(i)) /\ i[1] \in Int
        BY ONLY <1>8, <1>11, i \in Maps!Box(xs)
    <2> PICK j \in Int : j = i[1]
        BY ONLY <2>1
    <2>2. P[j] = Maps!first + (j - from) \div inner /\ Q[j] = from + ((j - from) % inner)
        BY ONLY <1>9, <1>10, j \in Int, P = [z \in Int |-> Extension(d)[1] + (z - Extension(e)[1]) \div Size(e)],
                Q = [z \in Int |-> Extension(e)[1] + ((z - Extension(e)[1]) % Size(e))]
    <2>3. QED
        BY ONLY <2>1, <2>2, j = i[1] DEF LedByTwo
<1>13. Elem' = [i \in Maps!Box(xs) |->
           Elem[<<Maps!first + (i[1] - from) \div inner, from + ((i[1] - from) % inner)>> \o Tail(i)]]
    BY ONLY <1>8, <1>11, <1>12 DEF Named
<1>14. call' = op /\ width' = width /\ Extensions(view.dims)' = xs
    BY ONLY <1>8, <1>11 DEF Named
<1>15. Maps!D > 1
    BY <1>1, <1>9
<1>16. QED
    BY ONLY <1>13, <1>14, <1>15, op = <<"flatted">>,
            xs = <<Maps!Bounds(from, from + Maps!size * inner)>> \o SubSeq(Extensions(view.dims), 3, Maps!D)
       DEF inner, from, Maps!Flatted, Maps!Becomes, Elem

\* The dimension c goes through the first m indices of d and e at once.
BothOf(c, d, e, m) ==
    /\ c \in Regular /\ Extension(c) = Maps!Bounds(0, m)
    /\ \A j : InDimension(j, c) =>
           /\ j \in Int /\ InDimension(j, d) /\ InDimension(j, e)
           /\ StepAt(c, j) \in Int /\ StepAt(d, j) \in Int /\ StepAt(e, j) \in Int
           /\ StepAt(c, j) = StepAt(d, j) + StepAt(e, j)

LEMMA BothSteps ==
    ASSUME NEW d \in Regular, NEW e \in Regular, d.offset = 0, e.offset = 0, d.stride + e.stride # 0,
           NEW m \in Nat, m <= Size(d), m <= Size(e),
           NEW c, c = DimensionOf(e.stride + d.stride, 0, e.stride * m + d.stride * m)
    PROVE  BothOf(c, d, e, m)
<1> PICK s1 \in Int, s2 \in Int : s1 = d.stride /\ s2 = e.stride
    BY RegularParts
<1> PICK s \in Int : s = s2 + s1 /\ s # 0
    <2>1. s2 + s1 \in Int /\ s2 + s1 # 0
        BY ONLY s1 \in Int, s2 \in Int, s1 = d.stride, s2 = e.stride, d.stride + e.stride # 0
    <2>2. QED
        BY ONLY <2>1
<1>1. s2 * m + s1 * m = s * m
    BY ONLY s = s2 + s1, s1 \in Int, s2 \in Int, m \in Nat
<1>2. c = DimensionOf(s, 0, s * m) /\ c \in Regular
    <2>1. c = DimensionOf(s, 0, s * m)
        BY ONLY <1>1, s = s2 + s1, s1 = d.stride, s2 = e.stride,
                c = DimensionOf(e.stride + d.stride, 0, e.stride * m + d.stride * m)
    <2>2. DimensionOf(s, 0, s * m) \in Regular
        BY ONLY s \in Int, m \in Nat, ZeroOffset
    <2>3. QED
        BY ONLY <2>1, <2>2
<1>3. c.stride = s /\ c.offset = 0 /\ c.nelems = s * m
    BY ONLY <1>2 DEF DimensionOf
<1>4. CASE m = 0
    <2>1. c.nelems = 0
        BY ONLY <1>3, <1>4, s \in Int
    <2>2. Extension(c) = <<0, 0>> /\ \A j : ~InDimension(j, c)
        BY ONLY <2>1, EmptyDimension
    <2>3. Extension(c) = Maps!Bounds(0, m)
        BY ONLY <1>4, <2>2 DEF Maps!Bounds
    <2>4. QED
        BY ONLY <1>2, <2>2, <2>3 DEF BothOf
<1>5. CASE m # 0
    <2>1. Spanned(c, s, 0, m)
        <3>1. 0 = s * 0
            BY ONLY s \in Int
        <3>2. c.offset = s * 0
            BY ONLY <1>3, <3>1
        <3>3. QED
            BY ONLY <1>3, <1>5, <3>2, s \in Int, s # 0, m \in Nat, 0 \in Int, MadeSpanned
    <2>2. Extension(c) = Maps!Bounds(0, m)
        <3>1. Extension(c) = <<0, 0 + m>>
            BY ONLY <2>1 DEF Spanned
        <3>2. 0 + m = m
            BY ONLY m \in Nat
        <3>3. QED
            BY ONLY <1>5, <3>1, <3>2 DEF Maps!Bounds
    <2>3. d.nelems # 0 /\ e.nelems # 0
        <3>1. Size(d) \in Nat /\ Size(e) \in Nat /\ (d.nelems = 0 <=> Size(d) = 0) /\ (e.nelems = 0 <=> Size(e) = 0)
            BY ONLY d \in Regular, e \in Regular, SizeOf
        <3>2. QED
            BY ONLY <1>5, <3>1, m \in Nat, m <= Size(d), m <= Size(e)
    <2> PICK t1, f1, n1 : Spanned(d, t1, f1, n1)
        BY ONLY <2>3, d \in Regular, DimensionCases
    <2> PICK t2, f2, n2 : Spanned(e, t2, f2, n2)
        BY ONLY <2>3, e \in Regular, DimensionCases
    <2>4. t1 = s1 /\ t2 = s2 /\ f1 = 0 /\ f2 = 0 /\ n1 \in Nat /\ n2 \in Nat /\ m <= n1 /\ m <= n2
        <3>1. t1 = s1 /\ t1 # 0 /\ t1 \in Int /\ f1 \in Int /\ t1 * f1 = 0 /\ n1 \in Nat /\ m <= n1
            BY ONLY Spanned(d, t1, f1, n1), d.offset = 0, s1 = d.stride, m <= Size(d) DEF Spanned
        <3>2. t2 = s2 /\ t2 # 0 /\ t2 \in Int /\ f2 \in Int /\ t2 * f2 = 0 /\ n2 \in Nat /\ m <= n2
            BY ONLY Spanned(e, t2, f2, n2), e.offset = 0, s2 = e.stride, m <= Size(e) DEF Spanned
        <3>3. f1 = 0
            BY ONLY <3>1
        <3>4. f2 = 0
            BY ONLY <3>2
        <3>5. QED
            BY ONLY <3>1, <3>2, <3>3, <3>4
    <2>5. ASSUME NEW j, InDimension(j, c)
          PROVE  /\ j \in Int /\ InDimension(j, d) /\ InDimension(j, e)
                 /\ StepAt(c, j) \in Int /\ StepAt(d, j) \in Int /\ StepAt(e, j) \in Int
                 /\ StepAt(c, j) = StepAt(d, j) + StepAt(e, j)
        <3>1. j \in Int /\ 0 <= j /\ j < 0 + m /\ StepAt(c, j) = (j - 0) * s
            BY <2>1, <2>5, StepSpanned
        <3>2. Spanned(d, s1, 0, n1) /\ Spanned(e, s2, 0, n2)
            BY ONLY <2>4, Spanned(d, t1, f1, n1), Spanned(e, t2, f2, n2)
        <3>3. j < 0 + n1 /\ j < 0 + n2
            BY ONLY <2>4, <3>1, m \in Nat
        <3>4. InDimension(j, d) /\ StepAt(d, j) = (j - 0) * s1
            BY ONLY <3>1, <3>2, <3>3, StepSpanned
        <3>5. InDimension(j, e) /\ StepAt(e, j) = (j - 0) * s2
            BY ONLY <3>1, <3>2, <3>3, StepSpanned
        <3>6. (j - 0) * s = (j - 0) * s1 + (j - 0) * s2
            BY ONLY <3>1, s = s2 + s1, s1 \in Int, s2 \in Int
        <3>7. (j - 0) * s \in Int /\ (j - 0) * s1 \in Int /\ (j - 0) * s2 \in Int
            BY ONLY <3>1, s \in Int, s1 \in Int, s2 \in Int
        <3>8. QED
            BY ONLY <3>1, <3>4, <3>5, <3>6, <3>7
    <2>6. QED
        BY ONLY <1>2, <2>2, <2>5 DEF BothOf
<1>6. QED
    BY ONLY <1>4, <1>5

\* diagonal() has the elements whose first two indices are the same.
LEMMA DiagonalMaps ==
    ASSUME IInv, Diagonal
    PROVE  Maps!Diagonal
<1>1. D > 1 /\ Top.offset = 0 /\ view.dims[2].offset = 0 /\ Top.stride + view.dims[2].stride # 0
    BY ONLY Diagonal DEF Diagonal
<1> PICK d, e, ds : HasTwo(d, e, ds)
    BY <1>1, TopTwo
<1>2. d \in Regular /\ e \in Regular /\ ds \in Seq(Regular) /\ d = view.dims[1] /\ e = view.dims[2] /\ d = Top
      /\ view.base \in Int
    BY DEF HasTwo, Top
<1> PICK u \in RegularViews, m \in Nat : IsDiagonal(u, m)
    BY DiagonalView
<1> PICK c : c = DimensionOf(e.stride + d.stride, 0, e.stride * m + d.stride * m)
    OBVIOUS
<1>3. m = IF Size(d) < Size(e) THEN Size(d) ELSE Size(e)
    BY <1>2 DEF IsDiagonal
<1>4. BothOf(c, d, e, m)
    <2>1. m <= Size(d) /\ m <= Size(e)
        <3>1. Size(d) \in Nat /\ Size(e) \in Nat
            BY <1>2, SizeOf
        <3>2. QED
            BY ONLY <1>3, <3>1
    <2>2. d.offset = 0 /\ e.offset = 0 /\ d.stride + e.stride # 0
        BY ONLY <1>1, <1>2
    <2>3. QED
        BY ONLY <1>2, <2>1, <2>2, m \in Nat, c = DimensionOf(e.stride + d.stride, 0, e.stride * m + d.stride * m), BothSteps
<1>5. c \in Regular
    BY ONLY <1>4 DEF BothOf
<1> PICK b \in Int : b = view.base
    BY <1>2
<1> PICK op : op = <<"diagonal">>
    OBVIOUS
<1>6. Becomes(View(Led(c, ds), b), op)
    <2>1. Len(u.dims) = D - 1 /\ u.dims[1] = c /\ (\A k \in 2 .. D - 1 : u.dims[k] = view.dims[k + 1]) /\ u.base = b
        BY ONLY <1>2, IsDiagonal(u, m), c = DimensionOf(e.stride + d.stride, 0, e.stride * m + d.stride * m), b = view.base
           DEF IsDiagonal, D
    <2>2. u = View(Led(c, ds), u.base)
        BY ONLY HasTwo(d, e, ds), <1>5, <2>1, u \in RegularViews, OneLed
    <2>3. Becomes(u, op)
        BY ONLY IsDiagonal(u, m), op = <<"diagonal">> DEF IsDiagonal
    <2>4. QED
        BY ONLY <2>1, <2>2, <2>3
<1> PICK P, Q : P = [k \in Int |-> k] /\ Q = [k \in Int |-> k]
    OBVIOUS
<1>7. ASSUME NEW j, InDimension(j, c)
      PROVE  /\ InDimension(P[j], d) /\ InDimension(Q[j], e)
             /\ b + StepAt(c, j) = view.base + StepAt(d, P[j]) + StepAt(e, Q[j])
    <2>1. /\ j \in Int /\ InDimension(j, d) /\ InDimension(j, e)
          /\ StepAt(c, j) \in Int /\ StepAt(d, j) \in Int /\ StepAt(e, j) \in Int
          /\ StepAt(c, j) = StepAt(d, j) + StepAt(e, j)
        BY ONLY <1>4, <1>7 DEF BothOf
    <2>2. P[j] = j /\ Q[j] = j
        BY ONLY <2>1, P = [k \in Int |-> k], Q = [k \in Int |-> k]
    <2>3. QED
        BY ONLY <2>1, <2>2, b = view.base, b \in Int
<1>8. MovesOne(c, b, d, e, P, Q)
    BY ONLY <1>7 DEF MovesOne
<1> PICK ys : ys = Led(Extension(c), Extensions(ds))
    OBVIOUS
<1>9. PICK F : /\ Named(op, ys, F)
               /\ \A i \in Maps!Box(ys) :
                       F[i] = LedByTwo(P[i[1]], Q[i[1]], Tail(i)) /\ i[1] \in Int /\ InDimension(i[1], c)
    <2>1. \E F : /\ Named(op, Led(Extension(c), Extensions(ds)), F)
                 /\ \A i \in Maps!Box(Led(Extension(c), Extensions(ds))) :
                       /\ F[i] = LedByTwo(P[i[1]], Q[i[1]], Tail(i))
                       /\ i[1] \in Int /\ InDimension(i[1], c)
        BY ONLY IInv, HasTwo(d, e, ds), <1>5, b \in Int, <1>6, <1>8, OneForTwo
    <2>2. QED
        BY ONLY <2>1, ys = Led(Extension(c), Extensions(ds))
<1>10. /\ Extensions(view.dims)[2] = Extension(e) /\ Maps!first = Extension(d)[1] /\ Maps!last = Extension(d)[2]
      /\ SubSeq(Extensions(view.dims), 3, Maps!D) = Extensions(ds) /\ Maps!D = D
    BY <1>2, TopIs, Zenon DEF HasTwo, Valid
<1>11. Extension(d) = <<0, Size(d)>> /\ Extension(e) = <<0, Size(e)>>
    <2>1. \A x \in Regular : x.offset = 0 => Extension(x) = <<0, Size(x)>>
        <3> SUFFICES ASSUME NEW x \in Regular, x.offset = 0 PROVE Extension(x) = <<0, Size(x)>>
            OBVIOUS
        <3>1. x \in Dimensions /\ ExtensionExists(x) /\ Size(x) >= 0
            BY RegularParts, RegularExists, SizeOf
        <3> PICK n \in Nat : FromZero(x, n)
            BY <3>1, ZeroDimension
        <3>2. QED
            BY DEF FromZero
    <2>2. QED
        BY ONLY <1>1, <1>2, <2>1
<1> PICK side : side = IF Maps!last < Extensions(view.dims)[2][2] THEN Maps!last ELSE Extensions(view.dims)[2][2]
    OBVIOUS
<1>12. side = m /\ Maps!first = 0 /\ Extensions(view.dims)[2][1] = 0
    BY ONLY <1>3, <1>10, <1>11, side = IF Maps!last < Extensions(view.dims)[2][2] THEN Maps!last ELSE Extensions(view.dims)[2][2]
<1> PICK xs : xs = <<Maps!Bounds(0, side)>> \o SubSeq(Extensions(view.dims), 3, Maps!D)
    OBVIOUS
<1>13. xs = ys
    <2>1. Extension(c) = Maps!Bounds(0, m)
        BY ONLY <1>4 DEF BothOf
    <2>2. QED
        BY ONLY <1>10, <1>12, <2>1, ys = Led(Extension(c), Extensions(ds)),
                xs = <<Maps!Bounds(0, side)>> \o SubSeq(Extensions(view.dims), 3, Maps!D) DEF Led
<1>14. ASSUME NEW i \in Maps!Box(xs)
       PROVE  Elem[F[i]] = Elem[<<i[1]>> \o i]
    <2>1. F[i] = LedByTwo(P[i[1]], Q[i[1]], Tail(i)) /\ i[1] \in Int
        BY ONLY <1>9, <1>13, i \in Maps!Box(xs)
    <2>2. P[i[1]] = i[1] /\ Q[i[1]] = i[1]
        BY ONLY <2>1, P = [k \in Int |-> k], Q = [k \in Int |-> k]
    <2>3. i \in Seq(Int) /\ Len(i) >= 1
        <3>1. Extensions(Led(c, ds)) = ys /\ Led(c, ds) \in Seq(Regular) /\ Len(Led(c, ds)) >= 1
            <4>1. Extensions(Led(c, ds)) = ys /\ Led(c, ds) \in Seq(Regular) /\ Led(c, ds) # <<>>
                BY ONLY <1>2, <1>5, ys = Led(Extension(c), Extensions(ds)), ExtensionsCons
            <4> PICK cs \in Seq(Regular) : cs = Led(c, ds)
                BY ONLY <4>1
            <4>2. cs # <<>> => Len(cs) >= 1
                BY ONLY cs \in Seq(Regular)
            <4>3. QED
                BY ONLY <4>1, <4>2, cs = Led(c, ds)
        <3> PICK cs \in Seq(Regular) : cs = Led(c, ds)
            BY ONLY <3>1
        <3>2. i \in Indices(Extensions(cs))
            BY ONLY <1>13, <3>1, i \in Maps!Box(xs), cs \in Seq(Regular), cs = Led(c, ds), BoxIsIndices
        <3>3. i \in Seq(Int) /\ Len(i) = Len(cs)
            BY ONLY <3>2, cs \in Seq(Regular), IndicesAreOf DEF IsIndex
        <3>4. QED
            BY ONLY <3>1, <3>3, cs = Led(c, ds)
    <2>4. <<i[1], i[1]>> \o Tail(i) = <<i[1]>> \o i
        <3> PICK j \in Int : j = i[1]
            BY ONLY <2>1
        <3>4. Tail(i) \in Seq(Int)
            <4> PICK T : T = Int
                OBVIOUS
            <4>1. i \in Seq(T) /\ Len(i) >= 1
                BY ONLY <2>3, T = Int
            <4>2. Tail(i) \in Seq(T)
                BY ONLY <4>1, TailOfSeq
            <4>3. QED
                BY ONLY <4>2, T = Int
        <3> PICK t \in Seq(Int) : t = Tail(i)
            BY ONLY <3>4
        <3>1. i = Led(j, t)
            BY ONLY <2>3, j = i[1], t = Tail(i), HeadTail DEF Led
        <3>2. LedByTwo(j, j, t) = Led(j, Led(j, t))
            BY ONLY j \in Int, t \in Seq(Int), LedInts
        <3>3. QED
            BY ONLY <3>1, <3>2, j = i[1], t = Tail(i) DEF Led, LedByTwo
    <2>5. QED
        BY ONLY <2>1, <2>2, <2>4 DEF LedByTwo
<1>15. Elem' = [i \in Maps!Box(xs) |-> Elem[<<i[1]>> \o i]]
    BY ONLY <1>9, <1>13, <1>14 DEF Named
<1>16. call' = op /\ width' = width /\ Extensions(view.dims)' = xs
    BY ONLY <1>9, <1>13 DEF Named
<1>17. Maps!D > 1
    BY <1>1, <1>10
<1>18. QED
    BY <1>12, <1>15, <1>16, <1>17 DEF Maps!Diagonal, Maps!Becomes, Elem

--------------------------------------------------------------------------------
(* rotated(), unrotated() and reversed().                                     *)

\* rotated()
LEMMA RotatedMaps ==
    ASSUME IInv, Rotated
    PROVE  Maps!Rotated
<1> PICK v \in RegularViews, L \in Nat : v = view /\ L = Len(v.dims) /\ L >= 1
    BY TopIs, ViewParts
<1> PICK u \in RegularViews : u = Rotation(v)
    BY RotationView
<1>1. /\ Len(u.dims) = L /\ u.dims[L] = v.dims[1] /\ u.base = v.base
      /\ \A k \in 1 .. L - 1 : u.dims[k] = v.dims[k + 1]
    BY RotationView, RotationBase
<1> PICK op : op = <<"rotated">>
    OBVIOUS
<1>2. Becomes(u, op)
    BY DEF Rotated
<1> PICK F : F = [i \in Seq(Int) |-> LastFirst(i)]
    OBVIOUS
<1>3. ASSUME NEW i, IsIndex(i, u.dims)
      PROVE  IsIndex(F[i], v.dims) /\ Address(u, i) = Address(v, F[i])
    <2>1. i \in Seq(Int) /\ Len(i) = L
        BY ONLY <1>1, <1>3 DEF IsIndex
    <2> PICK j : j = LastFirst(i)
        OBVIOUS
    <2>2. j \in Seq(Int) /\ Len(j) = L /\ j[1] = i[L] /\ \A k \in 1 .. L - 1 : j[k + 1] = i[k]
        <3> PICK T : T = Int
            OBVIOUS
        <3>1. j \in Seq(T) /\ Len(j) = L /\ j[1] = i[L] /\ \A k \in 1 .. L - 1 : j[k + 1] = i[k]
            BY ONLY <2>1, T = Int, j = LastFirst(i), L \in Nat, L >= 1, LastFirstOf, SMTT(30)
        <3>2. QED
            BY ONLY <3>1, T = Int
    <2>3. RolledTo(u, v, i, j, L)
        BY ONLY <1>1, <2>1, <2>2, L \in Nat, L >= 1, L = Len(v.dims) DEF RolledTo
    <2>4. IsIndex(j, v.dims)
        BY ONLY <1>3, <2>1, <2>2, <2>3, u \in RegularViews, v \in RegularViews, RolledIndex
    <2>5. Address(u, i) = Address(v, j)
        BY ONLY <2>1, <2>2, <2>3, u \in RegularViews, v \in RegularViews, RolledAddress
    <2>6. F[i] = j
        BY ONLY <2>1, j = LastFirst(i), F = [z \in Seq(Int) |-> LastFirst(z)]
    <2>7. QED
        BY ONLY <2>4, <2>5, <2>6
<1>4. Named(op, Extensions(u.dims), F)
    BY ONLY IInv, u \in RegularViews, <1>2, <1>3, v = view, NamedBy
<1> PICK T : T = Int \X Int
    OBVIOUS
<1> PICK es : es = Extensions(view.dims)
    OBVIOUS
<1>5. es \in Seq(T) /\ Len(es) = L /\ \A k \in 1 .. L : es[k] = Extension(v.dims[k])
    BY ViewParts, ExtensionsOf
<1> PICK xs : xs = Append(Tail(es), es[1])
    OBVIOUS
<1>6. xs \in Seq(T) /\ Len(xs) = L /\ xs[L] = es[1] /\ \A k \in 1 .. L - 1 : xs[k] = es[k + 1]
    <2>1. xs = FirstLast(es)
        BY DEF FirstLast
    <2>2. QED
        BY ONLY <1>5, <2>1, L \in Nat, L >= 1, FirstLastOf
<1>7. Extensions(u.dims) = xs
    <2> PICK ys : ys = Extensions(u.dims)
        OBVIOUS
    <2>1. ys \in Seq(T) /\ Len(ys) = L /\ \A k \in 1 .. L : ys[k] = Extension(u.dims[k])
        BY <1>1, ViewParts, ExtensionsOf
    <2>2. ASSUME NEW k \in 1 .. L PROVE ys[k] = xs[k]
        <3>1. k = L \/ (k \in 1 .. L - 1 /\ k + 1 \in 1 .. L)
            BY ONLY L \in Nat, k \in 1 .. L
        <3>2. 1 \in 1 .. L /\ L \in 1 .. L
            BY ONLY L \in Nat, L >= 1
        <3>3. ys[L] = xs[L]
            BY ONLY <1>1, <1>5, <1>6, <2>1, <3>2
        <3>4. ASSUME k \in 1 .. L - 1, k + 1 \in 1 .. L PROVE ys[k] = xs[k]
            BY ONLY <1>1, <1>5, <1>6, <2>1, <3>4, k \in 1 .. L
        <3>5. QED
            BY ONLY <3>1, <3>3, <3>4
    <2>3. Len(ys) = Len(xs) /\ \A k \in 1 .. Len(ys) : ys[k] = xs[k]
        BY ONLY <1>6, <2>1, <2>2
    <2>4. QED
        BY ONLY <1>6, <2>1, <2>3, ys = Extensions(u.dims), SeqsEqual
<1>8. Named(op, xs, F)
    BY ONLY <1>4, <1>7
<1>9. ASSUME NEW i \in Maps!Box(xs) PROVE Elem[F[i]] = Elem[<<i[Maps!D]>> \o SubSeq(i, 1, Maps!D - 1)]
    <2>1. i \in Indices(Extensions(u.dims))
        BY <1>7, ViewParts, BoxIsIndices
    <2>2. i \in Seq(Int) /\ Len(i) = L
        BY <1>1, <2>1, ViewParts, IndicesAreOf DEF IsIndex
    <2>3. F[i] = LastFirst(i)
        BY ONLY <2>2, F = [z \in Seq(Int) |-> LastFirst(z)]
    <2>4. Maps!D = L
        BY ONLY <1>5, es = Extensions(view.dims) DEF Maps!D
    <2>5. QED
        BY ONLY <2>2, <2>3, <2>4 DEF LastFirst
<1>10. Elem' = [i \in Maps!Box(xs) |-> Elem[<<i[Maps!D]>> \o SubSeq(i, 1, Maps!D - 1)]]
    BY ONLY <1>8, <1>9 DEF Named
<1>11. call' = op /\ width' = width /\ Extensions(view.dims)' = xs
    BY ONLY <1>8 DEF Named
<1>12. QED
    BY <1>10, <1>11 DEF Maps!Rotated, Maps!Becomes, Elem

\* unrotated()
LEMMA UnrotatedMaps ==
    ASSUME IInv, Unrotated
    PROVE  Maps!Unrotated
<1> PICK v \in RegularViews, L \in Nat : v = view /\ L = Len(v.dims) /\ L >= 1
    BY TopIs, ViewParts
<1> PICK u \in RegularViews : u = Unrotation(v)
    BY UnrotationView
<1>1. /\ Len(u.dims) = L /\ v.dims[L] = u.dims[1] /\ u.base = v.base
      /\ \A k \in 1 .. L - 1 : v.dims[k] = u.dims[k + 1]
    <2>1. /\ Len(u.dims) = L /\ u.dims[1] = v.dims[L] /\ u.base = v.base
          /\ \A k \in 2 .. L : u.dims[k] = v.dims[k - 1]
        BY UnrotationView, RotationBase
    <2>2. \A k \in 1 .. L - 1 : k + 1 \in 2 .. L /\ (k + 1) - 1 = k
        BY ONLY L \in Nat
    <2>3. QED
        BY ONLY <2>1, <2>2
<1> PICK op : op = <<"unrotated">>
    OBVIOUS
<1>2. Becomes(u, op)
    BY DEF Unrotated
<1> PICK F : F = [i \in Seq(Int) |-> FirstLast(i)]
    OBVIOUS
<1>3. ASSUME NEW i, IsIndex(i, u.dims)
      PROVE  IsIndex(F[i], v.dims) /\ Address(u, i) = Address(v, F[i])
    <2>1. i \in Seq(Int) /\ Len(i) = L
        BY ONLY <1>1, <1>3 DEF IsIndex
    <2> PICK j : j = FirstLast(i)
        OBVIOUS
    <2>2. j \in Seq(Int) /\ Len(j) = L /\ j[L] = i[1] /\ \A k \in 1 .. L - 1 : j[k] = i[k + 1]
        <3> PICK T : T = Int
            OBVIOUS
        <3>1. j \in Seq(T) /\ Len(j) = L /\ j[L] = i[1] /\ \A k \in 1 .. L - 1 : j[k] = i[k + 1]
            BY ONLY <2>1, T = Int, j = FirstLast(i), L \in Nat, L >= 1, FirstLastOf, SMTT(30)
        <3>2. QED
            BY ONLY <3>1, T = Int
    <2>3. RolledTo(v, u, j, i, L)
        BY ONLY <1>1, <2>1, <2>2, L \in Nat, L >= 1, L = Len(v.dims) DEF RolledTo
    <2>4. IsIndex(j, v.dims)
        BY ONLY <1>3, <2>1, <2>2, <2>3, u \in RegularViews, v \in RegularViews, RolledIndex
    <2>5. Address(u, i) = Address(v, j)
        BY ONLY <2>1, <2>2, <2>3, u \in RegularViews, v \in RegularViews, RolledAddress
    <2>6. F[i] = j
        BY ONLY <2>1, j = FirstLast(i), F = [z \in Seq(Int) |-> FirstLast(z)]
    <2>7. QED
        BY ONLY <2>4, <2>5, <2>6
<1>4. Named(op, Extensions(u.dims), F)
    BY ONLY IInv, u \in RegularViews, <1>2, <1>3, v = view, NamedBy
<1> PICK T : T = Int \X Int
    OBVIOUS
<1> PICK es : es = Extensions(view.dims)
    OBVIOUS
<1>5. es \in Seq(T) /\ Len(es) = L /\ \A k \in 1 .. L : es[k] = Extension(v.dims[k])
    BY ViewParts, ExtensionsOf
<1> PICK xs : xs = <<es[Maps!D]>> \o SubSeq(es, 1, Maps!D - 1)
    OBVIOUS
<1>6. xs \in Seq(T) /\ Len(xs) = L /\ xs[1] = es[L] /\ \A k \in 1 .. L - 1 : xs[k + 1] = es[k]
    <2>1. xs = LastFirst(es)
        BY DEF LastFirst, Maps!D
    <2>2. QED
        BY ONLY <1>5, <2>1, L \in Nat, L >= 1, LastFirstOf
<1>7. Extensions(u.dims) = xs
    <2> PICK ys : ys = Extensions(u.dims)
        OBVIOUS
    <2>1. ys \in Seq(T) /\ Len(ys) = L /\ \A k \in 1 .. L : ys[k] = Extension(u.dims[k])
        BY <1>1, ViewParts, ExtensionsOf
    <2>2. ASSUME NEW k \in 1 .. L PROVE ys[k] = xs[k]
        <3>1. k = 1 \/ (k - 1 \in 1 .. L - 1 /\ k - 1 \in 1 .. L /\ (k - 1) + 1 = k)
            BY ONLY L \in Nat, k \in 1 .. L
        <3>2. 1 \in 1 .. L /\ L \in 1 .. L
            BY ONLY L \in Nat, L >= 1
        <3>3. ys[1] = xs[1]
            BY ONLY <1>1, <1>5, <1>6, <2>1, <3>2
        <3>4. ASSUME k - 1 \in 1 .. L - 1, k - 1 \in 1 .. L, (k - 1) + 1 = k PROVE ys[k] = xs[k]
            <4>1. xs[(k - 1) + 1] = es[k - 1] /\ v.dims[k - 1] = u.dims[(k - 1) + 1]
                BY ONLY <1>1, <1>6, <3>4
            <4>2. QED
                BY ONLY <1>5, <2>1, <3>4, <4>1, k \in 1 .. L
        <3>5. QED
            BY ONLY <3>1, <3>3, <3>4
    <2>3. Len(ys) = Len(xs) /\ \A k \in 1 .. Len(ys) : ys[k] = xs[k]
        BY ONLY <1>6, <2>1, <2>2
    <2>4. QED
        BY ONLY <1>6, <2>1, <2>3, ys = Extensions(u.dims), SeqsEqual
<1>8. Named(op, xs, F)
    BY ONLY <1>4, <1>7
<1>9. ASSUME NEW i \in Maps!Box(xs) PROVE Elem[F[i]] = Elem[Append(Tail(i), i[1])]
    <2>1. i \in Indices(Extensions(u.dims))
        BY <1>7, ViewParts, BoxIsIndices
    <2>2. i \in Seq(Int)
        BY <2>1, ViewParts, IndicesAreOf DEF IsIndex
    <2>3. F[i] = FirstLast(i)
        BY ONLY <2>2, F = [z \in Seq(Int) |-> FirstLast(z)]
    <2>4. QED
        BY ONLY <2>3 DEF FirstLast
<1>10. Elem' = [i \in Maps!Box(xs) |-> Elem[Append(Tail(i), i[1])]]
    BY ONLY <1>8, <1>9 DEF Named
<1>11. call' = op /\ width' = width /\ Extensions(view.dims)' = xs
    BY ONLY <1>8 DEF Named
<1>12. QED
    BY <1>10, <1>11 DEF Maps!Unrotated, Maps!Becomes, Elem

LEMMA BackwardsOf ==
    ASSUME NEW T, NEW s \in Seq(T), NEW L \in Nat, Len(s) = L
    PROVE  /\ Maps!Backwards(s) \in Seq(T) /\ Len(Maps!Backwards(s)) = L
           /\ \A k \in 1 .. L : Maps!Backwards(s)[k] = s[L - k + 1]
<1>1. Maps!Backwards(s) = [k \in 1 .. L |-> s[(L - k) + 1]]
    BY DEF Maps!Backwards
<1>2. \A k \in 1 .. L : (L - k) + 1 \in 1 .. L
    OBVIOUS
<1>3. \A k \in 1 .. L : s[(L - k) + 1] \in T
    BY ONLY <1>2, s \in Seq(T), Len(s) = L, L \in Nat
<1> PICK t : t = Maps!Backwards(s)
    OBVIOUS
<1>4. t \in [1 .. L -> T]
    BY ONLY <1>1, <1>3, t = Maps!Backwards(s)
<1>5. t \in Seq(T) /\ Len(t) = L
    BY ONLY <1>4, L \in Nat
<1>6. QED
    BY ONLY <1>1, <1>5, t = Maps!Backwards(s)

\* reversed()
LEMMA ReversedMaps ==
    ASSUME IInv, Reversed
    PROVE  Maps!Reversed
<1> PICK v \in RegularViews, L \in Nat : v = view /\ L = Len(v.dims) /\ L >= 1
    BY TopIs, ViewParts
<1> PICK vs \in Seq(Regular) : vs = v.dims /\ v = View(vs, v.base)
    BY ViewParts
<1> PICK rs : rs = ReverseDimensions(vs)
    OBVIOUS
<1>1. rs \in Seq(Regular) /\ Len(rs) = L /\ rs # <<>> /\ \A k \in 1 .. L : rs[k] = vs[L - k + 1]
    <2>1. vs \in [1 .. L -> Regular] /\ Len(vs) = L
        BY ONLY vs \in Seq(Regular), vs = v.dims, L = Len(v.dims)
    <2>2. rs \in [1 .. L -> Regular] /\ \A k \in 1 .. L : rs[k] = vs[L + 1 - k]
        BY ONLY <2>1, L \in Nat, rs = ReverseDimensions(vs), ReverseExact, ZenonT(30)
    <2>3. rs \in Seq(Regular) /\ Len(rs) = L /\ rs # <<>>
        BY ONLY <2>2, L \in Nat, L >= 1
    <2>4. \A k \in 1 .. L : L + 1 - k = L - k + 1
        BY ONLY L \in Nat
    <2>5. QED
        BY ONLY <2>2, <2>3, <2>4
<1>2. [v EXCEPT !.dims = rs] = View(rs, v.base) /\ [v EXCEPT !.dims = rs] \in RegularViews
    BY ONLY <1>1, v \in RegularViews, DimsReplaced
<1> PICK u \in RegularViews : u = View(rs, v.base) /\ u = [v EXCEPT !.dims = rs]
    BY ONLY <1>2
<1>3. u.dims = rs /\ u.base = v.base
    BY ONLY u = View(rs, v.base) DEF View
<1> PICK op : op = <<"reversed">>
    OBVIOUS
<1>4. Becomes(u, op)
    <2>1. Becomes([v EXCEPT !.dims = rs], op)
        BY DEF Reversed
    <2>2. QED
        BY ONLY <2>1, u = [v EXCEPT !.dims = rs]
<1> PICK F : F = [i \in Seq(Int) |-> Maps!Backwards(i)]
    OBVIOUS
<1>5. ASSUME NEW i, IsIndex(i, u.dims)
      PROVE  IsIndex(F[i], v.dims) /\ Address(u, i) = Address(v, F[i])
    <2>1. i \in Seq(Int) /\ Len(i) = L
        BY ONLY <1>1, <1>3, <1>5 DEF IsIndex
    <2> PICK j : j = Maps!Backwards(i)
        OBVIOUS
    <2>2. j \in Seq(Int) /\ Len(j) = L /\ \A k \in 1 .. L : i[k] = j[L - k + 1]
        <3> PICK T : T = Int
            OBVIOUS
        <3>1. j \in Seq(T) /\ Len(j) = L /\ \A k \in 1 .. L : j[k] = i[L - k + 1]
            BY ONLY <2>1, T = Int, j = Maps!Backwards(i), L \in Nat, BackwardsOf
        <3>2. \A k \in 1 .. L : L - k + 1 \in 1 .. L /\ L - (L - k + 1) + 1 = k
            BY ONLY L \in Nat
        <3>3. QED
            BY ONLY <3>1, <3>2, T = Int
    <2>3. BackwardsTo(u, v, i, j, L)
        BY ONLY <1>1, <1>3, <2>1, <2>2, L \in Nat, L = Len(v.dims), vs = v.dims DEF BackwardsTo
    <2>4. IsIndex(j, v.dims)
        BY ONLY <1>5, <2>1, <2>2, <2>3, u \in RegularViews, v \in RegularViews, BackwardsIndex
    <2>5. Address(u, i) = Address(v, j)
        BY ONLY <2>1, <2>2, <2>3, u \in RegularViews, v \in RegularViews, BackwardsAddress
    <2>6. F[i] = j
        BY ONLY <2>1, j = Maps!Backwards(i), F = [z \in Seq(Int) |-> Maps!Backwards(z)]
    <2>7. QED
        BY ONLY <2>4, <2>5, <2>6
<1>6. Named(op, Extensions(u.dims), F)
    BY ONLY IInv, u \in RegularViews, <1>4, <1>5, v = view, NamedBy
<1> PICK T : T = Int \X Int
    OBVIOUS
<1> PICK es : es = Extensions(view.dims)
    OBVIOUS
<1>7. es \in Seq(T) /\ Len(es) = L /\ \A k \in 1 .. L : es[k] = Extension(vs[k])
    BY ViewParts, ExtensionsOf
<1> PICK xs : xs = Maps!Backwards(es)
    OBVIOUS
<1>8. xs \in Seq(T) /\ Len(xs) = L /\ \A k \in 1 .. L : xs[k] = es[L - k + 1]
    BY ONLY <1>7, xs = Maps!Backwards(es), L \in Nat, BackwardsOf
<1>9. Extensions(u.dims) = xs
    <2> PICK ys : ys = Extensions(u.dims)
        OBVIOUS
    <2>1. ys \in Seq(T) /\ Len(ys) = L /\ \A k \in 1 .. L : ys[k] = Extension(rs[k])
        <3>1. u.dims = rs
            BY ONLY <1>3
        <3>2. QED
            BY ONLY <1>1, <3>1, T = Int \X Int, ys = Extensions(u.dims), ExtensionsOf
    <2>2. \A k \in 1 .. L : L - k + 1 \in 1 .. L
        BY ONLY L \in Nat
    <2>3. Len(ys) = Len(xs) /\ \A k \in 1 .. Len(ys) : ys[k] = xs[k]
        BY ONLY <1>1, <1>7, <1>8, <2>1, <2>2
    <2>4. QED
        BY ONLY <1>8, <2>1, <2>3, ys = Extensions(u.dims), SeqsEqual
<1>10. Named(op, xs, F)
    BY ONLY <1>6, <1>9
<1>11. ASSUME NEW i \in Maps!Box(xs) PROVE Elem[F[i]] = Elem[Maps!Backwards(i)]
    <2>1. i \in Indices(Extensions(u.dims))
        BY <1>9, ViewParts, BoxIsIndices
    <2>2. i \in Seq(Int)
        BY <2>1, ViewParts, IndicesAreOf DEF IsIndex
    <2>3. F[i] = Maps!Backwards(i)
        BY ONLY <2>2, F = [z \in Seq(Int) |-> Maps!Backwards(z)]
    <2>4. QED
        BY ONLY <2>3
<1>12. Elem' = [i \in Maps!Box(xs) |-> Elem[Maps!Backwards(i)]]
    BY ONLY <1>10, <1>11 DEF Named
<1>13. call' = op /\ width' = width /\ Extensions(view.dims)' = xs
    BY ONLY <1>10 DEF Named
<1>14. QED
    BY <1>12, <1>13 DEF Maps!Reversed, Maps!Becomes, Elem

--------------------------------------------------------------------------------
(* Casts.                                                                     *)

LEMMA IndexInDims ==
    ASSUME IInv, NEW i, i \in Maps!Box(Extensions(view.dims))
    PROVE  i \in Valids /\ i \in Seq(Int) /\ Len(i) = Len(view.dims)
<1>2. view.dims \in Seq(Regular)
    BY TopIs, ViewParts
<1>1. i \in Indices(Extensions(view.dims))
    BY <1>2, BoxIsIndices
<1>3. IsIndex(i, view.dims)
    BY ONLY <1>1, <1>2, IndicesAreOf
<1>4. QED
    BY ONLY <1>1, <1>3 DEF IsIndex, Valids

\* What a cast does to the elements.
LEMMA CastNames ==
    ASSUME IInv, origin \in Int, NEW ds, NEW w \in Nat \ {0}, NEW place \in Int, NEW op, CastTo(ds, w, place, op),
           ScaledLayout(ds, view, width, w)
    PROVE  /\ call' = op /\ width' = w /\ Extensions(view.dims)' = Extensions(view.dims)
           /\ Elem' = [i \in Maps!Box(Extensions(view.dims)) |-> Elem[i] + place]
           /\ \A i \in Maps!Box(Extensions(view.dims)) : Elem[i] \in Int
           /\ Elem = [i \in Maps!Box(Extensions(view.dims)) |-> Elem[i]]
<1>1. view' = View(ds, 0) /\ width' = w /\ origin' = origin + width * view.base + place /\ call' = op
    BY DEF CastTo
<1> PICK v \in RegularViews : v = view
    BY TopIs
<1>2. Extensions(view.dims)' = Extensions(view.dims)
    <2>1. Extensions(ds) = Extensions(view.dims)
        BY TopIs, ScaledExtensions
    <2>2. (view.dims)' = ds
        BY ONLY <1>1 DEF View
    <2>3. QED
        BY ONLY <2>1, <2>2
<1> PICK xs : xs = Extensions(view.dims)
    OBVIOUS
<1>3. Valids = Maps!Box(xs)
    BY ViewParts, BoxIsIndices DEF Valids
<1>4. Valids' = Maps!Box(xs)
    BY <1>2, <1>3 DEF Valids
<1> PICK a \in Int, b \in Int, o \in Int, z \in Int : a = width /\ b = v.base /\ o = origin /\ z = w
    BY ViewParts DEF IInv
<1>5. ASSUME NEW i \in Maps!Box(xs)
      PROVE  /\ Elem[i] = o + a * Address(v, i) /\ Elem[i] \in Int
             /\ (o + a * b + place) + z * Address(View(ds, 0), i) = Elem[i] + place
    <2>1. i \in Seq(Int) /\ Len(i) = Len(v.dims)
        BY IndexInDims
    <2> PICK x \in Int : x = Address(v, i)
        BY <2>1, AddressInt
    <2> PICK y : y = Address(View(ds, 0), i)
        OBVIOUS
    <2>2. z * y = a * (x - b)
        BY <2>1, ScaledAddress, SMTT(30)
    <2>3. Elem[i] = o + a * x
        BY <1>3 DEF Elem
    <2>4. o + a * x \in Int
        BY ONLY o \in Int, a \in Int, x \in Int
    <2>5. (o + a * b + place) + a * (x - b) = o + a * x + place
        BY ONLY o \in Int, a \in Int, b \in Int, x \in Int, place \in Int
    <2>6. QED
        BY ONLY <2>2, <2>3, <2>4, <2>5, x = Address(v, i), y = Address(View(ds, 0), i)
<1>6. Elem' = [i \in Maps!Box(xs) |-> (o + a * b + place) + z * Address(View(ds, 0), i)]
    <2>1. Elem' = [i \in Valids' |-> origin' + width' * Address(view', i)]
        BY DEF Elem
    <2>2. QED
        BY ONLY <1>1, <1>4, <2>1, a = width, b = v.base, o = origin, z = w, v = view
<1>7. Elem' = [i \in Maps!Box(xs) |-> Elem[i] + place]
    BY ONLY <1>5, <1>6
<1>8. Elem = [i \in Maps!Box(xs) |-> Elem[i]]
    <2>1. Elem = [i \in Maps!Box(xs) |-> origin + width * Address(view, i)]
        BY ONLY <1>3 DEF Elem
    <2>2. QED
        BY ONLY <2>1
<1>9. QED
    BY ONLY <1>1, <1>2, <1>5, <1>7, <1>8, xs = Extensions(view.dims)

\* static_array_cast(): the same elements, read through another pointer.
LEMMA StaticArrayCastMaps ==
    ASSUME IInv, origin \in Int, StaticArrayCast
    PROVE  Maps!StaticArrayCast
<1> PICK v \in RegularViews : v = view
    BY TopIs
<1>1. width \in Nat \ {0} /\ width \in Int /\ width # 0
    BY DEF IInv
<1>2. v.dims \in Seq(Regular) /\ v.dims # <<>> /\ \A k \in 1 .. Len(v.dims) : v.dims[k] \in Regular
    BY ViewParts, PartsOf DEF RegularViews
<1>3. ScaledLayout(v.dims, v, width, width)
    BY ONLY <1>1, <1>2 DEF ScaledLayout, ScaledTo
<1> PICK op : op = <<"static_cast">>
    OBVIOUS
<1>4. CastTo(v.dims, width, 0, op)
    BY DEF StaticArrayCast
<1>5. /\ call' = op /\ width' = width /\ Extensions(view.dims)' = Extensions(view.dims)
      /\ Elem' = [i \in Maps!Box(Extensions(view.dims)) |-> Elem[i] + 0]
      /\ \A i \in Maps!Box(Extensions(view.dims)) : Elem[i] \in Int
      /\ Elem = [i \in Maps!Box(Extensions(view.dims)) |-> Elem[i]]
    BY ONLY IInv, origin \in Int, <1>1, <1>3, <1>4, v = view, 0 \in Int, CastNames
<1>6. Elem' = Elem
    <2>1. \A i \in Maps!Box(Extensions(view.dims)) : Elem[i] + 0 = Elem[i]
        BY ONLY <1>5
    <2>2. QED
        BY ONLY <1>5, <2>1
<1>7. QED
    BY <1>5, <1>6 DEF Maps!StaticArrayCast, Elem

\* member_cast(): the member, at its place in each element.
LEMMA MemberCastMaps ==
    ASSUME IInv, origin \in Int, NEW m \in Members, MemberCast(m)
    PROVE  Maps!MemberCast(m)
<1>1. view \in RegularViews /\ width \in Nat \ {0} /\ width \in Int /\ width # 0
    BY DEF IInv
<1>2. m[2] \in Nat \ {0} /\ m[1] \in Int /\ m[2] \in Int /\ m[2] # 0
    BY ViewsAssumption
<1>3. m[1] + m[2] <= width /\ Remainder(width, m[2]) = 0
    BY DEF MemberCast
<1> PICK w \in Nat \ {0} : w = m[2]
    BY <1>2
<1> PICK ds : ds = ScaleLayout(view.dims, width, w)
    OBVIOUS
<1>4. ScaledLayout(ds, view, width, w)
    <2>1. \A k \in 1 .. Len(view.dims) :
              IsScaled(view.dims[k].stride, view.dims[k].offset, view.dims[k].nelems, width, w)
        BY <1>1, <1>3, SplitParts
    <2>2. w \in Int /\ w # 0
        OBVIOUS
    <2>3. QED
        BY <1>1, <2>1, <2>2, LayoutScaled
<1> PICK op : op = <<"member_cast", m>>
    OBVIOUS
<1> PICK place \in Int : place = m[1]
    BY <1>2
<1>5. CastTo(ds, w, place, op)
    BY DEF MemberCast
<1>6. /\ call' = op /\ width' = w /\ Extensions(view.dims)' = Extensions(view.dims)
      /\ Elem' = [i \in Maps!Box(Extensions(view.dims)) |-> Elem[i] + place]
    BY ONLY IInv, origin \in Int, <1>4, <1>5, w \in Nat \ {0}, place \in Int, CastNames
<1>7. QED
    BY <1>3, <1>6 DEF Maps!MemberCast, Elem

\* reinterpret_array_cast(): another size of elements at the same places.
LEMMA ReinterpretArrayCastMaps ==
    ASSUME IInv, origin \in Int, NEW w \in Widths, ReinterpretArrayCast(w)
    PROVE  Maps!ReinterpretArrayCast(w)
<1>1. view \in RegularViews /\ width \in Int /\ width # 0 /\ w \in Nat \ {0} /\ w \in Int /\ w # 0
    BY ViewsAssumption DEF IInv
<1> PICK ds : ds = ScaleLayout(view.dims, width, w)
    OBVIOUS
<1>2. ScaledLayout(ds, view, width, w)
    BY <1>1, ReinterpretedParts, LayoutScaled
<1> PICK op : op = <<"reinterpret_cast", w>>
    OBVIOUS
<1>3. CastTo(ds, w, 0, op)
    BY DEF ReinterpretArrayCast
<1>4. /\ call' = op /\ width' = w /\ Extensions(view.dims)' = Extensions(view.dims)
      /\ Elem' = [i \in Maps!Box(Extensions(view.dims)) |-> Elem[i] + 0]
      /\ \A i \in Maps!Box(Extensions(view.dims)) : Elem[i] \in Int
      /\ Elem = [i \in Maps!Box(Extensions(view.dims)) |-> Elem[i]]
    BY ONLY IInv, origin \in Int, <1>1, <1>2, <1>3, 0 \in Int, CastNames
<1>5. Elem' = Elem
    <2>1. \A i \in Maps!Box(Extensions(view.dims)) : Elem[i] + 0 = Elem[i]
        BY ONLY <1>4
    <2>2. QED
        BY ONLY <1>4, <2>1
<1>6. QED
    BY <1>4, <1>5 DEF Maps!ReinterpretArrayCast, Elem

LEMMA RotatedParts ==
    ASSUME NEW ds \in Seq(Regular), ds # <<>>, NEW n \in Nat
    PROVE  WithParts(Rotation(View(<<PartsDimension(n)>> \o ds, 0)), ds, n)
<1> PICK M \in Nat, L \in Nat : M = Len(ds) /\ M >= 1 /\ L = M + 1
    <2>1. Len(ds) \in Nat /\ Len(ds) + 1 \in Nat /\ Len(ds) >= 1
        OBVIOUS
    <2>2. QED
        BY <2>1
<1> PICK p \in Regular : p = PartsDimension(n)
    BY PartsAre
<1>1. Extension(p) = <<0, n>> /\ p.stride = 1 /\ p.offset = 0
    BY PartsAre
<1> PICK es : es = <<p>> \o ds
    OBVIOUS
<1>2. /\ es \in Seq(Regular) /\ Len(es) = L /\ es[1] = p /\ \A k \in 1 .. M : es[k + 1] = ds[k]
    BY ONLY es = <<p>> \o ds, p \in Regular, ds \in Seq(Regular), M = Len(ds), L = M + 1, OneThen
<1>3. es # <<>>
    BY ONLY <1>2, L = M + 1, M \in Nat, Len(<<>>) = 0
<1>4. Tail(es) = ds
    <2>1. Len(es) >= 1 /\ Len(es) - 1 = M
        BY ONLY <1>2, L = M + 1, M \in Nat
    <2>2. Tail(es) \in Seq(Regular) /\ Len(Tail(es)) = M /\ \A k \in 1 .. M : Tail(es)[k] = es[k + 1]
        BY ONLY <1>2, <2>1, TailOfSeq
    <2>3. QED
        BY ONLY <1>2, <2>2, ds \in Seq(Regular), M = Len(ds), SeqsEqual
<1> PICK v \in RegularViews : v = View(es, 0) /\ v.dims = es
    <2>1. View(es, 0) \in RegularViews
        BY ONLY <1>2, <1>3, 0 \in Int, MadeView
    <2>2. View(es, 0).dims = es
        BY ONLY TRUE DEF View
    <2>3. QED
        BY ONLY <2>1, <2>2
<1>5. v.base = 0 /\ Len(v.dims) = L
    BY ONLY <1>2, v = View(es, 0), v.dims = es DEF View
<1> PICK u \in RegularViews : u = Rotation(v)
    BY RotationView
<1>6. /\ Len(u.dims) = L /\ u.dims[L] = v.dims[1] /\ u.base = v.base
      /\ \A k \in 1 .. L - 1 : u.dims[k] = v.dims[k + 1]
    <2>1. /\ Len(u.dims) = Len(v.dims) /\ u.dims[Len(v.dims)] = v.dims[1]
          /\ \A k \in 1 .. Len(v.dims) - 1 : u.dims[k] = v.dims[k + 1]
        BY ONLY v \in RegularViews, u = Rotation(v), RotationView
    <2>2. u.base = v.base
        BY ONLY u = Rotation(v), RotationBase
    <2>3. QED
        BY ONLY <1>5, <2>1, <2>2
<1>7. u.dims[L] = p /\ \A k \in 1 .. M : u.dims[k] = ds[k]
    BY ONLY <1>2, <1>6, v.dims = es, L = M + 1, M \in Nat
<1>8. Extensions(u.dims) = Append(Extensions(ds), <<0, n>>)
    <2> PICK T : T = Int \X Int
        OBVIOUS
    <2> PICK xs : xs = Extensions(ds)
        OBVIOUS
    <2> PICK ys : ys = Extensions(u.dims)
        OBVIOUS
    <2> PICK x : x = <<0, n>>
        OBVIOUS
    <2>1. x \in T
        OBVIOUS
    <2>2. xs \in Seq(T) /\ Len(xs) = M /\ \A k \in 1 .. M : xs[k] = Extension(ds[k])
        BY ExtensionsOf
    <2>3. ys \in Seq(T) /\ Len(ys) = L /\ \A k \in 1 .. L : ys[k] = Extension(u.dims[k])
        BY <1>6, ViewParts, ExtensionsOf, ZenonT(30)
    <2> PICK zs : zs = Append(xs, x)
        OBVIOUS
    <2>4. zs \in Seq(T) /\ Len(zs) = L /\ zs[L] = x /\ \A k \in 1 .. M : zs[k] = xs[k]
        BY ONLY <2>1, <2>2, zs = Append(xs, x), L = M + 1, M \in Nat
    <2>5. ASSUME NEW k \in 1 .. L PROVE ys[k] = zs[k]
        <3>1. k = L \/ k \in 1 .. M
            BY ONLY k \in 1 .. L, L = M + 1, M \in Nat
        <3>2. CASE k = L
            BY ONLY <1>1, <1>7, <2>3, <2>4, <3>2, k \in 1 .. L, x = <<0, n>>
        <3>3. CASE k \in 1 .. M
            BY ONLY <1>7, <2>2, <2>3, <2>4, <3>3, k \in 1 .. L
        <3>4. QED
            BY ONLY <3>1, <3>2, <3>3
    <2>6. ys = zs
        BY ONLY <2>3, <2>4, <2>5, SeqsEqual
    <2>7. QED
        BY ONLY <2>6, xs = Extensions(ds), ys = Extensions(u.dims), zs = Append(xs, x), x = <<0, n>>
<1>9. ASSUME NEW i, IsIndex(i, u.dims)
      PROVE  /\ i \in Seq(Int) /\ Len(i) = L /\ i[Len(i)] \in Int
             /\ IsIndex(SubSeq(i, 1, Len(i) - 1), ds)
             /\ Address(u, i) = Address(View(ds, 0), SubSeq(i, 1, Len(i) - 1)) + i[Len(i)]
    <2>1. i \in Seq(Int) /\ Len(i) = L
        BY ONLY <1>6, <1>9 DEF IsIndex
    <2> PICK j : j = LastFirst(i)
        OBVIOUS
    <2>2. j \in Seq(Int) /\ Len(j) = L /\ j[1] = i[L] /\ \A k \in 1 .. L - 1 : j[k + 1] = i[k]
        <3> PICK T : T = Int
            OBVIOUS
        <3>0. L >= 1
            BY ONLY L = M + 1, M \in Nat
        <3>1. j \in Seq(T) /\ Len(j) = L /\ j[1] = i[L] /\ \A k \in 1 .. L - 1 : j[k + 1] = i[k]
            BY ONLY <2>1, <3>0, T = Int, j = LastFirst(i), L \in Nat, LastFirstOf, SMTT(30)
        <3>2. QED
            BY ONLY <3>1, T = Int
    <2>3. RolledTo(u, v, i, j, L)
        BY ONLY <1>5, <1>6, <2>1, <2>2, L \in Nat, L = M + 1, M \in Nat, SMTT(30) DEF RolledTo
    <2>4. IsIndex(j, v.dims) /\ Address(u, i) = Address(v, j)
        BY ONLY <1>9, <2>1, <2>2, <2>3, u \in RegularViews, v \in RegularViews, RolledIndex, RolledAddress
    <2> PICK q : q = SubSeq(i, 1, L - 1)
        OBVIOUS
    <2>5. q \in Seq(Int) /\ Len(q) = M /\ \A k \in 1 .. M : q[k] = i[k]
        BY ONLY <2>1, q = SubSeq(i, 1, L - 1), L = M + 1, M \in Nat
    <2>6. Tail(j) = q
        <3>1. Len(j) = M + 1 /\ j \in Seq(Int)
            BY ONLY <2>2, L = M + 1
        <3>2. \A k \in 1 .. M : q[k] = j[k + 1]
            <4>1. \A k \in 1 .. M : k \in 1 .. L - 1
                BY ONLY L = M + 1, M \in Nat
            <4>2. QED
                BY ONLY <2>2, <2>5, <4>1
        <3>3. QED
            BY ONLY <2>5, <3>1, <3>2, M \in Nat, TailIs
    <2>7. IsIndex(q, ds)
        <3>1. \A k \in 1 .. L : InDimension(j[k], es[k])
            BY ONLY <2>4, <1>2, v.dims = es DEF IsIndex
        <3>2. ASSUME NEW k \in 1 .. M PROVE InDimension(q[k], ds[k])
            <4>1. k + 1 \in 1 .. L /\ k \in 1 .. L - 1
                BY ONLY L = M + 1, M \in Nat
            <4>2. QED
                BY ONLY <1>2, <2>2, <2>5, <3>1, <4>1, k \in 1 .. M
        <3>3. QED
            BY ONLY <2>5, <3>2, M = Len(ds) DEF IsIndex
    <2> PICK x \in Int : x = j[1]
        BY <2>2
    <2>8. Address(v, j) = Address(Subscript(v, x), q)
        <3>1. L >= 1
            BY ONLY L = M + 1, M \in Nat
        <3>2. QED
            BY ONLY <2>2, <2>6, <3>1, x = j[1], L \in Nat, DownOne
    <2>9. Subscript(v, x) = View(ds, x)
        <3>1. Subscript(v, x) = View(Tail(v.dims), PlaceAt(v, x))
            BY PlaceIs
        <3>2. PlaceAt(v, x) = 0 + (x * 1 - 0)
            BY ONLY <1>1, <1>2, <1>5, v.dims = es DEF PlaceAt
        <3>3. PlaceAt(v, x) = x
            BY ONLY <3>2, x \in Int
        <3>4. QED
            BY ONLY <1>4, <3>1, <3>3, v.dims = es
    <2> PICK y \in Int : y = Address(View(ds, 0), q)
        <3>1. View(ds, 0) \in RegularViews /\ View(ds, 0).dims = ds
            BY MadeView DEF View
        <3>2. QED
            BY <2>5, <3>1, AddressInt
    <2>10. Address(View(ds, x), q) = x + y
        BY ONLY <2>5, x \in Int, y = Address(View(ds, 0), q), ds \in Seq(Regular), ds # <<>>, M = Len(ds), AddressFrom
    <2>11. x = i[L] /\ x + y = y + x
        BY ONLY <2>2, x = j[1], x \in Int, y \in Int
    <2>12. Address(u, i) = y + i[L]
        BY ONLY <2>4, <2>8, <2>9, <2>10, <2>11
    <2>13. QED
        BY ONLY <2>1, <2>7, <2>11, <2>12, x \in Int, y = Address(View(ds, 0), q), q = SubSeq(i, 1, L - 1)
<1>10. L = Len(ds) + 1
    BY ONLY M = Len(ds), L = M + 1
<1>11. u = Rotation(View(<<PartsDimension(n)>> \o ds, 0))
    BY ONLY u = Rotation(v), v = View(es, 0), es = <<p>> \o ds, p = PartsDimension(n)
<1>12. WithParts(u, ds, n)
    BY ONLY <1>6, <1>8, <1>9, <1>10, u \in RegularViews DEF WithParts
<1>13. QED
    BY ONLY <1>11, <1>12

LEMMA RotationIs ==
    ASSUME NEW es \in Seq(Regular), es # <<>>
    PROVE  Rotation(View(es, 0)) = View(Rotate(es), 0)
<1> PICK v : v = View(es, 0)
    OBVIOUS
<1>1. v = [base |-> 0, dims |-> es]
    BY DEF View
<1>2. Rotation(v) = [v EXCEPT !.dims = Rotate(es)]
    BY ONLY <1>1 DEF Rotation
<1>3. Rotation(v) = [base |-> 0, dims |-> Rotate(es)]
    BY ONLY <1>1, <1>2, SMTT(30)
<1>4. QED
    BY ONLY <1>3, v = View(es, 0) DEF View

\* reinterpret_array_cast(n): one more index, which selects a part of an element.
LEMMA ReinterpretInPartsMaps ==
    ASSUME IInv, origin \in Int, NEW w \in Widths, ReinterpretInParts(w)
    PROVE  Maps!ReinterpretInParts(w)
<1> PICK v \in RegularViews : v = view
    BY TopIs
<1>1. width \in Nat \ {0} /\ width \in Int /\ width # 0 /\ w \in Nat \ {0} /\ w \in Int /\ w # 0
    BY ViewsAssumption DEF IInv
<1>2. Remainder(width, w) = 0
    BY DEF ReinterpretInParts
<1> PICK n \in Nat : n = width \div w /\ n = Quotient(width, w) /\ width % w = 0
    <2> PICK a \in Nat, b \in Nat \ {0} : a = width /\ b = w
        BY <1>1
    <2>1. Quotient(a, b) = a \div b /\ Remainder(a, b) = a % b /\ a \div b \in Nat
        BY ONLY a \in Nat, b \in Nat \ {0}, QuotientOfNat, DivBounds
    <2>2. QED
        BY <1>2, <2>1
<1> PICK sc : sc = ScaleLayout(view.dims, width, w)
    OBVIOUS
<1>3. ScaledLayout(sc, v, width, w)
    BY <1>1, <1>2, SplitParts, LayoutScaled
<1>4. sc \in Seq(Regular) /\ sc # <<>> /\ Len(sc) = Len(v.dims)
    BY ONLY <1>3 DEF ScaledLayout
<1> PICK es : es = <<PartsDimension(n)>> \o sc
    OBVIOUS
<1>5. es \in Seq(Regular) /\ es # <<>>
    <2>1. PartsDimension(n) \in Regular
        BY PartsAre
    <2>2. QED
        BY ONLY <1>4, <2>1, es = <<PartsDimension(n)>> \o sc, OneBefore
<1> PICK u : u = Rotation(View(es, 0))
    OBVIOUS
<1>6. WithParts(u, sc, n)
    BY ONLY <1>4, n \in Nat, u = Rotation(View(es, 0)), es = <<PartsDimension(n)>> \o sc, RotatedParts
<1>7. u = View(Rotate(es), 0)
    BY ONLY <1>5, u = Rotation(View(es, 0)), RotationIs
<1> PICK op : op = <<"reinterpret_cast", w, width>>
    OBVIOUS
<1>8. CastTo(Rotate(es), w, 0, op)
    BY DEF ReinterpretInParts, PartsDimension
<1>9. view' = u /\ width' = w /\ origin' = origin + width * view.base + 0 /\ call' = op
    BY ONLY <1>7, <1>8 DEF CastTo
<1> PICK xs, ys : xs = Extensions(view.dims) /\ ys = Append(xs, <<0, n>>)
    OBVIOUS
<1>10. Extensions(sc) = xs
    BY <1>3, ScaledExtensions
<1>11. u \in RegularViews /\ Extensions(u.dims) = ys
    BY ONLY <1>6, <1>10, ys = Append(xs, <<0, n>>) DEF WithParts
<1>12. Extensions(view.dims)' = ys
    BY ONLY <1>9, <1>11
<1>13. Valids = Maps!Box(xs)
    BY ViewParts, BoxIsIndices DEF Valids
<1>14. Valids' = Maps!Box(ys)
    BY <1>11, <1>12, ViewParts, BoxIsIndices DEF Valids
<1>21. v.base \in Int
    BY ViewParts
<1> PICK a \in Int, b \in Int, o \in Int, z \in Int : a = width /\ b = v.base /\ o = origin /\ z = w
    BY ONLY <1>1, <1>21, origin \in Int
<1>15. ASSUME NEW i \in Maps!Box(ys)
       PROVE  (o + a * b + 0) + z * Address(u, i) = Elem[SubSeq(i, 1, Len(i) - 1)] + w * i[Len(i)]
    <2>1. IsIndex(i, u.dims)
        <3>1. i \in Indices(Extensions(u.dims)) /\ u.dims \in Seq(Regular)
            BY <1>11, BoxIsIndices, ViewParts
        <3>2. QED
            BY ONLY <3>1, IndicesAreOf
    <2> PICK q : q = SubSeq(i, 1, Len(i) - 1)
        OBVIOUS
    <2> PICK x \in Int : x = i[Len(i)]
        BY ONLY <1>6, <2>1 DEF WithParts
    <2>2. IsIndex(q, sc) /\ Address(u, i) = Address(View(sc, 0), q) + x
        BY ONLY <1>6, <2>1, q = SubSeq(i, 1, Len(i) - 1), x = i[Len(i)] DEF WithParts
    <2>3. q \in Seq(Int) /\ Len(q) = Len(v.dims)
        BY ONLY <1>4, <2>2 DEF IsIndex
    <2>4. q \in Maps!Box(xs)
        BY <1>4, <1>10, <2>2, BoxIsIndices, IndicesAreOf
    <2> PICK c \in Int : c = Address(v, q)
        BY <2>3, AddressInt
    <2> PICK y \in Int : y = Address(View(sc, 0), q)
        <3> PICK t \in RegularViews : t = View(sc, 0)
            BY <1>4, MadeView
        <3>1. t.dims = sc
            BY ONLY t = View(sc, 0) DEF View
        <3>2. Len(q) = Len(t.dims) /\ q \in Seq(Int)
            BY ONLY <1>4, <2>3, <3>1
        <3>3. Address(t, q) \in Int
            BY ONLY <3>2, t \in RegularViews, AddressInt
        <3>4. QED
            BY ONLY <3>3, t = View(sc, 0)
    <2>5. z * y = a * (c - b)
        <3>1. w * Address(View(sc, 0), q) = width * (Address(v, q) - v.base)
            BY ONLY <1>3, <2>3, v \in RegularViews, ScaledAddress
        <3>2. QED
            BY ONLY <3>1, a = width, b = v.base, z = w, c = Address(v, q), y = Address(View(sc, 0), q)
    <2>6. Elem[q] = o + a * c
        BY <1>13, <2>4 DEF Elem
    <2>7. z * (y + x) = z * y + z * x /\ z * y \in Int /\ z * x \in Int
        BY ONLY z \in Int, y \in Int, x \in Int
    <2>8. a * (c - b) = a * c - a * b /\ a * c \in Int /\ a * b \in Int
        BY ONLY a \in Int, b \in Int, c \in Int
    <2>9. (o + a * b + 0) + z * (y + x) = o + a * c + z * x
        BY ONLY <2>5, <2>7, <2>8, o \in Int
    <2>10. Address(u, i) = y + x
        BY ONLY <2>2, y = Address(View(sc, 0), q)
    <2>11. (o + a * b + 0) + z * Address(u, i) = Elem[q] + w * x
        BY ONLY <2>6, <2>9, <2>10, z = w
    <2>12. QED
        BY ONLY <2>11, q = SubSeq(i, 1, Len(i) - 1), x = i[Len(i)]
<1>16. Elem' = [i \in Maps!Box(ys) |-> (o + a * b + 0) + z * Address(u, i)]
    <2>1. Elem' = [i \in Valids' |-> origin' + width' * Address(view', i)]
        BY DEF Elem
    <2>2. QED
        BY ONLY <1>9, <1>14, <2>1, a = width, b = v.base, o = origin, z = w, v = view
<1>17. Elem' = [i \in Maps!Box(ys) |-> Elem[SubSeq(i, 1, Len(i) - 1)] + w * i[Len(i)]]
    BY ONLY <1>15, <1>16
<1>18. Elem' = [i \in Maps!Box(ys) |-> Elem[SubSeq(i, 1, Maps!D)] + w * i[Maps!D + 1]]
    <2>1. ys = Extensions(u.dims) /\ u.dims \in Seq(Regular) /\ Len(u.dims) = Maps!D + 1
        <3>1. Len(xs) = Maps!D /\ xs \in Seq(Int \X Int)
            BY ViewParts, ExtensionsOf DEF Maps!D
        <3>2. Len(ys) = Maps!D + 1
            BY ONLY <3>1, ys = Append(xs, <<0, n>>)
        <3>3. u.dims \in Seq(Regular)
            BY ONLY <1>11, ViewParts
        <3>4. Len(Extensions(u.dims)) = Len(u.dims)
            BY ONLY <3>3, ExtensionsOf
        <3>5. QED
            BY ONLY <1>11, <3>2, <3>3, <3>4
    <2>2. ASSUME NEW i \in Maps!Box(ys) PROVE Len(i) = Maps!D + 1
        BY ONLY <2>1, <2>2, BoxIsIndices, IndicesAreOf DEF IsIndex
    <2>3. Maps!D \in Nat
        BY ViewParts, ExtensionsOf DEF Maps!D
    <2>4. QED
        BY ONLY <1>17, <2>2, <2>3
<1>19. ys = Append(Extensions(view.dims), <<0, width \div w>>)
    BY ONLY xs = Extensions(view.dims), ys = Append(xs, <<0, n>>), n = width \div w
<1>20. QED
    BY <1>9, <1>12, <1>18, <1>19, width % w = 0 DEF Maps!ReinterpretInParts, Elem

--------------------------------------------------------------------------------
(* The initial view, every step, and the theorem.                             *)

\* What an array reports of its extensions.
LEMMA ArrayReports ==
    ASSUME NEW N \in Nat, NEW xs, HasLengths(xs, N)
    PROVE  Extensions(LayoutOf(xs)) = Maps!Reported(xs)
<1>1. DOMAIN LayoutOf(xs) = 1 .. N /\ \A k \in 1 .. N : ArrayDimension(LayoutOf(xs)[k], xs, k)
    BY ArrayDimensions
<1>2. DOMAIN xs = 1 .. N /\ Len(xs) = N
    BY DEF HasLengths
<1>3. ASSUME NEW k \in 1 .. N
      PROVE  Extension(LayoutOf(xs)[k]) = IF \E m \in k .. Len(xs) : Maps!Count(xs[m]) = 0 THEN <<0, 0>> ELSE xs[k]
    <2>1. Inner(xs, k - 1) = 0 <=> \E m \in k .. N : Length(xs[m]) = 0
        BY InnerZero
    <2>2. Inner(xs, k - 1) = 0 <=> \E m \in k .. N : Maps!Count(xs[m]) = 0
        BY ONLY <2>1 DEF Length, Maps!Count
    <2>3. QED
        BY ONLY <1>1, <1>2, <2>2, k \in 1 .. N DEF ArrayDimension
<1>4. Extensions(LayoutOf(xs)) = [k \in 1 .. N |-> Extension(LayoutOf(xs)[k])]
    BY ONLY <1>1 DEF Extensions
<1>5. QED
    BY ONLY <1>2, <1>3, <1>4 DEF Maps!Reported

\* The elements of a new array.
LEMMA ArrayElements ==
    ASSUME IInv, origin = 0, width = RootWidth, NEW N \in Nat, N >= 1, NEW xs, HasLengths(xs, N),
           view = View(LayoutOf(xs), 0), NEW i \in Indices(Extensions(view.dims))
    PROVE  origin + width * Address(view, i)
               = RootWidth * Cardinality({j \in Indices(Extensions(view.dims)) : Before(j, i)})
<1> PICK v \in RegularViews : v = view
    BY TopIs
<1>1. v.dims = LayoutOf(xs)
    BY DEF View
<1>2. Extensions(v.dims) = Maps!Reported(xs)
    BY <1>1, ArrayReports
<1>3. DOMAIN xs = 1 .. N /\ Len(xs) = N
    BY DEF HasLengths
<1>4. \A k \in 1 .. N : Inner(xs, k - 1) = 0 <=> \E m \in k .. N : Length(xs[m]) = 0
    BY InnerZero
<1>5. 1 \in 1 .. N /\ 1 - 1 = 0
    OBVIOUS
<1>6. Inner(xs, 0) = 0 <=> \E m \in 1 .. N : Length(xs[m]) = 0
    BY ONLY <1>4, <1>5
<1>7. Maps!Reported(xs) = [k \in 1 .. N |-> IF \E m \in k .. N : Length(xs[m]) = 0 THEN <<0, 0>> ELSE xs[k]]
    BY ONLY <1>3 DEF Maps!Reported, Maps!Count, Length
<1>8. Inner(xs, 0) # 0
    <2>1. SUFFICES ASSUME Inner(xs, 0) = 0 PROVE FALSE
        OBVIOUS
    <2>2. Maps!Reported(xs)[1] = <<0, 0>>
        BY ONLY <1>5, <1>6, <1>7, <2>1
    <2>3. Extension(v.dims[1]) = <<0, 0>> /\ 1 \in 1 .. Len(v.dims) /\ v.dims \in Seq(Regular)
        <3>1. v.dims \in Seq(Regular) /\ 1 \in 1 .. Len(v.dims)
            BY ONLY v \in RegularViews, ViewParts
        <3>2. Extensions(v.dims)[1] = Extension(v.dims[1])
            BY ONLY <3>1, ExtensionsOf
        <3>3. QED
            BY ONLY <1>2, <2>2, <3>1, <3>2
    <2>4. IsIndex(i, v.dims)
        BY ONLY <2>3, i \in Indices(Extensions(view.dims)), v = view, IndicesAreOf
    <2>5. InDimension(i[1], v.dims[1])
        BY ONLY <2>3, <2>4 DEF IsIndex
    <2>6. QED
        BY ONLY <2>3, <2>5 DEF InDimension
<1>9. Extensions(view.dims) = xs
    <2>1. \A k \in 1 .. N : \A m \in k .. N : m \in 1 .. N
        OBVIOUS
    <2>2. \A k \in 1 .. N : ~ \E m \in k .. N : Length(xs[m]) = 0
        BY ONLY <1>6, <1>8, <2>1
    <2>3. Maps!Reported(xs) = [k \in 1 .. N |-> xs[k]]
        BY ONLY <1>7, <2>2
    <2>4. xs \in Seq(Int \X Int)
        BY DEF HasLengths
    <2>5. xs = [k \in 1 .. N |-> xs[k]]
        BY ONLY <1>3, <2>4
    <2>6. QED
        BY ONLY <1>2, <2>3, <2>5, v = view
<1> PICK r : r = Cardinality({j \in Indices(xs) : Before(j, i)})
    OBVIOUS
<1>10. Address(v, i) = r
    <2>1. i \in Indices(xs) /\ v = View(LayoutOf(xs), 0)
        BY <1>9
    <2>2. QED
        BY ONLY <1>8, <2>1, N \in Nat, N >= 1, HasLengths(xs, N), v \in RegularViews,
           r = Cardinality({j \in Indices(xs) : Before(j, i)}),
                ArrayInOrder
<1>11. r \in Int
    <2>1. i \in Seq(Int) /\ Len(i) = Len(v.dims)
        BY ViewParts, IndicesAreOf DEF IsIndex
    <2>2. QED
        BY ONLY <1>10, <2>1, v \in RegularViews, AddressInt
<1> PICK w \in Int : w = RootWidth
    BY ViewsAssumption
<1>12. 0 + w * r = w * r
    BY ONLY <1>11, w \in Int
<1>13. QED
    BY ONLY <1>9, <1>10, <1>12, v = view, w = RootWidth, origin = 0, width = RootWidth,
            r = Cardinality({j \in Indices(xs) : Before(j, i)})

LEMMA CardinalityIs ==
    ASSUME NEW S
    PROVE  Maps!Cardinality(S) = Cardinality(S)
BY DEF Maps!Cardinality, Cardinality

\* An array names its elements as the abstract one does.
LEMMA InitMaps == Init => Maps!Init
<1> SUFFICES ASSUME Init PROVE Maps!Init
    OBVIOUS
<1> PICK xs \in Roots : view = View(LayoutOf(xs), 0) /\ width = RootWidth /\ origin = 0 /\ call = <<"array", xs>>
    BY DEF Init
<1>1. IInv
    BY InitRegular
<1>2. xs \in Seq(Int \X Int) /\ xs # <<>> /\ \A k \in DOMAIN xs : Length(xs[k]) >= 0
    BY ViewsAssumption
<1> PICK N \in Nat : N = Len(xs) /\ N >= 1
    BY <1>2
<1>3. HasLengths(xs, N)
    <2>1. DOMAIN xs = 1 .. N /\ \A k \in 1 .. N : xs[k] \in Int \X Int
        BY <1>2
    <2>2. ASSUME NEW k \in 1 .. N PROVE Length(xs[k]) \in Nat
        <3>1. xs[k] \in Int \X Int /\ Length(xs[k]) >= 0
            BY ONLY <1>2, <2>1, k \in 1 .. N
        <3>2. Length(xs[k]) \in Int
            BY ONLY <3>1 DEF Length
        <3>3. QED
            BY ONLY <3>1, <3>2
    <2>3. QED
        BY ONLY <1>2, <2>2, N = Len(xs) DEF HasLengths
<1>4. Extensions(view.dims) = Maps!Reported(xs)
    <2>1. Extensions(LayoutOf(xs)) = Maps!Reported(xs)
        BY <1>3, ArrayReports
    <2>2. view.dims = LayoutOf(xs)
        BY DEF View
    <2>3. QED
        BY ONLY <2>1, <2>2
<1> PICK ys : ys = Extensions(view.dims)
    OBVIOUS
<1>5. Valids = Indices(ys) /\ Maps!Box(ys) = Indices(ys)
    BY <1>1, ViewParts, BoxIsIndices DEF Valids, IInv
<1>6. \A i \in Indices(ys) : origin + width * Address(view, i) = RootWidth * Cardinality({j \in Indices(ys) : Before(j, i)})
    BY <1>1, <1>3, ArrayElements
<1>7. \A i, j : Before(j, i) <=> Maps!Precedes(j, i)
    BY ONLY TRUE DEF Before, Maps!Precedes
<1>8. \A i : {j \in Indices(ys) : Before(j, i)} = {j \in Indices(ys) : Maps!Precedes(j, i)}
    BY ONLY <1>7
<1>9. \A i \in Indices(ys) : origin + width * Address(view, i) = RootWidth * Cardinality({j \in Indices(ys) : Maps!Precedes(j, i)})
    BY ONLY <1>6, <1>8
<1>10. [i \in Valids |-> origin + width * Address(view, i)]
          = [i \in Maps!Box(ys) |-> RootWidth * Cardinality({j \in Maps!Box(ys) : Maps!Precedes(j, i)})]
    BY ONLY <1>5, <1>9
<1>11. [i \in Valids |-> origin + width * Address(view, i)]
          = [i \in Maps!Box(Extensions(view.dims)) |->
                RootWidth * Maps!Cardinality({j \in Maps!Box(Extensions(view.dims)) : Maps!Precedes(j, i)})]
    BY ONLY <1>10, ys = Extensions(view.dims), CardinalityIs
<1>12. QED
    BY ONLY <1>4, <1>11, xs \in Roots, width = RootWidth, call = <<"array", xs>> DEF Maps!Init

\* Bytes are counted from an integer.
OriginInt == origin \in Int

LEMMA OriginSteps == IInv /\ OriginInt /\ [Next]_vars => OriginInt'
<1> SUFFICES ASSUME IInv, OriginInt, [Next]_vars PROVE OriginInt'
    OBVIOUS
<1>1. origin \in Int /\ width \in Int /\ view.base \in Int
    <2>1. view \in RegularViews /\ width \in Int
        BY DEF IInv
    <2>2. view.base \in Int
        BY ONLY <2>1, ViewParts
    <2>3. QED
        BY <2>1, <2>2 DEF OriginInt
<1>2. ASSUME NEW v, NEW op, Becomes(v, op) PROVE OriginInt'
    BY <1>1, <1>2 DEF Becomes, OriginInt
<1>3. ASSUME NEW ds, NEW w, NEW place \in Int, NEW op, CastTo(ds, w, place, op) PROVE OriginInt'
    <2>1. origin' = origin + width * view.base + place
        BY ONLY <1>3 DEF CastTo
    <2> PICK a \in Int, b \in Int, c \in Int : a = origin /\ b = width /\ c = view.base
        BY ONLY <1>1
    <2>2. a + b * c + place \in Int
        BY ONLY a \in Int, b \in Int, c \in Int, place \in Int
    <2>3. QED
        BY ONLY <2>1, <2>2, a = origin, b = width, c = view.base DEF OriginInt
<1>4. CASE Permuted
    BY ONLY <1>2, <1>4, SMTT(30) DEF Permuted, Rotated, Unrotated, Transposed
<1>5. CASE Reversed \/ Diagonal \/ Broadcasted(1)
    BY ONLY <1>2, <1>5 DEF Reversed, Diagonal, Broadcasted
<1>6. CASE Shortened
    BY ONLY <1>2, <1>6 DEF Shortened, Strided, Taked, Dropped
<1>7. CASE Renamed
    BY ONLY <1>2, <1>7 DEF Renamed, Reindexed
<1>8. CASE Selected
    BY ONLY <1>2, <1>8 DEF Selected, Element, Sliced, Blocked, SlicedDown
<1>9. CASE Called
    BY ONLY <1>2, <1>9 DEF Called, Ranged, Stenciled, RangedElement
<1>10. CASE Parted
    BY ONLY <1>2, <1>10 DEF Parted, Flatted, Partitioned, Chunked, TiledQuotient, TiledRemainder
<1>11. CASE Reread
    <2>1. ASSUME StaticArrayCast PROVE OriginInt'
        BY ONLY <1>3, <2>1, 0 \in Int DEF StaticArrayCast
    <2>2. ASSUME NEW m \in Members, MemberCast(m) PROVE OriginInt'
        <3>1. m[1] \in Int
            BY ViewsAssumption
        <3>2. QED
            BY ONLY <1>3, <2>2, <3>1 DEF MemberCast
    <2>3. ASSUME NEW w \in Widths, ReinterpretArrayCast(w) PROVE OriginInt'
        BY ONLY <1>3, <2>3, 0 \in Int DEF ReinterpretArrayCast
    <2>4. ASSUME NEW w \in Widths, ReinterpretInParts(w) PROVE OriginInt'
        BY ONLY <1>3, <2>4, 0 \in Int DEF ReinterpretInParts
    <2>5. QED
        BY ONLY <1>11, <2>1, <2>2, <2>3, <2>4 DEF Reread
<1>12. CASE \E y \in Subranges(<<0, Size(Top)>>) : FromIterators(y[1], y[2])
    BY ONLY <1>2, <1>12 DEF FromIterators
<1>13. CASE UNCHANGED vars
    BY ONLY <1>1, <1>13 DEF vars, OriginInt
<1>14. QED
    BY ONLY <1>4, <1>5, <1>6, <1>7, <1>8, <1>9, <1>10, <1>11, <1>12, <1>13, [Next]_vars DEF Next

LEMMA SubrangesAre ==
    ASSUME NEW x
    PROVE  Maps!Subranges(x) = Subranges(x)
BY DEF Maps!Subranges, Subranges

LEMMA PermutedMaps ==
    ASSUME IInv, Permuted \/ Reversed \/ Diagonal
    PROVE  Maps!Next
BY RotatedMaps, UnrotatedMaps, TransposedMaps, ReversedMaps, DiagonalMaps DEF Permuted, Maps!Next

LEMMA ShortenedMaps ==
    ASSUME IInv, Shortened
    PROVE  Maps!Next
<1>1. ASSUME NEW s \in Steps, Strided(s) PROVE Maps!Next
    <2>1. Maps!Strided(s)
        BY <1>1, StridedMaps
    <2>2. QED
        BY ONLY <2>1, s \in Steps DEF Maps!Next
<1>2. ASSUME NEW n \in 0 .. Size(Top), Taked(n) \/ Dropped(n) PROVE Maps!Next
    <2>1. Maps!Taked(n) \/ Maps!Dropped(n)
        BY <1>2, TakedMaps, DroppedMaps
    <2>2. n \in 0 .. Maps!size
        BY TopIs
    <2>3. QED
        BY ONLY <2>1, <2>2 DEF Maps!Next
<1>3. QED
    BY ONLY <1>1, <1>2, Shortened DEF Shortened

LEMMA RenamedMaps ==
    ASSUME IInv, Renamed
    PROVE  Maps!Next
<1> PICK f \in Firsts : Reindexed(f)
    BY DEF Renamed
<1>1. f \in Int
    BY ViewsAssumption
<1>2. Maps!Reindexed(f)
    BY <1>1, ReindexedMaps
<1>3. QED
    BY ONLY <1>2, f \in Firsts DEF Maps!Next

LEMMA SelectedMaps ==
    ASSUME IInv, Selected
    PROVE  Maps!Next
<1>1. Maps!first = Valid[1] /\ Maps!last = Valid[2] /\ Extensions(view.dims)[1] = Valid
    BY TopIs
<1>2. ASSUME NEW j \in Valid[1] .. Valid[2] - 1, Element(j) PROVE Maps!Next
    <2>1. Maps!Element(j)
        BY <1>2, ElementMaps
    <2>2. j \in Maps!first .. Maps!last - 1
        BY ONLY <1>1, j \in Valid[1] .. Valid[2] - 1
    <2>3. QED
        BY ONLY <2>1, <2>2 DEF Maps!Next
<1>3. ASSUME NEW y \in Subranges(Valid), Sliced(y[1], y[2]) \/ Blocked(y[1], y[2]) PROVE Maps!Next
    <2>1. Maps!Sliced(y[1], y[2]) \/ Maps!Blocked(y[1], y[2])
        BY <1>3, SlicedMaps, BlockedMaps
    <2>2. y \in Maps!Subranges(Extensions(view.dims)[1])
        BY ONLY <1>1, y \in Subranges(Valid), SubrangesAre
    <2>3. QED
        BY ONLY <2>1, <2>2 DEF Maps!Next
<1>4. ASSUME NEW a \in Valid[1] - 1 .. Valid[2] - 1, NEW b \in Valid[1] - 1 .. Valid[2] - 1, b < a, SlicedDown(a, b)
      PROVE  Maps!Next
    <2>1. Maps!SlicedDown(a, b)
        BY <1>4, SlicedDownMaps
    <2>2. a \in Maps!first - 1 .. Maps!last - 1 /\ b \in Maps!first - 1 .. Maps!last - 1
        BY ONLY <1>1, a \in Valid[1] - 1 .. Valid[2] - 1, b \in Valid[1] - 1 .. Valid[2] - 1
    <2>3. QED
        BY ONLY <1>4, <2>1, <2>2 DEF Maps!Next
<1>5. QED
    BY ONLY <1>2, <1>3, <1>4, Selected DEF Selected

LEMMA CalledMaps ==
    ASSUME IInv, Called
    PROVE  Maps!Next
<1>1. D > 1 /\ Maps!D > 1 /\ Extensions(view.dims)[1] = Valid
    BY TopIs DEF Called
<1> PICK x : x = Extension(view.dims[2])
    OBVIOUS
<1>2. Extensions(view.dims)[2] = x
    <2>1. view \in RegularViews /\ Len(view.dims) \in Nat /\ Len(view.dims) > 1
        BY <1>1, ViewParts DEF IInv, D
    <2>2. 2 \in 1 .. Len(view.dims) /\ view.dims \in Seq(Regular)
        BY <2>1, ViewParts
    <2>3. QED
        BY <2>2, ExtensionsOf
<1> PICK p \in Blocks(Valid) :
          \/ \E q \in Blocks(x) : Ranged(p, q) \/ Stenciled(p, q)
          \/ \E j \in x[1] .. x[2] - 1 : RangedElement(p, j)
    BY DEF Called
<1>3. p \in Maps!Subranges(Extensions(view.dims)[1])
    BY ONLY <1>1, p \in Blocks(Valid), SubrangesAre DEF Blocks
<1>4. ASSUME NEW q \in Blocks(x), Ranged(p, q) \/ Stenciled(p, q) PROVE Maps!Next
    <2>1. Maps!Ranged(p, q) \/ Maps!Stenciled(p, q)
        BY <1>1, <1>4, RangedMaps, StenciledMaps
    <2>2. q \in Maps!Subranges(Extensions(view.dims)[2])
        BY ONLY <1>2, q \in Blocks(x), SubrangesAre DEF Blocks
    <2>3. QED
        BY ONLY <1>1, <1>3, <2>1, <2>2 DEF Maps!Next
<1>5. ASSUME NEW j \in x[1] .. x[2] - 1, RangedElement(p, j) PROVE Maps!Next
    <2>1. InDimension(j, view.dims[2])
        BY ONLY j \in x[1] .. x[2] - 1, x = Extension(view.dims[2]) DEF InDimension
    <2>2. Maps!RangedElement(p, j)
        BY <1>1, <1>5, <2>1, RangedElementMaps
    <2>3. j \in Extensions(view.dims)[2][1] .. Extensions(view.dims)[2][2] - 1
        BY ONLY <1>2, j \in x[1] .. x[2] - 1
    <2>4. QED
        BY ONLY <1>1, <1>3, <2>2, <2>3 DEF Maps!Next
<1>6. QED
    BY <1>4, <1>5

LEMMA PartedMaps ==
    ASSUME IInv, Parted
    PROVE  Maps!Next
<1>1. Maps!size = Size(Top) /\ Size(Top) \in Nat /\ D \in Nat /\ D >= 1
    BY TopIs, ViewParts, SMTT(30) DEF D
<1>2. ASSUME NEW n \in 1 .. Size(Top), Partitioned(n) \/ Chunked(n) PROVE Maps!Next
    <2>1. Maps!Partitioned(n) \/ Maps!Chunked(n)
        BY <1>2, PartitionedMaps, ChunkedMaps
    <2>2. D < MaxDims /\ MaxDims \in Nat
        BY <1>2, ViewsAssumption DEF Partitioned, Chunked
    <2>3. n \in 1 .. MaxDims * (Maps!size + 1)
        <3> PICK s \in Nat, m \in Nat : s = Size(Top) /\ m = MaxDims /\ m >= 1
            BY ONLY <1>1, <2>2
        <3>1. m * (s + 1) >= s + 1
            BY ONLY s \in Nat, m \in Nat, m >= 1
        <3>2. m * (s + 1) \in Nat
            BY ONLY s \in Nat, m \in Nat
        <3>3. n \in 1 .. m * (s + 1)
            BY ONLY <3>1, <3>2, n \in 1 .. Size(Top), s = Size(Top), s \in Nat
        <3>4. QED
            BY ONLY <1>1, <3>3, s = Size(Top), m = MaxDims
    <2>4. QED
        BY ONLY <2>1, <2>3 DEF Maps!Next
<1>3. ASSUME NEW n \in 1 .. Size(Top), TiledQuotient(n) \/ TiledRemainder(n) PROVE Maps!Next
    <2>1. Maps!TiledQuotient(n) \/ Maps!TiledRemainder(n)
        BY <1>3, TiledQuotientMaps, TiledRemainderMaps
    <2>2. n \in 1 .. Maps!size
        BY ONLY <1>1, n \in 1 .. Size(Top)
    <2>3. QED
        BY ONLY <2>1, <2>2 DEF Maps!Next
<1>4. Flatted => Maps!Next
    BY FlattedMaps DEF Maps!Next
<1>5. QED
    BY ONLY <1>2, <1>3, <1>4, Parted DEF Parted

LEMMA RereadMaps ==
    ASSUME IInv, OriginInt, Reread
    PROVE  Maps!Next
<1>1. origin \in Int
    BY DEF OriginInt
<1>2. StaticArrayCast => Maps!Next
    BY <1>1, StaticArrayCastMaps DEF Maps!Next
<1>3. ASSUME NEW m \in Members, MemberCast(m) PROVE Maps!Next
    <2>1. Maps!MemberCast(m)
        BY <1>1, <1>3, MemberCastMaps
    <2>2. QED
        BY ONLY <2>1, m \in Members DEF Maps!Next
<1>4. ASSUME NEW w \in Widths, ReinterpretArrayCast(w) \/ ReinterpretInParts(w) PROVE Maps!Next
    <2>1. Maps!ReinterpretArrayCast(w) \/ Maps!ReinterpretInParts(w)
        BY <1>1, <1>4, ReinterpretArrayCastMaps, ReinterpretInPartsMaps
    <2>2. QED
        BY ONLY <2>1, w \in Widths DEF Maps!Next
<1>5. QED
    BY ONLY <1>2, <1>3, <1>4, Reread DEF Reread

\* Every function of a view is one of the operations on index maps.
LEMMA NextMaps ==
    ASSUME IInv, OriginInt, [Next]_vars
    PROVE  [Maps!Next]_(Maps!vars)
<1>1. Permuted \/ Reversed \/ Diagonal => Maps!Next
    BY PermutedMaps
<1>2. Shortened \/ Renamed => Maps!Next
    BY ShortenedMaps, RenamedMaps
<1>3. Selected \/ Called => Maps!Next
    BY SelectedMaps, CalledMaps
<1>4. Parted => Maps!Next
    BY PartedMaps
<1>5. Reread => Maps!Next
    BY RereadMaps
<1>6. Broadcasted(1) => Maps!Next
    <2>1. Broadcasted(1) => Maps!Broadcasted(1)
        BY BroadcastedMaps
    <2>2. QED
        BY ONLY <2>1 DEF Maps!Next
<1>7. ASSUME NEW y \in Subranges(<<0, Size(Top)>>), FromIterators(y[1], y[2]) PROVE Maps!Next
    <2>1. Maps!FromIterators(y[1], y[2])
        BY <1>7, FromIteratorsMaps
    <2>2. Maps!size = Size(Top)
        BY TopIs
    <2>3. y \in Maps!Subranges(<<0, Maps!size>>)
        BY ONLY <2>2, y \in Subranges(<<0, Size(Top)>>), SubrangesAre
    <2>4. QED
        BY ONLY <2>1, <2>3 DEF Maps!Next
<1>8. ASSUME UNCHANGED vars PROVE UNCHANGED Maps!vars
    BY ONLY <1>8 DEF vars, Maps!vars, Valids
<1>9. QED
    BY ONLY <1>1, <1>2, <1>3, <1>4, <1>5, <1>6, <1>7, <1>8, [Next]_vars DEF Next

\* For arrays of every number of dimensions and every chain of views of views,
\* each view selects and renames exactly the elements that its function
\* promises: the strides, offsets and bases of the code implement index maps.
THEOREM ViewsAreMaps == Spec => ImplementsIndexMaps
<1>1. Init => Maps!Init
    BY InitMaps
<1>2. Init => OriginInt
    BY DEF Init, OriginInt
<1>3. IInv /\ OriginInt /\ [Next]_vars => OriginInt'
    BY OriginSteps
<1>4. IInv /\ OriginInt /\ [Next]_vars => [Maps!Next]_(Maps!vars)
    BY NextMaps
<1>5. Spec => []IInv
    BY AlwaysRegular
<1>6. QED
    BY <1>1, <1>2, <1>3, <1>4, <1>5, PTL DEF Spec, ImplementsIndexMaps, Maps!Spec

================================================================================
