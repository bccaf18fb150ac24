--------------------------- MODULE VectorViews_proofs --------------------------
(******************************************************************************)
(* For vectors of every size, elements of every width and chains of views of  *)
(* every length: the ways through a view of one dimension meet, and the       *)
(* arithmetic of base and layout implements VectorMaps.                       *)
(******************************************************************************)
EXTENDS VectorViews, Layout_proofs

Positive == Nat \ {0}

\* A view of n elements of w units, s elements apart, whose first index is f:
\* nelems and offset are exact multiples of the stride.
Vector(b, w, s, n, f) ==
    [base |-> b, width |-> w, stride |-> s, offset |-> s * f, nelems |-> s * n]

IsVector(v) ==
    \E b \in Int, w \in Positive, s \in Positive, n \in Nat, f \in Int : v = Vector(b, w, s, n, f)

\* What the functions that make views keep.
IInv == IsVector(view)

\* n places, each u units after the one before it.
Line(b, u, n) == [k \in 1 .. n |-> b + u * (k - 1)]

\* The first index that is reported.
Reported(n, f) == IF n = 0 THEN 0 ELSE f

PlacesOf(v) == [k \in 1 .. Size(v) |-> At1(v, Extension(v)[1] + k - 1)]

--------------------------------------------------------------------------------
LEMMA VectorSize ==
    ASSUME NEW b, NEW w, NEW s \in Positive, NEW n \in Nat, NEW f \in Int
    PROVE  /\ Size(Vector(b, w, s, n, f)) = n
           /\ Extension(Vector(b, w, s, n, f)) = <<Reported(n, f), Reported(n, f) + n>>
<1>1. s \in Int /\ s # 0 /\ (s * n = 0 <=> n = 0)
    BY DEF Positive
<1>2. Quotient(s * n, s) = n /\ Quotient(s * f, s) = f /\ Quotient(s * (f + n), s) = f + n
    <2>1. \A k \in Int : Quotient(s * k, s) = k
        BY ONLY <1>1, QuotientExact
    <2>2. n \in Int /\ f + n \in Int
        OBVIOUS
    <2>3. QED
        BY ONLY <2>1, <2>2, f \in Int
<1>3. s * f + s * n = s * (f + n)
    BY <1>1
<1>4. Quotient(s * f + s * n, s) = f + n
    BY ONLY <1>2, <1>3
<1>5. QED
    BY <1>1, <1>2, <1>4 DEF Size, Extension, Reported, Vector

LEMMA VectorPlaces ==
    ASSUME NEW b \in Int, NEW w \in Positive, NEW s \in Positive, NEW n \in Nat, NEW f \in Int
    PROVE  PlacesOf(Vector(b, w, s, n, f)) = Line(b, w * s, n)
<1> PICK v : v = Vector(b, w, s, n, f)
    OBVIOUS
<1>1. ASSUME NEW k \in 1 .. n
      PROVE  At1(v, Reported(n, f) + k - 1) = b + (w * s) * (k - 1)
    <2>1. Reported(n, f) = f
        BY DEF Reported
    <2>2. (f + k - 1) * s - s * f = s * (k - 1)
        BY DEF Positive
    <2>3. w * (s * (k - 1)) = (w * s) * (k - 1)
        BY DEF Positive
    <2>4. At1(v, f + k - 1) = b + w * ((f + k - 1) * s - s * f)
        BY DEF At1, Plus, Vector
    <2>5. QED
        BY <2>1, <2>2, <2>3, <2>4
<1>2. Size(v) = n /\ Extension(v)[1] = Reported(n, f)
    BY VectorSize
<1>3. PlacesOf(v) = Line(b, w * s, n)
    BY ONLY <1>1, <1>2, n \in Nat DEF PlacesOf, Line
<1>4. QED
    BY <1>3

LEMMA LineType ==
    ASSUME NEW b \in Int, NEW u \in Int, NEW n \in Nat
    PROVE  Line(b, u, n) \in Seq(Int) /\ Len(Line(b, u, n)) = n
BY DEF Line

LEMMA EmptyLine == \A b, u : Line(b, u, 0) = <<>>
BY DEF Line

\* A part of a line: elements i .. j.
IsPart(i, j, n) == 1 <= i /\ j <= n /\ i <= j + 1

Place(b, u, i) == b + u * (i - 1)

Span(i, j) == j + 1 - i

LEMMA PartOfLine ==
    ASSUME NEW b \in Int, NEW u \in Int, NEW n \in Nat, NEW i \in Int, NEW j \in Int,
           IsPart(i, j, n)
    PROVE  SubSeq(Line(b, u, n), i, j) = Line(Place(b, u, i), u, Span(i, j))
<1> USE DEF IsPart, Place, Span
<1>1. SubSeq(Line(b, u, n), i, j) = [k \in 1 .. j + 1 - i |-> Line(b, u, n)[k + i - 1]]
    BY DEF Line
<1>2. ASSUME NEW k \in 1 .. j + 1 - i
      PROVE  Line(b, u, n)[k + i - 1] = b + u * (i - 1) + u * (k - 1)
    BY DEF Line
<1>3. QED
    BY <1>1, <1>2 DEF Line

--------------------------------------------------------------------------------
(* The functions that make views, on vectors.                                 *)

LEMMA SliceOfVector ==
    ASSUME NEW b \in Int, NEW w \in Positive, NEW s \in Positive, NEW n \in Nat, NEW f \in Int,
           NEW a \in Int, NEW c \in Int
    PROVE  SliceOf(Vector(b, w, s, n, f), a, c)
             = Vector(b + (w * s) * (a - f), w, s, IF n = 0 THEN 0 ELSE c - a, f)
<1> PICK v : v = Vector(b, w, s, n, f)
    OBVIOUS
<1>1. w * (a * s - s * f) = (w * s) * (a - f) /\ (s * n = 0 <=> n = 0)
    BY DEF Positive
<1>2. n # 0 => Quotient(s * n, n) = s
    <2>1. s * n = n * s
        BY DEF Positive
    <2>2. n # 0 => Quotient(n * s, n) = s
        BY QuotientExact DEF Positive
    <2>3. QED
        BY ONLY <2>1, <2>2
<1>3. /\ Size(v) = n
      /\ v.base = b /\ v.width = w /\ v.stride = s /\ v.offset = s * f /\ v.nelems = s * n
    BY VectorSize DEF Vector
<1>4. SliceOf(v, a, c) = [v EXCEPT !.base = b + w * (a * s - s * f),
                                   !.nelems = IF s * n = 0 THEN 0 ELSE Quotient(s * n, n) * (c - a)]
    BY ONLY <1>3 DEF SliceOf, IsEmpty, Plus
<1>5. s * 0 = 0
    BY DEF Positive
<1>6. QED
    BY <1>1, <1>2, <1>4, <1>5 DEF Vector

LEMMA TakeFrontOfVector ==
    ASSUME NEW b \in Int, NEW w \in Positive, NEW s \in Positive, NEW n \in Nat, NEW f \in Int,
           NEW k \in Nat
    PROVE  TakeFront(Vector(b, w, s, n, f), k) = Vector(b, w, s, k, f)
BY DEF TakeFront, Vector

LEMMA DropFrontOfVector ==
    ASSUME NEW b \in Int, NEW w \in Positive, NEW s \in Positive, NEW n \in Nat, NEW f \in Int,
           NEW k \in Int
    PROVE  DropFront(Vector(b, w, s, n, f), k) = Vector(b + (w * s) * (k - f), w, s, n - k, f)
<1>1. w * (k * s - s * f) = (w * s) * (k - f)
    BY DEF Positive
<1> PICK v : v = Vector(b, w, s, n, f)
    OBVIOUS
<1>2. /\ Size(v) = n
      /\ v.base = b /\ v.width = w /\ v.stride = s /\ v.offset = s * f
    BY VectorSize DEF Vector
<1>3. DropFront(v, k) = [v EXCEPT !.base = b + w * (k * s - s * f), !.nelems = s * (n - k)]
    BY ONLY <1>2 DEF DropFront, Plus
<1>4. QED
    BY <1>1, <1>3 DEF Vector

LEMMA ReindexedVector ==
    ASSUME NEW b \in Int, NEW w \in Positive, NEW s \in Positive, NEW n \in Nat, NEW f \in Int,
           NEW g \in Int
    PROVE  ReindexedFrom(Vector(b, w, s, n, f), g) = Vector(b, w, s, n, g)
<1>1. g * s = s * g
    BY DEF Positive
<1>2. QED
    BY <1>1 DEF ReindexedFrom, Vector

LEMMA StrideOfVector ==
    ASSUME NEW b \in Int, NEW w \in Positive, NEW s \in Positive, NEW n \in Nat, NEW f \in Int,
           NEW t \in Positive, Divides(Vector(b, w, s, n, f), t)
    PROVE  \E m \in Nat, g \in Int :
              n = t * m /\ f = t * g /\ StrideBy(Vector(b, w, s, n, f), t) = Vector(b, w, s * t, m, g)
<1>1. s * t \in Int /\ s * t # 0 /\ s \in Int /\ s # 0 /\ t \in Int /\ t > 0
    BY DEF Positive
<1>2. PICK m \in Int, g \in Int : s * n = (s * t) * m /\ s * f = (s * t) * g
    <2>1. Remainder(s * n, s * t) = 0 /\ Remainder(s * f, s * t) = 0
        BY DEF Divides, Vector
    <2>2. s * n \in Int /\ s * f \in Int
        BY <1>1
    <2>3. \A x \in Int : Remainder(x, s * t) = 0 => \E k \in Int : x = (s * t) * k
        BY ONLY <1>1, RemainderZero
    <2>4. QED
        BY ONLY <2>1, <2>2, <2>3
<1>3. n = t * m /\ f = t * g
    <2>1. s * (n - t * m) = 0 /\ s * (f - t * g) = 0
        BY <1>1, <1>2
    <2>2. QED
        BY <1>1, <2>1
<1>4. m \in Nat
    BY <1>1, <1>3
<1>5. QED
    BY <1>1, <1>2, <1>3, <1>4 DEF StrideBy, Vector

LEMMA PartOfVector ==
    ASSUME NEW b \in Int, NEW w \in Positive, NEW s \in Positive, NEW f \in Int,
           NEW p \in Positive, NEW c \in Nat, NEW k \in Int
    PROVE  PartOf(Vector(b, w, s, p * c, f), p, k) = Vector(b + (w * s) * (k * c), w, s, c, f)
<1> PICK v : v = Vector(b, w, s, p * c, f)
    OBVIOUS
<1>1. v.base = b /\ v.width = w /\ v.stride = s /\ v.offset = s * f /\ v.nelems = s * (p * c)
    BY DEF Vector
<1>2. Quotient(s * (p * c), p) = s * c
    <2>1. s * (p * c) = p * (s * c) /\ s * c \in Int /\ p \in Int /\ p # 0
        BY DEF Positive
    <2>2. Quotient(p * (s * c), p) = s * c
        BY ONLY <2>1, QuotientExact
    <2>3. QED
        BY ONLY <2>1, <2>2
<1>3. PartOf(v, p, k) = [v EXCEPT !.nelems = s * c, !.base = b + w * (k * (s * c))]
    <2>1. Quotient(v.nelems, p) = s * c
        BY ONLY <1>1, <1>2
    <2>2. PartOf(v, p, k) = [[v EXCEPT !.nelems = s * c] EXCEPT !.base = b + w * (k * (s * c))]
        BY ONLY <1>1, <2>1 DEF PartOf, Row, Plus
    <2>3. QED
        BY <2>2 DEF Vector
<1>4. w * (k * (s * c)) = (w * s) * (k * c)
    BY DEF Positive
<1>5. QED
    BY <1>3, <1>4 DEF Vector

\* The stride in elements of another width, where it is whole.
LEMMA ScaleOfVector ==
    ASSUME NEW b \in Int, NEW w \in Positive, NEW s \in Positive, NEW n \in Nat, NEW f \in Int,
           NEW to \in Positive, NEW t \in Positive, w * s = to * t
    PROVE  Scale(Vector(b, w, s, n, f), w, to) = Vector(b, to, t, n, f)
<1> PICK v : v = Vector(b, w, s, n, f)
    OBVIOUS
<1>1. v.stride = s /\ v.offset = s * f /\ v.nelems = s * n
    BY DEF Vector
<1>2. /\ s * w = to * t /\ (s * f) * w = to * (t * f) /\ (s * n) * w = to * (t * n)
      /\ to \in Int /\ to # 0 /\ t \in Int /\ t * f \in Int /\ t * n \in Int
    <2>1. s * w = to * t
        BY DEF Positive
    <2>2. (s * f) * w = (w * s) * f /\ (s * n) * w = (w * s) * n
        BY DEF Positive
    <2>3. (to * t) * f = to * (t * f) /\ (to * t) * n = to * (t * n)
        BY DEF Positive
    <2>4. QED
        BY <2>1, <2>2, <2>3 DEF Positive
<1>3. \A k \in Int : Quotient(to * k, to) = k
    BY ONLY <1>2, QuotientExact
<1>4. /\ Quotient(s * w, to) = t /\ Quotient((s * f) * w, to) = t * f
      /\ Quotient((s * n) * w, to) = t * n
    BY ONLY <1>2, <1>3
<1>5. Scale(v, w, to) = [v EXCEPT !.width = to, !.stride = t, !.offset = t * f, !.nelems = t * n]
    BY ONLY <1>1, <1>4 DEF Scale
<1>6. QED
    BY <1>5 DEF Vector

LEMMA MemberOfVector ==
    ASSUME NEW b \in Int, NEW w \in Positive, NEW s \in Positive, NEW n \in Nat, NEW f \in Int,
           NEW m \in Int
    PROVE  MemberOf(Vector(b, w, s, n, f), m) = Vector(b + m, 1, w * s, n, f)
<1> PICK v : v = Vector(b, w, s, n, f)
    OBVIOUS
<1>1. v.width = w
    BY DEF Vector
<1>2. Scale(v, w, 1) = Vector(b, 1, w * s, n, f)
    <2>1. 1 \in Positive /\ w * s \in Positive /\ w * s = 1 * (w * s)
        BY DEF Positive
    <2>2. QED
        BY ONLY <2>1, ScaleOfVector, b \in Int, w \in Positive, s \in Positive, n \in Nat,
                f \in Int, v = Vector(b, w, s, n, f)
<1>3. MemberOf(v, m) = [Vector(b, 1, w * s, n, f) EXCEPT !.base = @ + m]
    BY ONLY <1>1, <1>2 DEF MemberOf
<1>4. QED
    BY <1>3 DEF Vector

LEMMA UnitsOfVector ==
    ASSUME NEW b \in Int, NEW w \in Positive, NEW s \in Positive, NEW n \in Nat, NEW f \in Int,
           NEW i \in Int
    PROVE  UnitsOf(Vector(b, w, s, n, f), i) = Vector(b + (w * s) * (i - f), 1, 1, w, 0)
<1> PICK v : v = Vector(b, w, s, n, f)
    OBVIOUS
<1>1. v.width = w
    BY DEF Vector
<1> PICK u \in Positive : u = w * s
    BY DEF Positive
<1>2. Scale(v, w, 1) = Vector(b, 1, u, n, f)
    <2>1. 1 \in Positive /\ w * s = 1 * u
        BY DEF Positive
    <2>2. QED
        BY ONLY <2>1, ScaleOfVector, b \in Int, w \in Positive, s \in Positive, n \in Nat,
                f \in Int, u \in Positive, v = Vector(b, w, s, n, f)
<1> PICK parts : parts = Vector(b, 1, u, n, f)
    OBVIOUS
<1>3. parts.base = b /\ parts.width = 1 /\ parts.stride = u /\ parts.offset = u * f
    BY DEF Vector
<1>4. UnitsOf(v, i)
        = [[parts EXCEPT !.stride = 1, !.offset = 0, !.nelems = w]
              EXCEPT !.base = (b + 1 * (-(u * f))) + 1 * (i * u)]
    <2>1. Scale(v, v.width, 1) = parts
        BY ONLY <1>1, <1>2, parts = Vector(b, 1, u, n, f)
    <2>2. UnitsOf(v, i)
            = Row([parts EXCEPT !.base = Plus(parts, -parts.offset)], parts.stride,
                  [parts EXCEPT !.stride = 1, !.offset = 0, !.nelems = v.width], i)
        BY ONLY <2>1 DEF UnitsOf
    <2>3. Plus(parts, -parts.offset) = b + 1 * (-(u * f))
        BY ONLY <1>3 DEF Plus
    <2> PICK moved : moved = [parts EXCEPT !.base = b + 1 * (-(u * f))]
        OBVIOUS
    <2>4. moved.base = b + 1 * (-(u * f)) /\ moved.width = 1
        BY DEF Vector
    <2>5. QED
        BY ONLY <1>1, <1>3, <2>2, <2>3, <2>4, moved = [parts EXCEPT !.base = b + 1 * (-(u * f))]
        DEF Row, Plus
<1>5. (b + 1 * (-(u * f))) + 1 * (i * u) = b + u * (i - f)
    BY DEF Positive
<1>6. UnitsOf(v, i) = [base |-> b + u * (i - f), width |-> 1, stride |-> 1, offset |-> 0, nelems |-> w]
    BY <1>4, <1>5 DEF Vector
<1>7. 1 * 0 = 0 /\ 1 * w = w
    BY DEF Positive
<1>8. QED
    BY <1>6, <1>7 DEF Vector

--------------------------------------------------------------------------------
(* A step of VectorViews is a step of VectorMaps.                             *)

\* What the abstract variables are, where view is a vector.
LEMMA MapsOfVector ==
    ASSUME NEW b \in Int, NEW w \in Positive, NEW s \in Positive, NEW n \in Nat, NEW f \in Int,
           view = Vector(b, w, s, n, f)
    PROVE  /\ Places = Line(b, w * s, n)
           /\ Valid = <<Reported(n, f), Reported(n, f) + n>>
           /\ Size(view) = n /\ view.width = w
           /\ Maps!n = n
<1>1. Places = PlacesOf(view)
    BY DEF Places, Valid, PlacesOf
<1>2. Places = Line(b, w * s, n)
    BY <1>1, VectorPlaces
<1>3. Valid = <<Reported(n, f), Reported(n, f) + n>> /\ Size(view) = n
    BY VectorSize DEF Valid
<1>4. view.width = w
    BY DEF Vector
<1>5. Len(Line(b, w * s, n)) = n
    <2>1. w * s \in Int
        BY DEF Positive
    <2>2. QED
        BY <2>1, LineType
<1>6. QED
    BY <1>2, <1>3, <1>4, <1>5 DEF Maps!n

\* A new view is the map that VectorMaps asks for: its elements are S, and its
\* first index g unless it is empty.
LEMMA BecomesMap ==
    ASSUME NEW b \in Int, NEW w \in Positive, NEW s \in Positive, NEW n \in Nat, NEW f \in Int,
           NEW op, Becomes(Vector(b, w, s, n, f), op),
           NEW S, S = Line(b, w * s, n), NEW g, n # 0 => g = f
    PROVE  IInv' /\ Maps!Becomes(g, S, w, op)
<1>1. view' = Vector(b, w, s, n, f) /\ call' = op
    BY DEF Becomes
<1>2. IInv'
    BY <1>1 DEF IInv, IsVector
<1>3. Places' = S
    <2>1. Places' = PlacesOf(view')
        BY DEF Places, Valid, PlacesOf
    <2>2. QED
        BY <1>1, <2>1, VectorPlaces
<1>4. Valid'[1] = Reported(n, f)
    BY <1>1, VectorSize DEF Valid
<1>5. S = <<>> <=> n = 0
    <2>1. w * s \in Int
        BY DEF Positive
    <2>2. Len(S) = n
        BY <2>1, LineType
    <2>3. n = 0 => S = <<>>
        BY EmptyLine
    <2>4. S = <<>> => Len(S) = 0
        OBVIOUS
    <2>5. QED
        BY <2>2, <2>3, <2>4
<1>6. Reported(n, f) = IF S = <<>> THEN 0 ELSE g
    BY <1>5 DEF Reported
<1>7. view'.width = w
    BY <1>1 DEF Vector
<1>8. QED
    BY <1>1, <1>2, <1>3, <1>4, <1>6, <1>7 DEF Maps!Becomes

LEMMA BetweenOfVector ==
    ASSUME NEW b \in Int, NEW w \in Positive, NEW s \in Positive, NEW n \in Nat, NEW f \in Int,
           view = Vector(b, w, s, n, f),
           NEW a \in Int, NEW c \in Int, Valid[1] <= a, a <= c, c <= Valid[2]
    PROVE  \E b2 \in Int :
              /\ SliceOf(view, a, c) = Vector(b2, w, s, c - a, f)
              /\ Maps!Between(a, c) = Line(b2, w * s, c - a)
              /\ c - a \in Nat
<1> PICK u \in Positive : u = w * s
    BY DEF Positive
<1>1. Reported(n, f) <= a /\ c <= Reported(n, f) + n /\ Reported(n, f) \in Int /\ c - a \in Nat
    BY MapsOfVector DEF Reported
<1>2. Maps!Between(a, c) = SubSeq(Line(b, u, n), a - Reported(n, f) + 1, c - Reported(n, f))
    <2>1. Places = Line(b, u, n) /\ Valid[1] = Reported(n, f)
        BY MapsOfVector
    <2>2. QED
        BY ONLY <2>1 DEF Maps!Between
<1>3. Maps!Between(a, c) = Line(b + u * (a - Reported(n, f)), u, c - a)
    <2> PICK i \in Int, j \in Int : i = a - Reported(n, f) + 1 /\ j = c - Reported(n, f)
        BY <1>1
    <2>1. 1 <= i /\ j <= n /\ i <= j + 1 /\ u \in Int
        BY <1>1 DEF Positive
    <2>2. i - 1 = a - Reported(n, f) /\ j + 1 - i = c - a
        BY <1>1
    <2>3. IsPart(i, j, n) /\ u \in Int
        BY <2>1 DEF IsPart
    <2>4. SubSeq(Line(b, u, n), i, j) = Line(Place(b, u, i), u, Span(i, j))
        BY ONLY <2>3, b \in Int, n \in Nat, i \in Int, j \in Int, PartOfLine, SMTT(30)
    <2>5. QED
        BY <1>2, <2>2, <2>4 DEF Place, Span
<1>4. SliceOf(view, a, c) = Vector(b + u * (a - f), w, s, IF n = 0 THEN 0 ELSE c - a, f)
    <2>1. SliceOf(Vector(b, w, s, n, f), a, c)
            = Vector(b + (w * s) * (a - f), w, s, IF n = 0 THEN 0 ELSE c - a, f)
        BY ONLY SliceOfVector, b \in Int, w \in Positive, s \in Positive, n \in Nat, f \in Int, a \in Int, c \in Int
    <2>2. QED
        BY ONLY <2>1, u = w * s, view = Vector(b, w, s, n, f)
<1>5. CASE n = 0
    <2>1. c - a = 0
        BY <1>1, <1>5
    <2>2. b + u * (a - f) \in Int
        BY DEF Positive
    <2>3. QED
        BY <1>1, <1>3, <1>4, <1>5, <2>1, <2>2, EmptyLine
<1>6. CASE n # 0
    <2>1. Reported(n, f) = f
        BY <1>6 DEF Reported
    <2>2. b + u * (a - f) \in Int
        BY DEF Positive
    <2>3. QED
        BY <1>1, <1>3, <1>4, <1>6, <2>1, <2>2
<1>7. QED
    BY <1>5, <1>6

LEMMA EveryOfLine ==
    ASSUME NEW b \in Int, NEW u \in Int, NEW t \in Positive, NEW m \in Nat
    PROVE  Maps!Every(t, Line(b, u, t * m)) = Line(b, u * t, m)
<1>1. t * m \in Nat /\ (t * m) \div t = m
    BY DivExact DEF Positive
<1>2. Len(Line(b, u, t * m)) = t * m
    BY <1>1, LineType
<1>3. ASSUME NEW k \in 1 .. m
      PROVE  Line(b, u, t * m)[t * (k - 1) + 1] = b + (u * t) * (k - 1)
    <2>1. t * (k - 1) + 1 \in 1 .. t * m
        <3>1. t * (k - 1) >= 0
            BY DEF Positive
        <3>2. t * (m - k) >= 0 /\ t * m = t * (m - k) + t * (k - 1) + t
            BY DEF Positive
        <3>3. QED
            BY <3>1, <3>2, <1>1 DEF Positive
    <2>2. u * (t * (k - 1)) = (u * t) * (k - 1)
        BY DEF Positive
    <2>3. QED
        BY <2>1, <2>2 DEF Line, Positive
<1>4. QED
    BY <1>1, <1>2, <1>3 DEF Maps!Every, Line

\* Elements i .. j of a line of n are the m after the first k.
IsRun(b, u, n, i, j, k, m) ==
    /\ b \in Int /\ u \in Int /\ n \in Nat /\ i \in Int /\ j \in Int /\ k \in Nat /\ m \in Nat
    /\ i = k + 1 /\ j = k + m /\ k + m <= n

After(b, u, k) == b + u * k

LEMMA RunOfLine ==
    ASSUME NEW b, NEW u, NEW n, NEW i, NEW j, NEW k, NEW m, IsRun(b, u, n, i, j, k, m)
    PROVE  SubSeq(Line(b, u, n), i, j) = Line(After(b, u, k), u, m)
<1>1. b \in Int /\ u \in Int /\ n \in Nat /\ i \in Int /\ j \in Int
    BY DEF IsRun
<1>2. IsPart(i, j, n)
    BY DEF IsPart, IsRun
<1>3. Place(b, u, i) = After(b, u, k) /\ Span(i, j) = m
    BY DEF Place, Span, After, IsRun
<1>4. SubSeq(Line(b, u, n), i, j) = Line(Place(b, u, i), u, Span(i, j))
    BY <1>1, <1>2, PartOfLine, SMTT(30)
<1>5. QED
    BY ONLY <1>3, <1>4

LEMMA SameImplements == IInv /\ (Same \/ Transformed) => IInv' /\ (Maps!Same \/ Maps!Transformed)
<1> SUFFICES ASSUME IInv, Same \/ Transformed PROVE IInv' /\ (Maps!Same \/ Maps!Transformed)
    OBVIOUS
<1>1. PICK b \in Int, w \in Positive, s \in Positive, n \in Nat, f \in Int :
          view = Vector(b, w, s, n, f)
    BY DEF IInv, IsVector
<1>2. Row(view, 0, view, 1) = view
    <2>1. b + w * 0 = b
        BY <1>1 DEF Positive
    <2>2. QED
        BY <1>1, <2>1 DEF Row, Plus, Vector
<1>3. /\ Places = Line(b, w * s, n) /\ view.width = w /\ Valid[1] = Reported(n, f)
    BY <1>1, MapsOfVector
<1>4. n # 0 => Valid[1] = f
    BY <1>3 DEF Reported
<1>5. ASSUME NEW op, Becomes(view, op) PROVE IInv' /\ Maps!Becomes(Valid[1], Places, view.width, op)
    BY <1>1, <1>3, <1>4, <1>5, BecomesMap
<1>6. CASE Same
    BY <1>2, <1>5, <1>6 DEF Same, Maps!Same
<1>7. CASE Transformed
    BY <1>5, <1>7 DEF Transformed, Maps!Transformed
<1>8. QED
    BY <1>6, <1>7

LEMMA ReindexedImplements ==
    ASSUME IInv, NEW g \in Int, Reindexed(g)
    PROVE  IInv' /\ Maps!Reindexed(g)
<1>1. PICK b \in Int, w \in Positive, s \in Positive, n \in Nat, f \in Int :
          view = Vector(b, w, s, n, f)
    BY DEF IInv, IsVector
<1>2. ReindexedFrom(view, g) = Vector(b, w, s, n, g)
    BY <1>1, ReindexedVector
<1>3. Places = Line(b, w * s, n) /\ view.width = w
    BY <1>1, MapsOfVector
<1>4. Becomes(Vector(b, w, s, n, g), <<"reindexed", g>>)
    BY <1>2 DEF Reindexed
<1>5. IInv' /\ Maps!Becomes(g, Places, w, <<"reindexed", g>>)
    BY <1>1, <1>3, <1>4, BecomesMap
<1>6. QED
    BY <1>3, <1>5 DEF Maps!Reindexed

LEMMA TakedImplements ==
    ASSUME IInv, NEW k \in 0 .. Size(view), Taked(k)
    PROVE  IInv' /\ Maps!Taked(k)
<1>1. PICK b \in Int, w \in Positive, s \in Positive, n \in Nat, f \in Int :
          view = Vector(b, w, s, n, f)
    BY DEF IInv, IsVector
<1>2. /\ Places = Line(b, w * s, n) /\ view.width = w /\ Valid[1] = Reported(n, f)
      /\ Size(view) = n
    BY <1>1, MapsOfVector
<1>3. n \in Nat /\ k \in Nat /\ k <= n /\ w * s \in Int
    BY <1>1, <1>2 DEF Positive
<1>4. TakeFront(view, k) = Vector(b, w, s, k, f)
    BY <1>1, <1>3, TakeFrontOfVector
<1>5. SubSeq(Places, 1, k) = Line(b, w * s, k)
    <2> PICK u \in Int, i \in Int : u = w * s /\ i = 1
        BY <1>3
    <2> PICK z \in Nat : z = 0
        OBVIOUS
    <2>1. IsRun(b, u, n, i, k, z, k)
        BY <1>3 DEF IsRun
    <2>2. SubSeq(Line(b, u, n), i, k) = Line(After(b, u, z), u, k)
        BY ONLY <2>1, RunOfLine, SMTT(30)
    <2>3. After(b, u, z) = b
        BY <1>1 DEF After
    <2>4. QED
        BY ONLY <1>2, <2>2, <2>3, u = w * s, i = 1
<1>6. k # 0 => Valid[1] = f
    BY <1>2, <1>3 DEF Reported
<1>7. Becomes(Vector(b, w, s, k, f), <<"taked", k>>)
    BY <1>4 DEF Taked
<1>8. IInv' /\ Maps!Becomes(Valid[1], SubSeq(Places, 1, k), w, <<"taked", k>>)
    BY <1>1, <1>3, <1>5, <1>6, <1>7, BecomesMap
<1>9. QED
    BY <1>2, <1>8 DEF Maps!Taked

\* dropped(k), and the rest that tiled leaves.
LEMMA DropImplements ==
    ASSUME IInv, NEW k \in Nat, k <= Size(view), view.offset = 0, NEW op,
           Becomes(DropFront(view, k), op)
    PROVE  IInv' /\ Maps!Becomes(Valid[1], SubSeq(Places, k + 1, Maps!n), view.width, op)
<1>1. PICK b \in Int, w \in Positive, s \in Positive, n \in Nat, f \in Int :
          view = Vector(b, w, s, n, f)
    BY DEF IInv, IsVector
<1>2. /\ Places = Line(b, w * s, n) /\ view.width = w /\ Valid[1] = Reported(n, f)
      /\ Size(view) = n /\ Maps!n = n
    BY <1>1, MapsOfVector
<1>3. n \in Nat /\ k \in Nat /\ k <= n /\ w * s \in Int /\ n - k \in Nat
    BY <1>1, <1>2 DEF Positive
<1>4. f = 0
    <2>1. s * f = 0
        BY <1>1 DEF Vector
    <2>2. QED
        BY <1>1, <2>1 DEF Positive
<1>5. DropFront(view, k) = Vector(b + (w * s) * k, w, s, n - k, f)
    <2>1. DropFront(view, k) = Vector(b + (w * s) * (k - f), w, s, n - k, f)
        BY <1>1, DropFrontOfVector
    <2>2. k - f = k
        BY <1>3, <1>4
    <2>3. QED
        BY ONLY <2>1, <2>2
<1>6. SubSeq(Places, k + 1, n) = Line(b + (w * s) * k, w * s, n - k)
    <2> PICK u \in Int, i \in Int, m \in Nat : u = w * s /\ i = k + 1 /\ m = n - k
        BY <1>3
    <2>1. IsRun(b, u, n, i, n, k, m)
        BY <1>3 DEF IsRun
    <2>2. SubSeq(Line(b, u, n), i, n) = Line(After(b, u, k), u, m)
        BY ONLY <2>1, RunOfLine, SMTT(30)
    <2>3. QED
        BY ONLY <1>2, <2>2, u = w * s, i = k + 1, m = n - k DEF After
<1>7. Valid[1] = f
    BY <1>2, <1>4 DEF Reported
<1>8. b + (w * s) * k \in Int
    BY <1>1, <1>3
<1>9. Becomes(Vector(b + (w * s) * k, w, s, n - k, f), op)
    BY <1>5
<1>10. IInv' /\ Maps!Becomes(Valid[1], SubSeq(Places, k + 1, n), w, op)
    BY <1>1, <1>3, <1>6, <1>7, <1>8, <1>9, BecomesMap
<1>11. QED
    BY <1>2, <1>10

LEMMA SlicedImplements ==
    ASSUME IInv, NEW a \in Valid[1] .. Valid[2], NEW c \in Valid[1] .. Valid[2], a <= c
    PROVE  /\ Sliced(a, c) => IInv' /\ Maps!Sliced(a, c)
           /\ Blocked(a, c) => IInv' /\ Maps!Blocked(a, c)
<1>1. PICK b \in Int, w \in Positive, s \in Positive, n \in Nat, f \in Int :
          view = Vector(b, w, s, n, f)
    BY DEF IInv, IsVector
<1>2. /\ view.width = w /\ Valid[1] = Reported(n, f) /\ Valid[2] = Valid[1] + n /\ Valid[1] \in Int
    BY <1>1, MapsOfVector DEF Reported
<1>3. a \in Int /\ c \in Int /\ Valid[1] <= a /\ c <= Valid[2] /\ n \in Nat
    BY <1>1, <1>2
<1>4. PICK b2 \in Int :
        /\ SliceOf(view, a, c) = Vector(b2, w, s, c - a, f)
        /\ Maps!Between(a, c) = Line(b2, w * s, c - a)
        /\ c - a \in Nat
    BY <1>1, <1>3, BetweenOfVector
<1>5. c - a # 0 => Valid[1] = f
    BY <1>2, <1>3 DEF Reported
<1>6. ASSUME Sliced(a, c) PROVE IInv' /\ Maps!Sliced(a, c)
    <2>1. Becomes(Vector(b2, w, s, c - a, f), <<"sliced", a, c>>)
        BY <1>4, <1>6 DEF Sliced
    <2>2. IInv' /\ Maps!Becomes(Valid[1], Maps!Between(a, c), w, <<"sliced", a, c>>)
        BY <1>1, <1>4, <1>5, <2>1, BecomesMap
    <2>3. QED
        BY <1>2, <2>2 DEF Maps!Sliced
<1>7. ASSUME Blocked(a, c) PROVE IInv' /\ Maps!Blocked(a, c)
    <2>1. ReindexedFrom(SliceOf(view, a, c), a) = Vector(b2, w, s, c - a, a)
        BY <1>1, <1>3, <1>4, ReindexedVector
    <2>2. Becomes(Vector(b2, w, s, c - a, a), <<"blocked", a, c>>)
        BY <1>7, <2>1 DEF Blocked
    <2>3. IInv' /\ Maps!Becomes(a, Maps!Between(a, c), w, <<"blocked", a, c>>)
        BY <1>1, <1>3, <1>4, <2>2, BecomesMap
    <2>4. QED
        BY <1>2, <2>3 DEF Maps!Blocked
<1>8. QED
    BY <1>6, <1>7

\* A strided view, of the view or of a slice of it: every t-th element, and a
\* first index divided by t.
LEMMA EveryImplements ==
    ASSUME NEW b \in Int, NEW w \in Positive, NEW s \in Positive, NEW n \in Nat, NEW f \in Int,
           NEW t \in Positive, NEW g \in Int, n # 0 => g = f,
           Divides(Vector(b, w, s, n, f), t), NEW op, Becomes(StrideBy(Vector(b, w, s, n, f), t), op)
    PROVE  IInv' /\ Maps!Becomes(g \div t, Maps!Every(t, Line(b, w * s, n)), w, op)
<1> PICK u \in Int : u = w * s
    BY DEF Positive
<1>1. PICK m \in Nat, h \in Int :
        n = t * m /\ f = t * h /\ StrideBy(Vector(b, w, s, n, f), t) = Vector(b, w, s * t, m, h)
    BY StrideOfVector
<1> PICK s2 \in Positive : s2 = s * t
    BY DEF Positive
<1>2. Becomes(Vector(b, w, s2, m, h), op)
    BY <1>1
<1>3. Maps!Every(t, Line(b, u, n)) = Line(b, w * s2, m)
    <2>1. Maps!Every(t, Line(b, u, t * m)) = Line(b, u * t, m)
        BY ONLY EveryOfLine, b \in Int, u \in Int, t \in Positive, m \in Nat
    <2>2. u * t = w * s2
        BY DEF Positive
    <2>3. QED
        BY ONLY <1>1, <2>1, <2>2
<1>4. m # 0 => g \div t = h
    <2> SUFFICES ASSUME m # 0 PROVE g \div t = h
        OBVIOUS
    <2>1. n # 0
        BY <1>1 DEF Positive
    <2>2. g = t * h /\ t > 0 /\ t \in Int
        BY <1>1, <2>1 DEF Positive
    <2>3. QED
        BY ONLY <2>2, h \in Int, DivOfMultiple
<1> PICK G, S : G = g \div t /\ S = Maps!Every(t, Line(b, u, n))
    OBVIOUS
<1>5. IInv' /\ Maps!Becomes(G, S, w, op)
    BY <1>2, <1>3, <1>4, BecomesMap
<1>6. QED
    BY ONLY <1>5, G = g \div t, S = Maps!Every(t, Line(b, u, n)), u = w * s

LEMMA StridedImplements ==
    ASSUME IInv, NEW t \in Positive, Strided(t)
    PROVE  IInv' /\ Maps!Strided(t)
<1>1. PICK b \in Int, w \in Positive, s \in Positive, n \in Nat, f \in Int :
          view = Vector(b, w, s, n, f)
    BY DEF IInv, IsVector
<1>2. Places = Line(b, w * s, n) /\ view.width = w /\ Valid[1] = Reported(n, f)
    BY <1>1, MapsOfVector
<1>3. Valid[1] \in Int /\ (n # 0 => Valid[1] = f)
    BY <1>2 DEF Reported
<1> PICK g \in Int : g = Valid[1]
    BY <1>3
<1>4. /\ Divides(Vector(b, w, s, n, f), t)
      /\ Becomes(StrideBy(Vector(b, w, s, n, f), t), <<"strided", t>>)
    BY <1>1 DEF Strided
<1>5. IInv' /\ Maps!Becomes(g \div t, Maps!Every(t, Line(b, w * s, n)), w, <<"strided", t>>)
    BY ONLY <1>3, <1>4, g = Valid[1], g \in Int, b \in Int, w \in Positive, s \in Positive, n \in Nat,
            f \in Int, t \in Positive, EveryImplements
<1>6. QED
    BY ONLY <1>2, <1>5, g = Valid[1] DEF Maps!Strided

LEMMA SlicedByImplements ==
    ASSUME IInv, NEW a \in Valid[1] .. Valid[2], NEW c \in Valid[1] .. Valid[2], a <= c,
           NEW t \in Positive, SlicedBy(a, c, t)
    PROVE  IInv' /\ Maps!SlicedBy(a, c, t)
<1>1. PICK b \in Int, w \in Positive, s \in Positive, n \in Nat, f \in Int :
          view = Vector(b, w, s, n, f)
    BY DEF IInv, IsVector
<1>2. /\ view.width = w /\ Valid[1] = Reported(n, f) /\ Valid[2] = Valid[1] + n /\ Valid[1] \in Int
    BY <1>1, MapsOfVector DEF Reported
<1>3. a \in Int /\ c \in Int /\ Valid[1] <= a /\ c <= Valid[2]
    BY <1>1, <1>2
<1>4. PICK b2 \in Int :
        /\ SliceOf(view, a, c) = Vector(b2, w, s, c - a, f)
        /\ Maps!Between(a, c) = Line(b2, w * s, c - a)
        /\ c - a \in Nat
    BY <1>1, <1>3, BetweenOfVector
<1> PICK g \in Int, m \in Nat : g = Valid[1] /\ m = c - a
    BY <1>2, <1>4
<1>5. m # 0 => g = f
    BY <1>2, <1>3 DEF Reported
<1>6. /\ Divides(Vector(b2, w, s, m, f), t)
      /\ Becomes(StrideBy(Vector(b2, w, s, m, f), t), <<"sliced", a, c, t>>)
    BY <1>4 DEF SlicedBy
<1>7. IInv' /\ Maps!Becomes(g \div t, Maps!Every(t, Line(b2, w * s, m)), w, <<"sliced", a, c, t>>)
    BY ONLY <1>5, <1>6, g \in Int, m \in Nat, b2 \in Int, w \in Positive, s \in Positive,
            f \in Int, t \in Positive, EveryImplements
<1>8. QED
    BY ONLY <1>2, <1>4, <1>7, g = Valid[1], m = c - a DEF Maps!SlicedBy

LEMMA IntersectedImplements ==
    ASSUME IInv, NEW a \in Int, NEW c \in Int, Intersected(a, c)
    PROVE  IInv' /\ Maps!Intersected(a, c)
<1>1. PICK b \in Int, w \in Positive, s \in Positive, n \in Nat, f \in Int :
          view = Vector(b, w, s, n, f)
    BY DEF IInv, IsVector
<1>2. /\ view.width = w /\ Valid = <<Reported(n, f), Reported(n, f) + n>> /\ Maps!n = n
      /\ Reported(n, f) \in Int
    BY <1>1, MapsOfVector DEF Reported
<1> PICK F \in Int : F = Reported(n, f)
    BY <1>2
<1> PICK last \in Int : last = Smaller(F + n, c)
    BY DEF Smaller
<1> PICK start \in Int : start = Smaller(Larger(F, a), last)
    BY DEF Smaller, Larger
<1>3. Becomes(SliceOf(view, start, last), <<"intersected", a, c>>)
    <2>1. Intersection(Extension(view), Upto(From(a, All), c)) = <<start, last>>
        BY <1>2 DEF Valid, Intersection, Upto, From, All
    <2>2. QED
        BY <2>1 DEF Intersected
<1> PICK S : S = Maps!Common(a, c)
    OBVIOUS
<1>4. S = start .. last - 1 /\ start <= last
    <2>1. S = {i \in F .. F + n - 1 : a <= i /\ i < c}
        BY <1>2 DEF Maps!Common
    <2>2. QED
        BY <2>1 DEF Smaller, Larger
<1> PICK op : op = <<"intersected", a, c>>
    OBVIOUS
<1>5. CASE S = {}
    <2>1. last - start = 0
        <3>1. start \notin S
            BY <1>5
        <3>2. QED
            BY ONLY <1>4, <3>1, start \in Int, last \in Int
    <2> PICK b2 \in Int : b2 = b + (w * s) * (start - f)
        BY DEF Positive
    <2>2. SliceOf(Vector(b, w, s, n, f), start, last)
            = Vector(b2, w, s, IF n = 0 THEN 0 ELSE last - start, f)
        BY ONLY SliceOfVector, b \in Int, w \in Positive, s \in Positive, n \in Nat, f \in Int,
                start \in Int, last \in Int, b2 = b + (w * s) * (start - f)
    <2>3. Becomes(Vector(b2, w, s, 0, f), op)
        BY <1>1, <1>3, <2>1, <2>2
    <2>4. <<>> = Line(b2, w * s, 0)
        BY EmptyLine
    <2>5. IInv' /\ Maps!Becomes(F, <<>>, w, op)
        BY ONLY <2>3, <2>4, 0 \in Nat, b2 \in Int, w \in Positive, s \in Positive, f \in Int, BecomesMap
    <2>6. QED
        BY <1>2, <1>5, <2>5 DEF Maps!Intersected
<1>6. CASE S # {}
    <2>1. start <= last - 1 /\ F <= start /\ last <= F + n /\ n # 0
        <3>1. start <= last - 1
            <4>1. PICK i : i \in S
                BY <1>6
            <4>2. QED
                BY ONLY <1>4, <4>1, start \in Int, last \in Int
        <3>2. QED
            BY <3>1 DEF Smaller, Larger
    <2>2. Maps!Smallest(S) = start
        <3>1. start \in S /\ \A j \in S : start <= j
            BY ONLY <1>4, <2>1, start \in Int, last \in Int
        <3>2. \A i \in S : (\A j \in S : i <= j) => i = start
            BY ONLY <1>4, <3>1, start \in Int, last \in Int
        <3>3. QED
            BY <3>1, <3>2 DEF Maps!Smallest
    <2>3. Maps!Largest(S) = last - 1
        <3>1. last - 1 \in S /\ \A j \in S : j <= last - 1
            BY ONLY <1>4, <2>1, start \in Int, last \in Int
        <3>2. \A i \in S : (\A j \in S : j <= i) => i = last - 1
            BY ONLY <1>4, <3>1, start \in Int, last \in Int
        <3>3. QED
            BY <3>1, <3>2 DEF Maps!Largest
    <2>4. Maps!Largest(S) + 1 = last
        BY <2>3
    <2>5. PICK b2 \in Int :
            /\ SliceOf(view, start, last) = Vector(b2, w, s, last - start, f)
            /\ Maps!Between(start, last) = Line(b2, w * s, last - start)
            /\ last - start \in Nat
        <3>1. Valid[1] <= start /\ start <= last /\ last <= Valid[2]
            BY <1>2, <1>4, <2>1
        <3>2. QED
            BY ONLY <1>1, <3>1, b \in Int, w \in Positive, s \in Positive, n \in Nat, f \in Int,
                    start \in Int, last \in Int, BetweenOfVector
    <2> PICK m \in Nat : m = last - start
        BY <2>5
    <2> PICK P : P = Maps!Between(start, last)
        OBVIOUS
    <2>6. Becomes(Vector(b2, w, s, m, f), op) /\ P = Line(b2, w * s, m)
        BY <1>3, <2>5
    <2>7. F = f
        BY <2>1 DEF Reported
    <2>8. IInv' /\ Maps!Becomes(F, P, w, op)
        BY ONLY <2>6, <2>7, m \in Nat, b2 \in Int, w \in Positive, s \in Positive, f \in Int, BecomesMap
    <2>9. QED
        BY <1>2, <1>6, <2>2, <2>4, <2>8 DEF Maps!Intersected
<1>7. QED
    BY <1>5, <1>6

\* n elements are q groups of c elements, and r elements left.
AreGroups(n, c, q, r) ==
    /\ Quotient(n, c) = q /\ n \div c = q /\ Remainder(n, c) = r /\ n % c = r
    /\ n = q * c + r /\ r < c

LEMMA Groups ==
    ASSUME NEW n \in Nat, NEW c \in Positive
    PROVE  \E q \in Nat, r \in Nat : AreGroups(n, c, q, r)
<1>1. c \in Nat \ {0}
    BY DEF Positive
<1>2. Quotient(n, c) = n \div c /\ Remainder(n, c) = n % c
    BY <1>1, QuotientOfNat
<1>3. PICK q \in Nat, r \in Nat : q = n \div c /\ r = n % c /\ n = q * c + r /\ r < c
    BY <1>1
<1>4. QED
    BY <1>2, <1>3 DEF AreGroups

\* Places i .. j are part k, from zero, of p parts of c elements, the first of a view of n.
IsPiece(n, p, c, k, i, j) ==
    /\ n \in Nat /\ p \in Positive /\ c \in Nat /\ k \in Nat /\ i \in Int /\ j \in Int
    /\ p * c <= n /\ k < p /\ i = k * c + 1 /\ j = (k + 1) * c

LEMMA PieceImplements ==
    ASSUME NEW b \in Int, NEW w \in Positive, NEW s \in Positive, NEW f \in Int, NEW n, NEW p, NEW c,
           NEW k, NEW i, NEW j, IsPiece(n, p, c, k, i, j), view = Vector(b, w, s, n, f),
           NEW op, Becomes(PartOf(Vector(b, w, s, p * c, f), p, k), op)
    PROVE  IInv' /\ Maps!Becomes(Valid[1], SubSeq(Places, i, j), w, op)
<1>1. /\ n \in Nat /\ p \in Positive /\ c \in Nat /\ k \in Nat /\ k \in Int /\ i \in Int /\ j \in Int
      /\ p * c <= n /\ k < p /\ i = k * c + 1 /\ j = (k + 1) * c
    BY DEF IsPiece
<1> PICK u \in Int, d \in Nat : u = w * s /\ d = k * c
    BY <1>1 DEF Positive
<1>2. PartOf(Vector(b, w, s, p * c, f), p, k) = Vector(b + (w * s) * (k * c), w, s, c, f)
    BY ONLY PartOfVector, <1>1, b \in Int, w \in Positive, s \in Positive, f \in Int
<1> PICK b2 \in Int : b2 = b + (w * s) * (k * c)
    BY <1>1 DEF Positive
<1>3. Places = Line(b, u, n) /\ (c # 0 => Valid[1] = f)
    <2>1. Places = Line(b, w * s, n) /\ Valid[1] = Reported(n, f)
        BY ONLY <1>1, b \in Int, w \in Positive, s \in Positive, f \in Int, view = Vector(b, w, s, n, f),
                MapsOfVector
    <2>2. c # 0 => n # 0
        BY <1>1 DEF Positive
    <2>3. QED
        BY ONLY <2>1, <2>2, u = w * s DEF Reported
<1>4. SubSeq(Places, i, j) = Line(b2, u, c)
    <2>1. IsRun(b, u, n, i, j, d, c)
        <3>1. (k + 1) * c <= p * c /\ (k + 1) * c = k * c + c
            BY <1>1 DEF Positive
        <3>2. j = d + c /\ i = d + 1
            BY ONLY <1>1, <3>1, d = k * c
        <3>3. d + c <= n
            BY ONLY <1>1, <3>1, d = k * c DEF Positive
        <3>4. QED
            BY ONLY <1>1, <3>2, <3>3, b \in Int, u \in Int, d \in Nat DEF IsRun
    <2>2. SubSeq(Line(b, u, n), i, j) = Line(After(b, u, d), u, c)
        BY ONLY <2>1, RunOfLine
    <2>3. After(b, u, d) = b2
        BY DEF After
    <2>4. QED
        BY ONLY <1>3, <2>2, <2>3
<1>5. Becomes(Vector(b2, w, s, c, f), op)
    BY <1>2
<1> PICK g, P : g = Valid[1] /\ P = SubSeq(Places, i, j)
    OBVIOUS
<1>6. P = Line(b2, w * s, c) /\ (c # 0 => g = f)
    BY <1>3, <1>4
<1>7. IInv' /\ Maps!Becomes(g, P, w, op)
    BY ONLY <1>1, <1>5, <1>6, b2 \in Int, w \in Positive, s \in Positive, f \in Int, BecomesMap
<1>8. QED
    BY ONLY <1>7, g = Valid[1], P = SubSeq(Places, i, j)

LEMMA PartImplements ==
    ASSUME IInv, NEW p \in 1 .. Size(view), NEW k \in 0 .. Size(view) - 1, Part(p, k)
    PROVE  IInv' /\ Maps!Part(p, k)
<1>1. PICK b \in Int, w \in Positive, s \in Positive, n \in Nat, f \in Int :
          view = Vector(b, w, s, n, f)
    BY DEF IInv, IsVector
<1>2. view.width = w /\ Size(view) = n /\ Maps!n = n
    BY <1>1, MapsOfVector
<1>3. p \in Positive /\ k \in Nat /\ k < p
    BY <1>2 DEF Part, Positive
<1>4. PICK q \in Nat : n = p * q /\ n \div p = q /\ n % p = 0
    <2>1. Remainder(n, p) = 0
        BY <1>2 DEF Part
    <2>2. PICK q \in Nat, r \in Nat : AreGroups(n, p, q, r)
        BY <1>3, Groups
    <2>3. n % p = 0 /\ n \div p = q /\ n = q * p + 0
        BY <2>1, <2>2 DEF AreGroups
    <2>4. n = p * q
        BY <1>3, <2>3 DEF Positive
    <2>5. QED
        BY <2>3, <2>4
<1> PICK i \in Int, j \in Int : i = k * q + 1 /\ j = (k + 1) * q
    BY <1>3
<1>5. IsPiece(n, p, q, k, i, j)
    BY <1>3, <1>4 DEF IsPiece
<1>6. Becomes(PartOf(Vector(b, w, s, p * q, f), p, k), <<"part", p, k>>)
    BY <1>1, <1>4 DEF Part
<1>7. IInv' /\ Maps!Becomes(Valid[1], SubSeq(Places, i, j), w, <<"part", p, k>>)
    BY ONLY <1>1, <1>5, <1>6, PieceImplements
<1>8. QED
    BY <1>2, <1>3, <1>4, <1>7 DEF Maps!Part

\* Chunks and tiles are parts: as many as there are whole groups of c elements.
LEMMA GroupImplements ==
    ASSUME NEW b \in Int, NEW w \in Positive, NEW s \in Positive, NEW n \in Nat, NEW f \in Int,
           view = Vector(b, w, s, n, f), NEW c \in Positive, NEW q \in Nat, q * c <= n,
           NEW k \in 0 .. q - 1, NEW op, Becomes(ChunkOf(Vector(b, w, s, q * c, f), c, k), op)
    PROVE  /\ (k + 1) * c <= n
           /\ IInv' /\ Maps!Becomes(Valid[1], SubSeq(Places, k * c + 1, (k + 1) * c), w, op)
<1>1. k \in Nat /\ k < q /\ q \in Positive /\ c \in Nat
    BY DEF Positive
<1> PICK i \in Int, j \in Int : i = k * c + 1 /\ j = (k + 1) * c
    BY <1>1
<1>2. IsPiece(n, q, c, k, i, j)
    BY <1>1 DEF IsPiece
<1> PICK m \in Nat : m = q * c
    BY <1>1
<1>3. Quotient(m, c) = q
    <2>1. c \in Int /\ c # 0 /\ m = c * q
        BY DEF Positive
    <2>2. Quotient(c * q, c) = q
        BY ONLY <2>1, q \in Nat, QuotientExact
    <2>3. QED
        BY ONLY <2>1, <2>2
<1>4. Size(Vector(b, w, s, m, f)) = m
    BY ONLY VectorSize, b \in Int, w \in Positive, s \in Positive, f \in Int, m \in Nat
<1>5. Becomes(PartOf(Vector(b, w, s, q * c, f), q, k), op)
    BY ONLY <1>3, <1>4, m = q * c, Becomes(ChunkOf(Vector(b, w, s, q * c, f), c, k), op) DEF ChunkOf
<1>6. IInv' /\ Maps!Becomes(Valid[1], SubSeq(Places, i, j), w, op)
    BY ONLY <1>2, <1>5, view = Vector(b, w, s, n, f), b \in Int, w \in Positive, s \in Positive, f \in Int,
            PieceImplements
<1>7. (k + 1) * c <= q * c
    BY <1>1 DEF Positive
<1>8. QED
    BY <1>1, <1>6, <1>7

LEMMA ChunkImplements ==
    ASSUME IInv, NEW c \in 1 .. Size(view), NEW k \in 0 .. Size(view) - 1
    PROVE  /\ Chunk(c, k) => IInv' /\ Maps!Chunk(c, k)
           /\ Tile(c, k) => IInv' /\ Maps!Tile(c, k)
<1>1. PICK b \in Int, w \in Positive, s \in Positive, n \in Nat, f \in Int :
          view = Vector(b, w, s, n, f)
    BY DEF IInv, IsVector
<1>2. view.width = w /\ Size(view) = n /\ Maps!n = n
    BY <1>1, MapsOfVector
<1>3. c \in Positive
    BY <1>2 DEF Positive
<1>4. PICK q \in Nat, r \in Nat :
          /\ Quotient(n, c) = q /\ Remainder(n, c) = r /\ n % c = r
          /\ n = q * c + r
    <2>1. PICK q \in Nat, r \in Nat : AreGroups(n, c, q, r)
        BY <1>3, Groups
    <2>2. QED
        BY <2>1 DEF AreGroups
<1>5. q * c <= n /\ q * c \in Nat /\ n - r = q * c
    BY <1>3, <1>4 DEF Positive
<1>6. ASSUME NEW op, k \in 0 .. q - 1, Becomes(ChunkOf(Vector(b, w, s, q * c, f), c, k), op)
      PROVE  /\ (k + 1) * c <= n
             /\ IInv' /\ Maps!Becomes(Valid[1], SubSeq(Places, k * c + 1, (k + 1) * c), w, op)
    BY ONLY <1>1, <1>3, <1>5, <1>6, q \in Nat, GroupImplements
<1>7. ASSUME Chunk(c, k) PROVE IInv' /\ Maps!Chunk(c, k)
    <2>1. r = 0 /\ k \in 0 .. q - 1
        BY <1>2, <1>4, <1>7 DEF Chunk
    <2>2. n = q * c
        BY <1>4, <1>5, <2>1
    <2>3. Becomes(ChunkOf(Vector(b, w, s, q * c, f), c, k), <<"chunk", c, k>>)
        BY <1>1, <1>7, <2>2 DEF Chunk
    <2>4. QED
        BY <1>2, <1>4, <1>6, <2>1, <2>3 DEF Maps!Chunk
<1>8. ASSUME Tile(c, k) PROVE IInv' /\ Maps!Tile(c, k)
    <2> PICK m \in Nat : m = q * c
        BY <1>5
    <2>1. Tiled(view, c) = m
        BY <1>2, <1>4, <1>5 DEF Tiled
    <2>2. Quotient(m, c) = q
        <3>1. c \in Int /\ c # 0 /\ m = c * q
            BY <1>3 DEF Positive
        <3>2. Quotient(c * q, c) = q
            BY ONLY <3>1, q \in Nat, QuotientExact
        <3>3. QED
            BY ONLY <3>1, <3>2
    <2>3. k \in 0 .. q - 1
        BY <1>8, <2>1, <2>2 DEF Tile
    <2>4. TakeFront(view, m) = Vector(b, w, s, m, f)
        BY ONLY <1>1, m \in Nat, TakeFrontOfVector
    <2>5. Becomes(ChunkOf(Vector(b, w, s, q * c, f), c, k), <<"tile", c, k>>)
        BY <1>8, <2>1, <2>4 DEF Tile
    <2>6. QED
        BY <1>2, <1>6, <2>3, <2>5 DEF Maps!Tile
<1>9. QED
    BY <1>7, <1>8

LEMMA DroppedImplements ==
    ASSUME IInv
    PROVE  /\ \A k \in 0 .. Size(view) : Dropped(k) => IInv' /\ Maps!Dropped(k)
           /\ \A c \in 1 .. Size(view) : TileRemainder(c) => IInv' /\ Maps!Remainder(c)
<1>1. PICK b \in Int, w \in Positive, s \in Positive, n \in Nat, f \in Int :
          view = Vector(b, w, s, n, f)
    BY DEF IInv, IsVector
<1>2. Size(view) = n /\ Maps!n = n
    BY <1>1, MapsOfVector
<1>3. ASSUME NEW k \in 0 .. Size(view), Dropped(k)
      PROVE  IInv' /\ Maps!Dropped(k)
    <2>1. k \in Nat /\ k <= Size(view) /\ view.offset = 0 /\ Becomes(DropFront(view, k), <<"dropped", k>>)
        BY <1>2, <1>3 DEF Dropped
    <2>2. IInv' /\ Maps!Becomes(Valid[1], SubSeq(Places, k + 1, Maps!n), view.width, <<"dropped", k>>)
        BY ONLY IInv, <2>1, DropImplements
    <2>3. QED
        BY <2>2 DEF Maps!Dropped
<1>4. ASSUME NEW c \in 1 .. Size(view), TileRemainder(c)
      PROVE  IInv' /\ Maps!Remainder(c)
    <2>1. c \in Positive
        BY <1>2 DEF Positive
    <2>2. PICK r \in Nat : Remainder(n, c) = r /\ n % c = r /\ r <= n
        <3>1. PICK q \in Nat, r \in Nat : AreGroups(n, c, q, r)
            BY <2>1, Groups
        <3>2. n = q * c + r /\ q * c >= 0
            BY <2>1, <3>1 DEF AreGroups, Positive
        <3>3. QED
            BY <3>1, <3>2 DEF AreGroups
    <2> PICK k \in Nat : k = n - r
        BY <2>2
    <2>3. Tiled(view, c) = k /\ k <= Size(view)
        BY <1>2, <2>2 DEF Tiled
    <2>4. view.offset = 0 /\ Becomes(DropFront(view, k), <<"remainder", c>>)
        BY <1>4, <2>3 DEF TileRemainder
    <2>5. IInv' /\ Maps!Becomes(Valid[1], SubSeq(Places, k + 1, Maps!n), view.width, <<"remainder", c>>)
        BY ONLY IInv, <2>3, <2>4, k \in Nat, DropImplements
    <2>6. QED
        BY <1>2, <2>2, <2>5 DEF Maps!Remainder
<1>5. QED
    BY <1>3, <1>4

LEMMA MemberImplements ==
    ASSUME IInv, NEW m \in Nat, Member(m)
    PROVE  IInv' /\ Maps!Member(m)
<1>1. PICK b \in Int, w \in Positive, s \in Positive, n \in Nat, f \in Int :
          view = Vector(b, w, s, n, f)
    BY DEF IInv, IsVector
<1>2. Places = Line(b, w * s, n) /\ Valid[1] = Reported(n, f) /\ Maps!n = n
    BY <1>1, MapsOfVector
<1> PICK s2 \in Positive, b2 \in Int, one \in Positive : s2 = w * s /\ b2 = b + m /\ one = 1
    BY DEF Positive
<1>3. MemberOf(Vector(b, w, s, n, f), m) = Vector(b2, one, s2, n, f)
    <2>1. m \in Int
        OBVIOUS
    <2>2. MemberOf(Vector(b, w, s, n, f), m) = Vector(b + m, 1, w * s, n, f)
        BY ONLY <2>1, b \in Int, w \in Positive, s \in Positive, n \in Nat, f \in Int, MemberOfVector
    <2>3. QED
        BY ONLY <2>2, s2 = w * s, b2 = b + m, one = 1
<1> PICK S : S = [k \in 1 .. n |-> Places[k] + m]
    OBVIOUS
<1>4. S = Line(b2, one * s2, n)
    <2>1. \A k \in 1 .. n : Line(b, w * s, n)[k] + m = b2 + (one * s2) * (k - 1)
        <3>1. \A k \in 1 .. n : Line(b, s2, n)[k] = b + s2 * (k - 1)
            BY DEF Line
        <3>2. one * s2 = s2
            BY DEF Positive
        <3>3. \A k \in 1 .. n : b + s2 * (k - 1) + m = b2 + s2 * (k - 1)
            BY DEF Positive
        <3>4. QED
            BY <3>1, <3>2, <3>3
    <2>2. \A k \in 1 .. n : Places[k] + m = b2 + (one * s2) * (k - 1)
        BY ONLY <1>2, <2>1
    <2>3. QED
        BY ONLY <2>2, S = [k \in 1 .. n |-> Places[k] + m] DEF Line
<1>5. Becomes(Vector(b2, one, s2, n, f), <<"member", m>>)
    BY <1>1, <1>3 DEF Member
<1> PICK g : g = Valid[1]
    OBVIOUS
<1>6. n # 0 => g = f
    BY <1>2 DEF Reported
<1>7. IInv' /\ Maps!Becomes(g, S, one, <<"member", m>>)
    BY ONLY <1>4, <1>5, <1>6, b2 \in Int, one \in Positive, s2 \in Positive, n \in Nat, f \in Int, BecomesMap
<1>8. QED
    BY <1>2, <1>7 DEF Maps!Member

LEMMA UnitsImplements ==
    ASSUME IInv, NEW i \in Valid[1] .. Valid[2] - 1, Units(i)
    PROVE  IInv' /\ Maps!Units(i)
<1>1. PICK b \in Int, w \in Positive, s \in Positive, n \in Nat, f \in Int :
          view = Vector(b, w, s, n, f)
    BY DEF IInv, IsVector
<1>2. /\ Places = Line(b, w * s, n) /\ view.width = w
      /\ Valid = <<Reported(n, f), Reported(n, f) + n>>
    BY <1>1, MapsOfVector
<1>3. i \in Int /\ f <= i /\ i < f + n /\ Valid[1] = f
    <2>1. n # 0
        BY <1>2 DEF Reported
    <2>2. QED
        BY <1>2, <2>1 DEF Reported
<1> PICK b2 \in Int, one \in Positive, zero \in Int, m \in Nat :
        b2 = b + (w * s) * (i - f) /\ one = 1 /\ zero = 0 /\ m = w
    BY <1>3 DEF Positive
<1>4. UnitsOf(Vector(b, w, s, n, f), i) = Vector(b2, one, one, m, zero)
    <2>1. UnitsOf(Vector(b, w, s, n, f), i) = Vector(b + (w * s) * (i - f), 1, 1, w, 0)
        BY ONLY <1>3, b \in Int, w \in Positive, s \in Positive, n \in Nat, f \in Int, UnitsOfVector
    <2>2. QED
        BY ONLY <2>1, b2 = b + (w * s) * (i - f), one = 1, zero = 0, m = w
<1> PICK S : S = [k \in 1 .. w |-> Places[i - f + 1] + k - 1]
    OBVIOUS
<1>5. S = Line(b2, one * one, m)
    <2>1. Places[i - f + 1] = b2
        <3> PICK j \in 1 .. n : j = i - f + 1
            BY <1>3
        <3>1. Line(b, w * s, n)[j] = b + (w * s) * (j - 1)
            BY DEF Line
        <3>2. j - 1 = i - f
            BY <1>3
        <3>3. QED
            BY ONLY <1>2, <3>1, <3>2, b2 = b + (w * s) * (i - f), j = i - f + 1
    <2>2. \A k \in 1 .. w : b2 + k - 1 = b2 + (one * one) * (k - 1)
        BY DEF Positive
    <2>3. QED
        BY ONLY <2>1, <2>2, S = [k \in 1 .. w |-> Places[i - f + 1] + k - 1], m = w DEF Line
<1>6. Becomes(Vector(b2, one, one, m, zero), <<"units", i>>)
    BY <1>1, <1>4 DEF Units
<1>7. IInv' /\ Maps!Becomes(zero, S, one, <<"units", i>>)
    BY ONLY <1>5, <1>6, b2 \in Int, one \in Positive, m \in Nat, zero \in Int, BecomesMap
<1>8. QED
    BY <1>2, <1>3, <1>7 DEF Maps!Units

LEMMA WholesImplements ==
    ASSUME IInv, Wholes
    PROVE  IInv' /\ Maps!Wholes
<1>1. PICK b \in Int, w \in Positive, s \in Positive, n \in Nat, f \in Int :
          view = Vector(b, w, s, n, f)
    BY DEF IInv, IsVector
<1>2. Places = Line(b, w * s, n) /\ view.width = w /\ Valid[1] = Reported(n, f)
    BY <1>1, MapsOfVector
<1>3. Width \in Positive
    BY VectorsAssumption DEF Positive
<1>4. PICK t \in Positive : w * s = Width * t
    <2>1. Remainder(s * w, Width) = 0
        BY <1>1 DEF Wholes, Vector
    <2>2. s * w \in Int /\ Width \in Int /\ Width # 0
        BY <1>3 DEF Positive
    <2>3. PICK t \in Int : s * w = Width * t
        BY ONLY <2>1, <2>2, RemainderZero
    <2>4. s * w > 0 /\ Width > 0 /\ s * w = w * s
        BY <1>3 DEF Positive
    <2>5. t > 0
        BY <2>2, <2>3, <2>4
    <2>6. QED
        BY <2>3, <2>4, <2>5 DEF Positive
<1>5. Scale(Vector(b, w, s, n, f), w, Width) = Vector(b, Width, t, n, f)
    BY ONLY <1>3, <1>4, b \in Int, w \in Positive, s \in Positive, n \in Nat, f \in Int, ScaleOfVector
<1>6. Becomes(Vector(b, Width, t, n, f), <<"wholes">>)
    BY <1>1, <1>2, <1>5 DEF Wholes, WholesOf
<1> PICK g, S : g = Valid[1] /\ S = Places
    OBVIOUS
<1>7. S = Line(b, Width * t, n) /\ (n # 0 => g = f)
    BY <1>2, <1>4 DEF Reported
<1>8. IInv' /\ Maps!Becomes(g, S, Width, <<"wholes">>)
    BY ONLY <1>3, <1>6, <1>7, b \in Int, t \in Positive, n \in Nat, f \in Int, BecomesMap
<1>9. QED
    BY <1>8 DEF Maps!Wholes

LEMMA InitImplements == Init => IInv /\ Maps!Init
<1> SUFFICES ASSUME Init PROVE IInv /\ Maps!Init
    OBVIOUS
<1>1. Width \in Positive /\ Counts \subseteq Nat
    BY VectorsAssumption DEF Positive
<1>2. PICK count \in Counts :
        /\ view = [base |-> 0, width |-> Width, stride |-> 1, offset |-> 0, nelems |-> count]
        /\ call = <<"array", count>>
    BY DEF Init
<1> PICK zero \in Int, one \in Positive, n \in Nat : zero = 0 /\ one = 1 /\ n = count
    BY <1>1, <1>2 DEF Positive
<1>3. view = Vector(zero, Width, one, n, zero)
    BY <1>2 DEF Vector
<1>4. IInv
    BY <1>1, <1>3 DEF IInv, IsVector
<1>5. Places = Line(zero, Width * one, n) /\ Valid[1] = Reported(n, zero) /\ view.width = Width
    BY ONLY <1>1, <1>3, zero \in Int, one \in Positive, n \in Nat, MapsOfVector
<1>6. Valid[1] = 0
    BY <1>5 DEF Reported
<1>7. Places = [k \in 1 .. count |-> Width * (k - 1)]
    <2>1. \A k \in 1 .. n : zero + (Width * one) * (k - 1) = Width * (k - 1)
        BY <1>1 DEF Positive
    <2>2. QED
        BY ONLY <1>5, <2>1, n = count DEF Line
<1>8. Maps!Init
    BY ONLY <1>2, <1>5, <1>6, <1>7 DEF Maps!Init
<1>9. QED
    BY <1>4, <1>8

LEMMA NextImplements == IInv /\ Next => IInv' /\ Maps!Next
<1> SUFFICES ASSUME IInv, Next PROVE IInv' /\ Maps!Next
    OBVIOUS
<1>1. PICK b \in Int, w \in Positive, s \in Positive, n \in Nat, f \in Int :
          view = Vector(b, w, s, n, f)
    BY DEF IInv, IsVector
<1>2. Size(view) = Maps!n /\ Valid[2] = Valid[1] + Maps!n /\ Maps!n \in Nat /\ Valid[1] \in Int
    BY <1>1, MapsOfVector DEF Reported
<1> PICK N \in Nat, F \in Int : N = Maps!n /\ F = Valid[1]
    BY <1>2
<1>3. /\ Firsts \subseteq Int /\ Bounds \subseteq Int /\ Steps \subseteq Positive /\ Width \in Positive
    BY VectorsAssumption DEF Positive
<1>4. CASE Same \/ Transformed
    BY ONLY <1>4, IInv, SameImplements DEF Maps!Next
<1>5. CASE Wholes
    BY ONLY <1>5, IInv, WholesImplements DEF Maps!Next
<1>6. CASE \E g \in Firsts : Reindexed(g)
    BY ONLY <1>6, <1>3, IInv, ReindexedImplements DEF Maps!Next
<1>7. ASSUME NEW k \in 0 .. Size(view), Taked(k) \/ Dropped(k)
      PROVE  IInv' /\ Maps!Next
    <2>1. IInv' /\ (Maps!Taked(k) \/ Maps!Dropped(k))
        BY ONLY <1>7, IInv, TakedImplements, DroppedImplements
    <2>2. k \in 0 .. Maps!n
        BY <1>2
    <2>3. QED
        BY ONLY <2>1, <2>2 DEF Maps!Next
<1>8. ASSUME NEW a \in Valid[1] .. Valid[2], NEW c \in Valid[1] .. Valid[2], a <= c,
             Sliced(a, c) \/ Blocked(a, c)
      PROVE  IInv' /\ Maps!Next
    <2>1. IInv' /\ (Maps!Sliced(a, c) \/ Maps!Blocked(a, c))
        BY ONLY <1>8, IInv, SlicedImplements
    <2>2. a \in Valid[1] .. Valid[1] + Maps!n /\ c \in Valid[1] .. Valid[1] + Maps!n
        BY <1>2
    <2>3. QED
        BY ONLY <1>8, <2>1, <2>2 DEF Maps!Next
<1>9. ASSUME NEW a \in Valid[1] .. Valid[2], NEW c \in Valid[1] .. Valid[2], NEW t \in Steps, a <= c,
             SlicedBy(a, c, t)
      PROVE  IInv' /\ Maps!Next
    <2>1. t \in Positive
        BY <1>3
    <2>2. IInv' /\ Maps!SlicedBy(a, c, t)
        BY ONLY <1>9, <2>1, IInv, SlicedByImplements
    <2>3. a \in Valid[1] .. Valid[1] + Maps!n /\ c \in Valid[1] .. Valid[1] + Maps!n
        BY <1>2
    <2>4. QED
        BY ONLY <1>9, <2>2, <2>3 DEF Maps!Next
<1>10. CASE \E a, c \in Bounds : Intersected(a, c)
    BY ONLY <1>10, <1>3, IInv, IntersectedImplements DEF Maps!Next
<1>11. CASE \E t \in Steps : Strided(t)
    BY ONLY <1>11, <1>3, IInv, StridedImplements DEF Maps!Next
<1>12. ASSUME NEW p \in 1 .. Size(view),
              TileRemainder(p) \/ \E k \in 0 .. Size(view) - 1 : Part(p, k) \/ Chunk(p, k) \/ Tile(p, k)
       PROVE  IInv' /\ Maps!Next
    <2>1. p \in 1 .. Maps!n
        BY <1>2
    <2>2. CASE TileRemainder(p)
        BY ONLY <1>12, <2>1, <2>2, IInv, DroppedImplements DEF Maps!Next
    <2>3. ASSUME NEW k \in 0 .. Size(view) - 1, Part(p, k) \/ Chunk(p, k) \/ Tile(p, k)
          PROVE  IInv' /\ Maps!Next
        <3>1. IInv' /\ (Maps!Part(p, k) \/ Maps!Chunk(p, k) \/ Maps!Tile(p, k))
            BY ONLY <1>12, <2>3, IInv, PartImplements, ChunkImplements
        <3>2. k \in 0 .. Maps!n - 1
            BY <1>2
        <3>3. QED
            BY ONLY <2>1, <3>1, <3>2 DEF Maps!Next
    <2>4. QED
        BY <1>12, <2>2, <2>3
<1>13. ASSUME NEW m \in 0 .. Width - 1, Member(m)
       PROVE  IInv' /\ Maps!Next
    <2>1. m \in Nat
        BY <1>3 DEF Positive
    <2>2. QED
        BY ONLY <1>13, <2>1, IInv, MemberImplements DEF Maps!Next
<1>14. ASSUME NEW i \in Valid[1] .. Valid[2] - 1, Units(i)
       PROVE  IInv' /\ Maps!Next
    <2>1. IInv' /\ Maps!Units(i)
        BY ONLY <1>14, IInv, UnitsImplements
    <2>2. Maps!n > 0 /\ i \in Valid[1] .. Valid[1] + Maps!n - 1
        BY <1>2
    <2>3. QED
        BY ONLY <2>1, <2>2 DEF Maps!Next
<1>15. QED
    BY <1>4, <1>5, <1>6, <1>7, <1>8, <1>9, <1>10, <1>11, <1>12, <1>13, <1>14 DEF Next

--------------------------------------------------------------------------------
(* The theorems.                                                              *)

\* The view is always a vector: its nelems and its offset are multiples of its stride.
THEOREM VectorsOnly == Spec => []IInv
<1>1. Init => IInv
    BY InitImplements
<1>2. IInv /\ [Next]_vars => IInv'
    <2>1. IInv /\ UNCHANGED vars => IInv'
        BY DEF IInv, vars
    <2>2. QED
        BY <2>1, NextImplements
<1>3. QED
    BY <1>1, <1>2, PTL DEF Spec

\* Bases, strides, offsets and nelems implement VectorMaps: whatever chain of
\* functions makes a view, its elements and indices are those that they promise.
THEOREM VectorsAreMaps == Spec => ImplementsVectorMaps
<1>1. Init => Maps!Init
    BY InitImplements
<1>2. IInv /\ [Next]_vars => [Maps!Next]_Maps!vars
    <2>1. UNCHANGED vars => UNCHANGED Maps!vars
        BY DEF vars, Maps!vars, Places, Valid
    <2>2. QED
        BY <2>1, NextImplements
<1>3. QED
    BY <1>1, <1>2, VectorsOnly, PTL DEF Spec, ImplementsVectorMaps, Maps!Spec

\* The k-th of the elements() of a view, from zero, is the one at index k: there
\* is one dimension, and one element in each of its sub-layouts.
LEMMA LinearOfVector ==
    ASSUME NEW k \in Nat, NEW x
    PROVE  FromLinear(<<x>>, k) = <<k>>
<1>1. NumElementsIn(<<>>) = 1
    <2> PICK N \in Nat : N = 0
        OBVIOUS
    <2> PICK xs : xs = <<>>
        OBVIOUS
    <2>1. DOMAIN xs = 1 .. N /\ \A j \in 1 .. N : Length(xs[j]) \in Int
        OBVIOUS
    <2>2. PICK g \in [0 .. N -> Int] : g[0] = 1 /\ g[N] = NumElementsIn(xs)
        BY ONLY <2>1, N \in Nat, NumElementsInSteps
    <2>3. QED
        BY <2>2
<1>2. SubSeq(<<x>>, 2, 1) = <<>> /\ Len(<<x>>) = 1
    OBVIOUS
<1>3. Quotient(k, 1) = k
    <2>1. Quotient(1 * k, 1) = k
        <3>1. 1 \in Int /\ 1 # 0 /\ k \in Int
            OBVIOUS
        <3>2. QED
            BY ONLY <3>1, QuotientExact
    <2>2. QED
        BY <2>1
<1>4. FromLinear(<<x>>, k) = [j \in 1 .. 1 |-> k]
    <2>1. FromLinear(<<x>>, k)
            = [j \in 1 .. 1 |->
                 LET inner(l) == NumElementsIn(SubSeq(<<x>>, l + 1, 1))
                     within   == IF j = 1 THEN k ELSE Remainder(k, inner(j - 1))
                 IN  Quotient(within, inner(j))]
        BY <1>2 DEF FromLinear
    <2>2. \A j \in 1 .. 1 : j = 1
        OBVIOUS
    <2>3. Quotient(k, NumElementsIn(SubSeq(<<x>>, 1 + 1, 1))) = k
        <3>1. 1 + 1 = 2
            OBVIOUS
        <3>2. QED
            BY ONLY <1>1, <1>2, <1>3, <3>1
    <2>4. QED
        BY ONLY <2>1, <2>2, <2>3
<1>5. QED
    BY <1>4

LEMMA AtOfVector ==
    ASSUME NEW v, v.offset \in Int, v.stride \in Int, NEW k \in Int
    PROVE  At(<<v>>, <<k>>) = v.offset + k * v.stride
<1> PICK N \in Nat : N = 1
    OBVIOUS
<1> PICK dims, i : dims = <<v>> /\ i = <<k>>
    OBVIOUS
<1>1. HasIndex(dims, i, N)
    BY DEF HasIndex
<1>2. PICK g :
        /\ g[0] = 0 /\ g[N] = At(dims, i)
        /\ \A j \in 1 .. N : g[j] = g[j - 1] + dims[j].offset + i[j] * dims[j].stride
    <2>1. PICK g : AddsUp(g, dims, i, N)
        BY ONLY <1>1, N \in Nat, AtSteps
    <2>2. QED
        BY <2>1 DEF AddsUp
<1>3. g[1] = 0 + v.offset + k * v.stride
    <2>1. 1 \in 1 .. N /\ 1 - 1 = 0
        OBVIOUS
    <2>2. g[1] = g[1 - 1] + dims[1].offset + i[1] * dims[1].stride
        BY ONLY <1>2, <2>1
    <2>3. QED
        BY ONLY <1>2, <2>1, <2>2, dims = <<v>>, i = <<k>>
<1>4. QED
    BY <1>2, <1>3

LEMMA VectorTraversals ==
    ASSUME IInv
    PROVE  TraversalsAgree
<1>1. PICK b \in Int, w \in Positive, s \in Positive, n \in Nat, f \in Int :
          view = Vector(b, w, s, n, f)
    BY DEF IInv, IsVector
<1>2. Places = Line(b, w * s, n) /\ Size(view) = n /\ view.width = w
    BY <1>1, MapsOfVector
<1>3. view.base = b /\ view.stride = s /\ view.offset = s * f /\ view.nelems = s * n
    BY <1>1 DEF Vector
<1>4. \A k \in 1 .. n : Places[k] = b + (w * s) * (k - 1)
    BY <1>2 DEF Line
<1>5. \A k \in 1 .. n : Step(view, Begin(view), k - 1).ptr = Places[k]
    <2>1. \A k \in 1 .. n : w * (k - 1) * s = (w * s) * (k - 1)
        BY DEF Positive
    <2>2. QED
        BY ONLY <1>2, <1>3, <1>4, <2>1 DEF Step, Begin
<1>6. Step(view, Begin(view), n) = End(view)
    <2>1. w * n * s = w * (s * n)
        BY DEF Positive
    <2>2. QED
        BY ONLY <1>2, <1>3, <2>1 DEF Step, Begin, End, Plus
<1>7. ASSUME ~IsEmpty(view)
      PROVE  FrontElement(view) = Places[1] /\ BackElement(view) = Places[n]
    <2>1. 1 \in 1 .. n /\ n \in 1 .. n
        <3>1. n # 0
            BY <1>3, <1>7 DEF IsEmpty, Positive
        <3>2. QED
            BY <3>1
    <2>2. Places[1] = b + (w * s) * (1 - 1) /\ Places[n] = b + (w * s) * (n - 1)
        BY ONLY <1>4, <2>1
    <2>3. b + (w * s) * (1 - 1) = b /\ b + w * (s * n) + w * (-1) * s = b + (w * s) * (n - 1)
        BY DEF Positive
    <2>4. FrontElement(view) = b
        BY ONLY <1>3 DEF FrontElement, Begin
    <2>5. BackElement(view) = b + w * (s * n) + w * (-1) * s
        BY ONLY <1>2, <1>3 DEF BackElement, Step, End, Plus
    <2>6. QED
        BY ONLY <2>2, <2>3, <2>4, <2>5
<1>8. ASSUME view.offset = 0, NEW k \in 1 .. n
      PROVE  view.base + view.width * At(<<view>>, FromLinear(<<Valid>>, k - 1)) = Places[k]
    <2> PICK j \in Nat : j = k - 1
        OBVIOUS
    <2>1. FromLinear(<<Valid>>, j) = <<j>>
        BY ONLY j \in Nat, LinearOfVector
    <2>2. At(<<view>>, <<j>>) = view.offset + j * view.stride
        <3>1. view.offset \in Int /\ view.stride \in Int /\ j \in Int
            BY <1>3 DEF Positive
        <3>2. QED
            BY ONLY <3>1, AtOfVector
    <2>3. b + w * (0 + j * s) = b + (w * s) * j
        BY DEF Positive
    <2>4. Places[k] = b + (w * s) * j
        BY <1>4
    <2>5. QED
        BY ONLY <1>2, <1>3, <1>8, <2>1, <2>2, <2>3, <2>4, j = k - 1
<1>9. ASSUME NEW k \in 1 .. n
      PROVE  /\ Places[k] >= Hull(view).from
             /\ Places[k] < Hull(view).from + view.width * Hull(view).count
    <2> PICK m \in Nat, u \in Int : m = n * s /\ u = w * s
        BY DEF Positive
    <2>1. m >= 1 /\ w * m >= 0 /\ m \in Int
        BY DEF Positive
    <2>2. HullSize(view) = m
        <3>1. ~IsEmpty(view)
            BY <1>3 DEF IsEmpty, Positive
        <3>2. Magnitude(m) = m
            BY DEF Magnitude
        <3>3. HullSize(view) = IF Magnitude(m) > 1 THEN m ELSE 1
            BY ONLY <1>2, <1>3, <3>1, m = n * s DEF HullSize
        <3>4. QED
            BY ONLY <2>1, <3>2, <3>3
    <2>3. Hull(view) = [from |-> b, count |-> m]
        <3>1. Smaller(b, b + w * m) = b
            BY <2>1 DEF Smaller, Positive
        <3>2. Magnitude(m) = m
            BY DEF Magnitude
        <3>3. QED
            BY ONLY <1>2, <1>3, <2>2, <3>1, <3>2 DEF Hull, Plus
    <2>4. Places[k] = b + u * (k - 1)
        BY <1>4
    <2>5. u * (k - 1) >= 0 /\ u * (k - 1) < w * m
        <3>1. u > 0 /\ w * m = u * n
            BY DEF Positive
        <3>2. u * (k - 1) >= 0 /\ u * (n - k + 1) > 0
            BY <3>1
        <3>3. QED
            BY <3>1, <3>2
    <2>6. b + u * (k - 1) >= b /\ b + u * (k - 1) < b + w * m
        BY <2>5 DEF Positive
    <2>7. QED
        BY ONLY <1>2, <2>3, <2>4, <2>6
<1>10. QED
    BY ONLY <1>2, <1>5, <1>6, <1>7, <1>8, <1>9 DEF TraversalsAgree

\* The ways through a vector meet, whatever chain of functions made it.
THEOREM TraversalsMeet == Spec => []TraversalsAgree
<1>1. IInv => TraversalsAgree
    BY VectorTraversals
<1>2. QED
    BY <1>1, VectorsOnly, PTL

================================================================================
