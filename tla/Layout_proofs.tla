----------------------------- MODULE Layout_proofs -----------------------------
(******************************************************************************)
(* What the operators of Layout do for layouts of any number of dimensions.   *)
(* Most of them are folds; the first part shows what a fold over a sequence   *)
(* is made of, its partial results, by induction on the number of them.       *)
(******************************************************************************)
EXTENDS Layout, FiniteSetTheorems, WellFoundedInduction, TLAPS

--------------------------------------------------------------------------------
(* Induction on natural numbers, as a statement about sets: a set that is not *)
(* all of Nat leaves out a least number.                                      *)

LEMMA LessThanWellFounded == IsWellFoundedOn({ss \in Nat \X Nat : ss[1] < ss[2]}, Nat)
  BY NatLessThanWellFounded DEF OpToRel

LEMMA LeastNumber ==
  ASSUME NEW T, T \subseteq Nat, T # {}
  PROVE  \E x \in T : \A y \in T : x <= y
<1>1. \E x \in T : \A y \in T : ~(<<y, x>> \in {ss \in Nat \X Nat : ss[1] < ss[2]})
  BY LessThanWellFounded, WFMin
<1>2. PICK x \in T : \A y \in T : ~(<<y, x>> \in {ss \in Nat \X Nat : ss[1] < ss[2]})
  BY <1>1
<1>3. ASSUME NEW y \in T PROVE x <= y
  <2>1. <<y, x>> \in Nat \X Nat /\ ~(<<y, x>> \in {ss \in Nat \X Nat : ss[1] < ss[2]})
    BY <1>2
  <2>2. ~(y < x)
    BY <2>1
  <2>3. QED
    BY <2>2
<1>4. QED
  BY <1>3

LEMMA Induct ==
  ASSUME NEW T, 0 \in T, \A k \in Nat : k \in T => k + 1 \in T
  PROVE  Nat \subseteq T
<1> SUFFICES ASSUME Nat \ T # {} PROVE FALSE
  OBVIOUS
<1>1. PICK x \in Nat \ T : \A y \in Nat \ T : x <= y
  BY LeastNumber
<1>2. x # 0
  OBVIOUS
<1>3. x - 1 \in Nat /\ x - 1 \in T
  BY <1>1, <1>2
<1>4. QED
  BY <1>3

--------------------------------------------------------------------------------
(* The division of C++.                                                       *)

LEMMA DivBounds ==
  ASSUME NEW a \in Nat, NEW m \in Nat \ {0}
  PROVE  a \div m \in Nat /\ m * (a \div m) <= a /\ a < m * (a \div m) + m
  OBVIOUS

LEMMA DivExact ==
  ASSUME NEW k \in Nat, NEW m \in Nat \ {0}
  PROVE  (m * k) \div m = k
<1>1. m * k \in Nat
  OBVIOUS
<1>2. PICK q \in Nat : q = (m * k) \div m /\ m * q <= m * k /\ m * k < m * q + m
  BY <1>1, DivBounds
<1>3. ~(q < k)
  <2> SUFFICES ASSUME q + 1 <= k PROVE FALSE
    OBVIOUS
  <2>1. m * (q + 1) <= m * k
    OBVIOUS
  <2>2. QED
    BY <1>2, <2>1
<1>4. ~(q > k)
  <2> SUFFICES ASSUME k + 1 <= q PROVE FALSE
    OBVIOUS
  <2>1. m * (k + 1) <= m * q
    OBVIOUS
  <2>2. QED
    BY <1>2, <2>1
<1>5. QED
  BY <1>2, <1>3, <1>4

\* The same of a negative multiple: \div is exact on multiples.
LEMMA DivOfMultiple ==
  ASSUME NEW k \in Int, NEW m \in Int, m > 0
  PROVE  (m * k) \div m = k
<1>1. PICK q \in Int : q = (m * k) \div m /\ m * q <= m * k /\ m * k < m * q + m
  OBVIOUS
<1>2. ~(q < k)
  <2> SUFFICES ASSUME q + 1 <= k PROVE FALSE
    OBVIOUS
  <2>1. m * (q + 1) <= m * k
    OBVIOUS
  <2>2. QED
    BY <1>1, <2>1
<1>3. ~(q > k)
  <2> SUFFICES ASSUME k + 1 <= q PROVE FALSE
    OBVIOUS
  <2>1. m * (k + 1) <= m * q
    OBVIOUS
  <2>2. QED
    BY <1>1, <2>1
<1>4. QED
  BY <1>1, <1>2, <1>3

LEMMA MagnitudeOfProduct ==
  ASSUME NEW a \in Int, NEW b \in Int
  PROVE  Magnitude(a * b) = Magnitude(a) * Magnitude(b)
  BY DEF Magnitude

LEMMA QuotientExact ==
  ASSUME NEW k \in Int, NEW m \in Int, m # 0
  PROVE  Quotient(m * k, m) = k
<1>1. Magnitude(m) \in Nat \ {0} /\ Magnitude(k) \in Nat /\ m * k \in Int
  BY DEF Magnitude
<1>2. Magnitude(m * k) \div Magnitude(m) = Magnitude(k)
  BY <1>1, MagnitudeOfProduct, DivExact
<1>3. Quotient(m * k, m) = IF (m * k < 0) = (m < 0) THEN Magnitude(k) ELSE - Magnitude(k)
  BY <1>2 DEF Quotient
<1>4. CASE k > 0
  <2>1. (m * k < 0) = (m < 0)
    BY <1>4
  <2>2. QED
    BY <1>3, <1>4, <2>1 DEF Magnitude
<1>5. CASE k = 0
  BY <1>3, <1>5 DEF Magnitude
<1>6. CASE k < 0
  <2>1. (m * k < 0) # (m < 0)
    BY <1>6
  <2>2. QED
    BY <1>3, <1>6, <2>1 DEF Magnitude
<1>7. QED
  BY <1>4, <1>5, <1>6

LEMMA QuotientRemainder ==
  ASSUME NEW a \in Int, NEW b \in Int, b # 0
  PROVE  /\ Quotient(a, b) \in Int /\ Remainder(a, b) \in Int
         /\ a = b * Quotient(a, b) + Remainder(a, b)
<1>1. Magnitude(b) \in Nat \ {0} /\ Magnitude(a) \in Nat
  BY DEF Magnitude
<1>2. Magnitude(a) \div Magnitude(b) \in Int
  BY <1>1, DivBounds
<1>3. Quotient(a, b) \in Int
  BY <1>2 DEF Quotient
<1>4. PICK q \in Int : q = Quotient(a, b)
  BY <1>3
<1>5. Remainder(a, b) = a - b * q
  BY <1>4 DEF Remainder
<1>6. QED
  BY <1>4, <1>5

\* Nothing is left over exactly by the multiples.
LEMMA RemainderZero ==
  ASSUME NEW a \in Int, NEW b \in Int, b # 0
  PROVE  Remainder(a, b) = 0 <=> \E k \in Int : a = b * k
<1>1. ASSUME Remainder(a, b) = 0 PROVE \E k \in Int : a = b * k
  <2>1. Quotient(a, b) \in Int /\ a = b * Quotient(a, b) + Remainder(a, b)
    BY QuotientRemainder
  <2>2. a = b * Quotient(a, b)
    BY <1>1, <2>1
  <2>3. QED
    BY ONLY <2>1, <2>2
<1>2. ASSUME NEW k \in Int, a = b * k PROVE Remainder(a, b) = 0
  <2>1. Quotient(a, b) = k
    BY <1>2, QuotientExact
  <2>2. QED
    BY <1>2, <2>1 DEF Remainder
<1>3. QED
  BY <1>1, <1>2

\* Of natural numbers, they are the division and the remainder of mathematics.
LEMMA QuotientOfNat ==
  ASSUME NEW a \in Nat, NEW b \in Nat \ {0}
  PROVE  Quotient(a, b) = a \div b /\ Remainder(a, b) = a % b /\ a % b \in 0 .. b - 1
<1>1. Quotient(a, b) = a \div b
  BY DEF Quotient, Magnitude
<1>2. a % b = a - b * (a \div b) /\ a % b \in 0 .. b - 1
  OBVIOUS
<1>3. QED
  BY <1>1, <1>2 DEF Remainder

\* A dimension has n steps, from step f on.
HasSteps(d, f, n) ==
  /\ d.nelems = d.stride * n /\ Size(d) = n
  /\ n = 0 => Extension(d) = <<0, 0>>
  /\ n # 0 => d.offset = d.stride * f /\ Extension(d) = <<f, f + n>>

LEMMA DimensionSteps ==
  ASSUME NEW d \in Dimensions, d.stride # 0, ExtensionExists(d), Size(d) >= 0
  PROVE  \E f \in Int, n \in Nat : HasSteps(d, f, n)
<1>1. d.stride \in Int /\ d.offset \in Int /\ d.nelems \in Int
  BY DEF Dimensions
<1>2. CASE d.nelems = 0
  <2>1. HasSteps(d, 0, 0)
    BY <1>1, <1>2 DEF HasSteps, Size, Extension
  <2>2. QED
    BY <2>1
<1>3. CASE d.nelems # 0
  <2>1. Remainder(d.offset, d.stride) = 0 /\ Remainder(d.nelems, d.stride) = 0
    BY <1>3 DEF ExtensionExists
  <2>2. PICK f \in Int, n \in Int : d.offset = d.stride * f /\ d.nelems = d.stride * n
    <3>1. \A x \in Int : Remainder(x, d.stride) = 0 => \E k \in Int : x = d.stride * k
      BY ONLY <1>1, d.stride # 0, RemainderZero
    <3>2. QED
      BY ONLY <1>1, <2>1, <3>1
  <2> PICK s \in Int : s = d.stride
    BY <1>1
  <2>3. \A k \in Int : Quotient(s * k, s) = k
    BY ONLY s \in Int, s = d.stride, d.stride # 0, QuotientExact
  <2>4. Quotient(d.nelems, d.stride) = n /\ Quotient(d.offset, d.stride) = f
    BY ONLY <2>2, <2>3, s = d.stride
  <2>5. Quotient(d.offset + d.nelems, d.stride) = f + n
    <3>1. f + n \in Int /\ s * f + s * n = s * (f + n)
      OBVIOUS
    <3>2. QED
      BY ONLY <2>2, <2>3, <3>1, s = d.stride
  <2>6. Size(d) = n
    BY <1>3, <2>4 DEF Size
  <2>7. n \in Nat /\ n # 0
    BY <1>3, <2>2, <2>6
  <2>8. Extension(d) = <<f, f + n>>
    BY ONLY <1>3, <2>4, <2>5 DEF Extension
  <2>9. HasSteps(d, f, n)
    BY ONLY <2>2, <2>6, <2>7, <2>8 DEF HasSteps
  <2>10. QED
    BY <2>2, <2>7, <2>9
<1>4. QED
  BY <1>2, <1>3

\* Common factors.
LEMMA Cancel ==
    ASSUME NEW t \in Int, t # 0, NEW a \in Int, NEW b \in Int, t * a = t * b
    PROVE  a = b
OBVIOUS

LEMMA RemainderOfMultiple ==
    ASSUME NEW k \in Int, NEW m \in Int, m > 0
    PROVE  (m * k) \div m = k /\ (m * k) % m = 0
<1>1. (m * k) \div m = k
    BY DivOfMultiple
<1> PICK a \in Int : a = m * k
    OBVIOUS
<1>2. a % m = a - m * (a \div m)
    BY ONLY a \in Int, m \in Int, m > 0
<1>3. QED
    BY <1>1, <1>2

LEMMA NatParts ==
    ASSUME NEW z \in Nat \ {0}, NEW n \in Nat \ {0}, Remainder(z, n) = 0
    PROVE  z % n = 0 /\ z = n * (z \div n) /\ z \div n \in Nat /\ z \div n # 0 /\ Quotient(z, n) = z \div n
<1> PICK q \in Int : q = Quotient(z, n)
    BY QuotientRemainder
<1>1. q = z \div n /\ z % n = 0
    BY QuotientOfNat
<1>2. z = n * q
    <2>1. z = n * Quotient(z, n) + Remainder(z, n)
        BY QuotientRemainder
    <2>2. QED
        BY <2>1
<1>3. q \in Nat
    BY <1>1
<1>4. q # 0
    BY ONLY <1>2, z \in Nat \ {0}, n \in Nat \ {0}, q \in Int
<1>5. QED
    BY <1>1, <1>2, <1>3, <1>4

--------------------------------------------------------------------------------
(* Folds.  MapThenFoldSet, that the folds over sequences are defined by, takes *)
(* the result for each set of indices from the set without its largest one.   *)

LEMMA MaxOf ==
  ASSUME NEW s, NEW x \in s, s \subseteq Int, \A y \in s : y <= x
  PROVE  Max(s) = x
<1>1. Max(s) \in s /\ \A y \in s : Max(s) >= y
  BY DEF Max
<1>2. PICK m : m = Max(s)
  OBVIOUS
<1>3. m \in s /\ m >= x /\ m <= x
  BY <1>1, <1>2
<1>4. QED
  BY <1>2, <1>3

LEMMA MaxIn ==
  ASSUME NEW N \in Nat, NEW s \in SUBSET (1 .. N), s # {}
  PROVE  Max(s) \in s
<1> DEFINE T == {m \in Nat : \A t \in SUBSET (1 .. N) : t # {} /\ t \subseteq 1 .. m => Max(t) \in t}
<1>1. 0 \in T
  <2>1. \A t : t \subseteq 1 .. 0 => t = {}
    OBVIOUS
  <2>2. QED
    BY <2>1
<1>2. ASSUME NEW m \in Nat, m \in T PROVE m + 1 \in T
  <2>1. ASSUME NEW t \in SUBSET (1 .. N), t # {}, t \subseteq 1 .. m + 1 PROVE Max(t) \in t
    <3>1. CASE m + 1 \in t
      <4>1. t \subseteq Int /\ \A y \in t : y <= m + 1
        BY <2>1
      <4>2. QED
        BY ONLY <3>1, <4>1, MaxOf
    <3>2. CASE m + 1 \notin t
      <4>1. t \subseteq 1 .. m
        BY <2>1, <3>2
      <4>2. QED
        BY <1>2, <2>1, <4>1
    <3>3. QED
      BY <3>1, <3>2
  <2>2. QED
    BY <2>1
<1>3. N \in T
  <2> HIDE DEF T
  <2>1. QED
    BY <1>1, <1>2, Induct
<1>4. QED
  BY <1>3

LEMMA UpTo ==
  ASSUME NEW N \in Nat, NEW k \in 1 .. N
  PROVE  /\ 1 .. k \in SUBSET (1 .. N) /\ 1 .. k # {}
         /\ Max(1 .. k) = k
         /\ (1 .. k) \ {k} = 1 .. k - 1
<1>1. k \in 1 .. k /\ 1 .. k \subseteq Int /\ \A y \in 1 .. k : y <= k
  OBVIOUS
<1>2. Max(1 .. k) = k
  BY ONLY <1>1, MaxOf
<1>3. (1 .. k) \ {k} = 1 .. k - 1
  OBVIOUS
<1>4. QED
  BY <1>1, <1>2, <1>3

\* h takes a result and the index of an element to the next result.
IsStep(h, A, N) == h \in [A \X (1 .. N) -> A]

\* What a fold is defined by: the result for every set of indices, the largest last.
Unfolds(F, h, base, A, N) ==
  /\ F \in [SUBSET (1 .. N) -> A]
  /\ \A s \in SUBSET (1 .. N) :
        F[s] = IF s = {} THEN base ELSE h[<<F[s \ {Max(s)}], Max(s)>>]

LEMMA FoldExists ==
  ASSUME NEW A, NEW N \in Nat, NEW h, IsStep(h, A, N), NEW base \in A
  PROVE  \E F : Unfolds(F, h, base, A, N)
<1> USE DEF IsStep, Unfolds
<1> DEFINE Good(F, s) == F[s] = IF s = {} THEN base ELSE h[<<F[s \ {Max(s)}], Max(s)>>]
           P(m) == \E F \in [SUBSET (1 .. N) -> A] :
                       \A s \in SUBSET (1 .. N) : s \subseteq 1 .. m => Good(F, s)
           T == {m \in Nat : P(m)}
<1>1. 0 \in T
  <2> DEFINE F == [s \in SUBSET (1 .. N) |-> base]
  <2>1. F \in [SUBSET (1 .. N) -> A]
    OBVIOUS
  <2>2. ASSUME NEW s \in SUBSET (1 .. N), s \subseteq 1 .. 0 PROVE Good(F, s)
    <3>1. s = {}
      BY <2>2
    <3>2. QED
      BY <3>1
  <2>3. P(0)
    <3> HIDE DEF F, Good
    <3> QED
      BY <2>1, <2>2
  <2>4. QED
    BY <2>3
<1>2. ASSUME NEW m \in Nat, m \in T PROVE m + 1 \in T
  <2>1. PICK F \in [SUBSET (1 .. N) -> A] :
           \A s \in SUBSET (1 .. N) : s \subseteq 1 .. m => Good(F, s)
    BY <1>2
  <2> DEFINE G == [s \in SUBSET (1 .. N) |->
                     IF m + 1 \in s THEN h[<<F[s \ {m + 1}], m + 1>>] ELSE F[s]]
  <2>2. G \in [SUBSET (1 .. N) -> A]
    <3>1. ASSUME NEW s \in SUBSET (1 .. N), m + 1 \in s PROVE h[<<F[s \ {m + 1}], m + 1>>] \in A
      <4>1. F[s \ {m + 1}] \in A /\ m + 1 \in 1 .. N
        BY <3>1
      <4>2. QED
        BY <4>1
    <3>2. QED
      BY <3>1
  <2>3. ASSUME NEW s \in SUBSET (1 .. N), s \subseteq 1 .. m + 1 PROVE Good(G, s)
    <3>1. CASE m + 1 \in s
      <4>1. Max(s) = m + 1
        <5>1. s \subseteq Int /\ \A y \in s : y <= m + 1
          BY <2>3
        <5>2. QED
          BY ONLY <3>1, <5>1, MaxOf
      <4>2. m + 1 \notin s \ {m + 1} /\ s \ {m + 1} \in SUBSET (1 .. N)
        OBVIOUS
      <4>3. G[s \ {m + 1}] = F[s \ {m + 1}]
        BY <4>2
      <4>4. G[s] = h[<<F[s \ {m + 1}], m + 1>>] /\ s # {}
        BY <3>1
      <4>5. QED
        BY <4>1, <4>3, <4>4
    <3>2. CASE m + 1 \notin s
      <4>1. s \subseteq 1 .. m
        BY <2>3, <3>2
      <4>2. Good(F, s) /\ G[s] = F[s]
        BY <2>1, <3>2, <4>1
      <4>3. G[s \ {Max(s)}] = F[s \ {Max(s)}]
        BY <3>2
      <4>4. QED
        BY <4>2, <4>3
    <3>3. QED
      BY <3>1, <3>2
  <2>4. P(m + 1)
    <3> HIDE DEF G, Good
    <3> QED
      BY <2>2, <2>3
  <2>5. QED
    <3> HIDE DEF P
    <3> QED
      BY <2>4
<1>3. N \in T
  <2> HIDE DEF T
  <2>1. QED
    BY <1>1, <1>2, Induct
<1>4. QED
  BY <1>3

\* The partial results of a fold, from the first element on.
Partial(g, h, base, A, N) ==
  /\ g \in [0 .. N -> A]
  /\ g[0] = base
  /\ \A k \in 1 .. N : g[k] = h[<<g[k - 1], k>>]

\* iter goes by h as long as the results so far are in A.
Continues(iter, h, A, N) ==
  \A k \in 1 .. N : iter[1 .. k - 1] \in A => iter[1 .. k] = h[<<iter[1 .. k - 1], k>>]

LEMMA FoldSteps ==
  ASSUME NEW A, NEW N \in Nat, NEW h, IsStep(h, A, N),
         NEW iter, iter[{}] \in A, Continues(iter, h, A, N)
  PROVE  \E g : Partial(g, h, iter[{}], A, N) /\ g[N] = iter[1 .. N]
<1> USE DEF IsStep, Partial, Continues
<1> DEFINE T == {m \in Nat : m <= N => iter[1 .. m] \in A}
<1>1. 0 \in T
  <2>1. 1 .. 0 = {}
    OBVIOUS
  <2>2. QED
    BY <2>1
<1>2. ASSUME NEW m \in Nat, m \in T PROVE m + 1 \in T
  <2> SUFFICES ASSUME m + 1 <= N PROVE iter[1 .. m + 1] \in A
    OBVIOUS
  <2>1. iter[1 .. m] \in A /\ m + 1 \in 1 .. N /\ (m + 1) - 1 = m
    BY <1>2
  <2>2. iter[1 .. m + 1] = h[<<iter[1 .. m], m + 1>>]
    BY <2>1
  <2>3. QED
    BY <2>1, <2>2
<1>3. \A m \in Nat : m \in T
  <2> HIDE DEF T
  <2>1. QED
    BY <1>1, <1>2, Induct
<1> DEFINE g == [k \in 0 .. N |-> iter[1 .. k]]
<1>4. g \in [0 .. N -> A]
  BY <1>3
<1>5. g[0] = iter[{}] /\ g[N] = iter[1 .. N]
  <2>1. 1 .. 0 = {}
    OBVIOUS
  <2>2. QED
    BY <2>1
<1>6. ASSUME NEW k \in 1 .. N PROVE g[k] = h[<<g[k - 1], k>>]
  <2>1. k - 1 \in 0 .. N /\ k \in 0 .. N
    OBVIOUS
  <2>2. iter[1 .. k - 1] \in A
    BY <2>1, <1>3
  <2>3. QED
    BY <2>1, <2>2
<1>7. QED
  <2> HIDE DEF g
  <2> QED
    BY <1>4, <1>5, <1>6

LEMMA NumElementsInSteps ==
  ASSUME NEW N \in Nat, NEW xs, DOMAIN xs = 1 .. N,
         \A k \in 1 .. N : Length(xs[k]) \in Int
  PROVE  \E g \in [0 .. N -> Int] :
            /\ g[0] = 1 /\ g[N] = NumElementsIn(xs)
            /\ \A k \in 1 .. N : g[k] = g[k - 1] * Length(xs[k])
<1> DEFINE h == [p \in Int \X (1 .. N) |-> p[1] * Length(xs[p[2]])]
           Body(it, s) == IF s = {} THEN 1 ELSE it[s \ {Max(s)}] * Length(xs[Max(s)])
           iter == CHOOSE it : it = [s \in SUBSET DOMAIN xs |-> Body(it, s)]
<1>1. IsStep(h, Int, N) /\ 1 \in Int
  BY DEF IsStep
<1>2. DOMAIN xs = 1 .. N
  OBVIOUS
<1>3. NumElementsIn(xs) = iter[DOMAIN xs]
  BY DEF NumElementsIn, FoldLeft, MapThenFoldSet, PointExtensions
<1>4. \E it : it = [s \in SUBSET DOMAIN xs |-> Body(it, s)]
  <2>1. PICK F : Unfolds(F, h, 1, Int, N)
    <3> HIDE DEF h
    <3> QED
      BY ONLY <1>1, N \in Nat, FoldExists
  <2>2. ASSUME NEW s \in SUBSET (1 .. N) PROVE F[s] = Body(F, s)
    <3>1. CASE s = {}
      BY <2>1, <3>1 DEF Unfolds
    <3>2. CASE s # {}
      <4>1. Max(s) \in 1 .. N /\ F[s \ {Max(s)}] \in Int
        BY <2>1, <3>2, MaxIn DEF Unfolds
      <4>2. F[s] = h[<<F[s \ {Max(s)}], Max(s)>>]
        BY <2>1, <3>2 DEF Unfolds
      <4>3. QED
        BY <3>2, <4>1, <4>2
    <3>3. QED
      BY <3>1, <3>2
  <2>3. F = [s \in SUBSET DOMAIN xs |-> Body(F, s)]
    <3> HIDE DEF Body
    <3> QED
      BY <1>2, <2>1, <2>2 DEF Unfolds
  <2>4. QED
    BY <2>3
<1>5. iter = [s \in SUBSET DOMAIN xs |-> Body(iter, s)]
  BY <1>4
<1>6. iter[{}] = 1
  BY <1>2, <1>5
<1>7. Continues(iter, h, Int, N)
  <2> SUFFICES ASSUME NEW k \in 1 .. N, iter[1 .. k - 1] \in Int
               PROVE  iter[1 .. k] = h[<<iter[1 .. k - 1], k>>]
    <3> HIDE DEF iter, h
    <3> QED
      BY DEF Continues
  <2>1. iter[1 .. k] = Body(iter, 1 .. k)
    <3> HIDE DEF iter, Body
    <3> QED
      BY <1>2, <1>5, UpTo
  <2>2. iter[1 .. k] = iter[1 .. k - 1] * Length(xs[k])
    <3> HIDE DEF iter
    <3>1. Max(1 .. k) = k /\ (1 .. k) \ {k} = 1 .. k - 1 /\ 1 .. k # {}
      BY ONLY N \in Nat, k \in 1 .. N, UpTo
    <3>2. iter[1 .. k] = iter[(1 .. k) \ {Max(1 .. k)}] * Length(xs[Max(1 .. k)])
      BY ONLY <2>1, <3>1
    <3>3. QED
      BY ONLY <3>1, <3>2
  <2>3. QED
    <3> HIDE DEF iter
    <3> QED
      BY <2>2
<1>8. PICK g : Partial(g, h, 1, Int, N) /\ g[N] = iter[1 .. N]
  <2> HIDE DEF h, iter
  <2>1. iter[{}] \in Int
    BY ONLY <1>1, <1>6
  <2>2. \E g : Partial(g, h, iter[{}], Int, N) /\ g[N] = iter[1 .. N]
    BY <1>1, <1>7, <2>1, FoldSteps
  <2>3. QED
    BY ONLY <1>6, <2>2
<1>9. \A k \in 1 .. N : g[k] = g[k - 1] * Length(xs[k])
  <2>1. \A k \in 1 .. N : g[k - 1] \in Int /\ g[k] = h[<<g[k - 1], k>>]
    <3> HIDE DEF h
    <3> QED
      BY <1>8 DEF Partial
  <2>2. QED
    BY <2>1
<1>10. QED
  <2> HIDE DEF h, iter
  <2> QED
    BY <1>2, <1>3, <1>8, <1>9 DEF Partial

\* Of lengths that are not negative.
LEMMA NumElementsInNat ==
  ASSUME NEW N \in Nat, NEW xs, DOMAIN xs = 1 .. N,
         \A k \in 1 .. N : Length(xs[k]) \in Nat
  PROVE  NumElementsIn(xs) \in Nat
<1>0. \A k \in 1 .. N : Length(xs[k]) \in Int
  OBVIOUS
<1>1. PICK g \in [0 .. N -> Int] :
         /\ g[0] = 1 /\ g[N] = NumElementsIn(xs)
         /\ \A k \in 1 .. N : g[k] = g[k - 1] * Length(xs[k])
  BY ONLY <1>0, N \in Nat, DOMAIN xs = 1 .. N, NumElementsInSteps
<1> DEFINE T == {k \in Nat : k <= N => g[k] \in Nat}
<1>2. 0 \in T
  BY <1>1
<1>3. ASSUME NEW k \in Nat, k \in T PROVE k + 1 \in T
  <2> SUFFICES ASSUME k + 1 <= N PROVE g[k + 1] \in Nat
    OBVIOUS
  <2> PICK m \in 1 .. N : m = k + 1 /\ m - 1 = k
    OBVIOUS
  <2>1. g[m] = g[m - 1] * Length(xs[m]) /\ Length(xs[m]) \in Nat
    BY <1>1
  <2>2. g[m - 1] \in Nat
    BY <1>3
  <2>3. \A a, b \in Nat : a * b \in Nat
    OBVIOUS
  <2>4. g[m] \in Nat
    BY ONLY <2>1, <2>2, <2>3
  <2>5. QED
    BY <2>4
<1>4. N \in T
  <2> HIDE DEF T
  <2> QED
    BY <1>2, <1>3, Induct
<1>5. QED
  BY <1>1, <1>4

LEMMA NumElementsSteps ==
  ASSUME NEW N \in Nat, NEW dims, DOMAIN dims = 1 .. N,
         \A k \in 1 .. N : Size(dims[k]) \in Int
  PROVE  \E g \in [0 .. N -> Int] :
            /\ g[0] = 1 /\ g[N] = NumElements(dims)
            /\ \A k \in 1 .. N : g[k] = g[k - 1] * Size(dims[k])
<1> DEFINE h == [p \in Int \X (1 .. N) |-> p[1] * Size(dims[p[2]])]
           Body(it, s) == IF s = {} THEN 1 ELSE it[s \ {Max(s)}] * Size(dims[Max(s)])
           iter == CHOOSE it : it = [s \in SUBSET DOMAIN dims |-> Body(it, s)]
<1>1. IsStep(h, Int, N) /\ 1 \in Int
  BY DEF IsStep
<1>2. DOMAIN dims = 1 .. N
  OBVIOUS
<1>3. NumElements(dims) = iter[DOMAIN dims]
  BY DEF NumElements, FoldLeft, MapThenFoldSet, PointLayout
<1>4. \E it : it = [s \in SUBSET DOMAIN dims |-> Body(it, s)]
  <2>1. PICK F : Unfolds(F, h, 1, Int, N)
    <3> HIDE DEF h
    <3> QED
      BY ONLY <1>1, N \in Nat, FoldExists
  <2>2. ASSUME NEW s \in SUBSET (1 .. N) PROVE F[s] = Body(F, s)
    <3>1. CASE s = {}
      BY <2>1, <3>1 DEF Unfolds
    <3>2. CASE s # {}
      <4>1. Max(s) \in 1 .. N /\ F[s \ {Max(s)}] \in Int
        BY <2>1, <3>2, MaxIn DEF Unfolds
      <4>2. F[s] = h[<<F[s \ {Max(s)}], Max(s)>>]
        BY <2>1, <3>2 DEF Unfolds
      <4>3. QED
        BY <3>2, <4>1, <4>2
    <3>3. QED
      BY <3>1, <3>2
  <2>3. F = [s \in SUBSET DOMAIN dims |-> Body(F, s)]
    <3> HIDE DEF Body
    <3> QED
      BY <1>2, <2>1, <2>2 DEF Unfolds
  <2>4. QED
    BY <2>3
<1>5. iter = [s \in SUBSET DOMAIN dims |-> Body(iter, s)]
  BY <1>4
<1>6. iter[{}] = 1
  BY <1>2, <1>5
<1>7. Continues(iter, h, Int, N)
  <2> SUFFICES ASSUME NEW k \in 1 .. N, iter[1 .. k - 1] \in Int
               PROVE  iter[1 .. k] = h[<<iter[1 .. k - 1], k>>]
    <3> HIDE DEF iter, h
    <3> QED
      BY DEF Continues
  <2>1. iter[1 .. k] = Body(iter, 1 .. k)
    <3> HIDE DEF iter, Body
    <3> QED
      BY <1>2, <1>5, UpTo
  <2>2. iter[1 .. k] = iter[1 .. k - 1] * Size(dims[k])
    <3> HIDE DEF iter
    <3>1. Max(1 .. k) = k /\ (1 .. k) \ {k} = 1 .. k - 1 /\ 1 .. k # {}
      BY ONLY N \in Nat, k \in 1 .. N, UpTo
    <3>2. iter[1 .. k] = iter[(1 .. k) \ {Max(1 .. k)}] * Size(dims[Max(1 .. k)])
      BY ONLY <2>1, <3>1
    <3>3. QED
      BY ONLY <3>1, <3>2
  <2>3. QED
    <3> HIDE DEF iter
    <3> QED
      BY <2>2
<1>8. PICK g : Partial(g, h, 1, Int, N) /\ g[N] = iter[1 .. N]
  <2> HIDE DEF h, iter
  <2>1. iter[{}] \in Int
    BY ONLY <1>1, <1>6
  <2>2. \E g : Partial(g, h, iter[{}], Int, N) /\ g[N] = iter[1 .. N]
    BY <1>1, <1>7, <2>1, FoldSteps
  <2>3. QED
    BY ONLY <1>6, <2>2
<1>9. \A k \in 1 .. N : g[k] = g[k - 1] * Size(dims[k])
  <2>1. \A k \in 1 .. N : g[k - 1] \in Int /\ g[k] = h[<<g[k - 1], k>>]
    <3> HIDE DEF h
    <3> QED
      BY <1>8 DEF Partial
  <2>2. QED
    BY <2>1
<1>10. QED
  <2> HIDE DEF h, iter
  <2> QED
    BY <1>2, <1>3, <1>8, <1>9 DEF Partial

\* i is an index in N dimensions.
HasIndex(dims, i, N) ==
  /\ DOMAIN dims = 1 .. N
  /\ \A k \in 1 .. N : dims[k].offset \in Int /\ dims[k].stride \in Int /\ i[k] \in Int

\* What At adds up, dimension by dimension.
AddsUp(g, dims, i, N) ==
  /\ g \in [0 .. N -> Int]
  /\ g[0] = 0 /\ g[N] = At(dims, i)
  /\ \A k \in 1 .. N : g[k] = g[k - 1] + dims[k].offset + i[k] * dims[k].stride

LEMMA AtSteps ==
  ASSUME NEW N \in Nat, NEW dims, NEW i, HasIndex(dims, i, N)
  PROVE  \E g : AddsUp(g, dims, i, N)
<1> USE DEF HasIndex
<1> DEFINE h == [p \in Int \X (1 .. N) |-> p[1] + dims[p[2]].offset + i[p[2]] * dims[p[2]].stride]
           sq == [j \in DOMAIN dims |-> j]
           Body(it, s) == IF s = {} THEN 0 ELSE it[s \ {Max(s)}] + dims[sq[Max(s)]].offset + i[sq[Max(s)]] * dims[sq[Max(s)]].stride
           iter == CHOOSE it : it = [s \in SUBSET DOMAIN sq |-> Body(it, s)]
<1>1. IsStep(h, Int, N) /\ 0 \in Int
  BY DEF IsStep
<1>2. DOMAIN sq = 1 .. N
  OBVIOUS
<1>3. At(dims, i) = iter[DOMAIN sq]
  BY DEF At, FoldLeftDomain, FoldLeft, MapThenFoldSet, PointLayout
<1>4. \E it : it = [s \in SUBSET DOMAIN sq |-> Body(it, s)]
  <2>1. PICK F : Unfolds(F, h, 0, Int, N)
    <3> HIDE DEF h
    <3> QED
      BY ONLY <1>1, N \in Nat, FoldExists
  <2>2. ASSUME NEW s \in SUBSET (1 .. N) PROVE F[s] = Body(F, s)
    <3>1. CASE s = {}
      BY <2>1, <3>1 DEF Unfolds
    <3>2. CASE s # {}
      <4>1. Max(s) \in 1 .. N /\ F[s \ {Max(s)}] \in Int
        BY <2>1, <3>2, MaxIn DEF Unfolds
      <4>2. F[s] = h[<<F[s \ {Max(s)}], Max(s)>>]
        BY <2>1, <3>2 DEF Unfolds
      <4>3. QED
        BY <3>2, <4>1, <4>2
    <3>3. QED
      BY <3>1, <3>2
  <2>3. F = [s \in SUBSET DOMAIN sq |-> Body(F, s)]
    <3> HIDE DEF Body
    <3> QED
      BY <1>2, <2>1, <2>2 DEF Unfolds
  <2>4. QED
    BY <2>3
<1>5. iter = [s \in SUBSET DOMAIN sq |-> Body(iter, s)]
  BY <1>4
<1>6. iter[{}] = 0
  BY <1>2, <1>5
<1>7. Continues(iter, h, Int, N)
  <2> SUFFICES ASSUME NEW k \in 1 .. N, iter[1 .. k - 1] \in Int
               PROVE  iter[1 .. k] = h[<<iter[1 .. k - 1], k>>]
    <3> HIDE DEF iter, h
    <3> QED
      BY DEF Continues
  <2>1. iter[1 .. k] = Body(iter, 1 .. k)
    <3> HIDE DEF iter, Body
    <3> QED
      BY <1>2, <1>5, UpTo
  <2>2. iter[1 .. k] = iter[1 .. k - 1] + dims[k].offset + i[k] * dims[k].stride
    <3> HIDE DEF iter
    <3>1. Max(1 .. k) = k /\ (1 .. k) \ {k} = 1 .. k - 1 /\ 1 .. k # {} /\ sq[k] = k
      <4>1. sq[k] = k
        BY <1>2
      <4> HIDE DEF sq
      <4>2. QED
        BY ONLY <4>1, N \in Nat, k \in 1 .. N, UpTo
    <3>2. iter[1 .. k] = iter[(1 .. k) \ {Max(1 .. k)}] + dims[sq[Max(1 .. k)]].offset + i[sq[Max(1 .. k)]] * dims[sq[Max(1 .. k)]].stride
      <4> HIDE DEF sq
      <4> QED
        BY ONLY <2>1, <3>1
    <3> HIDE DEF sq
    <3>3. QED
      BY ONLY <3>1, <3>2
  <2>3. QED
    <3> HIDE DEF iter
    <3> QED
      BY <2>2
<1>8. PICK g : Partial(g, h, 0, Int, N) /\ g[N] = iter[1 .. N]
  <2> HIDE DEF h, iter
  <2>1. iter[{}] \in Int
    BY ONLY <1>1, <1>6
  <2>2. \E g : Partial(g, h, iter[{}], Int, N) /\ g[N] = iter[1 .. N]
    BY <1>1, <1>7, <2>1, FoldSteps
  <2>3. QED
    BY ONLY <1>6, <2>2
<1>9. \A k \in 1 .. N : g[k] = g[k - 1] + dims[k].offset + i[k] * dims[k].stride
  <2>1. \A k \in 1 .. N : g[k - 1] \in Int /\ g[k] = h[<<g[k - 1], k>>]
    <3> HIDE DEF h
    <3> QED
      BY <1>8 DEF Partial
  <2>2. QED
    BY <2>1
<1>10. QED
  <2> HIDE DEF h, iter, sq
  <2> QED
    BY <1>2, <1>3, <1>8, <1>9 DEF Partial, AddsUp

\* So many steps in each of N dimensions.
HasStep(v, i, N) ==
  /\ DOMAIN v.dims = 1 .. N
  /\ \A k \in 1 .. N : v.dims[k].stride \in Int /\ i[k] \in Int

\* What the steps from begin() add up to, dimension by dimension.
StepsUp(g, v, i, N) ==
  /\ g \in [0 .. N -> Int]
  /\ g[0] = 0 /\ AddressByIterators(v, i) = v.base + g[N]
  /\ \A k \in 1 .. N : g[k] = g[k - 1] + i[k] * v.dims[k].stride

LEMMA BeginSteps ==
  ASSUME NEW N \in Nat, NEW v, NEW i, HasStep(v, i, N)
  PROVE  \E g : StepsUp(g, v, i, N)
<1> USE DEF HasStep
<1> DEFINE h == [p \in Int \X (1 .. N) |-> p[1] + i[p[2]] * v.dims[p[2]].stride]
           sq == [j \in DOMAIN v.dims |-> j]
           Body(it, s) == IF s = {} THEN 0 ELSE it[s \ {Max(s)}] + i[sq[Max(s)]] * v.dims[sq[Max(s)]].stride
           iter == CHOOSE it : it = [s \in SUBSET DOMAIN sq |-> Body(it, s)]
<1>1. IsStep(h, Int, N) /\ 0 \in Int
  BY DEF IsStep
<1>2. DOMAIN sq = 1 .. N
  OBVIOUS
<1>3. AddressByIterators(v, i) = v.base + iter[DOMAIN sq]
  BY DEF AddressByIterators, FoldLeftDomain, FoldLeft, MapThenFoldSet
<1>4. \E it : it = [s \in SUBSET DOMAIN sq |-> Body(it, s)]
  <2>1. PICK F : Unfolds(F, h, 0, Int, N)
    <3> HIDE DEF h
    <3> QED
      BY ONLY <1>1, N \in Nat, FoldExists
  <2>2. ASSUME NEW s \in SUBSET (1 .. N) PROVE F[s] = Body(F, s)
    <3>1. CASE s = {}
      BY <2>1, <3>1 DEF Unfolds
    <3>2. CASE s # {}
      <4>1. Max(s) \in 1 .. N /\ F[s \ {Max(s)}] \in Int
        BY <2>1, <3>2, MaxIn DEF Unfolds
      <4>2. F[s] = h[<<F[s \ {Max(s)}], Max(s)>>]
        BY <2>1, <3>2 DEF Unfolds
      <4>3. QED
        BY <3>2, <4>1, <4>2
    <3>3. QED
      BY <3>1, <3>2
  <2>3. F = [s \in SUBSET DOMAIN sq |-> Body(F, s)]
    <3> HIDE DEF Body
    <3> QED
      BY <1>2, <2>1, <2>2 DEF Unfolds
  <2>4. QED
    BY <2>3
<1>5. iter = [s \in SUBSET DOMAIN sq |-> Body(iter, s)]
  BY <1>4
<1>6. iter[{}] = 0
  BY <1>2, <1>5
<1>7. Continues(iter, h, Int, N)
  <2> SUFFICES ASSUME NEW k \in 1 .. N, iter[1 .. k - 1] \in Int
               PROVE  iter[1 .. k] = h[<<iter[1 .. k - 1], k>>]
    <3> HIDE DEF iter, h
    <3> QED
      BY DEF Continues
  <2>1. iter[1 .. k] = Body(iter, 1 .. k)
    <3> HIDE DEF iter, Body
    <3> QED
      BY <1>2, <1>5, UpTo
  <2>2. iter[1 .. k] = iter[1 .. k - 1] + i[k] * v.dims[k].stride
    <3> HIDE DEF iter
    <3>1. Max(1 .. k) = k /\ (1 .. k) \ {k} = 1 .. k - 1 /\ 1 .. k # {} /\ sq[k] = k
      <4>1. sq[k] = k
        BY <1>2
      <4> HIDE DEF sq
      <4>2. QED
        BY ONLY <4>1, N \in Nat, k \in 1 .. N, UpTo
    <3>2. iter[1 .. k] = iter[(1 .. k) \ {Max(1 .. k)}] + i[sq[Max(1 .. k)]] * v.dims[sq[Max(1 .. k)]].stride
      <4> HIDE DEF sq
      <4> QED
        BY ONLY <2>1, <3>1
    <3> HIDE DEF sq
    <3>3. QED
      BY ONLY <3>1, <3>2
  <2>3. QED
    <3> HIDE DEF iter
    <3> QED
      BY <2>2
<1>8. PICK g : Partial(g, h, 0, Int, N) /\ g[N] = iter[1 .. N]
  <2> HIDE DEF h, iter
  <2>1. iter[{}] \in Int
    BY ONLY <1>1, <1>6
  <2>2. \E g : Partial(g, h, iter[{}], Int, N) /\ g[N] = iter[1 .. N]
    BY <1>1, <1>7, <2>1, FoldSteps
  <2>3. QED
    BY ONLY <1>6, <2>2
<1>9. \A k \in 1 .. N : g[k] = g[k - 1] + i[k] * v.dims[k].stride
  <2>1. \A k \in 1 .. N : g[k - 1] \in Int /\ g[k] = h[<<g[k - 1], k>>]
    <3> HIDE DEF h
    <3> QED
      BY <1>8 DEF Partial
  <2>2. QED
    BY <2>1
<1>10. QED
  <2> HIDE DEF h, iter, sq
  <2>1. AddressByIterators(v, i) = v.base + g[N]
    BY ONLY <1>2, <1>3, <1>8
  <2>2. g \in [0 .. N -> Int] /\ g[0] = 0
    BY ONLY <1>8 DEF Partial
  <2>3. StepsUp(g, v, i, N)
    BY ONLY <1>9, <2>1, <2>2 DEF StepsUp
  <2>4. QED
    BY ONLY <2>3

--------------------------------------------------------------------------------
(* Views.  The subarrays that v[i][j]... goes through, and where it leads.      *)

Descends(g, v, i, N) ==
  /\ g[0] = v /\ g[N] = Within(v, i)
  /\ \A k \in 1 .. N : g[k] = Subscript(g[k - 1], i[k])

LEMMA SubscriptSteps ==
  ASSUME NEW N \in Nat, NEW v, NEW i, DOMAIN i = 1 .. N
  PROVE  \E g : Descends(g, v, i, N)
<1> DEFINE Body(it, s) == IF s = {} THEN v ELSE Subscript(it[s \ {Max(s)}], i[Max(s)])
           iter == CHOOSE it : it = [s \in SUBSET DOMAIN i |-> Body(it, s)]
           T == {m \in Nat : \E F : F = [s \in SUBSET (1 .. m) |-> Body(F, s)]}
<1>1. DOMAIN i = 1 .. N
  OBVIOUS
<1>2. Within(v, i) = iter[DOMAIN i]
  BY DEF Within, FoldLeft, MapThenFoldSet
<1>3. 0 \in T
  <2> DEFINE F == [s \in SUBSET (1 .. 0) |-> v]
  <2>1. \A s \in SUBSET (1 .. 0) : s = {}
    OBVIOUS
  <2>2. \A s \in SUBSET (1 .. 0) : F[s] = Body(F, s)
    BY <2>1
  <2>3. F = [s \in SUBSET (1 .. 0) |-> Body(F, s)]
    <3> HIDE DEF Body
    <3> QED
      BY <2>2
  <2>4. QED
    <3> HIDE DEF F, Body
    <3> QED
      BY <2>3
<1>4. ASSUME NEW m \in Nat, m \in T PROVE m + 1 \in T
  <2>1. PICK F : F = [s \in SUBSET (1 .. m) |-> Body(F, s)]
    <3> HIDE DEF Body
    <3> QED
      BY <1>4
  <2> DEFINE G == [s \in SUBSET (1 .. m + 1) |->
                     IF m + 1 \in s THEN Subscript(F[s \ {m + 1}], i[m + 1]) ELSE F[s]]
  <2>2. ASSUME NEW s \in SUBSET (1 .. m + 1) PROVE G[s] = Body(G, s)
    <3>1. CASE m + 1 \in s
      <4>1. Max(s) = m + 1 /\ s # {}
        <5>1. s \subseteq Int /\ \A y \in s : y <= m + 1
          OBVIOUS
        <5>2. QED
          BY ONLY <3>1, <5>1, MaxOf
      <4>2. m + 1 \notin s \ {m + 1} /\ s \ {m + 1} \in SUBSET (1 .. m + 1)
        OBVIOUS
      <4>3. G[s \ {m + 1}] = F[s \ {m + 1}]
        BY <4>2
      <4>4. G[s] = Subscript(F[s \ {m + 1}], i[m + 1])
        BY <3>1
      <4>5. QED
        <5> HIDE DEF G
        <5> QED
          BY ONLY <4>1, <4>3, <4>4
    <3>2. CASE m + 1 \notin s
      <4>1. s \in SUBSET (1 .. m)
        BY <3>2
      <4>2. F[s] = Body(F, s)
        <5> HIDE DEF Body
        <5> QED
          BY <2>1, <4>1
      <4>3. G[s] = F[s] /\ G[s \ {Max(s)}] = F[s \ {Max(s)}]
        BY <3>2
      <4>4. QED
        <5> HIDE DEF G
        <5> QED
          BY ONLY <4>2, <4>3
    <3>3. QED
      BY <3>1, <3>2
  <2>3. G = [s \in SUBSET (1 .. m + 1) |-> Body(G, s)]
    <3> HIDE DEF Body
    <3> QED
      BY <2>2
  <2>4. QED
    <3> HIDE DEF G, Body
    <3> QED
      BY <2>3
<1>5. N \in T
  <2> HIDE DEF T
  <2>1. QED
    BY <1>3, <1>4, Induct
<1>6. iter = [s \in SUBSET (1 .. N) |-> Body(iter, s)]
  <2>1. \E it : it = [s \in SUBSET DOMAIN i |-> Body(it, s)]
    <3> HIDE DEF Body
    <3> QED
      BY <1>1, <1>5
  <2>2. iter = [s \in SUBSET DOMAIN i |-> Body(iter, s)]
    <3> HIDE DEF Body
    <3> QED
      BY ONLY <2>1
  <2>3. QED
    <3> HIDE DEF iter, Body
    <3> QED
      BY ONLY <1>1, <2>2
<1>7. iter[{}] = v
  <2>1. iter[{}] = Body(iter, {})
    <3> HIDE DEF iter, Body
    <3> QED
      BY <1>6
  <2>2. QED
    <3> HIDE DEF iter
    <3> QED
      BY <2>1
<1>8. ASSUME NEW k \in 1 .. N PROVE iter[1 .. k] = Subscript(iter[1 .. k - 1], i[k])
  <2>1. iter[1 .. k] = Body(iter, 1 .. k)
    <3> HIDE DEF iter, Body
    <3> QED
      BY <1>6, UpTo
  <2>2. Max(1 .. k) = k /\ (1 .. k) \ {k} = 1 .. k - 1 /\ 1 .. k # {}
    BY ONLY N \in Nat, k \in 1 .. N, UpTo
  <2>3. QED
    <3> HIDE DEF iter
    <3> QED
      BY ONLY <2>1, <2>2
<1> DEFINE g == [k \in 0 .. N |-> iter[1 .. k]]
<1>9. g[0] = v /\ g[N] = Within(v, i)
  <2>1. 1 .. 0 = {} /\ 0 \in 0 .. N /\ N \in 0 .. N
    OBVIOUS
  <2> HIDE DEF iter
  <2>2. QED
    BY <1>1, <1>2, <1>7, <2>1
<1>10. ASSUME NEW k \in 1 .. N PROVE g[k] = Subscript(g[k - 1], i[k])
  <2>1. k - 1 \in 0 .. N /\ k \in 0 .. N
    OBVIOUS
  <2>2. g[k - 1] = iter[1 .. k - 1] /\ g[k] = iter[1 .. k]
    <3> HIDE DEF iter
    <3> QED
      BY <2>1
  <2> HIDE DEF iter, g
  <2>3. QED
    BY ONLY <1>8, <2>2, k \in 1 .. N
<1>11. QED
  <2> HIDE DEF g
  <2> QED
    BY <1>9, <1>10 DEF Descends

LEMMA NoneIn ==
  ASSUME NEW D, NEW e \in Seq(D), Len(e) = 0
  PROVE  e = <<>>
OBVIOUS

\* An index goes one dimension down.
LEMMA WithinOne ==
  ASSUME NEW v, NEW j
  PROVE  Within(v, <<j>>) = Subscript(v, j)
<1> PICK N \in Nat : N = 1
  OBVIOUS
<1> PICK i : i = <<j>>
  OBVIOUS
<1>1. DOMAIN i = 1 .. N
  OBVIOUS
<1>2. PICK g : Descends(g, v, i, N)
  BY ONLY <1>1, N \in Nat, SubscriptSteps
<1>3. 1 \in 1 .. N /\ 1 - 1 = 0 /\ i[1] = j
  OBVIOUS
<1>4. g[1] = Subscript(g[1 - 1], i[1]) /\ g[0] = v /\ g[1] = Within(v, i)
  BY ONLY <1>2, <1>3, N = 1 DEF Descends
<1>5. QED
  BY ONLY <1>3, <1>4, i = <<j>>

\* A view of at least N dimensions, and an index in N.
CanDescend(v, i, N) ==
  /\ v.base \in Int /\ v.dims \in Seq(Dimensions) /\ N <= Len(v.dims)
  /\ \A k \in 1 .. N : i[k] \in Int

\* Step by step, the base moves and the leading dimension goes.
Moves_(h, v, i, N) ==
  /\ h \in [0 .. N -> Int]
  /\ h[0] = v.base /\ h[N] = Within(v, i).base
  /\ \A k \in 1 .. N : h[k] = h[k - 1] + (i[k] * v.dims[k].stride - v.dims[k].offset)

LEMMA WithinSteps ==
  ASSUME NEW N \in Nat, NEW v, NEW i, DOMAIN i = 1 .. N, CanDescend(v, i, N)
  PROVE  /\ \E h : Moves_(h, v, i, N)
         /\ N > 0 => Within(v, i) = View(Within(v, i).dims, Within(v, i).base)
         /\ Within(v, i).dims \in Seq(Dimensions) /\ Len(Within(v, i).dims) = Len(v.dims) - N
<1>1. PICK g : Descends(g, v, i, N)
  BY ONLY N \in Nat, DOMAIN i = 1 .. N, SubscriptSteps
<1> PICK L \in Nat, dims \in Seq(Dimensions) : dims = v.dims /\ L = Len(dims) /\ N <= L
  BY DEF CanDescend
<1>2. g[0] = v /\ g[N] = Within(v, i) /\ \A k \in 1 .. N : g[k] = Subscript(g[k - 1], i[k])
  BY ONLY <1>1 DEF Descends
<1> DEFINE Good(m) ==
             /\ g[m].base \in Int /\ g[m].dims \in Seq(Dimensions) /\ Len(g[m].dims) = L - m
             /\ \A k \in 1 .. L - m : g[m].dims[k] = dims[m + k]
           T == {m \in Nat : m <= N => Good(m)}
<1>3. 0 \in T
  BY <1>2 DEF CanDescend
<1>4. ASSUME NEW m \in Nat, Good(m), m + 1 <= N
      PROVE  /\ Good(m + 1)
             /\ g[m + 1] = View(g[m + 1].dims, g[m + 1].base)
             /\ g[m + 1].base = g[m].base + (i[m + 1] * dims[m + 1].stride - dims[m + 1].offset)
  <2>1. m + 1 \in 1 .. N /\ m + 1 - 1 = m /\ 1 \in 1 .. L - m
    BY <1>4
  <2>2. g[m + 1] = Subscript(g[m], i[m + 1])
    BY ONLY <1>2, <2>1
  <2> PICK ds \in Seq(Dimensions) : ds = g[m].dims
    BY <1>4
  <2>3. Len(ds) = L - m /\ ds # <<>> /\ ds[1] = dims[m + 1] /\ \A k \in 1 .. L - m : ds[k] = dims[m + k]
    <3>1. Len(ds) = L - m /\ \A k \in 1 .. L - m : ds[k] = dims[m + k]
      BY ONLY <1>4, ds = g[m].dims
    <3>2. ds # <<>>
      BY ONLY <2>1, <3>1, ds \in Seq(Dimensions)
    <3>3. ds[1] = dims[m + 1]
      BY ONLY <2>1, <3>1
    <3>4. QED
      BY ONLY <3>1, <3>2, <3>3
  <2>4. Tail(ds) \in Seq(Dimensions) /\ Len(Tail(ds)) = L - (m + 1)
    BY <2>3
  <2>5. \A k \in 1 .. L - (m + 1) : Tail(ds)[k] = dims[m + 1 + k]
    <3>1. ASSUME NEW k \in 1 .. L - (m + 1) PROVE Tail(ds)[k] = dims[m + 1 + k]
      <4>1. Tail(ds)[k] = ds[k + 1]
        BY <2>3, SMTT(30)
      <4>2. k + 1 \in 1 .. L - m /\ m + (k + 1) = m + 1 + k
        OBVIOUS
      <4>3. QED
        BY ONLY <2>3, <4>1, <4>2
    <3>2. QED
      BY <3>1
  <2>6. g[m + 1] = View(Tail(ds), g[m].base + (i[m + 1] * dims[m + 1].stride - dims[m + 1].offset))
    BY ONLY <2>2, <2>3, ds = g[m].dims DEF Subscript
  <2>7. dims[m + 1].stride \in Int /\ dims[m + 1].offset \in Int /\ i[m + 1] \in Int
    <3>1. m + 1 \in 1 .. L /\ dims[m + 1] \in Dimensions
      BY <2>1
    <3>2. QED
      BY <2>1, <3>1 DEF Dimensions, CanDescend
  <2>8. g[m].base + (i[m + 1] * dims[m + 1].stride - dims[m + 1].offset) \in Int
    <3>1. g[m].base \in Int
      BY ONLY <1>4
    <3>2. QED
      BY ONLY <2>7, <3>1
  <2>9. QED
    BY ONLY <2>4, <2>5, <2>6, <2>8 DEF View
<1>5. N \in T /\ \A m \in Nat : m \in T
  <2>1. ASSUME NEW m \in Nat, m \in T PROVE m + 1 \in T
    <3>1. m + 1 <= N => Good(m)
      BY <2>1
    <3> HIDE DEF Good
    <3>2. m + 1 <= N => Good(m + 1)
      BY <1>4, <3>1
    <3>3. QED
      BY <3>2
  <2> HIDE DEF T
  <2>2. QED
    BY <1>3, <2>1, Induct
<1> DEFINE h == [k \in 0 .. N |-> g[k].base]
<1>6. Moves_(h, v, i, N)
  <2>1. \A k \in 0 .. N : g[k].base \in Int
    BY <1>5
  <2>2. h[0] = v.base /\ h[N] = Within(v, i).base
    BY <1>2
  <2>3. ASSUME NEW k \in 1 .. N
        PROVE  h[k] = h[k - 1] + (i[k] * v.dims[k].stride - v.dims[k].offset)
    <3> PICK m \in Nat : m = k - 1
      OBVIOUS
    <3>1. Good(m) /\ m + 1 <= N /\ m + 1 = k
      <4>1. m <= N /\ m + 1 <= N /\ m + 1 = k
        BY ONLY m \in Nat, N \in Nat, k \in 1 .. N, m = k - 1
      <4> HIDE DEF Good
      <4>2. QED
        BY ONLY <1>5, <4>1, m \in Nat
    <3>2. g[m + 1].base = g[m].base + (i[m + 1] * dims[m + 1].stride - dims[m + 1].offset)
      <4> HIDE DEF Good
      <4> QED
        BY <1>4, <3>1
    <3>3. h[k] = g[k].base /\ h[k - 1] = g[k - 1].base
      OBVIOUS
    <3>4. QED
      BY ONLY <3>1, <3>2, <3>3, m = k - 1, dims = v.dims
  <2>4. h \in [0 .. N -> Int]
    BY <2>1
  <2> HIDE DEF h
  <2>5. QED
    BY ONLY <2>2, <2>3, <2>4 DEF Moves_
<1>7. N > 0 => Within(v, i) = View(Within(v, i).dims, Within(v, i).base)
  <2> SUFFICES ASSUME N > 0 PROVE Within(v, i) = View(Within(v, i).dims, Within(v, i).base)
    OBVIOUS
  <2> PICK m \in Nat : m = N - 1
    OBVIOUS
  <2>1. m \in T /\ m + 1 <= N /\ m + 1 = N
    BY <1>5
  <2>2. Good(m)
    <3> HIDE DEF Good
    <3> QED
      BY ONLY <2>1
  <2>3. g[m + 1] = View(g[m + 1].dims, g[m + 1].base)
    <3> HIDE DEF Good
    <3> QED
      BY <1>4, <2>1, <2>2
  <2>4. QED
    BY ONLY <1>2, <2>1, <2>3
<1>8. Good(N)
  BY <1>5
<1>9. QED
  <2> HIDE DEF h
  <2>1. Within(v, i).dims \in Seq(Dimensions) /\ Len(Within(v, i).dims) = Len(v.dims) - N
    BY ONLY <1>2, <1>8, dims = v.dims, L = Len(dims)
  <2>2. QED
    BY ONLY <1>6, <1>7, <2>1

\* The rest of an index goes on from where the first of it leads.
LEMMA WithinHead ==
  ASSUME NEW N \in Nat, NEW v, NEW i, DOMAIN i = 1 .. N + 1,
         NEW j, DOMAIN j = 1 .. N, \A k \in 1 .. N : j[k] = i[k + 1]
  PROVE  Within(Subscript(v, i[1]), j) = Within(v, i)
<1> PICK M \in Nat : M = N + 1
  OBVIOUS
<1> PICK u : u = Subscript(v, i[1])
  OBVIOUS
<1>1. PICK g : Descends(g, v, i, M)
  BY ONLY M \in Nat, M = N + 1, DOMAIN i = 1 .. N + 1, SubscriptSteps
<1>2. PICK h : Descends(h, u, j, N)
  BY ONLY N \in Nat, DOMAIN j = 1 .. N, SubscriptSteps
<1>3. g[0] = v /\ g[M] = Within(v, i) /\ \A k \in 1 .. M : g[k] = Subscript(g[k - 1], i[k])
  BY ONLY <1>1 DEF Descends
<1>4. h[0] = u /\ h[N] = Within(u, j) /\ \A k \in 1 .. N : h[k] = Subscript(h[k - 1], j[k])
  BY ONLY <1>2 DEF Descends
<1> DEFINE T == {m \in Nat : m <= N => h[m] = g[m + 1]}
<1>5. 0 \in T
  <2>1. 1 \in 1 .. M /\ 1 - 1 = 0 /\ 0 + 1 = 1
    OBVIOUS
  <2>2. g[1] = Subscript(g[1 - 1], i[1])
    BY ONLY <1>3, <2>1
  <2>3. h[0] = g[0 + 1]
    BY ONLY <1>3, <1>4, <2>1, <2>2, u = Subscript(v, i[1])
  <2>4. QED
    BY <2>3
<1>6. ASSUME NEW m \in Nat, m \in T PROVE m + 1 \in T
  <2> SUFFICES ASSUME m + 1 <= N PROVE h[m + 1] = g[m + 1 + 1]
    OBVIOUS
  <2> PICK k \in 1 .. N : k = m + 1 /\ k - 1 = m
    OBVIOUS
  <2>1. h[k - 1] = g[k]
    BY <1>6
  <2>2. h[k] = Subscript(h[k - 1], j[k]) /\ j[k] = i[k + 1]
    BY <1>4
  <2>3. k + 1 \in 1 .. M /\ (k + 1) - 1 = k
    OBVIOUS
  <2>4. g[k + 1] = Subscript(g[(k + 1) - 1], i[k + 1])
    BY ONLY <1>3, <2>3
  <2>5. QED
    BY ONLY <2>1, <2>2, <2>3, <2>4, k = m + 1
<1>7. N \in T
  <2> HIDE DEF T
  <2> QED
    BY <1>5, <1>6, Induct
<1>8. h[N] = g[M]
  BY <1>7
<1>9. QED
  BY ONLY <1>3, <1>4, <1>8, u = Subscript(v, i[1])

\* The indices of the first dimensions.
Grows(g, xs, N) ==
  /\ g[0] = {<<>>} /\ g[N] = Indices(xs)
  /\ \A k \in 1 .. N : g[k] = WithNext(g[k - 1], xs[k])

LEMMA IndicesSteps ==
  ASSUME NEW N \in Nat, NEW xs, DOMAIN xs = 1 .. N
  PROVE  \E g : Grows(g, xs, N)
<1> DEFINE Body(it, s) == IF s = {} THEN {<<>>} ELSE WithNext(it[s \ {Max(s)}], xs[Max(s)])
           iter == CHOOSE it : it = [s \in SUBSET DOMAIN xs |-> Body(it, s)]
           T == {m \in Nat : \E F : F = [s \in SUBSET (1 .. m) |-> Body(F, s)]}
<1>1. DOMAIN xs = 1 .. N
  OBVIOUS
<1>2. Indices(xs) = iter[DOMAIN xs]
  BY DEF Indices, FoldLeft, MapThenFoldSet
<1>3. 0 \in T
  <2> DEFINE F == [s \in SUBSET (1 .. 0) |-> {<<>>}]
  <2>1. \A s \in SUBSET (1 .. 0) : s = {}
    OBVIOUS
  <2>2. \A s \in SUBSET (1 .. 0) : F[s] = Body(F, s)
    BY <2>1
  <2>3. F = [s \in SUBSET (1 .. 0) |-> Body(F, s)]
    <3> HIDE DEF Body
    <3> QED
      BY <2>2
  <2>4. QED
    <3> HIDE DEF F, Body
    <3> QED
      BY <2>3
<1>4. ASSUME NEW m \in Nat, m \in T PROVE m + 1 \in T
  <2>1. PICK F : F = [s \in SUBSET (1 .. m) |-> Body(F, s)]
    <3> HIDE DEF Body
    <3> QED
      BY <1>4
  <2> DEFINE G == [s \in SUBSET (1 .. m + 1) |->
                     IF m + 1 \in s THEN WithNext(F[s \ {m + 1}], xs[m + 1]) ELSE F[s]]
  <2>2. ASSUME NEW s \in SUBSET (1 .. m + 1) PROVE G[s] = Body(G, s)
    <3>1. CASE m + 1 \in s
      <4>1. Max(s) = m + 1 /\ s # {}
        <5>1. s \subseteq Int /\ \A y \in s : y <= m + 1
          OBVIOUS
        <5>2. QED
          BY ONLY <3>1, <5>1, MaxOf
      <4>2. m + 1 \notin s \ {m + 1} /\ s \ {m + 1} \in SUBSET (1 .. m + 1)
        OBVIOUS
      <4>3. G[s \ {m + 1}] = F[s \ {m + 1}]
        BY <4>2
      <4>4. G[s] = WithNext(F[s \ {m + 1}], xs[m + 1])
        BY <3>1
      <4>5. QED
        <5> HIDE DEF G
        <5> QED
          BY ONLY <4>1, <4>3, <4>4
    <3>2. CASE m + 1 \notin s
      <4>1. s \in SUBSET (1 .. m)
        BY <3>2
      <4>2. F[s] = Body(F, s)
        <5> HIDE DEF Body
        <5> QED
          BY <2>1, <4>1
      <4>3. G[s] = F[s] /\ G[s \ {Max(s)}] = F[s \ {Max(s)}]
        BY <3>2
      <4>4. QED
        <5> HIDE DEF G
        <5> QED
          BY ONLY <4>2, <4>3
    <3>3. QED
      BY <3>1, <3>2
  <2>3. G = [s \in SUBSET (1 .. m + 1) |-> Body(G, s)]
    <3> HIDE DEF Body
    <3> QED
      BY <2>2
  <2>4. QED
    <3> HIDE DEF G, Body
    <3> QED
      BY <2>3
<1>5. N \in T
  <2> HIDE DEF T
  <2>1. QED
    BY <1>3, <1>4, Induct
<1>6. iter = [s \in SUBSET (1 .. N) |-> Body(iter, s)]
  <2>1. \E it : it = [s \in SUBSET DOMAIN xs |-> Body(it, s)]
    <3> HIDE DEF Body
    <3> QED
      BY <1>1, <1>5
  <2>2. iter = [s \in SUBSET DOMAIN xs |-> Body(iter, s)]
    <3> HIDE DEF Body
    <3> QED
      BY ONLY <2>1
  <2>3. QED
    <3> HIDE DEF iter, Body
    <3> QED
      BY ONLY <1>1, <2>2
<1>7. iter[{}] = {<<>>}
  <2>1. iter[{}] = Body(iter, {})
    <3> HIDE DEF iter, Body
    <3> QED
      BY <1>6
  <2>2. QED
    <3> HIDE DEF iter
    <3> QED
      BY <2>1
<1>8. ASSUME NEW k \in 1 .. N PROVE iter[1 .. k] = WithNext(iter[1 .. k - 1], xs[k])
  <2>1. iter[1 .. k] = Body(iter, 1 .. k)
    <3> HIDE DEF iter, Body
    <3> QED
      BY <1>6, UpTo
  <2>2. Max(1 .. k) = k /\ (1 .. k) \ {k} = 1 .. k - 1 /\ 1 .. k # {}
    BY ONLY N \in Nat, k \in 1 .. N, UpTo
  <2>3. QED
    <3> HIDE DEF iter
    <3> QED
      BY ONLY <2>1, <2>2
<1> DEFINE g == [k \in 0 .. N |-> iter[1 .. k]]
<1>9. g[0] = {<<>>} /\ g[N] = Indices(xs)
  <2>1. 1 .. 0 = {} /\ 0 \in 0 .. N /\ N \in 0 .. N
    OBVIOUS
  <2> HIDE DEF iter
  <2>2. QED
    BY <1>1, <1>2, <1>7, <2>1
<1>10. ASSUME NEW k \in 1 .. N PROVE g[k] = WithNext(g[k - 1], xs[k])
  <2>1. k - 1 \in 0 .. N /\ k \in 0 .. N
    OBVIOUS
  <2>2. g[k - 1] = iter[1 .. k - 1] /\ g[k] = iter[1 .. k]
    <3> HIDE DEF iter
    <3> QED
      BY <2>1
  <2> HIDE DEF iter, g
  <2>3. QED
    BY ONLY <1>8, <2>2, k \in 1 .. N
<1>11. QED
  <2> HIDE DEF g
  <2> QED
    BY <1>9, <1>10 DEF Grows

\* An index of extensions has a number of each.
LEMMA IndicesIn ==
  ASSUME NEW N \in Nat, NEW xs, DOMAIN xs = 1 .. N, NEW i \in Indices(xs),
         \A k \in 1 .. N : xs[k][1] \in Int /\ xs[k][2] \in Int
  PROVE  /\ i \in Seq(Int) /\ DOMAIN i = 1 .. N /\ Len(i) = N
         /\ \A k \in 1 .. N : i[k] \in xs[k][1] .. xs[k][2] - 1
<1>1. PICK g : Grows(g, xs, N)
  BY ONLY N \in Nat, DOMAIN xs = 1 .. N, IndicesSteps
<1>2. g[0] = {<<>>} /\ g[N] = Indices(xs)
  BY ONLY <1>1 DEF Grows
<1>3. \A k \in 1 .. N : g[k] = WithNext(g[k - 1], xs[k])
  BY ONLY <1>1 DEF Grows
<1> DEFINE Fits(a, m) == /\ a \in Seq(Int) /\ Len(a) = m
                         /\ \A k \in 1 .. m : a[k] \in xs[k][1] .. xs[k][2] - 1
           T == {m \in Nat : m <= N => \A a \in g[m] : Fits(a, m)}
<1>4. 0 \in T
  <2>1. Fits(<<>>, 0)
    OBVIOUS
  <2> HIDE DEF Fits
  <2>2. QED
    BY <1>2, <2>1
<1>5. ASSUME NEW m \in Nat, m \in T PROVE m + 1 \in T
  <2> SUFFICES ASSUME m + 1 <= N, NEW a \in g[m + 1] PROVE Fits(a, m + 1)
    OBVIOUS
  <2> PICK k \in 1 .. N : k = m + 1 /\ k - 1 = m
    OBVIOUS
  <2>1. PICK b \in g[m], j \in xs[k][1] .. xs[k][2] - 1 : a = Append(b, j)
    <3>1. a \in g[k] /\ g[k - 1] = g[m]
      OBVIOUS
    <3>2. QED
      BY ONLY <1>3, <3>1, k \in 1 .. N DEF WithNext
  <2>2. Fits(b, m)
    <3>1. m <= N
      OBVIOUS
    <3> HIDE DEF Fits
    <3>2. QED
      BY <1>5, <3>1
  <2>3. j \in Int /\ b \in Seq(Int) /\ Len(b) = m /\ \A l \in 1 .. m : b[l] \in xs[l][1] .. xs[l][2] - 1
    BY <2>2
  <2>4. a \in Seq(Int) /\ Len(a) = k /\ a[k] = j /\ \A l \in 1 .. m : a[l] = b[l]
    BY ONLY <2>1, <2>3, m \in Nat, k = m + 1
  <2>5. ASSUME NEW l \in 1 .. k PROVE a[l] \in xs[l][1] .. xs[l][2] - 1
    <3>1. l = k \/ l \in 1 .. m
      OBVIOUS
    <3>2. QED
      BY ONLY <2>1, <2>3, <2>4, <3>1
  <2>6. QED
    BY ONLY <2>4, <2>5, k = m + 1
<1>6. N \in T
  <2> HIDE DEF T
  <2> QED
    BY <1>4, <1>5, Induct
<1>7. Fits(i, N)
  <2> HIDE DEF Fits
  <2> QED
    BY <1>2, <1>6
<1>8. QED
  BY <1>7

--------------------------------------------------------------------------------
(* The order of the dimensions.                                               *)

\* The layouts between the first and the last, one transposition each.
Passes(g, dims, ks, N) ==
  /\ g[0] = dims /\ g[N] = Transposes(dims, ks)
  /\ \A k \in 1 .. N : g[k] = Transpose(g[k - 1], ks[k])

LEMMA TransposesSteps ==
  ASSUME NEW N \in Nat, NEW dims, NEW ks, DOMAIN ks = 1 .. N
  PROVE  \E g : Passes(g, dims, ks, N)
<1> DEFINE Body(it, s) == IF s = {} THEN dims ELSE Transpose(it[s \ {Max(s)}], ks[Max(s)])
           iter == CHOOSE it : it = [s \in SUBSET DOMAIN ks |-> Body(it, s)]
           T == {m \in Nat : \E F : F = [s \in SUBSET (1 .. m) |-> Body(F, s)]}
<1>1. DOMAIN ks = 1 .. N
  OBVIOUS
<1>2. Transposes(dims, ks) = iter[DOMAIN ks]
  BY DEF Transposes, FoldLeft, MapThenFoldSet
<1>3. 0 \in T
  <2> DEFINE F == [s \in SUBSET (1 .. 0) |-> dims]
  <2>1. \A s \in SUBSET (1 .. 0) : s = {}
    OBVIOUS
  <2>2. \A s \in SUBSET (1 .. 0) : F[s] = Body(F, s)
    BY <2>1
  <2>3. F = [s \in SUBSET (1 .. 0) |-> Body(F, s)]
    <3> HIDE DEF Body
    <3> QED
      BY <2>2
  <2>4. QED
    <3> HIDE DEF F, Body
    <3> QED
      BY <2>3
<1>4. ASSUME NEW m \in Nat, m \in T PROVE m + 1 \in T
  <2>1. PICK F : F = [s \in SUBSET (1 .. m) |-> Body(F, s)]
    <3> HIDE DEF Body
    <3> QED
      BY <1>4
  <2> DEFINE G == [s \in SUBSET (1 .. m + 1) |->
                     IF m + 1 \in s THEN Transpose(F[s \ {m + 1}], ks[m + 1]) ELSE F[s]]
  <2>2. ASSUME NEW s \in SUBSET (1 .. m + 1) PROVE G[s] = Body(G, s)
    <3>1. CASE m + 1 \in s
      <4>1. Max(s) = m + 1 /\ s # {}
        <5>1. s \subseteq Int /\ \A y \in s : y <= m + 1
          OBVIOUS
        <5>2. QED
          BY ONLY <3>1, <5>1, MaxOf
      <4>2. m + 1 \notin s \ {m + 1} /\ s \ {m + 1} \in SUBSET (1 .. m + 1)
        OBVIOUS
      <4>3. G[s \ {m + 1}] = F[s \ {m + 1}]
        BY <4>2
      <4>4. G[s] = Transpose(F[s \ {m + 1}], ks[m + 1])
        BY <3>1
      <4>5. QED
        <5> HIDE DEF G
        <5> QED
          BY ONLY <4>1, <4>3, <4>4
    <3>2. CASE m + 1 \notin s
      <4>1. s \in SUBSET (1 .. m)
        BY <3>2
      <4>2. F[s] = Body(F, s)
        <5> HIDE DEF Body
        <5> QED
          BY <2>1, <4>1
      <4>3. G[s] = F[s] /\ G[s \ {Max(s)}] = F[s \ {Max(s)}]
        BY <3>2
      <4>4. QED
        <5> HIDE DEF G
        <5> QED
          BY ONLY <4>2, <4>3
    <3>3. QED
      BY <3>1, <3>2
  <2>3. G = [s \in SUBSET (1 .. m + 1) |-> Body(G, s)]
    <3> HIDE DEF Body
    <3> QED
      BY <2>2
  <2>4. QED
    <3> HIDE DEF G, Body
    <3> QED
      BY <2>3
<1>5. N \in T
  <2> HIDE DEF T
  <2>1. QED
    BY <1>3, <1>4, Induct
<1>6. iter = [s \in SUBSET (1 .. N) |-> Body(iter, s)]
  <2>1. \E it : it = [s \in SUBSET DOMAIN ks |-> Body(it, s)]
    <3> HIDE DEF Body
    <3> QED
      BY <1>1, <1>5
  <2>2. iter = [s \in SUBSET DOMAIN ks |-> Body(iter, s)]
    <3> HIDE DEF Body
    <3> QED
      BY ONLY <2>1
  <2>3. QED
    <3> HIDE DEF iter, Body
    <3> QED
      BY ONLY <1>1, <2>2
<1>7. iter[{}] = dims
  <2>1. iter[{}] = Body(iter, {})
    <3> HIDE DEF iter, Body
    <3> QED
      BY <1>6
  <2>2. QED
    <3> HIDE DEF iter
    <3> QED
      BY <2>1
<1>8. ASSUME NEW k \in 1 .. N PROVE iter[1 .. k] = Transpose(iter[1 .. k - 1], ks[k])
  <2>1. iter[1 .. k] = Body(iter, 1 .. k)
    <3> HIDE DEF iter, Body
    <3> QED
      BY <1>6, UpTo
  <2>2. Max(1 .. k) = k /\ (1 .. k) \ {k} = 1 .. k - 1 /\ 1 .. k # {}
    BY ONLY N \in Nat, k \in 1 .. N, UpTo
  <2>3. QED
    <3> HIDE DEF iter
    <3> QED
      BY ONLY <2>1, <2>2
<1> DEFINE g == [k \in 0 .. N |-> iter[1 .. k]]
<1>9. g[0] = dims /\ g[N] = Transposes(dims, ks)
  <2>1. 1 .. 0 = {} /\ 0 \in 0 .. N /\ N \in 0 .. N
    OBVIOUS
  <2> HIDE DEF iter
  <2>2. QED
    BY <1>1, <1>2, <1>7, <2>1
<1>10. ASSUME NEW k \in 1 .. N PROVE g[k] = Transpose(g[k - 1], ks[k])
  <2>1. k - 1 \in 0 .. N /\ k \in 0 .. N
    OBVIOUS
  <2>2. g[k - 1] = iter[1 .. k - 1] /\ g[k] = iter[1 .. k]
    <3> HIDE DEF iter
    <3> QED
      BY <2>1
  <2> HIDE DEF iter, g
  <2>3. QED
    BY ONLY <1>8, <2>2, k \in 1 .. N
<1>11. QED
  <2> HIDE DEF g
  <2> QED
    BY <1>9, <1>10 DEF Passes

Unrolls(g, dims, N) ==
  /\ g[0] = dims /\ g[N] = ReverseDimensions(dims)
  /\ \A k \in 1 .. N : g[k] = UnrotateFrom(g[k - 1], k)

LEMMA ReverseSteps ==
  ASSUME NEW N \in Nat, NEW dims, DOMAIN dims = 1 .. N
  PROVE  \E g : Unrolls(g, dims, N)
<1> DEFINE sq == [j \in DOMAIN dims |-> j]
           Body(it, s) == IF s = {} THEN dims ELSE UnrotateFrom(it[s \ {Max(s)}], sq[Max(s)])
           iter == CHOOSE it : it = [s \in SUBSET DOMAIN sq |-> Body(it, s)]
           T == {m \in Nat : \E F : F = [s \in SUBSET (1 .. m) |-> Body(F, s)]}
<1>1. DOMAIN sq = 1 .. N
  OBVIOUS
<1>2. ReverseDimensions(dims) = iter[DOMAIN sq]
  BY DEF ReverseDimensions, FoldLeftDomain, FoldLeft, MapThenFoldSet
<1>3. 0 \in T
  <2> DEFINE F == [s \in SUBSET (1 .. 0) |-> dims]
  <2>1. \A s \in SUBSET (1 .. 0) : s = {}
    OBVIOUS
  <2>2. \A s \in SUBSET (1 .. 0) : F[s] = Body(F, s)
    BY <2>1
  <2>3. F = [s \in SUBSET (1 .. 0) |-> Body(F, s)]
    <3> HIDE DEF Body
    <3> QED
      BY <2>2
  <2>4. QED
    <3> HIDE DEF F, Body
    <3> QED
      BY <2>3
<1>4. ASSUME NEW m \in Nat, m \in T PROVE m + 1 \in T
  <2>1. PICK F : F = [s \in SUBSET (1 .. m) |-> Body(F, s)]
    <3> HIDE DEF Body
    <3> QED
      BY <1>4
  <2> DEFINE G == [s \in SUBSET (1 .. m + 1) |->
                     IF m + 1 \in s THEN UnrotateFrom(F[s \ {m + 1}], sq[m + 1]) ELSE F[s]]
  <2>2. ASSUME NEW s \in SUBSET (1 .. m + 1) PROVE G[s] = Body(G, s)
    <3>1. CASE m + 1 \in s
      <4>1. Max(s) = m + 1 /\ s # {}
        <5>1. s \subseteq Int /\ \A y \in s : y <= m + 1
          OBVIOUS
        <5>2. QED
          BY ONLY <3>1, <5>1, MaxOf
      <4>2. m + 1 \notin s \ {m + 1} /\ s \ {m + 1} \in SUBSET (1 .. m + 1)
        OBVIOUS
      <4>3. G[s \ {m + 1}] = F[s \ {m + 1}]
        BY <4>2
      <4>4. G[s] = UnrotateFrom(F[s \ {m + 1}], sq[m + 1])
        BY <3>1
      <4>5. QED
        <5> HIDE DEF G, sq
        <5> QED
          BY ONLY <4>1, <4>3, <4>4
    <3>2. CASE m + 1 \notin s
      <4>1. s \in SUBSET (1 .. m)
        BY <3>2
      <4>2. F[s] = Body(F, s)
        <5> HIDE DEF Body
        <5> QED
          BY <2>1, <4>1
      <4>3. G[s] = F[s] /\ G[s \ {Max(s)}] = F[s \ {Max(s)}]
        BY <3>2
      <4>4. QED
        <5> HIDE DEF G, sq
        <5> QED
          BY ONLY <4>2, <4>3
    <3>3. QED
      BY <3>1, <3>2
  <2>3. G = [s \in SUBSET (1 .. m + 1) |-> Body(G, s)]
    <3> HIDE DEF Body
    <3> QED
      BY <2>2
  <2>4. QED
    <3> HIDE DEF G, Body
    <3> QED
      BY <2>3
<1>5. N \in T
  <2> HIDE DEF T
  <2>1. QED
    BY <1>3, <1>4, Induct
<1>6. iter = [s \in SUBSET (1 .. N) |-> Body(iter, s)]
  <2>1. \E it : it = [s \in SUBSET DOMAIN sq |-> Body(it, s)]
    <3> HIDE DEF Body, sq
    <3> QED
      BY <1>1, <1>5
  <2>2. iter = [s \in SUBSET DOMAIN sq |-> Body(iter, s)]
    <3> HIDE DEF Body, sq
    <3> QED
      BY ONLY <2>1
  <2>3. QED
    <3> HIDE DEF iter, Body, sq
    <3> QED
      BY ONLY <1>1, <2>2
<1>7. iter[{}] = dims
  <2>1. iter[{}] = Body(iter, {})
    <3> HIDE DEF iter, Body
    <3> QED
      BY <1>6
  <2>2. QED
    <3> HIDE DEF iter
    <3> QED
      BY <2>1
<1>8. ASSUME NEW k \in 1 .. N PROVE iter[1 .. k] = UnrotateFrom(iter[1 .. k - 1], k)
  <2>1. iter[1 .. k] = Body(iter, 1 .. k)
    <3> HIDE DEF iter, Body
    <3> QED
      BY <1>6, UpTo
  <2>2. Max(1 .. k) = k /\ (1 .. k) \ {k} = 1 .. k - 1 /\ 1 .. k # {} /\ sq[k] = k
    <3>1. sq[k] = k
      BY <1>1
    <3> HIDE DEF sq
    <3> QED
      BY ONLY <3>1, N \in Nat, k \in 1 .. N, UpTo
  <2>3. QED
    <3> HIDE DEF iter, sq
    <3> QED
      BY ONLY <2>1, <2>2
<1> DEFINE g == [k \in 0 .. N |-> iter[1 .. k]]
<1>9. g[0] = dims /\ g[N] = ReverseDimensions(dims)
  <2>1. 1 .. 0 = {} /\ 0 \in 0 .. N /\ N \in 0 .. N
    OBVIOUS
  <2> HIDE DEF iter, sq
  <2>2. QED
    BY <1>1, <1>2, <1>7, <2>1
<1>10. ASSUME NEW k \in 1 .. N PROVE g[k] = UnrotateFrom(g[k - 1], k)
  <2>1. k - 1 \in 0 .. N /\ k \in 0 .. N
    OBVIOUS
  <2>2. g[k - 1] = iter[1 .. k - 1] /\ g[k] = iter[1 .. k]
    <3> HIDE DEF iter
    <3> QED
      BY <2>1
  <2> HIDE DEF iter, g
  <2>3. QED
    BY ONLY <1>8, <2>2, k \in 1 .. N
<1>11. QED
  <2> HIDE DEF g
  <2> QED
    BY <1>9, <1>10 DEF Unrolls

\* Dimensions out of D, the k-th of which is not the last one.
CanSwap(dims, L, k, D) == L \in Nat /\ dims \in [1 .. L -> D] /\ k \in Nat /\ 1 <= k /\ k < L

Swapped(y, dims, L, k, D) ==
  /\ y \in [1 .. L -> D] /\ y[k] = dims[k + 1] /\ y[k + 1] = dims[k]
  /\ \A m \in 1 .. L : m # k /\ m # k + 1 => y[m] = dims[m]

LEMMA TransposeSwaps ==
  ASSUME NEW D, NEW L, NEW dims, NEW k, CanSwap(dims, L, k, D)
  PROVE  Swapped(Transpose(dims, k), dims, L, k, D)
<1>1. k \in 1 .. L /\ k + 1 \in 1 .. L /\ k # k + 1 /\ dims \in [1 .. L -> D]
  BY DEF CanSwap
<1>2. dims[k] \in D /\ dims[k + 1] \in D
  BY <1>1
<1>3. QED
  BY ONLY <1>1, <1>2 DEF Transpose, Swapped

CanRoll(dims, L, k, D) == L \in Nat /\ dims \in [1 .. L -> D] /\ Len(dims) = L /\ k \in 1 .. L

\* The dimension k goes to the end, and those after it go one place down.
Rolled(dims, L, k, m) ==
  IF m < k THEN dims[m] ELSE IF m < L THEN dims[m + 1] ELSE dims[k]

IsRolled(y, dims, L, k, D) == y \in [1 .. L -> D] /\ \A m \in 1 .. L : y[m] = Rolled(dims, L, k, m)

LEMMA RotateExact ==
  ASSUME NEW D, NEW L, NEW dims, NEW k, CanRoll(dims, L, k, D)
  PROVE  IsRolled(RotateFrom(dims, k), dims, L, k, D)
<1>0. L \in Nat /\ dims \in [1 .. L -> D] /\ Len(dims) = L /\ k \in 1 .. L
  BY DEF CanRoll
<1> USE <1>0
<1> PICK N \in Nat : N = L - k
  OBVIOUS
<1> PICK ks : ks = [j \in 1 .. N |-> k + j - 1]
  OBVIOUS
<1>1. PICK g : Passes(g, dims, ks, N)
  <2>1. DOMAIN ks = 1 .. N
    OBVIOUS
  <2>2. QED
    BY ONLY <2>1, N \in Nat, TransposesSteps
<1>2. g[0] = dims /\ g[N] = Transposes(dims, ks) /\ \A j \in 1 .. N : g[j] = Transpose(g[j - 1], ks[j])
  BY ONLY <1>1 DEF Passes
<1> DEFINE Done(x, j) == /\ x \in [1 .. L -> D]
                         /\ \A m \in 1 .. L : x[m] = IF m < k THEN dims[m] ELSE IF m < k + j THEN dims[m + 1]
                                                     ELSE IF m = k + j THEN dims[k] ELSE dims[m]
           T == {j \in Nat : j <= N => Done(g[j], j)}
<1>3. 0 \in T
  <2>1. Done(dims, 0)
    OBVIOUS
  <2> HIDE DEF Done
  <2>2. QED
    BY <1>2, <2>1
<1>4. ASSUME NEW j \in Nat, j \in T PROVE j + 1 \in T
  <2> SUFFICES ASSUME j + 1 <= N PROVE Done(g[j + 1], j + 1)
    <3> HIDE DEF Done
    <3> QED
      OBVIOUS
  <2>1. Done(g[j], j)
    <3>1. j <= N
      OBVIOUS
    <3> HIDE DEF Done
    <3>2. QED
      BY <1>4, <3>1
  <2> PICK x \in [1 .. L -> D] : x = g[j]
    BY <2>1
  <2> PICK p \in Nat : p = k + j
    OBVIOUS
  <2>2. 1 <= p /\ p < L
    OBVIOUS
  <2>3. g[j + 1] = Transpose(x, p)
    <3>1. j + 1 \in 1 .. N /\ (j + 1) - 1 = j
      OBVIOUS
    <3>2. ks[j + 1] = p
      BY <3>1
    <3>3. QED
      BY ONLY <1>2, <3>1, <3>2, x = g[j]
  <2> PICK y : y = Transpose(x, p)
    OBVIOUS
  <2>4. /\ y \in [1 .. L -> D] /\ y[p] = x[p + 1] /\ y[p + 1] = x[p]
        /\ \A m \in 1 .. L : m # p /\ m # p + 1 => y[m] = x[m]
    <3>1. CanSwap(x, L, p, D)
      BY <2>2 DEF CanSwap
    <3>2. Swapped(y, x, L, p, D)
      BY ONLY <3>1, y = Transpose(x, p), TransposeSwaps
    <3>3. QED
      BY ONLY <3>2 DEF Swapped
  <2>5. ASSUME NEW m \in 1 .. L
        PROVE  y[m] = IF m < k THEN dims[m] ELSE IF m < k + (j + 1) THEN dims[m + 1]
                      ELSE IF m = k + (j + 1) THEN dims[k] ELSE dims[m]
    <3>1. CASE m = p
      <4>1. x[p + 1] = dims[p + 1]
        <5>1. p + 1 \in 1 .. L /\ ~(p + 1 < k) /\ ~(p + 1 < k + j) /\ p + 1 # k + j
          BY <2>2
        <5>2. QED
          BY <2>1, <5>1
      <4>2. QED
        BY <2>2, <2>4, <3>1, <4>1
    <3>2. CASE m = p + 1
      <4>1. x[p] = dims[k]
        BY <2>1, <2>2
      <4>2. QED
        BY <2>2, <2>4, <3>2, <4>1
    <3>3. CASE m # p /\ m # p + 1
      BY <2>1, <2>4, <3>3
    <3>4. QED
      BY <3>1, <3>2, <3>3
  <2>6. Done(y, j + 1)
    BY <2>4, <2>5
  <2> HIDE DEF Done
  <2>7. QED
    BY <2>3, <2>6
<1>5. N \in T
  <2> HIDE DEF T
  <2> QED
    BY <1>3, <1>4, Induct
<1>6. Done(g[N], N)
  <2> HIDE DEF Done
  <2> QED
    BY <1>5
<1>7. RotateFrom(dims, k) = g[N]
  BY ONLY <1>2, N = L - k, Len(dims) = L, ks = [j \in 1 .. N |-> k + j - 1] DEF RotateFrom
<1>8. ASSUME NEW m \in 1 .. L PROVE g[N][m] = Rolled(dims, L, k, m)
  <2>1. k + N = L
    OBVIOUS
  <2>2. m = k + N <=> m = L
    BY <2>1
  <2>3. QED
    BY ONLY <1>6, <2>1, <2>2, m \in 1 .. L, L \in Nat, N \in Nat, k \in 1 .. L DEF Rolled
<1>9. QED
  BY ONLY <1>6, <1>7, <1>8 DEF IsRolled

\* The last dimension goes to place k, and those from k on go one place up.
Unrolled(dims, L, k, m) ==
  IF m < k THEN dims[m] ELSE IF m = k THEN dims[L] ELSE dims[m - 1]

IsUnrolled(y, dims, L, k, D) == y \in [1 .. L -> D] /\ \A m \in 1 .. L : y[m] = Unrolled(dims, L, k, m)

LEMMA UnrotateExact ==
  ASSUME NEW D, NEW L, NEW dims, NEW k, CanRoll(dims, L, k, D)
  PROVE  IsUnrolled(UnrotateFrom(dims, k), dims, L, k, D)
<1>0. L \in Nat /\ dims \in [1 .. L -> D] /\ Len(dims) = L /\ k \in 1 .. L
  BY DEF CanRoll
<1> USE <1>0
<1> PICK N \in Nat : N = L - k
  OBVIOUS
<1> PICK ks : ks = [j \in 1 .. N |-> L - j]
  OBVIOUS
<1>1. PICK g : Passes(g, dims, ks, N)
  <2>1. DOMAIN ks = 1 .. N
    OBVIOUS
  <2>2. QED
    BY ONLY <2>1, N \in Nat, TransposesSteps
<1>2. g[0] = dims /\ g[N] = Transposes(dims, ks) /\ \A j \in 1 .. N : g[j] = Transpose(g[j - 1], ks[j])
  BY ONLY <1>1 DEF Passes
<1> DEFINE Done(x, j) == /\ x \in [1 .. L -> D]
                         /\ \A m \in 1 .. L : x[m] = IF m < L - j THEN dims[m] ELSE IF m = L - j THEN dims[L]
                                                     ELSE dims[m - 1]
           T == {j \in Nat : j <= N => Done(g[j], j)}
<1>3. 0 \in T
  <2>1. Done(dims, 0)
    OBVIOUS
  <2> HIDE DEF Done
  <2>2. QED
    BY <1>2, <2>1
<1>4. ASSUME NEW j \in Nat, j \in T PROVE j + 1 \in T
  <2> SUFFICES ASSUME j + 1 <= N PROVE Done(g[j + 1], j + 1)
    <3> HIDE DEF Done
    <3> QED
      OBVIOUS
  <2>1. Done(g[j], j)
    <3>1. j <= N
      OBVIOUS
    <3> HIDE DEF Done
    <3>2. QED
      BY <1>4, <3>1
  <2> PICK x \in [1 .. L -> D] : x = g[j]
    BY <2>1
  <2> PICK p \in Nat : p = L - (j + 1) /\ L - j = p + 1
    OBVIOUS
  <2>2. 1 <= p /\ p < L
    OBVIOUS
  <2>3. g[j + 1] = Transpose(x, p)
    <3>1. j + 1 \in 1 .. N /\ (j + 1) - 1 = j
      OBVIOUS
    <3>2. ks[j + 1] = p
      BY <3>1
    <3>3. QED
      BY ONLY <1>2, <3>1, <3>2, x = g[j]
  <2> PICK y : y = Transpose(x, p)
    OBVIOUS
  <2>4. /\ y \in [1 .. L -> D] /\ y[p] = x[p + 1] /\ y[p + 1] = x[p]
        /\ \A m \in 1 .. L : m # p /\ m # p + 1 => y[m] = x[m]
    <3>1. CanSwap(x, L, p, D)
      BY <2>2 DEF CanSwap
    <3>2. Swapped(y, x, L, p, D)
      BY ONLY <3>1, y = Transpose(x, p), TransposeSwaps
    <3>3. QED
      BY ONLY <3>2 DEF Swapped
  <2>5. ASSUME NEW m \in 1 .. L
        PROVE  y[m] = IF m < L - (j + 1) THEN dims[m] ELSE IF m = L - (j + 1) THEN dims[L] ELSE dims[m - 1]
    <3>1. CASE m = p
      <4>1. x[p + 1] = dims[L]
        BY <2>1, <2>2
      <4>2. QED
        BY <2>4, <3>1, <4>1
    <3>2. CASE m = p + 1
      <4>1. x[p] = dims[p]
        <5>1. p \in 1 .. L /\ p < L - j
          BY <2>2
        <5>2. QED
          BY <2>1, <5>1
      <4>2. QED
        BY <2>4, <3>2, <4>1
    <3>3. CASE m # p /\ m # p + 1
      BY <2>1, <2>4, <3>3
    <3>4. QED
      BY <3>1, <3>2, <3>3
  <2>6. Done(y, j + 1)
    BY <2>4, <2>5
  <2> HIDE DEF Done
  <2>7. QED
    BY <2>3, <2>6
<1>5. N \in T
  <2> HIDE DEF T
  <2> QED
    BY <1>3, <1>4, Induct
<1>6. Done(g[N], N)
  <2> HIDE DEF Done
  <2> QED
    BY <1>5
<1>7. UnrotateFrom(dims, k) = g[N]
  BY ONLY <1>2, N = L - k, Len(dims) = L, ks = [j \in 1 .. N |-> L - j] DEF UnrotateFrom
<1>8. ASSUME NEW m \in 1 .. L PROVE g[N][m] = Unrolled(dims, L, k, m)
  <2>1. L - N = k
    OBVIOUS
  <2>2. QED
    BY ONLY <1>6, <2>1, m \in 1 .. L DEF Unrolled
<1>9. QED
  BY ONLY <1>6, <1>7, <1>8 DEF IsUnrolled

\* The dimensions in the opposite order.
LEMMA ReverseExact ==
  ASSUME NEW D, NEW L \in Nat, NEW dims \in [1 .. L -> D], Len(dims) = L
  PROVE  ReverseDimensions(dims) \in [1 .. L -> D] /\ \A m \in 1 .. L : ReverseDimensions(dims)[m] = dims[L + 1 - m]
<1>1. PICK g : Unrolls(g, dims, L)
  <2>1. DOMAIN dims = 1 .. L
    OBVIOUS
  <2>2. QED
    BY ONLY <2>1, L \in Nat, ReverseSteps
<1>2. g[0] = dims /\ g[L] = ReverseDimensions(dims) /\ \A k \in 1 .. L : g[k] = UnrotateFrom(g[k - 1], k)
  BY ONLY <1>1 DEF Unrolls
<1> DEFINE Done(x, k) == /\ x \in [1 .. L -> D]
                         /\ \A m \in 1 .. L : x[m] = IF m <= k THEN dims[L + 1 - m] ELSE dims[m - k]
           T == {k \in Nat : k <= L => Done(g[k], k)}
<1>3. 0 \in T
  <2>1. Done(dims, 0)
    OBVIOUS
  <2> HIDE DEF Done
  <2>2. QED
    BY <1>2, <2>1
<1>4. ASSUME NEW j \in Nat, j \in T PROVE j + 1 \in T
  <2> SUFFICES ASSUME j + 1 <= L PROVE Done(g[j + 1], j + 1)
    <3> HIDE DEF Done
    <3> QED
      OBVIOUS
  <2>1. Done(g[j], j)
    <3>1. j <= L
      OBVIOUS
    <3> HIDE DEF Done
    <3>2. QED
      BY <1>4, <3>1
  <2> PICK x \in [1 .. L -> D] : x = g[j]
    BY <2>1
  <2> PICK k \in 1 .. L : k = j + 1 /\ k - 1 = j
    OBVIOUS
  <2> PICK y : y = UnrotateFrom(x, k)
    OBVIOUS
  <2>2. g[k] = y
    BY ONLY <1>2, x = g[j], k \in 1 .. L, k - 1 = j, y = UnrotateFrom(x, k)
  <2>3. Len(x) = L
    OBVIOUS
  <2>4. y \in [1 .. L -> D] /\ \A m \in 1 .. L : y[m] = Unrolled(x, L, k, m)
    <3>1. CanRoll(x, L, k, D)
      BY <2>3 DEF CanRoll
    <3>2. IsUnrolled(y, x, L, k, D)
      BY ONLY <3>1, y = UnrotateFrom(x, k), UnrotateExact
    <3>3. QED
      BY ONLY <3>2 DEF IsUnrolled
  <2>5. ASSUME NEW m \in 1 .. L PROVE y[m] = IF m <= j + 1 THEN dims[L + 1 - m] ELSE dims[m - (j + 1)]
    <3>1. CASE m < k
      <4>1. y[m] = x[m]
        BY ONLY <2>4, <3>1, m \in 1 .. L DEF Unrolled
      <4>2. QED
        BY <2>1, <3>1, <4>1
    <3>2. CASE m = k
      <4>1. y[m] = x[L]
        BY ONLY <2>4, <3>2, m \in 1 .. L, k \in 1 .. L DEF Unrolled
      <4>2. x[L] = dims[L - j]
        <5>1. L \in 1 .. L /\ ~(L <= j)
          OBVIOUS
        <5>2. QED
          BY <2>1, <5>1
      <4>3. L + 1 - m = L - j
        BY <3>2
      <4>4. QED
        BY <3>2, <4>1, <4>2, <4>3
    <3>3. CASE m > k
      <4>1. y[m] = x[m - 1]
        BY ONLY <2>4, <3>3, m \in 1 .. L, k \in 1 .. L DEF Unrolled
      <4>2. x[m - 1] = dims[m - 1 - j]
        <5>1. m - 1 \in 1 .. L /\ ~(m - 1 <= j)
          BY <3>3
        <5>2. QED
          BY <2>1, <5>1
      <4>3. m - 1 - j = m - (j + 1)
        OBVIOUS
      <4>4. QED
        BY <3>3, <4>1, <4>2, <4>3
    <3>4. QED
      BY <3>1, <3>2, <3>3
  <2>6. Done(y, j + 1)
    BY <2>4, <2>5
  <2> HIDE DEF Done
  <2>7. QED
    BY <2>2, <2>6
<1>5. L \in T
  <2> HIDE DEF T
  <2> QED
    BY <1>3, <1>4, Induct
<1>6. Done(g[L], L)
  <2> HIDE DEF Done
  <2> QED
    BY <1>5
<1>7. QED
  BY <1>2, <1>6

--------------------------------------------------------------------------------
(* The canonical order: positions are numbers whose digits are indices.       *)

\* So many elements has what lies inside dimension k.
Inner(xs, k) == NumElementsIn(SubSeq(xs, k + 1, Len(xs)))

\* What is so of lengths up to N.
HasLengths(xs, N) ==
  /\ xs \in Seq(Int \X Int) /\ Len(xs) = N
  /\ \A k \in 1 .. N : Length(xs[k]) \in Nat

LEMMA InnerSteps ==
  ASSUME NEW N \in Nat, NEW xs, HasLengths(xs, N)
  PROVE  /\ Inner(xs, N) = 1 /\ Inner(xs, 0) = NumElementsIn(xs)
         /\ \A k \in 0 .. N : Inner(xs, k) \in Nat
         /\ \A k \in 1 .. N : Inner(xs, k - 1) = Length(xs[k]) * Inner(xs, k)
<1> DEFINE Rest(k) == SubSeq(xs, k + 1, N)
           IsProduct(g, k) == /\ g \in [0 .. N - k -> Int]
                              /\ g[0] = 1 /\ g[N - k] = Inner(xs, k)
                              /\ \A j \in 1 .. N - k : g[j] = g[j - 1] * Length(xs[k + j])
<1>1. ASSUME NEW k \in 0 .. N PROVE \E g : IsProduct(g, k)
  <2>1. /\ N - k \in Nat /\ DOMAIN Rest(k) = 1 .. N - k
        /\ \A j \in 1 .. N - k : Rest(k)[j] = xs[k + j] /\ k + j \in 1 .. N
    <3>1. N - k \in Nat /\ N - (k + 1) + 1 = N - k
      OBVIOUS
    <3>2. xs \in Seq(Int \X Int) /\ Len(xs) = N
      BY DEF HasLengths
    <3>3. ASSUME NEW j \in 1 .. N - k PROVE k + j \in 1 .. N /\ k + 1 + j - 1 = k + j
      OBVIOUS
    <3>4. DOMAIN Rest(k) = 1 .. N - k
      BY <3>1, <3>2
    <3>5. ASSUME NEW j \in 1 .. N - k PROVE Rest(k)[j] = xs[k + j]
      BY <3>1, <3>2, <3>3
    <3>6. QED
      BY <3>1, <3>3, <3>4, <3>5
  <2>2. \A j \in 1 .. N - k : Length(Rest(k)[j]) \in Int
    BY <2>1 DEF HasLengths
  <2>3. Inner(xs, k) = NumElementsIn(Rest(k))
    BY DEF Inner, HasLengths
  <2> HIDE DEF Rest
  <2>4. PICK g \in [0 .. N - k -> Int] :
          /\ g[0] = 1 /\ g[N - k] = NumElementsIn(Rest(k))
          /\ \A j \in 1 .. N - k : g[j] = g[j - 1] * Length(Rest(k)[j])
    BY <2>1, <2>2, NumElementsInSteps, ZenonT(30)
  <2>5. \A j \in 1 .. N - k : g[j] = g[j - 1] * Length(xs[k + j])
    BY <2>1, <2>4
  <2>6. QED
    BY <2>3, <2>4, <2>5
<1>2. ASSUME NEW k \in 0 .. N, NEW g, IsProduct(g, k) PROVE \A j \in 0 .. N - k : g[j] \in Nat
  <2> DEFINE T == {j \in Nat : j <= N - k => g[j] \in Nat}
  <2>1. 0 \in T
    BY <1>2
  <2>2. ASSUME NEW j \in Nat, j \in T PROVE j + 1 \in T
    <3> SUFFICES ASSUME j + 1 <= N - k PROVE g[j + 1] \in Nat
      OBVIOUS
    <3>1. g[j] \in Nat /\ j + 1 \in 1 .. N - k /\ k + (j + 1) \in 1 .. N
      BY <2>2
    <3>2. g[j + 1] = g[j] * Length(xs[k + (j + 1)])
      BY <1>2, <3>1
    <3>3. \A a, b \in Nat : a * b \in Nat
      OBVIOUS
    <3>4. QED
      BY <3>1, <3>2, <3>3 DEF HasLengths
  <2>3. Nat \subseteq T
    <3> HIDE DEF T
    <3> QED
      BY <2>1, <2>2, Induct
  <2>4. QED
    BY <2>3
<1>3. ASSUME NEW k \in 0 .. N PROVE Inner(xs, k) \in Nat
  <2>1. PICK g : IsProduct(g, k)
    <3> HIDE DEF IsProduct
    <3> QED
      BY <1>1
  <2>2. g[N - k] \in Nat
    <3>1. N - k \in 0 .. N - k
      OBVIOUS
    <3> HIDE DEF IsProduct
    <3>2. QED
      BY <1>2, <2>1, <3>1
  <2>3. QED
    BY <2>1, <2>2
<1>4. ASSUME NEW k \in 1 .. N PROVE Inner(xs, k - 1) = Length(xs[k]) * Inner(xs, k)
  <2>1. k \in 0 .. N /\ k - 1 \in 0 .. N
    OBVIOUS
  <2>2. PICK g : IsProduct(g, k)
    <3> HIDE DEF IsProduct
    <3> QED
      BY <1>1, <2>1
  <2>3. PICK f : IsProduct(f, k - 1)
    <3> HIDE DEF IsProduct
    <3> QED
      BY <1>1, <2>1
  <2>4. \A j \in 0 .. N - k : g[j] \in Nat
    <3> HIDE DEF IsProduct
    <3> QED
      BY <1>2, <2>1, <2>2
  <2>5. Length(xs[k]) \in Nat
    BY DEF HasLengths
  <2> DEFINE T == {j \in Nat : j <= N - k => f[j + 1] = Length(xs[k]) * g[j]}
  <2>6. 0 \in T
    <3>1. 1 \in 1 .. N - (k - 1) /\ k - 1 + 1 = k
      OBVIOUS
    <3>2. f[1] = f[0] * Length(xs[k]) /\ f[0] = 1 /\ g[0] = 1
      BY <2>2, <2>3, <3>1
    <3>3. QED
      BY <2>5, <3>2
  <2>7. ASSUME NEW j \in Nat, j \in T PROVE j + 1 \in T
    <3> SUFFICES ASSUME j + 1 <= N - k PROVE f[j + 1 + 1] = Length(xs[k]) * g[j + 1]
      OBVIOUS
    <3>1. f[j + 1] = Length(xs[k]) * g[j]
      BY <2>7
    <3>2. /\ j + 2 \in 1 .. N - (k - 1) /\ j + 1 \in 1 .. N - k
          /\ k - 1 + (j + 2) = k + (j + 1) /\ j + 1 + 1 = j + 2 /\ k + (j + 1) \in 1 .. N
          /\ j + 2 - 1 = j + 1 /\ j + 1 - 1 = j
      OBVIOUS
    <3>3. f[j + 2] = f[j + 1] * Length(xs[k + (j + 1)])
      BY <2>3, <3>2
    <3>4. g[j + 1] = g[j] * Length(xs[k + (j + 1)])
      BY <2>2, <3>2
    <3>5. g[j] \in Nat /\ Length(xs[k + (j + 1)]) \in Nat
      BY <2>4, <3>2 DEF HasLengths
    <3>6. \A a, b, c \in Nat : (a * b) * c = a * (b * c)
      OBVIOUS
    <3>7. f[j + 2] = Length(xs[k]) * g[j + 1]
      BY ONLY <2>5, <3>1, <3>3, <3>4, <3>5, <3>6
    <3>8. QED
      BY ONLY <3>2, <3>7
  <2>8. Nat \subseteq T
    <3> HIDE DEF T
    <3> QED
      BY <2>6, <2>7, Induct
  <2>9. N - k \in Nat /\ N - k + 1 = N - (k - 1)
    OBVIOUS
  <2>10. f[N - k + 1] = Length(xs[k]) * g[N - k]
    BY <2>8, <2>9
  <2>11. f[N - (k - 1)] = Inner(xs, k - 1) /\ g[N - k] = Inner(xs, k)
    BY <2>2, <2>3
  <2>12. QED
    BY ONLY <2>9, <2>10, <2>11
<1>5. Inner(xs, N) = 1
  <2>1. PICK g : IsProduct(g, N)
    <3> HIDE DEF IsProduct
    <3> QED
      BY <1>1
  <2>2. QED
    BY <2>1
<1>6. Inner(xs, 0) = NumElementsIn(xs)
  <2>1. SubSeq(xs, 0 + 1, Len(xs)) = xs
    BY DEF HasLengths
  <2>2. QED
    BY <2>1 DEF Inner
<1>7. QED
  BY <1>3, <1>4, <1>5, <1>6

\* An index counts whole parts of each size, dimension by dimension.
HasDigits(xs, i, N) ==
  /\ DOMAIN xs = 1 .. N
  /\ \A k \in 1 .. N : i[k] \in Int /\ Inner(xs, k) \in Int

Counts_(g, xs, i, N) ==
  /\ g \in [0 .. N -> Int]
  /\ g[0] = 0 /\ g[N] = ToLinear(xs, i)
  /\ \A k \in 1 .. N : g[k] = g[k - 1] + i[k] * Inner(xs, k)

LEMMA ToLinearSteps ==
  ASSUME NEW N \in Nat, NEW xs, NEW i, HasDigits(xs, i, N)
  PROVE  \E g : Counts_(g, xs, i, N)
<1> USE DEF HasDigits, Inner
<1> DEFINE h == [p \in Int \X (1 .. N) |-> p[1] + i[p[2]] * NumElementsIn(SubSeq(xs, p[2] + 1, Len(xs)))]
           sq == [j \in DOMAIN xs |-> j]
           Body(it, s) == IF s = {} THEN 0 ELSE it[s \ {Max(s)}] + i[sq[Max(s)]] * NumElementsIn(SubSeq(xs, sq[Max(s)] + 1, Len(xs)))
           iter == CHOOSE it : it = [s \in SUBSET DOMAIN sq |-> Body(it, s)]
<1>1. IsStep(h, Int, N) /\ 0 \in Int
  BY DEF IsStep
<1>2. DOMAIN sq = 1 .. N
  OBVIOUS
<1>3. ToLinear(xs, i) = iter[DOMAIN sq]
  BY DEF ToLinear, FoldLeftDomain, FoldLeft, MapThenFoldSet, PointExtensions
<1>4. \E it : it = [s \in SUBSET DOMAIN sq |-> Body(it, s)]
  <2>1. PICK F : Unfolds(F, h, 0, Int, N)
    <3> HIDE DEF h
    <3> QED
      BY ONLY <1>1, N \in Nat, FoldExists
  <2>2. ASSUME NEW s \in SUBSET (1 .. N) PROVE F[s] = Body(F, s)
    <3>1. CASE s = {}
      BY <2>1, <3>1 DEF Unfolds
    <3>2. CASE s # {}
      <4>1. Max(s) \in 1 .. N /\ F[s \ {Max(s)}] \in Int
        BY <2>1, <3>2, MaxIn DEF Unfolds
      <4>2. F[s] = h[<<F[s \ {Max(s)}], Max(s)>>]
        BY <2>1, <3>2 DEF Unfolds
      <4>3. QED
        BY <3>2, <4>1, <4>2
    <3>3. QED
      BY <3>1, <3>2
  <2>3. F = [s \in SUBSET DOMAIN sq |-> Body(F, s)]
    <3> HIDE DEF Body
    <3> QED
      BY <1>2, <2>1, <2>2 DEF Unfolds
  <2>4. QED
    BY <2>3
<1>5. iter = [s \in SUBSET DOMAIN sq |-> Body(iter, s)]
  BY <1>4
<1>6. iter[{}] = 0
  BY <1>2, <1>5
<1>7. Continues(iter, h, Int, N)
  <2> SUFFICES ASSUME NEW k \in 1 .. N, iter[1 .. k - 1] \in Int
               PROVE  iter[1 .. k] = h[<<iter[1 .. k - 1], k>>]
    <3> HIDE DEF iter, h
    <3> QED
      BY DEF Continues
  <2>1. iter[1 .. k] = Body(iter, 1 .. k)
    <3> HIDE DEF iter, Body
    <3> QED
      BY <1>2, <1>5, UpTo
  <2>2. iter[1 .. k] = iter[1 .. k - 1] + i[k] * NumElementsIn(SubSeq(xs, k + 1, Len(xs)))
    <3> HIDE DEF iter
    <3>1. Max(1 .. k) = k /\ (1 .. k) \ {k} = 1 .. k - 1 /\ 1 .. k # {} /\ sq[k] = k
      <4>1. sq[k] = k
        BY <1>2
      <4> HIDE DEF sq
      <4>2. QED
        BY ONLY <4>1, N \in Nat, k \in 1 .. N, UpTo
    <3>2. iter[1 .. k] = iter[(1 .. k) \ {Max(1 .. k)}] + i[sq[Max(1 .. k)]] * NumElementsIn(SubSeq(xs, sq[Max(1 .. k)] + 1, Len(xs)))
      <4> HIDE DEF sq
      <4> QED
        BY ONLY <2>1, <3>1
    <3> HIDE DEF sq
    <3>3. QED
      BY ONLY <3>1, <3>2
  <2>3. QED
    <3> HIDE DEF iter
    <3> QED
      BY <2>2
<1>8. PICK g : Partial(g, h, 0, Int, N) /\ g[N] = iter[1 .. N]
  <2> HIDE DEF h, iter
  <2>1. iter[{}] \in Int
    BY ONLY <1>1, <1>6
  <2>2. \E g : Partial(g, h, iter[{}], Int, N) /\ g[N] = iter[1 .. N]
    BY <1>1, <1>7, <2>1, FoldSteps, SMTT(30)
  <2>3. QED
    BY ONLY <1>6, <2>2
<1>9. \A k \in 1 .. N : g[k] = g[k - 1] + i[k] * NumElementsIn(SubSeq(xs, k + 1, Len(xs)))
  <2>1. \A k \in 1 .. N : g[k - 1] \in Int /\ g[k] = h[<<g[k - 1], k>>]
    <3>1. \A k \in 1 .. N : k - 1 \in 0 .. N
      OBVIOUS
    <3> HIDE DEF h
    <3> QED
      BY ONLY <1>8, <3>1 DEF Partial
  <2>2. QED
    BY <2>1
<1>10. QED
  <2> HIDE DEF h, iter, sq
  <2> QED
    BY <1>2, <1>3, <1>8, <1>9 DEF Partial, Counts_

LEMMA DivIs ==
  ASSUME NEW a \in Nat, NEW m \in Nat \ {0}, NEW q \in Nat, m * q <= a, a < m * q + m
  PROVE  a \div m = q
<1>1. PICK d \in Nat : d = a \div m /\ m * d <= a /\ a < m * d + m
  BY DivBounds
<1>2. ~(d < q)
  <2> SUFFICES ASSUME d + 1 <= q PROVE FALSE
    OBVIOUS
  <2>1. m * (d + 1) <= m * q /\ m * (d + 1) = m * d + m
    OBVIOUS
  <2>2. QED
    BY <1>1, <2>1
<1>3. ~(q < d)
  <2> SUFFICES ASSUME q + 1 <= d PROVE FALSE
    OBVIOUS
  <2>1. m * (q + 1) <= m * d /\ m * (q + 1) = m * q + m
    OBVIOUS
  <2>2. QED
    BY <1>1, <2>1
<1>4. QED
  BY <1>1, <1>2, <1>3

\* What is left of n in parts of m = l * p, taken in parts of p.
InParts(n, l, p, m) ==
  /\ n % m \in 0 .. m - 1 /\ n % p \in 0 .. p - 1
  /\ (n % m) \div p \in 0 .. l - 1
  /\ n % p = (n % m) - p * ((n % m) \div p)

LEMMA DivInParts ==
  ASSUME NEW n \in Nat, NEW l \in Nat \ {0}, NEW p \in Nat \ {0}, NEW m \in Nat, m = l * p
  PROVE  InParts(n, l, p, m)
<1>1. m \in Nat \ {0}
  OBVIOUS
<1> DEFINE q == n \div m
           r == n % m
           d == r \div p
           s == r - p * d
<1>2. q \in Nat /\ r \in Nat /\ r < m /\ n = m * q + r
  BY ONLY <1>1, n \in Nat
<1>3. d \in Nat /\ p * d <= r /\ r < p * d + p
  <2> HIDE DEF r
  <2> QED
    BY ONLY <1>2, p \in Nat \ {0}, DivBounds
<1>4. s \in Nat /\ s < p
  <2> HIDE DEF r, d
  <2> QED
    BY <1>2, <1>3
<1> HIDE DEF q, r, d, s
<1>5. n = p * (l * q + d) + s /\ l * q + d \in Nat
  <2>1. r = p * d + s
    BY <1>2, <1>3 DEF s
  <2>2. m * q = p * (l * q)
    BY <1>2
  <2>3. p * (l * q + d) = p * (l * q) + p * d
    BY <1>2, <1>3
  <2>4. l * q + d \in Nat
    BY <1>2, <1>3
  <2>5. PICK e \in Int, f \in Int, x \in Int : e = m * q /\ f = p * d /\ x = p * (l * q + d)
    BY <1>2, <1>3, <2>4
  <2>6. QED
    BY ONLY <1>2, <1>4, <2>1, <2>2, <2>3, <2>4, <2>5
<1>6. n \div p = l * q + d
  <2> PICK e \in Nat : e = l * q + d
    BY <1>5
  <2>1. p * e <= n /\ n < p * e + p
    BY <1>4, <1>5
  <2>2. QED
    BY <2>1, DivIs
<1>7. n % p = s
  <2>1. n % p = n - p * (n \div p)
    OBVIOUS
  <2>2. QED
    BY <1>4, <1>5, <1>6, <2>1
<1>8. d < l
  <2> SUFFICES ASSUME l <= d PROVE FALSE
    BY <1>3
  <2>1. p * l <= p * d
    BY <1>3
  <2>2. QED
    BY <1>2, <1>3, <2>1
<1>9. n % p = r - p * d
  BY <1>7 DEF s
<1>10. r \in 0 .. m - 1 /\ d \in 0 .. l - 1 /\ n % p \in 0 .. p - 1
  BY <1>2, <1>3, <1>4, <1>7, <1>8
<1>11. QED
  BY ONLY <1>9, <1>10 DEF r, d, InParts

--------------------------------------------------------------------------------
\* The extensions that start at zero: what the canonical order is counted in.
Boxed(xs, N) ==
  /\ xs \in Seq(Int \X Int) /\ Len(xs) = N
  /\ \A k \in 1 .. N : xs[k][1] = 0 /\ xs[k][2] \in Nat

InBox(i, xs, N) ==
  /\ i \in Seq(Int) /\ Len(i) = N
  /\ \A k \in 1 .. N : i[k] \in 0 .. xs[k][2] - 1

LEMMA BoxSteps ==
  ASSUME NEW N \in Nat, NEW xs, Boxed(xs, N)
  PROVE  /\ DOMAIN xs = 1 .. N /\ HasLengths(xs, N)
         /\ Inner(xs, N) = 1 /\ Inner(xs, 0) = NumElementsIn(xs)
         /\ \A k \in 0 .. N : Inner(xs, k) \in Nat
         /\ \A k \in 1 .. N : /\ xs[k][2] \in Nat /\ k - 1 \in 0 .. N /\ k \in 0 .. N
                              /\ Inner(xs, k - 1) = xs[k][2] * Inner(xs, k)
<1>1. \A k \in 1 .. N : Length(xs[k]) = xs[k][2] /\ xs[k][2] \in Nat
  <2> SUFFICES ASSUME NEW k \in 1 .. N PROVE Length(xs[k]) = xs[k][2] /\ xs[k][2] \in Nat
    OBVIOUS
  <2>1. xs[k][1] = 0 /\ xs[k][2] \in Nat
    BY DEF Boxed
  <2> PICK n \in Nat : n = xs[k][2]
    BY <2>1
  <2>2. Length(xs[k]) = n - 0
    BY <2>1 DEF Length
  <2>3. QED
    BY <2>2
<1>2. HasLengths(xs, N)
  BY <1>1 DEF Boxed, HasLengths
<1>3. DOMAIN xs = 1 .. N
  BY DEF Boxed
<1>4. /\ Inner(xs, N) = 1 /\ Inner(xs, 0) = NumElementsIn(xs)
      /\ \A k \in 0 .. N : Inner(xs, k) \in Nat
      /\ \A k \in 1 .. N : Inner(xs, k - 1) = Length(xs[k]) * Inner(xs, k)
  BY ONLY <1>2, N \in Nat, InnerSteps
<1>5. \A k \in 1 .. N : k - 1 \in 0 .. N /\ k \in 0 .. N
  OBVIOUS
<1>6. QED
  BY ONLY <1>1, <1>2, <1>3, <1>4, <1>5

\* The digits of a number: each is an index, and they add up to the number.
\* The digits of n, from the first: what is left for the dimensions inside.
Digits(W, xs, n, N) ==
  /\ W[0] = n /\ W[N] = 0
  /\ \A k \in 1 .. N :
        /\ FromLinear(xs, n)[k] \in 0 .. xs[k][2] - 1
        /\ W[k - 1] \in Nat /\ W[k] \in Nat /\ Inner(xs, k) \in Nat \ {0}
        /\ W[k] = W[k - 1] - Inner(xs, k) * FromLinear(xs, n)[k]
        /\ FromLinear(xs, n)[k] = Quotient(W[k - 1], Inner(xs, k))
        /\ W[k] = Remainder(W[k - 1], Inner(xs, k))

LEMMA DigitSteps ==
  ASSUME NEW N \in Nat, NEW xs, Boxed(xs, N), NEW n \in Nat, n < NumElementsIn(xs)
  PROVE  \E W : Digits(W, xs, n, N)
<1> DEFINE P(k) == Inner(xs, k)
           W(k) == n % P(k)
           i == FromLinear(xs, n)
<1>1. /\ DOMAIN xs = 1 .. N /\ HasLengths(xs, N)
      /\ P(N) = 1 /\ P(0) = NumElementsIn(xs)
      /\ \A k \in 0 .. N : P(k) \in Nat
      /\ \A k \in 1 .. N : /\ xs[k][2] \in Nat /\ k - 1 \in 0 .. N /\ k \in 0 .. N
                           /\ P(k - 1) = xs[k][2] * P(k)
  BY BoxSteps
<1> HIDE DEF P
<1>2. \A k \in 0 .. N : P(k) # 0
  <2> DEFINE T == {k \in Nat : k <= N => P(k) # 0}
  <2>1. 0 \in T
    BY <1>1
  <2>2. ASSUME NEW k \in Nat, k \in T PROVE k + 1 \in T
    <3> SUFFICES ASSUME k + 1 <= N, P(k + 1) = 0 PROVE FALSE
      OBVIOUS
    <3>1. P(k + 1 - 1) = xs[k + 1][2] * P(k + 1) /\ xs[k + 1][2] \in Nat /\ k + 1 - 1 = k
      BY <1>1
    <3>2. P(k) # 0
      BY <2>2
    <3>3. QED
      BY ONLY <3>1, <3>2, P(k + 1) = 0
  <2>3. Nat \subseteq T
    <3> HIDE DEF T
    <3> QED
      BY <2>1, <2>2, Induct
  <2>4. QED
    BY <2>3
<1>3. ASSUME NEW k \in 1 .. N
      PROVE  /\ i[k] \in 0 .. xs[k][2] - 1
             /\ W(k - 1) \in Nat /\ W(k) \in Nat /\ P(k) \in Nat
             /\ W(k) = W(k - 1) - P(k) * i[k]
             /\ P(k) # 0 /\ i[k] = Quotient(W(k - 1), P(k)) /\ W(k) = Remainder(W(k - 1), P(k))
  <2>1. /\ P(k) \in Nat \ {0} /\ P(k - 1) \in Nat \ {0} /\ xs[k][2] \in Nat
        /\ P(k - 1) = xs[k][2] * P(k)
    BY <1>1, <1>2
  <2>2. xs[k][2] \in Nat \ {0}
    BY <2>1
  <2>3. /\ W(k - 1) \in 0 .. P(k - 1) - 1 /\ W(k) \in 0 .. P(k) - 1
        /\ W(k - 1) \div P(k) \in 0 .. xs[k][2] - 1
        /\ W(k) = W(k - 1) - P(k) * (W(k - 1) \div P(k))
    <3> PICK l \in Nat \ {0}, p \in Nat \ {0}, m \in Nat : l = xs[k][2] /\ p = P(k) /\ m = P(k - 1)
      BY ONLY <2>1, <2>2
    <3>1. m = l * p
      BY <2>1
    <3>2. InParts(n, l, p, m)
      BY ONLY <3>1, n \in Nat, l \in Nat \ {0}, p \in Nat \ {0}, m \in Nat, DivInParts
    <3>3. QED
      BY ONLY <3>2, l = xs[k][2], p = P(k), m = P(k - 1) DEF InParts
  <2>4. i[k] = Quotient(IF k = 1 THEN n ELSE Remainder(n, P(k - 1)), P(k))
    <3>1. Len(xs) = N
      BY <1>1 DEF HasLengths
    <3>2. i = [m \in 1 .. N |-> Quotient(IF m = 1 THEN n ELSE Remainder(n, P(m - 1)), P(m))]
      BY ONLY <3>1 DEF FromLinear, P, Inner
    <3>3. QED
      BY <3>2
  <2>5. (IF k = 1 THEN n ELSE Remainder(n, P(k - 1))) = W(k - 1)
    <3>1. CASE k = 1
      <4>1. P(0) \in Nat \ {0} /\ n < P(0) /\ k - 1 = 0
        BY <1>1, <2>1, <3>1
      <4>2. \A m \in Nat \ {0} : n < m => n % m = n
        OBVIOUS
      <4>3. QED
        BY <3>1, <4>1, <4>2
    <3>2. CASE k # 1
      BY ONLY <2>1, <3>2, n \in Nat, QuotientOfNat
    <3>3. QED
      BY <3>1, <3>2
  <2>6. W(k - 1) \in Nat
    BY ONLY <2>1, <2>3
  <2>7. i[k] = W(k - 1) \div P(k)
    <3>1. i[k] = Quotient(W(k - 1), P(k))
      BY <2>4, <2>5
    <3> HIDE DEF W, i
    <3>2. QED
      BY ONLY <2>1, <2>6, <3>1, QuotientOfNat
  <2>8. W(k) \in Nat
    BY ONLY <2>1, <2>3
  <2> HIDE DEF W, i
  <2>9. Quotient(W(k - 1), P(k)) = W(k - 1) \div P(k) /\ Remainder(W(k - 1), P(k)) = W(k)
    <3> PICK a \in Nat, p \in Nat \ {0} : a = W(k - 1) /\ p = P(k)
      BY <2>1, <2>6
    <3>1. Quotient(a, p) = a \div p
      BY ONLY a \in Nat, p \in Nat \ {0}, QuotientOfNat
    <3>2. Remainder(a, p) = a - p * (a \div p)
      BY ONLY <3>1 DEF Remainder
    <3>3. QED
      BY ONLY <2>3, <3>1, <3>2, a = W(k - 1), p = P(k)
  <2>10. QED
    BY ONLY <2>1, <2>3, <2>6, <2>7, <2>8, <2>9
<1>4. W(0) = n /\ W(N) = 0
  <2>1. 0 \in 0 .. N
    OBVIOUS
  <2>2. P(0) \in Nat \ {0} /\ n < P(0) /\ P(N) = 1
    BY <1>1, <1>2, <2>1
  <2>3. \A m \in Nat \ {0} : n < m => n % m = n
    OBVIOUS
  <2>4. n % 1 = 0
    OBVIOUS
  <2>5. QED
    BY ONLY <2>2, <2>3, <2>4
<1> DEFINE U == [k \in 0 .. N |-> W(k)]
<1>5. \A k \in 0 .. N : U[k] = W(k)
  OBVIOUS
<1>6. U[0] = n /\ U[N] = 0
  <2>1. 0 \in 0 .. N /\ N \in 0 .. N
    OBVIOUS
  <2> HIDE DEF U, W
  <2>2. QED
    BY ONLY <1>4, <1>5, <2>1
<1>7. \A k \in 1 .. N : k - 1 \in 0 .. N /\ k \in 0 .. N
  OBVIOUS
<1>8. ASSUME NEW k \in 1 .. N
      PROVE  /\ i[k] \in 0 .. xs[k][2] - 1
             /\ U[k - 1] \in Nat /\ U[k] \in Nat /\ P(k) \in Nat \ {0}
             /\ U[k] = U[k - 1] - P(k) * i[k]
             /\ i[k] = Quotient(U[k - 1], P(k)) /\ U[k] = Remainder(U[k - 1], P(k))
  <2>1. U[k - 1] = W(k - 1) /\ U[k] = W(k)
    BY <1>5, <1>7
  <2> HIDE DEF U, W, i
  <2>2. QED
    BY <1>3, <2>1
<1>9. Digits(U, xs, n, N)
  <2> HIDE DEF U
  <2> QED
    BY ONLY <1>6, <1>8 DEF Digits, P, i
<1>10. QED
  <2> HIDE DEF U
  <2> QED
    BY <1>9

LEMMA FromLinearInBox ==
  ASSUME NEW N \in Nat, NEW xs, Boxed(xs, N), NEW n \in Nat, n < NumElementsIn(xs)
  PROVE  InBox(FromLinear(xs, n), xs, N) /\ ToLinear(xs, FromLinear(xs, n)) = n
<1> DEFINE P(k) == Inner(xs, k)
           i == FromLinear(xs, n)
<1>1. /\ DOMAIN xs = 1 .. N /\ HasLengths(xs, N)
      /\ P(0) = NumElementsIn(xs)
      /\ \A k \in 1 .. N : xs[k][2] \in Nat /\ k - 1 \in 0 .. N /\ k \in 0 .. N
  BY BoxSteps
<1> HIDE DEF P
<1>2. PICK W : Digits(W, xs, n, N)
  BY DigitSteps
<1>3. /\ W[0] = n /\ W[N] = 0
      /\ \A k \in 1 .. N : /\ i[k] \in 0 .. xs[k][2] - 1
                           /\ W[k - 1] \in Nat /\ W[k] \in Nat /\ P(k) \in Nat
                           /\ W[k] = W[k - 1] - P(k) * i[k]
  BY ONLY <1>2 DEF Digits, P, i
<1>4. Len(xs) = N
  BY <1>1 DEF HasLengths
<1>5. i \in Seq(Int) /\ Len(i) = N
  <2>1. DOMAIN i = 1 .. N /\ \A k \in 1 .. N : i[k] \in Int
    <3>1. DOMAIN i = 1 .. N
      BY <1>4 DEF FromLinear
    <3> HIDE DEF i
    <3>2. QED
      BY <1>1, <1>3, <3>1
  <2>2. i = [k \in 1 .. N |-> i[k]]
    BY <1>4 DEF FromLinear
  <2> HIDE DEF i
  <2>3. QED
    BY ONLY <2>1, <2>2, N \in Nat
<1>6. InBox(i, xs, N)
  <2> HIDE DEF i
  <2> QED
    BY <1>3, <1>5 DEF InBox
<1>7. ToLinear(xs, i) = n
  <2>1. HasDigits(xs, i, N)
    <3> HIDE DEF i
    <3> QED
      BY <1>1, <1>3 DEF HasDigits, P
  <2>2. PICK g : Counts_(g, xs, i, N)
    <3> HIDE DEF i
    <3> QED
      BY ONLY <2>1, N \in Nat, ToLinearSteps
  <2> DEFINE T == {k \in Nat : k <= N => g[k] = n - W[k]}
  <2>3. /\ g[0] = 0 /\ g[N] = ToLinear(xs, i)
        /\ \A k \in 1 .. N : g[k] = g[k - 1] + i[k] * P(k)
    BY <2>2 DEF Counts_, P
  <2>4. 0 \in T
    BY <1>3, <2>3
  <2>5. ASSUME NEW k \in Nat, k \in T PROVE k + 1 \in T
    <3> SUFFICES ASSUME k + 1 <= N PROVE g[k + 1] = n - W[k + 1]
      OBVIOUS
    <3> PICK m \in 1 .. N : m = k + 1 /\ m - 1 = k
      OBVIOUS
    <3>1. g[m - 1] = n - W[m - 1]
      BY <2>5
    <3>2. /\ i[m] \in 0 .. xs[m][2] - 1 /\ xs[m][2] \in Nat
          /\ W[m - 1] \in Nat /\ W[m] \in Nat /\ P(m) \in Nat
          /\ W[m] = W[m - 1] - P(m) * i[m]
      <4> HIDE DEF i
      <4> QED
        BY <1>1, <1>3
    <3>3. g[m] = g[m - 1] + i[m] * P(m)
      BY <2>3
    <3> HIDE DEF i
    <3>4. \A a, b, c, d \in Int : c = b - a * d => n - b + d * a = n - c
      OBVIOUS
    <3>5. i[m] \in Int /\ W[m - 1] \in Int /\ W[m] \in Int /\ P(m) \in Int
      BY <3>2
    <3>6. n - W[m - 1] + i[m] * P(m) = n - W[m]
      BY ONLY <3>2, <3>4, <3>5
    <3>7. QED
      BY <3>1, <3>3, <3>6
  <2>6. Nat \subseteq T
    <3> HIDE DEF T
    <3> QED
      BY <2>4, <2>5, Induct
  <2>7. g[N] = n - W[N]
    BY <2>6
  <2>8. W[N] = 0
    BY <1>3
  <2>9. QED
    BY <2>3, <2>7, <2>8
<1>8. QED
  BY <1>6, <1>7

\* What is left of an index after k dimensions is less than one step there.
Parts(g, xs, i, N) ==
  /\ g \in [0 .. N -> Int]
  /\ g[0] = 0 /\ g[N] = ToLinear(xs, i)
  /\ \A k \in 1 .. N : g[k] = g[k - 1] + i[k] * Inner(xs, k)
  /\ \A k \in 0 .. N : g[N] - g[k] \in 0 .. Inner(xs, k) - 1

LEMMA ToLinearParts ==
  ASSUME NEW N \in Nat, NEW xs, Boxed(xs, N), NEW i, InBox(i, xs, N)
  PROVE  \E g : Parts(g, xs, i, N)
<1> DEFINE P(k) == Inner(xs, k)
<1>1. /\ DOMAIN xs = 1 .. N
      /\ P(N) = 1
      /\ \A k \in 0 .. N : P(k) \in Nat
      /\ \A k \in 1 .. N : /\ xs[k][2] \in Nat /\ k - 1 \in 0 .. N /\ k \in 0 .. N
                           /\ P(k - 1) = xs[k][2] * P(k)
  BY BoxSteps
<1> HIDE DEF P
<1>2. HasDigits(xs, i, N)
  BY <1>1 DEF HasDigits, InBox, P
<1>3. PICK g : Counts_(g, xs, i, N)
  BY ONLY <1>2, N \in Nat, ToLinearSteps
<1>4. /\ g \in [0 .. N -> Int]
      /\ g[0] = 0 /\ g[N] = ToLinear(xs, i)
      /\ \A k \in 1 .. N : g[k] = g[k - 1] + i[k] * P(k)
  BY <1>3 DEF Counts_, P
<1> DEFINE T == {m \in Nat : m <= N => g[N] - g[N - m] \in 0 .. P(N - m) - 1}
<1>5. 0 \in T
  BY <1>1, <1>4
<1>6. ASSUME NEW m \in Nat, m \in T PROVE m + 1 \in T
  <2> SUFFICES ASSUME m + 1 <= N PROVE g[N] - g[N - (m + 1)] \in 0 .. P(N - (m + 1)) - 1
    OBVIOUS
  <2> PICK k \in 1 .. N : k = N - m /\ k - 1 = N - (m + 1) /\ k \in 0 .. N /\ k - 1 \in 0 .. N
    OBVIOUS
  <2>1. g[N] - g[k] \in 0 .. P(k) - 1
    BY <1>6
  <2>2. g[k] = g[k - 1] + i[k] * P(k) /\ P(k - 1) = xs[k][2] * P(k)
    BY <1>1, <1>4
  <2>3. g[N] \in Int /\ g[k] \in Int /\ g[k - 1] \in Int /\ P(k) \in Nat /\ xs[k][2] \in Nat
    <3>1. N \in 0 .. N /\ k \in 0 .. N /\ k - 1 \in 0 .. N
      OBVIOUS
    <3>2. QED
      BY <1>1, <1>4, <3>1
  <2>4. i[k] \in 0 .. xs[k][2] - 1
    BY DEF InBox
  <2>5. \A a, s, p, l \in Int : a >= 0 /\ a + 1 <= l /\ s >= 0 /\ s < p => a * p + s >= 0 /\ a * p + s < l * p
    <3> SUFFICES ASSUME NEW a \in Int, NEW s \in Int, NEW p \in Int, NEW l \in Int,
                        a >= 0, a + 1 <= l, s >= 0, s < p
                 PROVE  a * p + s >= 0 /\ a * p + s < l * p
      OBVIOUS
    <3>1. a * p >= 0 /\ (a + 1) * p <= l * p /\ (a + 1) * p = a * p + p
      OBVIOUS
    <3>2. QED
      BY <3>1
  <2>6. /\ i[k] * P(k) + (g[N] - g[k]) >= 0
        /\ i[k] * P(k) + (g[N] - g[k]) < xs[k][2] * P(k)
    <3>1. i[k] \in Int /\ g[N] - g[k] \in Int /\ P(k) \in Int /\ xs[k][2] \in Int
      BY <2>3, <2>4
    <3>2. i[k] >= 0 /\ i[k] + 1 <= xs[k][2] /\ g[N] - g[k] >= 0 /\ g[N] - g[k] < P(k)
      BY ONLY <2>1, <2>3, <2>4
    <3>3. QED
      BY ONLY <2>5, <3>1, <3>2
  <2>7. g[N] - g[k - 1] = i[k] * P(k) + (g[N] - g[k])
    <3>1. PICK e \in Int : e = i[k] * P(k)
      BY <2>3, <2>4
    <3>2. QED
      BY ONLY <2>2, <2>3, <3>1
  <2>8. P(k - 1) \in Nat
    BY <1>1
  <2>9. g[N] - g[k - 1] \in 0 .. P(k - 1) - 1
    BY ONLY <2>2, <2>3, <2>6, <2>7, <2>8
  <2>10. QED
    BY <2>9
<1>7. Nat \subseteq T
  <2> HIDE DEF T
  <2> QED
    BY <1>5, <1>6, Induct
<1>8. ASSUME NEW k \in 0 .. N PROVE g[N] - g[k] \in 0 .. P(k) - 1
  <2>1. N - k \in T /\ N - k <= N /\ N - (N - k) = k
    BY <1>7
  <2>2. QED
    BY <2>1
<1>9. QED
  BY <1>4, <1>8 DEF P, Parts

LEMMA ToLinearInRange ==
  ASSUME NEW N \in Nat, NEW xs, Boxed(xs, N), NEW i, InBox(i, xs, N)
  PROVE  ToLinear(xs, i) \in 0 .. NumElementsIn(xs) - 1
<1>1. PICK g : Parts(g, xs, i, N)
  BY ToLinearParts
<1>2. 0 \in 0 .. N /\ N \in 0 .. N
  OBVIOUS
<1>3. g[N] - g[0] \in 0 .. Inner(xs, 0) - 1
  BY <1>1, <1>2 DEF Parts
<1>4. Inner(xs, 0) = NumElementsIn(xs) /\ Inner(xs, 0) \in Nat
  BY <1>2, BoxSteps
<1>5. g[N] \in Int /\ g[N] - 0 = g[N]
  BY <1>1, <1>2 DEF Parts
<1>6. QED
  BY <1>1, <1>3, <1>4, <1>5 DEF Parts

\* Index i comes before j in canonical order.
Before(i, j) == \E k \in DOMAIN i : i[k] < j[k] /\ \A m \in 1 .. k - 1 : i[m] = j[m]

LEMMA BeforeIsLess ==
  ASSUME NEW N \in Nat, NEW xs, Boxed(xs, N),
         NEW i, InBox(i, xs, N), NEW j, InBox(j, xs, N), Before(i, j)
  PROVE  ToLinear(xs, i) < ToLinear(xs, j)
<1> DEFINE P(k) == Inner(xs, k)
<1>1. PICK g : Parts(g, xs, i, N)
  BY ONLY N \in Nat, Boxed(xs, N), InBox(i, xs, N), ToLinearParts
<1>2. PICK h : Parts(h, xs, j, N)
  BY ONLY N \in Nat, Boxed(xs, N), InBox(j, xs, N), ToLinearParts
<1>3. \A k \in 0 .. N : P(k) \in Nat
  BY BoxSteps
<1>20. /\ \A k \in 1 .. N : g[k] = g[k - 1] + i[k] * P(k) /\ h[k] = h[k - 1] + j[k] * P(k)
       /\ \A k \in 0 .. N : g[N] - g[k] \in 0 .. P(k) - 1 /\ h[N] - h[k] \in 0 .. P(k) - 1
  BY <1>1, <1>2 DEF Parts
<1> HIDE DEF P
<1>4. DOMAIN i = 1 .. N /\ \A k \in 1 .. N : i[k] \in Int /\ j[k] \in Int
  BY <1>3, BoxSteps DEF InBox
<1>5. PICK k \in 1 .. N : i[k] < j[k] /\ \A m \in 1 .. k - 1 : i[m] = j[m]
  BY <1>4 DEF Before
<1> DEFINE T == {m \in Nat : m <= k - 1 => g[m] = h[m]}
<1>6. 0 \in T
  BY <1>1, <1>2 DEF Parts
<1>7. ASSUME NEW m \in Nat, m \in T PROVE m + 1 \in T
  <2> SUFFICES ASSUME m + 1 <= k - 1 PROVE g[m + 1] = h[m + 1]
    OBVIOUS
  <2>1. m + 1 \in 1 .. N /\ m + 1 \in 1 .. k - 1 /\ m + 1 - 1 = m
    OBVIOUS
  <2>2. g[m] = h[m] /\ i[m + 1] = j[m + 1]
    BY <1>5, <1>7, <2>1
  <2>3. g[m + 1] = g[m] + i[m + 1] * P(m + 1) /\ h[m + 1] = h[m] + j[m + 1] * P(m + 1)
    <3> PICK l \in 1 .. N : l = m + 1 /\ l - 1 = m
      BY <2>1
    <3>1. g[l] = g[l - 1] + i[l] * P(l) /\ h[l] = h[l - 1] + j[l] * P(l)
      BY ONLY <1>20, l \in 1 .. N
    <3>2. QED
      BY <3>1
  <2>4. QED
    BY ONLY <2>2, <2>3
<1>8. Nat \subseteq T
  <2> HIDE DEF T
  <2> QED
    BY <1>6, <1>7, Induct
<1>9. g[k - 1] = h[k - 1]
  BY <1>8
<1>10. k \in 0 .. N /\ k - 1 \in 0 .. N /\ N \in 0 .. N
  OBVIOUS
<1>11. PICK a \in Int, b \in Int, p \in Nat, s \in Int, x \in Int, y \in Int :
          /\ a = i[k] /\ b = j[k] /\ p = P(k) /\ s = g[k - 1] /\ x = g[N] /\ y = h[N]
  BY <1>1, <1>2, <1>3, <1>4, <1>10 DEF Parts
<1>12. x - (s + a * p) \in 0 .. p - 1 /\ y - (s + b * p) \in 0 .. p - 1
  BY <1>20, <1>9, <1>10, <1>11
<1>13. a + 1 <= b
  BY <1>5, <1>11
<1>14. (a + 1) * p <= b * p /\ (a + 1) * p = a * p + p
  BY ONLY <1>13, a \in Int, b \in Int, p \in Nat
<1>15. PICK u \in Int, w \in Int : u = a * p /\ w = b * p
  OBVIOUS
<1>16. x < y
  BY ONLY <1>12, <1>14, <1>15, s \in Int, x \in Int, y \in Int, p \in Nat
<1>17. QED
  BY <1>1, <1>2, <1>11, <1>16 DEF Parts

\* Two different indices: one comes before the other.
LEMMA BeforeIsTotal ==
  ASSUME NEW N \in Nat, NEW xs,
         NEW i, InBox(i, xs, N), NEW j, InBox(j, xs, N), i # j, \A k \in 1 .. N : xs[k][2] \in Nat
  PROVE  Before(i, j) \/ Before(j, i)
<1>1. /\ i \in Seq(Int) /\ j \in Seq(Int) /\ Len(i) = N /\ Len(j) = N
      /\ \A k \in 1 .. N : i[k] \in Int /\ j[k] \in Int
  BY DEF InBox
<1> DEFINE S == {k \in Nat : k \in 1 .. N /\ i[k] # j[k]}
<1>2. S # {}
  BY <1>1, SMTT(30)
<1>3. PICK k \in S : \A m \in S : k <= m
  <2> HIDE DEF S
  <2>1. S \subseteq Nat
    BY DEF S
  <2>2. QED
    BY ONLY <1>2, <2>1, LeastNumber
<1>4. k \in 1 .. N /\ i[k] # j[k] /\ DOMAIN i = 1 .. N /\ DOMAIN j = 1 .. N
  BY <1>1
<1>5. \A m \in 1 .. k - 1 : i[m] = j[m]
  <2> SUFFICES ASSUME NEW m \in 1 .. k - 1, i[m] # j[m] PROVE FALSE
    OBVIOUS
  <2>1. m \in S
    BY <1>4
  <2>2. QED
    BY <1>3, <2>1
<1>6. i[k] < j[k] \/ j[k] < i[k]
  BY <1>1, <1>4
<1>7. QED
  BY ONLY <1>4, <1>5, <1>6 DEF Before

LEMMA BeforeIffLess ==
  ASSUME NEW N \in Nat, NEW xs, Boxed(xs, N),
         NEW i, InBox(i, xs, N), NEW j, InBox(j, xs, N)
  PROVE  /\ Before(i, j) <=> ToLinear(xs, i) < ToLinear(xs, j)
         /\ ToLinear(xs, i) = ToLinear(xs, j) => i = j
<1>1. ToLinear(xs, i) \in Int /\ ToLinear(xs, j) \in Int
  <2>1. NumElementsIn(xs) \in Nat
    <3>1. 0 \in 0 .. N
      OBVIOUS
    <3>2. QED
      BY <3>1, BoxSteps
  <2>2. QED
    BY <2>1, ToLinearInRange
<1>2. Before(i, j) => ToLinear(xs, i) < ToLinear(xs, j)
  BY BeforeIsLess
<1>3. Before(j, i) => ToLinear(xs, j) < ToLinear(xs, i)
  BY BeforeIsLess
<1>4. i # j => Before(i, j) \/ Before(j, i)
  <2>1. \A k \in 1 .. N : xs[k][2] \in Nat
    BY DEF Boxed
  <2>2. QED
    BY <2>1, BeforeIsTotal
<1>5. QED
  BY <1>1, <1>2, <1>3, <1>4

LEMMA FromLinearOfToLinear ==
  ASSUME NEW N \in Nat, NEW xs, Boxed(xs, N), NEW i, InBox(i, xs, N)
  PROVE  FromLinear(xs, ToLinear(xs, i)) = i
<1>1. NumElementsIn(xs) \in Nat
  <2>1. 0 \in 0 .. N
    OBVIOUS
  <2>2. QED
    BY <2>1, BoxSteps
<1>2. PICK n \in Nat : n = ToLinear(xs, i) /\ n < NumElementsIn(xs)
  BY <1>1, ToLinearInRange
<1>3. InBox(FromLinear(xs, n), xs, N) /\ ToLinear(xs, FromLinear(xs, n)) = n
  BY <1>2, FromLinearInBox
<1>4. FromLinear(xs, n) = i
  BY <1>2, <1>3, BeforeIffLess
<1>5. QED
  BY <1>2, <1>4

LEMMA SameSeq ==
  ASSUME NEW n, NEW s \in Seq(Int), NEW t \in Seq(Int), Len(s) = n, Len(t) = n, \A k \in 1 .. n : s[k] = t[k]
  PROVE  s = t
  OBVIOUS

LEMMA IndicesHas ==
  ASSUME NEW N \in Nat, NEW xs, DOMAIN xs = 1 .. N, NEW i \in Seq(Int), Len(i) = N,
         \A k \in 1 .. N : i[k] \in xs[k][1] .. xs[k][2] - 1
  PROVE  i \in Indices(xs)
<1>1. PICK g : Grows(g, xs, N)
  BY ONLY N \in Nat, DOMAIN xs = 1 .. N, IndicesSteps
<1>2. g[0] = {<<>>} /\ g[N] = Indices(xs)
  BY ONLY <1>1 DEF Grows
<1>3. \A k \in 1 .. N : g[k] = WithNext(g[k - 1], xs[k])
  BY ONLY <1>1 DEF Grows
<1> DEFINE T == {m \in Nat : m <= N => SubSeq(i, 1, m) \in g[m]}
<1>4. 0 \in T
  <2>1. SubSeq(i, 1, 0) = <<>>
    OBVIOUS
  <2>2. QED
    BY <1>2, <2>1
<1>5. ASSUME NEW m \in Nat, m \in T PROVE m + 1 \in T
  <2> SUFFICES ASSUME m + 1 <= N PROVE SubSeq(i, 1, m + 1) \in g[m + 1]
    OBVIOUS
  <2> PICK k \in 1 .. N : k = m + 1 /\ k - 1 = m
    OBVIOUS
  <2>1. SubSeq(i, 1, m) \in g[k - 1]
    BY <1>5
  <2>2. SubSeq(i, 1, k) = Append(SubSeq(i, 1, m), i[k])
    <3>1. SubSeq(i, 1, m) \in Seq(Int) /\ Len(SubSeq(i, 1, m)) = m
      BY ONLY i \in Seq(Int), Len(i) = N, m \in Nat, k \in 1 .. N, k = m + 1
    <3>2. SubSeq(i, 1, k) \in Seq(Int) /\ Len(SubSeq(i, 1, k)) = k
      BY ONLY i \in Seq(Int), Len(i) = N, m \in Nat, k \in 1 .. N, k = m + 1
    <3>3. i[k] \in Int
      BY ONLY i \in Seq(Int), Len(i) = N, k \in 1 .. N
    <3>4. Append(SubSeq(i, 1, m), i[k]) \in Seq(Int) /\ Len(Append(SubSeq(i, 1, m), i[k])) = k
      BY ONLY <3>1, <3>3, k = m + 1, m \in Nat
    <3>5. ASSUME NEW l \in 1 .. k PROVE SubSeq(i, 1, k)[l] = Append(SubSeq(i, 1, m), i[k])[l]
      <4>1. CASE l = k
        BY ONLY <4>1, <3>1, <3>3, i \in Seq(Int), Len(i) = N, k \in 1 .. N, k = m + 1, m \in Nat
      <4>2. CASE l \in 1 .. m
        BY ONLY <4>2, <3>1, <3>3, i \in Seq(Int), Len(i) = N, k \in 1 .. N, k = m + 1, m \in Nat
      <4>3. QED
        BY <4>1, <4>2
    <3>6. QED
      BY ONLY <3>2, <3>4, <3>5, SameSeq
  <2>3. SubSeq(i, 1, k) \in g[k]
    <3> PICK b, c : b = SubSeq(i, 1, m) /\ c = SubSeq(i, 1, k)
      OBVIOUS
    <3>1. g[k] = {Append(a, j) : a \in g[k - 1], j \in xs[k][1] .. xs[k][2] - 1}
      BY <1>3 DEF WithNext
    <3>2. b \in g[k - 1] /\ c = Append(b, i[k]) /\ i[k] \in xs[k][1] .. xs[k][2] - 1
      BY ONLY <2>1, <2>2, b = SubSeq(i, 1, m), c = SubSeq(i, 1, k), k \in 1 .. N,
              \A l \in 1 .. N : i[l] \in xs[l][1] .. xs[l][2] - 1
    <3>3. c \in g[k]
      BY ONLY <3>1, <3>2
    <3>4. QED
      BY ONLY <3>3, c = SubSeq(i, 1, k)
  <2>4. QED
    BY <2>3
<1>6. N \in T
  <2> HIDE DEF T
  <2> QED
    BY <1>4, <1>5, Induct
<1>7. SubSeq(i, 1, N) = i
  <2>1. SubSeq(i, 1, N) \in Seq(Int) /\ Len(SubSeq(i, 1, N)) = N
    OBVIOUS
  <2>2. \A k \in 1 .. N : SubSeq(i, 1, N)[k] = i[k]
    OBVIOUS
  <2>3. QED
    BY ONLY <2>1, <2>2, i \in Seq(Int), Len(i) = N, SameSeq
<1>8. SubSeq(i, 1, N) \in g[N]
  BY <1>6
<1>9. QED
  <2> PICK c : c = SubSeq(i, 1, N)
    OBVIOUS
  <2>1. c = i
    BY ONLY <1>7, c = SubSeq(i, 1, N)
  <2>2. c \in g[N]
    BY ONLY <1>8, c = SubSeq(i, 1, N)
  <2>3. QED
    BY ONLY <1>2, <2>1, <2>2

\* The indices of a box are its elements.
LEMMA IndicesOfBox ==
  ASSUME NEW N \in Nat, NEW xs, Boxed(xs, N)
  PROVE  \A i : i \in Indices(xs) <=> InBox(i, xs, N)
<1>1. DOMAIN xs = 1 .. N /\ \A k \in 1 .. N : xs[k][1] = 0 /\ xs[k][2] \in Nat
  <2>1. DOMAIN xs = 1 .. N
    BY DEF Boxed
  <2>2. \A k \in 1 .. N : xs[k][1] = 0 /\ xs[k][2] \in Nat
    BY DEF Boxed
  <2>3. QED
    BY <2>1, <2>2
<1>2. ASSUME NEW i \in Indices(xs) PROVE InBox(i, xs, N)
  <2>1. \A k \in 1 .. N : xs[k][1] \in Int /\ xs[k][2] \in Int
    BY <1>1
  <2>2. /\ i \in Seq(Int) /\ Len(i) = N
        /\ \A k \in 1 .. N : i[k] \in xs[k][1] .. xs[k][2] - 1
    BY ONLY <1>1, <2>1, N \in Nat, i \in Indices(xs), IndicesIn
  <2>3. QED
    BY <1>1, <2>2 DEF InBox
<1>3. ASSUME NEW i, InBox(i, xs, N) PROVE i \in Indices(xs)
  <2>1. i \in Seq(Int) /\ Len(i) = N /\ \A k \in 1 .. N : i[k] \in xs[k][1] .. xs[k][2] - 1
    BY <1>1, <1>3 DEF InBox
  <2>2. QED
    BY ONLY <1>1, <2>1, N \in Nat, IndicesHas
<1>4. QED
  BY <1>2, <1>3

\* So many indices come before the n-th.
LEMMA FirstIndices ==
  ASSUME NEW N \in Nat, NEW xs, Boxed(xs, N), NEW n \in 0 .. NumElementsIn(xs)
  PROVE  /\ IsFiniteSet({j \in Indices(xs) : ToLinear(xs, j) < n})
         /\ Cardinality({j \in Indices(xs) : ToLinear(xs, j) < n}) = n
<1> DEFINE D == {j \in Indices(xs) : ToLinear(xs, j) < n}
           S == 0 .. n - 1
           b == [m \in S |-> FromLinear(xs, m)]
<1>1. NumElementsIn(xs) \in Nat /\ n \in Nat /\ n <= NumElementsIn(xs)
  <2>1. 0 \in 0 .. N
    OBVIOUS
  <2>2. QED
    BY <2>1, BoxSteps
<1>2. ASSUME NEW m \in S PROVE b[m] \in D /\ ToLinear(xs, b[m]) = m
  <2>1. m \in Nat /\ m < NumElementsIn(xs) /\ m < n
    BY <1>1
  <2>2. InBox(FromLinear(xs, m), xs, N) /\ ToLinear(xs, FromLinear(xs, m)) = m
    BY <2>1, FromLinearInBox
  <2>3. FromLinear(xs, m) \in Indices(xs)
    BY <2>2, IndicesOfBox
  <2>4. QED
    BY <2>1, <2>2, <2>3
<1>3. ASSUME NEW j \in D PROVE \E m \in S : b[m] = j
  <2>1. InBox(j, xs, N)
    BY IndicesOfBox
  <2>2. ToLinear(xs, j) \in S
    BY <1>1, <2>1, ToLinearInRange
  <2>3. FromLinear(xs, ToLinear(xs, j)) = j
    BY <2>1, FromLinearOfToLinear
  <2>4. b[ToLinear(xs, j)] = j
    BY <2>2, <2>3
  <2>5. QED
    BY <2>2, <2>4
<1>4. ExistsBijection(S, D)
  <2>1. b \in [S -> D]
    <3>1. b = [m \in S |-> b[m]]
      OBVIOUS
    <3> HIDE DEF b, S, D
    <3>2. QED
      BY <1>2, <3>1
  <2> HIDE DEF b, S, D
  <2>2. \A l, m \in S : b[l] = b[m] => l = m
    BY <1>2
  <2>3. \A j \in D : \E m \in S : b[m] = j
    BY <1>3
  <2>4. b \in Bijection(S, D)
    BY <2>1, <2>2, <2>3 DEF Bijection, Injection, Surjection, IsInjective
  <2>5. QED
    BY <2>4 DEF ExistsBijection
<1>5. IsFiniteSet(S) /\ Cardinality(S) = n
  <2>1. n - 1 \in Int /\ 0 \in Int
    BY <1>1
  <2>2. IsFiniteSet(S) /\ Cardinality(S) = IF 0 > n - 1 THEN 0 ELSE n - 1 - 0 + 1
    BY ONLY <2>1, FS_Interval
  <2> HIDE DEF S
  <2>3. QED
    BY <1>1, <2>2
<1>6. IsFiniteSet(D) /\ Cardinality(D) = n
  <2> HIDE DEF S, D
  <2> QED
    BY <1>4, <1>5, FS_Bijection
<1>7. QED
  BY <1>6

\* The box has as many indices as elements, and an index has as many before it
\* as its position says.
LEMMA CountIndices ==
  ASSUME NEW N \in Nat, NEW xs, Boxed(xs, N)
  PROVE  /\ IsFiniteSet(Indices(xs)) /\ Cardinality(Indices(xs)) = NumElementsIn(xs)
         /\ \A i \in Indices(xs) :
                /\ Cardinality({j \in Indices(xs) : Before(j, i)}) = ToLinear(xs, i)
                /\ ToLinear(xs, i) \in 0 .. NumElementsIn(xs) - 1
                /\ FromLinear(xs, ToLinear(xs, i)) = i
<1>1. NumElementsIn(xs) \in Nat
  <2>1. 0 \in 0 .. N
    OBVIOUS
  <2>2. QED
    BY <2>1, BoxSteps
<1>2. ASSUME NEW i \in Indices(xs)
      PROVE  /\ InBox(i, xs, N)
             /\ ToLinear(xs, i) \in 0 .. NumElementsIn(xs) - 1
             /\ FromLinear(xs, ToLinear(xs, i)) = i
  <2>1. InBox(i, xs, N)
    BY IndicesOfBox
  <2>2. QED
    BY <2>1, ToLinearInRange, FromLinearOfToLinear
<1>3. IsFiniteSet(Indices(xs)) /\ Cardinality(Indices(xs)) = NumElementsIn(xs)
  <2>1. Indices(xs) = {j \in Indices(xs) : ToLinear(xs, j) < NumElementsIn(xs)}
    BY <1>1, <1>2
  <2>2. NumElementsIn(xs) \in 0 .. NumElementsIn(xs)
    BY <1>1
  <2>3. /\ IsFiniteSet({j \in Indices(xs) : ToLinear(xs, j) < NumElementsIn(xs)})
        /\ Cardinality({j \in Indices(xs) : ToLinear(xs, j) < NumElementsIn(xs)}) = NumElementsIn(xs)
    BY <2>2, FirstIndices
  <2>4. QED
    BY ONLY <2>1, <2>3
<1>4. ASSUME NEW i \in Indices(xs)
      PROVE  Cardinality({j \in Indices(xs) : Before(j, i)}) = ToLinear(xs, i)
  <2>1. \A j \in Indices(xs) : Before(j, i) <=> ToLinear(xs, j) < ToLinear(xs, i)
    BY <1>2, BeforeIffLess
  <2>2. {j \in Indices(xs) : Before(j, i)} = {j \in Indices(xs) : ToLinear(xs, j) < ToLinear(xs, i)}
    BY <2>1
  <2>3. PICK n \in 0 .. NumElementsIn(xs) : n = ToLinear(xs, i)
    BY <1>1, <1>2
  <2>4. Cardinality({j \in Indices(xs) : ToLinear(xs, j) < n}) = n
    BY FirstIndices
  <2>5. QED
    BY <2>2, <2>3, <2>4
<1>5. QED
  BY <1>2, <1>3, <1>4

--------------------------------------------------------------------------------
(* The elements of a view whose indices start at zero.                        *)

\* A dimension of n indices from zero on.
FromZero(d, n) == d.offset = 0 /\ Size(d) = n /\ Extension(d) = <<0, n>>

IsZeroBased(dims, N) ==
  /\ dims \in Seq(Dimensions) /\ Len(dims) = N
  /\ \A k \in 1 .. N : \E n \in Nat : FromZero(dims[k], n)

\* An extension from zero on is made of a size.
LEMMA ZeroDimension ==
  ASSUME NEW d \in Dimensions, d.offset = 0, ExtensionExists(d), Size(d) >= 0
  PROVE  \E n \in Nat : FromZero(d, n)
<1>1. d.stride \in Int /\ d.nelems \in Int
  BY DEF Dimensions
<1>2. CASE d.nelems = 0
  <2>1. FromZero(d, 0)
    BY <1>2 DEF FromZero, Size, Extension
  <2>2. QED
    BY <2>1
<1>3. CASE d.nelems # 0
  <2>1. d.stride # 0
    BY <1>3 DEF ExtensionExists
  <2>2. PICK f \in Int, n \in Nat : HasSteps(d, f, n)
    BY <2>1, DimensionSteps
  <2>3. d.nelems = d.stride * n /\ Size(d) = n /\ (n # 0 => d.offset = d.stride * f /\ Extension(d) = <<f, f + n>>)
    BY ONLY <2>2 DEF HasSteps
  <2>4. n # 0
    BY ONLY <1>1, <1>3, <2>3
  <2>5. f = 0
    BY ONLY <1>1, <2>1, <2>3, <2>4, d.offset = 0, f \in Int
  <2>6. Extension(d) = <<0, n>>
    BY ONLY <2>3, <2>4, <2>5, n \in Nat
  <2>7. FromZero(d, n)
    BY ONLY <2>3, <2>6, d.offset = 0 DEF FromZero
  <2>8. QED
    BY <2>7
<1>4. QED
  BY <1>2, <1>3

LEMMA ZeroBasedParts ==
  ASSUME NEW N \in Nat, NEW dims, IsZeroBased(dims, N)
  PROVE  /\ DOMAIN dims = 1 .. N
         /\ \A k \in 1 .. N : /\ dims[k].offset = 0 /\ dims[k].stride \in Int
                              /\ Size(dims[k]) \in Nat /\ Extension(dims[k]) = <<0, Size(dims[k])>>
<1>1. dims \in Seq(Dimensions) /\ Len(dims) = N
  BY DEF IsZeroBased
<1>2. ASSUME NEW k \in 1 .. N
      PROVE  /\ dims[k].offset = 0 /\ dims[k].stride \in Int
             /\ Size(dims[k]) \in Nat /\ Extension(dims[k]) = <<0, Size(dims[k])>>
  <2>1. PICK n \in Nat : FromZero(dims[k], n)
    BY DEF IsZeroBased
  <2>2. dims[k].stride \in Int
    <3>1. dims[k] \in Dimensions
      BY <1>1
    <3>2. QED
      BY ONLY <3>1 DEF Dimensions
  <2>3. QED
    BY ONLY <2>1, <2>2, n \in Nat DEF FromZero
<1>3. DOMAIN dims = 1 .. N
  BY ONLY <1>1
<1>4. QED
  BY ONLY <1>2, <1>3

\* The extensions of such a view are a box, of as many elements as it has.
LEMMA ZeroBasedIsBox ==
  ASSUME NEW N \in Nat, NEW dims, IsZeroBased(dims, N)
  PROVE  /\ Boxed(Extensions(dims), N)
         /\ \A k \in 1 .. N : Extensions(dims)[k] = <<0, Size(dims[k])>>
         /\ NumElements(dims) = NumElementsIn(Extensions(dims))
<1>1. DOMAIN dims = 1 .. N /\ \A k \in 1 .. N : Size(dims[k]) \in Nat /\ Extension(dims[k]) = <<0, Size(dims[k])>>
  BY ZeroBasedParts
<1> PICK xs : xs = Extensions(dims)
  OBVIOUS
<1>2. xs = [k \in 1 .. N |-> Extension(dims[k])]
  BY ONLY <1>1, xs = Extensions(dims) DEF Extensions
<1>3. DOMAIN xs = 1 .. N /\ \A k \in 1 .. N : xs[k] = <<0, Size(dims[k])>>
  BY ONLY <1>1, <1>2
<1>4. xs \in Seq(Int \X Int) /\ Len(xs) = N
  <2>1. \A k \in 1 .. N : xs[k] \in Int \X Int
    BY ONLY <1>1, <1>3
  <2>2. xs = [k \in 1 .. N |-> xs[k]]
    BY ONLY <1>2
  <2>3. QED
    BY ONLY <1>3, <2>1, <2>2, N \in Nat
<1>5. Boxed(xs, N)
  <2>1. ASSUME NEW k \in 1 .. N PROVE xs[k][1] = 0 /\ xs[k][2] \in Nat
    BY <1>1, <1>3
  <2>2. QED
    BY ONLY <1>4, <2>1 DEF Boxed
<1>6. NumElements(dims) = NumElementsIn(xs)
  <2>1. \A k \in 1 .. N : Size(dims[k]) \in Int
    BY ONLY <1>1
  <2>2. PICK g \in [0 .. N -> Int] :
            /\ g[0] = 1 /\ g[N] = NumElements(dims)
            /\ \A k \in 1 .. N : g[k] = g[k - 1] * Size(dims[k])
    BY ONLY <1>1, <2>1, N \in Nat, NumElementsSteps
  <2>3. \A k \in 1 .. N : Length(xs[k]) = Size(dims[k])
    BY ONLY <1>3, <2>1 DEF Length
  <2>4. \A k \in 1 .. N : Length(xs[k]) \in Int
    BY ONLY <2>1, <2>3
  <2>5. PICK f \in [0 .. N -> Int] :
            /\ f[0] = 1 /\ f[N] = NumElementsIn(xs)
            /\ \A k \in 1 .. N : f[k] = f[k - 1] * Length(xs[k])
    BY ONLY <1>3, <2>4, N \in Nat, NumElementsInSteps
  <2> DEFINE T == {k \in Nat : k <= N => f[k] = g[k]}
  <2>6. 0 \in T
    BY ONLY <2>2, <2>5
  <2>7. ASSUME NEW k \in Nat, k \in T PROVE k + 1 \in T
    <3> SUFFICES ASSUME k + 1 <= N PROVE f[k + 1] = g[k + 1]
      OBVIOUS
    <3> PICK m \in 1 .. N : m = k + 1 /\ m - 1 = k
      OBVIOUS
    <3>1. f[m - 1] = g[m - 1]
      BY <2>7
    <3>2. QED
      BY ONLY <2>2, <2>3, <2>5, <3>1, m = k + 1, m \in 1 .. N
  <2>8. Nat \subseteq T
    <3> HIDE DEF T
    <3> QED
      BY <2>6, <2>7, Induct
  <2>9. QED
    BY ONLY <2>2, <2>5, <2>8, N \in Nat
<1>7. QED
  BY ONLY <1>3, <1>5, <1>6, xs = Extensions(dims)

\* The element at an index, through the sublayouts or by the layout at once.
LEMMA AddressAt ==
  ASSUME NEW N \in Nat, NEW v, v.base \in Int, IsZeroBased(v.dims, N),
         NEW i \in Seq(Int), Len(i) = N
  PROVE  Address(v, i) = v.base + At(v.dims, i)
<1> PICK dims : dims = v.dims
  OBVIOUS
<1>1. DOMAIN dims = 1 .. N /\ \A k \in 1 .. N : dims[k].offset = 0 /\ dims[k].stride \in Int
  BY ZeroBasedParts
<1>2. DOMAIN i = 1 .. N /\ \A k \in 1 .. N : i[k] \in Int
  OBVIOUS
<1>3. CanDescend(v, i, N)
  BY <1>2 DEF CanDescend, IsZeroBased
<1>4. PICK h : Moves_(h, v, i, N)
  BY ONLY <1>2, <1>3, N \in Nat, WithinSteps
<1>5. HasIndex(dims, i, N)
  BY ONLY <1>1, <1>2 DEF HasIndex
<1>6. PICK g : AddsUp(g, dims, i, N)
  BY ONLY <1>5, N \in Nat, AtSteps
<1>7. /\ h[0] = v.base /\ h[N] = Address(v, i)
      /\ \A k \in 0 .. N : h[k] \in Int /\ g[k] \in Int
      /\ \A k \in 1 .. N : h[k] = h[k - 1] + (i[k] * dims[k].stride - dims[k].offset)
  BY ONLY <1>4, <1>6, dims = v.dims DEF Moves_, AddsUp, Address
<1>8. /\ g[0] = 0 /\ g[N] = At(dims, i)
      /\ \A k \in 1 .. N : g[k] = g[k - 1] + dims[k].offset + i[k] * dims[k].stride
  BY ONLY <1>6 DEF AddsUp
<1> DEFINE T == {k \in Nat : k <= N => h[k] = v.base + g[k]}
<1>9. 0 \in T
  BY <1>7, <1>8
<1>10. ASSUME NEW k \in Nat, k \in T PROVE k + 1 \in T
  <2> SUFFICES ASSUME k + 1 <= N PROVE h[k + 1] = v.base + g[k + 1]
    OBVIOUS
  <2> PICK m \in 1 .. N : m = k + 1 /\ m - 1 = k
    OBVIOUS
  <2>1. h[m - 1] = v.base + g[m - 1] /\ m - 1 \in 0 .. N
    BY <1>10
  <2> PICK p \in Int, s \in Int, x \in Int : p = g[m - 1] /\ s = dims[m].stride /\ x = i[m]
    BY <1>1, <1>2, <1>7, <2>1
  <2>2. h[m] = (v.base + p) + (x * s - 0) /\ g[m] = p + 0 + x * s
    BY ONLY <1>1, <1>7, <1>8, <2>1, m \in 1 .. N, p = g[m - 1], s = dims[m].stride, x = i[m]
  <2>3. h[m] = v.base + g[m]
    <3> PICK y \in Int : y = x * s
      OBVIOUS
    <3> QED
      BY ONLY <2>2, v.base \in Int, p \in Int, y \in Int, y = x * s
  <2>4. QED
    BY ONLY <2>3, m = k + 1
<1>11. Nat \subseteq T
  <2> HIDE DEF T
  <2> QED
    BY <1>9, <1>10, Induct
<1>12. QED
  BY ONLY <1>7, <1>8, <1>11, N \in Nat, dims = v.dims

\* elements()[n] is the element whose index has position n, the element of
\* index i is elements()[n] for the position n of i.
LEMMA ElementAtIsAddress ==
  ASSUME NEW N \in Nat, NEW v, v.base \in Int, IsZeroBased(v.dims, N)
  PROVE  /\ \A n \in 0 .. NumElements(v.dims) - 1 :
                ElementAt(v, n) = Address(v, FromLinear(Extensions(v.dims), n))
         /\ \A i \in Indices(Extensions(v.dims)) :
                ElementAt(v, ToLinear(Extensions(v.dims), i)) = Address(v, i)
<1> PICK xs : xs = Extensions(v.dims)
  OBVIOUS
<1>1. Boxed(xs, N) /\ NumElements(v.dims) = NumElementsIn(xs)
  BY ZeroBasedIsBox
<1>2. ASSUME NEW i, InBox(i, xs, N) PROVE v.base + At(v.dims, i) = Address(v, i)
  <2>1. i \in Seq(Int) /\ Len(i) = N
    BY <1>2 DEF InBox
  <2>2. QED
    BY <2>1, AddressAt
<1>3. ASSUME NEW n \in 0 .. NumElements(v.dims) - 1
      PROVE  ElementAt(v, n) = Address(v, FromLinear(xs, n))
  <2>1. n \in Nat /\ n < NumElementsIn(xs)
    <3>1. NumElementsIn(xs) \in Nat
      <4>1. 0 \in 0 .. N
        OBVIOUS
      <4>2. QED
        BY ONLY <1>1, <4>1, N \in Nat, BoxSteps
    <3>2. QED
      BY <1>1, <3>1
  <2>2. InBox(FromLinear(xs, n), xs, N)
    BY ONLY <1>1, <2>1, N \in Nat, FromLinearInBox
  <2>3. v.base + At(v.dims, FromLinear(xs, n)) = Address(v, FromLinear(xs, n))
    BY ONLY <1>2, <2>2
  <2>4. QED
    BY ONLY <2>3, xs = Extensions(v.dims) DEF ElementAt
<1>4. ASSUME NEW i \in Indices(xs) PROVE ElementAt(v, ToLinear(xs, i)) = Address(v, i)
  <2>1. InBox(i, xs, N)
    BY <1>1, IndicesOfBox
  <2>2. FromLinear(xs, ToLinear(xs, i)) = i
    BY ONLY <1>1, <2>1, N \in Nat, FromLinearOfToLinear
  <2>3. v.base + At(v.dims, i) = Address(v, i)
    BY ONLY <1>2, <2>1
  <2>4. QED
    BY ONLY <2>2, <2>3, xs = Extensions(v.dims) DEF ElementAt
<1>5. QED
  BY <1>3, <1>4

\* One dimension further towards position n: the row, and what is left in it.
IntoRow(s) ==
  [row |-> Subscript(s.row, Quotient(s.left, NumElements(Tail(s.row.dims)))),
   left |-> Remainder(s.left, NumElements(Tail(s.row.dims)))]

Enters(g, v, n, N) ==
  /\ g[0] = [row |-> v, left |-> n] /\ ElementsAt(v, n) = g[N].row.base
  /\ \A k \in 1 .. N : g[k] = IntoRow(g[k - 1])

LEMMA IntoRowSteps ==
  ASSUME NEW N \in Nat, NEW v, NEW n, DOMAIN v.dims = 1 .. N
  PROVE  \E g : Enters(g, v, n, N)
<1> DEFINE base == [row |-> v, left |-> n]
           sq == [j \in DOMAIN v.dims |-> j]
           Body(it, s) == IF s = {} THEN base ELSE IntoRow(it[s \ {Max(s)}])
           iter == CHOOSE it : it = [s \in SUBSET DOMAIN sq |-> Body(it, s)]
           T == {m \in Nat : \E F : F = [s \in SUBSET (1 .. m) |-> Body(F, s)]}
<1>1. DOMAIN sq = 1 .. N
  OBVIOUS
<1>2. ElementsAt(v, n) = iter[DOMAIN sq].row.base
  BY DEF ElementsAt, FoldLeftDomain, FoldLeft, MapThenFoldSet, IntoRow
<1>3. 0 \in T
  <2> DEFINE F == [s \in SUBSET (1 .. 0) |-> base]
  <2>1. \A s \in SUBSET (1 .. 0) : s = {}
    OBVIOUS
  <2>2. \A s \in SUBSET (1 .. 0) : F[s] = Body(F, s)
    <3> HIDE DEF base
    <3> QED
      BY <2>1
  <2>3. F = [s \in SUBSET (1 .. 0) |-> Body(F, s)]
    <3> HIDE DEF Body, base
    <3> QED
      BY <2>2
  <2>4. QED
    <3> HIDE DEF F, Body
    <3> QED
      BY <2>3
<1>4. ASSUME NEW m \in Nat, m \in T PROVE m + 1 \in T
  <2>1. PICK F : F = [s \in SUBSET (1 .. m) |-> Body(F, s)]
    <3> HIDE DEF Body
    <3> QED
      BY <1>4
  <2> DEFINE G == [s \in SUBSET (1 .. m + 1) |->
                     IF m + 1 \in s THEN IntoRow(F[s \ {m + 1}]) ELSE F[s]]
  <2>2. ASSUME NEW s \in SUBSET (1 .. m + 1) PROVE G[s] = Body(G, s)
    <3>1. CASE m + 1 \in s
      <4>1. Max(s) = m + 1 /\ s # {}
        <5>1. s \subseteq Int /\ \A y \in s : y <= m + 1
          OBVIOUS
        <5>2. QED
          BY ONLY <3>1, <5>1, MaxOf
      <4>2. m + 1 \notin s \ {m + 1} /\ s \ {m + 1} \in SUBSET (1 .. m + 1)
        OBVIOUS
      <4>3. G[s \ {m + 1}] = F[s \ {m + 1}]
        BY <4>2
      <4>4. G[s] = IntoRow(F[s \ {m + 1}])
        BY <3>1
      <4>5. QED
        <5> HIDE DEF G, base
        <5> QED
          BY ONLY <4>1, <4>3, <4>4
    <3>2. CASE m + 1 \notin s
      <4>1. s \in SUBSET (1 .. m)
        BY <3>2
      <4>2. F[s] = Body(F, s)
        <5> HIDE DEF Body
        <5> QED
          BY <2>1, <4>1
      <4>3. G[s] = F[s] /\ G[s \ {Max(s)}] = F[s \ {Max(s)}]
        BY <3>2
      <4>4. QED
        <5> HIDE DEF G, base
        <5> QED
          BY ONLY <4>2, <4>3
    <3>3. QED
      BY <3>1, <3>2
  <2>3. G = [s \in SUBSET (1 .. m + 1) |-> Body(G, s)]
    <3> HIDE DEF Body
    <3> QED
      BY <2>2
  <2>4. QED
    <3> HIDE DEF G, Body
    <3> QED
      BY <2>3
<1>5. N \in T
  <2> HIDE DEF T
  <2>1. QED
    BY <1>3, <1>4, Induct
<1>6. iter = [s \in SUBSET (1 .. N) |-> Body(iter, s)]
  <2>1. \E it : it = [s \in SUBSET DOMAIN sq |-> Body(it, s)]
    <3> HIDE DEF Body, sq
    <3> QED
      BY <1>1, <1>5
  <2>2. iter = [s \in SUBSET DOMAIN sq |-> Body(iter, s)]
    <3> HIDE DEF Body
    <3> QED
      BY ONLY <2>1
  <2>3. QED
    <3> HIDE DEF iter, Body, sq
    <3> QED
      BY ONLY <1>1, <2>2
<1>7. iter[{}] = base
  <2>1. iter[{}] = Body(iter, {})
    <3> HIDE DEF iter, Body
    <3> QED
      BY <1>6
  <2>2. QED
    <3> HIDE DEF iter, base
    <3> QED
      BY <2>1
<1>8. ASSUME NEW k \in 1 .. N PROVE iter[1 .. k] = IntoRow(iter[1 .. k - 1])
  <2>1. iter[1 .. k] = Body(iter, 1 .. k)
    <3> HIDE DEF iter, Body
    <3> QED
      BY <1>6, UpTo
  <2>2. Max(1 .. k) = k /\ (1 .. k) \ {k} = 1 .. k - 1 /\ 1 .. k # {}
    BY ONLY N \in Nat, k \in 1 .. N, UpTo
  <2>3. QED
    <3> HIDE DEF iter, base
    <3> QED
      BY ONLY <2>1, <2>2
<1> DEFINE g == [k \in 0 .. N |-> iter[1 .. k]]
<1>9. g[0] = base /\ g[N] = iter[DOMAIN sq]
  <2>1. 1 .. 0 = {} /\ 0 \in 0 .. N /\ N \in 0 .. N
    OBVIOUS
  <2> HIDE DEF iter, base, sq
  <2>2. QED
    BY <1>1, <1>7, <2>1
<1>10. ASSUME NEW k \in 1 .. N PROVE g[k] = IntoRow(g[k - 1])
  <2>1. k - 1 \in 0 .. N /\ k \in 0 .. N
    OBVIOUS
  <2>2. g[k - 1] = iter[1 .. k - 1] /\ g[k] = iter[1 .. k]
    <3> HIDE DEF iter
    <3> QED
      BY <2>1
  <2> HIDE DEF iter, g
  <2>3. QED
    BY ONLY <1>8, <2>2, k \in 1 .. N
<1>11. QED
  <2> HIDE DEF g, iter, sq
  <2> QED
    BY <1>2, <1>9, <1>10 DEF Enters

\* What lies inside of dimension k.
LEMMA RestOfZeroBased ==
  ASSUME NEW N \in Nat, NEW dims, IsZeroBased(dims, N), NEW k \in 0 .. N
  PROVE  /\ IsZeroBased(SubSeq(dims, k + 1, N), N - k)
         /\ NumElements(SubSeq(dims, k + 1, N)) = Inner(Extensions(dims), k)
         /\ \A j \in 1 .. N - k : SubSeq(dims, k + 1, N)[j] = dims[k + j]
<1>1. /\ dims \in Seq(Dimensions) /\ Len(dims) = N /\ DOMAIN dims = 1 .. N
      /\ \A j \in 1 .. N : \E n \in Nat : FromZero(dims[j], n)
  BY DEF IsZeroBased
<1> PICK M \in Nat : M = N - k
  OBVIOUS
<1> PICK ys : ys = SubSeq(dims, k + 1, N)
  OBVIOUS
<1>2. ys \in Seq(Dimensions) /\ Len(ys) = M /\ DOMAIN ys = 1 .. M /\ \A j \in 1 .. M : ys[j] = dims[k + j] /\ k + j \in 1 .. N
  <2>1. k + 1 \in 1 .. N + 1 /\ N - (k + 1) + 1 = M
    OBVIOUS
  <2>2. ys \in Seq(Dimensions) /\ Len(ys) = M
    BY ONLY <1>1, <2>1, ys = SubSeq(dims, k + 1, N), k \in 0 .. N, N \in Nat, M \in Nat, M = N - k
  <2>3. \A j \in 1 .. M : ys[j] = dims[(k + 1) + j - 1]
    BY ONLY <1>1, <2>1, ys = SubSeq(dims, k + 1, N), k \in 0 .. N, N \in Nat, M \in Nat, M = N - k
  <2>4. ASSUME NEW j \in 1 .. M PROVE ys[j] = dims[k + j] /\ k + j \in 1 .. N
    <3> PICK p \in 1 .. N : p = k + j /\ p = (k + 1) + j - 1
      OBVIOUS
    <3>1. ys[j] = dims[p]
      BY ONLY <2>3, p = (k + 1) + j - 1, j \in 1 .. M
    <3>2. QED
      BY ONLY <3>1, p = k + j, p \in 1 .. N
  <2>5. QED
    BY ONLY <2>2, <2>4, M \in Nat
<1>3. IsZeroBased(ys, M)
  BY ONLY <1>1, <1>2 DEF IsZeroBased
<1>4. NumElements(ys) = NumElementsIn(Extensions(ys))
  BY ONLY <1>3, M \in Nat, ZeroBasedIsBox
<1>5. Extensions(ys) = SubSeq(Extensions(dims), k + 1, N)
  <2> PICK xs : xs = Extensions(dims)
    OBVIOUS
  <2>1. xs \in Seq(Int \X Int) /\ Len(xs) = N
    BY ONLY N \in Nat, IsZeroBased(dims, N), xs = Extensions(dims), ZeroBasedIsBox DEF Boxed
  <2>2. \A j \in 1 .. N : xs[j] = Extension(dims[j])
    BY ONLY <1>1, xs = Extensions(dims) DEF Extensions
  <2> PICK zs : zs = SubSeq(xs, k + 1, N)
    OBVIOUS
  <2>3. k + 1 \in 1 .. N + 1 /\ N - (k + 1) + 1 = M
    OBVIOUS
  <2>4. zs = [j \in 1 .. M |-> xs[(k + 1) + j - 1]]
    BY ONLY <2>1, <2>3, zs = SubSeq(xs, k + 1, N), k \in 0 .. N, N \in Nat, M \in Nat, M = N - k
  <2>5. \A j \in 1 .. M : (k + 1) + j - 1 = k + j /\ k + j \in 1 .. N
    OBVIOUS
  <2>6. \A j \in 1 .. M : xs[(k + 1) + j - 1] = Extension(ys[j])
    BY ONLY <1>2, <2>2, <2>5
  <2>7. zs = [j \in 1 .. M |-> Extension(ys[j])]
    BY ONLY <2>4, <2>6
  <2>8. Extensions(ys) = [j \in 1 .. M |-> Extension(ys[j])]
    BY ONLY <1>2 DEF Extensions
  <2>9. QED
    BY ONLY <2>7, <2>8, zs = SubSeq(xs, k + 1, N), xs = Extensions(dims)
<1>6. Inner(Extensions(dims), k) = NumElementsIn(SubSeq(Extensions(dims), k + 1, N))
  <2>1. Len(Extensions(dims)) = N
    BY ONLY N \in Nat, IsZeroBased(dims, N), ZeroBasedIsBox DEF Boxed
  <2>2. QED
    BY ONLY <2>1 DEF Inner
<1>7. QED
  BY ONLY <1>2, <1>3, <1>4, <1>5, <1>6, ys = SubSeq(dims, k + 1, N), M = N - k

\* elements_at(n) finds the same element, one dimension after the other.
LEMMA ElementsAtIsAddress ==
  ASSUME NEW N \in Nat, NEW v, v.base \in Int, IsZeroBased(v.dims, N),
         NEW n \in 0 .. NumElements(v.dims) - 1
  PROVE  ElementsAt(v, n) = Address(v, FromLinear(Extensions(v.dims), n))
<1> PICK dims : dims = v.dims
  OBVIOUS
<1> PICK xs : xs = Extensions(dims)
  OBVIOUS
<1>1. Boxed(xs, N) /\ NumElements(dims) = NumElementsIn(xs) /\ NumElementsIn(xs) \in Nat
  <2>1. Boxed(xs, N) /\ NumElements(dims) = NumElementsIn(xs)
    BY ZeroBasedIsBox
  <2>2. 0 \in 0 .. N
    OBVIOUS
  <2>3. QED
    BY ONLY <2>1, <2>2, N \in Nat, BoxSteps
<1>2. n \in Nat /\ n < NumElementsIn(xs)
  BY <1>1
<1> PICK i : i = FromLinear(xs, n)
  OBVIOUS
<1>3. i \in Seq(Int) /\ Len(i) = N /\ DOMAIN i = 1 .. N /\ \A k \in 1 .. N : i[k] \in Int
  <2>1. InBox(i, xs, N)
    BY ONLY <1>1, <1>2, N \in Nat, i = FromLinear(xs, n), FromLinearInBox
  <2>2. i \in Seq(Int) /\ Len(i) = N
    BY ONLY <2>1 DEF InBox
  <2>3. QED
    BY ONLY <2>2
<1>4. PICK W : Digits(W, xs, n, N)
  BY ONLY <1>1, <1>2, N \in Nat, DigitSteps
<1>5. /\ W[0] = n
      /\ \A k \in 1 .. N : i[k] = Quotient(W[k - 1], Inner(xs, k)) /\ W[k] = Remainder(W[k - 1], Inner(xs, k))
  BY ONLY <1>4, i = FromLinear(xs, n) DEF Digits
<1>6. CanDescend(v, i, N) /\ dims \in Seq(Dimensions) /\ Len(dims) = N /\ DOMAIN dims = 1 .. N
  BY ONLY <1>3, v.base \in Int, IsZeroBased(v.dims, N), N \in Nat, dims = v.dims DEF CanDescend, IsZeroBased
<1>7. PICK h : Moves_(h, v, i, N)
  BY ONLY <1>3, <1>6, N \in Nat, WithinSteps
<1>8. /\ h[0] = v.base /\ h[N] = Address(v, i)
      /\ \A k \in 1 .. N : h[k] = h[k - 1] + (i[k] * dims[k].stride - dims[k].offset)
  BY ONLY <1>7, dims = v.dims DEF Moves_, Address
<1>9. PICK g : Enters(g, v, n, N)
  BY ONLY <1>6, N \in Nat, dims = v.dims, IntoRowSteps
<1>10. /\ g[0] = [row |-> v, left |-> n] /\ ElementsAt(v, n) = g[N].row.base
       /\ \A k \in 1 .. N : g[k] = IntoRow(g[k - 1])
  BY ONLY <1>9 DEF Enters
<1> DEFINE Rest(k) == SubSeq(dims, k + 1, N)
           T == {k \in Nat : k <= N => g[k].row.dims = Rest(k) /\ g[k].row.base = h[k] /\ g[k].left = W[k]}
<1>11. \A k \in 0 .. N : NumElements(Rest(k)) = Inner(xs, k)
  BY RestOfZeroBased
<1>12. 0 \in T
  <2>1. Rest(0) = dims
    BY ONLY <1>6, N \in Nat
  <2>2. QED
    BY ONLY <1>5, <1>8, <1>10, <2>1, dims = v.dims
<1>13. ASSUME NEW k \in Nat, k \in T PROVE k + 1 \in T
  <2> SUFFICES ASSUME k + 1 <= N
               PROVE  g[k + 1].row.dims = Rest(k + 1) /\ g[k + 1].row.base = h[k + 1] /\ g[k + 1].left = W[k + 1]
    OBVIOUS
  <2> PICK m \in 1 .. N : m = k + 1 /\ m - 1 = k /\ m \in 0 .. N
    OBVIOUS
  <2>1. g[k].row.dims = Rest(k) /\ g[k].row.base = h[k] /\ g[k].left = W[k]
    BY <1>13
  <2>2. Tail(Rest(k)) = Rest(m) /\ Rest(k)[1] = dims[m]
    <3>1. Rest(k) \in Seq(Dimensions) /\ Len(Rest(k)) = N - k /\ \A j \in 1 .. N - k : Rest(k)[j] = dims[k + j]
      BY ONLY <1>6, N \in Nat, k \in Nat, k + 1 <= N, SMTT(30)
    <3>2. Rest(m) \in Seq(Dimensions) /\ Len(Rest(m)) = N - m /\ \A j \in 1 .. N - m : Rest(m)[j] = dims[m + j]
      BY ONLY <1>6, N \in Nat, m \in 1 .. N, SMTT(30)
    <3> PICK rs \in Seq(Dimensions), ts \in Seq(Dimensions) : rs = Rest(k) /\ ts = Rest(m)
      BY <3>1, <3>2
    <3>3. Tail(rs) \in Seq(Dimensions) /\ Len(Tail(rs)) = N - m /\ \A j \in 1 .. N - m : Tail(rs)[j] = rs[j + 1]
      <4> PICK L \in Nat : L = Len(rs) /\ L > 0 /\ L - 1 = N - m
        BY ONLY <3>1, rs = Rest(k), m = k + 1, m \in 1 .. N, N \in Nat, k \in Nat
      <4>1. Tail(rs) \in Seq(Dimensions) /\ Len(Tail(rs)) = L - 1 /\ \A j \in 1 .. L - 1 : Tail(rs)[j] = rs[j + 1]
        BY ONLY rs \in Seq(Dimensions), L \in Nat, L = Len(rs), L > 0
      <4>2. QED
        BY ONLY <4>1, L - 1 = N - m
    <3>4. \A j \in 1 .. N - m : j + 1 \in 1 .. N - k /\ k + (j + 1) = m + j
      BY ONLY m = k + 1, m \in 1 .. N, N \in Nat, k \in Nat
    <3>5. \A j \in 1 .. N - m : Tail(rs)[j] = ts[j]
      BY ONLY <3>1, <3>2, <3>3, <3>4, rs = Rest(k), ts = Rest(m)
    <3>6. Tail(rs) = ts
      <4> PICK us \in Seq(Dimensions) : us = Tail(rs)
        BY <3>3
      <4>1. Len(us) = N - m /\ Len(ts) = N - m /\ \A j \in 1 .. N - m : us[j] = ts[j]
        BY ONLY <3>2, <3>3, <3>5, us = Tail(rs), ts = Rest(m)
      <4>2. us = ts
        BY ONLY <4>1, us \in Seq(Dimensions), ts \in Seq(Dimensions)
      <4>3. QED
        BY <4>2
    <3>7. 1 \in 1 .. N - k
      OBVIOUS
    <3>8. Rest(k)[1] = dims[k + 1]
      BY ONLY <3>1, <3>7
    <3>9. QED
      BY ONLY <3>6, <3>8, rs = Rest(k), ts = Rest(m), m = k + 1
  <2> HIDE DEF Rest
  <2>3. g[m] = IntoRow(g[k])
    <3>1. g[m] = IntoRow(g[m - 1])
      BY <1>10
    <3>2. QED
      BY ONLY <3>1, m - 1 = k
  <2>4. NumElements(Rest(m)) = Inner(xs, m)
    BY <1>11
  <2>5. i[m] = Quotient(W[k], Inner(xs, m)) /\ W[m] = Remainder(W[k], Inner(xs, m))
    <3>1. i[m] = Quotient(W[m - 1], Inner(xs, m)) /\ W[m] = Remainder(W[m - 1], Inner(xs, m))
      BY <1>5
    <3>2. QED
      BY ONLY <3>1, m - 1 = k
  <2>6. g[m] = [row |-> Subscript(g[k].row, i[m]), left |-> W[m]]
    BY ONLY <2>1, <2>2, <2>3, <2>4, <2>5 DEF IntoRow
  <2>7. /\ Subscript(g[k].row, i[m]).dims = Rest(m)
        /\ Subscript(g[k].row, i[m]).base = h[k] + (i[m] * dims[m].stride - dims[m].offset)
    BY ONLY <2>1, <2>2 DEF Subscript, View
  <2>8. h[m] = h[k] + (i[m] * dims[m].stride - dims[m].offset)
    <3>1. h[m] = h[m - 1] + (i[m] * dims[m].stride - dims[m].offset)
      BY <1>8
    <3>2. QED
      BY ONLY <3>1, m - 1 = k
  <2>9. g[m].row.dims = Rest(m) /\ g[m].row.base = h[m] /\ g[m].left = W[m]
    BY ONLY <2>6, <2>7, <2>8
  <2>10. QED
    BY ONLY <2>9, m = k + 1
<1>14. Nat \subseteq T
  <2> HIDE DEF T
  <2> QED
    BY <1>12, <1>13, Induct
<1>15. g[N].row.base = h[N]
  <2> HIDE DEF Rest
  <2>1. N \in T /\ N <= N
    BY <1>14
  <2>2. QED
    BY <2>1
<1>16. QED
  BY ONLY <1>8, <1>10, <1>15, i = FromLinear(xs, n), xs = Extensions(dims), dims = v.dims

\* k rows of L elements and r more.
LEMMA QuotientInRow ==
  ASSUME NEW k \in Nat, NEW L \in Nat \ {0}, NEW r \in 0 .. L - 1
  PROVE  /\ k * L + r \in Nat
         /\ Quotient(k * L + r, L) = k /\ Remainder(k * L + r, L) = r
<1> PICK p \in Nat : p = L * k /\ p = k * L
  OBVIOUS
<1> PICK n \in Nat : n = p + r
  OBVIOUS
<1>1. n \div L = k
  <2>1. L * k <= n /\ n < L * k + L
    OBVIOUS
  <2>2. QED
    BY ONLY <2>1, n \in Nat, L \in Nat \ {0}, k \in Nat, DivIs
<1>2. Quotient(n, L) = n \div L
  BY ONLY n \in Nat, L \in Nat \ {0}, QuotientOfNat
<1>3. Remainder(n, L) = n - L * k
  BY ONLY <1>1, <1>2 DEF Remainder
<1>4. QED
  BY ONLY <1>1, <1>2, <1>3, n \in Nat, n = p + r, p = L * k, p = k * L, p \in Nat, r \in 0 .. L - 1

\* The element that elements_at() finds in a row.
LEMMA ElementsAtInRow ==
  ASSUME NEW N \in Nat, NEW v, v.dims \in Seq(Dimensions), Len(v.dims) = N + 1,
         NEW k \in Nat, NEW L \in Nat \ {0}, L = NumElements(Tail(v.dims)), NEW r \in 0 .. L - 1
  PROVE  ElementsAt(v, k * L + r) = ElementsAt(Subscript(v, k), r)
<1> PICK M \in Nat : M = N + 1 /\ M - 1 = N
  OBVIOUS
<1> PICK n \in Nat : n = k * L + r
  BY QuotientInRow
<1>1. Quotient(n, L) = k /\ Remainder(n, L) = r
  BY QuotientInRow, SMTT(30)
<1> PICK u : u = Subscript(v, k)
  OBVIOUS
<1>2. DOMAIN v.dims = 1 .. M /\ u.dims = Tail(v.dims) /\ DOMAIN u.dims = 1 .. N
  <2> PICK ds \in Seq(Dimensions) : ds = v.dims /\ Len(ds) = M
    OBVIOUS
  <2>1. DOMAIN ds = 1 .. M /\ Len(Tail(ds)) = N /\ Tail(ds) \in Seq(Dimensions)
    BY ONLY ds \in Seq(Dimensions), Len(ds) = M, M \in Nat, N \in Nat, M = N + 1
  <2>2. u.dims = Tail(ds)
    BY ONLY u = Subscript(v, k), ds = v.dims DEF Subscript, View
  <2>3. QED
    BY ONLY <2>1, <2>2, ds = v.dims
<1>3. PICK g : Enters(g, v, n, M)
  BY ONLY <1>2, M \in Nat, IntoRowSteps
<1>4. PICK f : Enters(f, u, r, N)
  BY ONLY <1>2, N \in Nat, IntoRowSteps
<1>5. /\ g[0] = [row |-> v, left |-> n] /\ ElementsAt(v, n) = g[M].row.base
      /\ \A j \in 1 .. M : g[j] = IntoRow(g[j - 1])
  BY ONLY <1>3 DEF Enters
<1>6. /\ f[0] = [row |-> u, left |-> r] /\ ElementsAt(u, r) = f[N].row.base
      /\ \A j \in 1 .. N : f[j] = IntoRow(f[j - 1])
  BY ONLY <1>4 DEF Enters
<1>7. g[1] = f[0]
  <2>1. 1 \in 1 .. M /\ 1 - 1 = 0
    OBVIOUS
  <2>2. g[1] = IntoRow(g[0])
    BY ONLY <1>5, <2>1
  <2>3. IntoRow([row |-> v, left |-> n]) = [row |-> Subscript(v, Quotient(n, L)), left |-> Remainder(n, L)]
    BY ONLY L = NumElements(Tail(v.dims)) DEF IntoRow
  <2>4. QED
    BY ONLY <1>1, <1>5, <1>6, <2>2, <2>3, u = Subscript(v, k)
<1> DEFINE T == {j \in Nat : j <= N => g[j + 1] = f[j]}
<1>8. 0 \in T
  BY <1>7
<1>9. ASSUME NEW j \in Nat, j \in T PROVE j + 1 \in T
  <2> SUFFICES ASSUME j + 1 <= N PROVE g[j + 1 + 1] = f[j + 1]
    OBVIOUS
  <2> PICK m \in 1 .. N : m = j + 1 /\ m - 1 = j
    OBVIOUS
  <2> PICK p \in 1 .. M : p = m + 1 /\ p - 1 = m
    OBVIOUS
  <2>1. g[m] = f[m - 1]
    <3>1. g[j + 1] = f[j]
      <4>1. j \in T
        BY ONLY <1>9
      <4>2. j <= N
        BY ONLY j + 1 <= N, j \in Nat, N \in Nat
      <4>3. QED
        BY ONLY <4>1, <4>2
    <3>2. QED
      BY ONLY <3>1, m = j + 1, m - 1 = j
  <2>2. g[p] = IntoRow(g[p - 1])
    BY <1>5
  <2>3. g[p] = IntoRow(g[m])
    BY ONLY <2>2, p - 1 = m
  <2>4. f[m] = IntoRow(f[m - 1])
    BY <1>6
  <2>5. QED
    BY ONLY <2>1, <2>3, <2>4, p = m + 1, m = j + 1
<1>10. Nat \subseteq T
  <2> HIDE DEF T
  <2> QED
    BY <1>8, <1>9, Induct
<1>11. g[M] = f[N]
  BY <1>10
<1>12. QED
  BY ONLY <1>5, <1>6, <1>11, n = k * L + r, u = Subscript(v, k)

--------------------------------------------------------------------------------
(* Rows laid end to end.                                                      *)

LaidOut(g, ss, R) == g[0] = <<>> /\ \A k \in 1 .. R : g[k] = g[k - 1] \o ss[k]

Joins(g, ss, R) == LaidOut(g, ss, R) /\ FoldLeft(\o, <<>>, ss) = g[R]

LEMMA JoinSteps ==
  ASSUME NEW R \in Nat, NEW ss, DOMAIN ss = 1 .. R
  PROVE  \E g : Joins(g, ss, R)
<1> DEFINE Body(it, s) == IF s = {} THEN <<>> ELSE it[s \ {Max(s)}] \o ss[Max(s)]
           iter == CHOOSE it : it = [s \in SUBSET DOMAIN ss |-> Body(it, s)]
           T == {m \in Nat : \E F : F = [s \in SUBSET (1 .. m) |-> Body(F, s)]}
<1>2. FoldLeft(\o, <<>>, ss) = iter[DOMAIN ss]
  BY DEF FoldLeft, MapThenFoldSet
<1>3. 0 \in T
  <2> DEFINE F == [s \in SUBSET (1 .. 0) |-> <<>>]
  <2>1. \A s \in SUBSET (1 .. 0) : s = {}
    OBVIOUS
  <2>2. \A s \in SUBSET (1 .. 0) : F[s] = Body(F, s)
    BY <2>1
  <2>3. F = [s \in SUBSET (1 .. 0) |-> Body(F, s)]
    <3> HIDE DEF Body
    <3> QED
      BY <2>2
  <2>4. QED
    <3> HIDE DEF F, Body
    <3> QED
      BY <2>3
<1>4. ASSUME NEW m \in Nat, m \in T PROVE m + 1 \in T
  <2>1. PICK F : F = [s \in SUBSET (1 .. m) |-> Body(F, s)]
    <3> HIDE DEF Body
    <3> QED
      BY <1>4
  <2> DEFINE G == [s \in SUBSET (1 .. m + 1) |->
                     IF m + 1 \in s THEN F[s \ {m + 1}] \o ss[m + 1] ELSE F[s]]
  <2>2. ASSUME NEW s \in SUBSET (1 .. m + 1) PROVE G[s] = Body(G, s)
    <3>1. CASE m + 1 \in s
      <4>1. Max(s) = m + 1 /\ s # {}
        <5>1. s \subseteq Int /\ \A y \in s : y <= m + 1
          OBVIOUS
        <5>2. QED
          BY ONLY <3>1, <5>1, MaxOf
      <4>2. m + 1 \notin s \ {m + 1} /\ s \ {m + 1} \in SUBSET (1 .. m + 1)
        OBVIOUS
      <4>3. G[s \ {m + 1}] = F[s \ {m + 1}]
        BY <4>2
      <4>4. G[s] = F[s \ {m + 1}] \o ss[m + 1]
        BY <3>1
      <4>5. QED
        <5> HIDE DEF G
        <5> QED
          BY ONLY <4>1, <4>3, <4>4
    <3>2. CASE m + 1 \notin s
      <4>1. s \in SUBSET (1 .. m)
        BY <3>2
      <4>2. F[s] = Body(F, s)
        <5> HIDE DEF Body
        <5> QED
          BY <2>1, <4>1
      <4>3. G[s] = F[s] /\ G[s \ {Max(s)}] = F[s \ {Max(s)}]
        BY <3>2
      <4>4. QED
        <5> HIDE DEF G
        <5> QED
          BY ONLY <4>2, <4>3
    <3>3. QED
      BY <3>1, <3>2
  <2>3. G = [s \in SUBSET (1 .. m + 1) |-> Body(G, s)]
    <3> HIDE DEF Body
    <3> QED
      BY <2>2
  <2>4. QED
    <3> HIDE DEF G, Body
    <3> QED
      BY <2>3
<1>5. R \in T
  <2> HIDE DEF T
  <2>1. QED
    BY <1>3, <1>4, Induct
<1>6. iter = [s \in SUBSET (1 .. R) |-> Body(iter, s)]
  <2>1. \E it : it = [s \in SUBSET DOMAIN ss |-> Body(it, s)]
    <3> HIDE DEF Body
    <3> QED
      BY <1>5
  <2>2. iter = [s \in SUBSET DOMAIN ss |-> Body(iter, s)]
    <3> HIDE DEF Body
    <3> QED
      BY ONLY <2>1
  <2>3. QED
    <3> HIDE DEF iter, Body
    <3> QED
      BY ONLY DOMAIN ss = 1 .. R, <2>2
<1>7. iter[{}] = <<>>
  <2>1. iter[{}] = Body(iter, {})
    <3> HIDE DEF iter, Body
    <3> QED
      BY <1>6
  <2>2. QED
    <3> HIDE DEF iter
    <3> QED
      BY <2>1
<1>8. ASSUME NEW k \in 1 .. R PROVE iter[1 .. k] = iter[1 .. k - 1] \o ss[k]
  <2>1. iter[1 .. k] = Body(iter, 1 .. k)
    <3> HIDE DEF iter, Body
    <3> QED
      BY <1>6, UpTo
  <2>2. Max(1 .. k) = k /\ (1 .. k) \ {k} = 1 .. k - 1 /\ 1 .. k # {}
    BY ONLY R \in Nat, k \in 1 .. R, UpTo
  <2>3. QED
    <3> HIDE DEF iter
    <3> QED
      BY ONLY <2>1, <2>2
<1> DEFINE g == [k \in 0 .. R |-> iter[1 .. k]]
<1>9. g[0] = <<>> /\ g[R] = iter[DOMAIN ss]
  <2>1. 1 .. 0 = {} /\ 0 \in 0 .. R /\ R \in 0 .. R
    OBVIOUS
  <2> HIDE DEF iter
  <2>2. QED
    BY <1>7, <2>1
<1>10. ASSUME NEW k \in 1 .. R PROVE g[k] = g[k - 1] \o ss[k]
  <2>1. k - 1 \in 0 .. R /\ k \in 0 .. R
    OBVIOUS
  <2>2. g[k - 1] = iter[1 .. k - 1] /\ g[k] = iter[1 .. k]
    <3> HIDE DEF iter
    <3> QED
      BY <2>1
  <2> HIDE DEF iter, g
  <2>3. QED
    BY ONLY <1>8, <2>2, k \in 1 .. R
<1>11. QED
  <2> HIDE DEF g, iter
  <2>1. LaidOut(g, ss, R)
    BY ONLY <1>9, <1>10 DEF LaidOut
  <2>2. g[R] = iter[DOMAIN ss]
    BY ONLY <1>9
  <2>3. FoldLeft(\o, <<>>, ss) = g[R]
    BY ONLY <1>2, <2>2, Zenon
  <2>4. Joins(g, ss, R)
    BY <2>1, <2>3 DEF Joins
  <2> QED
    BY <2>4

\* Of R rows of L items each, item j of row k is found (k - 1) * L items further.
RowsOf(ss, R, L, A) == \A k \in 1 .. R : ss[k] \in Seq(A) /\ Len(ss[k]) = L

EndToEnd(s, ss, R, L, A) ==
  /\ s \in Seq(A) /\ Len(s) = R * L
  /\ \A k \in 1 .. R, j \in 1 .. L : s[(k - 1) * L + j] = ss[k][j]

LEMMA JoinedRows ==
  ASSUME NEW R \in Nat, NEW L \in Nat, NEW A, NEW ss, NEW g, LaidOut(g, ss, R), RowsOf(ss, R, L, A)
  PROVE  EndToEnd(g[R], ss, R, L, A)
<1>1. \A k \in 1 .. R : ss[k] \in Seq(A) /\ Len(ss[k]) = L
  BY DEF RowsOf
<1>2. g[0] = <<>> /\ \A k \in 1 .. R : g[k] = g[k - 1] \o ss[k]
  BY DEF LaidOut
<1> DEFINE Is(m) == /\ g[m] \in Seq(A) /\ Len(g[m]) = m * L
                    /\ \A k \in 1 .. m, j \in 1 .. L : g[m][(k - 1) * L + j] = ss[k][j]
           T == {m \in Nat : m <= R => Is(m)}
<1>3. 0 \in T
  <2>1. 0 * L = 0
    BY ONLY L \in Nat
  <2>2. <<>> \in Seq(A) /\ Len(<<>>) = 0 /\ 1 .. 0 = {}
    OBVIOUS
  <2>3. Is(0)
    BY ONLY <1>2, <2>1, <2>2
  <2>4. QED
    BY <2>3
<1>4. ASSUME NEW q \in Nat, q \in T PROVE q + 1 \in T
  <2> SUFFICES ASSUME q + 1 <= R PROVE Is(q + 1)
    OBVIOUS
  <2> PICK m \in 1 .. R : m = q + 1 /\ m - 1 = q
    OBVIOUS
  <2>1. Is(q)
    BY <1>4
  <2> PICK s \in Seq(A), t \in Seq(A) : s = g[q] /\ t = ss[m]
    BY <1>1, <2>1
  <2>2. g[m] = s \o t
    <3>1. g[m] = g[m - 1] \o ss[m]
      BY <1>2
    <3>2. QED
      BY ONLY <3>1, m - 1 = q, s = g[q], t = ss[m]
  <2> PICK a \in Nat : a = q * L
    OBVIOUS
  <2>3. Len(s) = a /\ Len(t) = L
    BY <1>1, <2>1
  <2>4. /\ s \o t \in Seq(A) /\ Len(s \o t) = a + L
        /\ \A i \in 1 .. a + L : (s \o t)[i] = IF i <= a THEN s[i] ELSE t[i - a]
    BY ONLY <2>3, s \in Seq(A), t \in Seq(A), a \in Nat, L \in Nat, SMTT(30)
  <2>5. m * L = a + L
    BY ONLY m = q + 1, a = q * L, q \in Nat, L \in Nat
  <2>6. ASSUME NEW k \in 1 .. m, NEW j \in 1 .. L PROVE (s \o t)[(k - 1) * L + j] = ss[k][j]
    <3>1. CASE k = m
      <4>1. (k - 1) * L + j = a + j
        BY ONLY <3>1, m - 1 = q, a = q * L
      <4>2. a + j \in 1 .. a + L /\ ~(a + j <= a) /\ (a + j) - a = j
        BY ONLY a \in Nat, L \in Nat, j \in 1 .. L
      <4>3. (s \o t)[a + j] = t[j]
        BY ONLY <2>4, <4>2
      <4>4. QED
        BY ONLY <3>1, <4>1, <4>3, t = ss[m]
    <3>2. CASE k # m
      <4>1. k \in 1 .. q
        BY <3>2
      <4> PICK b \in Nat : b = (k - 1) * L
        OBVIOUS
      <4>2. b + L <= a
        <5> PICK d \in Nat : d = q - k
          BY <4>1
        <5>1. (q - k) * L >= 0
          BY ONLY d \in Nat, d = q - k, L \in Nat
        <5>2. q * L = (k - 1) * L + L + (q - k) * L
          BY ONLY q \in Nat, k \in 1 .. m, m \in 1 .. R, R \in Nat, L \in Nat
        <5> PICK e \in Int : e = (q - k) * L
          BY ONLY d \in Nat, d = q - k, L \in Nat
        <5>3. QED
          BY ONLY <5>1, <5>2, b = (k - 1) * L, a = q * L, a \in Nat, b \in Nat, L \in Nat, e = (q - k) * L, e \in Int
      <4>3. b + j \in 1 .. a + L /\ b + j <= a
        BY ONLY <4>2, a \in Nat, b \in Nat, L \in Nat, j \in 1 .. L
      <4>4. (s \o t)[b + j] = s[b + j]
        BY ONLY <2>4, <4>3
      <4>5. s[(k - 1) * L + j] = ss[k][j]
        BY <2>1, <4>1
      <4>6. QED
        BY ONLY <4>4, <4>5, b = (k - 1) * L
    <3>3. QED
      BY <3>1, <3>2
  <2>7. Is(m)
    BY ONLY <2>2, <2>4, <2>5, <2>6
  <2>8. QED
    BY ONLY <2>7, m = q + 1
<1>5. Nat \subseteq T
  <2> HIDE DEF T
  <2> QED
    BY <1>3, <1>4, Induct
<1>6. Is(R)
  <2> HIDE DEF Is
  <2> QED
    BY <1>5
<1>7. QED
  BY ONLY <1>6 DEF EndToEnd

--------------------------------------------------------------------------------
(* The elements of an array are next to each other, in canonical order.       *)

LEMMA ArrayIsContiguous ==
  ASSUME NEW N \in Nat, NEW v, v.base \in Int, IsZeroBased(v.dims, N),
         v.dims = LayoutOf(Extensions(v.dims)), NEW n \in 0 .. NumElements(v.dims) - 1
  PROVE  ElementAt(v, n) = v.base + n
<1> PICK dims : dims = v.dims
  OBVIOUS
<1> PICK xs : xs = Extensions(dims)
  OBVIOUS
<1>1. Boxed(xs, N) /\ NumElements(dims) = NumElementsIn(xs) /\ NumElementsIn(xs) \in Nat
      /\ DOMAIN xs = 1 .. N /\ Len(xs) = N /\ HasLengths(xs, N)
  <2>1. Boxed(xs, N) /\ NumElements(dims) = NumElementsIn(xs)
    BY ZeroBasedIsBox
  <2>2. 0 \in 0 .. N
    OBVIOUS
  <2>3. NumElementsIn(xs) \in Nat /\ DOMAIN xs = 1 .. N /\ HasLengths(xs, N)
    BY ONLY <2>1, <2>2, N \in Nat, BoxSteps
  <2>4. Len(xs) = N
    BY ONLY <2>1 DEF Boxed
  <2>5. QED
    BY ONLY <2>1, <2>3, <2>4
<1>2. n \in Nat /\ n < NumElementsIn(xs)
  BY <1>1
<1> PICK i : i = FromLinear(xs, n)
  OBVIOUS
<1>3. InBox(i, xs, N) /\ ToLinear(xs, i) = n
  BY ONLY <1>1, <1>2, N \in Nat, i = FromLinear(xs, n), FromLinearInBox
<1>4. \A k \in 1 .. N : i[k] \in Int
  <2>1. i \in Seq(Int) /\ Len(i) = N
    BY ONLY <1>3 DEF InBox
  <2>2. QED
    BY ONLY <2>1
<1>5. \A k \in 1 .. N : Inner(xs, k) \in Nat \ {0}
  <2>1. PICK W : Digits(W, xs, n, N)
    BY ONLY <1>1, <1>2, N \in Nat, DigitSteps
  <2>2. QED
    BY ONLY <2>1 DEF Digits
<1>6. \A k \in 1 .. N : dims[k].stride = Inner(xs, k) /\ dims[k].offset = 0 /\ dims[k].stride \in Int
  <2> SUFFICES ASSUME NEW k \in 1 .. N PROVE dims[k].stride = Inner(xs, k)
    BY ZeroBasedParts
  <2>1. dims[k] = DimensionOf(IF Inner(xs, k) # 0 THEN Inner(xs, k) ELSE 1,
                              xs[k][1] * (IF Inner(xs, k) # 0 THEN Inner(xs, k) ELSE 1),
                              Length(xs[k]) * Inner(xs, k))
    <3>1. dims = LayoutOf(xs)
      OBVIOUS
    <3>2. QED
      BY ONLY <1>1, <3>1, k \in 1 .. N DEF LayoutOf, Inner
  <2>2. Inner(xs, k) # 0
    BY <1>5
  <2>3. QED
    BY ONLY <2>1, <2>2 DEF DimensionOf
<1>7. DOMAIN dims = 1 .. N
  BY ZeroBasedParts
<1>8. PICK g : AddsUp(g, dims, i, N)
  <2>1. HasIndex(dims, i, N)
    BY ONLY <1>4, <1>6, <1>7 DEF HasIndex
  <2>2. QED
    BY ONLY <2>1, N \in Nat, AtSteps
<1>9. PICK h : Counts_(h, xs, i, N)
  <2>1. HasDigits(xs, i, N)
    BY ONLY <1>1, <1>4, <1>5 DEF HasDigits
  <2>2. QED
    BY ONLY <2>1, N \in Nat, ToLinearSteps
<1>10. /\ g[0] = 0 /\ g[N] = At(dims, i)
       /\ \A k \in 0 .. N : g[k] \in Int
       /\ \A k \in 1 .. N : g[k] = g[k - 1] + dims[k].offset + i[k] * dims[k].stride
  BY ONLY <1>8 DEF AddsUp
<1>11. /\ h[0] = 0 /\ h[N] = ToLinear(xs, i)
       /\ \A k \in 1 .. N : h[k] = h[k - 1] + i[k] * Inner(xs, k)
  BY ONLY <1>9 DEF Counts_
<1> DEFINE T == {k \in Nat : k <= N => g[k] = h[k]}
<1>12. 0 \in T
  BY <1>10, <1>11
<1>13. ASSUME NEW k \in Nat, k \in T PROVE k + 1 \in T
  <2> SUFFICES ASSUME k + 1 <= N PROVE g[k + 1] = h[k + 1]
    OBVIOUS
  <2> PICK m \in 1 .. N : m = k + 1 /\ m - 1 = k
    OBVIOUS
  <2>1. g[m - 1] = h[m - 1] /\ g[m - 1] \in Int
    BY <1>10, <1>13
  <2>2. g[m] = g[m - 1] + dims[m].offset + i[m] * dims[m].stride /\ h[m] = h[m - 1] + i[m] * Inner(xs, m)
    BY <1>10, <1>11
  <2> PICK a \in Int : a = g[m - 1]
    BY <2>1
  <2>3. dims[m].stride = Inner(xs, m) /\ dims[m].offset = 0
    BY <1>6
  <2>4. g[m] = h[m]
    BY ONLY <2>1, <2>2, <2>3, a = g[m - 1], a \in Int
  <2>5. QED
    BY ONLY <2>4, m = k + 1
<1>14. Nat \subseteq T
  <2> HIDE DEF T
  <2> QED
    BY <1>12, <1>13, Induct
<1>15. At(dims, i) = n
  <2>1. g[N] = h[N]
    BY <1>14
  <2>2. QED
    BY ONLY <1>3, <1>10, <1>11, <2>1
<1>16. QED
  BY ONLY <1>15, i = FromLinear(xs, n), xs = Extensions(dims), dims = v.dims DEF ElementAt

--------------------------------------------------------------------------------
(* The elements of a view are those of its rows, one row after the other.     *)

LEMMA TailIsRest ==
  ASSUME NEW N \in Nat, NEW dims \in Seq(Dimensions), Len(dims) = N + 1
  PROVE  /\ Tail(dims) = SubSeq(dims, 2, N + 1)
         /\ Tail(dims) \in Seq(Dimensions) /\ Len(Tail(dims)) = N
         /\ \A k \in 1 .. N : Tail(dims)[k] = dims[k + 1]
<1> PICK M \in Nat : M = N + 1 /\ M - 1 = N /\ M > 0
  OBVIOUS
<1>1. Tail(dims) \in Seq(Dimensions) /\ Len(Tail(dims)) = N /\ \A k \in 1 .. N : Tail(dims)[k] = dims[k + 1]
  <2>1. Tail(dims) \in Seq(Dimensions) /\ Len(Tail(dims)) = M - 1 /\ \A k \in 1 .. M - 1 : Tail(dims)[k] = dims[k + 1]
    BY ONLY dims \in Seq(Dimensions), Len(dims) = N + 1, M \in Nat, M = N + 1, M > 0
  <2>2. QED
    BY ONLY <2>1, M - 1 = N
<1>2. SubSeq(dims, 2, M) \in Seq(Dimensions) /\ Len(SubSeq(dims, 2, M)) = N
      /\ \A k \in 1 .. N : SubSeq(dims, 2, M)[k] = dims[2 + k - 1]
  BY ONLY dims \in Seq(Dimensions), Len(dims) = N + 1, M \in Nat, M = N + 1, N \in Nat
<1>3. ASSUME NEW k \in 1 .. N PROVE SubSeq(dims, 2, M)[k] = dims[k + 1]
  <2> PICK m \in Int : m = 2 + k - 1 /\ m = k + 1
    OBVIOUS
  <2>1. SubSeq(dims, 2, M)[k] = dims[m]
    BY ONLY <1>2, k \in 1 .. N, m = 2 + k - 1
  <2>2. QED
    BY ONLY <2>1, m = k + 1
<1> PICK s \in Seq(Dimensions), t \in Seq(Dimensions) : s = Tail(dims) /\ t = SubSeq(dims, 2, M)
  BY <1>1, <1>2
<1>4. Len(s) = N /\ Len(t) = N /\ \A k \in 1 .. N : s[k] = t[k]
  BY ONLY <1>1, <1>2, <1>3, s = Tail(dims), t = SubSeq(dims, 2, M)
<1>5. s = t
  BY ONLY <1>4, s \in Seq(Dimensions), t \in Seq(Dimensions)
<1>6. QED
  BY ONLY <1>1, <1>5, s = Tail(dims), t = SubSeq(dims, 2, M), M = N + 1

\* So many rows of so many elements, and what row k is.
HasRows(v, N, R, L) ==
  /\ R \in Nat /\ L \in Nat /\ R = Size(v.dims[1]) /\ L = NumElements(Tail(v.dims))
  /\ NumElements(v.dims) = R * L /\ IsZeroBased(Tail(v.dims), N)
  /\ Extensions(v.dims)[1] = <<0, R>> /\ v.dims[1].offset = 0 /\ v.dims[1].stride \in Int
  /\ \A k \in 0 .. R - 1 :
        /\ Subscript(v, k) = View(Tail(v.dims), v.base + k * v.dims[1].stride)
        /\ Subscript(v, k).base \in Int
        /\ \A j \in 0 .. L - 1 : k * L + j \in 0 .. R * L - 1 /\ ElementAt(v, k * L + j) = ElementAt(Subscript(v, k), j)

LEMMA RowsOfElements ==
  ASSUME NEW N \in Nat, NEW v, v.base \in Int, IsZeroBased(v.dims, N + 1)
  PROVE  \E R, L : HasRows(v, N, R, L)
<1> PICK M \in Nat : M = N + 1 /\ M - 1 = N
  OBVIOUS
<1> PICK dims : dims = v.dims
  OBVIOUS
<1>1. IsZeroBased(dims, M) /\ dims \in Seq(Dimensions) /\ Len(dims) = M
  BY DEF IsZeroBased
<1>2. Tail(dims) = SubSeq(dims, 2, M) /\ Len(Tail(dims)) = N
  BY ONLY <1>1, M = N + 1, N \in Nat, TailIsRest
<1> PICK xs : xs = Extensions(dims)
  OBVIOUS
<1> PICK one : one \in 0 .. M /\ one \in 1 .. M /\ one = 1 /\ one + 1 = 2 /\ M - one = N /\ one - 1 = 0
  OBVIOUS
<1>3. /\ Size(dims[1]) \in Nat /\ dims[1].offset = 0 /\ dims[1].stride \in Int
      /\ xs[1] = <<0, Size(dims[1])>> /\ Boxed(xs, M) /\ NumElements(dims) = NumElementsIn(xs)
  <2>1. Size(dims[one]) \in Nat /\ dims[one].offset = 0 /\ dims[one].stride \in Int
    BY ONLY <1>1, M \in Nat, one \in 1 .. M, ZeroBasedParts
  <2>2. xs[one] = <<0, Size(dims[one])>> /\ Boxed(xs, M) /\ NumElements(dims) = NumElementsIn(xs)
    BY ONLY <1>1, M \in Nat, one \in 1 .. M, xs = Extensions(dims), ZeroBasedIsBox
  <2>3. QED
    BY ONLY <2>1, <2>2, one = 1
<1>4. IsZeroBased(Tail(dims), N) /\ NumElements(Tail(dims)) = Inner(xs, 1)
  <2>1. IsZeroBased(SubSeq(dims, one + 1, M), M - one) /\ NumElements(SubSeq(dims, one + 1, M)) = Inner(xs, one)
    BY ONLY <1>1, M \in Nat, one \in 0 .. M, xs = Extensions(dims), RestOfZeroBased
  <2>2. QED
    BY ONLY <1>2, <2>1, one = 1, one + 1 = 2, M - one = N
<1>5. Inner(xs, 1) \in Nat /\ NumElementsIn(xs) = Size(dims[1]) * Inner(xs, 1)
  <2>1. Inner(xs, one) \in Nat /\ Inner(xs, 0) = NumElementsIn(xs) /\ Inner(xs, one - 1) = xs[one][2] * Inner(xs, one)
    BY ONLY <1>3, M \in Nat, one \in 0 .. M, one \in 1 .. M, BoxSteps
  <2>2. QED
    BY ONLY <1>3, <2>1, one = 1, one - 1 = 0
<1> PICK R \in Nat, L \in Nat : R = Size(dims[1]) /\ L = Inner(xs, 1)
  BY <1>3, <1>5
<1>6. NumElements(dims) = R * L /\ L = NumElements(Tail(dims))
  BY ONLY <1>3, <1>4, <1>5, R = Size(dims[1]), L = Inner(xs, 1)
<1>7. ASSUME NEW k \in 0 .. R - 1
      PROVE  /\ Subscript(v, k) = View(Tail(dims), v.base + k * dims[1].stride)
             /\ Subscript(v, k).base \in Int
             /\ \A j \in 0 .. L - 1 : k * L + j \in 0 .. R * L - 1 /\ ElementAt(v, k * L + j) = ElementAt(Subscript(v, k), j)
  <2> PICK s \in Int : s = dims[1].stride
    BY <1>3
  <2> PICK t : t = k * s
    OBVIOUS
  <2>1. t \in Int /\ v.base + (t - 0) = v.base + t
    BY ONLY k \in 0 .. R - 1, R \in Nat, s \in Int, t = k * s, v.base \in Int
  <2>2. Subscript(v, k) = View(Tail(dims), v.base + k * dims[1].stride)
    BY ONLY <1>3, <2>1, dims = v.dims, s = dims[1].stride, t = k * s DEF Subscript
  <2> PICK u : u = Subscript(v, k)
    OBVIOUS
  <2>3. u.base \in Int /\ u.dims = Tail(dims)
    BY ONLY <2>1, <2>2, u = Subscript(v, k), s = dims[1].stride, t = k * s, v.base \in Int DEF View
  <2>4. ASSUME NEW j \in 0 .. L - 1
        PROVE  k * L + j \in 0 .. R * L - 1 /\ ElementAt(v, k * L + j) = ElementAt(u, j)
    <3> PICK n \in Nat : n = k * L + j
      <4>1. k \in Nat /\ L \in Nat \ {0}
        OBVIOUS
      <4>2. QED
        BY ONLY <4>1, j \in 0 .. L - 1, QuotientInRow
    <3>1. n \in 0 .. R * L - 1
      <4> PICK d \in Nat : d = R - 1 - k
        OBVIOUS
      <4>1. R * L = k * L + L + d * L /\ d * L >= 0
        BY ONLY R \in Nat, L \in Nat, k \in 0 .. R - 1, d \in Nat, d = R - 1 - k
      <4> PICK a \in Nat, e \in Nat, p \in Nat : a = k * L /\ e = d * L /\ p = R * L
        BY ONLY k \in 0 .. R - 1, R \in Nat, L \in Nat, d \in Nat
      <4>2. QED
        BY ONLY <4>1, a = k * L, e = d * L, p = R * L, a \in Nat, e \in Nat, p \in Nat, n = k * L + j, n \in Nat, j \in 0 .. L - 1, L \in Nat
    <3>2. ElementsAt(v, n) = ElementsAt(u, j)
      <4>1. k \in Nat /\ L \in Nat \ {0} /\ v.dims \in Seq(Dimensions) /\ Len(v.dims) = N + 1
        BY <1>1
      <4>2. L = NumElements(Tail(v.dims))
        BY ONLY <1>6, dims = v.dims
      <4>3. ElementsAt(v, k * L + j) = ElementsAt(Subscript(v, k), j)
        BY ONLY <4>1, <4>2, N \in Nat, j \in 0 .. L - 1, ElementsAtInRow
      <4>4. QED
        BY ONLY <4>3, n = k * L + j, u = Subscript(v, k)
    <3>3. ElementsAt(v, n) = ElementAt(v, n)
      <4>1. n \in 0 .. NumElements(v.dims) - 1
        BY ONLY <1>6, <3>1, dims = v.dims
      <4>2. ElementsAt(v, n) = Address(v, FromLinear(Extensions(v.dims), n))
        BY ONLY <1>1, <4>1, dims = v.dims, M \in Nat, v.base \in Int, ElementsAtIsAddress
      <4>3. ElementAt(v, n) = Address(v, FromLinear(Extensions(v.dims), n))
        BY ONLY <1>1, <4>1, dims = v.dims, M \in Nat, v.base \in Int, ElementAtIsAddress
      <4>4. QED
        BY ONLY <4>2, <4>3
    <3>4. ElementsAt(u, j) = ElementAt(u, j)
      <4>1. j \in 0 .. NumElements(u.dims) - 1 /\ IsZeroBased(u.dims, N) /\ u.base \in Int
        BY ONLY <1>4, <1>6, <2>3, j \in 0 .. L - 1
      <4>2. ElementsAt(u, j) = Address(u, FromLinear(Extensions(u.dims), j))
        BY ONLY <4>1, N \in Nat, ElementsAtIsAddress
      <4>3. ElementAt(u, j) = Address(u, FromLinear(Extensions(u.dims), j))
        BY ONLY <4>1, N \in Nat, ElementAtIsAddress
      <4>4. QED
        BY ONLY <4>2, <4>3
    <3>5. QED
      BY ONLY <3>1, <3>2, <3>3, <3>4, n = k * L + j
  <2>5. QED
    BY ONLY <2>2, <2>3, <2>4, u = Subscript(v, k)
<1>8. HasRows(v, N, R, L)
  BY ONLY <1>3, <1>4, <1>6, <1>7, R \in Nat, L \in Nat, R = Size(dims[1]), xs = Extensions(dims), dims = v.dims DEF HasRows
<1>9. QED
  BY <1>8

--------------------------------------------------------------------------------
(* Neighbours in canonical order.                                             *)

\* Index b is the one after a: it is one more in dimension p, the last in which
\* a has not reached its end, and starts over in the dimensions inside.
Neighbours(xs, a, b, p, N) ==
  /\ b[p] = a[p] + 1
  /\ \A k \in 1 .. p - 1 : a[k] = b[k]
  /\ \A k \in p + 1 .. N : a[k] = xs[k][2] - 1 /\ b[k] = 0

LEMMA BoxRange ==
  ASSUME NEW N \in Nat, NEW xs, Boxed(xs, N), NEW i, InBox(i, xs, N)
  PROVE  /\ DOMAIN i = 1 .. N
         /\ \A k \in 1 .. N : xs[k][2] \in Nat /\ i[k] \in Int /\ 0 <= i[k] /\ i[k] <= xs[k][2] - 1
<1>1. DOMAIN i = 1 .. N
  BY DEF InBox
<1>2. ASSUME NEW k \in 1 .. N
      PROVE  xs[k][2] \in Nat /\ i[k] \in Int /\ 0 <= i[k] /\ i[k] <= xs[k][2] - 1
  <2> PICK x \in Nat : x = xs[k][2]
    BY BoxSteps
  <2>1. i[k] \in 0 .. x - 1
    BY DEF InBox
  <2>2. QED
    BY ONLY <2>1, x \in Nat, x = xs[k][2]
<1>3. QED
  BY ONLY <1>1, <1>2

LEMMA NeighboursFollow ==
  ASSUME NEW N \in Nat, NEW xs, Boxed(xs, N), NEW a, InBox(a, xs, N), NEW b, InBox(b, xs, N),
         NEW p \in 1 .. N, Neighbours(xs, a, b, p, N)
  PROVE  ToLinear(xs, b) = ToLinear(xs, a) + 1
<1>1. DOMAIN a = 1 .. N /\ DOMAIN b = 1 .. N
  BY BoxRange
<1>2. \A k \in 1 .. N : /\ xs[k][2] \in Nat
                        /\ a[k] \in Int /\ 0 <= a[k] /\ a[k] <= xs[k][2] - 1
                        /\ b[k] \in Int /\ 0 <= b[k] /\ b[k] <= xs[k][2] - 1
  BY BoxRange
<1>3. PICK S \in Nat : S = NumElementsIn(xs)
  <2>1. 0 \in 0 .. N
    OBVIOUS
  <2>2. QED
    BY <2>1, BoxSteps
<1>4. ToLinear(xs, a) \in 0 .. S - 1 /\ ToLinear(xs, b) \in 0 .. S - 1
  BY <1>3, ToLinearInRange
<1> PICK n \in Nat, m \in Nat : n = ToLinear(xs, a) /\ m = ToLinear(xs, b) /\ m < S
  BY <1>4
<1>5. n < m
  <2>1. a[p] < b[p]
    BY <1>2 DEF Neighbours
  <2>2. Before(a, b)
    BY <1>1, <2>1 DEF Before, Neighbours
  <2>3. QED
    BY <2>2, BeforeIffLess
<1>6. ~(n + 1 < m)
  <2> SUFFICES ASSUME n + 1 < m PROVE FALSE
    OBVIOUS
  <2>1. n + 1 \in Nat /\ n + 1 < NumElementsIn(xs)
    BY ONLY n \in Nat, m \in Nat, m < S, S \in Nat, n + 1 < m, <1>3
  <2> PICK c : c = FromLinear(xs, n + 1)
    OBVIOUS
  <2>2. InBox(c, xs, N) /\ ToLinear(xs, c) = n + 1
    BY ONLY <2>1, c = FromLinear(xs, n + 1), N \in Nat, Boxed(xs, N), FromLinearInBox
  <2>3. Before(a, c) /\ Before(c, b)
    <3>1. ToLinear(xs, a) < ToLinear(xs, c) /\ ToLinear(xs, c) < ToLinear(xs, b)
      BY <2>2
    <3>2. QED
      BY <2>2, <3>1, BeforeIffLess
  <2>4. DOMAIN c = 1 .. N /\ \A k \in 1 .. N : c[k] \in Int /\ 0 <= c[k] /\ c[k] <= xs[k][2] - 1
    BY <2>2, BoxRange
  <2>5. PICK k \in 1 .. N : a[k] < c[k] /\ \A l \in 1 .. k - 1 : a[l] = c[l]
    BY <1>1, <2>3 DEF Before
  <2>6. PICK l \in 1 .. N : c[l] < b[l] /\ \A j \in 1 .. l - 1 : c[j] = b[j]
    BY <2>3, <2>4 DEF Before
  <2>7. k <= p /\ l <= p
    <3>1. ~(k \in p + 1 .. N)
      <4>1. a[k] # xs[k][2] - 1
        <5> PICK x \in Nat, u \in Int, w \in Int : x = xs[k][2] /\ u = a[k] /\ w = c[k]
          BY <1>2, <2>4
        <5>1. u < w /\ w <= x - 1
          BY <2>4, <2>5
        <5>2. QED
          BY ONLY <5>1, x \in Nat, u \in Int, w \in Int, x = xs[k][2], u = a[k]
      <4>2. QED
        BY <4>1 DEF Neighbours
    <3>2. ~(l \in p + 1 .. N)
      <4>1. b[l] # 0
        <5> PICK u \in Int, w \in Int : u = c[l] /\ w = b[l]
          BY <1>2, <2>4
        <5>1. u < w /\ 0 <= u
          BY <2>4, <2>6
        <5>2. QED
          BY ONLY <5>1, u \in Int, w \in Int, w = b[l]
      <4>2. QED
        BY <4>1 DEF Neighbours
    <3>3. QED
      BY <3>1, <3>2
  <2>8. b[p] = a[p] + 1 /\ \A j \in 1 .. p - 1 : a[j] = b[j]
    BY DEF Neighbours
  <2>9. CASE l < k
    <3>1. l \in 1 .. k - 1 /\ l \in 1 .. p - 1
      BY <2>7, <2>9
    <3>2. a[l] = c[l] /\ a[l] = b[l]
      BY ONLY <2>5, <2>8, <3>1
    <3>3. QED
      BY ONLY <2>6, <3>2, <1>2, <2>4, l \in 1 .. N
  <2>10. CASE k < l
    <3>1. k \in 1 .. l - 1 /\ k \in 1 .. p - 1
      BY <2>7, <2>10
    <3>2. c[k] = b[k] /\ a[k] = b[k]
      BY ONLY <2>6, <2>8, <3>1
    <3>3. QED
      BY ONLY <2>5, <3>2, <1>2, <2>4, k \in 1 .. N
  <2>11. CASE k = l /\ k < p
    <3>1. a[k] = b[k] /\ c[k] < b[k]
      BY <2>6, <2>8, <2>11
    <3>2. QED
      BY ONLY <2>5, <3>1, <1>2, <2>4, k \in 1 .. N
  <2>12. CASE k = l /\ k = p
    <3>1. c[k] < a[k] + 1
      BY <2>6, <2>8, <2>12
    <3>2. a[k] < c[k] /\ a[k] \in Int /\ c[k] \in Int
      BY ONLY <2>5, <1>2, <2>4, k \in 1 .. N
    <3>3. QED
      BY ONLY <3>1, <3>2
  <2>13. QED
    BY <2>7, <2>9, <2>10, <2>11, <2>12
<1>7. m = n + 1
  BY ONLY <1>5, <1>6, n \in Nat, m \in Nat
<1>8. QED
  BY ONLY <1>7, n = ToLinear(xs, a), m = ToLinear(xs, b)

\* The first index and the last.
LEMMA FirstAndLast ==
  ASSUME NEW N \in Nat, NEW xs, Boxed(xs, N), NumElementsIn(xs) # 0, NEW i, InBox(i, xs, N)
  PROVE  /\ (\A k \in 1 .. N : i[k] = 0) => ToLinear(xs, i) = 0 /\ i = FromLinear(xs, 0)
         /\ (\A k \in 1 .. N : i[k] = xs[k][2] - 1)
                => ToLinear(xs, i) = NumElementsIn(xs) - 1 /\ i = FromLinear(xs, NumElementsIn(xs) - 1)
<1>1. PICK S \in Nat : S = NumElementsIn(xs) /\ S # 0
  <2>1. 0 \in 0 .. N
    OBVIOUS
  <2>2. QED
    BY <2>1, BoxSteps
<1>2. PICK n \in 0 .. S - 1 : n = ToLinear(xs, i)
  BY <1>1, ToLinearInRange
<1>3. FromLinear(xs, n) = i
  BY <1>2, FromLinearOfToLinear
<1>4. DOMAIN i = 1 .. N /\ \A k \in 1 .. N : xs[k][2] \in Nat /\ i[k] \in Int
  BY BoxRange
<1>5. ASSUME \A k \in 1 .. N : i[k] = 0 PROVE n = 0
  <2> PICK c : c = FromLinear(xs, 0)
    OBVIOUS
  <2>1. InBox(c, xs, N) /\ ToLinear(xs, c) = 0
    BY <1>1, FromLinearInBox
  <2>2. ~Before(c, i)
    <3>1. DOMAIN c = 1 .. N /\ \A k \in 1 .. N : c[k] \in Int /\ 0 <= c[k]
      BY <2>1, BoxRange
    <3>2. QED
      BY <1>5, <3>1 DEF Before
  <2>3. QED
    BY <1>2, <2>1, <2>2, BeforeIffLess
<1>6. ASSUME \A k \in 1 .. N : i[k] = xs[k][2] - 1 PROVE n = S - 1
  <2> PICK l \in Nat : l = S - 1
    BY <1>1
  <2> PICK c : c = FromLinear(xs, l)
    OBVIOUS
  <2>1. InBox(c, xs, N) /\ ToLinear(xs, c) = l
    BY <1>1, FromLinearInBox
  <2>2. ~Before(i, c)
    <3>1. \A k \in 1 .. N : c[k] \in Int /\ c[k] <= xs[k][2] - 1
      BY <2>1, BoxRange
    <3>2. ASSUME NEW k \in 1 .. N PROVE ~(i[k] < c[k])
      <4> PICK x \in Nat, w \in Int : x = xs[k][2] /\ w = c[k] /\ w <= x - 1 /\ i[k] = x - 1
        BY <1>4, <1>6, <3>1
      <4>1. QED
        BY ONLY x \in Nat, w \in Int, w = c[k], w <= x - 1, i[k] = x - 1
    <3>3. QED
      BY <1>4, <3>2 DEF Before
  <2>3. QED
    BY <1>1, <1>2, <2>1, <2>2, BeforeIffLess
<1>7. QED
  BY <1>1, <1>2, <1>3, <1>5, <1>6

\* The place behind the last: all of the first dimension, and nothing of the others.
LEMMA PlaceBehind ==
  ASSUME NEW N \in Nat, N # 0, NEW xs, Boxed(xs, N), NumElementsIn(xs) # 0
  PROVE  \E e : /\ e = FromLinear(xs, NumElementsIn(xs)) /\ ToLinear(xs, e) = NumElementsIn(xs)
                /\ DOMAIN e = 1 .. N /\ e[1] = xs[1][2] /\ \A k \in 2 .. N : e[k] = 0
<1> PICK S \in Nat : S = NumElementsIn(xs) /\ S # 0
  <2>1. 0 \in 0 .. N
    OBVIOUS
  <2>2. QED
    BY <2>1, BoxSteps
<1> DEFINE P(k) == Inner(xs, k)
<1>1. /\ DOMAIN xs = 1 .. N /\ P(0) = S
      /\ \A k \in 0 .. N : P(k) \in Nat
      /\ \A k \in 1 .. N : /\ xs[k][2] \in Nat /\ k - 1 \in 0 .. N /\ k \in 0 .. N
                           /\ P(k - 1) = xs[k][2] * P(k)
  BY BoxSteps
<1>2. Len(xs) = N
  BY DEF Boxed
<1> HIDE DEF P
<1> DEFINE T == {m \in Nat : m <= N => P(m) # 0 /\ \E c \in Nat : S = P(m) * c}
<1>3. 0 \in T
  <2>1. S = P(0) * 1
    BY <1>1
  <2>2. QED
    BY <1>1, <2>1
<1>4. ASSUME NEW m \in Nat, m \in T PROVE m + 1 \in T
  <2> SUFFICES ASSUME m + 1 <= N PROVE P(m + 1) # 0 /\ \E c \in Nat : S = P(m + 1) * c
    OBVIOUS
  <2> PICK l \in 1 .. N : l = m + 1 /\ l - 1 = m
    OBVIOUS
  <2> PICK c \in Nat : P(m) # 0 /\ S = P(m) * c
    BY <1>4
  <2> PICK p \in Nat, q \in Nat, x \in Nat : p = P(l - 1) /\ q = P(l) /\ x = xs[l][2]
    BY <1>1
  <2>1. p = x * q /\ p # 0 /\ S = p * c
    BY <1>1
  <2>2. q # 0 /\ S = q * (x * c) /\ x * c \in Nat
    BY ONLY <2>1, p \in Nat, q \in Nat, x \in Nat, c \in Nat
  <2>3. QED
    BY <2>2
<1>5. ASSUME NEW m \in 0 .. N PROVE P(m) \in Nat \ {0} /\ \E c \in Nat : S = P(m) * c
  <2>1. Nat \subseteq T
    <3> HIDE DEF T
    <3> QED
      BY <1>3, <1>4, Induct
  <2>2. m \in T
    BY <2>1
  <2>3. QED
    BY <1>1, <2>2
<1> PICK e : e = FromLinear(xs, S)
  OBVIOUS
<1>6. DOMAIN e = 1 .. N
  BY <1>2 DEF FromLinear
<1>7. e[1] = xs[1][2]
  <2>1. 1 \in 1 .. N
    OBVIOUS
  <2>2. e[1] = Quotient(S, P(1))
    BY <1>2, <2>1 DEF FromLinear, P, Inner
  <2>3. 1 \in 0 .. N /\ 1 - 1 = 0
    OBVIOUS
  <2>4. P(1) \in Nat \ {0}
    BY ONLY <1>5, <2>3
  <2>5. S = xs[1][2] * P(1) /\ xs[1][2] \in Nat
    <3>1. P(1 - 1) = xs[1][2] * P(1)
      BY ONLY <1>1, <2>1
    <3>2. QED
      BY <1>1, <2>1, <2>3, <3>1
  <2> PICK p \in Int, x \in Int : p = P(1) /\ x = xs[1][2] /\ p # 0
    BY <2>4, <2>5
  <2>6. S = p * x
    BY <2>5
  <2>7. Quotient(p * x, p) = x
    BY ONLY p \in Int, x \in Int, p # 0, QuotientExact
  <2>8. QED
    BY <2>2, <2>6, <2>7
<1>8. ASSUME NEW k \in 2 .. N PROVE e[k] = 0
  <2>1. k \in 1 .. N /\ k # 1 /\ k - 1 \in 0 .. N /\ k \in 0 .. N
    OBVIOUS
  <2>2. e[k] = Quotient(Remainder(S, P(k - 1)), P(k))
    BY <1>2, <2>1 DEF FromLinear, P, Inner
  <2>3. PICK p \in Nat \ {0}, q \in Nat \ {0} : p = P(k - 1) /\ q = P(k)
    BY <1>5, <2>1
  <2>4. Remainder(S, p) = 0
    <3>1. \E c \in Int : S = p * c
      BY <1>5, <2>1, <2>3
    <3>2. S \in Int /\ p \in Int /\ p # 0
      OBVIOUS
    <3>3. QED
      BY ONLY <3>1, <3>2, RemainderZero
  <2>5. Quotient(0, q) = 0
    <3>1. q \in Int /\ q # 0 /\ 0 \in Int /\ q * 0 = 0
      OBVIOUS
    <3>2. Quotient(q * 0, q) = 0
      BY ONLY <3>1, QuotientExact
    <3>3. QED
      BY ONLY <3>1, <3>2
  <2>6. QED
    BY ONLY <2>2, <2>3, <2>4, <2>5
<1>9. ToLinear(xs, e) = S
  <2>1. HasDigits(xs, e, N)
    <3>1. \A k \in 1 .. N : e[k] \in Int
      <4> SUFFICES ASSUME NEW k \in 1 .. N PROVE e[k] \in Int
        OBVIOUS
      <4>1. CASE k = 1
        BY <1>1, <1>7, <4>1
      <4>2. CASE k # 1
        BY <1>8, <4>2
      <4>3. QED
        BY <4>1, <4>2
    <3>2. QED
      <4>1. \A k \in 1 .. N : Inner(xs, k) \in Int
        BY <1>1 DEF P
      <4>2. QED
        BY ONLY <1>1, <3>1, <4>1 DEF HasDigits
  <2>2. PICK g : Counts_(g, xs, e, N)
    BY ONLY <2>1, N \in Nat, ToLinearSteps
  <2>3. /\ g \in [0 .. N -> Int] /\ g[0] = 0 /\ g[N] = ToLinear(xs, e)
        /\ \A k \in 1 .. N : g[k] = g[k - 1] + e[k] * P(k)
    BY <2>2 DEF Counts_, P
  <2> DEFINE U == {m \in Nat : m + 1 <= N => g[m + 1] = S}
  <2>4. 0 \in U
    <3>1. 1 \in 1 .. N /\ 1 - 1 = 0
      OBVIOUS
    <3> PICK p \in Nat, x \in Nat : p = P(1) /\ x = xs[1][2]
      <4>1. 1 \in 0 .. N
        OBVIOUS
      <4>2. P(1) \in Nat /\ xs[1][2] \in Nat
        BY ONLY <1>1, <3>1, <4>1
      <4>3. QED
        BY <4>2
    <3>2. g[1] = 0 + x * p
      <4>1. g[1] = g[1 - 1] + e[1] * P(1)
        BY ONLY <2>3, <3>1
      <4>2. QED
        BY <1>7, <2>3, <3>1, <4>1
    <3>3. S = x * p
      <4>1. P(1 - 1) = xs[1][2] * P(1)
        BY ONLY <1>1, <3>1
      <4>2. QED
        BY <1>1, <3>1, <4>1
    <3>4. g[1] = S
      BY ONLY <3>2, <3>3, S \in Nat
    <3>5. QED
      BY <3>4
  <2>5. ASSUME NEW m \in Nat, m \in U PROVE m + 1 \in U
    <3> SUFFICES ASSUME m + 1 + 1 <= N PROVE g[m + 1 + 1] = S
      OBVIOUS
    <3> PICK l \in 2 .. N : l = m + 1 + 1 /\ l - 1 = m + 1
      OBVIOUS
    <3>1. g[l - 1] = S /\ e[l] = 0 /\ l \in 1 .. N
      BY <1>8, <2>5
    <3>2. g[l] = g[l - 1] + e[l] * P(l)
      BY ONLY <2>3, <3>1
    <3>3. P(l) \in Nat
      BY <1>5
    <3>4. g[l] = S
      BY ONLY <3>1, <3>2, <3>3, S \in Nat
    <3>5. QED
      BY <3>4
  <2>6. N - 1 \in U /\ N - 1 + 1 = N
    <3>1. Nat \subseteq U
      <4> HIDE DEF U
      <4> QED
        BY <2>4, <2>5, Induct
    <3>2. QED
      BY <3>1
  <2>7. QED
    BY <2>3, <2>6
<1>10. QED
  BY ONLY <1>6, <1>7, <1>8, <1>9, e = FromLinear(xs, S), S = NumElementsIn(xs)

--------------------------------------------------------------------------------
(* Sequences, by their members.                                               *)

\* Sequences.
LEMMA SeqsEqual ==
    ASSUME NEW T, NEW s \in Seq(T), NEW t \in Seq(T), Len(s) = Len(t), \A k \in 1 .. Len(s) : s[k] = t[k]
    PROVE  s = t
OBVIOUS

LEMMA OneThen ==
    ASSUME NEW T, NEW x \in T, NEW s \in Seq(T)
    PROVE  /\ <<x>> \o s \in Seq(T) /\ Len(<<x>> \o s) = Len(s) + 1
           /\ (<<x>> \o s)[1] = x /\ \A k \in 1 .. Len(s) : (<<x>> \o s)[k + 1] = s[k]
OBVIOUS

LEMMA TwoThen ==
    ASSUME NEW T, NEW x \in T, NEW y \in T, NEW s \in Seq(T)
    PROVE  /\ <<x, y>> \o s \in Seq(T) /\ Len(<<x, y>> \o s) = Len(s) + 2
           /\ (<<x, y>> \o s)[1] = x /\ (<<x, y>> \o s)[2] = y
           /\ \A k \in 1 .. Len(s) : (<<x, y>> \o s)[k + 2] = s[k]
OBVIOUS

LEMMA TailOfSeq ==
    ASSUME NEW T, NEW s \in Seq(T), Len(s) >= 1
    PROVE  /\ Tail(s) \in Seq(T) /\ Len(Tail(s)) = Len(s) - 1
           /\ \A k \in 1 .. Len(s) - 1 : Tail(s)[k] = s[k + 1]
OBVIOUS

LEMMA TailOfInts ==
    ASSUME NEW s \in Seq(Int), NEW n \in Nat, n >= 1, Len(s) = n
    PROVE  \E t \in Seq(Int) : t = Tail(s) /\ Len(t) = n - 1 /\ \A k \in 1 .. n - 1 : t[k] = s[k + 1]
<1>1. Len(s) >= 1
    BY ONLY n >= 1, Len(s) = n
<1>2. Tail(s) \in Seq(Int) /\ Len(Tail(s)) = n - 1 /\ \A k \in 1 .. n - 1 : Tail(s)[k] = s[k + 1]
    BY ONLY <1>1, Len(s) = n, s \in Seq(Int), TailOfSeq
<1>3. QED
    BY ONLY <1>2, Zenon

LEMMA FromThird ==
    ASSUME NEW T, NEW s \in Seq(T), NEW n, n = Len(s), n >= 2
    PROVE  /\ SubSeq(s, 3, n) \in Seq(T) /\ Len(SubSeq(s, 3, n)) = n - 2
           /\ \A k \in 1 .. n - 2 : SubSeq(s, 3, n)[k] = s[k + 2]
           /\ SubSeq(s, 3, n) = Tail(Tail(s))
<1>1. SubSeq(s, 3, n) \in Seq(T) /\ Len(SubSeq(s, 3, n)) = n - 2
    OBVIOUS
<1>2. ASSUME NEW k \in 1 .. n - 2 PROVE SubSeq(s, 3, n)[k] = s[k + 2]
    <2>1. SubSeq(s, 3, n)[k] = s[3 + k - 1] /\ 3 + k - 1 = k + 2
        OBVIOUS
    <2>2. QED
        BY ONLY <2>1
<1>3. Tail(Tail(s)) \in Seq(T) /\ Len(Tail(Tail(s))) = n - 2 /\ \A k \in 1 .. n - 2 : Tail(Tail(s))[k] = s[k + 2]
    <2> PICK t \in Seq(T) : t = Tail(s) /\ Len(t) = n - 1 /\ \A k \in 1 .. n - 1 : t[k] = s[k + 1]
        <3>1. Len(s) >= 1
            OBVIOUS
        <3>2. Tail(s) \in Seq(T) /\ Len(Tail(s)) = n - 1 /\ \A k \in 1 .. n - 1 : Tail(s)[k] = s[k + 1]
            BY ONLY <3>1, n = Len(s), s \in Seq(T), TailOfSeq, SMTT(30)
        <3>3. QED
            BY ONLY <3>2, Zenon
    <2>1. Len(t) >= 1 /\ Len(t) - 1 = n - 2
        OBVIOUS
    <2>2. Tail(t) \in Seq(T) /\ Len(Tail(t)) = n - 2 /\ \A k \in 1 .. n - 2 : Tail(t)[k] = t[k + 1]
        BY ONLY <2>1, t \in Seq(T), TailOfSeq
    <2>3. ASSUME NEW k \in 1 .. n - 2 PROVE t[k + 1] = s[k + 2]
        <3>1. k + 1 \in 1 .. n - 1 /\ (k + 1) + 1 = k + 2
            OBVIOUS
        <3>2. QED
            BY ONLY <3>1, \A m \in 1 .. n - 1 : t[m] = s[m + 1]
    <2>4. QED
        BY ONLY <2>2, <2>3, t = Tail(s)
<1>4. QED
    BY <1>1, <1>2, <1>3, SeqsEqual

LEMMA TailIs ==
    ASSUME NEW s \in Seq(Int), NEW n \in Nat, Len(s) = n + 1,
           NEW q \in Seq(Int), Len(q) = n, \A k \in 1 .. n : q[k] = s[k + 1]
    PROVE  Tail(s) = q
<1> PICK t : t = Tail(s)
    OBVIOUS
<1>1. t \in Seq(Int) /\ Len(t) = n /\ \A k \in 1 .. n : t[k] = s[k + 1]
    OBVIOUS
<1>2. \A k \in 1 .. n : t[k] = q[k]
    BY ONLY <1>1, \A k \in 1 .. n : q[k] = s[k + 1]
<1>3. t = q
    BY ONLY <1>1, <1>2, q \in Seq(Int), Len(q) = n, SameSeq
<1>4. QED
    BY ONLY <1>3, t = Tail(s)

\* A sequence with its first member moved to the end, and with its last one moved to the front.
FirstLast(s) == Append(Tail(s), s[1])

LastFirst(s) == <<s[Len(s)]>> \o SubSeq(s, 1, Len(s) - 1)

LEMMA FirstLastOf ==
    ASSUME NEW T, NEW s \in Seq(T), NEW L \in Nat, Len(s) = L, L >= 1
    PROVE  /\ FirstLast(s) \in Seq(T) /\ Len(FirstLast(s)) = L /\ FirstLast(s)[L] = s[1]
           /\ \A k \in 1 .. L - 1 : FirstLast(s)[k] = s[k + 1]
<1> PICK t : t = Tail(s)
    OBVIOUS
<1>1. t \in Seq(T) /\ Len(t) = L - 1 /\ \A k \in 1 .. L - 1 : t[k] = s[k + 1]
    BY TailOfSeq
<1>2. s[1] \in T
    OBVIOUS
<1>3. /\ Append(t, s[1]) \in Seq(T) /\ Len(Append(t, s[1])) = L /\ Append(t, s[1])[L] = s[1]
      /\ \A k \in 1 .. L - 1 : Append(t, s[1])[k] = t[k]
    BY ONLY <1>1, <1>2, L \in Nat, L >= 1
<1>4. QED
    BY ONLY <1>1, <1>3, t = Tail(s) DEF FirstLast

LEMMA LastFirstOf ==
    ASSUME NEW T, NEW s \in Seq(T), NEW L \in Nat, Len(s) = L, L >= 1
    PROVE  /\ LastFirst(s) \in Seq(T) /\ Len(LastFirst(s)) = L /\ LastFirst(s)[1] = s[L]
           /\ \A k \in 1 .. L - 1 : LastFirst(s)[k + 1] = s[k]
<1> PICK t : t = SubSeq(s, 1, L - 1)
    OBVIOUS
<1>1. t \in Seq(T) /\ Len(t) = L - 1 /\ \A k \in 1 .. L - 1 : t[k] = s[k]
    OBVIOUS
<1> PICK x \in T : x = s[L]
    OBVIOUS
<1>2. <<x>> \o t \in Seq(T) /\ Len(<<x>> \o t) = L /\ (<<x>> \o t)[1] = x /\ \A k \in 1 .. L - 1 : (<<x>> \o t)[k + 1] = t[k]
    <2>1. /\ <<x>> \o t \in Seq(T) /\ Len(<<x>> \o t) = Len(t) + 1
          /\ (<<x>> \o t)[1] = x /\ \A k \in 1 .. Len(t) : (<<x>> \o t)[k + 1] = t[k]
        BY ONLY <1>1, x \in T, OneThen
    <2>2. QED
        BY ONLY <1>1, <2>1, L \in Nat
<1>3. QED
    BY ONLY <1>1, <1>2, x = s[L], t = SubSeq(s, 1, L - 1), Len(s) = L DEF LastFirst

--------------------------------------------------------------------------------
(* Indices counted from zero: the same places, in the same order.             *)

\* The dimensions from k on contain no element if one of them has none.
LEMMA InnerZero ==
    ASSUME NEW N \in Nat, NEW xs, HasLengths(xs, N)
    PROVE  \A k \in 1 .. N : Inner(xs, k - 1) = 0 <=> \E m \in k .. N : Length(xs[m]) = 0
<1>1. /\ Inner(xs, N) = 1 /\ \A k \in 0 .. N : Inner(xs, k) \in Nat
      /\ \A k \in 1 .. N : Inner(xs, k - 1) = Length(xs[k]) * Inner(xs, k)
    BY InnerSteps
<1>2. \A k \in 1 .. N : Length(xs[k]) \in Nat
    BY DEF HasLengths
<1> DEFINE P(k) == Inner(xs, k) = 0 <=> \E m \in k + 1 .. N : Length(xs[m]) = 0
<1> PICK T : T = {n \in Nat : n <= N => P(N - n)}
    OBVIOUS
<1>3. P(N)
    BY ONLY <1>1, N \in Nat
<1>4. ASSUME NEW k \in 1 .. N, P(k) PROVE P(k - 1)
    <2>1. Inner(xs, k - 1) = Length(xs[k]) * Inner(xs, k)
        BY ONLY <1>1
    <2> PICK a \in Nat : a = Length(xs[k])
        BY <1>2
    <2> PICK b \in Nat : b = Inner(xs, k)
        BY <1>1
    <2>2. a * b = 0 <=> a = 0 \/ b = 0
        BY ONLY a \in Nat, b \in Nat
    <2>3. Inner(xs, k - 1) = 0 <=> Length(xs[k]) = 0 \/ Inner(xs, k) = 0
        BY ONLY <2>1, <2>2, a = Length(xs[k]), b = Inner(xs, k)
    <2>4. \A m : m \in (k - 1) + 1 .. N <=> m = k \/ m \in k + 1 .. N
        BY ONLY k \in 1 .. N, N \in Nat
    <2>5. QED
        BY ONLY <1>4, <2>3, <2>4
<1> HIDE DEF P
<1>5. 0 \in T
    <2>1. N - 0 = N
        OBVIOUS
    <2>2. QED
        BY ONLY <1>3, <2>1, T = {n \in Nat : n <= N => P(N - n)}
<1>6. ASSUME NEW n \in Nat, n \in T PROVE n + 1 \in T
    <2>1. SUFFICES ASSUME n + 1 <= N PROVE P(N - (n + 1))
        BY ONLY <2>1, n \in Nat, T = {m \in Nat : m <= N => P(N - m)}
    <2>2. P(N - n)
        BY ONLY <1>6, <2>1, N \in Nat, T = {m \in Nat : m <= N => P(N - m)}
    <2> PICK k \in 1 .. N : k = N - n /\ k - 1 = N - (n + 1)
        BY ONLY <2>1, n \in Nat, N \in Nat
    <2>3. P(k - 1)
        BY ONLY <1>4, <2>2, k = N - n, k \in 1 .. N
    <2>4. QED
        BY ONLY <2>3, k - 1 = N - (n + 1)
<1>7. Nat \subseteq T
    BY ONLY <1>5, <1>6, Induct
<1>8. ASSUME NEW k \in 1 .. N PROVE P(k - 1)
    <2> PICK n \in Nat : n = N - (k - 1) /\ N - n = k - 1 /\ n <= N
        BY ONLY k \in 1 .. N, N \in Nat
    <2>1. n \in T
        BY ONLY <1>7, n \in Nat
    <2>2. P(N - n)
        BY ONLY <2>1, n <= N, T = {m \in Nat : m <= N => P(N - m)}
    <2>3. QED
        BY ONLY <2>2, N - n = k - 1
<1>9. ASSUME NEW k \in 1 .. N PROVE Inner(xs, k - 1) = 0 <=> \E m \in k .. N : Length(xs[m]) = 0
    <2>1. (k - 1) + 1 = k
        BY ONLY k \in 1 .. N, N \in Nat
    <2>2. QED
        BY ONLY <1>8, <2>1 DEF P
<1>10. QED
    BY ONLY <1>9

\* The same lengths, counted from zero.
Zeroed(xs) == [k \in 1 .. Len(xs) |-> <<0, Length(xs[k])>>]

LEMMA ZeroedInner ==
    ASSUME NEW N \in Nat, NEW xs, HasLengths(xs, N)
    PROVE  /\ Boxed(Zeroed(xs), N)
           /\ \A k \in 1 .. N : Zeroed(xs)[k] = <<0, Length(xs[k])>>
           /\ \A k \in 0 .. N : Inner(Zeroed(xs), k) = Inner(xs, k)
<1> PICK zs : zs = Zeroed(xs)
    OBVIOUS
<1>1. Len(xs) = N /\ \A k \in 1 .. N : Length(xs[k]) \in Nat
    BY DEF HasLengths
<1>2. zs = [k \in 1 .. N |-> <<0, Length(xs[k])>>]
    BY ONLY <1>1, zs = Zeroed(xs) DEF Zeroed
<1>3. \A k \in 1 .. N : zs[k] = <<0, Length(xs[k])>>
    BY ONLY <1>2
<1>4. zs \in Seq(Int \X Int) /\ Len(zs) = N
    <2>1. zs \in [1 .. N -> Int \X Int]
        BY ONLY <1>1, <1>2
    <2>2. QED
        BY ONLY <2>1, N \in Nat
<1>5. \A k \in 1 .. N : zs[k][1] = 0 /\ zs[k][2] = Length(xs[k])
    BY ONLY <1>3
<1>6. Boxed(zs, N)
    BY ONLY <1>1, <1>4, <1>5 DEF Boxed
<1>7. /\ Inner(zs, N) = 1
      /\ \A k \in 1 .. N : Inner(zs, k - 1) = zs[k][2] * Inner(zs, k)
    BY <1>6, BoxSteps
<1>8. /\ Inner(xs, N) = 1
      /\ \A k \in 1 .. N : Inner(xs, k - 1) = Length(xs[k]) * Inner(xs, k)
    BY InnerSteps
<1> PICK T : T = {n \in Nat : n <= N => Inner(zs, N - n) = Inner(xs, N - n)}
    OBVIOUS
<1>9. 0 \in T
    <2>1. N - 0 = N
        OBVIOUS
    <2>2. QED
        BY ONLY <1>7, <1>8, <2>1, T = {n \in Nat : n <= N => Inner(zs, N - n) = Inner(xs, N - n)}
<1>10. ASSUME NEW n \in Nat, n \in T PROVE n + 1 \in T
    <2>1. SUFFICES ASSUME n + 1 <= N PROVE Inner(zs, N - (n + 1)) = Inner(xs, N - (n + 1))
        BY ONLY <2>1, n \in Nat, T = {m \in Nat : m <= N => Inner(zs, N - m) = Inner(xs, N - m)}
    <2>2. Inner(zs, N - n) = Inner(xs, N - n)
        BY ONLY <1>10, <2>1, N \in Nat, T = {m \in Nat : m <= N => Inner(zs, N - m) = Inner(xs, N - m)}
    <2> PICK k \in 1 .. N : k = N - n /\ k - 1 = N - (n + 1)
        BY ONLY <2>1, n \in Nat, N \in Nat
    <2>3. Inner(zs, k - 1) = Inner(xs, k - 1)
        BY ONLY <1>5, <1>7, <1>8, <2>2, k = N - n, k \in 1 .. N
    <2>4. QED
        BY ONLY <2>3, k - 1 = N - (n + 1)
<1>11. Nat \subseteq T
    BY ONLY <1>9, <1>10, Induct
<1>12. ASSUME NEW k \in 0 .. N PROVE Inner(zs, k) = Inner(xs, k)
    <2> PICK n \in Nat : n = N - k /\ N - n = k /\ n <= N
        BY ONLY k \in 0 .. N, N \in Nat
    <2>1. n \in T
        BY ONLY <1>11, n \in Nat
    <2>2. QED
        BY ONLY <2>1, N - n = k, n <= N, T = {m \in Nat : m <= N => Inner(zs, N - m) = Inner(xs, N - m)}
<1>13. QED
    BY ONLY <1>3, <1>6, <1>12, zs = Zeroed(xs)

\* Indices counted from zero, and back.
Low(xs, i) == [k \in 1 .. Len(xs) |-> i[k] - xs[k][1]]

High(xs, z) == [k \in 1 .. Len(xs) |-> z[k] + xs[k][1]]

\* z is i, counted from zero.
Counted(z, i, xs, N) ==
    /\ z \in Seq(Int) /\ Len(z) = N /\ DOMAIN z = 1 .. N
    /\ i \in Seq(Int) /\ Len(i) = N /\ DOMAIN i = 1 .. N
    /\ \A k \in 1 .. N : z[k] \in Int /\ i[k] \in Int /\ xs[k][1] \in Int /\ i[k] = z[k] + xs[k][1]

LEMMA LowIs ==
    ASSUME NEW N \in Nat, NEW xs, HasLengths(xs, N), NEW i, i \in Indices(xs)
    PROVE  Counted(Low(xs, i), i, xs, N) /\ Low(xs, i) \in Indices(Zeroed(xs))
<1>1. xs \in Seq(Int \X Int) /\ Len(xs) = N /\ \A k \in 1 .. N : Length(xs[k]) \in Nat
    BY DEF HasLengths
<1>2. DOMAIN xs = 1 .. N /\ \A k \in 1 .. N : xs[k] \in Int \X Int
    BY ONLY <1>1
<1>3. \A k \in 1 .. N : xs[k][1] \in Int /\ xs[k][2] \in Int
    BY ONLY <1>2
<1>4. /\ i \in Seq(Int) /\ DOMAIN i = 1 .. N /\ Len(i) = N
      /\ \A k \in 1 .. N : i[k] \in xs[k][1] .. xs[k][2] - 1
    BY <1>2, <1>3, IndicesIn
<1> PICK z : z = Low(xs, i)
    OBVIOUS
<1>5. z = [k \in 1 .. N |-> i[k] - xs[k][1]]
    BY ONLY <1>1, z = Low(xs, i) DEF Low
<1>6. \A k \in 1 .. N : i[k] \in Int
    BY ONLY <1>3, <1>4
<1>7. z \in [1 .. N -> Int] /\ \A k \in 1 .. N : z[k] = i[k] - xs[k][1]
    BY ONLY <1>3, <1>5, <1>6
<1>8. z \in Seq(Int) /\ Len(z) = N /\ DOMAIN z = 1 .. N
    BY ONLY <1>7, N \in Nat
<1>9. \A k \in 1 .. N : z[k] \in Int /\ i[k] = z[k] + xs[k][1]
    BY ONLY <1>3, <1>6, <1>7
<1>10. Counted(z, i, xs, N)
    BY ONLY <1>3, <1>4, <1>6, <1>8, <1>9 DEF Counted
<1> PICK zs : zs = Zeroed(xs)
    OBVIOUS
<1>11. Boxed(zs, N) /\ \A k \in 1 .. N : zs[k] = <<0, Length(xs[k])>>
    BY ZeroedInner
<1>12. ASSUME NEW k \in 1 .. N PROVE z[k] \in 0 .. zs[k][2] - 1
    <2>1. zs[k][2] = xs[k][2] - xs[k][1]
        BY ONLY <1>11, k \in 1 .. N DEF Length
    <2> PICK a \in Int, b \in Int, c \in Int : a = xs[k][1] /\ b = xs[k][2] /\ c = i[k]
        BY ONLY <1>3, <1>6, k \in 1 .. N
    <2>2. c \in a .. b - 1 /\ z[k] = c - a /\ zs[k][2] = b - a
        BY ONLY <1>4, <1>7, <2>1, k \in 1 .. N, a = xs[k][1], b = xs[k][2], c = i[k]
    <2>3. QED
        BY ONLY <2>2, a \in Int, b \in Int, c \in Int
<1>13. InBox(z, zs, N)
    BY ONLY <1>8, <1>12 DEF InBox
<1>14. z \in Indices(zs)
    BY ONLY <1>11, <1>13, N \in Nat, IndicesOfBox
<1>15. QED
    BY ONLY <1>10, <1>14, z = Low(xs, i), zs = Zeroed(xs)

LEMMA HighIs ==
    ASSUME NEW N \in Nat, NEW xs, HasLengths(xs, N), NEW z, z \in Indices(Zeroed(xs))
    PROVE  Counted(z, High(xs, z), xs, N) /\ High(xs, z) \in Indices(xs)
<1>1. xs \in Seq(Int \X Int) /\ Len(xs) = N /\ \A k \in 1 .. N : Length(xs[k]) \in Nat
    BY DEF HasLengths
<1>2. DOMAIN xs = 1 .. N /\ \A k \in 1 .. N : xs[k] \in Int \X Int
    BY ONLY <1>1
<1>3. \A k \in 1 .. N : xs[k][1] \in Int /\ xs[k][2] \in Int
    BY ONLY <1>2
<1> PICK zs : zs = Zeroed(xs)
    OBVIOUS
<1>4. Boxed(zs, N) /\ \A k \in 1 .. N : zs[k] = <<0, Length(xs[k])>>
    BY ZeroedInner
<1>5. z \in Indices(zs)
    OBVIOUS
<1>6. InBox(z, zs, N)
    BY ONLY <1>4, <1>5, N \in Nat, IndicesOfBox
<1>7. z \in Seq(Int) /\ Len(z) = N /\ \A k \in 1 .. N : z[k] \in 0 .. zs[k][2] - 1
    BY ONLY <1>6 DEF InBox
<1>8. DOMAIN z = 1 .. N /\ \A k \in 1 .. N : z[k] \in Int
    BY ONLY <1>7
<1> PICK i : i = High(xs, z)
    OBVIOUS
<1>9. i = [k \in 1 .. N |-> z[k] + xs[k][1]]
    BY ONLY <1>1, i = High(xs, z) DEF High
<1>10. i \in [1 .. N -> Int] /\ \A k \in 1 .. N : i[k] = z[k] + xs[k][1] /\ i[k] \in Int
    BY ONLY <1>3, <1>8, <1>9
<1>11. i \in Seq(Int) /\ Len(i) = N /\ DOMAIN i = 1 .. N
    BY ONLY <1>10, N \in Nat
<1>12. Counted(z, i, xs, N)
    BY ONLY <1>3, <1>7, <1>8, <1>10, <1>11 DEF Counted
<1>13. ASSUME NEW k \in 1 .. N PROVE i[k] \in xs[k][1] .. xs[k][2] - 1
    <2>1. zs[k][2] = xs[k][2] - xs[k][1]
        BY ONLY <1>4, k \in 1 .. N DEF Length
    <2> PICK a \in Int, b \in Int, c \in Int : a = xs[k][1] /\ b = xs[k][2] /\ c = z[k]
        BY ONLY <1>3, <1>8, k \in 1 .. N
    <2>2. c \in 0 .. zs[k][2] - 1 /\ i[k] = c + a /\ zs[k][2] = b - a
        BY ONLY <1>7, <1>10, <2>1, k \in 1 .. N, a = xs[k][1], b = xs[k][2], c = z[k]
    <2>3. c \in 0 .. (b - a) - 1
        BY ONLY <2>2
    <2>4. c + a \in a .. b - 1
        BY ONLY <2>3, a \in Int, b \in Int, c \in Int
    <2>5. QED
        BY ONLY <2>2, <2>4, a = xs[k][1], b = xs[k][2]
<1>14. i \in Indices(xs)
    BY ONLY <1>2, <1>11, <1>13, N \in Nat, IndicesHas
<1>15. QED
    BY ONLY <1>12, <1>14, i = High(xs, z)

\* The order is the same.
LEMMA CountedBefore ==
    ASSUME NEW N \in Nat, NEW xs, NEW z, NEW i, Counted(z, i, xs, N), NEW y, NEW j, Counted(y, j, xs, N)
    PROVE  /\ Before(z, y) <=> Before(i, j)
           /\ z = y <=> i = j
<1>1. /\ z \in Seq(Int) /\ Len(z) = N /\ DOMAIN z = 1 .. N /\ i \in Seq(Int) /\ Len(i) = N /\ DOMAIN i = 1 .. N
      /\ y \in Seq(Int) /\ Len(y) = N /\ DOMAIN y = 1 .. N /\ j \in Seq(Int) /\ Len(j) = N /\ DOMAIN j = 1 .. N
    BY DEF Counted
<1>2. ASSUME NEW k \in 1 .. N PROVE (z[k] < y[k] <=> i[k] < j[k]) /\ (z[k] = y[k] <=> i[k] = j[k])
    <2>2. /\ z[k] \in Int /\ y[k] \in Int /\ xs[k][1] \in Int
          /\ i[k] = z[k] + xs[k][1] /\ j[k] = y[k] + xs[k][1]
        BY ONLY Counted(z, i, xs, N), Counted(y, j, xs, N), k \in 1 .. N DEF Counted
    <2> PICK a \in Int : a = z[k]
        BY ONLY <2>2
    <2> PICK b \in Int : b = y[k]
        BY ONLY <2>2
    <2> PICK c \in Int : c = xs[k][1]
        BY ONLY <2>2
    <2>1. (a < b <=> a + c < b + c) /\ (a = b <=> a + c = b + c)
        BY ONLY a \in Int, b \in Int, c \in Int
    <2>3. QED
        BY ONLY <2>1, <2>2, a = z[k], b = y[k], c = xs[k][1]
<1>3. \A k \in 1 .. N : \A m \in 1 .. k - 1 : m \in 1 .. N
    BY ONLY N \in Nat
<1>4. Before(z, y) <=> Before(i, j)
    BY ONLY <1>1, <1>2, <1>3 DEF Before
<1>5. ASSUME \A k \in 1 .. N : z[k] = y[k] PROVE z = y
    BY ONLY <1>1, <1>5, SameSeq
<1>6. ASSUME \A k \in 1 .. N : i[k] = j[k] PROVE i = j
    BY ONLY <1>1, <1>6, SameSeq
<1>7. z = y <=> i = j
    BY ONLY <1>2, <1>5, <1>6
<1>8. QED
    BY ONLY <1>4, <1>7

\* As many indices come before i as before the index that it is, counted from zero.
LEMMA RankFromZero ==
    ASSUME NEW N \in Nat, NEW xs, HasLengths(xs, N), NEW i, i \in Indices(xs)
    PROVE  Cardinality({j \in Indices(xs) : Before(j, i)}) = ToLinear(Zeroed(xs), Low(xs, i))
<1> PICK zs, e : zs = Zeroed(xs) /\ e = Low(xs, i)
    OBVIOUS
<1>1. Boxed(zs, N)
    BY ZeroedInner
<1>2. Counted(e, i, xs, N) /\ e \in Indices(zs)
    BY LowIs
<1> PICK S : S = {z \in Indices(zs) : Before(z, e)}
    OBVIOUS
<1> PICK Q : Q = {j \in Indices(xs) : Before(j, i)}
    OBVIOUS
<1>3. IsFiniteSet(S) /\ Cardinality(S) = ToLinear(zs, e)
    <2>1. IsFiniteSet(Indices(zs)) /\ Cardinality({z \in Indices(zs) : Before(z, e)}) = ToLinear(zs, e)
        BY ONLY <1>1, <1>2, N \in Nat, CountIndices
    <2>2. IsFiniteSet(S)
        BY ONLY <2>1, S = {z \in Indices(zs) : Before(z, e)}, FS_Subset, S \subseteq Indices(zs)
    <2>3. QED
        BY ONLY <2>1, <2>2, S = {z \in Indices(zs) : Before(z, e)}
<1> PICK F : F = [z \in S |-> High(xs, z)]
    OBVIOUS
<1>4. ASSUME NEW z \in S PROVE Counted(z, F[z], xs, N) /\ F[z] \in Q
    <2>1. z \in Indices(zs) /\ Before(z, e) /\ F[z] = High(xs, z)
        BY ONLY z \in S, S = {y \in Indices(zs) : Before(y, e)}, F = [y \in S |-> High(xs, y)]
    <2>2. Counted(z, F[z], xs, N) /\ F[z] \in Indices(xs)
        BY <2>1, HighIs
    <2>3. Before(F[z], i)
        BY ONLY <1>2, <2>1, <2>2, N \in Nat, CountedBefore
    <2>4. QED
        BY ONLY <2>2, <2>3, Q = {j \in Indices(xs) : Before(j, i)}
<1>5. ASSUME NEW y \in S, NEW z \in S, F[y] = F[z] PROVE y = z
    <2> PICK a : a = F[y]
        OBVIOUS
    <2>1. Counted(y, a, xs, N) /\ Counted(z, a, xs, N)
        BY ONLY <1>4, <1>5, y \in S, z \in S, a = F[y]
    <2>2. QED
        BY ONLY <2>1, N \in Nat, CountedBefore
<1>6. ASSUME NEW j \in Q PROVE \E z \in S : F[z] = j
    <2>1. j \in Indices(xs) /\ Before(j, i)
        BY ONLY j \in Q, Q = {m \in Indices(xs) : Before(m, i)}
    <2> PICK z : z = Low(xs, j)
        OBVIOUS
    <2>2. Counted(z, j, xs, N) /\ z \in Indices(zs)
        BY <2>1, LowIs
    <2>3. Before(z, e)
        BY ONLY <1>2, <2>1, <2>2, N \in Nat, CountedBefore
    <2>4. z \in S
        BY ONLY <2>2, <2>3, S = {y \in Indices(zs) : Before(y, e)}
    <2> PICK a : a = F[z]
        OBVIOUS
    <2>5. Counted(z, a, xs, N)
        BY ONLY <1>4, <2>4, a = F[z]
    <2>6. a = j
        BY ONLY <2>2, <2>5, N \in Nat, CountedBefore
    <2>7. QED
        BY ONLY <2>4, <2>6, a = F[z]
<1>7. F \in Bijection(S, Q)
    <2>1. F \in [S -> Q]
        BY ONLY <1>4, F = [z \in S |-> High(xs, z)]
    <2>2. QED
        BY ONLY <1>5, <1>6, <2>1 DEF Bijection, Injection, Surjection, IsInjective
<1>8. ExistsBijection(S, Q)
    BY ONLY <1>7 DEF ExistsBijection
<1>9. Cardinality(Q) = Cardinality(S)
    BY ONLY <1>3, <1>8, FS_Bijection
<1>10. QED
    BY ONLY <1>3, <1>9, zs = Zeroed(xs), e = Low(xs, i), Q = {j \in Indices(xs) : Before(j, i)}

LEMMA SameSums ==
    ASSUME NEW N \in Nat, NEW g \in [0 .. N -> Int], NEW h \in [0 .. N -> Int], g[0] = h[0],
           \A k \in 1 .. N : \E t \in Int : g[k] = g[k - 1] + t /\ h[k] = h[k - 1] + t
    PROVE  g[N] = h[N]
<1> PICK T : T = {k \in Nat : k <= N => g[k] = h[k]}
    OBVIOUS
<1>1. 0 \in T
    BY ONLY g[0] = h[0], T = {k \in Nat : k <= N => g[k] = h[k]}
<1>2. ASSUME NEW k \in Nat, k \in T PROVE k + 1 \in T
    <2>1. SUFFICES ASSUME k + 1 <= N PROVE g[k + 1] = h[k + 1]
        BY ONLY <2>1, k \in Nat, T = {m \in Nat : m <= N => g[m] = h[m]}
    <2>2. g[k] = h[k]
        BY ONLY <1>2, <2>1, N \in Nat, T = {m \in Nat : m <= N => g[m] = h[m]}
    <2>3. k + 1 \in 1 .. N /\ (k + 1) - 1 = k
        BY ONLY <2>1, k \in Nat, N \in Nat
    <2> PICK t \in Int : g[k + 1] = g[k] + t /\ h[k + 1] = h[k] + t
        BY <2>3
    <2>4. QED
        BY ONLY <2>2, g[k + 1] = g[k] + t, h[k + 1] = h[k] + t
<1>3. N \in T
    BY ONLY <1>1, <1>2, N \in Nat, Induct
<1>4. QED
    BY ONLY <1>3, N \in Nat, T = {k \in Nat : k <= N => g[k] = h[k]}

--------------------------------------------------------------------------------
(* Regular dimensions.                                                        *)

\* The stride of a dimension that is not empty divides its offset, and goes into
\* nelems a number of times that is not negative.
IsRegular(stride, offset, nelems) ==
    /\ stride \in Int /\ offset \in Int /\ nelems \in Int
    /\ nelems # 0 => /\ stride # 0
                     /\ \E f \in Int : offset = stride * f
                     /\ \E n \in Nat : nelems = stride * n

Regular == {d \in Dimensions : IsRegular(d.stride, d.offset, d.nelems)}

ViewsOf(dimensions) == [base : Int, dims : Seq(dimensions) \ {<<>>}]

RegularViews == ViewsOf(Regular)

LEMMA MadeRegular ==
    ASSUME NEW s, NEW o, NEW n, IsRegular(s, o, n)
    PROVE  /\ DimensionOf(s, o, n) \in Regular
           /\ DimensionOf(s, o, n).stride = s /\ DimensionOf(s, o, n).offset = o /\ DimensionOf(s, o, n).nelems = n
<1>1. s \in Int /\ o \in Int /\ n \in Int
    BY DEF IsRegular
<1>2. DimensionOf(s, o, n) \in Dimensions
    BY <1>1 DEF DimensionOf, Dimensions
<1>3. DimensionOf(s, o, n).stride = s /\ DimensionOf(s, o, n).offset = o /\ DimensionOf(s, o, n).nelems = n
    BY DEF DimensionOf
<1>4. QED
    BY ONLY <1>2, <1>3, IsRegular(s, o, n) DEF Regular

LEMMA RegularParts ==
    ASSUME NEW d \in Regular
    PROVE  /\ d = DimensionOf(d.stride, d.offset, d.nelems)
           /\ IsRegular(d.stride, d.offset, d.nelems)
           /\ d.stride \in Int /\ d.offset \in Int /\ d.nelems \in Int /\ d \in Dimensions
<1>1. d \in Dimensions /\ IsRegular(d.stride, d.offset, d.nelems)
    BY DEF Regular
<1>2. d = DimensionOf(d.stride, d.offset, d.nelems)
    BY <1>1 DEF Dimensions, DimensionOf
<1>3. QED
    BY ONLY <1>1, <1>2 DEF IsRegular

\* Its size, its extension, and how they make its members.
Stepped(d, f, n) ==
    /\ f \in Int /\ n \in Nat /\ HasSteps(d, f, n)
    /\ d.nelems = 0 <=> n = 0
    /\ n # 0 => d.stride # 0

LEMMA RegularSteps ==
    ASSUME NEW d \in Regular
    PROVE  \E f, n : Stepped(d, f, n)
<1>1. IsRegular(d.stride, d.offset, d.nelems) /\ d.stride \in Int /\ d.offset \in Int /\ d.nelems \in Int
    BY RegularParts
<1>2. CASE d.nelems = 0
    <2>1. HasSteps(d, 0, 0)
        BY <1>1, <1>2 DEF HasSteps, Size, Extension
    <2>2. Stepped(d, 0, 0)
        BY <1>2, <2>1 DEF Stepped
    <2>3. QED
        BY <2>2
<1>3. CASE d.nelems # 0
    <2> PICK s \in Int : s = d.stride
        BY <1>1
    <2>1. s # 0 /\ (\E f \in Int : d.offset = s * f) /\ (\E n \in Nat : d.nelems = s * n)
        BY <1>1, <1>3 DEF IsRegular
    <2>2. PICK f \in Int : d.offset = s * f
        BY <2>1
    <2>3. PICK n \in Nat : d.nelems = s * n
        BY <2>1
    <2>4. \A k \in Int : Quotient(s * k, s) = k
        BY ONLY s \in Int, <2>1, QuotientExact
    <2>5. Quotient(d.nelems, d.stride) = n /\ Quotient(d.offset, d.stride) = f
        BY ONLY <2>2, <2>3, <2>4, s = d.stride, n \in Nat, f \in Int
    <2>6. Quotient(d.offset + d.nelems, d.stride) = f + n
        <3>1. f + n \in Int /\ s * f + s * n = s * (f + n)
            OBVIOUS
        <3>2. QED
            BY ONLY <2>2, <2>3, <2>4, <3>1, s = d.stride
    <2>7. Size(d) = n /\ Extension(d) = <<f, f + n>>
        BY ONLY <1>3, <2>5, <2>6 DEF Size, Extension
    <2>8. n # 0
        BY <1>3, <2>3
    <2>9. HasSteps(d, f, n)
        BY ONLY <2>2, <2>3, <2>7, <2>8, s = d.stride DEF HasSteps
    <2>10. Stepped(d, f, n)
        BY ONLY <1>3, <2>1, <2>8, <2>9, s = d.stride, f \in Int, n \in Nat DEF Stepped
    <2>11. QED
        BY <2>10
<1>4. QED
    BY <1>2, <1>3

--------------------------------------------------------------------------------
(* Views of regular dimensions.                                               *)

LEMMA ViewParts ==
    ASSUME NEW v \in RegularViews
    PROVE  /\ v.base \in Int /\ v.dims \in Seq(Regular) /\ v = View(v.dims, v.base)
           /\ Len(v.dims) \in Nat /\ Len(v.dims) >= 1 /\ DOMAIN v.dims = 1 .. Len(v.dims)
           /\ v.dims[1] \in Regular /\ \A k \in 1 .. Len(v.dims) : v.dims[k] \in Regular
<1>1. v.base \in Int /\ v.dims \in Seq(Regular) \ {<<>>} /\ v = View(v.dims, v.base)
    BY DEF RegularViews, ViewsOf, View
<1> PICK ds \in Seq(Regular) : ds = v.dims /\ ds # <<>>
    BY <1>1
<1>2. Len(ds) \in Nat /\ Len(ds) >= 1 /\ DOMAIN ds = 1 .. Len(ds) /\ 1 \in DOMAIN ds
    OBVIOUS
<1>3. \A k \in 1 .. Len(ds) : ds[k] \in Regular
    OBVIOUS
<1>4. QED
    BY ONLY <1>1, <1>2, <1>3, ds = v.dims, ds \in Seq(Regular)

LEMMA MadeView ==
    ASSUME NEW ds \in Seq(Regular), ds # <<>>, NEW b \in Int
    PROVE  View(ds, b) \in RegularViews /\ View(ds, b).dims = ds /\ View(ds, b).base = b
BY DEF View, RegularViews, ViewsOf

\* Another leading dimension.
LEMMA TopReplaced ==
    ASSUME NEW ds \in Seq(Regular), ds # <<>>, NEW x \in Regular
    PROVE  /\ [ds EXCEPT ![1] = x] \in Seq(Regular) /\ [ds EXCEPT ![1] = x] # <<>>
           /\ Len([ds EXCEPT ![1] = x]) = Len(ds) /\ [ds EXCEPT ![1] = x][1] = x
           /\ \A k \in 1 .. Len(ds) : k # 1 => [ds EXCEPT ![1] = x][k] = ds[k]
OBVIOUS

LEMMA TailRegular ==
    ASSUME NEW ds \in Seq(Regular), Len(ds) > 1
    PROVE  /\ Tail(ds) \in Seq(Regular) /\ Tail(ds) # <<>> /\ Len(Tail(ds)) = Len(ds) - 1
           /\ \A k \in 1 .. Len(ds) - 1 : Tail(ds)[k] = ds[k + 1]
<1>1. Len(ds) \in Nat /\ ds # <<>>
    OBVIOUS
<1>2. Tail(ds) \in Seq(Regular) /\ Len(Tail(ds)) = Len(ds) - 1
    BY <1>1
<1>3. \A k \in 1 .. Len(ds) - 1 : Tail(ds)[k] = ds[k + 1]
    BY <1>1
<1>4. Len(Tail(ds)) # 0 /\ Len(<<>>) = 0
    BY <1>1, <1>2
<1>5. Tail(ds) # <<>>
    BY ONLY <1>4
<1>6. QED
    BY ONLY <1>2, <1>3, <1>5

LEMMA SizeOf ==
    ASSUME NEW d \in Regular
    PROVE  /\ Size(d) \in Nat /\ d.nelems = d.stride * Size(d) /\ (d.nelems = 0 <=> Size(d) = 0)
           /\ Extension(d)[1] \in Int /\ Extension(d)[2] \in Int
           /\ Extension(d)[2] - Extension(d)[1] = Size(d)
           /\ d.nelems = 0 => Extension(d) = <<0, 0>>
<1>1. PICK f, n : Stepped(d, f, n)
    BY RegularSteps
<1>2. f \in Int /\ n \in Nat /\ d.nelems = d.stride * n /\ Size(d) = n /\ (d.nelems = 0 <=> n = 0)
    BY <1>1 DEF Stepped, HasSteps
<1>3. CASE n = 0
    <2>1. Extension(d) = <<0, 0>>
        BY ONLY <1>1, <1>3 DEF Stepped, HasSteps
    <2>2. QED
        BY ONLY <1>2, <1>3, <2>1
<1>4. CASE n # 0
    <2>1. Extension(d) = <<f, f + n>>
        BY ONLY <1>1, <1>4 DEF Stepped, HasSteps
    <2>2. QED
        BY ONLY <1>2, <1>4, <2>1
<1>5. QED
    BY <1>3, <1>4

LEMMA TailOfOne ==
    ASSUME NEW R, NEW ds \in Seq(R), NEW x
    PROVE  Tail(<<x>> \o ds) = ds /\ (<<x>> \o ds)[1] = x
<1>1. /\ ds \in Seq(R \cup {x}) /\ <<x>> \in Seq(R \cup {x})
      /\ Len(<<x>>) = 1 /\ <<x>>[1] = x
    OBVIOUS
<1> PICK S : S = R \cup {x}
    OBVIOUS
<1> PICK e : e = <<x>> \o ds
    OBVIOUS
<1>2. e \in Seq(S) /\ Len(e) = 1 + Len(ds) /\ e[1] = x /\ \A k \in 1 .. Len(ds) : e[k + 1] = ds[k]
    BY <1>1
<1>3. Tail(e) \in Seq(S) /\ Len(Tail(e)) = Len(ds) /\ \A k \in 1 .. Len(ds) : Tail(e)[k] = e[k + 1]
    BY <1>2, <1>1
<1>4. Tail(e) = ds
    BY <1>1, <1>2, <1>3
<1>5. QED
    BY <1>2, <1>4

\* A dimension without offset whose stride divides nelems.
LEMMA ZeroOffset ==
    ASSUME NEW s \in Int, NEW n \in Nat, NEW t, t = s * n
    PROVE  DimensionOf(s, 0, t) \in Regular
<1>1. t \in Int /\ (t # 0 => s # 0) /\ 0 = s * 0
    OBVIOUS
<1>2. IsRegular(s, 0, t)
    BY ONLY <1>1, s \in Int, n \in Nat, t = s * n DEF IsRegular
<1>3. QED
    BY <1>2, MadeRegular

--------------------------------------------------------------------------------
(* Elements of another size.                                                  *)

LEMMA ScaledExact ==
    ASSUME NEW a \in Int, NEW num \in Int, NEW den \in Int, den # 0, NEW k \in Int, a * num = den * k
    PROVE  Quotient(a * num, den) = k
BY QuotientExact

\* The three numbers in units of another size, when they are whole.
IsScaled(s, o, n, num, den) ==
    /\ \E k \in Int : s * num = den * k
    /\ \E k \in Int : o * num = den * k
    /\ \E k \in Int : n * num = den * k

LEMMA ScaledRegular ==
    ASSUME NEW d \in Regular, NEW num \in Int, NEW den \in Int, num # 0, den # 0,
           IsScaled(d.stride, d.offset, d.nelems, num, den)
    PROVE  DimensionOf(Quotient(d.stride * num, den), Quotient(d.offset * num, den),
                       Quotient(d.nelems * num, den)) \in Regular
<1>1. IsRegular(d.stride, d.offset, d.nelems)
    BY RegularParts
<1> PICK s \in Int : s = d.stride
    BY RegularParts
<1> PICK o \in Int : o = d.offset
    BY RegularParts
<1> PICK n \in Int : n = d.nelems
    BY RegularParts
<1>2. IsScaled(s, o, n, num, den)
    OBVIOUS
<1> PICK ks \in Int : s * num = den * ks
    BY ONLY <1>2 DEF IsScaled
<1> PICK ko \in Int : o * num = den * ko
    BY ONLY <1>2 DEF IsScaled
<1> PICK kn \in Int : n * num = den * kn
    BY ONLY <1>2 DEF IsScaled
<1>3. /\ Quotient(s * num, den) = ks /\ Quotient(o * num, den) = ko /\ Quotient(n * num, den) = kn
    BY ONLY s * num = den * ks, o * num = den * ko, n * num = den * kn, s \in Int, o \in Int, n \in Int,
            num \in Int, den \in Int, den # 0, ks \in Int, ko \in Int, kn \in Int, ScaledExact
<1>4. IsRegular(ks, ko, kn)
    <2>1. ASSUME kn # 0
          PROVE  ks # 0 /\ (\E f \in Int : ko = ks * f) /\ (\E m \in Nat : kn = ks * m)
        <3>1. n # 0
            BY ONLY <2>1, n * num = den * kn, den # 0, n \in Int, num \in Int, den \in Int, kn \in Int
        <3>2. s # 0 /\ (\E f \in Int : o = s * f) /\ (\E m \in Nat : n = s * m)
            BY ONLY <1>1, <3>1, s = d.stride, o = d.offset, n = d.nelems DEF IsRegular
        <3>3. ks # 0
            BY ONLY <3>2, s * num = den * ks, num # 0, s \in Int, num \in Int, den \in Int, ks \in Int
        <3>4. PICK f \in Int : o = s * f
            BY ONLY <3>2
        <3>5. PICK m \in Nat : n = s * m
            BY ONLY <3>2
        <3>6. ko = ks * f
            <4>1. den * ko = den * (ks * f)
                <5>1. o * num = (s * num) * f
                    BY ONLY <3>4, s \in Int, num \in Int, f \in Int
                <5>2. (den * ks) * f = den * (ks * f)
                    BY ONLY den \in Int, ks \in Int, f \in Int
                <5>3. QED
                    BY ONLY <5>1, <5>2, s * num = den * ks, o * num = den * ko
            <4> PICK z \in Int : z = ks * f
                OBVIOUS
            <4>2. QED
                BY ONLY <4>1, z = ks * f, z \in Int, ko \in Int, den \in Int, den # 0
        <3>7. kn = ks * m
            <4>1. den * kn = den * (ks * m)
                <5>1. n * num = (s * num) * m
                    BY ONLY <3>5, s \in Int, num \in Int, m \in Nat
                <5>2. (den * ks) * m = den * (ks * m)
                    BY ONLY den \in Int, ks \in Int, m \in Nat
                <5>3. QED
                    BY ONLY <5>1, <5>2, s * num = den * ks, n * num = den * kn
            <4> PICK z \in Int : z = ks * m
                OBVIOUS
            <4>2. QED
                BY ONLY <4>1, z = ks * m, z \in Int, kn \in Int, den \in Int, den # 0
        <3>8. QED
            BY ONLY <3>3, <3>6, <3>7, f \in Int, m \in Nat
    <2>2. QED
        BY ONLY <2>1, ks \in Int, ko \in Int, kn \in Int DEF IsRegular
<1>5. QED
    BY ONLY <1>3, <1>4, s = d.stride, o = d.offset, n = d.nelems, MadeRegular

LEMMA ScaledView ==
    ASSUME NEW v \in RegularViews, NEW num \in Int, NEW den \in Int, num # 0, den # 0,
           \A k \in 1 .. Len(v.dims) : IsScaled(v.dims[k].stride, v.dims[k].offset, v.dims[k].nelems, num, den)
    PROVE  ScaleLayout(v.dims, num, den) \in Seq(Regular) /\ ScaleLayout(v.dims, num, den) # <<>>
<1> PICK L \in Nat : L = Len(v.dims) /\ L >= 1
    BY ViewParts
<1>1. DOMAIN v.dims = 1 .. L /\ \A k \in 1 .. L : v.dims[k] \in Regular
    BY ViewParts
<1> PICK e : e = ScaleLayout(v.dims, num, den)
    OBVIOUS
<1> DEFINE Made(k) == DimensionOf(Quotient(v.dims[k].stride * num, den), Quotient(v.dims[k].offset * num, den),
                                  Quotient(v.dims[k].nelems * num, den))
<1>2. e = [k \in 1 .. L |-> Made(k)]
    BY ONLY <1>1, e = ScaleLayout(v.dims, num, den) DEF ScaleLayout
<1>3. \A k \in 1 .. L : Made(k) \in Regular
    BY <1>1, ScaledRegular
<1>4. e \in [1 .. L -> Regular]
    <2> HIDE DEF Made
    <2> QED
        BY ONLY <1>2, <1>3
<1>5. QED
    BY ONLY <1>4, L \in Nat, L >= 1, e = ScaleLayout(v.dims, num, den)

--------------------------------------------------------------------------------
(* Indices, one dimension at a time.                                          *)

\* Extensions are pairs of numbers; indices are what they allow.
InDimension(j, d) == j \in Extension(d)[1] .. Extension(d)[2] - 1

IsIndex(i, dims) ==
    /\ i \in Seq(Int) /\ Len(i) = Len(dims)
    /\ \A k \in 1 .. Len(dims) : InDimension(i[k], dims[k])

LEMMA ExtensionPair ==
    ASSUME NEW d \in Regular
    PROVE  Extension(d) \in Int \X Int
<1>1. Extension(d)[1] \in Int /\ Extension(d)[2] \in Int
    BY SizeOf
<1>2. Extension(d) = <<Extension(d)[1], Extension(d)[2]>>
    BY DEF Extension
<1>3. QED
    BY <1>1, <1>2

LEMMA ExtensionsOf ==
    ASSUME NEW dims \in Seq(Regular)
    PROVE  /\ Extensions(dims) \in Seq(Int \X Int) /\ Len(Extensions(dims)) = Len(dims)
           /\ DOMAIN Extensions(dims) = 1 .. Len(dims)
           /\ \A k \in 1 .. Len(dims) : Extensions(dims)[k] = Extension(dims[k])
<1> PICK L \in Nat : L = Len(dims)
    OBVIOUS
<1>1. Extensions(dims) = [k \in 1 .. L |-> Extension(dims[k])]
    BY DEF Extensions
<1>2. \A k \in 1 .. L : Extension(dims[k]) \in Int \X Int
    BY ExtensionPair
<1>3. Extensions(dims) \in [1 .. L -> Int \X Int]
    BY <1>1, <1>2
<1>4. QED
    BY <1>1, <1>3

LEMMA IndicesAreOf ==
    ASSUME NEW dims \in Seq(Regular), NEW i
    PROVE  i \in Indices(Extensions(dims)) <=> IsIndex(i, dims)
<1> PICK L \in Nat : L = Len(dims)
    OBVIOUS
<1> PICK xs : xs = Extensions(dims)
    OBVIOUS
<1>1. DOMAIN xs = 1 .. L /\ \A k \in 1 .. L : xs[k] = Extension(dims[k]) /\ xs[k][1] \in Int /\ xs[k][2] \in Int
    BY ExtensionsOf, SizeOf
<1>2. ASSUME i \in Indices(xs) PROVE IsIndex(i, dims)
    <2>1. i \in Seq(Int) /\ Len(i) = L /\ \A k \in 1 .. L : i[k] \in xs[k][1] .. xs[k][2] - 1
        BY ONLY <1>1, <1>2, L \in Nat, IndicesIn
    <2>2. QED
        BY <1>1, <2>1 DEF IsIndex, InDimension
<1>3. ASSUME IsIndex(i, dims) PROVE i \in Indices(xs)
    <2>1. i \in Seq(Int) /\ Len(i) = L /\ \A k \in 1 .. L : i[k] \in xs[k][1] .. xs[k][2] - 1
        BY <1>1, <1>3 DEF IsIndex, InDimension
    <2>2. QED
        BY ONLY <1>1, <2>1, L \in Nat, IndicesHas
<1>4. QED
    BY <1>2, <1>3

LEMMA IndexParts ==
    ASSUME NEW dims \in Seq(Regular), NEW i, IsIndex(i, dims)
    PROVE  i \in Seq(Int) /\ Len(i) = Len(dims) /\ \A k \in 1 .. Len(dims) : i[k] \in Int
BY DEF IsIndex

\* The address of an element, a dimension at a time.
PlaceAt(v, j) == v.base + (j * v.dims[1].stride - v.dims[1].offset)

LEMMA PlaceIs ==
    ASSUME NEW v \in RegularViews, NEW j \in Int
    PROVE  /\ PlaceAt(v, j) \in Int
           /\ Subscript(v, j) = View(Tail(v.dims), PlaceAt(v, j))
BY ViewParts, RegularParts DEF PlaceAt, Subscript

LEMMA DownOne ==
    ASSUME NEW v, NEW n \in Nat, n >= 1, NEW i \in Seq(Int), Len(i) = n
    PROVE  Address(v, i) = Address(Subscript(v, i[1]), Tail(i))
<1> PICK N \in Nat : N + 1 = n
    <2>1. n - 1 \in Nat /\ (n - 1) + 1 = n
        OBVIOUS
    <2>2. QED
        BY <2>1
<1> PICK j \in Seq(Int) : j = Tail(i) /\ Len(j) = N /\ \A k \in 1 .. N : j[k] = i[k + 1]
    <2>1. N = n - 1
        OBVIOUS
    <2>2. QED
        BY ONLY <2>1, i \in Seq(Int), n \in Nat, n >= 1, Len(i) = n, TailOfInts
<1>1. DOMAIN i = 1 .. N + 1 /\ DOMAIN j = 1 .. N
    OBVIOUS
<1>2. Within(Subscript(v, i[1]), j) = Within(v, i)
    BY ONLY <1>1, N \in Nat, \A k \in 1 .. N : j[k] = i[k + 1], WithinHead, SMTT(30)
<1>3. QED
    BY ONLY <1>2, j = Tail(i) DEF Address

LEMMA DownTwo ==
    ASSUME NEW v, NEW n \in Nat, n >= 2, NEW i \in Seq(Int), Len(i) = n
    PROVE  Address(v, i) = Address(Subscript(Subscript(v, i[1]), i[2]), Tail(Tail(i)))
<1> PICK j \in Seq(Int) : j = Tail(i) /\ Len(j) = n - 1 /\ \A k \in 1 .. n - 1 : j[k] = i[k + 1]
    <2>1. n >= 1
        OBVIOUS
    <2>2. QED
        BY ONLY <2>1, i \in Seq(Int), n \in Nat, Len(i) = n, TailOfInts
<1>1. Address(v, i) = Address(Subscript(v, i[1]), j)
    BY DownOne
<1>2. j[1] = i[2] /\ n - 1 \in Nat /\ n - 1 >= 1
    OBVIOUS
<1>3. Address(Subscript(v, i[1]), j) = Address(Subscript(Subscript(v, i[1]), j[1]), Tail(j))
    BY ONLY <1>2, j \in Seq(Int), Len(j) = n - 1, DownOne
<1>4. QED
    BY ONLY <1>1, <1>2, <1>3, j = Tail(i)

--------------------------------------------------------------------------------
(* The leading dimension.                                                     *)

SameRest(u, v) == Len(u.dims) = Len(v.dims) /\ \A k \in 1 .. Len(v.dims) : k # 1 => u.dims[k] = v.dims[k]

\* Index j of the leading dimension of u names the row that G[j] named.
MovesLead(u, v, G) ==
    \A j : InDimension(j, u.dims[1]) => InDimension(G[j], v.dims[1]) /\ PlaceAt(u, j) = PlaceAt(v, G[j])

LEMMA SameTails ==
    ASSUME NEW u \in RegularViews, NEW v \in RegularViews, SameRest(u, v)
    PROVE  Tail(u.dims) = Tail(v.dims)
<1> PICK a \in Seq(Regular), b \in Seq(Regular), L \in Nat :
            a = u.dims /\ b = v.dims /\ L = Len(a) /\ L = Len(b) /\ L >= 1
    BY ViewParts DEF SameRest
<1>1. Tail(a) \in Seq(Regular) /\ Len(Tail(a)) = L - 1 /\ \A k \in 1 .. L - 1 : Tail(a)[k] = a[k + 1]
    BY TailOfSeq
<1>2. Tail(b) \in Seq(Regular) /\ Len(Tail(b)) = L - 1 /\ \A k \in 1 .. L - 1 : Tail(b)[k] = b[k + 1]
    BY TailOfSeq
<1>3. ASSUME NEW k \in 1 .. L - 1 PROVE a[k + 1] = b[k + 1]
    <2>1. k + 1 \in 1 .. L /\ k + 1 # 1
        OBVIOUS
    <2>2. QED
        BY <2>1 DEF SameRest
<1>4. Len(Tail(a)) = Len(Tail(b)) /\ \A k \in 1 .. Len(Tail(a)) : Tail(a)[k] = Tail(b)[k]
    BY ONLY <1>1, <1>2, <1>3
<1>5. Tail(a) = Tail(b)
    BY ONLY <1>1, <1>2, <1>4, SeqsEqual
<1>6. QED
    BY ONLY <1>5, a = u.dims, b = v.dims

LEMMA LeadExtensions ==
    ASSUME NEW u \in RegularViews, NEW v \in RegularViews, SameRest(u, v)
    PROVE  Extensions(u.dims) = <<Extension(u.dims[1])>> \o Tail(Extensions(v.dims))
<1> PICK a \in Seq(Regular), b \in Seq(Regular), L \in Nat :
            a = u.dims /\ b = v.dims /\ L = Len(a) /\ L = Len(b) /\ L >= 1
    BY ViewParts DEF SameRest
<1> PICK x \in Seq(Int \X Int) : x = Extensions(a) /\ Len(x) = L /\ \A k \in 1 .. L : x[k] = Extension(a[k])
    BY ONLY a \in Seq(Regular), L = Len(a), ExtensionsOf
<1> PICK y \in Seq(Int \X Int) : y = Extensions(b) /\ Len(y) = L /\ \A k \in 1 .. L : y[k] = Extension(b[k])
    BY ONLY b \in Seq(Regular), L = Len(b), ExtensionsOf
<1>1. x[1] \in Int \X Int /\ x[1] = Extension(a[1])
    OBVIOUS
<1>2. Tail(y) \in Seq(Int \X Int) /\ Len(Tail(y)) = L - 1 /\ \A k \in 1 .. L - 1 : Tail(y)[k] = y[k + 1]
    BY TailOfSeq
<1> PICK z : z = <<x[1]>> \o Tail(y)
    OBVIOUS
<1>3. z \in Seq(Int \X Int) /\ Len(z) = L /\ z[1] = x[1] /\ \A k \in 1 .. L - 1 : z[k + 1] = Tail(y)[k]
    BY ONLY <1>1, <1>2, z = <<x[1]>> \o Tail(y), L \in Nat, OneThen
<1>4. ASSUME NEW k \in 1 .. L PROVE z[k] = x[k]
    <2>1. CASE k = 1
        BY <1>3, <2>1
    <2>2. CASE k # 1
        <3> PICK m \in 1 .. L - 1 : m + 1 = k
            <4>1. k - 1 \in 1 .. L - 1 /\ (k - 1) + 1 = k
                BY <2>2
            <4>2. QED
                BY <4>1
        <3>1. z[m + 1] = y[m + 1]
            BY ONLY <1>2, <1>3, m \in 1 .. L - 1
        <3>2. a[k] = b[k]
            BY <2>2 DEF SameRest
        <3>3. QED
            BY <3>1, <3>2, ZenonT(30)
    <2>3. QED
        BY <2>1, <2>2
<1>5. z = x
    BY ONLY <1>3, <1>4, x \in Seq(Int \X Int), Len(x) = L, SeqsEqual
<1>6. QED
    BY <1>1, <1>5

\* A dimension with indices: n steps of s from the one with index f.
Spanned(d, s, f, n) ==
    /\ s \in Int /\ f \in Int /\ n \in Nat /\ s # 0 /\ n # 0
    /\ d.stride = s /\ d.offset = s * f /\ d.nelems = s * n
    /\ Size(d) = n /\ Extension(d) = <<f, f + n>>

LEMMA EmptyDimension ==
    ASSUME NEW d, d.nelems = 0
    PROVE  Size(d) = 0 /\ Extension(d) = <<0, 0>> /\ \A j : ~InDimension(j, d)
<1>1. Size(d) = 0 /\ Extension(d) = <<0, 0>>
    BY DEF Size, Extension
<1>2. \A j : ~(j \in 0 .. 0 - 1)
    OBVIOUS
<1>3. QED
    BY <1>1, <1>2 DEF InDimension

LEMMA MadeSpanned ==
    ASSUME NEW d, NEW s \in Int, NEW f \in Int, NEW n \in Nat, s # 0, n # 0,
           d.stride = s, d.offset = s * f, d.nelems = s * n
    PROVE  Spanned(d, s, f, n)
<1>1. s * n # 0 /\ s * f + s * n = s * (f + n) /\ f + n \in Int /\ n \in Int
    OBVIOUS
<1>2. Quotient(s * f, s) = f /\ Quotient(s * n, s) = n /\ Quotient(s * (f + n), s) = f + n
    BY ONLY <1>1, s \in Int, s # 0, f \in Int, QuotientExact
<1>3. Size(d) = n
    BY ONLY <1>1, <1>2, d.stride = s, d.nelems = s * n DEF Size
<1>4. Extension(d) = <<f, f + n>>
    BY ONLY <1>1, <1>2, d.stride = s, d.offset = s * f, d.nelems = s * n DEF Extension
<1>5. QED
    BY <1>3, <1>4 DEF Spanned

LEMMA DimensionCases ==
    ASSUME NEW d \in Regular, d.nelems # 0
    PROVE  \E s, f, n : Spanned(d, s, f, n)
<1>1. IsRegular(d.stride, d.offset, d.nelems)
    BY RegularParts
<1> PICK s \in Int : s = d.stride /\ s # 0
    BY <1>1 DEF IsRegular
<1> PICK f \in Int : d.offset = s * f
    BY <1>1 DEF IsRegular
<1> PICK n \in Nat : d.nelems = s * n
    BY <1>1 DEF IsRegular
<1>2. n # 0
    OBVIOUS
<1>3. QED
    BY <1>2, MadeSpanned

LEMMA PlaceSpanned ==
    ASSUME NEW v \in RegularViews, NEW s, NEW f, NEW n, Spanned(v.dims[1], s, f, n), NEW j \in Int
    PROVE  PlaceAt(v, j) = v.base + (j - f) * s
<1>1. s \in Int /\ f \in Int /\ v.base \in Int /\ v.dims[1].stride = s /\ v.dims[1].offset = s * f
    BY ViewParts DEF Spanned
<1>2. j * s - s * f = (j - f) * s
    BY ONLY <1>1, j \in Int
<1>3. QED
    BY ONLY <1>1, <1>2 DEF PlaceAt

\* An index is its head and its tail.
LEMMA HeadTail ==
    ASSUME NEW i \in Seq(Int), Len(i) >= 1
    PROVE  <<i[1]>> \o Tail(i) = i
<1> PICK L \in Nat : L = Len(i)
    OBVIOUS
<1> PICK t \in Seq(Int) : t = Tail(i) /\ Len(t) = L - 1 /\ \A k \in 1 .. L - 1 : t[k] = i[k + 1]
    BY TailOfInts
<1> PICK h : h = <<i[1]>> \o t
    OBVIOUS
<1>1. i[1] \in Int
    OBVIOUS
<1>2. h \in Seq(Int) /\ Len(h) = L /\ h[1] = i[1] /\ \A k \in 1 .. L - 1 : h[k + 1] = t[k]
    BY <1>1, OneThen
<1>3. ASSUME NEW k \in 1 .. L PROVE h[k] = i[k]
    <2>1. CASE k = 1
        BY <1>2, <2>1
    <2>2. CASE k # 1
        <3> PICK m \in 1 .. L - 1 : m + 1 = k
            <4>1. k - 1 \in 1 .. L - 1 /\ (k - 1) + 1 = k
                BY <2>2
            <4>2. QED
                BY <4>1
        <3>1. QED
            BY <1>2
    <2>3. QED
        BY <2>1, <2>2
<1>4. h = i
    BY ONLY <1>2, <1>3, i \in Seq(Int), L = Len(i), SeqsEqual
<1>5. QED
    BY <1>4

\* Another leading dimension changes no other.
LEMMA OtherTop ==
    ASSUME NEW v \in RegularViews, NEW u, NEW d \in Regular, u.dims = [v.dims EXCEPT ![1] = d]
    PROVE  SameRest(u, v) /\ u.dims[1] = d
<1> PICK a \in Seq(Regular) : a = v.dims /\ a # <<>>
    BY ViewParts
<1> PICK b : b = [a EXCEPT ![1] = d]
    OBVIOUS
<1>1. Len(b) = Len(a) /\ b[1] = d /\ \A k \in 1 .. Len(a) : k # 1 => b[k] = a[k]
    BY TopReplaced
<1>2. QED
    BY ONLY <1>1, a = v.dims, b = [a EXCEPT ![1] = d], u.dims = [v.dims EXCEPT ![1] = d] DEF SameRest

LEMMA StridedFactor ==
    ASSUME NEW t \in Int, t # 0, NEW s \in Int, s # 0, NEW f \in Int, Remainder(t * f, s * t) = 0
    PROVE  \E k \in Int : f = s * k
<1> PICK m \in Int, o \in Int : m = s * t /\ o = t * f
    OBVIOUS
<1>1. m # 0
    OBVIOUS
<1>2. PICK k \in Int : o = m * k
    BY <1>1, RemainderZero
<1> PICK c \in Int : c = s * k
    OBVIOUS
<1>3. t * f = t * c
    <2>1. (s * t) * k = t * (s * k)
        OBVIOUS
    <2>2. QED
        BY ONLY <1>2, <2>1, m = s * t, o = t * f, c = s * k
<1>4. f = c
    BY ONLY <1>3, t \in Int, t # 0, f \in Int, c \in Int, Cancel
<1>5. QED
    BY <1>4

--------------------------------------------------------------------------------
(* Leading dimensions, one and two at a time.                                 *)

Led(x, s) == <<x>> \o s

LedByTwo(x, y, s) == <<x, y>> \o s

LEMMA TailOfTwo ==
    ASSUME NEW T, NEW x \in T, NEW y \in T, NEW s \in Seq(T)
    PROVE  /\ LedByTwo(x, y, s) = Led(x, Led(y, s)) /\ Led(y, s) \in Seq(T)
<1> PICK r : r = <<y>> \o s
    OBVIOUS
<1>1. r \in Seq(T) /\ Tail(r) = s /\ Len(r) = Len(s) + 1 /\ r[1] = y /\ \A k \in 1 .. Len(s) : r[k + 1] = s[k]
    BY OneThen, TailOfOne
<1>2. <<x, y>> \o s = <<x>> \o r
    <2> PICK a, b, L : a = <<x, y>> \o s /\ b = <<x>> \o r /\ L = Len(s)
        OBVIOUS
    <2>1. a \in Seq(T) /\ Len(a) = L + 2 /\ a[1] = x /\ a[2] = y /\ \A k \in 1 .. L : a[k + 2] = s[k]
        BY TwoThen
    <2>2. b \in Seq(T) /\ Len(b) = L + 2 /\ b[1] = x /\ \A k \in 1 .. L + 1 : b[k + 1] = r[k]
        <3>1. b \in Seq(T) /\ Len(b) = Len(r) + 1 /\ b[1] = x /\ \A k \in 1 .. Len(r) : b[k + 1] = r[k]
            BY <1>1, OneThen
        <3>2. Len(r) = L + 1 /\ L + 1 + 1 = L + 2
            BY <1>1
        <3>3. QED
            BY ONLY <3>1, <3>2
    <2>3. L \in Nat
        OBVIOUS
    <2>4. ASSUME NEW k \in 1 .. L + 2 PROVE a[k] = b[k]
        <3>1. CASE k = 1
            BY <2>1, <2>2, <3>1
        <3>2. CASE k = 2
            <4>1. 1 \in 1 .. L + 1 /\ 1 + 1 = 2
                BY <2>3
            <4>2. b[2] = r[1]
                BY ONLY <2>2, <4>1
            <4>3. QED
                BY ONLY <1>1, <2>1, <3>2, <4>2
        <3>3. CASE k > 2
            <4> PICK m \in 1 .. L : m + 2 = k
                <5>1. k - 2 \in 1 .. L /\ (k - 2) + 2 = k
                    BY <2>3, <3>3
                <5>2. QED
                    BY <5>1
            <4>1. m + 1 \in 1 .. L + 1 /\ (m + 1) + 1 = m + 2
                BY <2>3
            <4>2. b[m + 2] = r[m + 1] /\ r[m + 1] = s[m]
                BY ONLY <1>1, <2>2, <4>1, m \in 1 .. L, L = Len(s)
            <4>3. a[m + 2] = s[m]
                BY ONLY <2>1, m \in 1 .. L
            <4>4. QED
                BY ONLY <4>2, <4>3, m + 2 = k
        <3>4. k = 1 \/ k = 2 \/ k > 2
            BY ONLY <2>3, k \in 1 .. L + 2
        <3>5. QED
            BY ONLY <3>1, <3>2, <3>3, <3>4
    <2>5. a = b
        BY ONLY <2>1, <2>2, <2>4, SeqsEqual
    <2>6. QED
        BY <2>5
<1>4. LedByTwo(x, y, s) = <<x>> \o r /\ Led(x, Led(y, s)) = <<x>> \o r /\ Led(y, s) = r
    BY ONLY <1>2, r = <<y>> \o s DEF Led, LedByTwo
<1>5. QED
    BY ONLY <1>1, <1>4

IsLed(r, n, x, y, s) == r = LedByTwo(x, y, s) /\ n = Len(s) + 2

LEMMA RestOfTwo ==
    ASSUME NEW T, NEW x \in T, NEW y \in T, NEW s \in Seq(T), NEW r, NEW n, IsLed(r, n, x, y, s)
    PROVE  /\ r \in Seq(T) /\ Len(r) = n /\ r[1] = x /\ r[2] = y
           /\ Tail(r) = Led(y, s) /\ Tail(Tail(r)) = s /\ SubSeq(r, 3, n) = s
<1> PICK q \in Seq(T) : q = Led(y, s) /\ LedByTwo(x, y, s) = Led(x, q)
    BY TailOfTwo
<1>1. r = <<x>> \o q /\ q = <<y>> \o s /\ r = <<x, y>> \o s /\ n = Len(s) + 2
    BY DEF Led, LedByTwo, IsLed
<1>2. r \in Seq(T) /\ Len(r) = n /\ r[1] = x /\ r[2] = y
    <2> PICK m \in Nat : m = Len(s)
        OBVIOUS
    <2> PICK p : p = <<x, y>> \o s
        OBVIOUS
    <2>1. p \in Seq(T) /\ Len(p) = m + 2 /\ p[1] = x /\ p[2] = y
        BY TwoThen
    <2>2. QED
        BY ONLY <1>1, <2>1, p = <<x, y>> \o s, m = Len(s)
<1>3. Tail(r) = q
    BY ONLY <1>1, q \in Seq(T), TailOfOne
<1>4. Tail(q) = s
    BY ONLY <1>1, s \in Seq(T), TailOfOne
<1>7. n = Len(r) /\ n >= 2
    BY <1>1, <1>2
<1>5. SubSeq(r, 3, n) = Tail(Tail(r))
    BY ONLY <1>2, <1>7, FromThird
<1>6. QED
    BY ONLY <1>2, <1>3, <1>4, <1>5, <1>7, q = Led(y, s)

LEMMA IndexCons ==
    ASSUME NEW d \in Regular, NEW ds \in Seq(Regular), NEW i
    PROVE  IsIndex(i, Led(d, ds)) <=> i \in Seq(Int) /\ Len(i) >= 1 /\ InDimension(i[1], d) /\ IsIndex(Tail(i), ds)
<1> PICK L \in Nat : L = Len(ds)
    OBVIOUS
<1> PICK e : e = Led(d, ds)
    OBVIOUS
<1>1. Len(e) = L + 1 /\ e[1] = d /\ \A k \in 1 .. L : e[k + 1] = ds[k]
    <2>1. e = <<d>> \o ds
        BY DEF Led
    <2>2. QED
        BY <2>1, OneThen
<1>2. ASSUME IsIndex(i, e) PROVE i \in Seq(Int) /\ Len(i) >= 1 /\ InDimension(i[1], d) /\ IsIndex(Tail(i), ds)
    <2>1. i \in Seq(Int) /\ Len(i) = L + 1 /\ \A k \in 1 .. L + 1 : InDimension(i[k], e[k])
        BY ONLY <1>1, <1>2 DEF IsIndex
    <2>2. Len(i) >= 1 /\ 1 \in 1 .. L + 1
        <3>1. Len(i) = L + 1
            BY ONLY <2>1
        <3>2. QED
            BY ONLY <3>1, L \in Nat
    <2>3. Tail(i) \in Seq(Int) /\ Len(Tail(i)) = L /\ \A k \in 1 .. L : Tail(i)[k] = i[k + 1]
        <3>1. Tail(i) \in Seq(Int) /\ Len(Tail(i)) = Len(i) - 1 /\ \A k \in 1 .. Len(i) - 1 : Tail(i)[k] = i[k + 1]
            BY ONLY <2>1, <2>2, TailOfSeq
        <3>2. Len(i) - 1 = L
            BY ONLY <2>1, L \in Nat
        <3>3. QED
            BY ONLY <3>1, <3>2, Zenon
    <2>4. ASSUME NEW k \in 1 .. L PROVE InDimension(Tail(i)[k], ds[k])
        <3>1. k + 1 \in 1 .. L + 1
            OBVIOUS
        <3>2. QED
            BY ONLY <1>1, <2>1, <2>3, <3>1, k \in 1 .. L
    <2>5. QED
        BY <1>1, <2>1, <2>2, <2>3, <2>4 DEF IsIndex
<1>3. ASSUME i \in Seq(Int), Len(i) >= 1, InDimension(i[1], d), IsIndex(Tail(i), ds) PROVE IsIndex(i, e)
    <2>1. Tail(i) \in Seq(Int) /\ Len(Tail(i)) = Len(i) - 1 /\ \A k \in 1 .. Len(i) - 1 : Tail(i)[k] = i[k + 1]
        BY ONLY <1>3, TailOfSeq
    <2>2. Len(Tail(i)) = L /\ \A k \in 1 .. L : InDimension(Tail(i)[k], ds[k])
        BY <1>3 DEF IsIndex
    <2>3. Len(i) = L + 1 /\ Len(i) - 1 = L
        <3> i \in Seq(Int)
            BY ONLY <1>3, Zenon
        <3>1. Len(i) \in Nat
            BY ONLY i \in Seq(Int)
        <3>2. Len(i) - 1 = L
            BY ONLY <2>1, <2>2, Zenon
        <3>3. QED
            BY ONLY <3>1, <3>2
    <2>4. ASSUME NEW k \in 1 .. L + 1 PROVE InDimension(i[k], e[k])
        <3>1. CASE k = 1
            BY <1>1, <1>3, <3>1
        <3>2. CASE k # 1
            <4> PICK m \in 1 .. L : m + 1 = k
                <5>1. k - 1 \in 1 .. L /\ (k - 1) + 1 = k
                    BY <3>2
                <5>2. QED
                    BY <5>1
            <4>1. i[m + 1] = Tail(i)[m] /\ e[m + 1] = ds[m] /\ InDimension(Tail(i)[m], ds[m])
                BY ONLY <1>1, <2>1, <2>2, <2>3, m \in 1 .. L
            <4>2. QED
                BY ONLY <4>1, m + 1 = k
        <3>3. QED
            BY <3>1, <3>2
    <2>5. QED
        BY ONLY <1>1, <1>3, <2>3, <2>4 DEF IsIndex
<1>4. QED
    BY <1>2, <1>3

LEMMA AddressCons ==
    ASSUME NEW d \in Regular, NEW ds \in Seq(Regular), NEW b, NEW i \in Seq(Int), Len(i) >= 1
    PROVE  Address(View(Led(d, ds), b), i) = Address(View(ds, b + (i[1] * d.stride - d.offset)), Tail(i))
<1> PICK v, n : v = View(Led(d, ds), b) /\ n = Len(i)
    OBVIOUS
<1>1. n \in Nat /\ n >= 1
    OBVIOUS
<1>2. Address(v, i) = Address(Subscript(v, i[1]), Tail(i))
    BY ONLY <1>1, n = Len(i), i \in Seq(Int), DownOne
<1>3. v.dims = <<d>> \o ds /\ v.base = b
    BY DEF View, Led
<1>4. Tail(v.dims) = ds /\ v.dims[1] = d
    BY ONLY <1>3, ds \in Seq(Regular), TailOfOne
<1>5. Subscript(v, i[1]) = View(ds, b + (i[1] * d.stride - d.offset))
    BY ONLY <1>3, <1>4 DEF Subscript
<1>6. QED
    BY ONLY <1>2, <1>5, v = View(Led(d, ds), b)

LEMMA ExtensionsCons ==
    ASSUME NEW d \in Regular, NEW ds \in Seq(Regular)
    PROVE  /\ Led(d, ds) \in Seq(Regular) /\ Led(d, ds) # <<>>
           /\ Extensions(Led(d, ds)) = Led(Extension(d), Extensions(ds))
           /\ Extensions(ds) \in Seq(Int \X Int) /\ Extension(d) \in Int \X Int
<1>0. <<d>> \o ds \in Seq(Regular)
    BY ONLY d \in Regular, ds \in Seq(Regular), OneThen
<1> PICK L \in Nat : L = Len(ds)
    OBVIOUS
<1> PICK e \in Seq(Regular) : e = <<d>> \o ds
    BY <1>0
<1>1. Len(e) = L + 1 /\ e[1] = d /\ \A k \in 1 .. L : e[k + 1] = ds[k]
    BY ONLY L = Len(ds), e = <<d>> \o ds, d \in Regular, ds \in Seq(Regular), OneThen
<1> PICK x \in Seq(Int \X Int) : x = Extensions(ds) /\ Len(x) = L /\ \A k \in 1 .. L : x[k] = Extension(ds[k])
    BY ONLY ds \in Seq(Regular), L = Len(ds), ExtensionsOf
<1> PICK y \in Seq(Int \X Int) : y = Extensions(e) /\ Len(y) = L + 1 /\ \A k \in 1 .. L + 1 : y[k] = Extension(e[k])
    <2>1. /\ Extensions(e) \in Seq(Int \X Int) /\ Len(Extensions(e)) = Len(e)
          /\ \A k \in 1 .. Len(e) : Extensions(e)[k] = Extension(e[k])
        BY ONLY e \in Seq(Regular), ExtensionsOf
    <2>2. QED
        BY ONLY <1>1, <2>1
<1>2. Extension(d) \in Int \X Int
    BY ExtensionPair
<1> PICK z : z = <<Extension(d)>> \o x
    OBVIOUS
<1>3. z \in Seq(Int \X Int) /\ Len(z) = L + 1 /\ z[1] = Extension(d) /\ \A k \in 1 .. L : z[k + 1] = x[k]
    BY <1>2, OneThen
<1>4. ASSUME NEW k \in 1 .. L + 1 PROVE z[k] = y[k]
    <2>1. CASE k = 1
        BY <1>1, <1>3, <2>1
    <2>2. CASE k # 1
        <3> PICK m \in 1 .. L : m + 1 = k
            <4>1. k - 1 \in 1 .. L /\ (k - 1) + 1 = k
                BY <2>2
            <4>2. QED
                BY <4>1
        <3>1. z[m + 1] = x[m] /\ x[m] = Extension(ds[m]) /\ e[m + 1] = ds[m]
            BY ONLY <1>1, <1>3, m \in 1 .. L, \A kk \in 1 .. L : x[kk] = Extension(ds[kk])
        <3>2. QED
            BY <3>1
    <2>3. QED
        BY <2>1, <2>2
<1>5. z = y
    BY ONLY <1>3, <1>4, y \in Seq(Int \X Int), Len(y) = L + 1, SeqsEqual
<1>6. e = Led(d, ds) /\ e # <<>> /\ z = Led(Extension(d), x)
    BY <1>1 DEF Led
<1>7. QED
    BY ONLY <1>2, <1>5, <1>6, e \in Seq(Regular), x \in Seq(Int \X Int), x = Extensions(ds), y = Extensions(e)

LEMMA ViewCons ==
    ASSUME NEW v \in RegularViews
    PROVE  \E d \in Regular, ds \in Seq(Regular) : d = v.dims[1] /\ ds = Tail(v.dims) /\ v = View(Led(d, ds), v.base)
<1> PICK e \in Seq(Regular) : e = v.dims /\ Len(e) >= 1
    BY ViewParts
<1>1. Tail(e) \in Seq(Regular) /\ e[1] \in Regular
    BY TailOfSeq
<1>2. <<e[1]>> \o Tail(e) = e
    <2> PICK h : h = <<e[1]>> \o Tail(e)
        OBVIOUS
    <2> PICK L \in Nat : L + 1 = Len(e)
        <3>1. Len(e) - 1 \in Nat /\ (Len(e) - 1) + 1 = Len(e)
            OBVIOUS
        <3>2. QED
            BY <3>1
    <2>1. Len(Tail(e)) = L /\ \A k \in 1 .. L : Tail(e)[k] = e[k + 1]
        BY TailOfSeq
    <2>2. h \in Seq(Regular) /\ Len(h) = L + 1 /\ h[1] = e[1] /\ \A k \in 1 .. L : h[k + 1] = Tail(e)[k]
        BY <1>1, <2>1, OneThen
    <2>3. ASSUME NEW k \in 1 .. L + 1 PROVE h[k] = e[k]
        <3>1. CASE k = 1
            BY <2>2, <3>1
        <3>2. CASE k # 1
            <4> PICK m \in 1 .. L : m + 1 = k
                <5>1. k - 1 \in 1 .. L /\ (k - 1) + 1 = k
                    BY <3>2
                <5>2. QED
                    BY <5>1
            <4>1. QED
                BY <2>1, <2>2
        <3>3. QED
            BY <3>1, <3>2
    <2>4. h = e
        BY ONLY <2>2, <2>3, e \in Seq(Regular), L + 1 = Len(e), SeqsEqual
    <2>5. QED
        BY <2>4
<1>3. v = View(Led(e[1], Tail(e)), v.base)
    BY <1>2, ViewParts DEF Led
<1>4. QED
    BY ONLY <1>1, <1>3, e = v.dims

\* Two at a time.
LEMMA IndexTwo ==
    ASSUME NEW d \in Regular, NEW e \in Regular, NEW ds \in Seq(Regular), NEW i
    PROVE  IsIndex(i, LedByTwo(d, e, ds)) <=>
               /\ i \in Seq(Int) /\ Len(i) >= 2 /\ InDimension(i[1], d) /\ InDimension(i[2], e)
               /\ IsIndex(Tail(Tail(i)), ds)
<1> PICK es \in Seq(Regular) : es = Led(e, ds) /\ LedByTwo(d, e, ds) = Led(d, es)
    BY TailOfTwo
<1>1. LedByTwo(d, e, ds) = Led(d, es)
    OBVIOUS
<1>2. IsIndex(i, Led(d, es)) <=> i \in Seq(Int) /\ Len(i) >= 1 /\ InDimension(i[1], d) /\ IsIndex(Tail(i), es)
    BY IndexCons
<1>3. IsIndex(Tail(i), es) <=> Tail(i) \in Seq(Int) /\ Len(Tail(i)) >= 1 /\ InDimension(Tail(i)[1], e)
      /\ IsIndex(Tail(Tail(i)), ds)
    BY IndexCons
<1>4. ASSUME i \in Seq(Int), Len(i) >= 1
      PROVE  /\ Tail(i) \in Seq(Int) /\ (Len(Tail(i)) >= 1 <=> Len(i) >= 2)
             /\ Len(i) >= 2 => Tail(i)[1] = i[2]
    <2>1. Tail(i) \in Seq(Int) /\ Len(Tail(i)) = Len(i) - 1 /\ \A k \in 1 .. Len(i) - 1 : Tail(i)[k] = i[k + 1]
        BY ONLY <1>4, TailOfSeq
    <2>2. Len(i) \in Nat
        BY <1>4
    <2>3. Len(i) >= 2 => 1 \in 1 .. Len(i) - 1 /\ 1 + 1 = 2
        BY <2>2
    <2>4. QED
        BY ONLY <2>1, <2>2, <2>3
<1>5. Len(i) >= 2 /\ i \in Seq(Int) => Len(i) >= 1
    OBVIOUS
<1>6. QED
    BY ONLY <1>1, <1>2, <1>3, <1>4, <1>5

LEMMA AddressTwo ==
    ASSUME NEW d \in Regular, NEW e \in Regular, NEW ds \in Seq(Regular), NEW b, NEW i \in Seq(Int), Len(i) >= 2
    PROVE  Address(View(LedByTwo(d, e, ds), b), i) =
               Address(View(ds, b + (i[1] * d.stride - d.offset) + (i[2] * e.stride - e.offset)), Tail(Tail(i)))
<1> PICK es \in Seq(Regular) : es = Led(e, ds) /\ LedByTwo(d, e, ds) = Led(d, es)
    BY TailOfTwo
<1>1. LedByTwo(d, e, ds) = Led(d, es)
    OBVIOUS
<1>2. Len(i) >= 1
    OBVIOUS
<1> PICK t \in Seq(Int) : t = Tail(i) /\ Len(t) >= 1 /\ t[1] = i[2]
    <2>1. Tail(i) \in Seq(Int) /\ Len(Tail(i)) = Len(i) - 1 /\ \A k \in 1 .. Len(i) - 1 : Tail(i)[k] = i[k + 1]
        BY ONLY <1>2, i \in Seq(Int), TailOfSeq
    <2>2. 1 \in 1 .. Len(i) - 1 /\ 1 + 1 = 2 /\ Len(i) - 1 >= 1
        OBVIOUS
    <2>3. QED
        BY ONLY <2>1, <2>2
<1> PICK c : c = b + (i[1] * d.stride - d.offset)
    OBVIOUS
<1>3. Address(View(Led(d, es), b), i) = Address(View(es, c), t)
    BY ONLY <1>2, i \in Seq(Int), d \in Regular, es \in Seq(Regular), c = b + (i[1] * d.stride - d.offset),
       t = Tail(i), AddressCons
<1>4. Address(View(Led(e, ds), c), t) = Address(View(ds, c + (t[1] * e.stride - e.offset)), Tail(t))
    BY ONLY t \in Seq(Int), Len(t) >= 1, e \in Regular, ds \in Seq(Regular), AddressCons
<1>5. QED
    BY ONLY <1>1, <1>3, <1>4, es = Led(e, ds), t = Tail(i), t[1] = i[2], c = b + (i[1] * d.stride - d.offset)

LEMMA ExtensionsTwo ==
    ASSUME NEW d \in Regular, NEW e \in Regular, NEW ds \in Seq(Regular)
    PROVE  /\ LedByTwo(d, e, ds) \in Seq(Regular) /\ LedByTwo(d, e, ds) # <<>>
           /\ Extensions(LedByTwo(d, e, ds)) = LedByTwo(Extension(d), Extension(e), Extensions(ds))
<1> PICK es \in Seq(Regular) : es = Led(e, ds) /\ LedByTwo(d, e, ds) = Led(d, es)
    BY TailOfTwo
<1>1. LedByTwo(d, e, ds) = Led(d, es)
    OBVIOUS
<1>2. Extensions(es) = Led(Extension(e), Extensions(ds)) /\ Extension(e) \in Int \X Int /\ Extensions(ds) \in Seq(Int \X Int)
    BY ExtensionsCons
<1>3. Led(d, es) \in Seq(Regular) /\ Led(d, es) # <<>> /\ Extensions(Led(d, es)) = Led(Extension(d), Extensions(es))
      /\ Extension(d) \in Int \X Int
    BY ExtensionsCons
<1> PICK P : P = Int \X Int
    OBVIOUS
<1> PICK x \in P : x = Extension(d)
    BY <1>3
<1> PICK y \in P : y = Extension(e)
    BY <1>2
<1> PICK z \in Seq(P) : z = Extensions(ds)
    BY <1>2
<1>4. LedByTwo(x, y, z) = Led(x, Led(y, z))
    BY ONLY x \in P, y \in P, z \in Seq(P), TailOfTwo
<1>5. Extensions(LedByTwo(d, e, ds)) = LedByTwo(x, y, z)
    BY ONLY <1>1, <1>2, <1>3, <1>4, x = Extension(d), y = Extension(e), z = Extensions(ds)
<1>6. QED
    BY ONLY <1>1, <1>3, <1>4, <1>5, x = Extension(d), y = Extension(e), z = Extensions(ds)

LEMMA ViewTwo ==
    ASSUME NEW v \in RegularViews, Len(v.dims) > 1
    PROVE  \E d \in Regular, e \in Regular, ds \in Seq(Regular) :
               /\ d = v.dims[1] /\ e = v.dims[2] /\ ds = Tail(Tail(v.dims)) /\ Tail(v.dims) = Led(e, ds)
               /\ v = View(LedByTwo(d, e, ds), v.base)
<1> PICK d \in Regular, es \in Seq(Regular) : d = v.dims[1] /\ es = Tail(v.dims) /\ v = View(Led(d, es), v.base)
    BY ViewCons
<1>1. es # <<>> /\ es[1] = v.dims[2]
    <2>1. v.dims \in Seq(Regular)
        BY ViewParts
    <2>2. Tail(v.dims) # <<>> /\ Len(v.dims) \in Nat /\ \A k \in 1 .. Len(v.dims) - 1 : Tail(v.dims)[k] = v.dims[k + 1]
        BY <2>1, TailRegular
    <2>3. 1 \in 1 .. Len(v.dims) - 1 /\ 1 + 1 = 2
        BY <2>2
    <2>4. QED
        BY ONLY <2>2, <2>3, es = Tail(v.dims)
<1> PICK w \in RegularViews : w.dims = es
    <2>1. View(es, 0) \in RegularViews /\ View(es, 0).dims = es
        BY ONLY <1>1, es \in Seq(Regular), 0 \in Int, MadeView
    <2>2. QED
        BY <2>1
<1> PICK e \in Regular, ds \in Seq(Regular) : e = w.dims[1] /\ ds = Tail(w.dims) /\ w = View(Led(e, ds), w.base)
    BY ViewCons
<1>2. es = Led(e, ds)
    <2>1. w.dims = Led(e, ds)
        BY ONLY w = View(Led(e, ds), w.base) DEF View
    <2>2. QED
        BY ONLY <2>1, w.dims = es
<1>3. LedByTwo(d, e, ds) = Led(d, es)
    <2>1. LedByTwo(d, e, ds) = Led(d, Led(e, ds))
        BY ONLY d \in Regular, e \in Regular, ds \in Seq(Regular), TailOfTwo
    <2>2. QED
        BY ONLY <1>2, <2>1
<1>4. e = v.dims[2] /\ ds = Tail(Tail(v.dims)) /\ Tail(v.dims) = Led(e, ds)
    BY <1>1, <1>2
<1>5. QED
    BY ONLY <1>3, <1>4, d = v.dims[1], v = View(Led(d, es), v.base), d \in Regular, e \in Regular, ds \in Seq(Regular)

\* The step from a dimension to an address.
StepAt(d, j) == j * d.stride - d.offset

\* An index with another head.
LEMMA LedIndex ==
    ASSUME NEW d \in Regular, NEW ds \in Seq(Regular), NEW b, NEW j \in Int, NEW t \in Seq(Int)
    PROVE  /\ Led(j, t) \in Seq(Int)
           /\ IsIndex(Led(j, t), Led(d, ds)) <=> InDimension(j, d) /\ IsIndex(t, ds)
           /\ Address(View(Led(d, ds), b), Led(j, t)) = Address(View(ds, b + StepAt(d, j)), t)
<1> PICK h : h = Led(j, t)
    OBVIOUS
<1>1. h = <<j>> \o t
    BY DEF Led
<1>2. h \in Seq(Int) /\ Len(h) = Len(t) + 1 /\ h[1] = j
    BY ONLY <1>1, j \in Int, t \in Seq(Int), OneThen
<1>3. Tail(h) = t
    BY ONLY <1>1, t \in Seq(Int), TailOfOne
<1>4. Len(h) >= 1
    BY ONLY <1>2, t \in Seq(Int)
<1>5. IsIndex(h, Led(d, ds)) <=> h \in Seq(Int) /\ Len(h) >= 1 /\ InDimension(h[1], d) /\ IsIndex(Tail(h), ds)
    BY ONLY d \in Regular, ds \in Seq(Regular), IndexCons
<1>6. Address(View(Led(d, ds), b), h) = Address(View(ds, b + (h[1] * d.stride - d.offset)), Tail(h))
    BY ONLY <1>2, <1>4, d \in Regular, ds \in Seq(Regular), AddressCons
<1>7. QED
    BY ONLY <1>2, <1>3, <1>4, <1>5, <1>6, h = Led(j, t) DEF StepAt

\* The same, of indices.
LEMMA LedInts ==
    ASSUME NEW x \in Int, NEW y \in Int, NEW s \in Seq(Int)
    PROVE  /\ LedByTwo(x, y, s) = Led(x, Led(y, s)) /\ Led(y, s) \in Seq(Int)
<1> PICK T : T = Int
    OBVIOUS
<1>1. x \in T /\ y \in T /\ s \in Seq(T)
    OBVIOUS
<1>2. LedByTwo(x, y, s) = Led(x, Led(y, s)) /\ Led(y, s) \in Seq(T)
    BY ONLY <1>1, TailOfTwo
<1>3. QED
    BY ONLY <1>2, T = Int

LEMMA LedByTwoIndex ==
    ASSUME NEW d \in Regular, NEW e \in Regular, NEW ds \in Seq(Regular), NEW b,
           NEW j \in Int, NEW k \in Int, NEW t \in Seq(Int)
    PROVE  /\ IsIndex(LedByTwo(j, k, t), LedByTwo(d, e, ds)) <=> InDimension(j, d) /\ InDimension(k, e) /\ IsIndex(t, ds)
           /\ Address(View(LedByTwo(d, e, ds), b), LedByTwo(j, k, t)) = Address(View(ds, b + StepAt(d, j) + StepAt(e, k)), t)
<1> PICK es \in Seq(Regular) : es = Led(e, ds) /\ LedByTwo(d, e, ds) = Led(d, es)
    BY ONLY d \in Regular, e \in Regular, ds \in Seq(Regular), TailOfTwo
<1> PICK s \in Seq(Int) : s = Led(k, t) /\ LedByTwo(j, k, t) = Led(j, s)
    BY ONLY j \in Int, k \in Int, t \in Seq(Int), LedInts
<1> PICK c : c = b + StepAt(d, j)
    OBVIOUS
<1>1. /\ IsIndex(Led(j, s), Led(d, es)) <=> InDimension(j, d) /\ IsIndex(s, es)
      /\ Address(View(Led(d, es), b), Led(j, s)) = Address(View(es, b + StepAt(d, j)), s)
    BY ONLY d \in Regular, es \in Seq(Regular), j \in Int, s \in Seq(Int), LedIndex
<1>2. /\ IsIndex(Led(k, t), Led(e, ds)) <=> InDimension(k, e) /\ IsIndex(t, ds)
      /\ Address(View(Led(e, ds), c), Led(k, t)) = Address(View(ds, c + StepAt(e, k)), t)
    BY ONLY e \in Regular, ds \in Seq(Regular), k \in Int, t \in Seq(Int), LedIndex
<1>3. QED
    BY ONLY <1>1, <1>2, es = Led(e, ds), s = Led(k, t), LedByTwo(d, e, ds) = Led(d, es), LedByTwo(j, k, t) = Led(j, s),
            c = b + StepAt(d, j)

\* Taking an index apart.
LEMMA HeadOf ==
    ASSUME NEW d \in Regular, NEW ds \in Seq(Regular), NEW i, IsIndex(i, Led(d, ds))
    PROVE  /\ i[1] \in Int /\ InDimension(i[1], d)
           /\ Tail(i) \in Seq(Int) /\ IsIndex(Tail(i), ds) /\ i = Led(i[1], Tail(i))
<1>1. i \in Seq(Int) /\ Len(i) >= 1 /\ InDimension(i[1], d) /\ IsIndex(Tail(i), ds)
    BY IndexCons
<1>2. i[1] \in Int /\ Tail(i) \in Seq(Int)
    BY <1>1, TailOfSeq
<1>3. i = Led(i[1], Tail(i))
    BY <1>1, HeadTail DEF Led
<1>4. QED
    BY <1>1, <1>2, <1>3

HeadsAre(i, j, k, t) == j = i[1] /\ k = i[2] /\ t = Tail(Tail(i))

LEMMA HeadsOf ==
    ASSUME NEW d \in Regular, NEW e \in Regular, NEW ds \in Seq(Regular), NEW i, IsIndex(i, LedByTwo(d, e, ds)),
           NEW j, NEW k, NEW t, HeadsAre(i, j, k, t)
    PROVE  /\ j \in Int /\ InDimension(j, d) /\ k \in Int /\ InDimension(k, e)
           /\ t \in Seq(Int) /\ IsIndex(t, ds) /\ i = LedByTwo(j, k, t)
<1> PICK es \in Seq(Regular) : es = Led(e, ds) /\ LedByTwo(d, e, ds) = Led(d, es)
    BY ONLY d \in Regular, e \in Regular, ds \in Seq(Regular), TailOfTwo
<1> PICK s : s = Tail(i)
    OBVIOUS
<1>0. j = i[1] /\ k = i[2] /\ t = Tail(s)
    BY DEF HeadsAre
<1>1. i[1] \in Int /\ InDimension(i[1], d) /\ Tail(i) \in Seq(Int) /\ IsIndex(Tail(i), es) /\ i = Led(i[1], Tail(i))
    BY HeadOf
<1>2. j \in Int /\ InDimension(j, d) /\ s \in Seq(Int) /\ IsIndex(s, es) /\ i = Led(j, s)
    BY ONLY <1>0, <1>1, s = Tail(i)
<1> PICK p, r : p = s[1] /\ r = Tail(s)
    OBVIOUS
<1>3. s[1] \in Int /\ InDimension(s[1], e) /\ Tail(s) \in Seq(Int) /\ IsIndex(Tail(s), ds) /\ s = Led(s[1], Tail(s))
    BY ONLY <1>2, es = Led(e, ds), e \in Regular, ds \in Seq(Regular), HeadOf
<1>4. p \in Int /\ InDimension(p, e) /\ r \in Seq(Int) /\ IsIndex(r, ds) /\ s = Led(p, r)
    BY ONLY <1>3, p = s[1], r = Tail(s)
<1>5. i = LedByTwo(j, p, r)
    <2>1. LedByTwo(j, p, r) = Led(j, Led(p, r))
        BY ONLY <1>2, <1>4, LedInts
    <2>2. QED
        BY ONLY <1>2, <1>4, <2>1
<1>6. p = i[2]
    <2> PICK n : n = Len(r) + 2
        OBVIOUS
    <2>1. IsLed(i, n, j, p, r)
        BY <1>5 DEF IsLed
    <2>2. j \in Int /\ p \in Int /\ r \in Seq(Int)
        BY ONLY <1>2, <1>4
    <2> PICK T : T = Int
        OBVIOUS
    <2>3. j \in T /\ p \in T /\ r \in Seq(T)
        BY ONLY <2>2, T = Int
    <2>4. QED
        BY ONLY <2>1, <2>3, RestOfTwo
<1>7. p = k /\ r = t
    BY ONLY <1>0, <1>6, r = Tail(s)
<1>8. QED
    BY ONLY <1>2, <1>4, <1>5, <1>7

--------------------------------------------------------------------------------
(* Rows of parts, patches and rows in one line.                               *)

LEMMA StepSpanned ==
    ASSUME NEW d, NEW s, NEW f, NEW n, Spanned(d, s, f, n)
    PROVE  /\ \A j : InDimension(j, d) <=> j \in Int /\ f <= j /\ j < f + n
           /\ \A j \in Int : StepAt(d, j) = (j - f) * s
<1>1. s \in Int /\ f \in Int /\ n \in Nat /\ d.stride = s /\ d.offset = s * f /\ Extension(d) = <<f, f + n>>
    BY DEF Spanned
<1>2. \A j : InDimension(j, d) <=> j \in f .. f + n - 1
    BY ONLY <1>1 DEF InDimension
<1>3. \A j : j \in f .. f + n - 1 <=> j \in Int /\ f <= j /\ j < f + n
    BY ONLY <1>1
<1>4. ASSUME NEW j \in Int PROVE StepAt(d, j) = (j - f) * s
    <2>1. StepAt(d, j) = j * s - s * f
        BY ONLY <1>1 DEF StepAt
    <2>2. QED
        BY ONLY <1>1, <2>1, j \in Int
<1>5. QED
    BY <1>2, <1>3, <1>4

\* The q-th part of rows, in parts of q rows.
LEMMA RowInPart ==
    ASSUME NEW f \in Int, NEW n \in Nat, NEW q \in Nat, NEW s \in Int, NEW b \in Int,
           NEW j \in Int, NEW k \in Int, 0 <= j, j < n, f <= k, k < f + q
    PROVE  /\ j * q + k \in Int /\ f <= j * q + k /\ j * q + k < f + n * q
           /\ b + (j - 0) * (s * q) + (k - f) * s = b + (j * q + k - f) * s
<1> PICK m \in Int : m = j * q /\ 0 <= m
    <2>1. j \in Nat
        OBVIOUS
    <2>2. QED
        BY ONLY <2>1, q \in Nat
<1>1. m + q <= n * q
    <2> PICK r \in Nat : n = j + 1 + r
        OBVIOUS
    <2>1. n * q = m + q + r * q /\ r * q >= 0
        BY ONLY n = j + 1 + r, j \in Int, r \in Nat, q \in Nat, m = j * q
    <2>2. r * q \in Int /\ n * q \in Int
        OBVIOUS
    <2>3. QED
        BY ONLY <2>1, <2>2, m \in Int, q \in Nat
<1>2. j * q + k \in Int /\ f <= j * q + k /\ j * q + k < f + n * q
    <2>1. n * q \in Int
        OBVIOUS
    <2>2. QED
        BY ONLY <1>1, <2>1, m = j * q, m \in Int, 0 <= m, f \in Int, k \in Int, q \in Nat, f <= k, k < f + q
<1>3. b + (j - 0) * (s * q) + (k - f) * s = b + (j * q + k - f) * s
    BY ONLY f \in Int, q \in Nat, s \in Int, b \in Int, j \in Int, k \in Int
<1>4. QED
    BY ONLY <1>2, <1>3

LEMMA StepInt ==
    ASSUME NEW d \in Regular, NEW j \in Int
    PROVE  StepAt(d, j) \in Int
<1> PICK s \in Int, o \in Int : s = d.stride /\ o = d.offset
    BY RegularParts
<1>1. j * s - o \in Int
    OBVIOUS
<1>2. QED
    BY ONLY <1>1, s = d.stride, o = d.offset DEF StepAt

\* A block of the rows p of a dimension, under the indices they have in it.
PatchOf(c, d, p) ==
    /\ c \in Regular /\ c = DimensionOf(d.stride, p[1] * d.stride, d.stride * (p[2] - p[1]))
    /\ p[1] \in Int /\ p[2] \in Int /\ p[1] <= p[2] /\ (d.nelems = 0 => p[1] = p[2])
    /\ Extension(c) = p /\ StepAt(d, p[1]) \in Int
    /\ \A j : InDimension(j, c) =>
           /\ j \in Int /\ InDimension(j, d) /\ StepAt(c, j) \in Int
           /\ StepAt(d, p[1]) + StepAt(c, j) = StepAt(d, j)

\* Where element x of the rows of n elements is.
LEMMA FlatRow ==
    ASSUME NEW n \in Nat, NEW m \in Nat, NEW x \in Nat, n # 0, x < m * n
    PROVE  /\ x \div n \in Nat /\ x % n \in Nat /\ x % n < n /\ x \div n < m
           /\ x = n * (x \div n) + (x % n)
           /\ x < n => x \div n = 0 /\ x % n = x
<1> PICK q \in Nat : q = x \div n
    BY DivBounds
<1> PICK r \in Int : r = x % n
    OBVIOUS
<1>1. n * q <= x /\ x < n * q + n
    BY DivBounds
<1>2. x = n * q + r /\ 0 <= r /\ r < n
    BY ONLY n \in Nat, x \in Nat, n # 0, q = x \div n, r = x % n
<1>3. q < m
    <2>1. SUFFICES ASSUME m <= q PROVE FALSE
        BY ONLY <2>1, m \in Nat, q \in Nat
    <2>2. PICK z \in Nat : q = m + z
        BY ONLY <2>1, m \in Nat, q \in Nat
    <2>3. n * q = m * n + n * z
        BY ONLY <2>2, m \in Nat, n \in Nat, z \in Nat
    <2>4. n * z >= 0 /\ m * n \in Nat /\ n * z \in Nat
        BY ONLY m \in Nat, n \in Nat, z \in Nat
    <2>5. QED
        BY ONLY <1>1, <2>3, <2>4, x < m * n, x \in Nat
<1>4. x < n => q = 0 /\ r = x
    <2>1. ASSUME x < n PROVE q = 0
        BY ONLY <2>1, n \in Nat, x \in Nat, n # 0, q = x \div n
    <2>2. QED
        BY ONLY <1>2, <2>1, n \in Nat, x \in Nat, r \in Int
<1>5. QED
    BY ONLY <1>2, <1>3, <1>4, q = x \div n, r = x % n, q \in Nat, r \in Int

--------------------------------------------------------------------------------
(* The dimensions in another order.                                           *)

\* h adds up the steps of index i, one dimension after the other.
SumsTo(h, v, i, L) ==
    /\ h \in [0 .. L -> Int] /\ h[0] = v.base /\ h[L] = Address(v, i)
    /\ \A k \in 1 .. L : h[k] = h[k - 1] + StepAt(v.dims[k], i[k])

LEMMA AddressSums ==
    ASSUME NEW v \in RegularViews, NEW i \in Seq(Int), NEW L \in Nat, Len(v.dims) = L, Len(i) = L
    PROVE  \E h : SumsTo(h, v, i, L)
<1>1. v.base \in Int /\ v.dims \in Seq(Regular)
    BY ViewParts
<1>2. DOMAIN i = 1 .. L /\ \A k \in 1 .. L : i[k] \in Int
    OBVIOUS
<1>3. CanDescend(v, i, L)
    <2>1. v.dims \in Seq(Dimensions)
        BY <1>1 DEF Regular
    <2>2. QED
        BY ONLY <1>1, <1>2, <2>1, Len(v.dims) = L, L \in Nat DEF CanDescend
<1> PICK h : Moves_(h, v, i, L)
    BY ONLY <1>2, <1>3, L \in Nat, WithinSteps
<1>4. SumsTo(h, v, i, L)
    BY ONLY Moves_(h, v, i, L) DEF Moves_, SumsTo, Address, StepAt
<1>5. QED
    BY <1>4

\* The view u has the leading dimension of v as its last one, and i the leading index of j.
RolledTo(u, v, i, j, L) ==
    /\ L \in Nat /\ L >= 1 /\ Len(u.dims) = L /\ Len(v.dims) = L /\ Len(i) = L /\ Len(j) = L
    /\ u.base = v.base /\ u.dims[L] = v.dims[1] /\ i[L] = j[1]
    /\ \A k \in 1 .. L - 1 : u.dims[k] = v.dims[k + 1] /\ i[k] = j[k + 1]

LEMMA RolledAddress ==
    ASSUME NEW u \in RegularViews, NEW v \in RegularViews, NEW i \in Seq(Int), NEW j \in Seq(Int), NEW L, RolledTo(u, v, i, j, L)
    PROVE  Address(u, i) = Address(v, j)
<1>1. L \in Nat /\ L >= 1 /\ Len(u.dims) = L /\ Len(v.dims) = L /\ Len(i) = L /\ Len(j) = L
    BY DEF RolledTo
<1> PICK g : SumsTo(g, u, i, L)
    BY <1>1, AddressSums
<1> PICK h : SumsTo(h, v, j, L)
    BY <1>1, AddressSums
<1>2. g \in [0 .. L -> Int] /\ g[0] = u.base /\ g[L] = Address(u, i)
      /\ \A k \in 1 .. L : g[k] = g[k - 1] + StepAt(u.dims[k], i[k])
    BY DEF SumsTo
<1>3. h \in [0 .. L -> Int] /\ h[0] = v.base /\ h[L] = Address(v, j)
      /\ \A k \in 1 .. L : h[k] = h[k - 1] + StepAt(v.dims[k], j[k])
    BY DEF SumsTo
<1> PICK st \in Int : st = StepAt(v.dims[1], j[1])
    <2>1. v.dims[1] \in Regular /\ j[1] \in Int
        BY <1>1, ViewParts
    <2>2. QED
        BY <2>1, StepInt
<1> PICK T : T = {k \in Nat : k <= L - 1 => h[k + 1] = g[k] + st}
    OBVIOUS
<1>4. 0 \in T
    <2>1. h[1] = h[0] + st
        BY ONLY <1>1, <1>3, st = StepAt(v.dims[1], j[1]), SMTT(30)
    <2>2. h[0] = g[0]
        BY <1>2, <1>3 DEF RolledTo
    <2>3. h[0 + 1] = g[0] + st
        BY ONLY <2>1, <2>2
    <2>4. QED
        BY ONLY <2>3, T = {k \in Nat : k <= L - 1 => h[k + 1] = g[k] + st}
<1>5. ASSUME NEW k \in Nat, k \in T PROVE k + 1 \in T
    <2>1. SUFFICES ASSUME k + 1 <= L - 1 PROVE h[k + 2] = g[k + 1] + st
        BY ONLY <2>1, T = {m \in Nat : m <= L - 1 => h[m + 1] = g[m] + st}, k \in Nat, (k + 1) + 1 = k + 2
    <2>2. h[k + 1] = g[k] + st
        BY ONLY <1>1, <1>5, <2>1, T = {m \in Nat : m <= L - 1 => h[m + 1] = g[m] + st}
    <2>3. k + 1 \in 1 .. L - 1 /\ k + 2 \in 1 .. L /\ k + 1 \in 1 .. L /\ (k + 2) - 1 = k + 1 /\ (k + 1) - 1 = k
          /\ (k + 1) + 1 = k + 2
        BY ONLY <1>1, <2>1, k \in Nat
    <2>4. g[k + 1] = g[k] + StepAt(u.dims[k + 1], i[k + 1])
        BY ONLY <1>2, <2>3
    <2>5. h[k + 2] = h[k + 1] + StepAt(v.dims[k + 2], j[k + 2])
        BY ONLY <1>3, <2>3
    <2>6. u.dims[k + 1] = v.dims[k + 2] /\ i[k + 1] = j[k + 2]
        BY ONLY RolledTo(u, v, i, j, L), <2>3 DEF RolledTo
    <2>7. g[k] \in Int /\ g[k + 1] \in Int /\ h[k + 1] \in Int /\ h[k + 2] \in Int
        <3>1. k \in 0 .. L /\ k + 1 \in 0 .. L /\ k + 2 \in 0 .. L
            BY ONLY <1>1, <2>1, k \in Nat
        <3>2. QED
            BY ONLY <1>2, <1>3, <3>1
    <2>8. StepAt(u.dims[k + 1], i[k + 1]) \in Int
        <3>1. u.dims[k + 1] \in Regular
            BY <1>1, <2>3, ViewParts
        <3>2. i[k + 1] \in Int
            BY <1>1, <2>3, SMTT(30)
        <3>3. QED
            BY ONLY <3>1, <3>2, StepInt
    <2>9. QED
        BY ONLY <2>2, <2>4, <2>5, <2>6, <2>7, <2>8, st \in Int, SMTT(30)
<1>6. L - 1 \in T
    <2>1. Nat \subseteq T
        BY ONLY <1>4, <1>5, Induct
    <2>2. QED
        BY ONLY <1>1, <2>1
<1>7. h[L] = g[L - 1] + st
    <2>1. h[(L - 1) + 1] = g[L - 1] + st
        BY ONLY <1>1, <1>6, T = {m \in Nat : m <= L - 1 => h[m + 1] = g[m] + st}
    <2>2. (L - 1) + 1 = L
        BY ONLY <1>1
    <2>3. QED
        BY ONLY <2>1, <2>2
<1>8. g[L] = g[L - 1] + st
    <2>1. g[L] = g[L - 1] + StepAt(u.dims[L], i[L])
        BY ONLY <1>1, <1>2
    <2>2. QED
        BY ONLY <2>1, RolledTo(u, v, i, j, L), st = StepAt(v.dims[1], j[1]) DEF RolledTo
<1>9. QED
    BY ONLY <1>2, <1>3, <1>7, <1>8

LEMMA RolledIndex ==
    ASSUME NEW u \in RegularViews, NEW v \in RegularViews, NEW i \in Seq(Int), NEW j \in Seq(Int), NEW L, RolledTo(u, v, i, j, L)
    PROVE  IsIndex(i, u.dims) <=> IsIndex(j, v.dims)
<1>1. /\ L \in Nat /\ L >= 1 /\ Len(u.dims) = L /\ Len(v.dims) = L /\ Len(i) = L /\ Len(j) = L
      /\ u.dims[L] = v.dims[1] /\ i[L] = j[1]
      /\ \A k \in 1 .. L - 1 : u.dims[k] = v.dims[k + 1] /\ i[k] = j[k + 1]
    BY DEF RolledTo
<1> L \in Nat
    BY ONLY <1>1
<1>2. ASSUME \A k \in 1 .. L : InDimension(i[k], u.dims[k]) PROVE \A k \in 1 .. L : InDimension(j[k], v.dims[k])
    <2> TAKE k \in 1 .. L
    <2>1. k = 1 \/ (k - 1 \in 1 .. L - 1 /\ k - 1 \in 1 .. L /\ (k - 1) + 1 = k)
        BY ONLY L \in Nat, k \in 1 .. L
    <2>2. CASE k = 1
        <3>1. InDimension(i[L], u.dims[L])
            BY ONLY <1>1, <1>2
        <3>2. QED
            BY ONLY <1>1, <2>2, <3>1
    <2>3. CASE k - 1 \in 1 .. L - 1 /\ k - 1 \in 1 .. L /\ (k - 1) + 1 = k
        <3>1. InDimension(i[k - 1], u.dims[k - 1])
            BY ONLY <1>2, <2>3
        <3>2. u.dims[k - 1] = v.dims[k] /\ i[k - 1] = j[k]
            BY ONLY <1>1, <2>3
        <3>3. QED
            BY ONLY <3>1, <3>2
    <2>4. QED
        BY ONLY <2>1, <2>2, <2>3
<1>3. ASSUME \A k \in 1 .. L : InDimension(j[k], v.dims[k]) PROVE \A k \in 1 .. L : InDimension(i[k], u.dims[k])
    <2> TAKE k \in 1 .. L
    <2>1. k = L \/ (k \in 1 .. L - 1 /\ k + 1 \in 1 .. L)
        BY ONLY L \in Nat, k \in 1 .. L
    <2>2. CASE k = L
        <3>1. InDimension(j[1], v.dims[1])
            BY ONLY <1>1, <1>3
        <3>2. QED
            BY ONLY <1>1, <2>2, <3>1
    <2>3. CASE k \in 1 .. L - 1 /\ k + 1 \in 1 .. L
        <3>1. InDimension(j[k + 1], v.dims[k + 1])
            BY ONLY <1>3, <2>3
        <3>2. u.dims[k] = v.dims[k + 1] /\ i[k] = j[k + 1]
            BY ONLY <1>1, <2>3
        <3>3. QED
            BY ONLY <3>1, <3>2
    <2>4. QED
        BY ONLY <2>1, <2>2, <2>3
<1>4. QED
    BY ONLY <1>1, <1>2, <1>3, i \in Seq(Int), j \in Seq(Int) DEF IsIndex

\* The view u has the dimensions of v in the opposite order, and i the indices of j.
BackwardsTo(u, v, i, j, L) ==
    /\ L \in Nat /\ Len(u.dims) = L /\ Len(v.dims) = L /\ Len(i) = L /\ Len(j) = L
    /\ u.base = v.base
    /\ \A k \in 1 .. L : u.dims[k] = v.dims[L - k + 1] /\ i[k] = j[L - k + 1]

LEMMA BackwardsAddress ==
    ASSUME NEW u \in RegularViews, NEW v \in RegularViews, NEW i \in Seq(Int), NEW j \in Seq(Int), NEW L, BackwardsTo(u, v, i, j, L)
    PROVE  Address(u, i) = Address(v, j)
<1>1. L \in Nat /\ Len(u.dims) = L /\ Len(v.dims) = L /\ Len(i) = L /\ Len(j) = L
    BY DEF BackwardsTo
<1> PICK g : SumsTo(g, u, i, L)
    BY <1>1, AddressSums
<1> PICK h : SumsTo(h, v, j, L)
    BY <1>1, AddressSums
<1>2. g \in [0 .. L -> Int] /\ g[0] = u.base /\ g[L] = Address(u, i)
      /\ \A k \in 1 .. L : g[k] = g[k - 1] + StepAt(u.dims[k], i[k])
    BY DEF SumsTo
<1>3. h \in [0 .. L -> Int] /\ h[0] = v.base /\ h[L] = Address(v, j)
      /\ \A k \in 1 .. L : h[k] = h[k - 1] + StepAt(v.dims[k], j[k])
    BY DEF SumsTo
<1> PICK T : T = {k \in Nat : k <= L => g[k] = h[0] + h[L] - h[L - k]}
    OBVIOUS
<1>4. 0 \in T
    <2>1. g[0] = h[0]
        BY <1>2, <1>3 DEF BackwardsTo
    <2>2. h[0] \in Int /\ h[L] \in Int /\ L - 0 = L
        BY ONLY <1>1, <1>3
    <2>3. g[0] = h[0] + h[L] - h[L - 0]
        BY ONLY <2>1, <2>2
    <2>4. QED
        BY ONLY <2>3, T = {k \in Nat : k <= L => g[k] = h[0] + h[L] - h[L - k]}
<1>5. ASSUME NEW k \in Nat, k \in T PROVE k + 1 \in T
    <2>1. SUFFICES ASSUME k + 1 <= L PROVE g[k + 1] = h[0] + h[L] - h[L - (k + 1)]
        BY ONLY <2>1, T = {m \in Nat : m <= L => g[m] = h[0] + h[L] - h[L - m]}, k \in Nat
    <2>2. g[k] = h[0] + h[L] - h[L - k]
        BY ONLY <1>1, <1>5, <2>1, T = {m \in Nat : m <= L => g[m] = h[0] + h[L] - h[L - m]}
    <2>3. k + 1 \in 1 .. L /\ L - k \in 1 .. L /\ (L - k) - 1 = L - (k + 1) /\ (k + 1) - 1 = k /\ L - (k + 1) + 1 = L - k
        BY ONLY <1>1, <2>1, k \in Nat
    <2>4. g[k + 1] = g[k] + StepAt(u.dims[k + 1], i[k + 1])
        BY ONLY <1>2, <2>3
    <2>5. h[L - k] = h[L - (k + 1)] + StepAt(v.dims[L - k], j[L - k])
        BY ONLY <1>3, <2>3
    <2>6. u.dims[k + 1] = v.dims[L - k] /\ i[k + 1] = j[L - k]
        BY ONLY BackwardsTo(u, v, i, j, L), <2>3 DEF BackwardsTo
    <2>7. g[k] \in Int /\ g[k + 1] \in Int /\ h[L - k] \in Int /\ h[L - (k + 1)] \in Int /\ h[0] \in Int /\ h[L] \in Int
        <3>1. k \in 0 .. L /\ k + 1 \in 0 .. L /\ L - k \in 0 .. L /\ L - (k + 1) \in 0 .. L /\ 0 \in 0 .. L /\ L \in 0 .. L
            BY ONLY <1>1, <2>1, k \in Nat
        <3>2. QED
            BY ONLY <1>2, <1>3, <3>1
    <2>8. StepAt(u.dims[k + 1], i[k + 1]) \in Int
        <3>1. u.dims[k + 1] \in Regular
            BY <1>1, <2>3, ViewParts
        <3>2. i[k + 1] \in Int
            BY <1>1, <2>3
        <3>3. QED
            BY ONLY <3>1, <3>2, StepInt
    <2>9. QED
        <3> PICK n \in Int : n = StepAt(u.dims[k + 1], i[k + 1])
            BY ONLY <2>8
        <3> PICK a \in Int, b \in Int, c \in Int, d \in Int :
                 a = h[0] /\ b = h[L] /\ c = h[L - k] /\ d = h[L - (k + 1)]
            BY ONLY <2>7
        <3>1. g[k] = a + b - c /\ g[k + 1] = g[k] + n /\ c = d + n
            BY ONLY <2>2, <2>4, <2>5, <2>6, n = StepAt(u.dims[k + 1], i[k + 1]),
                    a = h[0], b = h[L], c = h[L - k], d = h[L - (k + 1)]
        <3>2. g[k + 1] = a + b - d
            BY ONLY <3>1, a \in Int, b \in Int, c \in Int, d \in Int, n \in Int
        <3>3. QED
            BY ONLY <3>2, a = h[0], b = h[L], d = h[L - (k + 1)]
<1>6. L \in T
    <2>1. Nat \subseteq T
        BY ONLY <1>4, <1>5, Induct
    <2>2. QED
        BY ONLY <1>1, <2>1
<1>7. g[L] = h[L]
    <2>1. g[L] = h[0] + h[L] - h[L - L]
        BY ONLY <1>1, <1>6, T = {m \in Nat : m <= L => g[m] = h[0] + h[L] - h[L - m]}
    <2>2. L - L = 0 /\ h[0] \in Int /\ h[L] \in Int
        BY ONLY <1>1, <1>3
    <2>3. QED
        BY ONLY <2>1, <2>2
<1>8. QED
    BY ONLY <1>2, <1>3, <1>7

LEMMA BackwardsIndex ==
    ASSUME NEW u \in RegularViews, NEW v \in RegularViews, NEW i \in Seq(Int), NEW j \in Seq(Int), NEW L, BackwardsTo(u, v, i, j, L),
           IsIndex(i, u.dims)
    PROVE  IsIndex(j, v.dims)
<1>1. /\ L \in Nat /\ Len(u.dims) = L /\ Len(v.dims) = L /\ Len(i) = L /\ Len(j) = L
      /\ \A k \in 1 .. L : u.dims[k] = v.dims[L - k + 1] /\ i[k] = j[L - k + 1]
    BY DEF BackwardsTo
<1>2. \A k \in 1 .. L : InDimension(i[k], u.dims[k])
    BY ONLY <1>1, IsIndex(i, u.dims) DEF IsIndex
<1>3. ASSUME NEW k \in 1 .. L PROVE InDimension(j[k], v.dims[k])
    <2>1. L - k + 1 \in 1 .. L /\ L - (L - k + 1) + 1 = k
        BY ONLY <1>1, k \in 1 .. L
    <2> PICK m \in 1 .. L : m = L - k + 1 /\ L - m + 1 = k
        BY ONLY <2>1
    <2>2. InDimension(i[m], u.dims[m]) /\ u.dims[m] = v.dims[k] /\ i[m] = j[k]
        BY ONLY <1>1, <1>2, m \in 1 .. L, L - m + 1 = k
    <2>3. QED
        BY ONLY <2>2
<1>4. QED
    BY ONLY <1>1, <1>3, j \in Seq(Int) DEF IsIndex

--------------------------------------------------------------------------------
(* Elements of another size, and where they are.                              *)

\* The dimension x is d, counted in elements of another size.
ScaledTo(x, d, num, den) ==
    /\ x \in Regular /\ d \in Regular /\ num \in Int /\ den \in Int /\ num # 0 /\ den # 0
    /\ den * x.stride = num * d.stride /\ den * x.offset = num * d.offset /\ den * x.nelems = num * d.nelems

LEMMA ScaledDimension ==
    ASSUME NEW d \in Regular, NEW num \in Int, NEW den \in Int, num # 0, den # 0,
           IsScaled(d.stride, d.offset, d.nelems, num, den), NEW x,
           x = DimensionOf(Quotient(d.stride * num, den), Quotient(d.offset * num, den), Quotient(d.nelems * num, den))
    PROVE  ScaledTo(x, d, num, den)
<1>1. x \in Regular
    BY ScaledRegular
<1> PICK s \in Int : s = d.stride
    BY RegularParts
<1> PICK o \in Int : o = d.offset
    BY RegularParts
<1> PICK n \in Int : n = d.nelems
    BY RegularParts
<1>2. IsScaled(s, o, n, num, den)
    OBVIOUS
<1> PICK ks \in Int : s * num = den * ks
    BY ONLY <1>2 DEF IsScaled
<1> PICK ko \in Int : o * num = den * ko
    BY ONLY <1>2 DEF IsScaled
<1> PICK kn \in Int : n * num = den * kn
    BY ONLY <1>2 DEF IsScaled
<1>3. /\ Quotient(s * num, den) = ks /\ Quotient(o * num, den) = ko /\ Quotient(n * num, den) = kn
    BY ONLY s * num = den * ks, o * num = den * ko, n * num = den * kn, s \in Int, o \in Int, n \in Int,
            num \in Int, den \in Int, den # 0, ks \in Int, ko \in Int, kn \in Int, ScaledExact
<1>4. x = DimensionOf(ks, ko, kn)
    BY ONLY <1>3, s = d.stride, o = d.offset, n = d.nelems,
            x = DimensionOf(Quotient(d.stride * num, den), Quotient(d.offset * num, den), Quotient(d.nelems * num, den))
<1>5. x.stride = ks /\ x.offset = ko /\ x.nelems = kn
    BY ONLY <1>4 DEF DimensionOf
<1>6. s * num = num * s /\ o * num = num * o /\ n * num = num * n
    BY ONLY s \in Int, o \in Int, n \in Int, num \in Int
<1>7. QED
    BY ONLY <1>1, <1>5, <1>6, s * num = den * ks, o * num = den * ko, n * num = den * kn, s = d.stride, o = d.offset,
            n = d.nelems, d \in Regular, num \in Int, den \in Int, num # 0, den # 0 DEF ScaledTo

LEMMA ScaledSame ==
    ASSUME NEW x, NEW d, NEW num, NEW den, ScaledTo(x, d, num, den)
    PROVE  /\ Extension(x) = Extension(d)
           /\ \A j \in Int : den * StepAt(x, j) = num * StepAt(d, j)
<1>1. /\ x \in Regular /\ d \in Regular /\ num \in Int /\ den \in Int /\ num # 0 /\ den # 0
      /\ den * x.stride = num * d.stride /\ den * x.offset = num * d.offset /\ den * x.nelems = num * d.nelems
    BY DEF ScaledTo
<1> PICK a \in Int, b \in Int : a = num /\ b = den
    BY <1>1
<1> PICK s \in Int, o \in Int, n \in Int : s = d.stride /\ o = d.offset /\ n = d.nelems
    BY <1>1, RegularParts
<1> PICK t \in Int, p \in Int, m \in Int : t = x.stride /\ p = x.offset /\ m = x.nelems
    BY <1>1, RegularParts
<1>2. b * t = a * s /\ b * p = a * o /\ b * m = a * n /\ a # 0 /\ b # 0
    BY ONLY <1>1, a = num, b = den, s = d.stride, o = d.offset, n = d.nelems, t = x.stride, p = x.offset, m = x.nelems
<1>3. ASSUME NEW j \in Int PROVE b * StepAt(x, j) = a * StepAt(d, j)
    <2>1. StepAt(x, j) = j * t - p /\ StepAt(d, j) = j * s - o
        BY ONLY t = x.stride, p = x.offset, s = d.stride, o = d.offset DEF StepAt
    <2>2. b * (j * t - p) = j * (b * t) - b * p
        BY ONLY b \in Int, j \in Int, t \in Int, p \in Int
    <2>3. a * (j * s - o) = j * (a * s) - a * o
        BY ONLY a \in Int, j \in Int, s \in Int, o \in Int
    <2>4. QED
        BY ONLY <1>2, <2>1, <2>2, <2>3
<1>4. CASE n = 0
    <2>1. m = 0
        BY ONLY <1>2, <1>4, a \in Int, b \in Int, m \in Int
    <2>2. Extension(d) = <<0, 0>> /\ Extension(x) = <<0, 0>>
        BY ONLY <1>4, <2>1, n = d.nelems, m = x.nelems, EmptyDimension
    <2>3. QED
        BY ONLY <1>3, <2>2, a = num, b = den
<1>5. CASE n # 0
    <2>1. d.nelems # 0
        BY ONLY <1>5, n = d.nelems
    <2> PICK s1, f1, n1 : Spanned(d, s1, f1, n1)
        BY ONLY <1>1, <2>1, DimensionCases
    <2>2. /\ s1 = s /\ f1 \in Int /\ n1 \in Nat /\ s # 0 /\ n1 # 0 /\ o = s * f1 /\ n = s * n1
          /\ Extension(d) = <<f1, f1 + n1>>
        BY ONLY Spanned(d, s1, f1, n1), s = d.stride, o = d.offset, n = d.nelems DEF Spanned
    <2> PICK f \in Int, k \in Nat : f = f1 /\ k = n1
        BY ONLY <2>2
    <2>3. t # 0
        BY ONLY <1>2, <2>2, a \in Int, b \in Int, s \in Int, t \in Int
    <2>4. p = t * f
        <3>1. b * p = b * (t * f)
            <4>1. a * o = (a * s) * f
                BY ONLY <2>2, f = f1, a \in Int, s \in Int, f \in Int
            <4>2. (b * t) * f = b * (t * f)
                BY ONLY b \in Int, t \in Int, f \in Int
            <4>3. QED
                BY ONLY <1>2, <4>1, <4>2
        <3> PICK z \in Int : z = t * f
            OBVIOUS
        <3>2. QED
            BY ONLY <1>2, <3>1, z = t * f, z \in Int, p \in Int, b \in Int, Cancel
    <2>5. m = t * k
        <3>1. b * m = b * (t * k)
            <4>1. a * n = (a * s) * k
                BY ONLY <2>2, k = n1, a \in Int, s \in Int, k \in Nat
            <4>2. (b * t) * k = b * (t * k)
                BY ONLY b \in Int, t \in Int, k \in Nat
            <4>3. QED
                BY ONLY <1>2, <4>1, <4>2
        <3> PICK z \in Int : z = t * k
            OBVIOUS
        <3>2. QED
            BY ONLY <1>2, <3>1, z = t * k, z \in Int, m \in Int, b \in Int, Cancel
    <2>6. Spanned(x, t, f, k)
        BY ONLY <2>2, <2>3, <2>4, <2>5, k = n1, t \in Int, f \in Int, k \in Nat, t = x.stride, p = x.offset, m = x.nelems,
                MadeSpanned
    <2>7. Extension(x) = <<f, f + k>>
        BY ONLY <2>6 DEF Spanned
    <2>8. QED
        BY ONLY <1>3, <2>2, <2>7, f = f1, k = n1, a = num, b = den
<1>6. QED
    BY ONLY <1>4, <1>5

\* The layout ds is that of v, counted in elements of another size.
ScaledLayout(ds, v, num, den) ==
    /\ ds \in Seq(Regular) /\ ds # <<>> /\ Len(ds) = Len(v.dims)
    /\ \A k \in 1 .. Len(v.dims) : ScaledTo(ds[k], v.dims[k], num, den)

LEMMA LayoutScaled ==
    ASSUME NEW v \in RegularViews, NEW num \in Int, NEW den \in Int, num # 0, den # 0,
           \A k \in 1 .. Len(v.dims) : IsScaled(v.dims[k].stride, v.dims[k].offset, v.dims[k].nelems, num, den)
    PROVE  ScaledLayout(ScaleLayout(v.dims, num, den), v, num, den)
<1> PICK L \in Nat : L = Len(v.dims) /\ L >= 1
    BY ViewParts
<1>1. DOMAIN v.dims = 1 .. L /\ \A k \in 1 .. L : v.dims[k] \in Regular
    BY ViewParts
<1> PICK e : e = ScaleLayout(v.dims, num, den)
    OBVIOUS
<1>2. e \in Seq(Regular) /\ e # <<>>
    BY ScaledView
<1>3. \A k \in 1 .. L : e[k] = DimensionOf(Quotient(v.dims[k].stride * num, den), Quotient(v.dims[k].offset * num, den),
                                           Quotient(v.dims[k].nelems * num, den))
    BY ONLY <1>1, e = ScaleLayout(v.dims, num, den) DEF ScaleLayout
<1>4. Len(e) = L
    <2>1. DOMAIN e = 1 .. L
        BY ONLY <1>1, e = ScaleLayout(v.dims, num, den) DEF ScaleLayout
    <2>2. QED
        BY ONLY <1>2, <2>1, L \in Nat
<1>5. ASSUME NEW k \in 1 .. L PROVE ScaledTo(e[k], v.dims[k], num, den)
    <2> PICK d \in Regular : d = v.dims[k]
        BY <1>1
    <2> PICK x : x = e[k]
        OBVIOUS
    <2>1. x = DimensionOf(Quotient(d.stride * num, den), Quotient(d.offset * num, den), Quotient(d.nelems * num, den))
        BY ONLY <1>3, k \in 1 .. L, x = e[k], d = v.dims[k]
    <2>2. IsScaled(d.stride, d.offset, d.nelems, num, den)
        BY ONLY \A z \in 1 .. Len(v.dims) : IsScaled(v.dims[z].stride, v.dims[z].offset, v.dims[z].nelems, num, den),
                k \in 1 .. L, L = Len(v.dims), d = v.dims[k]
    <2>3. ScaledTo(x, d, num, den)
        BY ONLY <2>1, <2>2, d \in Regular, num \in Int, den \in Int, num # 0, den # 0, ScaledDimension
    <2>4. QED
        BY ONLY <2>3, x = e[k], d = v.dims[k]
<1>6. QED
    BY ONLY <1>2, <1>4, <1>5, L = Len(v.dims), e = ScaleLayout(v.dims, num, den) DEF ScaledLayout

LEMMA ScaledAddress ==
    ASSUME NEW v \in RegularViews, NEW ds, NEW num, NEW den, ScaledLayout(ds, v, num, den), NEW i \in Seq(Int), Len(i) = Len(v.dims)
    PROVE  den * Address(View(ds, 0), i) = num * (Address(v, i) - v.base)
<1> PICK L \in Nat : L = Len(v.dims) /\ L >= 1
    BY ViewParts
<1>1. ds \in Seq(Regular) /\ ds # <<>> /\ Len(ds) = L /\ \A k \in 1 .. L : ScaledTo(ds[k], v.dims[k], num, den)
    BY DEF ScaledLayout
<1> PICK u \in RegularViews : u = View(ds, 0) /\ u.dims = ds /\ u.base = 0
    BY ONLY <1>1, 0 \in Int, MadeView
<1>2. ScaledTo(ds[1], v.dims[1], num, den)
    BY ONLY <1>1, L \in Nat, L >= 1
<1> PICK a \in Int, b \in Int : a = num /\ b = den
    BY ONLY <1>2 DEF ScaledTo
<1> PICK g : SumsTo(g, u, i, L)
    BY <1>1, AddressSums
<1> PICK h : SumsTo(h, v, i, L)
    BY AddressSums
<1>3. g \in [0 .. L -> Int] /\ g[0] = 0 /\ g[L] = Address(u, i) /\ \A k \in 1 .. L : g[k] = g[k - 1] + StepAt(ds[k], i[k])
    BY ONLY SumsTo(g, u, i, L), u.dims = ds, u.base = 0 DEF SumsTo
<1>4. h \in [0 .. L -> Int] /\ h[0] = v.base /\ h[L] = Address(v, i)
      /\ \A k \in 1 .. L : h[k] = h[k - 1] + StepAt(v.dims[k], i[k])
    BY ONLY SumsTo(h, v, i, L) DEF SumsTo
<1>5. \A k \in 1 .. L : /\ b * StepAt(ds[k], i[k]) = a * StepAt(v.dims[k], i[k])
                        /\ StepAt(ds[k], i[k]) \in Int /\ StepAt(v.dims[k], i[k]) \in Int
    <2> TAKE k \in 1 .. L
    <2>1. ScaledTo(ds[k], v.dims[k], num, den)
        BY ONLY <1>1, k \in 1 .. L
    <2>2. i[k] \in Int
        BY ONLY i \in Seq(Int), Len(i) = Len(v.dims), L = Len(v.dims), k \in 1 .. L
    <2>3. ds[k] \in Regular /\ v.dims[k] \in Regular
        BY ONLY <2>1 DEF ScaledTo
    <2>4. den * StepAt(ds[k], i[k]) = num * StepAt(v.dims[k], i[k])
        BY ONLY <2>1, <2>2, ScaledSame
    <2>5. StepAt(ds[k], i[k]) \in Int /\ StepAt(v.dims[k], i[k]) \in Int
        BY ONLY <2>2, <2>3, StepInt
    <2>6. QED
        BY ONLY <2>4, <2>5, a = num, b = den
<1> PICK c \in Int : c = v.base
    BY ViewParts
<1> PICK T : T = {k \in Nat : k <= L => b * g[k] = a * (h[k] - c)}
    OBVIOUS
<1>6. 0 \in T
    <2>1. b * g[0] = a * (h[0] - c)
        BY ONLY <1>3, <1>4, c = v.base, a \in Int, b \in Int, c \in Int
    <2>2. QED
        BY ONLY <2>1, T = {k \in Nat : k <= L => b * g[k] = a * (h[k] - c)}
<1>7. ASSUME NEW k \in Nat, k \in T PROVE k + 1 \in T
    <2>1. SUFFICES ASSUME k + 1 <= L PROVE b * g[k + 1] = a * (h[k + 1] - c)
        BY ONLY <2>1, T = {m \in Nat : m <= L => b * g[m] = a * (h[m] - c)}, k \in Nat
    <2>2. b * g[k] = a * (h[k] - c)
        BY ONLY <1>7, <2>1, L \in Nat, T = {m \in Nat : m <= L => b * g[m] = a * (h[m] - c)}
    <2>3. k + 1 \in 1 .. L /\ (k + 1) - 1 = k /\ k \in 0 .. L /\ k + 1 \in 0 .. L
        BY ONLY <2>1, L \in Nat, k \in Nat
    <2> PICK x, y : x = StepAt(ds[k + 1], i[k + 1]) /\ y = StepAt(v.dims[k + 1], i[k + 1])
        OBVIOUS
    <2>4. x \in Int /\ y \in Int /\ b * x = a * y
        BY ONLY <1>5, <2>3, x = StepAt(ds[k + 1], i[k + 1]), y = StepAt(v.dims[k + 1], i[k + 1])
    <2>5. g[k + 1] = g[k] + x /\ h[k + 1] = h[k] + y
        BY ONLY <1>3, <1>4, <2>3, x = StepAt(ds[k + 1], i[k + 1]), y = StepAt(v.dims[k + 1], i[k + 1])
    <2> PICK p \in Int, q \in Int : p = g[k] /\ q = h[k]
        BY ONLY <1>3, <1>4, <2>3
    <2>6. b * (p + x) = b * p + b * x
        BY ONLY <2>4, p \in Int, b \in Int
    <2>7. a * ((q + y) - c) = a * (q - c) + a * y
        BY ONLY <2>4, q \in Int, a \in Int, c \in Int
    <2>8. QED
        BY ONLY <2>2, <2>4, <2>5, <2>6, <2>7, p = g[k], q = h[k]
<1>8. L \in T
    <2>1. Nat \subseteq T
        BY ONLY <1>6, <1>7, Induct
    <2>2. QED
        BY ONLY <2>1, L \in Nat
<1>9. b * g[L] = a * (h[L] - c)
    BY ONLY <1>8, L \in Nat, T = {k \in Nat : k <= L => b * g[k] = a * (h[k] - c)}
<1>10. QED
    BY ONLY <1>3, <1>4, <1>9, a = num, b = den, c = v.base, u = View(ds, 0)

LEMMA ScaledExtensions ==
    ASSUME NEW v \in RegularViews, NEW ds, NEW num, NEW den, ScaledLayout(ds, v, num, den)
    PROVE  Extensions(ds) = Extensions(v.dims)
<1>1. ds \in Seq(Regular) /\ v.dims \in Seq(Regular) /\ Len(ds) = Len(v.dims)
    BY ViewParts DEF ScaledLayout
<1>2. \A k \in 1 .. Len(v.dims) : Extension(ds[k]) = Extension(v.dims[k])
    BY ScaledSame DEF ScaledLayout
<1>3. DOMAIN ds = DOMAIN v.dims /\ DOMAIN ds = 1 .. Len(v.dims)
    BY ONLY <1>1
<1>4. QED
    BY ONLY <1>2, <1>3 DEF Extensions

LEMMA AddressInt ==
    ASSUME NEW v \in RegularViews, NEW i \in Seq(Int), Len(i) = Len(v.dims)
    PROVE  Address(v, i) \in Int
<1> PICK L \in Nat : L = Len(v.dims)
    BY ViewParts
<1> PICK h : SumsTo(h, v, i, L)
    BY AddressSums
<1>1. h \in [0 .. L -> Int] /\ h[L] = Address(v, i) /\ L \in 0 .. L
    BY DEF SumsTo
<1>2. QED
    BY ONLY <1>1

\* Where the elements are counted from.
LEMMA AddressFrom ==
    ASSUME NEW ds \in Seq(Regular), ds # <<>>, NEW b \in Int, NEW i \in Seq(Int), Len(i) = Len(ds)
    PROVE  Address(View(ds, b), i) = b + Address(View(ds, 0), i)
<1> PICK L \in Nat : L = Len(ds)
    OBVIOUS
<1> PICK u \in RegularViews : u = View(ds, b)
    BY MadeView
<1> PICK v \in RegularViews : v = View(ds, 0)
    BY MadeView
<1>1. u.dims = ds /\ u.base = b /\ v.dims = ds /\ v.base = 0
    BY ONLY u = View(ds, b), v = View(ds, 0) DEF View
<1> PICK g : SumsTo(g, u, i, L)
    BY <1>1, AddressSums
<1> PICK h : SumsTo(h, v, i, L)
    BY <1>1, AddressSums
<1>2. g \in [0 .. L -> Int] /\ g[0] = b /\ g[L] = Address(u, i) /\ \A k \in 1 .. L : g[k] = g[k - 1] + StepAt(ds[k], i[k])
    BY ONLY SumsTo(g, u, i, L), <1>1 DEF SumsTo
<1>3. h \in [0 .. L -> Int] /\ h[0] = 0 /\ h[L] = Address(v, i) /\ \A k \in 1 .. L : h[k] = h[k - 1] + StepAt(ds[k], i[k])
    BY ONLY SumsTo(h, v, i, L), <1>1 DEF SumsTo
<1> PICK T : T = {k \in Nat : k <= L => g[k] = b + h[k]}
    OBVIOUS
<1>4. 0 \in T
    <2>1. g[0] = b + h[0]
        BY ONLY <1>2, <1>3, b \in Int
    <2>2. QED
        BY ONLY <2>1, T = {k \in Nat : k <= L => g[k] = b + h[k]}
<1>5. ASSUME NEW k \in Nat, k \in T PROVE k + 1 \in T
    <2>1. SUFFICES ASSUME k + 1 <= L PROVE g[k + 1] = b + h[k + 1]
        BY ONLY <2>1, k \in Nat, T = {m \in Nat : m <= L => g[m] = b + h[m]}
    <2>2. g[k] = b + h[k]
        BY ONLY <1>5, <2>1, L \in Nat, T = {m \in Nat : m <= L => g[m] = b + h[m]}
    <2>3. k + 1 \in 1 .. L /\ (k + 1) - 1 = k /\ k \in 0 .. L
        BY ONLY <2>1, k \in Nat, L \in Nat
    <2> PICK t \in Int : t = StepAt(ds[k + 1], i[k + 1])
        <3>1. ds[k + 1] \in Regular /\ i[k + 1] \in Int
            BY <2>3
        <3>2. QED
            BY <3>1, StepInt
    <2>4. g[k + 1] = g[k] + t /\ h[k + 1] = h[k] + t
        BY ONLY <1>2, <1>3, <2>3, t = StepAt(ds[k + 1], i[k + 1])
    <2>5. h[k] \in Int
        BY ONLY <1>3, <2>3
    <2>6. QED
        BY ONLY <2>2, <2>4, <2>5, b \in Int, t \in Int
<1>6. L \in T
    BY ONLY <1>4, <1>5, L \in Nat, Induct
<1>7. QED
    BY ONLY <1>2, <1>3, <1>6, L \in Nat, u = View(ds, b), v = View(ds, 0), T = {k \in Nat : k <= L => g[k] = b + h[k]}

\* The dimension of the n parts of an element.
PartsDimension(n) == DimensionOf(1, 0, n)

LEMMA PartsAre ==
    ASSUME NEW n \in Nat
    PROVE  /\ PartsDimension(n) \in Regular /\ Extension(PartsDimension(n)) = <<0, n>>
           /\ PartsDimension(n).stride = 1 /\ PartsDimension(n).offset = 0
<1> PICK d : d = PartsDimension(n)
    OBVIOUS
<1>1. d.stride = 1 /\ d.offset = 0 /\ d.nelems = n
    BY ONLY d = PartsDimension(n) DEF PartsDimension, DimensionOf
<1>2. d \in Regular
    <2>1. n = 1 * n /\ 1 \in Int
        OBVIOUS
    <2>2. DimensionOf(1, 0, n) \in Regular
        BY ONLY <2>1, n \in Nat, ZeroOffset
    <2>3. QED
        BY ONLY <2>2, d = PartsDimension(n) DEF PartsDimension
<1>3. Extension(d) = <<0, n>>
    <2>1. CASE n = 0
        BY <1>1, <2>1, EmptyDimension
    <2>2. CASE n # 0
        <3>1. d.offset = 1 * 0 /\ d.nelems = 1 * n /\ 1 \in Int /\ 0 \in Int /\ 1 # 0
            BY <1>1
        <3>2. Spanned(d, 1, 0, n)
            BY ONLY <1>1, <2>2, <3>1, n \in Nat, MadeSpanned
        <3>3. Extension(d) = <<0, 0 + n>>
            BY ONLY <3>2 DEF Spanned
        <3>4. QED
            BY ONLY <3>3, n \in Nat
    <2>3. QED
        BY <2>1, <2>2
<1>4. QED
    BY ONLY <1>1, <1>2, <1>3, d = PartsDimension(n)

\* In the view u, each element of a view with these dimensions has n parts,
\* along a last dimension.
WithParts(u, ds, n) ==
    /\ u \in RegularViews /\ Len(u.dims) = Len(ds) + 1
    /\ Extensions(u.dims) = Append(Extensions(ds), <<0, n>>)
    /\ \A i : IsIndex(i, u.dims) =>
           /\ i \in Seq(Int) /\ Len(i) = Len(ds) + 1 /\ i[Len(i)] \in Int
           /\ IsIndex(SubSeq(i, 1, Len(i) - 1), ds)
           /\ Address(u, i) = Address(View(ds, 0), SubSeq(i, 1, Len(i) - 1)) + i[Len(i)]

--------------------------------------------------------------------------------
(* Arrays.                                                                    *)

\* The dimensions of an array.
ArrayDimension(d, xs, k) ==
    /\ d \in Regular
    /\ Inner(xs, k - 1) = 0 => Extension(d) = <<0, 0>>
    /\ Inner(xs, k - 1) # 0 => /\ Extension(d) = xs[k]
                               /\ d.stride = Inner(xs, k) /\ d.offset = xs[k][1] * Inner(xs, k)

LEMMA ArrayDimensions ==
    ASSUME NEW N \in Nat, NEW xs, HasLengths(xs, N)
    PROVE  /\ DOMAIN LayoutOf(xs) = 1 .. N
           /\ \A k \in 1 .. N : ArrayDimension(LayoutOf(xs)[k], xs, k)
<1>1. xs \in Seq(Int \X Int) /\ Len(xs) = N /\ \A k \in 1 .. N : Length(xs[k]) \in Nat
    BY DEF HasLengths
<1>2. DOMAIN xs = 1 .. N /\ \A k \in 1 .. N : xs[k] \in Int \X Int
    BY ONLY <1>1
<1>3. /\ \A k \in 0 .. N : Inner(xs, k) \in Nat
      /\ \A k \in 1 .. N : Inner(xs, k - 1) = Length(xs[k]) * Inner(xs, k)
    BY InnerSteps
<1> DEFINE Pace(k) == IF Inner(xs, k) # 0 THEN Inner(xs, k) ELSE 1
           Made(k) == DimensionOf(Pace(k), xs[k][1] * Pace(k), Length(xs[k]) * Inner(xs, k))
<1> PICK e : e = LayoutOf(xs)
    OBVIOUS
<1>4. e = [k \in 1 .. N |-> Made(k)]
    BY ONLY <1>2, e = LayoutOf(xs) DEF LayoutOf, Inner
<1>5. ASSUME NEW k \in 1 .. N PROVE ArrayDimension(Made(k), xs, k)
    <2> PICK b \in Nat : b = Inner(xs, k)
        BY <1>3
    <2> PICK s \in Int : s = IF b # 0 THEN b ELSE 1
        OBVIOUS
    <2> PICK f \in Int, l \in Int : xs[k] = <<f, l>>
        BY ONLY <1>2, k \in 1 .. N, SMTT(30)
    <2> PICK n \in Nat : n = Length(xs[k])
        BY <1>1
    <2>1. n = l - f /\ f = xs[k][1] /\ f + n = l
        BY ONLY xs[k] = <<f, l>>, n = Length(xs[k]), f \in Int, l \in Int DEF Length
    <2> PICK d : d = DimensionOf(s, f * s, n * b)
        OBVIOUS
    <2>2. f * s = s * f /\ f * s \in Int /\ n * b \in Int /\ s # 0
        BY ONLY f \in Int, s \in Int, n \in Nat, b \in Nat, s = IF b # 0 THEN b ELSE 1
    <2>3. n * b # 0 => n * b = s * n /\ s = b /\ n # 0
        BY ONLY s \in Int, n \in Nat, b \in Nat, s = IF b # 0 THEN b ELSE 1
    <2>4. IsRegular(s, f * s, n * b)
        BY ONLY <2>2, <2>3, s \in Int, f \in Int, n \in Nat DEF IsRegular
    <2>5. d \in Regular
        BY ONLY <2>4, d = DimensionOf(s, f * s, n * b), MadeRegular
    <2>6. d.stride = s /\ d.offset = f * s /\ d.nelems = n * b
        BY ONLY d = DimensionOf(s, f * s, n * b) DEF DimensionOf
    <2>7. Inner(xs, k - 1) = n * b
        BY ONLY <1>3, n = Length(xs[k]), b = Inner(xs, k), k \in 1 .. N
    <2>8. ASSUME n * b = 0 PROVE Extension(d) = <<0, 0>>
        BY ONLY <2>6, <2>8, EmptyDimension
    <2>9. ASSUME n * b # 0 PROVE Extension(d) = xs[k] /\ d.stride = b /\ d.offset = f * b
        <3>1. d.offset = s * f /\ d.nelems = s * n /\ n # 0 /\ s = b
            BY ONLY <2>2, <2>3, <2>6, <2>9
        <3>2. Spanned(d, s, f, n)
            BY ONLY <2>2, <2>6, <3>1, s \in Int, f \in Int, n \in Nat, MadeSpanned
        <3>3. Extension(d) = <<f, f + n>>
            BY ONLY <3>2 DEF Spanned
        <3>4. QED
            BY ONLY <2>1, <2>6, <3>1, <3>3, xs[k] = <<f, l>>
    <2>10. d = Made(k)
        BY ONLY <2>1, d = DimensionOf(s, f * s, n * b), b = Inner(xs, k), s = IF b # 0 THEN b ELSE 1, n = Length(xs[k])
    <2>11. ArrayDimension(d, xs, k)
        BY ONLY <2>1, <2>5, <2>7, <2>8, <2>9, b = Inner(xs, k) DEF ArrayDimension
    <2>12. QED
        BY ONLY <2>10, <2>11
<1> HIDE DEF Made
<1>6. DOMAIN e = 1 .. N /\ \A k \in 1 .. N : e[k] = Made(k)
    BY ONLY <1>4
<1>7. QED
    BY ONLY <1>5, <1>6, e = LayoutOf(xs)

\* The elements of an array are next to each other, in canonical order.
LEMMA ArrayInOrder ==
    ASSUME NEW N \in Nat, NEW xs, HasLengths(xs, N), N >= 1, Inner(xs, 0) # 0, NEW v \in RegularViews, v = View(LayoutOf(xs), 0),
           NEW i, i \in Indices(xs)
    PROVE  Address(v, i) = Cardinality({j \in Indices(xs) : Before(j, i)})
<1> PICK zs, e : zs = Zeroed(xs) /\ e = Low(xs, i)
    OBVIOUS
<1>1. Boxed(zs, N) /\ \A k \in 0 .. N : Inner(zs, k) = Inner(xs, k)
    BY ZeroedInner
<1>2. Counted(e, i, xs, N)
    BY LowIs
<1>3. DOMAIN LayoutOf(xs) = 1 .. N /\ \A k \in 1 .. N : ArrayDimension(LayoutOf(xs)[k], xs, k)
    BY ArrayDimensions
<1>4. v.dims = LayoutOf(xs) /\ v.base = 0
    BY ONLY v = View(LayoutOf(xs), 0) DEF View
<1>5. Len(v.dims) = N
    <2>1. v.dims \in Seq(Regular)
        BY ViewParts
    <2>2. QED
        BY ONLY <1>3, <1>4, <2>1, N \in Nat
<1>6. /\ \A k \in 0 .. N : Inner(xs, k) \in Nat
      /\ \A k \in 1 .. N : Inner(xs, k - 1) = Length(xs[k]) * Inner(xs, k)
    BY InnerSteps
<1>7. \A k \in 1 .. N : Inner(xs, k - 1) # 0
    <2>1. \A k \in 1 .. N : Inner(xs, k - 1) = 0 <=> \E m \in k .. N : Length(xs[m]) = 0
        BY InnerZero
    <2>2. 1 \in 1 .. N /\ 1 - 1 = 0
        BY ONLY N >= 1, N \in Nat
    <2>3. ~ \E m \in 1 .. N : Length(xs[m]) = 0
        BY ONLY <2>1, <2>2, Inner(xs, 0) # 0
    <2>4. \A k \in 1 .. N : \A m \in k .. N : m \in 1 .. N
        BY ONLY N \in Nat
    <2>5. QED
        BY ONLY <2>1, <2>3, <2>4
<1>8. i \in Seq(Int) /\ Len(i) = N /\ \A k \in 1 .. N : e[k] \in Int /\ i[k] \in Int /\ xs[k][1] \in Int
      /\ i[k] = e[k] + xs[k][1]
    BY ONLY <1>2 DEF Counted
<1> PICK h : SumsTo(h, v, i, N)
    BY ONLY <1>5, <1>8, v \in RegularViews, N \in Nat, AddressSums
<1>9. h \in [0 .. N -> Int] /\ h[0] = 0 /\ h[N] = Address(v, i) /\ \A k \in 1 .. N : h[k] = h[k - 1] + StepAt(v.dims[k], i[k])
    BY ONLY SumsTo(h, v, i, N), <1>4 DEF SumsTo
<1>10. HasDigits(zs, e, N)
    <2>1. DOMAIN zs = 1 .. N /\ \A k \in 0 .. N : Inner(zs, k) \in Nat
        BY ONLY <1>1, N \in Nat, BoxSteps
    <2>2. \A k \in 1 .. N : k \in 0 .. N
        OBVIOUS
    <2>3. QED
        BY ONLY <1>8, <2>1, <2>2 DEF HasDigits
<1> PICK g : Counts_(g, zs, e, N)
    BY ONLY <1>10, N \in Nat, ToLinearSteps
<1>11. g \in [0 .. N -> Int] /\ g[0] = 0 /\ g[N] = ToLinear(zs, e) /\ \A k \in 1 .. N : g[k] = g[k - 1] + e[k] * Inner(zs, k)
    BY ONLY Counts_(g, zs, e, N) DEF Counts_
<1>12. ASSUME NEW k \in 1 .. N PROVE \E t \in Int : h[k] = h[k - 1] + t /\ g[k] = g[k - 1] + t
    <2>1. k \in 0 .. N
        OBVIOUS
    <2> PICK b \in Nat : b = Inner(xs, k)
        BY <1>6, <2>1
    <2> PICK f \in Int : f = xs[k][1]
        BY <1>8
    <2> PICK c \in Int : c = e[k]
        BY <1>8
    <2>2. i[k] = c + f
        BY ONLY <1>8, c = e[k], f = xs[k][1], k \in 1 .. N
    <2> PICK d : d = v.dims[k]
        OBVIOUS
    <2>3. d.stride = b /\ d.offset = f * b
        BY ONLY <1>3, <1>4, <1>7, d = v.dims[k], b = Inner(xs, k), f = xs[k][1], k \in 1 .. N DEF ArrayDimension
    <2>4. StepAt(d, i[k]) = (c + f) * b - f * b
        BY ONLY <2>2, <2>3 DEF StepAt
    <2>5. (c + f) * b - f * b = c * b /\ c * b \in Int
        BY ONLY c \in Int, f \in Int, b \in Nat
    <2>6. h[k] = h[k - 1] + c * b
        BY ONLY <1>9, <2>4, <2>5, d = v.dims[k], k \in 1 .. N
    <2>7. g[k] = g[k - 1] + c * b
        BY ONLY <1>1, <1>11, <2>1, c = e[k], b = Inner(xs, k), k \in 1 .. N
    <2>8. QED
        BY ONLY <2>5, <2>6, <2>7
<1>13. h[N] = g[N]
    BY ONLY <1>9, <1>11, <1>12, N \in Nat, SameSums
<1>14. QED
    BY ONLY <1>9, <1>11, <1>13, N \in Nat, HasLengths(xs, N), i \in Indices(xs), RankFromZero, zs = Zeroed(xs),
       e = Low(xs, i)

================================================================================
