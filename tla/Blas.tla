--------------------------------- MODULE Blas ----------------------------------
(******************************************************************************)
(* The BLAS adaptor (adaptors/blas), and potrf of the LAPACK adaptor. The     *)
(* libraries work on matrices that are stored by columns, told how to read    *)
(* each one by a letter 'N', 'T' or 'C' and a leading dimension; the views of *)
(* this library have a stride for each index and may be conjugated. Every     *)
(* function of the adaptors looks at the strides of its arguments, selects    *)
(* letters, leading dimensions and the order of the arguments, makes one call *)
(* or two, and refuses what it cannot express.                                *)
(*                                                                            *)
(* Numbers are symbolic.  An element is a cell of a buffer, conjugated or     *)
(* not; a product is a set of elements, a sum is a set of products.  What an  *)
(* operation is for is a set of such assignments, written by the indices of   *)
(* its views, and what the library does is another, written by addresses.     *)
(******************************************************************************)
EXTENDS Integers, Sequences, FiniteSets

CONSTANTS
    Requests,       \* what the program asks for, each with its views
    IntMax          \* the greatest number of the type INT of the library

VARIABLES
    request,        \* what is being done
    status,         \* "idle", "held", "running", "done", "refused", "rejected"
    todo,           \* the calls that are left
    written         \* what the calls have assigned

vars == <<request, status, todo, written>>

Least(S) == CHOOSE x \in S : \A y \in S : x <= y
Most(a, b) == IF a > b THEN a ELSE b
Upto(n) == 0 .. n - 1

--------------------------------------------------------------------------------
(* Views.  A matrix has n rows and m columns, its rows are s apart and its    *)
(* columns t; a vector has n elements, s apart.                               *)

Cell(v, k) == <<v.buf, v.base + k>>

\* involuter::operator*: the elements of a conjugated view are conjugated.
El(v, i, j)  == [cell |-> Cell(v, i * v.s + j * v.t), conj |-> v.conj]
El1(v, i)    == [cell |-> Cell(v, i * v.s), conj |-> v.conj]

conj(e) == [e EXCEPT !.conj = ~@]
conjAll(sum) == {{conj(e) : e \in p} : p \in sum}
conjScale(x) == CASE x = "a" -> "conj a" [] x = "conj a" -> "a" [] OTHER -> x

\* The manipulators T, J (and C of a vector) and H.
T(v) == [v EXCEPT !.s = v.t, !.t = v.s, !.n = v.m, !.m = v.n]
J(v) == [v EXCEPT !.conj = ~@]
H(v) == T(J(v))

--------------------------------------------------------------------------------
(* What the operations are for.                                               *)

\* The assignment of scale * sum + beta * (what was there) to an element.
\* involuted::operator=: it is the conjugate that is stored under a conjugation.
Assign(e, sum, scale, beta) ==
    IF e.conj THEN [cell |-> e.cell, sum |-> conjAll(sum), scale |-> conjScale(scale), beta |-> beta]
              ELSE [cell |-> e.cell, sum |-> sum, scale |-> scale, beta |-> beta]

Triangle(fill) == IF fill = "upper" THEN {p \in Nat \X Nat : p[1] <= p[2]}
                                    ELSE {p \in Nat \X Nat : p[1] >= p[2]}

\* The triangle of a that trsm reads, with ones on its diagonal or without.
Coefficient(r, i, l) ==
    CASE <<i, l>> \notin Triangle(r.fill) -> {}
      [] i = l /\ r.diag = "U"            -> {{}}
      [] OTHER                            -> {{El(r.a, i, l)}}

Times(ps, e) == {p \cup {e} : p \in ps}

\* potrf returns the part of the matrix that has been factored: all of it, or
\* what comes before the first leading minor that is not positive.
FactoredOrder(r) == IF r.info = 0 THEN r.a.n ELSE r.info - 1

Wanted(r) ==
    CASE r.op = "gemm" ->
           {Assign(El(r.c, i, j), {{El(r.a, i, l), El(r.b, l, j)} : l \in Upto(r.a.m)}, r.scale, r.beta) :
                i \in Upto(r.c.n), j \in Upto(r.c.m)}
      [] r.op = "gemv" ->
           {Assign(El1(r.y, i), {{El(r.a, i, l), El1(r.x, l)} : l \in Upto(r.a.m)}, r.scale, r.beta) :
                i \in Upto(r.y.n)}
      [] r.op \in {"herk", "syrk"} ->
           {Assign(El(r.c, p[1], p[2]),
                   {{El(r.a, p[1], l), IF r.op = "herk" THEN conj(El(r.a, p[2], l)) ELSE El(r.a, p[2], l)} :
                        l \in Upto(r.a.m)}, r.scale, r.beta) :
                p \in {q \in Upto(r.c.n) \X Upto(r.c.m) : r.fill = "both" \/ q \in Triangle(r.fill)}}
      [] r.op = "trsm" ->
           {Assign(El(r.b, i, j),
                   UNION {IF r.side = "left" THEN Times(Coefficient(r, i, l), El(r.b, l, j))
                                             ELSE Times(Coefficient(r, l, j), El(r.b, i, l)) :
                              l \in Upto(IF r.side = "left" THEN r.b.n ELSE r.b.m)}, r.scale, "0") :
                i \in Upto(r.b.n), j \in Upto(r.b.m)}
      [] r.op = "potrf" ->
           {Assign(El(r.a, p[1], p[2]),
                   {IF r.fill = "lower" THEN {El(r.a, p[1], l), conj(El(r.a, p[2], l))}
                                        ELSE {conj(El(r.a, l, p[1])), El(r.a, l, p[2])} :
                        l \in Upto(1 + Least({p[1], p[2]}))}, r.scale, r.beta) :
                p \in {q \in Upto(FactoredOrder(r)) \X Upto(FactoredOrder(r)) : q \in Triangle(r.fill)}}
      [] r.op = "dot" ->
           {Assign(El1(r.y, 0), {{El1(r.a, l), El1(r.x, l)} : l \in Upto(r.x.n)}, r.scale, r.beta)}
      [] r.op \in {"axpy", "copy"} ->
           {Assign(El1(r.y, i), {{El1(r.x, i)}}, r.scale, r.beta) : i \in Upto(r.y.n)}
      [] r.op = "swap" ->
           {Assign(El1(r.y, i), {{El1(r.x, i)}}, r.scale, r.beta) : i \in Upto(r.y.n)}
             \cup {Assign(El1(r.x, i), {{El1(r.y, i)}}, r.scale, r.beta) : i \in Upto(r.y.n)}
      [] r.op = "scal" ->
           {Assign(El1(r.x, i), {{El1(r.x, i)}}, r.scale, r.beta) : i \in Upto(r.x.n)}
      [] r.op \in {"nrm2", "asum", "iamax"} ->
           {Assign(El1(r.y, 0), {{El1(r.x, l)} : l \in Upto(r.x.n)}, r.scale, r.beta)}

--------------------------------------------------------------------------------
(* Calls.  An INT parameter that is given a larger number wraps around.       *)

Narrow(k) == ((k + IntMax + 1) % (2 * IntMax + 2)) - IntMax - 1

Base(v) == Cell(v, 0)

Gemm(r, ta, tb, m, n, k, a, lda, b, ldb, ldc) ==
    <<[fn |-> "gemm", ta |-> ta, tb |-> tb, m |-> Narrow(m), n |-> Narrow(n), k |-> Narrow(k),
       a |-> Base(a), lda |-> Narrow(lda), b |-> Base(b), ldb |-> Narrow(ldb), c |-> Base(r.c), ldc |-> Narrow(ldc),
       scale |-> r.scale, beta |-> r.beta]>>

Gemv(r, t, m, n, lda) ==
    <<[fn |-> "gemv", t |-> t, m |-> Narrow(m), n |-> Narrow(n), a |-> Base(r.a), lda |-> Narrow(lda),
       x |-> Base(r.x), incx |-> Narrow(r.x.s), y |-> Base(r.y), incy |-> Narrow(r.y.s),
       scale |-> r.scale, beta |-> r.beta]>>

\* herk and syrk deduce the type of their sizes.
RankK(r, uplo, t, k, lda, ldc) ==
    <<[fn |-> r.op, uplo |-> uplo, t |-> t, n |-> r.c.n, k |-> k, a |-> Base(r.a), lda |-> lda,
       c |-> Base(r.c), ldc |-> ldc, scale |-> r.scale, beta |-> r.beta]>>

Trsm(r, side, uplo, t, m, n, lda, ldb) ==
    <<[fn |-> "trsm", side |-> side, uplo |-> uplo, t |-> t, diag |-> r.diag, m |-> Narrow(m), n |-> Narrow(n),
       a |-> Base(r.a), lda |-> Narrow(lda), b |-> Base(r.b), ldb |-> Narrow(ldb),
       scale |-> IF r.b.conj THEN conjScale(r.scale) ELSE r.scale]>>

Level1(r, n) ==
    <<[fn |-> r.op, n |-> Narrow(n), x |-> Base(r.x), incx |-> Narrow(r.x.s), y |-> Base(r.y), incy |-> Narrow(r.y.s),
       scale |-> r.scale, beta |-> r.beta]>>

Refused == <<[fn |-> "refused"]>>

--------------------------------------------------------------------------------
(* The selections.  A matrix is read by rows ("R") if its columns are 1       *)
(* apart, and by columns ("C") if its rows are; when both are 1 the code      *)
(* decides by the order of its tests.                                         *)

Reads(v, way) == IF way = "R" THEN v.t = 1 ELSE v.s = 1

Fits(views, ways) == \A k \in DOMAIN views : Reads(views[k], ways[k])

FirstFit(views, order) ==
    IF \E k \in DOMAIN order : Fits(views, order[k])
    THEN order[Least({k \in DOMAIN order : Fits(views, order[k])})]
    ELSE <<"none">>

RRR == <<"R", "R", "R">>   RRC == <<"R", "R", "C">>   CRR == <<"C", "R", "R">>   CRC == <<"C", "R", "C">>
RCC == <<"R", "C", "C">>   RCR == <<"R", "C", "R">>   CCC == <<"C", "C", "C">>   CCR == <<"C", "C", "R">>

\* gemm_n of matrices none of which is conjugated.
gemm_n(r) ==
    LET a == r.a  b == r.b  c == r.c
        ways == FirstFit(<<a, b, c>>, <<RRR, RRC, CRR, CRC, RCC, RCR, CCC, CCR>>)
        one == a.n = 1
        Or(x, y) == IF one THEN x ELSE y
    IN  CASE ways = RRR -> Gemm(r, "N", "N", b.m, a.n, a.m, b, IF one /\ b.m = 1 THEN b.m ELSE b.s, a, Or(a.m, a.s), Or(c.m, c.s))
          [] ways = RRC -> Gemm(r, "T", "T", a.n, b.m, a.m, a, a.s, b, Or(b.m, b.s), Or(a.m, c.t))
          [] ways = CRR -> Gemm(r, "N", "T", c.m, a.n, a.m, b, b.s, a, a.t, Or(a.n, c.s))
          [] ways = CRC -> Gemm(r, "N", "T", a.n, b.m, a.m, a, a.t, b, Or(a.m, b.s), Or(b.m, c.t))
          [] ways = RCC -> Gemm(r, "N", IF b.m = 1 /\ (one \/ a.m = 1) THEN "N" ELSE "T", c.m, a.n, a.m,
                                b, IF one /\ b.m = 1 THEN b.m ELSE b.t, a, Or(a.m, a.s), c.t)
          [] ways = RCR -> Gemm(r, "T", "N", Or(a.n, c.m), Or(c.m, a.n), a.m, b, b.t, a, Or(a.m, a.s), c.s)
          [] ways = CCC -> Gemm(r, "N", "N", a.n, b.m, a.m, a, a.t, b, b.t, IF b.m = 1 THEN a.n ELSE c.t)
          [] ways = CCR -> Gemm(r, "T", "T", b.m, a.n, a.m, b, b.t, a, a.t, c.s)
          [] OTHER -> Refused

\* gemm_n with the second matrix conjugated, with the first, and with both.
gemm_n_b(r) ==
    LET a == r.a  b == r.b  c == r.c
        ways == FirstFit(<<a, b, c>>, <<RRR, RCR, RCC, CCC, CCR>>)
        G(ta, tb, m, n, lda, ldc) == Gemm(r, ta, tb, m, n, a.m, b, b.t, a, lda, ldc)
    IN  CASE ways = RRR -> G("C", "N", c.m, a.n, a.m, c.s)
          [] ways = RCR -> IF a.n = 1 THEN G("C", "N", a.n, c.m, a.m, c.s) ELSE G("C", "N", c.m, a.n, a.s, c.s)
          [] ways = RCC -> G("C", "N", c.m, a.n, a.s, c.t)
          [] ways = CCC -> G("C", "T", c.m, a.n, a.t, c.t)
          [] ways = CCR -> G("C", "T", a.n, c.m, a.t, c.s)
          [] OTHER -> Refused

gemm_n_a(r) ==
    LET a == r.a  b == r.b  c == r.c
    IN  IF Fits(<<a, b, c>>, CRR)
        THEN Gemm(r, "N", "C", c.m, a.n, a.m, b, b.s, a, a.t, IF a.n = 1 THEN a.m ELSE c.s)
        ELSE Refused

gemm_n_ab(r) ==
    LET a == r.a  b == r.b  c == r.c
    IN  IF Fits(<<a, b, c>>, CCR) THEN Gemm(r, "C", "C", a.n, c.m, a.m, b, b.t, a, a.t, c.s) ELSE Refused

\* Assertions of every overload, and the one that is chosen.

UnitStride(v) == v.s = 1 \/ v.t = 1

gemm_of(r) ==
    CASE r.b.m # r.c.m \/ ~UnitStride(r.a) \/ ~UnitStride(r.b) \/ ~UnitStride(r.c) -> Refused
      [] r.a.n = 0 -> <<>>
      [] OTHER -> CASE ~r.a.conj /\ ~r.b.conj -> gemm_n(r)
                    [] ~r.a.conj /\ r.b.conj  -> gemm_n_b(r)
                    [] r.a.conj /\ ~r.b.conj  -> gemm_n_a(r)
                    [] OTHER                  -> gemm_n_ab(r)

\* gemm: a conjugated result is computed as the conjugate of the conjugates.
gemm(r) ==
    CASE r.a.n # r.c.n \/ (r.a.n # 0 /\ r.a.m # 0 /\ r.a.m # r.b.n) -> Refused
      [] r.c.conj -> gemm_of([r EXCEPT !.a = J(@), !.b = J(@), !.c = J(@), !.scale = conjScale(@)])
      [] OTHER -> gemm_of(r)

gemv(r) ==
    LET a == r.a IN
    CASE a.n # r.y.n \/ a.m # r.x.n \/ ~UnitStride(a) \/ Base(r.x) = Base(r.y) \/ r.y.s = 0 -> Refused
      [] a.conj /\ a.t = 1  -> Gemv(r, "C", a.m, a.n, a.s)
      [] a.conj              -> Refused
      [] a.s = 1             -> Gemv(r, "N", a.n, a.m, a.t)
      [] OTHER               -> Gemv(r, "T", a.m, a.n, a.s)

--------------------------------------------------------------------------------
(* Triangles.  The library's name of the triangle of a matrix by columns is   *)
(* the other one of the same matrix by rows, and the enumerators have the     *)
(* names of the latter: lower is 'U' and upper is 'L'.                        *)

\* Mutant: the triangle of the transpose is taken for that of the matrix.
flip_Forgotten(fill) == fill

flip(fill) == IF fill = "upper" THEN "lower" ELSE "upper"
char(fill) == IF fill = "upper" THEN "L" ELSE "U"

\* herk of complex matrices, one triangle.
herk(r) ==
    LET a == r.a  c == r.c
        Call(fill, t, lda, ldc) == RankK(r, char(fill), t, a.m, lda, ldc)
    IN  CASE a.conj /\ a.s = 1 /\ (c.s # 1 \/ a.n = 1) -> Call(r.fill, "N", a.t, c.s)
          [] a.conj /\ a.s # 1 /\ c.s = 1 -> Call(flip(r.fill), "C", a.s, c.t)
          [] a.s # 1 /\ c.s # 1 -> Call(r.fill, "C", a.s, c.s)
          [] ~a.conj /\ a.s # 1 /\ c.s = 1 /\ a.n = 1 -> Call(r.fill, "N", a.t, c.t)
          [] ~a.conj /\ a.s = 1 /\ c.s = 1 -> Call(flip(r.fill), "N", a.t, c.t)
          [] OTHER -> Refused

\* syrk, which is also herk of real matrices.
syrk(r) ==
    LET a == r.a  c == r.c IN
    CASE a.s = 1 /\ c.s = 1 -> RankK(r, char(flip(r.fill)), "N", a.n, a.t, c.m)
      [] a.s = 1 /\ c.s # 1 -> RankK(r, char(r.fill), "N", a.m, a.t, c.s)
      [] a.s # 1 /\ c.s = 1 -> RankK(r, char(flip(r.fill)), "T", a.m, a.s, c.t)
      [] OTHER              -> RankK(r, char(r.fill), "T", a.m, a.s, c.s)

\* The fallbacks: no elements, a conjugated result, both triangles.
rankK(r) ==
    LET one(q) == CASE q.op = "syrk" -> syrk(q)
                    [] q.c.conj -> herk([q EXCEPT !.fill = flip(@), !.c = H(@)])
                    [] OTHER -> herk(q)
    IN  CASE r.c.n # r.c.m \/ (r.op = "herk" /\ r.a.n # r.c.n) -> Refused
          [] r.op = "herk" /\ r.c.n = 0 -> <<>>
          [] r.fill = "both" -> one([r EXCEPT !.fill = "upper"]) \o one([r EXCEPT !.fill = "lower"])
          [] OTHER -> one(r)

swap(side) == IF side = "left" THEN "R" ELSE "L"
same(side) == IF side = "left" THEN "L" ELSE "R"

\* Two conjugated views do not compile.
trsm(r) ==
    LET a == r.a  b == r.b
        ByColumns(fill, t, lda) == Trsm(r, same(r.side), char(fill), t, b.n, b.m, lda, b.t)
        ByRows(fill, t, lda) == Trsm(r, swap(r.side), char(fill), t, b.m, b.n, lda, b.s)
        transpose == IF a.conj # b.conj THEN "C" ELSE "T"
    IN  CASE ~UnitStride(a) \/ ~UnitStride(b) \/ (a.conj /\ b.conj) -> Refused
          [] (r.side = "left" /\ a.m < b.n) \/ (r.side = "right" /\ a.n < b.m) -> Refused
          [] b.n = 0 -> <<>>
          [] ~a.conj /\ ~b.conj /\ a.s = 1 /\ b.s = 1 -> ByColumns(flip(r.fill), "N", a.t)
          [] ~a.conj /\ ~b.conj /\ a.t = 1 /\ b.t = 1 -> ByRows(r.fill, "N", a.s)
          [] ~b.conj /\ a.s = 1 /\ b.t = 1 -> ByRows(flip(r.fill), transpose, a.t)
          [] a.t = 1 /\ b.s = 1 -> ByColumns(r.fill, transpose, a.s)
          [] OTHER -> Refused

\* potrf of the LAPACK adaptor, on rows whose elements adjoin; those of the
\* transpose if the columns adjoin.  Its lower and upper are 'U' and 'L' too.
potrf_rows(r, a, fill) ==
    IF a.t # 1 THEN Refused
    ELSE <<[fn |-> "potrf", uplo |-> char(fill), n |-> Narrow(a.n), a |-> Base(a), lda |-> Narrow(a.s),
            info |-> r.info, scale |-> r.scale, beta |-> r.beta]>>

potrf(r) == IF r.a.s = 1 THEN potrf_rows(r, T(r.a), flip(r.fill)) ELSE potrf_rows(r, r.a, r.fill)

--------------------------------------------------------------------------------
(* Vectors.                                                                   *)

\* The library's dot and dotc.
DotOf(r, fn, u, v) ==
    <<[fn |-> fn, n |-> Narrow(u.n), a |-> Base(u), inca |-> Narrow(u.s), x |-> Base(v), incx |-> Narrow(v.s),
       y |-> Base(r.y), incy |-> 1, scale |-> "1", beta |-> "0"]>>

\* dot_n: x and y are r.a and r.x, the result r.y.  Only dot of doubles and dotc
\* are functions of the library, the others are products by a row.
dot(r) ==
    LET x == r.a  y == r.x
    IN  CASE x.n # y.n -> Refused
          [] r.type = "double" -> DotOf(r, "dot", x, y)
          [] ~x.conj /\ ~y.conj ->
               <<[fn |-> "gemv", t |-> "N", m |-> 1, n |-> Narrow(x.n), a |-> Base(x), lda |-> Narrow(x.s), x |-> Base(y),
                  incx |-> Narrow(y.s), y |-> Base(r.y), incy |-> 1, scale |-> "1", beta |-> "0"]>>
          [] y.conj -> DotOf(r, "dotc", y, x)
          [] OTHER -> DotOf(r, "dotc", x, y)

axpy(r) == IF r.x.n # r.y.n THEN Refused ELSE Level1(r, r.x.n)
copy(r) == IF r.x.n # r.y.n THEN Refused ELSE Level1(r, r.x.n)
exchange(r) == IF r.x.n # r.y.n THEN Refused ELSE Level1(r, r.x.n)

scal(r) == Level1(r, r.x.n)

\* The functions that return a number: its place is r.y.
Reduction(r) == Level1([r EXCEPT !.y.s = 1], r.x.n)

nrm2(r) == Reduction(r)
asum(r) == Reduction(r)
iamax(r) == Reduction(r)

Calls(r) ==
    CASE r.op = "gemm" -> gemm(r)
      [] r.op = "gemv" -> gemv(r)
      [] r.op \in {"herk", "syrk"} -> rankK(r)
      [] r.op = "trsm" -> trsm(r)
      [] r.op = "potrf" -> potrf(r)
      [] r.op = "dot" -> dot(r)
      [] r.op = "axpy" -> axpy(r)
      [] r.op = "copy" -> copy(r)
      [] r.op = "swap" -> exchange(r)
      [] r.op = "scal" -> scal(r)
      [] r.op = "nrm2" -> nrm2(r)
      [] r.op = "asum" -> asum(r)
      [] r.op = "iamax" -> iamax(r)

--------------------------------------------------------------------------------
(* The wrappers of core.hpp check some of the arguments, and so does the      *)
(* library; what the library does is an external specification.               *)

\* Mutant: a leading dimension that is just enough is refused.
AtLeast_Strict(ld, k) == ld > Most(1, k)

AtLeast(ld, k) == ld >= Most(1, k)

\* BC: an INT that is not the greatest one holds the number.
InRange(k) == -IntMax - 1 <= k /\ k < IntMax

Checked(f) ==
    CASE f.fn = "refused" -> FALSE
      [] f.fn = "gemm" -> /\ AtLeast(f.lda, IF f.ta = "N" THEN f.m ELSE f.k)
                          /\ AtLeast(f.ldb, IF f.tb = "N" THEN f.k ELSE f.n)
                          /\ AtLeast(f.ldc, f.m)
                          /\ f.a # f.c /\ f.b # f.c
                          /\ \A k \in {f.m, f.n, f.k, f.lda, f.ldb, f.ldc} : InRange(k)
      [] f.fn \in {"herk", "syrk"} -> /\ AtLeast(f.lda, IF f.t = "N" THEN f.n ELSE f.k)
                                      /\ AtLeast(f.ldc, f.n)
                                      /\ \A k \in {f.n, f.k, f.lda, f.ldc} : InRange(k)
      [] f.fn = "trsm" -> /\ AtLeast(f.lda, IF f.side = "L" THEN f.m ELSE f.n) /\ AtLeast(f.ldb, f.m)
                          /\ \A k \in {f.m, f.n, f.lda, f.ldb} : InRange(k)
      [] f.fn = "potrf" -> f.n >= 0 /\ AtLeast(f.lda, f.n)      \* info < 0 fails the assertion
      [] OTHER -> TRUE

\* xerbla: what the library itself refuses and the wrappers did not.
Accepted(f) == f.fn = "gemv" => AtLeast(f.lda, f.m) /\ f.incx # 0 /\ f.incy # 0

\* An element of an argument, by its address.
At(base, k) == [cell |-> <<base[1], base[2] + k>>, conj |-> FALSE]

\* Element (i, j) of op(A), where A is stored by columns.
Op(t, base, ld, i, j) ==
    CASE t = "N" -> At(base, i + j * ld)
      [] t = "T" -> At(base, j + i * ld)
      [] t = "C" -> conj(At(base, j + i * ld))

Stored(uplo) == IF uplo = "U" THEN Triangle("upper") ELSE Triangle("lower")

\* Element (i, j) of op(A) for a triangular A of which one triangle is read.
OpTriangle(f, i, j) ==
    LET p == IF f.t = "N" THEN <<i, j>> ELSE <<j, i>>
    IN  CASE p \notin Stored(f.uplo)    -> {}
          [] i = j /\ f.diag = "U"      -> {{}}
          [] OTHER                      -> {{Op(f.t, f.a, f.lda, i, j)}}

\* What a call assigns.
Effect(f) ==
    LET X(i) == At(f.x, i * f.incx)
        Y(i) == At(f.y, i * f.incy)
        Dot(first) == {Assign(Y(0), {{IF first THEN conj(At(f.a, l * f.inca)) ELSE At(f.a, l * f.inca), X(l)} :
                                         l \in Upto(f.n)}, f.scale, f.beta)}
    IN
    CASE f.fn = "gemm" ->
           {Assign(Op("N", f.c, f.ldc, i, j),
                   {{Op(f.ta, f.a, f.lda, i, l), Op(f.tb, f.b, f.ldb, l, j)} : l \in Upto(f.k)}, f.scale, f.beta) :
                i \in Upto(f.m), j \in Upto(f.n)}
      [] f.fn = "gemv" ->
           LET rows == IF f.t = "N" THEN f.m ELSE f.n
               cols == IF f.t = "N" THEN f.n ELSE f.m
           IN  IF f.m = 0 \/ f.n = 0 THEN {}
               ELSE {Assign(Y(i), {{Op(f.t, f.a, f.lda, i, l), X(l)} : l \in Upto(cols)}, f.scale, f.beta) :
                         i \in Upto(rows)}
      [] f.fn \in {"herk", "syrk"} ->
           {Assign(Op("N", f.c, f.ldc, p[1], p[2]),
                   {{Op(f.t, f.a, f.lda, p[1], l),
                     IF f.fn = "herk" THEN conj(Op(f.t, f.a, f.lda, p[2], l)) ELSE Op(f.t, f.a, f.lda, p[2], l)} :
                        l \in Upto(f.k)}, f.scale, f.beta) :
                p \in {q \in Upto(f.n) \X Upto(f.n) : q \in Stored(f.uplo)}}
      [] f.fn = "trsm" ->
           {Assign(Op("N", f.b, f.ldb, i, j),
                   UNION {IF f.side = "L" THEN Times(OpTriangle(f, i, l), Op("N", f.b, f.ldb, l, j))
                                          ELSE Times(OpTriangle(f, l, j), Op("N", f.b, f.ldb, i, l)) :
                              l \in Upto(IF f.side = "L" THEN f.m ELSE f.n)}, f.scale, "0") :
                i \in Upto(f.m), j \in Upto(f.n)}
      [] f.fn = "potrf" ->
           LET order == IF f.info = 0 THEN f.n ELSE f.info - 1
           IN  {Assign(Op("N", f.a, f.lda, p[1], p[2]),
                       {IF f.uplo = "L" THEN {Op("N", f.a, f.lda, p[1], l), conj(Op("N", f.a, f.lda, p[2], l))}
                                        ELSE {conj(Op("N", f.a, f.lda, l, p[1])), Op("N", f.a, f.lda, l, p[2])} :
                            l \in Upto(1 + Least({p[1], p[2]}))}, f.scale, f.beta) :
                    p \in {q \in Upto(order) \X Upto(order) : q \in Stored(f.uplo)}}
      [] f.fn = "dot"  -> Dot(FALSE)
      [] f.fn = "dotc" -> Dot(TRUE)
      [] f.fn \in {"axpy", "copy"} ->
           {Assign(Y(i), {{X(i)}}, f.scale, f.beta) : i \in Upto(f.n)}
      [] f.fn = "swap" ->
           {Assign(Y(i), {{X(i)}}, f.scale, f.beta) : i \in Upto(f.n)}
             \cup {Assign(X(i), {{Y(i)}}, f.scale, f.beta) : i \in Upto(f.n)}
      [] f.fn = "scal" ->
           {Assign(X(i), {{X(i)}}, f.scale, f.beta) : i \in Upto(f.n)}
      [] OTHER -> {Assign(Y(0), {{X(l)} : l \in Upto(f.n)}, f.scale, f.beta)}

--------------------------------------------------------------------------------
Nothing == [op |-> "none"]

Init == request = Nothing /\ status = "idle" /\ todo = <<>> /\ written = {}

\* The start of an operation: its assertions and the choice of its calls.
Start(r) ==
    /\ request' = r
    /\ todo' = Calls(r)
    /\ status' = IF Calls(r) = <<>> THEN "done" ELSE "running"
    /\ UNCHANGED written

\* gemm(alpha, a, b, beta, c), gemv(alpha, m, v, beta, w), ...
Ask == status = "idle" /\ \E r \in Requests : Start(r)

\* gemm(alpha, a, b), gemv(alpha, m, v), axpy(alpha, x), dot(x, y), ... are
\* ranges that keep the iterators of the operands and compute nothing.
Lazy == {"gemm", "gemv", "axpy", "copy", "dot", "nrm2", "asum"}

Hold ==
    /\ status = "idle"
    /\ \E r \in Requests : r.op \in Lazy /\ ~r.c.conj /\ request' = r
    /\ status' = "held"
    /\ UNCHANGED <<todo, written>>

Held(ops) == status = "held" /\ request.op \in ops

\* The operators: a * b and (alpha * a) % x are such ranges, a % x is computed
\* at once, y += x and y -= x update y, and y += alpha * x and y -= alpha * x too.
Operand(op) == {r \in Requests : r.op = op /\ ~r.c.conj}

Multiply ==
    /\ status = "idle"
    /\ \E r \in Operand("gemm") : request' = [r EXCEPT !.scale = "1"]
    /\ status' = "held" /\ UNCHANGED <<todo, written>>

Transform == status = "idle" /\ \E r \in Operand("gemv") : Start([r EXCEPT !.scale = "1", !.beta = "0"])

AddVector ==
    /\ status = "idle"
    /\ \E r \in Operand("axpy"), scale \in {"1", "-1"} : Start([r EXCEPT !.scale = scale, !.beta = "1"])

AddScaled ==
    /\ status = "idle"
    /\ \E r \in Operand("axpy"), scale \in {"a", "-a"} : Start([r EXCEPT !.scale = scale, !.beta = "1"])

\* c = gemm(alpha, a, b) and its decay replace the elements of the result,
\* c += gemm(alpha, a, b) adds to them, and so with gemv.
EvaluateProduct == Held({"gemm"}) /\ \E beta \in {"0", "1"} : Start([request EXCEPT !.beta = beta])
EvaluateTransform == Held({"gemv"}) /\ \E beta \in {"0", "1"} : Start([request EXCEPT !.beta = beta])

\* y += axpy(alpha, x) and y -= axpy(alpha, x).
EvaluateUpdate == Held({"axpy"}) /\ \E scale \in {"a", "-a"} : Start([request EXCEPT !.scale = scale])

\* y = copy(x), and s = dot(x, y), +dot(x, y) and the like.
EvaluateCopy == Held({"copy"}) /\ Start(request)
EvaluateDot == Held({"dot"}) /\ Start(request)
EvaluateNorm == Held({"nrm2"}) /\ Start(request)
EvaluateSum == Held({"asum"}) /\ Start(request)

Evaluate ==
    \/ EvaluateProduct \/ EvaluateTransform \/ EvaluateUpdate
    \/ EvaluateCopy \/ EvaluateDot \/ EvaluateNorm \/ EvaluateSum

Library ==
    /\ status = "running"
    /\ LET f == Head(todo) IN
       IF ~Checked(f) THEN status' = "refused" /\ UNCHANGED <<todo, written>>
       ELSE IF ~Accepted(f) THEN status' = "rejected" /\ UNCHANGED <<todo, written>>
       ELSE /\ written' = written \cup Effect(f)
            /\ todo' = Tail(todo)
            /\ status' = IF Tail(todo) = <<>> THEN "done" ELSE "running"
    /\ UNCHANGED request

Return ==
    /\ status = "done"
    /\ request' = Nothing /\ status' = "idle" /\ todo' = <<>> /\ written' = {}

Next == Ask \/ Hold \/ Multiply \/ Transform \/ AddVector \/ AddScaled \/ Evaluate \/ Library \/ Return

Spec == Init /\ [][Next]_vars

--------------------------------------------------------------------------------
(* Properties.                                                                *)

\* The selections compute what the operation is for: the letters, leading
\* dimensions and order of the arguments, which are chosen from the strides,
\* make the library's sums by addresses the sums by indices, each one in its
\* element and nothing anywhere else.
ComputesTheDefinition == status = "done" => written = Wanted(request)

\* Not conjugated, with a unit stride and with strides that the wrappers let
\* through.
Plain(v) == ~v.conj /\ UnitStride(v) /\ InRange(v.s) /\ InRange(v.t)

\* The library refuses no call that the adaptor lets through (xerbla returns no
\* error), and the adaptor itself none of gemm, gemv, trsm and syrk on plain
\* matrices that do not share their memory, in whatever order each is stored.
PlainIsServed ==
    /\ status # "rejected"
    /\ status = "refused" =>
           \/ request.op = "herk"
           \/ \E v \in {request.a, request.b, request.c} : ~Plain(v)
           \/ Base(request.c) \in {Base(request.a), Base(request.b)}

================================================================================
