--------------------------------- MODULE MCBlas --------------------------------
(* Small matrices and vectors for Blas.                                       *)
EXTENDS Blas

\* A matrix of n by m by rows or by columns, with gap unused elements after
\* each, conjugated or not.
Matrix(buf, order, n, m, gap, cj) ==
    [buf |-> buf, base |-> 0, conj |-> cj, n |-> n, m |-> m,
     s |-> IF order = "R" THEN m + gap ELSE 1, t |-> IF order = "R" THEN 1 ELSE n + gap]

\* Every other column of a matrix by columns: no stride is 1.
Strided(buf) == [Matrix(buf, "C", 3, 3, 3, FALSE) EXCEPT !.s = 2]

Vector(buf, n, s, cj) == [buf |-> buf, base |-> 0, n |-> n, m |-> 1, s |-> s, t |-> 1, conj |-> cj]

Request(op) == [op |-> op, scale |-> "a", beta |-> "0", fill |-> "both", side |-> "left", diag |-> "N", type |-> "complex", info |-> 0,
                a |-> Vector("A", 0, 1, FALSE), b |-> Vector("B", 0, 1, FALSE), c |-> Vector("C", 0, 1, FALSE),
                x |-> Vector("X", 0, 1, FALSE), y |-> Vector("Y", 0, 1, FALSE)]

Orders == {"R", "C"}
Rows(v) == v.t = 1

Products(sizes, gaps, conjs) ==
    {[Request("gemm") EXCEPT !.a = Matrix("A", oa, z[1], z[2], g, cj[1]),
                             !.b = Matrix("B", ob, z[2], z[3], g, cj[2]),
                             !.c = Matrix("C", oc, z[1], z[3], g, cj[3])] :
        oa \in Orders, ob \in Orders, oc \in Orders, z \in sizes, g \in gaps, cj \in conjs}

\* The products that gemm_n computes right: a and b are read in their order or
\* the result is by rows; with the second conjugated (and the result not) the
\* result must be by rows, and square if the first is by columns.
Right(r) ==
    /\ ~(Rows(r.a) /\ ~Rows(r.b) /\ ~Rows(r.c))
    /\ r.b.conj # r.c.conj => Rows(r.c) /\ (Rows(r.a) \/ r.a.n = r.c.m)

Pairs == (2..3) \X (2..3)
Cubes == Pairs \X {2, 3}
Shapes == {<<p[1][1], p[1][2], p[2]>> : p \in Cubes}
None == <<FALSE, FALSE, FALSE>>
GEMM ==
    {r \in Products(Shapes, {0, 1}, {None}) \cup
           Products(Shapes, {0}, BOOLEAN \X BOOLEAN \X BOOLEAN) : Right(r)}
      \cup Products({<<2, 2, 2>>}, {IntMax - 2, IntMax}, {None})         \* too wide for BC, for INT
      \cup Products({<<0, 2, 2>>}, {0}, {None})                          \* no rows
      \cup {[r EXCEPT !.c = r.b] : r \in Products({<<2, 2, 2>>}, {0}, {None})}  \* in place
      \cup {[r EXCEPT !.a = Strided("A")] : r \in Products({<<3, 3, 3>>}, {0}, {None})}

GEMV ==
    {[Request("gemv") EXCEPT !.a = Matrix("A", o, z[1], z[2], g, cj),
                             !.x = Vector("X", z[2], sx, FALSE), !.y = Vector("Y", z[1], sy, FALSE)] :
        o \in Orders, z \in Pairs, g \in {0, 1}, cj \in BOOLEAN, sx \in {1, 2}, sy \in {1, 2}}
      \cup {[Request("gemv") EXCEPT !.a = Strided("A"), !.x = Vector("X", 3, 1, FALSE), !.y = Vector("Y", 3, 1, FALSE)]}

\* A conjugated matrix by rows into a result by rows is wrong (herk), and so
\* is one by columns into a result by columns (syrk).
Updates ==
    {r \in {[Request(op) EXCEPT !.fill = f, !.scale = "1", !.a = Matrix("A", oa, z[1], z[2], g, ca),
                                !.c = Matrix("C", oc, z[1], z[1], g, cc)] :
                op \in {"herk", "syrk"}, f \in {"upper", "lower", "both"}, oa \in Orders, oc \in Orders,
                z \in Pairs, g \in {0, 1, IntMax}, ca \in BOOLEAN, cc \in BOOLEAN} :
        IF r.op = "herk" THEN ~(r.a.conj /\ Rows(r.a) /\ (Rows(r.c) # r.c.conj))
        ELSE ~r.a.conj /\ ~r.c.conj /\ r.fill # "both" /\ (Rows(r.a) \/ Rows(r.c))}

Solves ==
    {r \in {[Request("trsm") EXCEPT !.fill = f, !.side = sd, !.diag = d, !.a = Matrix("A", oa, k, k, g, ca),
                                    !.b = Matrix("B", ob, z[1], z[2], g, cb)] :
                f \in {"upper", "lower"}, sd \in {"left", "right"}, d \in {"N", "U"}, oa \in Orders, ob \in Orders,
                k \in {2, 3}, z \in Pairs \cup {<<0, 2>>}, g \in {0, 1, IntMax - 2}, ca \in BOOLEAN, cb \in BOOLEAN} :
        r.a.n = (IF r.side = "left" THEN Most(r.b.n, 2) ELSE r.b.m)}

Dots ==
    {r \in {[Request("dot") EXCEPT !.scale = "1", !.type = ty, !.a = Vector("A", n, s1, c1),
                                   !.x = Vector("X", n, s2, c2), !.y = Vector("Y", 1, 1, FALSE)] :
                ty \in {"float", "double", "complex"}, n \in 0..3, s1 \in {1, 2}, s2 \in {1, 2}, c1 \in BOOLEAN, c2 \in BOOLEAN} :
        /\ ~(r.a.conj /\ r.x.conj)                                  \* does not compile
        /\ r.type # "complex" => ~r.a.conj /\ ~r.x.conj
        /\ r.type # "double" /\ ~r.a.conj /\ ~r.x.conj => r.x.n > 0}  \* leaves the result unset

Vectors ==
    {[Request(op) EXCEPT !.scale = IF op \in {"axpy", "scal"} THEN "a" ELSE "1", !.beta = IF op = "axpy" THEN "1" ELSE "0",
                         !.x = Vector("X", n, s1, FALSE),
                         !.y = IF op \in {"nrm2", "asum", "iamax"} THEN Vector("Y", 1, 1, FALSE) ELSE Vector("Y", n, s2, FALSE)] :
        op \in {"axpy", "copy", "swap", "scal", "nrm2", "asum", "iamax"}, n \in 0..3, s1 \in {1, 2}, s2 \in {1, 2}}

\* Square matrices; info is the order of the first minor that is not positive.
Factors ==
    {[Request("potrf") EXCEPT !.scale = "1", !.fill = f, !.a = Matrix("A", o, n, n, g, FALSE), !.info = k] :
        f \in {"upper", "lower"}, o \in Orders, n \in {2, 3}, g \in {0, 1}, k \in 0..2}

AllRequests == GEMM \cup Factors \cup GEMV \cup Updates \cup Solves \cup Dots \cup Vectors

================================================================================
