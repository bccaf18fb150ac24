-------------------------- MODULE MCFourierTransforms --------------------------
(* Small views for FourierTransforms.                                         *)
EXTENDS FourierTransforms

CONSTANTS t1, t2

Range(s) == {s[k] : k \in DOMAIN s}
Orders(D) == {f \in [1 .. D -> 1 .. D] : Range(f) = 1 .. D}

\* The strides of an array whose order[1]-th dimension is the outermost, with a
\* gap after the elements of each innermost row.
RECURSIVE Product(_, _, _)
Product(n, order, k) == IF k > Len(n) THEN 1 ELSE n[order[k]] * Product(n, order, k + 1)
Strides(n, order, gap) ==
    LET padded == [n EXCEPT ![order[Len(n)]] = @ + gap] IN
    [d \in DOMAIN n |-> Product(padded, order, (CHOOSE k \in DOMAIN n : order[k] = d) + 1)]

Asked(lib, which, n, iorder, oorder, gap, inplace) ==
    [lib |-> lib, call |-> "dft", sign |-> "forward", which |-> which, n |-> n, is |-> Strides(n, iorder, gap), os |-> Strides(n, oorder, gap), inplace |-> inplace]

Identity(D) == [k \in 1 .. D |-> k]

Cubes ==
    {Asked("cufft", which, <<2, 2, 2>>, io, oo, 0, FALSE) : which \in [1 .. 3 -> BOOLEAN], io \in Orders(3), oo \in Orders(3)}
      \cup {Asked("cufft", which, <<2, 3, 2>>, Identity(3), oo, gap, FALSE) :
               which \in [1 .. 3 -> BOOLEAN], oo \in Orders(3), gap \in {0, 1}}
Fourfold ==
    {Asked("cufft", [k \in 1 .. 4 |-> k \in w], <<2, 2, 2, 2>>, Identity(4), oo, 0, FALSE) :
        w \in {{1}, {4}, {1, 2}, {1, 3}}, oo \in Orders(4)}
Fivefold ==
    {Asked("cufft", [k \in 1 .. 5 |-> k \in w], <<2, 2, 2, 2, 2>>, Identity(5), Identity(5), gap, FALSE) :
        w \in {{1}, {5}, {2, 4}}, gap \in {0, 1}}
InPlace ==
    {Asked("cufft", which, <<2, 3, 2>>, Identity(3), Identity(3), gap, TRUE) : which \in [1 .. 3 -> BOOLEAN], gap \in {0, 1}}
Guided ==
    {[Asked("fftw", [k \in 1 .. 3 |-> k \in w], <<2, 3, 2>>, Identity(3), <<3, 1, 2>>, 1, FALSE) EXCEPT !.sign = "backward"] : w \in {{}, {1, 3}}}

\* What both threads ask for.
Common ==
    {[Asked("cufft", <<TRUE, FALSE>>, <<2, 3>>, <<1, 2>>, <<2, 1>>, 0, FALSE) EXCEPT !.call = c] :
        c \in {"dft_forward", "dft_backward"}}

\* The merges of cufft::plan are right if the dimension that follows fills the
\* stride of the first by itself, on both sides.
RECURSIVE MergesRight(_)
MergesRight(dims) ==
    \/ Len(dims) < 2
    \/ dims[1].is # Count(Tail(dims))
    \/ dims[1].os # Count(Tail(dims))
    \/ /\ dims[1].is = dims[2].n * dims[2].is
       /\ dims[1].os = dims[2].n * dims[2].os
       /\ MergesRight(<<[dims[2] EXCEPT !.n = @ * dims[1].n]>> \o SubSeq(dims, 3, Len(dims)))

Right(r) == r.lib = "fftw" \/ MergesRight(Repetitions(r, Sorted(iodims(r))))

Many == {r \in Cubes \cup Fourfold \cup Fivefold \cup InPlace \cup Guided : Right(r)} \cup Common

Threads == {t1, t2}
AskedFor == [t \in Threads |-> IF t = t1 THEN Many ELSE Common]
================================================================================
