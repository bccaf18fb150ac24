--------------------------- MODULE MCViewTransfers -----------------------------
EXTENDS ViewTransfers

\* Of a matrix of two rows of four elements: its first column, its left block,
\* the transpose of its right block, an array of two rows that overlaps both, two
\* contiguous vectors, a third that overlaps the first, and two elements.
Matrix == [base |-> 0, dims |-> LayoutOf(<<<<0, 2>>, <<0, 4>>>>)]

Columns(v, a, b) == [base |-> v.base + a, dims |-> [v.dims EXCEPT ![2].nelems = b - a]]

Transposed(v) == [v EXCEPT !.dims = Transpose(v.dims, 1)]

Vector(b, s, n) == [base |-> b, dims |-> <<[stride |-> s, offset |-> 0, nelems |-> s * n]>>]

MCViews ==
    {Columns(Matrix, 0, 1), Columns(Matrix, 0, 2), Transposed(Columns(Matrix, 2, 4)),
     Vector(0, 1, 3), Vector(5, 1, 3), Vector(0, 2, 3),
     Reference(2, <<<<0, 2>>, <<0, 2>>>>), Reference(3, <<>>), Reference(6, <<>>)}

\* A negative first index, zero and a positive one.
MCFirsts == {-1, 0, 2}

MCMemories == {[c \in Cells |-> c + 1]}

================================================================================
