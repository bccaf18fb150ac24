--------------------------- MODULE MCElementsIterator --------------------------
EXTENDS ElementsIterator

Whole(xs) == [base |-> 0, dims |-> LayoutOf(xs)]

Block == Whole(<<<<0, 2>>, <<0, 2>>, <<0, 2>>>>)

\* The transposition of a matrix of two rows.
Transposed == [Whole(<<<<0, 2>>, <<0, 3>>>>) EXCEPT !.dims = Transpose(@, 1)]

\* That, two columns of the matrix, which have one layout, an empty vector, and a
\* block of eight with its dimensions rotated.
MCRanges ==
    {Transposed,
     Subscript(Transposed, 0), Subscript(Transposed, 1),
     Whole(<<<<0, 0>>>>),
     [Block EXCEPT !.dims = Rotate(@)]}

\* No step depends on more of an iterator that has gone astray than its number of
\* dimensions, and no property on anything of it.
Distinguished ==
    [x \in Iterators |-> IF x \in astray THEN <<Len(it[x].l)>> ELSE <<it[x], over[x], skew[x]>>]

================================================================================
