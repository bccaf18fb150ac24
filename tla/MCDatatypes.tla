------------------------------ MODULE MCDatatypes ------------------------------
EXTENDS Datatypes

Whole(xs) == [base |-> 0, dims |-> LayoutOf(xs)]

Block == Whole(<<<<0, 2>>, <<0, 3>>, <<0, 2>>>>)

Matrix == Whole(<<<<1, 3>>, <<1, 4>>>>)

Right == Subscript([Matrix EXCEPT !.dims = Transpose(@, 1)], 2)

Every(v, s) == [v EXCEPT !.dims[1].stride = @ * s]

\* A block and its rotation, a matrix whose indices start at one and its
\* transposition, a column of it, a vector, every second element of one, and
\* views without elements.
MCViews ==
    {Block, [Block EXCEPT !.dims = Rotate(@)], Matrix, [Matrix EXCEPT !.dims = Transpose(@, 1)], Right,
     Whole(<<<<0, 3>>>>), Every(Whole(<<<<0, 6>>>>), 2), Whole(<<<<0, 0>>>>), Whole(<<<<0, 0>>, <<0, 2>>>>)}

================================================================================
