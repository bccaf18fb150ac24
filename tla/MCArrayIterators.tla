---------------------------- MODULE MCArrayIterators ---------------------------
EXTENDS ArrayIterators

Whole(xs) == [base |-> 0, dims |-> LayoutOf(xs)]

Block == Whole(<<<<0, 3>>, <<0, 2>>, <<0, 2>>>>)

Transposed == [Block EXCEPT !.dims = Transpose(@, 1)]

FromOne == Whole(<<<<1, 4>>, <<1, 3>>>>)

Downward == [base |-> 3, dims |-> <<[stride |-> -1, offset |-> 0, nelems |-> -4]>>]

\* A block of 3 x 2 x 2 and its transposition, a matrix and a vector whose
\* indices start at one, a column, and a vector that goes down.
MCSources ==
    {[kind |-> k, view |-> v] : k \in {"rows", "cursor"}, v \in {Block, Transposed, FromOne}}
      \cup {[kind |-> "pointer", view |-> v] : v \in {Block, FromOne}}
      \cup {[kind |-> k, view |-> v] :
                k \in {"elements", "indices"},
                v \in {Downward, Whole(<<<<1, 4>>>>), Subscript([FromOne EXCEPT !.dims = Transpose(@, 1)], 1)}}

MCStrides == {-1, 0, 2, 3}

================================================================================
