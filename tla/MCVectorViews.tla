----------------------------- MODULE MCVectorViews -----------------------------
EXTENDS VectorViews

\* Ranges that start before, in and after the vector.
MCBounds == {-1, 1, 3, 7}

================================================================================
