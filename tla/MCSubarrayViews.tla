---------------------------- MODULE MCSubarrayViews ----------------------------
EXTENDS SubarrayViews

\* A matrix, a vector and an empty array whose indices start at zero, a matrix
\* whose indices start at one, and an empty one whose indices do not start at zero.
MCRoots == {<<<<0, 2>>, <<0, 3>>>>, <<<<0, 4>>>>, <<<<0, 0>>, <<0, 2>>>>,
            <<<<1, 3>>, <<1, 3>>>>, <<<<1, 3>>, <<2, 2>>>>}

\* The second half of an element.
MCMembers == {<<2, 2>>}

================================================================================
