-------------------------- MODULE MCArrayLifecycle --------------------------
(***************************************************************************)
(* Instances of ArrayLifecycle for TLC.                                    *)
(***************************************************************************)
EXTENDS ArrayLifecycle, TLC

CONSTANTS standard, pool   \* two allocators that do not compare equal

MCSymmetry == Permutations(Blocks) \cup Permutations(Arrays)

\* Empty, empty with a width, a row, a column and a square: all the pairs that
\* reshape, rotate, extend and shrink into each other.
MCExtents == {<<0, 0>>, <<0, 2>>, <<1, 2>>, <<2, 1>>, <<2, 2>>}

\* Sizes only, for the runs about allocators.
RowExtents == {<<0, 0>>, <<1, 1>>, <<1, 2>>}

\* Nothing, and a column that no other operation leaves behind in one step.
MCArchives == {<< <<0, 0>>, << >> >>, << <<2, 1>>, [k \in 0 .. 1 |-> k] >>}

RowArchives == {<< <<0, 0>>, << >> >>, << <<1, 2>>, [k \in 0 .. 1 |-> DefaultValue] >>}

SelectSame == [al \in Allocators |-> al]

SelectDefault == [al \in Allocators |-> DefaultAlloc]

AllThrows == {<<"construct", "element">>, <<"assign", "element">>,
              <<"copy_assign", "allocate">>, <<"copy_assign", "element">>,
              <<"reextent", "element">>,
              <<"reextent_moved", "allocate">>, <<"reextent_moved", "element">>,
              <<"load", "allocate">>}

CopyAllocateThrows  == {<<"copy_assign", "allocate">>}
=============================================================================
