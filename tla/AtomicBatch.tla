---------------------------- MODULE AtomicBatch ----------------------------
(***************************************************************************)
(* What the owner of a memory block relies on when it asks one of the      *)
(* uninitialized algorithms of Boost.Multi to build the elements of an     *)
(* array: the call either builds every element it was asked for and        *)
(* returns, or it throws and leaves no element behind.  The owner destroys *)
(* all of them with one call, later.  Nothing in between is observable.    *)
(***************************************************************************)
EXTENDS Integers

CONSTANT MaxCount          \* the largest number of elements of a block

VARIABLES status,          \* what the owner knows of the block
          wanted,          \* how many elements it asked for last
          built            \* the elements the owner may use

vars == <<status, wanted, built>>

Init == status = "empty" /\ wanted = 0 /\ built = {}

Call == /\ status \in {"empty", "thrown"}
        /\ status' = "calling"
        /\ wanted' \in 0 .. MaxCount
        /\ UNCHANGED built

Return == /\ status = "calling"
          /\ status' = "built"
          /\ built' = 0 .. wanted - 1
          /\ UNCHANGED wanted

Throw == /\ status = "calling"
         /\ status' = "thrown"
         /\ UNCHANGED <<wanted, built>>

Destroy == /\ status = "built"
           /\ status' = "destroying"
           /\ built' = {}
           /\ UNCHANGED wanted

Destroyed == /\ status = "destroying"
             /\ status' = "empty"
             /\ UNCHANGED <<wanted, built>>

Next == Call \/ Return \/ Throw \/ Destroy \/ Destroyed

Spec == Init /\ [][Next]_vars
=============================================================================
