-------------------------- MODULE CustomizationPoints --------------------------
(******************************************************************************)
(* Who runs an algorithm (detail/adl.hpp).  The library calls every algorithm *)
(* through a function object that tries implementations in an order fixed by  *)
(* priorities and takes the last one that compiles: a member of the first     *)
(* argument, a static member of its type, a function that argument dependent  *)
(* lookup finds, one of the library's own, one of the standard library.  The  *)
(* levels for the GPU libraries, which other compilers skip, are left out.    *)
(*                                                                            *)
(* For the algorithms of UninitializedAlgorithms the choice decides whether   *)
(* the elements are made by the allocator, or by an algorithm that does not   *)
(* know of it; alloc_destroy_n asks the allocator in every case.  The module  *)
(* adds this to the loops: who makes the elements, and how often construct    *)
(* and destroy of the allocator are called.                                   *)
(******************************************************************************)
EXTENDS UninitializedAlgorithms, FiniteSetsExt

VARIABLES
    provided,   \* the levels at which the program's types implement the algorithm
    by,         \* whether the implementation knows the allocator, and its level
    made,       \* calls of construct by the allocator, for this block
    ended       \* calls of destroy by the allocator

dispatch == <<provided, by, made, ended>>

\* What a program may provide.
Own == {"adl", "static", "member"}

\* The candidates of the libraries always compile.
Compiles(level, given) == level \in Own => level \in given

\* The last candidate that compiles.
Chosen(point, given) == point[Max({k \in DOMAIN point : Compiles(point[k], given)})]

--------------------------------------------------------------------------------
(* The candidates of each point, the lowest priority first.  "plain" passes   *)
(* the arguments on without the allocator.                                    *)

adl_uninitialized_copy == <<"std", "adl", "static", "member">>

adl_uninitialized_copy_n == <<"std", "adl", "static", "member">>

adl_uninitialized_fill_n == <<"std", "adl", "member">>

adl_uninitialized_value_construct_n == <<"std", "adl", "static", "member">>

adl_uninitialized_default_construct_n == <<"std", "adl", "static", "member">>

\* The library's own version is commented out of the next two.
adl_alloc_uninitialized_value_construct_n == <<"plain", "adl", "static", "member">>

adl_alloc_uninitialized_copy_n == <<"plain", "adl", "static", "member">>

\* Wrong on purpose: the version of the library is left out here too.
adl_alloc_uninitialized_default_construct_n_Plain == <<"plain", "adl", "static", "member">>

adl_alloc_uninitialized_default_construct_n == <<"plain", "xtd", "adl", "static", "member">>

adl_alloc_uninitialized_copy == <<"plain", "xtd", "adl", "static", "member">>

\* There is no version without the allocator.
adl_alloc_uninitialized_move_n == <<"xtd", "adl", "member">>

\* The version without the allocator comes after the library's own.
adl_alloc_uninitialized_fill_n == <<"xtd", "plain", "adl", "member">>

adl_destroy_n == <<"multi", "adl", "static", "member">>

adl_alloc_destroy_n == <<"plain", "multi", "adl", "static", "member">>

AllocPoint(o) ==
    CASE o = "value_construct" -> adl_alloc_uninitialized_value_construct_n
      [] o = "default_construct" -> adl_alloc_uninitialized_default_construct_n
      [] o = "copy" -> adl_alloc_uninitialized_copy_n
      [] o = "copy_range" -> adl_alloc_uninitialized_copy
      [] o = "move" -> adl_alloc_uninitialized_move_n
      [] o = "fill" -> adl_alloc_uninitialized_fill_n
      [] o = "destroy" -> adl_alloc_destroy_n

\* The point that "plain" leads to.
PlainPoint(o) ==
    CASE o = "value_construct" -> adl_uninitialized_value_construct_n
      [] o = "default_construct" -> adl_uninitialized_default_construct_n
      [] o = "copy" -> adl_uninitialized_copy_n
      [] o = "copy_range" -> adl_uninitialized_copy
      [] o = "fill" -> adl_uninitialized_fill_n
      [] o = "destroy" -> adl_destroy_n

\* The implementation of o, where the program provides some with the allocator
\* and some without; those that are given the allocator use it.
Implementation(o, given, givenPlain) ==
    IF Chosen(AllocPoint(o), given) = "plain"
    THEN <<"plain", Chosen(PlainPoint(o), givenPlain)>>
    ELSE <<"allocator", Chosen(AllocPoint(o), given)>>

--------------------------------------------------------------------------------
DispatchInit ==
    /\ Init
    /\ provided = {} /\ by = Implementation("fill", {}, {})
    /\ made = 0 /\ ended = 0

\* The library's array calls algorithm o; the choice is made when it is compiled.
DispatchedCall(o, e, n, given, givenPlain) ==
    /\ Call(o, e, n)
    /\ provided' = given
    /\ by' = Implementation(o, given, givenPlain)
    /\ made' = 0 /\ ended' = 0

\* catch(...) destroys the way the loop constructed, ~static_array the way that
\* alloc_destroy_n does.
Destroyer == IF pc = "rollback" THEN by ELSE Implementation("destroy", provided, {})

CountedBy(who, calls) == IF who[1] = "allocator" THEN calls ELSE 0

DispatchedStep ==
    /\ Step \/ DestroyCall
    /\ made' = made + CountedBy(by, ctors' - ctors)
    /\ ended' = ended + CountedBy(Destroyer, dtors' - dtors)
    /\ UNCHANGED <<provided, by>>

DispatchNext ==
    \/ \E o \in Ops, e \in {"trivial", "class"}, n \in 0 .. MaxCount :
           \E given, givenPlain \in SUBSET Own : DispatchedCall(o, e, n, given, givenPlain)
    \/ DispatchedStep

DispatchSpec == DispatchInit /\ [][DispatchNext]_<<vars, dispatch>> /\ WF_<<vars, dispatch>>(Step /\ DispatchedStep)

--------------------------------------------------------------------------------
\* The algorithms that lose the allocator, unless the program implements them; a
\* static member for fill is not looked for.
LosesAllocator ==
    \/ op \in {"value_construct", "copy"} /\ provided = {}
    \/ op = "fill" /\ provided \subseteq {"static"}

\* Unless the algorithm loses the allocator, the allocator has destroyed what it
\* constructed and no more: the elements of the block are those it has not
\* destroyed yet, also while an exception undoes a construction and between a
\* construction by one implementation and the destruction by another.
AllocatorEndsWhatItMade ==
    ~LosesAllocator /\ elem = "class" =>
        made - ended = Cardinality({i \in Cells : cell[i] = "live"})

================================================================================
