---------------------- MODULE UninitializedAlgorithms ----------------------
(***************************************************************************)
(* The algorithms that create and destroy the elements of an array in the  *)
(* memory its allocator returned (detail/adl.hpp and detail/memory.hpp):   *)
(* alloc_uninitialized_{value_construct,default_construct,copy,move,      *)
(* fill}_n, alloc_uninitialized_copy (copy_range), and alloc_destroy_n.    *)
(* Each construction loop has a catch(...) that destroys what was built so *)
(* far and rethrows; a step of this module is one iteration of one of      *)
(* these loops.                                                            *)
(***************************************************************************)
EXTENDS Integers, FiniteSets

CONSTANT MaxCount          \* the largest number of elements of a block

ASSUME MaxCountAssumption == MaxCount \in Nat

VARIABLES
  cell,       \* cell[i]: what the i-th element's memory holds
  op,         \* the algorithm that was called last
  elem,       \* the element type: "trivial" or "class"
  total,      \* num_elements() of the array that owns the block
  first,      \* the local `first` of the running algorithm, an offset
  current,    \* its local `current`
  count,      \* its local `count` (or `n`): the iterations left
  pc,         \* where the running algorithm is
  ctors,      \* constructor calls made on this block
  dtors       \* destructor calls made on this block

vars == <<cell, op, elem, total, first, current, count, pc, ctors, dtors>>

Cells == 0 .. MaxCount - 1

Ops == {"value_construct", "default_construct", "copy", "copy_range", "move", "fill"}

\* "indeterminate": storage of a trivially default constructible element that
\* default construction left as it was
CellStates == {"raw", "live", "indeterminate"}

Phases == {"idle", "construct", "rollback", "built", "thrown", "destroy"}

TypeOK ==
  /\ cell \in [Cells -> CellStates]
  /\ op \in Ops
  /\ elem \in {"trivial", "class"}
  /\ total \in 0 .. MaxCount
  /\ first \in 0 .. MaxCount
  /\ current \in 0 .. MaxCount
  /\ count \in 0 .. MaxCount
  /\ pc \in Phases
  /\ ctors \in 0 .. MaxCount
  /\ dtors \in 0 .. MaxCount

Init ==
  /\ cell = [i \in Cells |-> "raw"]
  /\ op \in Ops
  /\ elem \in {"trivial", "class"}
  /\ total = 0 /\ first = 0 /\ current = 0 /\ count = 0
  /\ pc = "idle"
  /\ ctors = 0 /\ dtors = 0

-----------------------------------------------------------------------------
(***************************************************************************)
(* The construction loops.                                                 *)
(***************************************************************************)

\* An array of n elements calls algorithm o on a block it just allocated.
Call(o, e, n) ==
  /\ pc \in {"idle", "thrown"}
  /\ op' = o /\ elem' = e /\ total' = n
  /\ first' = 0 /\ current' = 0 /\ count' = n
  /\ pc' = "construct"
  /\ ctors' = 0 /\ dtors' = 0
  /\ UNCHANGED cell

SkipsConstruction == op = "default_construct" /\ elem = "trivial"

(***************************************************************************)
(* Slips these loops could have; no action uses them.  Each is the mutant  *)
(* of the definition named before the underscore.                          *)
(***************************************************************************)

\* destroys *current, the element whose constructor threw
RollbackNext_WrongElement ==
  /\ pc = "rollback"
  /\ current # first
  /\ cell' = [cell EXCEPT ![current] = "raw"]
  /\ first' = first + 1
  /\ dtors' = dtors + 1
  /\ UNCHANGED <<op, elem, total, current, count, pc, ctors>>

\* the catch(...) starts the loop again instead of rethrowing
Rethrow_TriesAgain ==
  /\ pc = "rollback"
  /\ current = first
  /\ pc' = "construct"
  /\ first' = 0 /\ current' = 0 /\ count' = total
  /\ ctors' = 0 /\ dtors' = 0
  /\ UNCHANGED <<cell, op, elem, total>>

\* throw; before the loop that undoes the construction
Rethrow_NoRollback ==
  /\ pc = "rollback"
  /\ pc' = "thrown"
  /\ UNCHANGED <<cell, op, elem, total, first, current, count, ctors, dtors>>

\* first += count - 1
DestroyCall_ShortStart ==
  /\ pc = "built"
  /\ elem = "class"
  /\ first' = IF total = 0 THEN 0 ELSE total - 1
  /\ count' = total
  /\ pc' = "destroy"
  /\ UNCHANGED <<cell, op, elem, total, current, ctors, dtors>>

\* One iteration: construct(alloc, addressof(*current), ...); ++current; --count
ConstructNext ==
  /\ pc = "construct" /\ ~SkipsConstruction
  /\ count > 0
  /\ cell' = [cell EXCEPT ![current] = "live"]
  /\ current' = current + 1
  /\ count' = count - 1
  /\ ctors' = ctors + 1
  /\ UNCHANGED <<op, elem, total, first, pc, dtors>>

\* The constructor of a class throws; catch(...) takes over.
ConstructThrows ==
  /\ pc = "construct" /\ ~SkipsConstruction
  /\ count > 0
  /\ elem = "class"
  /\ pc' = "rollback"
  /\ UNCHANGED <<cell, op, elem, total, first, current, count, ctors, dtors>>

\* for(; current != first; ++first) destroy(alloc, addressof(*first));
RollbackNext ==
  /\ pc = "rollback"
  /\ current # first
  /\ cell' = [cell EXCEPT ![first] = "raw"]
  /\ first' = first + 1
  /\ dtors' = dtors + 1
  /\ UNCHANGED <<op, elem, total, current, count, pc, ctors>>

\* throw; the owner gets the exception
Rethrow ==
  /\ pc = "rollback"
  /\ current = first
  /\ pc' = "thrown"
  /\ UNCHANGED <<cell, op, elem, total, first, current, count, ctors, dtors>>

ConstructReturn ==
  /\ pc = "construct" /\ ~SkipsConstruction
  /\ count = 0
  /\ pc' = "built"
  /\ UNCHANGED <<cell, op, elem, total, first, current, count, ctors, dtors>>

\* std::advance(first, count); return first;
SkipConstruction ==
  /\ pc = "construct" /\ SkipsConstruction
  /\ cell' = [i \in Cells |-> IF i < count THEN "indeterminate" ELSE cell[i]]
  /\ pc' = "built"
  /\ UNCHANGED <<op, elem, total, first, current, count, ctors, dtors>>

-----------------------------------------------------------------------------
(***************************************************************************)
(* static_array::destroy() and the loop of alloc_destroy_n.                *)
(***************************************************************************)

\* first += count; before the loop
DestroyCall ==
  /\ pc = "built"
  /\ elem = "class"
  /\ first' = total
  /\ count' = total
  /\ pc' = "destroy"
  /\ UNCHANGED <<cell, op, elem, total, current, ctors, dtors>>

\* if constexpr(! is_trivially_destructible_v<T>): otherwise nothing is run and
\* the elements end with their memory
SkipDestruction ==
  /\ pc = "built"
  /\ elem = "trivial"
  /\ cell' = [i \in Cells |-> "raw"]
  /\ pc' = "destroy"
  /\ count' = 0
  /\ UNCHANGED <<op, elem, total, first, current, ctors, dtors>>

\* destroy(alloc, addressof(*(first - 1))); --first; --count
DestroyNext ==
  /\ pc = "destroy"
  /\ count # 0
  /\ cell' = [cell EXCEPT ![first - 1] = "raw"]
  /\ first' = first - 1
  /\ count' = count - 1
  /\ dtors' = dtors + 1
  /\ UNCHANGED <<op, elem, total, current, pc, ctors>>

DestroyReturn ==
  /\ pc = "destroy"
  /\ count = 0
  /\ pc' = "idle"
  /\ UNCHANGED <<cell, op, elem, total, first, current, count, ctors, dtors>>

Step == \/ ConstructNext \/ ConstructThrows \/ RollbackNext \/ Rethrow
        \/ ConstructReturn \/ SkipConstruction
        \/ SkipDestruction \/ DestroyNext \/ DestroyReturn

Next == \/ \E o \in Ops, e \in {"trivial", "class"}, n \in 0 .. MaxCount : Call(o, e, n)
        \/ DestroyCall
        \/ Step

\* The loops run on one thread, which keeps executing them.
Spec == Init /\ [][Next]_vars /\ WF_vars(Step)

-----------------------------------------------------------------------------
(***************************************************************************)
(* Properties.                                                             *)
(***************************************************************************)

\* Whatever the loop is doing, the constructed cells are exactly the ones its
\* locals say: a prefix while constructing and destroying (alloc_destroy_n goes
\* backwards), [first, current) while the catch(...) undoes a partial
\* construction, and nothing once the exception has left.
Occupied(i) == \/ pc = "construct" /\ i < current
               \/ pc = "rollback"  /\ first <= i /\ i < current
               \/ pc = "built"     /\ i < total
               \/ pc = "destroy"   /\ i < count

CellsMatchCursor == \A i \in Cells : cell[i] # "raw" <=> Occupied(i)

\* Every constructor call is matched by at most one destructor call on the same
\* cell: what was constructed and not destroyed yet is what the block holds.  A
\* destructor run on raw memory, or a constructor run over a live element,
\* breaks the equation.
LifetimesBalance ==
  ctors - dtors = Cardinality({i \in Cells : cell[i] = "live"})
                   + (IF elem = "trivial" /\ pc \in {"idle", "destroy"} THEN ctors ELSE 0)

\* The owner sees the atomic interface: all the elements or none.
OwnerStatus == IF pc \in {"construct", "rollback"} THEN "calling"
               ELSE IF pc = "idle" THEN "empty"
               ELSE IF pc = "destroy" THEN "destroying"
               ELSE pc

OwnerView == IF pc = "built" THEN {i \in Cells : cell[i] # "raw"} ELSE {}

Batch == INSTANCE AtomicBatch
           WITH status <- OwnerStatus, wanted <- total, built <- OwnerView

\* The loops with their catch(...) implement the all-or-nothing call.
ImplementsAtomicBatch == Batch!Spec

\* A call comes back: it returns or it throws.
CallsComeBack == (pc \in {"construct", "rollback"}) ~> (pc \in {"built", "thrown"})
=============================================================================
