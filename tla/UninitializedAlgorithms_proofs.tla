------------------- MODULE UninitializedAlgorithms_proofs -------------------
(***************************************************************************)
(* For every MaxCount: the catch(...) blocks and alloc_destroy_n touch     *)
(* exactly the elements that exist, constructor and destructor calls       *)
(* balance, and the loops implement AtomicBatch; with the choice of an     *)
(* implementation (CustomizationPoints), the allocator destroys what it    *)
(* constructed.                                                            *)
(***************************************************************************)
EXTENDS CustomizationPoints, FiniteSetTheorems, TLAPS

\* How the locals of the loop in progress are related.
CursorsAgree ==
  /\ pc = "construct" => first = 0 /\ current + count = total
  /\ pc = "rollback"  => first <= current /\ current < total
  /\ pc = "destroy"   => count <= total /\ (count # 0 => first = count)

\* Constructor and destructor calls made so far in the loop in progress.
CallsCounted ==
  /\ pc = "construct" => ctors = current /\ dtors = 0
  /\ pc = "rollback"  => ctors = current /\ dtors = first
  /\ pc = "built"     => dtors = 0
  /\ pc = "destroy" /\ count # 0 => dtors + count = total

\* Nothing to construct if construction is skipped.
SkipMeansUntouched == pc = "construct" /\ SkipsConstruction => current = 0

IInv == TypeOK /\ CellsMatchCursor /\ CursorsAgree /\ CallsCounted /\ SkipMeansUntouched

LEMMA InitIInv == Init => IInv
  BY MaxCountAssumption
  DEF Init, IInv, TypeOK, CellsMatchCursor, Occupied, CursorsAgree, CallsCounted,
      SkipMeansUntouched, Cells, CellStates, Phases, Ops

LEMMA NextIInv == IInv /\ [Next]_vars => IInv'
<1> SUFFICES ASSUME IInv, [Next]_vars PROVE IInv'
  OBVIOUS
<1> USE MaxCountAssumption DEF IInv, TypeOK, CursorsAgree, CallsCounted,
      SkipMeansUntouched, SkipsConstruction, Cells
<1>1. ASSUME NEW o \in Ops, NEW e \in {"trivial", "class"}, NEW n \in 0 .. MaxCount,
             Call(o, e, n)
      PROVE  IInv'
  <2>1. TypeOK'
    BY <1>1 DEF Call, Phases, Ops, CellStates
  <2>2. CellsMatchCursor'
    BY <1>1 DEF Call, CellsMatchCursor, Occupied
  <2>3. (CursorsAgree /\ CallsCounted /\ SkipMeansUntouched)'
    BY <1>1 DEF Call
  <2>4. QED
    BY <2>1, <2>2, <2>3
<1>2. CASE ConstructNext
  <2>1. TypeOK'
    BY <1>2 DEF ConstructNext, Phases, Ops, CellStates
  <2>2. CellsMatchCursor'
    BY <1>2 DEF ConstructNext, CellsMatchCursor, Occupied
  <2>3. (CursorsAgree /\ CallsCounted /\ SkipMeansUntouched)'
    BY <1>2 DEF ConstructNext
  <2>4. QED
    BY <2>1, <2>2, <2>3
<1>3. CASE ConstructThrows
  <2>1. TypeOK'
    BY <1>3 DEF ConstructThrows, Phases, Ops, CellStates
  <2>2. CellsMatchCursor'
    BY <1>3 DEF ConstructThrows, CellsMatchCursor, Occupied
  <2>3. (CursorsAgree /\ CallsCounted /\ SkipMeansUntouched)'
    BY <1>3 DEF ConstructThrows
  <2>4. QED
    BY <2>1, <2>2, <2>3
<1>4. CASE RollbackNext
  <2>1. TypeOK'
    BY <1>4 DEF RollbackNext, Phases, Ops, CellStates
  <2>2. CellsMatchCursor'
    BY <1>4 DEF RollbackNext, CellsMatchCursor, Occupied
  <2>3. (CursorsAgree /\ CallsCounted /\ SkipMeansUntouched)'
    BY <1>4 DEF RollbackNext
  <2>4. QED
    BY <2>1, <2>2, <2>3
<1>5. CASE Rethrow
  <2>1. TypeOK'
    BY <1>5 DEF Rethrow, Phases, Ops, CellStates
  <2>2. CellsMatchCursor'
    BY <1>5 DEF Rethrow, CellsMatchCursor, Occupied
  <2>3. (CursorsAgree /\ CallsCounted /\ SkipMeansUntouched)'
    BY <1>5 DEF Rethrow
  <2>4. QED
    BY <2>1, <2>2, <2>3
<1>6. CASE ConstructReturn
  <2>1. TypeOK'
    BY <1>6 DEF ConstructReturn, Phases, Ops, CellStates
  <2>2. CellsMatchCursor'
    BY <1>6 DEF ConstructReturn, CellsMatchCursor, Occupied
  <2>3. (CursorsAgree /\ CallsCounted /\ SkipMeansUntouched)'
    BY <1>6 DEF ConstructReturn
  <2>4. QED
    BY <2>1, <2>2, <2>3
<1>7. CASE SkipConstruction
  <2>1. TypeOK'
    BY <1>7 DEF SkipConstruction, Phases, Ops, CellStates
  <2>2. CellsMatchCursor'
    BY <1>7 DEF SkipConstruction, CellsMatchCursor, Occupied
  <2>3. (CursorsAgree /\ CallsCounted /\ SkipMeansUntouched)'
    BY <1>7 DEF SkipConstruction
  <2>4. QED
    BY <2>1, <2>2, <2>3
<1>8. CASE DestroyCall
  <2>1. TypeOK'
    BY <1>8 DEF DestroyCall, Phases, Ops, CellStates
  <2>2. CellsMatchCursor'
    BY <1>8 DEF DestroyCall, CellsMatchCursor, Occupied
  <2>3. (CursorsAgree /\ CallsCounted /\ SkipMeansUntouched)'
    BY <1>8 DEF DestroyCall
  <2>4. QED
    BY <2>1, <2>2, <2>3
<1>9. CASE SkipDestruction
  <2>1. TypeOK'
    BY <1>9 DEF SkipDestruction, Phases, Ops, CellStates
  <2>2. CellsMatchCursor'
    BY <1>9 DEF SkipDestruction, CellsMatchCursor, Occupied
  <2>3. (CursorsAgree /\ CallsCounted /\ SkipMeansUntouched)'
    BY <1>9 DEF SkipDestruction
  <2>4. QED
    BY <2>1, <2>2, <2>3
<1>10. CASE DestroyNext
  <2>1. TypeOK'
    BY <1>10 DEF DestroyNext, Phases, Ops, CellStates
  <2>2. CellsMatchCursor'
    BY <1>10 DEF DestroyNext, CellsMatchCursor, Occupied
  <2>3. (CursorsAgree /\ CallsCounted /\ SkipMeansUntouched)'
    BY <1>10 DEF DestroyNext
  <2>4. QED
    BY <2>1, <2>2, <2>3
<1>11. CASE DestroyReturn
  <2>1. TypeOK'
    BY <1>11 DEF DestroyReturn, Phases, Ops, CellStates
  <2>2. CellsMatchCursor'
    BY <1>11 DEF DestroyReturn, CellsMatchCursor, Occupied
  <2>3. (CursorsAgree /\ CallsCounted /\ SkipMeansUntouched)'
    BY <1>11 DEF DestroyReturn
  <2>4. QED
    BY <2>1, <2>2, <2>3
<1>12. CASE UNCHANGED vars
  BY <1>12 DEF vars, CellsMatchCursor, Occupied
<1>13. QED
  BY <1>1, <1>2, <1>3, <1>4, <1>5, <1>6, <1>7, <1>8, <1>9, <1>10, <1>11, <1>12
  DEF Next, Step

\* Whatever algorithm runs and wherever an element's constructor throws, the
\* cells that hold an element are the ones the locals of the loop delimit: an
\* exception is passed on only when no element is left.
THEOREM CursorCorrect == Spec => []CellsMatchCursor
<1>1. Init => IInv
  BY InitIInv
<1>2. IInv /\ [Next]_vars => IInv'
  BY NextIInv
<1>3. IInv => CellsMatchCursor
  BY DEF IInv
<1>4. QED
  BY <1>1, <1>2, <1>3, PTL DEF Spec

\* The variables keep their types; a block never sees more constructor or
\* destructor calls than it has room for.
THEOREM TypeCorrect == Spec => []TypeOK
<1>1. IInv => TypeOK
  BY DEF IInv
<1>2. QED
  BY <1>1, InitIInv, NextIInv, PTL DEF Spec

(***************************************************************************)
(* Constructor and destructor calls, counted against the cells.            *)
(***************************************************************************)

\* The skipped elements are the only ones that exist without being constructed.
IndeterminateIfSkipped ==
  \A i \in Cells : cell[i] = "indeterminate"
                    <=> pc = "built" /\ SkipsConstruction /\ i < total

\* What is left of CallsCounted once a loop has ended.
CallsSettled ==
  /\ pc = "built"   => ctors = (IF SkipsConstruction THEN 0 ELSE total)
  /\ pc = "destroy" => \/ elem = "class" /\ ctors = total /\ dtors + count = total
                       \/ elem = "trivial" /\ count = 0 /\ dtors = 0
  /\ pc = "idle"    => \/ elem = "class" /\ ctors = dtors
                       \/ elem = "trivial" /\ dtors = 0
  /\ pc = "thrown"  => ctors = dtors

BalanceInv == IndeterminateIfSkipped /\ CallsSettled

LEMMA InitBalance == Init => BalanceInv
  BY DEF Init, BalanceInv, IndeterminateIfSkipped, CallsSettled, Cells

LEMMA NextBalance == IInv /\ BalanceInv /\ [Next]_vars => BalanceInv'
<1> SUFFICES ASSUME IInv, BalanceInv, [Next]_vars PROVE BalanceInv'
  OBVIOUS
<1> USE DEF BalanceInv, CallsSettled, IndeterminateIfSkipped, SkipsConstruction, Cells,
      IInv, TypeOK, CellsMatchCursor, Occupied, CursorsAgree, CallsCounted,
      SkipMeansUntouched, CellStates
<1>1. ASSUME NEW o \in Ops, NEW e \in {"trivial", "class"}, NEW n \in 0 .. MaxCount,
             Call(o, e, n)
      PROVE  BalanceInv'
  BY <1>1 DEF Call
<1>2. CASE ConstructNext
  BY <1>2, MaxCountAssumption DEF ConstructNext
<1>3. CASE ConstructThrows
  BY <1>3, MaxCountAssumption DEF ConstructThrows
<1>4. CASE RollbackNext
  BY <1>4, MaxCountAssumption DEF RollbackNext
<1>5. CASE Rethrow
  BY <1>5, MaxCountAssumption DEF Rethrow
<1>6. CASE ConstructReturn
  BY <1>6, MaxCountAssumption DEF ConstructReturn
<1>7. CASE SkipConstruction
  BY <1>7, MaxCountAssumption DEF SkipConstruction
<1>8. CASE DestroyCall
  BY <1>8, MaxCountAssumption DEF DestroyCall
<1>9. CASE SkipDestruction
  BY <1>9, MaxCountAssumption DEF SkipDestruction
<1>10. CASE DestroyNext
  BY <1>10, MaxCountAssumption DEF DestroyNext
<1>11. CASE DestroyReturn
  BY <1>11, MaxCountAssumption DEF DestroyReturn
<1>12. CASE UNCHANGED vars
  BY <1>12 DEF vars
<1>13. QED
  BY <1>1, <1>2, <1>3, <1>4, <1>5, <1>6, <1>7, <1>8, <1>9, <1>10, <1>11, <1>12
  DEF Next, Step

\* The live cells are an interval, and its length is what the calls differ by.
LEMMA BalanceInterval == IInv /\ BalanceInv => LifetimesBalance
<1> SUFFICES ASSUME IInv, BalanceInv PROVE LifetimesBalance
  OBVIOUS
<1> DEFINE Live == {i \in Cells : cell[i] = "live"}
<1> USE DEF BalanceInv, CallsSettled, IndeterminateIfSkipped, SkipsConstruction, Cells,
      IInv, TypeOK, CellsMatchCursor, Occupied, CursorsAgree, CallsCounted,
      SkipMeansUntouched, CellStates, Phases
<1>1. ASSUME NEW lo \in Nat, NEW hi \in Nat, lo <= hi, Live = lo .. hi - 1
      PROVE  Cardinality(Live) = hi - lo
  <2>1. Cardinality(lo .. hi - 1) = hi - lo
    <3> DEFINE b == hi - 1
    <3>1. b \in Int /\ (lo > b => hi = lo)
      BY <1>1
    <3>2. Cardinality(lo .. b) = IF lo > b THEN 0 ELSE b - lo + 1
      BY ONLY <3>1, lo \in Int, FS_Interval
    <3>3. QED
      BY <1>1, <3>1, <3>2, SMTT(30)
  <2>2. QED
    BY ONLY <1>1, <2>1
<1>2. PICK n : n = Cardinality(Live)
  OBVIOUS
<1>3. LifetimesBalance
        <=> ctors - dtors = n + (IF elem = "trivial" /\ pc \in {"idle", "destroy"} THEN ctors ELSE 0)
  BY ONLY <1>2 DEF LifetimesBalance
<1>4. CASE pc = "construct"
  <2>1. Live = 0 .. current - 1
    BY <1>4, MaxCountAssumption
  <2>2. n = current
    BY <1>1, <1>2, <2>1
  <2>3. QED
    BY <1>3, <1>4, <2>2
<1>5. CASE pc = "rollback"
  <2>1. Live = first .. current - 1
    BY <1>5, MaxCountAssumption
  <2>2. n = current - first
    BY <1>1, <1>2, <1>5, <2>1
  <2>3. QED
    BY <1>3, <1>5, <2>2
<1>6. CASE pc = "built"
  <2>1. CASE SkipsConstruction
    <3>1. Live = 0 .. 0 - 1
      BY <1>6, <2>1, MaxCountAssumption
    <3>2. n = 0
      BY <1>1, <1>2, <3>1, SMTT(30)
    <3>3. QED
      BY <1>3, <1>6, <2>1, <3>2
  <2>2. CASE ~SkipsConstruction
    <3>1. Live = 0 .. total - 1
      BY <1>6, <2>2, MaxCountAssumption
    <3>2. n = total
      BY <1>1, <1>2, <3>1
    <3>3. QED
      BY <1>3, <1>6, <2>2, <3>2
  <2>3. QED
    BY <2>1, <2>2
<1>7. CASE pc = "destroy"
  <2>1. Live = 0 .. count - 1
    BY <1>7, MaxCountAssumption
  <2>2. n = count
    BY <1>1, <1>2, <2>1
  <2>3. QED
    BY <1>3, <1>7, <2>2
<1>8. CASE pc \in {"idle", "thrown"}
  <2>1. Live = 0 .. 0 - 1
    BY <1>8, MaxCountAssumption
  <2>2. n = 0
    BY <1>1, <1>2, <2>1
  <2>3. QED
    BY <1>3, <1>8, <2>2
<1>9. QED
  BY <1>4, <1>5, <1>6, <1>7, <1>8

\* Every constructor call is answered by one destructor call on the same cell,
\* whatever number of elements the block has, wherever a constructor throws and
\* however often the block is used again.
THEOREM BalanceCorrect == Spec => []LifetimesBalance
  BY InitIInv, NextIInv, InitBalance, NextBalance, BalanceInterval, PTL DEF Spec

LEMMA InitRefines == Init => Batch!Init
  BY DEF Init, Batch!Init, OwnerStatus, OwnerView

LEMMA StepRefines == IInv /\ IInv' /\ [Next]_vars => [Batch!Next]_Batch!vars
<1> SUFFICES ASSUME IInv, IInv', [Next]_vars PROVE [Batch!Next]_Batch!vars
  OBVIOUS
<1> USE MaxCountAssumption DEF OwnerStatus, OwnerView, Batch!Next, Batch!vars
<1>1. ASSUME NEW o \in Ops, NEW e \in {"trivial", "class"}, NEW n \in 0 .. MaxCount,
             Call(o, e, n)
      PROVE  Batch!Call
  BY <1>1 DEF Call, Batch!Call
<1>2. CASE ConstructNext
  BY <1>2 DEF ConstructNext
<1>3. CASE ConstructThrows
  BY <1>3 DEF ConstructThrows
<1>4. CASE RollbackNext
  BY <1>4 DEF RollbackNext
<1>5. CASE Rethrow
  BY <1>5 DEF Rethrow, Batch!Throw
<1>6. CASE ConstructReturn
  <2>1. {i \in Cells : cell'[i] # "raw"} = 0 .. total - 1
    BY <1>6 DEF ConstructReturn, IInv, TypeOK, CellsMatchCursor, Occupied, Cells
  <2>2. Batch!Return
    BY <1>6, <2>1 DEF ConstructReturn, Batch!Return
  <2>3. QED
    BY <2>2
<1>7. CASE SkipConstruction
  <2>1. {i \in Cells : cell'[i] # "raw"} = 0 .. total - 1
    BY <1>7 DEF SkipConstruction, IInv, TypeOK, CellsMatchCursor, Occupied, Cells
  <2>2. Batch!Return
    BY <1>7, <2>1 DEF SkipConstruction, Batch!Return
  <2>3. QED
    BY <2>2
<1>8. CASE DestroyCall
  BY <1>8 DEF DestroyCall, Batch!Destroy
<1>9. CASE SkipDestruction
  BY <1>9 DEF SkipDestruction, Batch!Destroy
<1>10. CASE DestroyNext
  BY <1>10 DEF DestroyNext
<1>11. CASE DestroyReturn
  BY <1>11 DEF DestroyReturn, Batch!Destroyed
<1>12. CASE UNCHANGED vars
  BY <1>12 DEF vars
<1>13. QED
  BY <1>1, <1>2, <1>3, <1>4, <1>5, <1>6, <1>7, <1>8, <1>9, <1>10, <1>11, <1>12
  DEF Next, Step

\* The loops, with an exception possible at every iteration, behave to the
\* array that calls them as one atomic step that builds all its elements or
\* none.
THEOREM AllOrNothing == Spec => ImplementsAtomicBatch
<1>1. Init => Batch!Init
  BY InitRefines
<1>2. IInv /\ IInv' /\ [Next]_vars => [Batch!Next]_Batch!vars
  BY StepRefines
<1>3. QED
  BY <1>1, <1>2, InitIInv, NextIInv, PTL DEF Spec, Batch!Spec, ImplementsAtomicBatch

(***************************************************************************)
(* The choice of an implementation.                                        *)
(***************************************************************************)

\* What tag dispatch does: the candidate it takes compiles, and none after it.
LEMMA LastThatCompiles ==
  ASSUME NEW n \in 1 .. 5, NEW point, DOMAIN point = 1 .. n,
         NEW given, Compiles(point[1], given)
  PROVE  \E k \in 1 .. n : /\ Chosen(point, given) = point[k]
                           /\ \A j \in 1 .. n : j > k => ~Compiles(point[j], given)
<1> DEFINE C == {k \in 1 .. n : Compiles(point[k], given)}
<1>1. 1 \in C
  OBVIOUS
<1>2. \E k \in C : \A j \in C : k >= j
  <2>1. CASE 5 \in C
    BY <2>1
  <2>2. CASE 5 \notin C /\ 4 \in C
    BY <2>2
  <2>3. CASE 5 \notin C /\ 4 \notin C /\ 3 \in C
    BY <2>3
  <2>4. CASE 5 \notin C /\ 4 \notin C /\ 3 \notin C /\ 2 \in C
    BY <2>4
  <2>5. CASE 5 \notin C /\ 4 \notin C /\ 3 \notin C /\ 2 \notin C
    BY <1>1, <2>5
  <2>6. QED
    BY <2>1, <2>2, <2>3, <2>4, <2>5
<1>3. Max(C) \in C /\ \A j \in C : Max(C) >= j
  BY <1>2 DEF Max
<1>4. Chosen(point, given) = point[Max(C)]
  BY DEF Chosen
<1>5. PICK k : k = Max(C)
  OBVIOUS
<1>6. k \in C /\ \A j \in C : k >= j
  BY <1>3, <1>5
<1>7. Chosen(point, given) = point[k]
  BY <1>4, <1>5
<1>8. QED
  BY <1>6, <1>7

\* Destruction asks the allocator whatever the program provides.
LEMMA DestroyKnowsTheAllocator ==
  ASSUME NEW given \in SUBSET Own, NEW givenPlain
  PROVE  Implementation("destroy", given, givenPlain)[1] = "allocator"
<1>1. Chosen(adl_alloc_destroy_n, given) # "plain"
  <2>1. Compiles(adl_alloc_destroy_n[1], given)
    BY DEF Compiles, Own, adl_alloc_destroy_n
  <2>2. DOMAIN adl_alloc_destroy_n = 1 .. 5
    BY DEF adl_alloc_destroy_n
  <2>3. PICK k \in 1 .. 5 :
           /\ Chosen(adl_alloc_destroy_n, given) = adl_alloc_destroy_n[k]
           /\ \A j \in 1 .. 5 : j > k => ~Compiles(adl_alloc_destroy_n[j], given)
    BY <2>1, <2>2, LastThatCompiles
  <2>4. k # 1
    BY <2>3 DEF Compiles, Own, adl_alloc_destroy_n
  <2>5. QED
    BY <2>3, <2>4 DEF adl_alloc_destroy_n
<1>2. AllocPoint("destroy") = adl_alloc_destroy_n
  BY DEF AllocPoint
<1>3. QED
  BY <1>1, <1>2 DEF Implementation

\* When the running algorithm may lose the allocator: LosesAllocator, of the
\* arguments of the call.
MayLose(o, given) == \/ o \in {"value_construct", "copy"} /\ given = {}
                     \/ o = "fill" /\ given \subseteq {"static"}

\* The allocator is lost only there: each algorithm's candidates, looked at from
\* the one that passes the arguments on.
LEMMA ConstructKnowsTheAllocator ==
  ASSUME NEW o \in Ops, NEW given \in SUBSET Own, NEW givenPlain, ~MayLose(o, given)
  PROVE  Implementation(o, given, givenPlain)[1] = "allocator"
<1> SUFFICES Chosen(AllocPoint(o), given) # "plain"
  BY DEF Implementation
<1> USE DEF Compiles, Own, MayLose
<1>1. CASE o = "value_construct"
  <2>1. AllocPoint(o) = adl_alloc_uninitialized_value_construct_n
    BY <1>1 DEF AllocPoint
  <2>2. PICK k \in 1 .. 4 :
           /\ Chosen(AllocPoint(o), given) = AllocPoint(o)[k]
           /\ \A j \in 1 .. 4 : j > k => ~Compiles(AllocPoint(o)[j], given)
    BY <2>1, LastThatCompiles DEF adl_alloc_uninitialized_value_construct_n
  <2>3. QED
    BY <1>1, <2>1, <2>2 DEF adl_alloc_uninitialized_value_construct_n
<1>2. CASE o = "default_construct"
  <2>1. AllocPoint(o) = adl_alloc_uninitialized_default_construct_n
    BY <1>2 DEF AllocPoint
  <2>2. PICK k \in 1 .. 5 :
           /\ Chosen(AllocPoint(o), given) = AllocPoint(o)[k]
           /\ \A j \in 1 .. 5 : j > k => ~Compiles(AllocPoint(o)[j], given)
    BY <2>1, LastThatCompiles DEF adl_alloc_uninitialized_default_construct_n
  <2>3. QED
    BY <1>2, <2>1, <2>2 DEF adl_alloc_uninitialized_default_construct_n
<1>3. CASE o = "copy"
  <2>1. AllocPoint(o) = adl_alloc_uninitialized_copy_n
    BY <1>3 DEF AllocPoint
  <2>2. PICK k \in 1 .. 4 :
           /\ Chosen(AllocPoint(o), given) = AllocPoint(o)[k]
           /\ \A j \in 1 .. 4 : j > k => ~Compiles(AllocPoint(o)[j], given)
    BY <2>1, LastThatCompiles DEF adl_alloc_uninitialized_copy_n
  <2>3. QED
    BY <1>3, <2>1, <2>2 DEF adl_alloc_uninitialized_copy_n
<1>4. CASE o = "copy_range"
  <2>1. AllocPoint(o) = adl_alloc_uninitialized_copy
    BY <1>4 DEF AllocPoint
  <2>2. PICK k \in 1 .. 5 :
           /\ Chosen(AllocPoint(o), given) = AllocPoint(o)[k]
           /\ \A j \in 1 .. 5 : j > k => ~Compiles(AllocPoint(o)[j], given)
    BY <2>1, LastThatCompiles DEF adl_alloc_uninitialized_copy
  <2>3. QED
    BY <1>4, <2>1, <2>2 DEF adl_alloc_uninitialized_copy
<1>5. CASE o = "move"
  <2>1. AllocPoint(o) = adl_alloc_uninitialized_move_n
    BY <1>5 DEF AllocPoint
  <2>2. PICK k \in 1 .. 3 :
           /\ Chosen(AllocPoint(o), given) = AllocPoint(o)[k]
           /\ \A j \in 1 .. 3 : j > k => ~Compiles(AllocPoint(o)[j], given)
    BY <2>1, LastThatCompiles DEF adl_alloc_uninitialized_move_n
  <2>3. QED
    BY <1>5, <2>1, <2>2 DEF adl_alloc_uninitialized_move_n
<1>6. CASE o = "fill"
  <2>1. AllocPoint(o) = adl_alloc_uninitialized_fill_n
    BY <1>6 DEF AllocPoint
  <2>2. PICK k \in 1 .. 4 :
           /\ Chosen(AllocPoint(o), given) = AllocPoint(o)[k]
           /\ \A j \in 1 .. 4 : j > k => ~Compiles(AllocPoint(o)[j], given)
    BY <2>1, LastThatCompiles DEF adl_alloc_uninitialized_fill_n
  <2>3. QED
    BY <1>6, <2>1, <2>2 DEF adl_alloc_uninitialized_fill_n
<1>7. QED
  BY <1>1, <1>2, <1>3, <1>4, <1>5, <1>6 DEF Ops

\* The implementation in progress is the one chosen for op.
ImplementationFits ==
  /\ provided \in SUBSET Own
  /\ pc # "idle" /\ ~LosesAllocator => by[1] = "allocator"

\* The allocator's calls are the constructor and destructor calls.
AllocatorCounts == ~LosesAllocator => made = ctors /\ ended = dtors

DispatchInv == ImplementationFits /\ AllocatorCounts

LEMMA InitDispatch == DispatchInit => Init /\ DispatchInv
  BY DEF DispatchInit, Init, DispatchInv, ImplementationFits, AllocatorCounts

\* The choice of an implementation changes nothing of what the loops do.
LEMMA DispatchedIsLoop == [DispatchNext]_<<vars, dispatch>> => [Next]_vars
  BY DEF DispatchNext, DispatchedCall, DispatchedStep, Next

LEMMA NextDispatch ==
  IInv /\ IInv' /\ DispatchInv /\ [DispatchNext]_<<vars, dispatch>> => DispatchInv'
<1> SUFFICES ASSUME IInv, IInv', DispatchInv, [DispatchNext]_<<vars, dispatch>>
             PROVE  DispatchInv'
  OBVIOUS
<1> USE DEF DispatchInv, ImplementationFits, AllocatorCounts, LosesAllocator
<1>1. ASSUME NEW o \in Ops, NEW e \in {"trivial", "class"}, NEW n \in 0 .. MaxCount,
             NEW given \in SUBSET Own, NEW givenPlain \in SUBSET Own,
             DispatchedCall(o, e, n, given, givenPlain)
      PROVE  DispatchInv'
  <2>1. provided' = given /\ op' = o /\ by' = Implementation(o, given, givenPlain)
    BY <1>1 DEF DispatchedCall, Call
  <2>2. LosesAllocator' <=> MayLose(o, given)
    BY <2>1 DEF MayLose
  <2>3. ImplementationFits'
    BY <2>1, <2>2, ConstructKnowsTheAllocator
  <2>4. AllocatorCounts'
    BY <1>1 DEF DispatchedCall, Call
  <2>5. QED
    BY <2>3, <2>4
<1>2. CASE DispatchedStep
  <2>1. UNCHANGED <<provided, by>>
    BY <1>2 DEF DispatchedStep
  <2>2. op' = op /\ pc # "idle"
    BY <1>2 DEF DispatchedStep, Step, DestroyCall, ConstructNext, ConstructThrows,
         RollbackNext, Rethrow, ConstructReturn, SkipConstruction, SkipDestruction,
         DestroyNext, DestroyReturn
  <2>3. ImplementationFits'
    BY <2>1, <2>2
  <2>4. ASSUME ~LosesAllocator' PROVE made' = ctors' /\ ended' = dtors'
    <3>1. ~LosesAllocator
      BY <2>1, <2>2, <2>4
    <3>2. by[1] = "allocator"
      BY <2>2, <3>1
    <3>3. Destroyer[1] = "allocator"
      BY <3>2, DestroyKnowsTheAllocator DEF Destroyer
    <3>4. made' = made + (ctors' - ctors) /\ ended' = ended + (dtors' - dtors)
      BY <1>2, <3>2, <3>3 DEF DispatchedStep, CountedBy
    <3>5. {ctors, ctors', dtors, dtors'} \subseteq Int
      BY DEF IInv, TypeOK
    <3>6. QED
      BY <3>1, <3>4, <3>5
  <2>5. QED
    BY <2>3, <2>4
<1>3. CASE UNCHANGED <<vars, dispatch>>
  BY <1>3 DEF vars, dispatch
<1>4. QED
  BY <1>1, <1>2, <1>3 DEF DispatchNext

LEMMA DispatchBalance ==
  IInv /\ DispatchInv /\ LifetimesBalance => AllocatorEndsWhatItMade
<1> SUFFICES ASSUME IInv, DispatchInv, LifetimesBalance, ~LosesAllocator, elem = "class"
             PROVE  made - ended = Cardinality({i \in Cells : cell[i] = "live"})
  BY DEF AllocatorEndsWhatItMade
<1>1. PICK n : n = Cardinality({i \in Cells : cell[i] = "live"})
  OBVIOUS
<1>2. ctors - dtors = n + 0
  BY ONLY LifetimesBalance, elem = "class", <1>1 DEF LifetimesBalance
<1>3. ctors - dtors = n
  <2>1. Cells = 0 .. MaxCount - 1 /\ MaxCount - 1 \in Int
    BY MaxCountAssumption DEF Cells
  <2>2. IsFiniteSet({i \in Cells : cell[i] = "live"})
    <3>1. IsFiniteSet(Cells)
      BY <2>1, FS_Interval
    <3>2. {i \in Cells : cell[i] = "live"} \in SUBSET Cells
      OBVIOUS
    <3>3. QED
      BY ONLY <3>1, <3>2, FS_Subset
  <2>3. n \in Nat
    BY ONLY <1>1, <2>2, FS_CardinalityType
  <2>4. QED
    BY <1>2, <2>3
<1>4. made = ctors /\ ended = dtors
  BY DEF DispatchInv, AllocatorCounts
<1>5. QED
  BY ONLY <1>1, <1>3, <1>4

\* Unless the algorithm loses the allocator, the allocator has destroyed what it
\* constructed and no more, for every set of customizations a program provides
\* and wherever a constructor throws.
THEOREM AllocatorBalance == DispatchSpec => []AllocatorEndsWhatItMade
<1>1. DispatchInit => IInv /\ BalanceInv /\ DispatchInv
  BY InitDispatch, InitIInv, InitBalance
<1>2. IInv /\ BalanceInv /\ DispatchInv /\ [DispatchNext]_<<vars, dispatch>>
        => (IInv /\ BalanceInv /\ DispatchInv)'
  BY DispatchedIsLoop, NextIInv, NextBalance, NextDispatch
<1>3. IInv /\ BalanceInv /\ DispatchInv => AllocatorEndsWhatItMade
  BY BalanceInterval, DispatchBalance
<1>4. QED
  BY <1>1, <1>2, <1>3, PTL DEF DispatchSpec
=============================================================================
