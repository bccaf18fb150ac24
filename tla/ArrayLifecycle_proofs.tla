------------------------ MODULE ArrayLifecycle_proofs ------------------------
(***************************************************************************)
(* For any number of arrays, blocks, allocators and extensions: without    *)
(* the exceptions that the lifecycle does not survive, and without the     *)
(* mixtures of allocators it does not support, arrays own their memory,    *)
(* and what they do with it shows only as the values of ArrayValues.       *)
(***************************************************************************)
EXTENDS ArrayLifecycle, FiniteSetTheorems, TLAPS

\* The program does not mix unequal allocators that do not propagate, and if copy
\* assignment propagates them they are all equal.
Compatible ==
  /\ Mixes = {}
  /\ POCCA => \A al, be \in Allocators : al = be

\* The exceptions that leave every array with its memory: out of the assignment
\* of an element, and out of the allocation while loading.
SafeThrows == {<<"assign", "element">>, <<"load", "allocate">>}

\* Those that cost a block which no array has, and nothing else.
LeakyThrows == {<<"construct", "element">>, <<"reextent", "element">>}

Disciplined == Compatible /\ Throws \subseteq SafeThrows

\* A program that may leak.
Careful == Compatible /\ Throws \subseteq SafeThrows \cup LeakyThrows

\* The extensions an array may have.
Shapes == (Nat \X Nat) \cup {Point}

IsMemory(c) ==
  /\ c = [by |-> c.by, size |-> c.size, state |-> c.state, elems |-> c.elems]
  /\ c.by \in Allocators
  /\ c.size \in Nat

\* Memory c came from allocator al, for n elements, which are in state st.
Holds(c, al, n, st) == c.by = al /\ c.size = n /\ c.state = st

Types ==
  /\ alive \subseteq Arrays
  /\ base \in [Arrays -> Blocks \cup {Null}]
  /\ ext \in [Arrays -> Shapes]
  /\ alloc \in [Arrays -> Allocators]
  /\ live \subseteq Blocks
  /\ heap = [b \in Blocks |-> heap[b]]
  /\ \A b \in Blocks : IsMemory(heap[b])

\* An array that does not exist owns nothing, so that owning is a matter of the
\* layout alone.
DeadOwnNothing == \A a \in Arrays : a \notin alive => ext[a] = NoExtents

HasElements(a) == NumElements(ext[a]) > 0

\* What `a` needs to release its memory without a fault.
OwnsProperly(a) ==
  HasElements(a) => /\ base[a] \in live
                    /\ heap[base[a]].state = "built"
                    /\ heap[base[a]].size = NumElements(ext[a])
                    /\ heap[base[a]].by = alloc[a]

Exclusive ==
  \A a, b \in Arrays : HasElements(a) /\ HasElements(b) /\ base[a] = base[b] => a = b

Accounted == \A b \in live : \E a \in Arrays : HasElements(a) /\ base[a] = b

IInv ==
  /\ Types
  /\ DeadOwnNothing
  /\ \A a \in Arrays : OwnsProperly(a)
  /\ Exclusive
  /\ ub = {}

\* Nothing is damaged.
Undamaged == IInv /\ Accounted

\* What every step does that does not throw, or throws without harm.
Preserved == IInv' /\ (Accounted => Accounted')

LEMMA NumElementsNat == \A x \in Shapes : NumElements(x) \in Nat
  BY ExtentsAssumption DEF NumElements, Shapes

LEMMA PointHasOne == Point \in Shapes /\ NumElements(Point) = 1
  BY DEF NumElements, Shapes

LEMMA NoExtentsEmpty == NoExtents \in Shapes /\ NumElements(NoExtents) = 0
<1>1. NoExtents \in Nat \X Nat
  BY DEF NoExtents
<1>2. NoExtents # Point
  BY <1>1, ExtentsAssumption
<1>3. QED
  BY <1>1, <1>2 DEF NumElements, NoExtents, Shapes

LEMMA ExtentsType == \A x \in Extents : x \in Shapes
  BY ExtentsAssumption DEF Shapes

LEMMA ViewExtentsType ==
  ASSUME Types, NEW b \in Arrays, ext[b] # Point, NEW view \in Views
  PROVE  ViewExtents(b, view) \in Shapes
<1>1. ext[b] \in Nat \X Nat
  BY DEF Types, Shapes
<1>2. ViewExtents(b, view) \in Nat \X Nat
  BY <1>1 DEF ViewExtents
<1>3. QED
  BY <1>2 DEF Shapes

\* The memory that a value is copied to is well formed whatever the value.
LEMMA MemoryIsMemory ==
  ASSUME NEW al \in Allocators, NEW x \in Shapes, NEW f
  PROVE  /\ IsMemory(Memory(al, x, f)) /\ IsMemory(RawMemory(al, x))
         /\ Memory(al, x, f).by = al
         /\ Memory(al, x, f).size = NumElements(x)
         /\ Memory(al, x, f).state = "built"
  BY NumElementsNat DEF IsMemory, Memory, RawMemory

LEMMA UnusedIsMemory == IsMemory(Unused)
  BY AllocatorAssumption, MemoryIsMemory, NoExtentsEmpty DEF Unused

LEMMA InitUndamaged == Init => Undamaged
<1> SUFFICES ASSUME Init PROVE Undamaged
  OBVIOUS
<1>1. Types
  BY UnusedIsMemory, NoExtentsEmpty, AllocatorAssumption DEF Init, Types
<1>2. QED
  BY <1>1, NoExtentsEmpty
  DEF Init, Undamaged, IInv, DeadOwnNothing, OwnsProperly, HasElements, Exclusive, Accounted

\* Releasing the memory of an array that owns it properly is not a fault.
LEMMA ReleaseIsSafe ==
  ASSUME IInv, NEW a \in Arrays
  PROVE  ReleaseFaults(a) = {}
<1>1. NumElements(ext[a]) \in Nat
  BY NumElementsNat DEF IInv, Types
<1>2. CASE NumElements(ext[a]) = 0
  BY <1>2 DEF ReleaseFaults, Released
<1>3. CASE NumElements(ext[a]) # 0
  <2>1. OwnsProperly(a) /\ HasElements(a)
    BY <1>1, <1>3 DEF IInv, HasElements
  <2>2. QED
    BY <2>1, <1>3 DEF ReleaseFaults, Released, OwnsProperly, Faults
<1>4. QED
  BY <1>2, <1>3

\* The memory after a block is exchanged for another, block by block.
LEMMA HeapAfter ==
  ASSUME Types, NEW freed, NEW p, NEW c, Exchange(freed, p, c),
         p \in Blocks => IsMemory(c)
  PROVE  /\ heap' = [b \in Blocks |-> heap'[b]]
         /\ \A b \in Blocks : IsMemory(heap'[b])
         /\ p \in Blocks => heap'[p] = c
         /\ \A b \in Blocks \ freed : b # p => heap'[b] = heap[b]
<1>1. heap' = [b \in Blocks |-> IF b = p THEN c ELSE IF b \in freed THEN Unused ELSE heap[b]]
  BY DEF Exchange, Heap
<1>2. QED
  BY <1>1, UnusedIsMemory DEF Types

\* Array a gives up its block for block p, which gets elements for extensions x
\* (none if x is empty, and then base_ may have any value q).  Construction,
\* destruction, clear, every assignment that allocates and every reextent are of
\* this form.
LEMMA ReplaceBlock ==
  ASSUME IInv, NEW a \in Arrays, NEW x \in Shapes, NEW al \in Allocators,
         NEW p \in Allocate(NumElements(x), live \ Released(a)),
         NEW q \in Blocks \cup {Null}, NumElements(x) > 0 => q = p,
         SetArray(a, q, x, al),
         live' = (live \ Released(a)) \cup ({p} \ {Null}),
         heap' = [b \in Blocks |-> heap'[b]],
         \A b \in Blocks : IsMemory(heap'[b]),
         p \in Blocks => Holds(heap'[p], al, NumElements(x), "built"),
         \A b \in Blocks \ Released(a) :
           b # p => Holds(heap'[b], heap[b].by, heap[b].size, heap[b].state),
         alive' \subseteq Arrays, alive' \ {a} = alive \ {a},
         a \notin alive' => x = NoExtents,
         ub' = ub
  PROVE  Preserved
<1> DEFINE Own(k) == NumElements(ext'[k]) > 0
<1>1. /\ base' = [base EXCEPT ![a] = q]
      /\ ext' = [ext EXCEPT ![a] = x]
      /\ alloc' = [alloc EXCEPT ![a] = al]
  BY DEF SetArray
<1>2. live' = (live \ Released(a)) \cup ({p} \ {Null})
  OBVIOUS
<1>3. Types
  BY DEF IInv
<1>4. NumElements(x) \in Nat /\ NumElements(ext[a]) \in Nat
  BY <1>3, NumElementsNat DEF Types
<1>5. p \in Blocks \cup {Null} /\ (NumElements(x) > 0 => p \in Blocks /\ p \notin live \ Released(a))
      /\ (NumElements(x) = 0 => p = Null)
  BY <1>4, MemoryAssumption DEF Allocate
<1>6. /\ heap' = [b \in Blocks |-> heap'[b]]
      /\ \A b \in Blocks : IsMemory(heap'[b])
      /\ p \in Blocks => Holds(heap'[p], al, NumElements(x), "built")
      /\ \A b \in Blocks \ Released(a) :
           b # p => Holds(heap'[b], heap[b].by, heap[b].size, heap[b].state)
  OBVIOUS
<1>7. Types'
  BY <1>1, <1>2, <1>3, <1>5, <1>6 DEF Types
<1>8. DeadOwnNothing'
  BY <1>1, <1>3 DEF IInv, DeadOwnNothing, Types
<1>9. \A k \in Arrays \ {a} : ext'[k] = ext[k] /\ base'[k] = base[k] /\ alloc'[k] = alloc[k]
  BY <1>1, <1>3 DEF Types
<1>10. ext'[a] = x /\ base'[a] = q /\ alloc'[a] = al
  BY <1>1, <1>3 DEF Types
<1>11. ASSUME NEW k \in Arrays \ {a}, HasElements(k)
       PROVE  /\ base[k] \in live \ Released(a)
              /\ base[k] # p
              /\ Holds(heap'[base[k]], heap[base[k]].by, heap[base[k]].size,
                       heap[base[k]].state)
  <2>1. base[k] \in live
    BY <1>11 DEF IInv, OwnsProperly
  <2>2. base[k] \notin Released(a)
    BY <1>3, <1>4, <1>11 DEF IInv, Exclusive, HasElements, Released, Types
  <2>3. base[k] # p
    BY <2>1, <2>2, <1>3, <1>4, <1>5, MemoryAssumption DEF Types
  <2>4. QED
    BY <2>1, <2>2, <2>3, <1>3, <1>6 DEF Types
<1>12. ASSUME NEW k \in Arrays PROVE OwnsProperly(k)'
  <2>1. CASE k = a
    BY <2>1, <1>2, <1>4, <1>5, <1>6, <1>10, MemoryAssumption DEF OwnsProperly, HasElements, Holds
  <2>2. CASE k # a
    BY <2>2, <1>2, <1>9, <1>11 DEF IInv, OwnsProperly, HasElements, Holds
  <2>3. QED
    BY <2>1, <2>2
<1>13. Exclusive'
  <2> SUFFICES ASSUME NEW k \in Arrays, NEW m \in Arrays,
                      HasElements(k)', HasElements(m)', base'[k] = base'[m]
               PROVE  k = m
    BY DEF Exclusive
  <2>1. CASE k = a /\ m # a
    BY <2>1, <1>9, <1>10, <1>11 DEF HasElements
  <2>2. CASE k # a /\ m = a
    BY <2>2, <1>9, <1>10, <1>11 DEF HasElements
  <2>3. CASE k # a /\ m # a
    BY <2>3, <1>9 DEF IInv, Exclusive, HasElements
  <2>4. QED
    BY <2>1, <2>2, <2>3
<1>14. ASSUME Accounted PROVE Accounted'
  <2> SUFFICES ASSUME NEW b \in live' PROVE \E k \in Arrays : HasElements(k)' /\ base'[k] = b
    BY DEF Accounted
  <2>1. CASE b = p /\ p # Null
    BY <2>1, <1>4, <1>5, <1>10 DEF HasElements
  <2>2. CASE b \in live \ Released(a)
    <3>1. PICK k \in Arrays : HasElements(k) /\ base[k] = b
      BY <1>14, <2>2 DEF Accounted
    <3>2. k # a
      BY <2>2, <3>1, <1>4 DEF HasElements, Released
    <3>3. QED
      BY <3>1, <3>2, <1>9 DEF HasElements
  <2>3. QED
    BY <2>1, <2>2, <1>2
<1>15. QED
  BY <1>7, <1>8, <1>12, <1>13, <1>14 DEF IInv, Preserved

\* ... where the other blocks are as they were.
LEMMA Replace ==
  ASSUME IInv, NEW a \in Arrays, NEW x \in Shapes, NEW al \in Allocators,
         NEW p \in Allocate(NumElements(x), live \ Released(a)),
         NEW q \in Blocks \cup {Null}, NumElements(x) > 0 => q = p,
         NEW c, p \in Blocks => /\ IsMemory(c) /\ c.by = al
                               /\ c.size = NumElements(x) /\ c.state = "built",
         SetArray(a, q, x, al), Exchange(Released(a), p, c),
         alive' \subseteq Arrays, alive' \ {a} = alive \ {a},
         a \notin alive' => x = NoExtents,
         ub' = ub
  PROVE  Preserved
<1>1. Types
  BY DEF IInv
<1>2. /\ heap' = [b \in Blocks |-> heap'[b]]
      /\ \A b \in Blocks : IsMemory(heap'[b])
      /\ p \in Blocks => heap'[p] = c
      /\ \A b \in Blocks \ Released(a) : b # p => heap'[b] = heap[b]
  BY <1>1, HeapAfter
<1>3. live' = (live \ Released(a)) \cup ({p} \ {Null})
  BY DEF Exchange
<1>4. /\ p \in Blocks => Holds(heap'[p], al, NumElements(x), "built")
      /\ \A b \in Blocks \ Released(a) :
           b # p => Holds(heap'[b], heap[b].by, heap[b].size, heap[b].state)
  BY <1>2 DEF Holds
<1>5. QED
  BY <1>2, <1>3, <1>4, ReplaceBlock

\* Elements assigned in place: only their values change.
LEMMA Overwrites ==
  ASSUME Types, NEW a \in Arrays, NEW f, heap' = Overwritten(a, f)
  PROVE  /\ heap' = [b \in Blocks |-> heap'[b]]
         /\ \A b \in Blocks : /\ IsMemory(heap'[b])
                              /\ heap'[b].by = heap[b].by
                              /\ heap'[b].size = heap[b].size
                              /\ heap'[b].state = heap[b].state
<1>1. CASE NumElements(ext[a]) = 0
  BY <1>1 DEF Overwritten, Types
<1>2. CASE NumElements(ext[a]) # 0
  <2>1. heap' = [b \in Blocks |-> IF b = base[a] THEN [heap[b] EXCEPT !.elems = f] ELSE heap[b]]
    BY <1>2 DEF Overwritten, Types
  <2>2. heap' = [b \in Blocks |-> heap'[b]]
    BY <2>1
  <2>3. ASSUME NEW b \in Blocks
        PROVE  /\ IsMemory(heap'[b])
               /\ heap'[b].by = heap[b].by
               /\ heap'[b].size = heap[b].size
               /\ heap'[b].state = heap[b].state
    <3>1. IsMemory(heap[b])
      BY DEF Types
    <3>2. heap'[b] = heap[b] \/ heap'[b] = [heap[b] EXCEPT !.elems = f]
      BY <2>1
    <3>3. QED
      BY <3>1, <3>2 DEF IsMemory
  <2>4. QED
    BY <2>2, <2>3
<1>3. QED
  BY <1>1, <1>2

\* No array changes its block, and no block its size: assignment between arrays
\* of the same number of elements, reshape and writing an element.
LEMMA Keep ==
  ASSUME IInv, UNCHANGED <<alive, base, live, ub>>,
         ext' \in [Arrays -> Shapes],
         \A k \in Arrays : NumElements(ext'[k]) = NumElements(ext[k]),
         \A k \in Arrays : k \notin alive => ext'[k] = ext[k],
         alloc' = alloc,
         heap' = [b \in Blocks |-> heap'[b]],
         \A b \in Blocks : /\ IsMemory(heap'[b])
                           /\ heap'[b].by = heap[b].by
                           /\ heap'[b].size = heap[b].size
                           /\ heap'[b].state = heap[b].state
  PROVE  Preserved
<1>1. Types'
  BY DEF IInv, Types
<1>2. DeadOwnNothing'
  BY DEF IInv, DeadOwnNothing
<1>3. ASSUME NEW k \in Arrays PROVE OwnsProperly(k)'
  BY DEF IInv, Types, OwnsProperly, HasElements
<1>4. Exclusive' /\ (Accounted => Accounted')
  BY DEF IInv, Exclusive, Accounted, HasElements
<1>5. QED
  BY <1>1, <1>2, <1>3, <1>4 DEF IInv, Preserved

\* Array a gives up its block and takes the one of b, which becomes empty: the
\* moves.  b may keep any pointer q.
LEMMA TakeOver ==
  ASSUME IInv, NEW a \in Arrays, NEW b \in Arrays, a # b,
         NEW q \in Blocks \cup {Null},
         base' = [base EXCEPT ![a] = base[b], ![b] = q],
         ext' = [ext EXCEPT ![a] = ext[b], ![b] = NoExtents],
         alloc' = [alloc EXCEPT ![a] = alloc[b]],
         Exchange(Released(a), Null, Unused),
         alive \subseteq alive', a \in alive', alive' \subseteq Arrays,
         ub' = ub
  PROVE  Preserved
<1>1. live' = live \ Released(a)
  BY MemoryAssumption DEF Exchange
<1>2. Types
  BY DEF IInv
<1>3. /\ heap' = [k \in Blocks |-> heap'[k]]
      /\ \A k \in Blocks : IsMemory(heap'[k])
      /\ \A k \in Blocks \ Released(a) : heap'[k] = heap[k]
  BY <1>2, HeapAfter, MemoryAssumption
<1>4. Types'
  BY <1>1, <1>2, <1>3, NoExtentsEmpty DEF Types
<1>5. /\ ext'[a] = ext[b] /\ base'[a] = base[b] /\ alloc'[a] = alloc[b]
      /\ ext'[b] = NoExtents
      /\ \A k \in Arrays \ {a, b} : ext'[k] = ext[k] /\ base'[k] = base[k] /\ alloc'[k] = alloc[k]
  BY <1>2 DEF Types
<1>6. ~HasElements(b)'
  BY <1>5, NoExtentsEmpty DEF HasElements
<1>7. ASSUME NEW k \in Arrays \ {a}, HasElements(k)
      PROVE  base[k] \in live \ Released(a) /\ heap'[base[k]] = heap[base[k]]
  <2>1. base[k] \in live
    BY <1>7 DEF IInv, OwnsProperly
  <2>2. NumElements(ext[a]) \in Nat
    BY <1>2, NumElementsNat DEF Types
  <2>3. base[k] \notin Released(a)
    BY <2>2, <1>7 DEF IInv, Exclusive, HasElements, Released
  <2>4. QED
    BY <2>1, <2>3, <1>2, <1>3 DEF Types
<1>8. DeadOwnNothing'
  BY <1>5 DEF IInv, DeadOwnNothing
<1>9. ASSUME NEW k \in Arrays PROVE OwnsProperly(k)'
  <2>1. CASE k = a
    <3>1. SUFFICES ASSUME NumElements(ext[b]) > 0
                   PROVE  /\ base[b] \in live'
                          /\ heap'[base[b]].state = "built"
                          /\ heap'[base[b]].size = NumElements(ext[b])
                          /\ heap'[base[b]].by = alloc[b]
      BY <2>1, <1>5 DEF OwnsProperly, HasElements
    <3>2. OwnsProperly(b) /\ HasElements(b)
      BY <3>1 DEF IInv, HasElements
    <3>3. base[b] \in live' /\ heap'[base[b]] = heap[base[b]]
      BY <3>2, <1>1, <1>7
    <3>4. QED
      BY <3>2, <3>3 DEF OwnsProperly
  <2>2. CASE k = b
    BY <2>2, <1>6 DEF OwnsProperly
  <2>3. CASE k \notin {a, b}
    <3>1. ext'[k] = ext[k] /\ base'[k] = base[k] /\ alloc'[k] = alloc[k]
      BY <2>3, <1>5
    <3>2. OwnsProperly(k)
      BY DEF IInv
    <3>3. HasElements(k) => base[k] \in live' /\ heap'[base[k]] = heap[base[k]]
      BY <2>3, <1>1, <1>7
    <3>4. QED
      BY <3>1, <3>2, <3>3 DEF OwnsProperly, HasElements
  <2>4. QED
    BY <2>1, <2>2, <2>3
<1>10. Exclusive'
  <2> SUFFICES ASSUME NEW k \in Arrays, NEW m \in Arrays,
                      HasElements(k)', HasElements(m)', base'[k] = base'[m]
               PROVE  k = m
    BY DEF Exclusive
  <2>1. k # b /\ m # b
    BY <1>6
  <2> DEFINE From(j) == IF j = a THEN b ELSE j
  <2>2. ASSUME NEW j \in Arrays \ {b}
        PROVE  /\ From(j) \in Arrays
               /\ base'[j] = base[From(j)] /\ ext'[j] = ext[From(j)]
    BY <2>2, <1>5
  <2>3. HasElements(From(k)) /\ HasElements(From(m)) /\ base[From(k)] = base[From(m)]
    BY <2>1, <2>2 DEF HasElements
  <2>4. From(k) = From(m)
    BY <2>1, <2>2, <2>3 DEF IInv, Exclusive
  <2>5. QED
    BY <2>1, <2>4
<1>11. ASSUME Accounted PROVE Accounted'
  <2> SUFFICES ASSUME NEW p \in live' PROVE \E k \in Arrays : HasElements(k)' /\ base'[k] = p
    BY DEF Accounted
  <2>1. PICK k \in Arrays : HasElements(k) /\ base[k] = p
    BY <1>1, <1>11 DEF Accounted
  <2>2. k # a
    BY <1>1, <2>1 DEF HasElements, Released
  <2>3. CASE k = b
    BY <2>1, <2>3, <1>5 DEF HasElements
  <2>4. CASE k # b
    BY <2>1, <2>2, <2>4, <1>5 DEF HasElements
  <2>5. QED
    BY <2>3, <2>4
<1>12. QED
  BY <1>4, <1>8, <1>9, <1>10, <1>11 DEF IInv, Preserved

-----------------------------------------------------------------------------
(***************************************************************************)
(* The actions.                                                            *)
(***************************************************************************)
LEMMA FreeIsFree ==
  ASSUME NEW n, NEW a \in Arrays
  PROVE  Allocate(n, live) \subseteq Allocate(n, live \ Released(a))
  BY DEF Allocate

LEMMA CopyKeepsAllocator ==
  ASSUME Compatible, Types, NEW a \in Arrays, NEW b \in Arrays
  PROVE  AllocAfterCopy(a, b) = alloc[a]
  BY DEF Compatible, Types, AllocAfterCopy

LEMMA ConstructIInv ==
  ASSUME IInv, NEW a \in Arrays, NEW x \in Shapes, NEW f, NEW al \in Allocators,
         Construct(a, x, f, al)
  PROVE  Preserved
<1>1. PICK b \in Allocate(NumElements(x), live) :
        /\ a \notin alive
        /\ alive' = alive \cup {a}
        /\ SetArray(a, b, x, al)
        /\ Exchange({}, b, Memory(al, x, f))
        /\ UNCHANGED ub
  BY DEF Construct
<1>2. Released(a) = {}
  BY <1>1, NoExtentsEmpty DEF IInv, DeadOwnNothing, Released
<1>3. b \in Allocate(NumElements(x), live \ Released(a)) /\ b \in Blocks \cup {Null}
  BY <1>1, <1>2 DEF Allocate
<1>4. alive' \subseteq Arrays /\ alive' \ {a} = alive \ {a} /\ a \in alive'
  BY <1>1 DEF IInv, Types
<1>5. Exchange(Released(a), b, Memory(al, x, f))
  BY <1>1, <1>2
<1>6. QED
  BY <1>1, <1>3, <1>4, <1>5, MemoryIsMemory, Replace

LEMMA AssignTemporaryIInv ==
  ASSUME Compatible, IInv, NEW a \in Arrays, a \in alive, NEW x \in Shapes, NEW f,
         AssignTemporary(a, x, f)
  PROVE  Preserved
<1>1. PICK p \in Allocate(NumElements(x), live) :
        /\ SetArray(a, p, x, DefaultAlloc)
        /\ Exchange(Released(a), p, Memory(DefaultAlloc, x, f))
  BY DEF AssignTemporary, Compatible
<1>2. p \in Allocate(NumElements(x), live \ Released(a)) /\ p \in Blocks \cup {Null}
  BY <1>1, FreeIsFree DEF Allocate
<1>3. ub' = ub /\ alive' = alive
  BY ReleaseIsSafe DEF AssignTemporary, IInv
<1>4. alive' \subseteq Arrays /\ alive' \ {a} = alive \ {a} /\ a \in alive'
  BY <1>3 DEF IInv, Types
<1>5. DefaultAlloc \in Allocators
  BY AllocatorAssumption
<1>6. QED
  BY <1>1, <1>2, <1>3, <1>4, <1>5, MemoryIsMemory, Replace

LEMMA ClearIInv ==
  ASSUME IInv, NEW a \in Arrays, Clear(a)
  PROVE  Preserved
<1>1. /\ a \in alive /\ alive' = alive
      /\ Exchange(Released(a), Null, Unused)
      /\ ub' = ub
  BY ReleaseIsSafe DEF Clear, Usable, Sound, IInv
<1>2. base[a] \in Blocks \cup {Null} /\ alloc[a] \in Allocators
  BY DEF IInv, Types
<1>3. SetArray(a, base[a], NoExtents, alloc[a])
  BY DEF Clear, SetArray, IInv, Types
<1>4. Null \in Allocate(NumElements(NoExtents), live \ Released(a))
  BY NoExtentsEmpty DEF Allocate
<1>5. alive' \subseteq Arrays /\ alive' \ {a} = alive \ {a} /\ a \in alive'
  BY <1>1 DEF IInv, Types
<1>6. QED
  BY <1>1, <1>2, <1>3, <1>4, <1>5, NoExtentsEmpty, MemoryAssumption, Replace

LEMMA DestroyIInv ==
  ASSUME IInv, NEW a \in Arrays, Destroy(a)
  PROVE  Preserved
<1>1. /\ alive' = alive \ {a}
      /\ Exchange(Released(a), Null, Unused)
      /\ SetArray(a, Null, NoExtents, DefaultAlloc)
      /\ ub' = ub
  BY ReleaseIsSafe DEF Destroy, IInv
<1>2. Null \in Allocate(NumElements(NoExtents), live \ Released(a))
  BY NoExtentsEmpty DEF Allocate
<1>3. alive' \subseteq Arrays /\ alive' \ {a} = alive \ {a}
  BY <1>1 DEF IInv, Types
<1>4. DefaultAlloc \in Allocators
  BY AllocatorAssumption
<1>5. QED
  BY <1>1, <1>2, <1>3, <1>4, NoExtentsEmpty, MemoryAssumption, Replace

LEMMA DefaultConstructIInv ==
  ASSUME IInv, NEW a \in Arrays, NEW al \in Allocators, DefaultConstruct(a, al)
  PROVE  Preserved
<1>1. Released(a) = {}
  BY NoExtentsEmpty DEF DefaultConstruct, IInv, DeadOwnNothing, Released
<1>2. Exchange(Released(a), Null, Unused)
  BY <1>1, MemoryAssumption DEF DefaultConstruct, Exchange, Heap, IInv, Types
<1>3. Null \in Allocate(NumElements(NoExtents), live \ Released(a))
  BY NoExtentsEmpty DEF Allocate
<1>4. /\ SetArray(a, Null, NoExtents, al)
      /\ alive' \subseteq Arrays /\ alive' \ {a} = alive \ {a} /\ a \in alive' /\ ub' = ub
  BY DEF DefaultConstruct, IInv, Types
<1>5. QED
  BY <1>2, <1>3, <1>4, NoExtentsEmpty, MemoryAssumption, Replace

LEMMA StealIInv ==
  ASSUME IInv, NEW a \in Arrays, NEW b \in Arrays, Steal(a, b, alloc[b])
  PROVE  Preserved
<1>1. a # b /\ a \notin alive
  BY DEF Steal, Usable, Sound
<1>2. Released(a) = {}
  BY <1>1, NoExtentsEmpty DEF IInv, DeadOwnNothing, Released
<1>3. Exchange(Released(a), Null, Unused)
  BY <1>2, MemoryAssumption DEF Steal, Exchange, Heap, IInv, Types
<1>4. /\ base' = [base EXCEPT ![a] = base[b], ![b] = Null]
      /\ ext' = [ext EXCEPT ![a] = ext[b], ![b] = NoExtents]
      /\ alloc' = [alloc EXCEPT ![a] = alloc[b]]
      /\ alive \subseteq alive' /\ a \in alive' /\ alive' \subseteq Arrays /\ ub' = ub
  BY DEF Steal, IInv, Types
<1>5. QED
  BY <1>1, <1>3, <1>4, TakeOver

LEMMA MoveAssignIInv ==
  ASSUME Compatible, IInv, NEW a \in Arrays, NEW b \in Arrays, MoveAssign(a, b)
  PROVE  Preserved
<1>1. a # b /\ a \in alive /\ alive' = alive
  BY DEF MoveAssign, Usable, Sound
<1>2. alloc' = [alloc EXCEPT ![a] = alloc[b]]
  BY DEF MoveAssign, Compatible
<1>3. base' = [base EXCEPT ![a] = base[b], ![b] = base[b]]
  BY <1>1 DEF MoveAssign, IInv, Types
<1>4. /\ ext' = [ext EXCEPT ![a] = ext[b], ![b] = NoExtents]
      /\ Exchange(Released(a), Null, Unused)
      /\ ub' = ub
  BY ReleaseIsSafe DEF MoveAssign, IInv
<1>5. base[b] \in Blocks \cup {Null} /\ alive \subseteq Arrays
  BY DEF IInv, Types
<1>6. QED
  BY <1>1, <1>2, <1>3, <1>4, <1>5, TakeOver

LEMMA SwapIInv ==
  ASSUME Compatible, IInv, NEW a \in Arrays, NEW b \in Arrays, Swap(a, b)
  PROVE  Preserved
<1> DEFINE From(k) == IF k = a THEN b ELSE IF k = b THEN a ELSE k
<1>1. Types
  BY DEF IInv
<1>2. UNCHANGED <<alive, live, heap, ub>> /\ a \in alive /\ b \in alive
  BY DEF Swap, Usable, Sound
<1>3. /\ alloc' \in [Arrays -> Allocators]
      /\ \A k \in Arrays : alloc'[k] = alloc[From(k)]
  <2>1. CASE POCS
    BY <1>1, <2>1 DEF Swap, Types
  <2>2. CASE ~POCS
    BY <1>1, <2>2 DEF Swap, Types, Compatible
  <2>3. QED
    BY <2>1, <2>2
<1>4. /\ base' \in [Arrays -> Blocks \cup {Null}] /\ ext' \in [Arrays -> Shapes]
      /\ \A k \in Arrays : base'[k] = base[From(k)] /\ ext'[k] = ext[From(k)]
  BY <1>1 DEF Swap, Types
<1>5. \A k \in Arrays : From(k) \in Arrays /\ From(From(k)) = k /\ (k \notin alive => From(k) = k)
  BY <1>2
<1> HIDE DEF From
<1>6. Types'
  BY <1>1, <1>2, <1>3, <1>4 DEF Types
<1>7. DeadOwnNothing'
  BY <1>2, <1>4, <1>5 DEF IInv, DeadOwnNothing
<1>8. \A k \in Arrays : OwnsProperly(k)'
  BY <1>2, <1>3, <1>4, <1>5 DEF IInv, OwnsProperly, HasElements
<1>9. Exclusive'
  BY <1>4, <1>5 DEF IInv, Exclusive, HasElements
<1>10. ASSUME Accounted PROVE Accounted'
  BY <1>2, <1>4, <1>5, <1>10 DEF Accounted, HasElements
<1>11. QED
  BY <1>2, <1>6, <1>7, <1>8, <1>9, <1>10 DEF IInv, Preserved

\* An assignment, a reextent or a load that exchanges the block of a for one with
\* elements f for extensions x (q is base_ when x is empty).
LEMMA ReallocateIInv ==
  ASSUME IInv, NEW a \in Arrays, a \in alive, NEW x \in Shapes, NEW f,
         NEW p \in Allocate(NumElements(x), live \ Released(a)),
         NEW q \in Blocks \cup {Null}, NumElements(x) > 0 => q = p,
         SetArray(a, q, x, alloc[a]),
         Exchange(Released(a), p, Memory(alloc[a], x, f)),
         alive' = alive, ub' = ub \cup ReleaseFaults(a)
  PROVE  Preserved
<1>1. alloc[a] \in Allocators /\ alive' \subseteq Arrays /\ ub' = ub
  BY ReleaseIsSafe DEF IInv, Types
<1>2. QED
  BY <1>1, MemoryIsMemory, Replace

LEMMA KeepElementsIInv ==
  ASSUME IInv, NEW a \in Arrays, NEW x \in Shapes, NEW f,
         a \in alive, NumElements(x) = NumElements(ext[a]),
         ext' = [ext EXCEPT ![a] = x],
         heap' = Overwritten(a, f),
         UNCHANGED <<alive, base, alloc, live, ub>>
  PROVE  Preserved
<1>1. Types
  BY DEF IInv
<1>2. ext' \in [Arrays -> Shapes]
  BY <1>1 DEF Types
<1>3. \A k \in Arrays : ext'[k] = IF k = a THEN x ELSE ext[k]
  BY <1>1 DEF Types
<1>4. QED
  BY <1>1, <1>2, <1>3, Overwrites, Keep

LEMMA AssignElementsIInv ==
  ASSUME IInv, NEW a \in Arrays, a \in alive, NEW f, AssignElements(a, f)
  PROVE  Preserved
<1>1. ext[a] \in Shapes /\ ext' = [ext EXCEPT ![a] = ext[a]]
  BY DEF AssignElements, IInv, Types
<1>2. QED
  BY <1>1, KeepElementsIInv DEF AssignElements

LEMMA CopyAssignIInv ==
  ASSUME Compatible, IInv, NEW a \in Arrays, NEW b \in Arrays,
         CopyAssignSame(a, b) \/ CopyAssignOther(a, b)
  PROVE  Preserved
<1>1. Types /\ AllocAfterCopy(a, b) = alloc[a] /\ ext[b] \in Shapes /\ a \in alive
  BY CopyKeepsAllocator DEF IInv, Types, CopyAssignSame, CopyAssignOther, Usable, Sound
<1>2. CASE CopyAssignSame(a, b)
  <2>1. alloc' = alloc
    BY <1>1, <1>2 DEF CopyAssignSame, Types
  <2>2. AssignElements(a, Elems(b))
    BY <1>2, <2>1 DEF CopyAssignSame, AssignElements
  <2>3. QED
    BY <1>1, <2>2, AssignElementsIInv
<1>3. CASE CopyAssignOther(a, b)
  <2>1. PICK p \in Allocate(NumElements(ext[b]), live \ Released(a)) :
          /\ SetArray(a, p, ext[b], alloc[a])
          /\ Exchange(Released(a), p, Memory(alloc[a], ext[b], Elems(b)))
    BY <1>1, <1>3 DEF CopyAssignOther
  <2>2. p \in Blocks \cup {Null} /\ alive' = alive /\ ub' = ub \cup ReleaseFaults(a)
    BY <1>3, <2>1 DEF Allocate, CopyAssignOther
  <2>3. QED
    BY <1>1, <2>1, <2>2, ReallocateIInv
<1>4. QED
  BY <1>2, <1>3

LEMMA AssignmentInterruptedIInv ==
  ASSUME Compatible, IInv, NEW a \in Arrays, NEW b \in Arrays, AssignmentInterrupted(a, b)
  PROVE  Preserved
<1>1. Types /\ AllocAfterCopy(a, b) = alloc[a] /\ ext[b] \in Shapes /\ a \in alive
  BY CopyKeepsAllocator DEF IInv, Types, AssignmentInterrupted, Usable, Sound
<1>2. alloc' = alloc
  BY <1>1 DEF AssignmentInterrupted, Types
<1>3. PICK m \in 0 .. NumElements(ext[a]) - 1 : heap' = Overwritten(a, Interrupted(a, Elems(b), m))
  BY DEF AssignmentInterrupted
<1>4. /\ NumElements(ext[b]) = NumElements(ext[a]) /\ ext' = [ext EXCEPT ![a] = ext[b]]
      /\ UNCHANGED <<alive, base, live, ub>>
  BY DEF AssignmentInterrupted
<1>5. QED
  BY <1>1, <1>2, <1>3, <1>4, KeepElementsIInv

LEMMA AssignIInv ==
  ASSUME Compatible, IInv, NEW a \in Arrays, NEW b \in Arrays, NEW view \in Views,
         AssignView(a, b, view) \/ AssignRange(a, b, view) \/ AssignConverted(a, b)
  PROVE  Preserved
<1>1. /\ Types /\ ext[b] \in Shapes
      /\ ext[b] # Point /\ ViewExtents(b, view) \in Shapes
  BY ViewExtentsType DEF IInv, Types, AssignView, AssignRange, AssignConverted, Viewable, Usable, Sound
<1>2. a \in alive
  BY DEF AssignView, AssignRange, AssignConverted, Usable, Sound
<1>3. CASE AssignView(a, b, view) \/ AssignRange(a, b, view)
  <2>1. \/ AssignElements(a, ViewElements(b, view))
        \/ AssignTemporary(a, ViewExtents(b, view), ViewElements(b, view))
    BY <1>3 DEF AssignView, AssignRange
  <2>2. QED
    BY <1>1, <1>2, <2>1, AssignElementsIInv, AssignTemporaryIInv
<1>4. CASE AssignConverted(a, b)
  BY <1>1, <1>2, <1>4, KeepElementsIInv, AssignTemporaryIInv DEF AssignConverted
<1>5. QED
  BY <1>3, <1>4

LEMMA ReextentIInv ==
  ASSUME IInv, NEW a \in Arrays, NEW x \in Extents,
         \/ \E v \in Values : Reextent(a, x, v)
         \/ ReextentMoved(a, x)
  PROVE  Preserved
<1>1. PICK f : \E p \in Allocate(NumElements(x), live \ Released(a)) :
                 /\ SetArray(a, p, x, alloc[a])
                 /\ Exchange(Released(a), p, Memory(alloc[a], x, f))
  <2>1. CASE \E v \in Values : Reextent(a, x, v)
    <3>1. PICK v \in Values : Reextent(a, x, v)
      BY <2>1
    <3>2. PICK p \in Allocate(NumElements(x), live) :
            /\ SetArray(a, p, x, alloc[a])
            /\ Exchange(Released(a), p, Memory(alloc[a], x, Extended(a, x, v)))
      BY <3>1 DEF Reextent
    <3>3. QED
      BY <3>2, FreeIsFree
  <2>2. CASE ReextentMoved(a, x)
    BY <2>2 DEF ReextentMoved
  <2>3. QED
    BY <2>1, <2>2
<1>2. a \in alive /\ alive' = alive /\ ub' = ub \cup ReleaseFaults(a)
  BY DEF Reextent, ReextentMoved, Usable, Sound
<1>3. PICK p \in Allocate(NumElements(x), live \ Released(a)) :
        /\ SetArray(a, p, x, alloc[a])
        /\ Exchange(Released(a), p, Memory(alloc[a], x, f))
  BY <1>1
<1>4. p \in Blocks \cup {Null} /\ x \in Shapes
  BY <1>3, ExtentsType DEF Allocate
<1>5. QED
  BY <1>2, <1>3, <1>4, ReallocateIInv

LEMMA ReshapeIInv ==
  ASSUME IInv, NEW a \in Arrays, NEW x \in Extents, Reshape(a, x)
  PROVE  Preserved
<1>1. Types
  BY DEF IInv
<1>2. x \in Shapes /\ a \in alive
  BY ExtentsType DEF Reshape, Usable, Sound
<1>3. /\ ext' \in [Arrays -> Shapes]
      /\ \A k \in Arrays : ext'[k] = IF k = a THEN x ELSE ext[k]
  BY <1>1, <1>2 DEF Reshape, Types
<1>4. UNCHANGED <<alive, base, alloc, live, heap, ub>> /\ NumElements(x) = NumElements(ext[a])
  BY DEF Reshape
<1>5. QED
  BY <1>1, <1>2, <1>3, <1>4, Keep DEF Types

LEMMA LoadIInv ==
  ASSUME IInv, NEW a \in Arrays, NEW x \in Extents, NEW f, Load(a, x, f)
  PROVE  Preserved
<1>1. a \in alive /\ x \in Shapes
  BY ExtentsType DEF Load, Usable, Sound
<1>2. CASE x = ext[a]
  BY <1>1, <1>2, AssignElementsIInv DEF Load
<1>3. CASE x # ext[a]
  <2>1. PICK p \in Allocate(NumElements(x), live \ Released(a)) :
          /\ SetArray(a, IF x = NoExtents THEN base[a] ELSE p, x, alloc[a])
          /\ Exchange(Released(a), p, Memory(alloc[a], x, f))
    BY <1>3 DEF Load
  <2>2. PICK q \in Blocks \cup {Null} :
          q = IF x = NoExtents THEN base[a] ELSE p
    BY <2>1 DEF IInv, Types, Allocate
  <2>3. NumElements(x) > 0 => q = p
    BY <2>2, NoExtentsEmpty
  <2>4. alive' = alive /\ ub' = ub \cup ReleaseFaults(a)
    BY <1>3 DEF Load
  <2>5. QED
    BY <1>1, <2>1, <2>2, <2>3, <2>4, ReallocateIInv
<1>4. QED
  BY <1>2, <1>3

\* A new array takes a block and the elements of b, which keeps its own block.
LEMMA MoveElementsIntoIInv ==
  ASSUME IInv, NEW a \in Arrays, NEW b \in Arrays, Sound(b), MoveElementsInto(a, b)
  PROVE  Preserved
<1> DEFINE x == ext[b]
<1>1. PICK p \in Allocate(NumElements(x), live), f \in Vacated(b) :
        /\ SetArray(a, p, x, alloc[b])
        /\ live' = live \cup ({p} \ {Null})
        /\ heap' = [k \in Blocks |-> IF k = p THEN Memory(alloc[b], x, Elems(b))
                                    ELSE Overwritten(b, f)[k]]
  BY DEF MoveElementsInto
<1>2. a \notin alive /\ alive' = alive \cup {a} /\ ub' = ub
  BY DEF MoveElementsInto
<1>3. Types /\ x \in Shapes /\ alloc[b] \in Allocators
  BY DEF IInv, Types
<1>4. Released(a) = {}
  BY <1>2, NoExtentsEmpty DEF IInv, DeadOwnNothing, Released
<1>5. p \in Allocate(NumElements(x), live \ Released(a)) /\ p \in Blocks \cup {Null}
  BY <1>1, <1>4 DEF Allocate
<1>6. \A k \in Blocks : /\ IsMemory(Overwritten(b, f)[k])
                        /\ Holds(Overwritten(b, f)[k], heap[k].by, heap[k].size, heap[k].state)
  <2> SUFFICES ASSUME NEW k \in Blocks
               PROVE  /\ IsMemory(Overwritten(b, f)[k])
                      /\ Holds(Overwritten(b, f)[k], heap[k].by, heap[k].size, heap[k].state)
    OBVIOUS
  <2>1. IsMemory(heap[k])
    BY <1>3 DEF Types
  <2>2. \/ Overwritten(b, f)[k] = heap[k]
        \/ Overwritten(b, f)[k] = [heap[k] EXCEPT !.elems = f]
    BY <1>3 DEF Overwritten, Types
  <2>3. QED
    BY <2>1, <2>2 DEF IsMemory, Holds
<1>7. /\ heap' = [k \in Blocks |-> heap'[k]]
      /\ \A k \in Blocks : IsMemory(heap'[k])
      /\ p \in Blocks => Holds(heap'[p], alloc[b], NumElements(x), "built")
      /\ \A k \in Blocks \ Released(a) :
           k # p => Holds(heap'[k], heap[k].by, heap[k].size, heap[k].state)
  BY <1>1, <1>3, <1>6, MemoryIsMemory DEF Holds
<1>8. live' = (live \ Released(a)) \cup ({p} \ {Null})
  BY <1>1, <1>4
<1>9. alive' \subseteq Arrays /\ alive' \ {a} = alive \ {a} /\ a \in alive'
  BY <1>2, <1>3 DEF Types
<1>10. QED
  BY <1>1, <1>2, <1>3, <1>5, <1>7, <1>8, <1>9, ReplaceBlock

\* Elements change hands, blocks do not: the moves and the swap of static_array.
LEMMA AssignBothIInv ==
  ASSUME IInv, NEW a \in Arrays, NEW b \in Arrays, NEW f, NEW g, AssignBoth(a, f, b, g)
  PROVE  Preserved
<1>1. Types /\ UNCHANGED <<alive, base, ext, alloc, live, ub>>
  BY DEF IInv, AssignBoth
<1>2. /\ heap' = [k \in Blocks |-> heap'[k]]
      /\ \A k \in Blocks : /\ IsMemory(heap'[k])
                           /\ heap'[k].by = heap[k].by
                           /\ heap'[k].size = heap[k].size
                           /\ heap'[k].state = heap[k].state
  <2>1. CASE NumElements(ext[a]) = 0
    BY <1>1, <2>1 DEF AssignBoth, Types
  <2>2. CASE NumElements(ext[a]) # 0
    <3> DEFINE first == [heap EXCEPT ![base[a]].elems = f]
    <3>1. /\ first = [k \in Blocks |-> first[k]]
          /\ \A k \in Blocks : first[k] = heap[k] \/ first[k] = [heap[k] EXCEPT !.elems = f]
      BY <1>1 DEF Types
    <3>2. /\ heap' = [k \in Blocks |-> heap'[k]]
          /\ \A k \in Blocks : heap'[k] = first[k] \/ heap'[k] = [first[k] EXCEPT !.elems = g]
      <4>1. heap' = [first EXCEPT ![base[b]].elems = g]
        BY <2>2 DEF AssignBoth
      <4> HIDE DEF first
      <4>2. QED
        BY <3>1, <4>1
    <3> HIDE DEF first
    <3>3. ASSUME NEW k \in Blocks
          PROVE  /\ IsMemory(heap'[k])
                 /\ heap'[k].by = heap[k].by
                 /\ heap'[k].size = heap[k].size
                 /\ heap'[k].state = heap[k].state
      <4>1. IsMemory(heap[k])
        BY <1>1 DEF Types
      <4>2. /\ IsMemory(first[k])
            /\ first[k].by = heap[k].by
            /\ first[k].size = heap[k].size
            /\ first[k].state = heap[k].state
        BY <3>1, <4>1 DEF IsMemory
      <4>3. QED
        BY <3>2, <4>2 DEF IsMemory
    <3>4. QED
      BY <3>2, <3>3
  <2>3. QED
    BY <2>1, <2>2
<1>3. ext' \in [Arrays -> Shapes]
  BY <1>1 DEF Types
<1>4. QED
  BY <1>1, <1>2, <1>3, Keep

LEMMA WriteIInv ==
  ASSUME IInv, NEW a \in Arrays, NEW k \in 0 .. NumElements(ext[a]) - 1, NEW v, Write(a, k, v)
  PROVE  Preserved
<1>1. NumElements(ext[a]) # 0
  BY NumElementsNat DEF IInv, Types
<1>2. PICK f : heap' = Overwritten(a, f)
  <2>1. heap' = [heap EXCEPT ![base[a]].elems = [heap[base[a]].elems EXCEPT ![k] = v]]
    BY DEF Write
  <2>2. QED
    BY <1>1, <2>1 DEF Overwritten
<1>3. ext[a] \in Shapes /\ ext' = [ext EXCEPT ![a] = ext[a]] /\ a \in alive
  BY DEF Write, Sound, IInv, Types
<1>4. QED
  BY <1>2, <1>3, KeepElementsIInv DEF Write

-----------------------------------------------------------------------------
(***************************************************************************)
(* The steps that preserve the invariant, and the exceptions that may not.  *)
(***************************************************************************)
\* The exceptions that leave a without its elements.
Damages(a) ==
  \/ \E b \in Arrays : CopyAssignAllocateThrows(a, b) \/ CopyAssignElementThrows(a, b)
  \/ \E x \in Extents : ReextentMovedAllocateThrows(a, x) \/ ReextentMovedElementThrows(a, x)

LEMMA StepsPreserve ==
  ASSUME Compatible, IInv, [Next]_vars
  PROVE  Preserved \/ FailsWithoutEffect \/ \E a \in Arrays : Damages(a)
<1> SUFFICES ASSUME ~FailsWithoutEffect, \A a \in Arrays : ~Damages(a)
             PROVE  Preserved
  OBVIOUS
<1>1. CASE UNCHANGED vars
  BY <1>1 DEF vars, Preserved, IInv, Types, DeadOwnNothing, OwnsProperly, HasElements, Exclusive, Accounted
<1>2. ASSUME NEW a \in Arrays, NEW al \in Allocators, DefaultConstruct(a, al) PROVE Preserved
  BY <1>2, DefaultConstructIInv
<1>3. ASSUME NEW a \in Arrays, NEW x \in Extents, NEW v \in Values, NEW al \in Allocators,
             FillConstruct(a, x, v, al)
      PROVE  Preserved
  BY <1>3, ExtentsType, ConstructIInv DEF FillConstruct
<1>4. ASSUME NEW a \in Arrays, NEW b \in Arrays, CopyConstruct(a, b) PROVE Preserved
  <2>1. ext[b] \in Shapes /\ Select[alloc[b]] \in Allocators
    BY AllocatorAssumption DEF IInv, Types
  <2>2. QED
    BY <1>4, <2>1, ConstructIInv DEF CopyConstruct
<1>5. ASSUME NEW a \in Arrays, NEW b \in Arrays, NEW view \in Views, NEW al \in Allocators,
             ViewConstruct(a, b, view, al)
      PROVE  Preserved
  <2>1. ViewExtents(b, view) \in Shapes
    BY <1>5, ViewExtentsType DEF IInv, ViewConstruct, Viewable, Usable
  <2>2. QED
    BY <1>5, <2>1, ConstructIInv DEF ViewConstruct
<1>6. ASSUME NEW a \in Arrays, NEW b \in Arrays, MoveConstruct(a, b) PROVE Preserved
  BY <1>6, StealIInv DEF MoveConstruct
<1>7. ASSUME NEW a \in Arrays, NEW b \in Arrays, NEW al \in Allocators,
             MoveConstructWith(a, b, al)
      PROVE  Preserved
  BY <1>7, StealIInv DEF MoveConstructWith, Compatible
<1>8. ASSUME NEW a \in Arrays, Destroy(a) PROVE Preserved
  BY <1>8, DestroyIInv
<1>9. ASSUME NEW a \in Arrays, Clear(a) PROVE Preserved
  BY <1>9, ClearIInv
<1>10. ASSUME NEW a \in Arrays, NEW b \in Arrays, CopyAssignSame(a, b) \/ CopyAssignOther(a, b)
       PROVE  Preserved
  BY <1>10, CopyAssignIInv
<1>11. ASSUME NEW a \in Arrays, NEW b \in Arrays, AssignmentInterrupted(a, b) PROVE Preserved
  BY <1>11, AssignmentInterruptedIInv
<1>12. ASSUME NEW a \in Arrays, NEW b \in Arrays, MoveAssign(a, b) PROVE Preserved
  BY <1>12, MoveAssignIInv
<1>13. ASSUME NEW a \in Arrays, NEW b \in Arrays, Swap(a, b) PROVE Preserved
  BY <1>13, SwapIInv
<1>14. ASSUME NEW a \in Arrays, NEW b \in Arrays, NEW view \in Views,
              AssignView(a, b, view) \/ AssignRange(a, b, view)
       PROVE  Preserved
  BY <1>14, AssignIInv
<1>15. ASSUME NEW a \in Arrays, NEW b \in Arrays, AssignConverted(a, b) PROVE Preserved
  <2>1. "all" \in Views
    BY DEF Views
  <2>2. QED
    BY <1>15, <2>1, AssignIInv
<1>16. ASSUME NEW a \in Arrays, NEW x \in Extents, Reshape(a, x) PROVE Preserved
  BY <1>16, ReshapeIInv
<1>17. ASSUME NEW a \in Arrays, NEW x \in Extents,
              (\E v \in Values : Reextent(a, x, v)) \/ ReextentMoved(a, x)
       PROVE  Preserved
  BY <1>17, ReextentIInv
<1>18. ASSUME NEW a \in Arrays, NEW r \in Archives, Load(a, r[1], r[2]) PROVE Preserved
  <2>1. r[1] \in Extents
    BY ArchivesAssumption
  <2>2. QED
    BY <1>18, <2>1, LoadIInv
<1>19. ASSUME NEW a \in Arrays, NEW r \in Archives, LoadAllocateThrows(a, r[1]) PROVE Preserved
  BY <1>19, ClearIInv DEF LoadAllocateThrows
<1>20. ASSUME NEW a \in Arrays, NEW k \in 0 .. NumElements(ext[a]) - 1, NEW v \in Values,
              Write(a, k, v)
       PROVE  Preserved
  BY <1>20, WriteIInv
<1>21. ASSUME NEW a \in Arrays, NEW b \in Arrays, NEW view \in Views, NEW al \in Allocators,
              RangeConstruct(a, b, view, al)
       PROVE  Preserved
  BY <1>5, <1>21 DEF RangeConstruct
<1>22. ASSUME NEW a \in Arrays, NEW b \in Arrays, NEW al \in Allocators,
              RefConstruct(a, b, al) \/ PointConvertConstruct(a, b, al)
       PROVE  Preserved
  <2>1. ext[b] \in Shapes /\ Point \in Shapes
    BY PointHasOne DEF IInv, Types
  <2>2. QED
    BY <1>22, <2>1, ConstructIInv DEF RefConstruct, PointConvertConstruct
<1>23. ASSUME NEW a \in Arrays, NEW v \in Values, NEW al \in Allocators,
              PointConstruct(a, v, al)
       PROVE  Preserved
  BY <1>23, PointHasOne, ConstructIInv DEF PointConstruct
<1>24. ASSUME NEW a \in Arrays, NEW al \in Allocators, PointValueConstruct(a, al) PROVE Preserved
  <2>1. PICK v \in Values : PointConstruct(a, v, al)
    BY <1>24 DEF PointValueConstruct
  <2>2. QED
    BY <1>23, <2>1
<1>25. ASSUME NEW a \in Arrays, NEW b \in Arrays, PointCopyConstruct(a, b) PROVE Preserved
  <2>1. alloc[b] \in Allocators
    BY DEF IInv, Types
  <2>2. QED
    BY <1>25, <2>1, PointHasOne, ConstructIInv DEF PointCopyConstruct
<1>26. ASSUME NEW a \in Arrays, NEW b \in Arrays,
              StaticMoveConstruct(a, b) \/ PointMoveConstruct(a, b)
       PROVE  Preserved
  BY <1>26, MoveElementsIntoIInv
  DEF StaticMoveConstruct, PointMoveConstruct, Usable, UsablePoint
<1>27. ASSUME NEW a \in Arrays, NEW b \in Arrays,
              StaticCopyAssign(a, b) \/ PointCopyAssign(a, b) \/ PointConvertAssign(a, b)
       PROVE  Preserved
  BY <1>27, AssignElementsIInv
  DEF StaticCopyAssign, PointCopyAssign, PointConvertAssign, Usable, UsablePoint, Sound
<1>28. ASSUME NEW a \in Arrays, NEW b \in Arrays,
              StaticMoveAssign(a, b) \/ PointMoveAssign(a, b) \/ StaticSwap(a, b)
       PROVE  Preserved
  BY <1>28, AssignBothIInv DEF StaticMoveAssign, PointMoveAssign, StaticSwap
<1>29. ASSUME NEW a \in Arrays, NEW v \in Values, PointAssign(a, v) PROVE Preserved
  BY <1>29, AssignElementsIInv DEF PointAssign, UsablePoint, Sound
<1>30. /\ \A x \in Extents \cup {Point}, al \in Allocators : ~ConstructThrows(x, al)
       /\ \A a, b \in Arrays : ~CopyAssignAllocateThrows(a, b) /\ ~CopyAssignElementThrows(a, b)
       /\ \A a \in Arrays, x \in Extents : /\ ~ReextentElementThrows(a, x)
                                           /\ ~ReextentMovedAllocateThrows(a, x)
                                           /\ ~ReextentMovedElementThrows(a, x)
  BY DEF FailsWithoutEffect, Damages
<1>31. ASSUME NEW a \in Arrays, NEW x \in Extents, NEW v \in Values, ListConstruct(a, x, v)
       PROVE  Preserved
  BY <1>3, <1>31, AllocatorAssumption DEF ListConstruct
<1>32. ASSUME NEW a \in Arrays, NEW v \in Values, PointDefaultConstruct(a, v) PROVE Preserved
  BY <1>23, <1>32, AllocatorAssumption DEF PointDefaultConstruct
<1>33. QED
  BY <1>1, <1>2, <1>3, <1>4, <1>5, <1>6, <1>7, <1>8, <1>9, <1>10, <1>11, <1>12, <1>13,
     <1>14, <1>15, <1>16, <1>17, <1>18, <1>19, <1>20, <1>21, <1>22, <1>23, <1>24, <1>25, <1>26,
     <1>27, <1>28, <1>29, <1>30, <1>31, <1>32
  DEF Next

-----------------------------------------------------------------------------
(***************************************************************************)
(* The exceptions, one shape each: a block that no array has, a block that *)
(* changes, elements that are half assigned.                               *)
(***************************************************************************)
\* A block is taken for elements that are not built, and given to no array.
Leaks(p) ==
  /\ p \in Blocks \ live
  /\ live' = live \cup {p}
  /\ heap' = [b \in Blocks |-> heap'[b]]
  /\ IsMemory(heap'[p])
  /\ \A b \in Blocks : b # p => heap'[b] = heap[b]
  /\ UNCHANGED <<alive, base, ext, alloc, ub>>

LEMMA FailureLeaks ==
  ASSUME IInv, FailsWithoutEffect
  PROVE  \E p : Leaks(p)
<1>1. PICK x \in Shapes, al \in Allocators :
        /\ NumElements(x) > 0
        /\ \E p \in Allocate(NumElements(x), live) : Exchange({}, p, RawMemory(al, x))
        /\ UNCHANGED <<alive, base, ext, alloc, ub>>
  <2>1. CASE \E x \in Extents \cup {Point}, al \in Allocators : ConstructThrows(x, al)
    <3>1. PICK x \in Extents \cup {Point}, al \in Allocators : ConstructThrows(x, al)
      BY <2>1
    <3>2. x \in Shapes
      BY ExtentsType, PointHasOne
    <3>3. QED
      BY <3>1, <3>2 DEF ConstructThrows
  <2>2. CASE \E a \in Arrays, x \in Extents : ReextentElementThrows(a, x)
    <3>1. PICK a \in Arrays, x \in Extents : ReextentElementThrows(a, x)
      BY <2>2
    <3>2. x \in Shapes /\ alloc[a] \in Allocators
      BY ExtentsType DEF IInv, Types
    <3>3. QED
      BY <3>1, <3>2 DEF ReextentElementThrows
  <2>3. QED
    BY <2>1, <2>2 DEF FailsWithoutEffect
<1>2. PICK p \in Allocate(NumElements(x), live) : Exchange({}, p, RawMemory(al, x))
  BY <1>1
<1>3. p \in Blocks \ live /\ p # Null
  BY <1>1, MemoryAssumption DEF Allocate
<1>4. Types
  BY DEF IInv
<1>5. /\ heap' = [b \in Blocks |-> heap'[b]]
      /\ IsMemory(heap'[p])
      /\ \A b \in Blocks : b # p => heap'[b] = heap[b]
  BY <1>2, <1>3, <1>4, MemoryIsMemory, HeapAfter
<1>6. live' = live \cup {p}
  BY <1>2, <1>3 DEF Exchange
<1>7. QED
  BY <1>1, <1>3, <1>5, <1>6 DEF Leaks

\* Nothing that an array has is lost.
LEMMA LeakIsHarmless ==
  ASSUME IInv, NEW p, Leaks(p)
  PROVE  IInv' /\ \A c \in alive : Untouched(c)
<1>1. \A c \in Arrays : HasElements(c) => base[c] \in live /\ base[c] \in Blocks /\ base[c] # p
  BY DEF IInv, Types, OwnsProperly, Leaks
<1>2. \A c \in Arrays : HasElements(c) => heap'[base[c]] = heap[base[c]]
  BY <1>1 DEF Leaks
<1>3. Types'
  BY DEF IInv, Types, Leaks
<1>4. DeadOwnNothing' /\ Exclusive' /\ ub' = {}
  BY DEF IInv, DeadOwnNothing, Exclusive, HasElements, Leaks
<1>5. \A c \in Arrays : OwnsProperly(c)'
  BY <1>1, <1>2 DEF IInv, OwnsProperly, HasElements, Leaks
<1>6. \A c \in alive : c \in Arrays /\ (Owns(c) => HasElements(c))
  BY DEF IInv, Types, Owns, HasElements
<1>7. ASSUME NEW c \in alive PROVE Untouched(c)
  BY <1>1, <1>2, <1>6, <1>7 DEF Untouched, Leaks
<1>8. QED
  BY <1>3, <1>4, <1>5, <1>7 DEF IInv

\* An array whose block is exchanged for p, or returned, hurts no other.
LEMMA ExchangeHurtsTargetOnly ==
  ASSUME IInv, NEW a \in Arrays, NEW n, NEW p \in Allocate(n, live \ Released(a)), NEW m,
         Exchange(Released(a), p, m),
         NEW c \in alive, c # a, alive' = alive, base'[c] = base[c], ext'[c] = ext[c]
  PROVE  Untouched(c)
<1>1. c \in Arrays
  BY DEF IInv, Types
<1>2. ASSUME Owns(c) PROVE base[c] \in live' /\ heap'[base[c]] = heap[base[c]]
  <2>1. HasElements(c)
    BY <1>2 DEF Owns, HasElements
  <2>2. base[c] \in live /\ base[c] \in Blocks
    BY <1>1, <2>1 DEF IInv, Types, OwnsProperly
  <2>3. base[c] \notin Released(a)
    <3>1. CASE NumElements(ext[a]) = 0
      BY <3>1 DEF Released
    <3>2. CASE NumElements(ext[a]) # 0
      <4>1. HasElements(a)
        BY <3>2, NumElementsNat DEF HasElements, IInv, Types
      <4>2. QED
        BY <1>1, <2>1, <3>2, <4>1 DEF IInv, Exclusive, Released
    <3>3. QED
      BY <3>1, <3>2
  <2>4. base[c] # p
    BY <2>2, <2>3, MemoryAssumption DEF Allocate
  <2>5. heap'[base[c]] = heap[base[c]]
    BY <2>2, <2>3, <2>4 DEF Exchange, Heap
  <2>6. QED
    BY <2>2, <2>3, <2>5 DEF Exchange
<1>3. QED
  BY <1>2 DEF Untouched

\* An assignment of elements to a, finished or not, leaves the others alone.
LEMMA OverwrittenHurtsTargetOnly ==
  ASSUME IInv, NEW a \in Arrays, Sound(a), NEW f, heap' = Overwritten(a, f),
         NEW c \in alive, c # a, UNCHANGED <<alive, base, live>>, ext'[c] = ext[c]
  PROVE  Untouched(c)
<1>1. c \in Arrays
  BY DEF IInv, Types
<1>2. ASSUME Owns(c) PROVE base[c] \in live' /\ heap'[base[c]] = heap[base[c]]
  <2>1. HasElements(c)
    BY <1>2 DEF Owns, HasElements
  <2>2. base[c] \in live /\ base[c] \in Blocks
    BY <1>1, <2>1 DEF IInv, Types, OwnsProperly
  <2>3. CASE NumElements(ext[a]) = 0
    BY <2>2, <2>3 DEF Overwritten
  <2>4. CASE NumElements(ext[a]) # 0
    <3>1. HasElements(a)
      BY <2>4, NumElementsNat DEF HasElements, IInv, Types
    <3>2. base[a] # base[c]
      BY <1>1, <2>1, <3>1 DEF IInv, Exclusive
    <3>3. heap' = [heap EXCEPT ![base[a]].elems = f]
      BY <2>4 DEF Overwritten
    <3>4. heap'[base[c]] = heap[base[c]]
      BY <2>2, <3>2, <3>3 DEF IInv, Types
    <3>5. QED
      BY <2>2, <3>4
  <2>5. QED
    BY <2>3, <2>4
<1>3. QED
  BY <1>2 DEF Untouched


\* The exceptions that cost an array its elements: its block is returned, and it
\* may have got another one, which has none.
Spoils(a, x, q, p, m) ==
  /\ a \in alive /\ alive' = alive
  /\ x \in Shapes /\ NumElements(x) > 0
  /\ p \in Allocate(IF p = Null THEN 0 ELSE NumElements(x), live \ Released(a))
  /\ q = (IF p = Null THEN base[a] ELSE p) /\ m.state # "built"
  /\ base' = [base EXCEPT ![a] = q] /\ ext' = [ext EXCEPT ![a] = x]
  /\ Exchange(Released(a), p, m)

LEMMA DamageSpoils ==
  ASSUME IInv, NEW a \in Arrays, Damages(a)
  PROVE  \E x, q, p, m : Spoils(a, x, q, p, m)
<1>1. \A x \in Shapes : NumElements(x) \in Nat
  BY NumElementsNat
<1>2. \A b \in Arrays : ext[b] \in Shapes
  BY DEF IInv, Types
<1>3. ASSUME NEW b \in Arrays, CopyAssignAllocateThrows(a, b)
      PROVE  Spoils(a, ext[b], base[a], Null, Unused)
  BY <1>2, <1>3 DEF CopyAssignAllocateThrows, Spoils, SetArray, Allocate, Usable, Sound, Unused, RawMemory
<1>4. ASSUME NEW x \in Extents, ReextentMovedAllocateThrows(a, x)
      PROVE  Spoils(a, x, base[a], Null, Unused)
  BY <1>4, ExtentsType DEF ReextentMovedAllocateThrows, Spoils, SetArray, Allocate, Usable, Sound,
                           Unused, RawMemory
<1>5. ASSUME NEW b \in Arrays, CopyAssignElementThrows(a, b)
      PROVE  \E p, m : Spoils(a, ext[b], p, p, m)
  <2>1. PICK p \in Allocate(NumElements(ext[b]), live \ Released(a)) :
          /\ SetArray(a, p, ext[b], AllocAfterCopy(a, b))
          /\ Exchange(Released(a), p, RawMemory(AllocAfterCopy(a, b), ext[b]))
    BY <1>5 DEF CopyAssignElementThrows
  <2>2. a \in alive /\ alive' = alive /\ NumElements(ext[b]) > 0
    BY <1>5 DEF CopyAssignElementThrows, Usable, Sound
  <2>3. p # Null
    BY <1>1, <1>2, <2>1, <2>2, MemoryAssumption DEF Allocate
  <2>4. Spoils(a, ext[b], p, p, RawMemory(AllocAfterCopy(a, b), ext[b]))
    BY <1>2, <2>1, <2>2, <2>3 DEF Spoils, SetArray, RawMemory
  <2>5. QED
    BY <2>4
<1>6. ASSUME NEW x \in Extents, ReextentMovedElementThrows(a, x)
      PROVE  \E p, m : Spoils(a, x, p, p, m)
  <2>1. PICK p \in Allocate(NumElements(x), live \ Released(a)) :
          /\ SetArray(a, p, x, alloc[a])
          /\ Exchange(Released(a), p, RawMemory(alloc[a], x))
    BY <1>6 DEF ReextentMovedElementThrows
  <2>2. a \in alive /\ alive' = alive /\ NumElements(x) > 0 /\ x \in Shapes
    BY <1>6, ExtentsType DEF ReextentMovedElementThrows, Usable, Sound
  <2>3. p # Null
    BY <1>1, <2>1, <2>2, MemoryAssumption DEF Allocate
  <2>4. Spoils(a, x, p, p, RawMemory(alloc[a], x))
    BY <2>1, <2>2, <2>3 DEF Spoils, SetArray, RawMemory
  <2>5. QED
    BY <2>4
<1>7. QED
  BY <1>3, <1>4, <1>5, <1>6 DEF Damages

LEMMA SpoilsOne ==
  ASSUME IInv, NEW a \in Arrays, NEW x, NEW q, NEW p, NEW m, Spoils(a, x, q, p, m),
         NEW c \in alive, c # a
  PROVE  Untouched(c) /\ base'[c] = base[c] /\ ext'[c] = ext[c]
<1>1. c \in Arrays
  BY DEF IInv, Types
<1>2. base'[c] = base[c] /\ ext'[c] = ext[c]
  BY <1>1 DEF Spoils, IInv, Types
<1>3. p \in Allocate(IF p = Null THEN 0 ELSE NumElements(x), live \ Released(a))
  BY DEF Spoils
<1>4. Exchange(Released(a), p, m) /\ alive' = alive
  BY DEF Spoils
<1>5. QED
  BY <1>2, <1>3, <1>4, ExchangeHurtsTargetOnly

\* Whatever is thrown.
LEMMA FailureIsLocal ==
  ASSUME IInv, NEW a \in Arrays, FailsOn(a), NEW c \in alive \ {a}
  PROVE  Untouched(c)
<1>1. CASE \E b \in Arrays : AssignmentInterrupted(a, b)
  <2>1. PICK b \in Arrays : AssignmentInterrupted(a, b)
    BY <1>1
  <2>2. PICK k \in 0 .. NumElements(ext[a]) - 1 :
               heap' = Overwritten(a, Interrupted(a, Elems(b), k))
    BY <2>1 DEF AssignmentInterrupted
  <2>3. Sound(a) /\ ext'[c] = ext[c] /\ UNCHANGED <<alive, base, live>>
    BY <2>1 DEF AssignmentInterrupted, Usable, IInv, Types
  <2>4. QED
    BY <2>2, <2>3, OverwrittenHurtsTargetOnly
<1>2. CASE \E r \in Archives : LoadAllocateThrows(a, r[1])
  <2>1. Clear(a)
    BY <1>2 DEF LoadAllocateThrows
  <2>2. c \in Arrays /\ c # a
    BY DEF IInv, Types
  <2>3. alive' = alive /\ base'[c] = base[c] /\ ext'[c] = ext[c]
        /\ Exchange(Released(a), Null, Unused)
    BY <2>1, <2>2 DEF Clear, IInv, Types
  <2>4. Null \in Allocate(0, live \ Released(a))
    BY DEF Allocate
  <2>5. QED
    BY <2>2, <2>3, <2>4, ExchangeHurtsTargetOnly
<1>3. CASE Damages(a)
  <2>1. PICK x, q, p, m : Spoils(a, x, q, p, m)
    BY <1>3, DamageSpoils
  <2>2. QED
    BY <2>1, SpoilsOne
<1>4. QED
  BY <1>1, <1>2, <1>3 DEF FailsOn, Damages

-----------------------------------------------------------------------------
(***************************************************************************)
(* The properties follow from the invariant.                               *)
(***************************************************************************)
LEMMA NextIInv == Careful /\ IInv /\ [Next]_vars => IInv'
<1> SUFFICES ASSUME Careful, IInv, [Next]_vars PROVE IInv'
  OBVIOUS
<1>1. \A a \in Arrays : ~Damages(a)
  BY DEF Careful, SafeThrows, LeakyThrows, Damages, CopyAssignAllocateThrows,
         CopyAssignElementThrows, ReextentMovedAllocateThrows, ReextentMovedElementThrows
<1>2. Preserved \/ FailsWithoutEffect
  BY <1>1, StepsPreserve DEF Careful
<1>3. QED
  BY <1>2, FailureLeaks, LeakIsHarmless DEF Preserved

LEMMA NextUndamaged == Disciplined /\ Undamaged /\ [Next]_vars => Undamaged'
<1> SUFFICES ASSUME Disciplined, Undamaged, [Next]_vars PROVE Undamaged'
  OBVIOUS
<1>1. \A a \in Arrays : ~Damages(a)
  BY DEF Disciplined, SafeThrows, Damages, CopyAssignAllocateThrows,
         CopyAssignElementThrows, ReextentMovedAllocateThrows, ReextentMovedElementThrows
<1>2. ~FailsWithoutEffect
  BY DEF Disciplined, SafeThrows, FailsWithoutEffect, ConstructThrows, ReextentElementThrows
<1>3. Preserved
  BY <1>1, <1>2, StepsPreserve DEF Disciplined, Undamaged
<1>4. QED
  BY <1>3 DEF Preserved, Undamaged

LEMMA Invariance ==
  ASSUME Careful
  PROVE  Spec => []IInv
<1>1. Init => IInv
  BY InitUndamaged DEF Undamaged
<1>2. IInv /\ [Next]_vars => IInv'
  BY NextIInv
<1>3. QED
  BY <1>1, <1>2, PTL DEF Spec

LEMMA NeverDamaged ==
  ASSUME Disciplined
  PROVE  Spec => []Undamaged
<1>1. Undamaged /\ [Next]_vars => Undamaged'
  BY NextUndamaged
<1>2. QED
  BY <1>1, InitUndamaged, PTL DEF Spec

\* A careful program runs into no undefined behaviour in the memory of its arrays,
\* although it may leak: nothing is freed twice, through another allocator or with
\* another size, and every element destroyed was built.
THEOREM MemorySafety ==
  ASSUME Careful
  PROVE  Spec => []NoUndefinedBehaviour
<1>1. IInv => NoUndefinedBehaviour
  BY DEF IInv, NoUndefinedBehaviour
<1>2. QED
  BY <1>1, Invariance, PTL

\* Every array with elements points to a block that holds exactly those elements.
THEOREM Contents ==
  ASSUME Careful
  PROVE  Spec => []ArraysHoldTheirElements
<1>1. IInv => ArraysHoldTheirElements
  BY DEF IInv, OwnsProperly, ArraysHoldTheirElements, Owns, HasElements
<1>2. QED
  BY <1>1, Invariance, PTL

\* The block of an array is no other array's, and comes from its allocator.
THEOREM Ownership ==
  ASSUME Careful
  PROVE  Spec => []OwnBlocks
<1>1. IInv => OwnBlocks
  <2> SUFFICES ASSUME IInv
               PROVE  OwnBlocks
    OBVIOUS
  <2>1. \A a \in Arrays : Owns(a) => HasElements(a)
    BY DEF Owns, HasElements
  <2>2. AllocatorsMatch
    BY <2>1 DEF IInv, OwnsProperly, AllocatorsMatch
  <2>3. NoSharedBlocks
    BY <2>1 DEF IInv, Exclusive, NoSharedBlocks
  <2>4. QED
    BY <2>2, <2>3 DEF OwnBlocks
<1>2. QED
  BY <1>1, Invariance, PTL

\* No memory leaks: every allocated block belongs to an array that exists, and so
\* none remains once the arrays are destroyed.
THEOREM NoLeaks ==
  ASSUME Disciplined
  PROVE  Spec => [](NoLeakedBlocks /\ (alive = {} => live = {}))
<1>1. Undamaged => NoLeakedBlocks /\ (alive = {} => live = {})
  <2> SUFFICES ASSUME Undamaged
               PROVE  NoLeakedBlocks /\ (alive = {} => live = {})
    OBVIOUS
  <2>1. \A a \in Arrays : HasElements(a) => Owns(a)
    BY NoExtentsEmpty DEF Undamaged, IInv, DeadOwnNothing, HasElements, Owns
  <2>2. NoLeakedBlocks
    BY <2>1 DEF Undamaged, Accounted, NoLeakedBlocks
  <2>3. alive = {} => live = {}
    BY <2>2 DEF NoLeakedBlocks, Owns
  <2>4. QED
    BY <2>2, <2>3
<1>2. QED
  BY <1>1, NeverDamaged, PTL

-----------------------------------------------------------------------------
(***************************************************************************)
(* Views stay valid, whatever is thrown and whatever allocators are mixed: *)
(* this part needs no discipline.                                          *)
(***************************************************************************)
LayoutsExist ==
  /\ base = [a \in Arrays |-> base[a]]
  /\ ext = [a \in Arrays |-> ext[a]]

\* Array c is at the same place as before, unless its extensions change.
Stays(c) == Owns(c) /\ Owns(c)' /\ ext[c] = ext'[c] => base[c] = base'[c]

MovedOrSwapped(c) == \E b \in Arrays : MoveAssign(c, b) \/ Swap(c, b) \/ Swap(b, c)

\* A step that gives a new block to one array only, which did not exist, gets
\* other extensions, or is left without elements.
LEMMA SetArrayStays ==
  ASSUME LayoutsExist, NEW a \in Arrays, NEW p, NEW x, NEW al, SetArray(a, p, x, al),
         a \notin alive \/ x # ext[a] \/ NumElements(x) = 0 \/ p = base[a]
  PROVE  LayoutsExist' /\ \A c \in Arrays : Stays(c)
<1>1. base' = [base EXCEPT ![a] = p] /\ ext' = [ext EXCEPT ![a] = x]
  BY DEF SetArray
<1>2. LayoutsExist'
  BY <1>1 DEF LayoutsExist
<1>3. ASSUME NEW c \in Arrays, c # a PROVE Stays(c)
  BY <1>1, <1>3 DEF LayoutsExist, Stays
<1>4. base'[a] = p /\ ext'[a] = x
  BY <1>1 DEF LayoutsExist
<1>5. CASE a \notin alive
  BY <1>2, <1>3, <1>5 DEF Stays, Owns
<1>6. CASE x # ext[a]
  BY <1>2, <1>3, <1>4, <1>6 DEF Stays
<1>7. CASE NumElements(x) = 0
  <2>1. ~Owns(a)'
    BY <1>4, <1>7 DEF Owns
  <2>2. QED
    BY <1>2, <1>3, <2>1 DEF Stays
<1>8. CASE p = base[a]
  BY <1>2, <1>3, <1>4, <1>8 DEF Stays
<1>9. QED
  BY <1>5, <1>6, <1>7, <1>8

\* A step that leaves all blocks where they are.
LEMMA SameBaseStays ==
  ASSUME LayoutsExist, UNCHANGED base,
         UNCHANGED ext \/ (\E a \in Arrays : \E x : ext' = [ext EXCEPT ![a] = x])
  PROVE  LayoutsExist' /\ \A c \in Arrays : Stays(c)
BY DEF LayoutsExist, Stays

LEMMA ConstructStays ==
  ASSUME LayoutsExist, NEW a \in Arrays, NEW x, NEW f, NEW al, Construct(a, x, f, al)
  PROVE  LayoutsExist' /\ \A c \in Arrays : Stays(c)
<1>1. PICK p \in Allocate(NumElements(x), live) : a \notin alive /\ SetArray(a, p, x, al)
  BY DEF Construct
<1>2. QED
  BY <1>1, SetArrayStays

LEMMA AssignTemporaryStays ==
  ASSUME LayoutsExist, NEW a \in Arrays, NEW x, NEW f, AssignTemporary(a, x, f), x # ext[a]
  PROVE  LayoutsExist' /\ \A c \in Arrays : Stays(c)
<1>1. PICK p \in Allocate(NumElements(x), live) :
             SetArray(a, p, x, IF POCMA THEN DefaultAlloc ELSE alloc[a])
  BY DEF AssignTemporary
<1>2. QED
  BY <1>1, SetArrayStays

\* The source of a construction that steals is left without elements.
LEMMA StealStays ==
  ASSUME LayoutsExist, NEW a \in Arrays, NEW b \in Arrays, NEW al, Steal(a, b, al)
  PROVE  LayoutsExist' /\ \A c \in Arrays : Stays(c)
<1>1. /\ base' = [base EXCEPT ![a] = base[b], ![b] = Null]
      /\ ext' = [ext EXCEPT ![a] = ext[b], ![b] = NoExtents]
      /\ a \notin alive
  BY DEF Steal
<1>2. LayoutsExist'
  BY <1>1 DEF LayoutsExist
<1>3. ASSUME NEW c \in Arrays, c # a, c # b PROVE Stays(c)
  BY <1>1, <1>3 DEF LayoutsExist, Stays
<1>4. Stays(a)
  BY <1>1 DEF Stays, Owns
<1>5. Stays(b)
  <2>1. ext'[b] = NoExtents
    BY <1>1 DEF LayoutsExist
  <2>2. ~Owns(b)'
    BY <2>1, NoExtentsEmpty DEF Owns
  <2>3. QED
    BY <2>2 DEF Stays
<1>6. QED
  BY <1>2, <1>3, <1>4, <1>5

\* Steps that construct.
Constructs ==
  \/ \E a \in Arrays, al \in Allocators : DefaultConstruct(a, al)
  \/ \E a \in Arrays : \E x, f, al : Construct(a, x, f, al)
  \/ \E a, b \in Arrays : MoveElementsInto(a, b)
  \/ \E a, b \in Arrays : \E al : Steal(a, b, al)

LEMMA ConstructsStay ==
  ASSUME LayoutsExist, Constructs
  PROVE  LayoutsExist' /\ \A c \in Arrays : Stays(c)
<1>1. ASSUME NEW a \in Arrays, NEW al \in Allocators, DefaultConstruct(a, al)
      PROVE  LayoutsExist' /\ \A c \in Arrays : Stays(c)
  BY <1>1, SetArrayStays DEF DefaultConstruct
<1>2. ASSUME NEW a \in Arrays, NEW b \in Arrays, MoveElementsInto(a, b)
      PROVE  LayoutsExist' /\ \A c \in Arrays : Stays(c)
  <2>1. PICK p \in Allocate(NumElements(ext[b]), live) :
               a \notin alive /\ SetArray(a, p, ext[b], alloc[b])
    BY <1>2 DEF MoveElementsInto
  <2>2. QED
    BY <2>1, SetArrayStays
<1>3. QED
  BY <1>1, <1>2, ConstructStays, StealStays DEF Constructs

\* Steps that change no more than the extensions, of one array.
InPlace ==
  UNCHANGED base /\ (UNCHANGED ext \/ \E a \in Arrays : \E x : ext' = [ext EXCEPT ![a] = x])

\* Steps after which one array has other extensions than before.
Resizes == \E a \in Arrays : \E p, x, al : SetArray(a, p, x, al) /\ x # ext[a]

LEMMA ResizesStay ==
  ASSUME LayoutsExist, Resizes
  PROVE  LayoutsExist' /\ \A c \in Arrays : Stays(c)
<1>1. PICK a \in Arrays : \E p, x, al : SetArray(a, p, x, al) /\ x # ext[a]
  BY DEF Resizes
<1>2. PICK p, x, al : SetArray(a, p, x, al) /\ x # ext[a]
  BY <1>1
<1>3. QED
  BY <1>2, SetArrayStays

LEMMA NextStays ==
  ASSUME LayoutsExist, [Next]_vars
  PROVE  LayoutsExist' /\ \A c \in Arrays : MovedOrSwapped(c) \/ Stays(c)
<1> DEFINE Goal == LayoutsExist' /\ \A c \in Arrays : MovedOrSwapped(c) \/ Stays(c)
<1>1. Constructs \/ InPlace \/ Resizes => Goal
  BY ConstructsStay, SameBaseStays, ResizesStay DEF InPlace
<1>2. CASE UNCHANGED vars
  BY <1>1, <1>2 DEF vars, InPlace
<1>3. ASSUME NEW a \in Arrays, NEW b \in Arrays, MoveAssign(a, b) \/ Swap(a, b) PROVE Goal
  <2>1. LayoutsExist'
    BY <1>3 DEF MoveAssign, Swap, LayoutsExist
  <2>2. ASSUME NEW c \in Arrays, c # a, c # b PROVE Stays(c)
    BY <1>3, <2>2 DEF MoveAssign, Swap, LayoutsExist, Stays
  <2>3. MovedOrSwapped(a)
    BY <1>3 DEF MovedOrSwapped
  <2>4. CASE Swap(a, b)
    BY <2>1, <2>2, <2>3, <2>4 DEF MovedOrSwapped
  <2>5. CASE MoveAssign(a, b)
    <3>1. ext'[b] = NoExtents
      BY <2>5 DEF MoveAssign, LayoutsExist
    <3>2. ~Owns(b)'
      BY <3>1, NoExtentsEmpty DEF Owns
    <3>3. QED
      BY <2>1, <2>2, <2>3, <3>2 DEF Stays
  <2>6. QED
    BY <1>3, <2>4, <2>5
<1>4. ASSUME NEW a \in Arrays, Destroy(a) PROVE Goal
  <2>1. SetArray(a, Null, NoExtents, DefaultAlloc)
    BY <1>4 DEF Destroy
  <2>2. QED
    BY <2>1, NoExtentsEmpty, SetArrayStays
<1>5. ASSUME NEW a \in Arrays, NEW x, NEW v, NEW al,
             FillConstruct(a, x, v, al) \/ PointConstruct(a, v, al)
      PROVE  Constructs
  BY <1>5 DEF FillConstruct, PointConstruct, Constructs
<1>6. ASSUME NEW a \in Arrays, NEW b \in Arrays, NEW view, NEW al,
             \/ CopyConstruct(a, b) \/ ViewConstruct(a, b, view, al) \/ RefConstruct(a, b, al)
             \/ PointCopyConstruct(a, b) \/ PointConvertConstruct(a, b, al)
      PROVE  Constructs
  BY <1>6 DEF CopyConstruct, ViewConstruct, RefConstruct, PointCopyConstruct,
              PointConvertConstruct, Constructs
<1>7. ASSUME NEW a \in Arrays, NEW b \in Arrays, NEW al,
             \/ StaticMoveConstruct(a, b) \/ PointMoveConstruct(a, b)
             \/ MoveConstruct(a, b) \/ MoveConstructWith(a, b, al)
      PROVE  Constructs
  BY <1>7 DEF StaticMoveConstruct, PointMoveConstruct, MoveConstruct, MoveConstructWith, Constructs
<1>8. ASSUME NEW a \in Arrays, NEW x, NEW f, AssignTemporary(a, x, f), x # ext[a]
      PROVE  Resizes
  BY <1>8 DEF AssignTemporary, Resizes
<1>9. ASSUME NEW a \in Arrays, NEW f, AssignElements(a, f) PROVE InPlace
  BY <1>9 DEF AssignElements, InPlace
<1>10. ASSUME NEW a \in Arrays, NEW b \in Arrays,
              \/ CopyAssignOther(a, b) \/ CopyAssignElementThrows(a, b)
              \/ CopyAssignAllocateThrows(a, b)
       PROVE  Resizes
  <2>1. ext[b] # ext[a]
    BY <1>10 DEF CopyAssignOther, CopyAssignElementThrows, CopyAssignAllocateThrows
  <2>2. \E p, al : SetArray(a, p, ext[b], al)
    BY <1>10 DEF CopyAssignOther, CopyAssignElementThrows, CopyAssignAllocateThrows
  <2>3. QED
    BY <2>1, <2>2 DEF Resizes
<1>11. ASSUME NEW a \in Arrays, NEW b \in Arrays,
              CopyAssignSame(a, b) \/ AssignmentInterrupted(a, b)
       PROVE  InPlace
  BY <1>11 DEF CopyAssignSame, AssignmentInterrupted, InPlace
<1>12. ASSUME NEW a \in Arrays, NEW b \in Arrays, NEW view,
              AssignView(a, b, view) \/ AssignRange(a, b, view) \/ AssignConverted(a, b)
       PROVE  InPlace \/ Resizes
  <2>1. CASE AssignView(a, b, view)
    BY <1>8, <1>9, <2>1 DEF AssignView
  <2>2. CASE AssignRange(a, b, view)
    BY <1>8, <1>9, <2>2 DEF AssignRange
  <2>3. CASE AssignConverted(a, b)
    <3>1. CASE NumElements(ext[a]) = NumElements(ext[b])
      BY <2>3, <3>1 DEF AssignConverted, InPlace
    <3>2. CASE NumElements(ext[a]) # NumElements(ext[b])
      BY <1>8, <2>3, <3>2 DEF AssignConverted
    <3>3. QED
      BY <3>1, <3>2
  <2>4. QED
    BY <1>12, <2>1, <2>2, <2>3
<1>13. ASSUME NEW a \in Arrays, NEW b \in Arrays, NEW v,
              \/ StaticCopyAssign(a, b) \/ PointCopyAssign(a, b)
              \/ PointConvertAssign(a, b) \/ PointAssign(a, v)
       PROVE  InPlace
  BY <1>9, <1>13 DEF StaticCopyAssign, PointCopyAssign, PointConvertAssign, PointAssign
<1>14. ASSUME NEW a \in Arrays, NEW b \in Arrays,
              StaticMoveAssign(a, b) \/ PointMoveAssign(a, b) \/ StaticSwap(a, b)
       PROVE  InPlace
  BY <1>14 DEF StaticMoveAssign, PointMoveAssign, StaticSwap, AssignBoth, InPlace
<1>15. ASSUME NEW a \in Arrays, NEW x, NEW v,
              \/ Reextent(a, x, v) \/ ReextentMoved(a, x)
              \/ ReextentMovedAllocateThrows(a, x) \/ ReextentMovedElementThrows(a, x)
       PROVE  Resizes
  <2>1. x # ext[a]
    BY <1>15 DEF Reextent, ReextentMoved, ReextentMovedAllocateThrows, ReextentMovedElementThrows
  <2>2. \E p, al : SetArray(a, p, x, al)
    BY <1>15 DEF Reextent, ReextentMoved, ReextentMovedAllocateThrows, ReextentMovedElementThrows
  <2>3. QED
    BY <2>1, <2>2 DEF Resizes
<1>16. ASSUME NEW a \in Arrays, NEW x, NEW f, Load(a, x, f) PROVE InPlace \/ Resizes
  <2>1. CASE x = ext[a]
    BY <1>9, <1>16, <2>1 DEF Load
  <2>2. CASE x # ext[a]
    BY <1>16, <2>2 DEF Load, Resizes
  <2>3. QED
    BY <2>1, <2>2
<1>17. ASSUME NEW a \in Arrays, NEW x, NEW k, NEW v,
              \/ Clear(a) \/ LoadAllocateThrows(a, x) \/ Reshape(a, x)
              \/ ReextentElementThrows(a, x) \/ Write(a, k, v)
       PROVE  InPlace
  BY <1>17 DEF Clear, LoadAllocateThrows, Reshape, ReextentElementThrows, Write, InPlace
<1>18. ASSUME NEW x, NEW al, ConstructThrows(x, al) PROVE InPlace
  BY <1>18 DEF ConstructThrows, InPlace
<1>19. ASSUME NEW a \in Arrays, NEW al \in Allocators, DefaultConstruct(a, al) PROVE Constructs
  BY <1>19 DEF Constructs
<1>20. ASSUME NEW a \in Arrays, NEW b \in Arrays, NEW x, NEW v, NEW view, NEW al,
              \/ PointDefaultConstruct(a, v) \/ PointValueConstruct(a, al)
              \/ ListConstruct(a, x, v) \/ RangeConstruct(a, b, view, al)
       PROVE  Constructs
  BY <1>5, <1>6, <1>20
  DEF PointDefaultConstruct, PointValueConstruct, ListConstruct, RangeConstruct
<1>21. QED
  BY <1>1, <1>2, <1>3, <1>4, <1>5, <1>6, <1>7, <1>10, <1>11, <1>12, <1>13, <1>14, <1>15, <1>16,
     <1>17, <1>18, <1>19, <1>20
  DEF Next

LEMMA LayoutsAlwaysExist == Spec => []LayoutsExist
<1>1. Init => LayoutsExist
  BY DEF Init, LayoutsExist
<1>2. LayoutsExist /\ [Next]_vars => LayoutsExist'
  BY NextStays
<1>3. QED
  BY <1>1, <1>2, PTL DEF Spec

\* Views, iterators and pointers of an array stay valid as long as it exists, keeps
\* its extensions and is neither moved from nor swapped: the elements do not move,
\* for every program, whatever is thrown.
THEOREM ElementsStay == Spec => ViewsStayValid
<1>1. LayoutsExist /\ [Next]_vars =>
        [\A a \in Arrays :
            Owns(a) /\ Owns(a)' /\ ext[a] = ext'[a]
              /\ ~(\E b \in Arrays : MoveAssign(a, b) \/ Swap(a, b) \/ Swap(b, a))
            => base[a] = base'[a]]_vars
  BY NextStays DEF MovedOrSwapped, Stays
<1>2. QED
  BY <1>1, LayoutsAlwaysExist, PTL DEF Spec, ViewsStayValid

-----------------------------------------------------------------------------
(***************************************************************************)
(* What exceptions leave behind.                                           *)
(***************************************************************************)
\* An exception that leaves an array half assigned, or cleared and not loaded,
\* leaves every other array with its block and its elements.
THEOREM FailuresAreLocal ==
  ASSUME Careful
  PROVE  Spec => FailureHurtsTargetOnly
<1>1. IInv /\ [Next]_vars =>
        [\A a \in Arrays : FailsOn(a) => \A c \in alive \ {a} : Untouched(c)]_vars
  BY FailureIsLocal
<1>2. QED
  BY <1>1, Invariance, PTL DEF Spec, FailureHurtsTargetOnly

\* An exception out of a constructor, of the temporary of an assignment or of
\* reextent on an lvalue may leak, but changes no array, whatever the program has
\* been through before.
THEOREM FailuresAreUndone ==
  ASSUME Careful
  PROVE  Spec => StrongGuarantee
<1>1. IInv /\ [Next]_vars => [FailsWithoutEffect => \A c \in alive : Untouched(c)]_vars
  BY FailureLeaks, LeakIsHarmless
<1>2. QED
  BY <1>1, Invariance, PTL DEF Spec, StrongGuarantee

\* The behaviours that end with the first damage.
UntilDamage == Init /\ [][Next /\ NoDamageYet]_vars

LEMMA UndamagedCostsNothing == Undamaged => {a \in alive : ~Sound(a)} = {} /\ LostBlocks = {}
<1> SUFFICES ASSUME Undamaged PROVE {a \in alive : ~Sound(a)} = {} /\ LostBlocks = {}
  OBVIOUS
<1>1. \A a \in alive : Sound(a)
  BY DEF Undamaged, IInv, Types, OwnsProperly, HasElements, Sound, Built
<1>2. \A b \in live : \E a \in Arrays : Owns(a) /\ base[a] = b
  BY NoExtentsEmpty DEF Undamaged, IInv, DeadOwnNothing, Accounted, HasElements, Owns
<1>3. QED
  BY <1>1, <1>2 DEF LostBlocks

\* One array at most is left without its elements, or one block without an array.
OneLoss ==
  \/ LostBlocks = {} /\ \E a : {k \in alive : ~Sound(k)} \subseteq {a}
  \/ {k \in alive : ~Sound(k)} = {} /\ \E p : LostBlocks \subseteq {p}

LEMMA OneLossIsContained == OneLoss => DamageIsContained
<1>1. ASSUME NEW S, NEW x, S \subseteq {x} PROVE Cardinality(S) \in {0, 1}
  <2>1. S = {} \/ S = {x}
    BY <1>1
  <2>2. QED
    BY <2>1, FS_EmptySet, FS_Singleton
<1>2. Cardinality({}) = 0
  BY FS_EmptySet
<1>3. ASSUME NEW S, NEW T, NEW x, S \subseteq {x}, T = {}
      PROVE  Cardinality(S) + Cardinality(T) <= 1 /\ Cardinality(T) + Cardinality(S) <= 1
  <2>1. PICK n \in {0, 1} : n = Cardinality(S)
    BY <1>1, <1>3
  <2>2. QED
    BY <1>2, <1>3, <2>1
<1>4. QED
  BY <1>3 DEF OneLoss, DamageIsContained

LEMMA LeakIsOneLoss ==
  ASSUME Undamaged, NEW p, Leaks(p)
  PROVE  OneLoss'
<1>1. IInv'
  BY LeakIsHarmless DEF Undamaged
<1>2. \A a \in alive' : Sound(a)'
  BY <1>1 DEF IInv, Types, OwnsProperly, HasElements, Sound, Built
<1>3. \A b \in live : \E a \in Arrays : Owns(a)' /\ base'[a] = b
  BY NoExtentsEmpty DEF Undamaged, IInv, DeadOwnNothing, Accounted, HasElements, Owns, Leaks
<1>4. LostBlocks' \subseteq {p}
  BY <1>3 DEF LostBlocks, Leaks
<1>5. {k \in alive : ~Sound(k)}' = {}
  BY <1>2
<1>6. QED
  BY <1>4, <1>5 DEF OneLoss

LEMMA SpoiledIsOneLoss ==
  ASSUME Undamaged, NEW a \in Arrays, NEW x, NEW q, NEW p, NEW m, Spoils(a, x, q, p, m)
  PROVE  OneLoss'
<1>1. IInv /\ Accounted
  BY DEF Undamaged
<1>2. ASSUME NEW c \in alive, c # a
      PROVE  /\ base'[c] = base[c] /\ ext'[c] = ext[c]
             /\ Owns(c) => base[c] \in live' /\ heap'[base[c]] = heap[base[c]]
  BY <1>1, <1>2, SpoilsOne DEF Untouched
<1>3. alive' = alive /\ alive \subseteq Arrays /\ a \in alive
  BY <1>1 DEF Spoils, IInv, Types
<1>4. ASSUME NEW c \in alive', c # a PROVE Sound(c)'
  <2>1. c \in alive /\ c \in Arrays
    BY <1>3
  <2>2. NumElements(ext[c]) > 0 => Owns(c) /\ heap[base[c]].state = "built"
    BY <1>1, <2>1 DEF IInv, OwnsProperly, HasElements, Owns
  <2>3. QED
    BY <1>2, <1>3, <1>4, <2>1, <2>2 DEF Sound, Built
<1>5. {k \in alive : ~Sound(k)}' \subseteq {a}
  BY <1>4
<1>6. ext'[a] = x /\ base'[a] = q /\ NumElements(x) > 0
  BY <1>1 DEF Spoils, IInv, Types
<1>7. ASSUME NEW b \in live' PROVE \E k \in Arrays : Owns(k)' /\ base'[k] = b
  <2>1. b \in live \ Released(a) \/ (b = p /\ p # Null)
    BY <1>7 DEF Spoils, Exchange
  <2>2. CASE b = p /\ p # Null
    BY <1>3, <1>6, <2>2 DEF Owns, Spoils
  <2>3. CASE b \in live \ Released(a)
    <3>1. PICK k \in Arrays : HasElements(k) /\ base[k] = b
      BY <1>1, <2>3 DEF Accounted
    <3>2. k # a
      BY <2>3, <3>1 DEF HasElements, Released
    <3>3. k \in alive
      BY <1>1, <3>1, NoExtentsEmpty DEF IInv, DeadOwnNothing, HasElements
    <3>4. QED
      BY <1>2, <1>3, <3>1, <3>2, <3>3 DEF Owns, HasElements
  <2>4. QED
    BY <2>1, <2>2, <2>3
<1>8. LostBlocks' = {}
  BY <1>7 DEF LostBlocks
<1>9. QED
  BY <1>5, <1>8 DEF OneLoss

\* They do not end before it.
LEMMA NothingShows == Undamaged => NoDamageYet
  BY NoExtentsEmpty
  DEF Undamaged, IInv, Types, DeadOwnNothing, OwnsProperly, Exclusive, Accounted, HasElements,
      NoDamageYet, ArraysHoldTheirElements, NoSharedBlocks, NoLeakedBlocks, NoUndefinedBehaviour,
      Owns

\* What is lost shows: a leaked block has no array ...
LEMMA LeakShows ==
  ASSUME Undamaged, NEW p, Leaks(p)
  PROVE  ~NoDamageYet'
<1>1. ASSUME NEW c \in Arrays, Owns(c)', base'[c] = p PROVE FALSE
  <2>1. HasElements(c) /\ base[c] = p
    BY <1>1 DEF Owns, HasElements, Leaks
  <2>2. QED
    BY <2>1 DEF Undamaged, IInv, OwnsProperly, Leaks
<1>2. p \in live'
  BY DEF Leaks
<1>3. QED
  BY <1>1, <1>2 DEF NoDamageYet, NoLeakedBlocks

\* ... and the array that an exception left with extensions but without elements
\* points to a block that is raw, that is gone, or that another array has.
LEMMA SpoiledShows ==
  ASSUME Undamaged, NEW a \in Arrays, NEW x, NEW q, NEW p, NEW m, Spoils(a, x, q, p, m)
  PROVE  ~NoDamageYet'
<1>1. IInv /\ Accounted
  BY DEF Undamaged
<1>2. a \in alive' /\ ext'[a] = x /\ base'[a] = q /\ NumElements(x) > 0
  BY <1>1 DEF Spoils, IInv, Types
<1>3. CASE p # Null
  <2>1. q = p /\ p \in Blocks
    BY <1>3 DEF Spoils, Allocate
  <2>2. heap'[q] = m
    BY <2>1 DEF Spoils, Exchange, Heap
  <2>3. QED
    BY <1>2, <2>2 DEF Spoils, NoDamageYet, ArraysHoldTheirElements, Owns
<1>4. CASE p = Null /\ base[a] \notin live'
  BY <1>2, <1>4 DEF Spoils, NoDamageYet, ArraysHoldTheirElements, Owns
<1>5. CASE p = Null /\ base[a] \in live'
  <2>1. base[a] \in live \ Released(a)
    BY <1>5 DEF Spoils, Exchange
  <2>2. PICK k \in Arrays : HasElements(k) /\ base[k] = base[a]
    BY <1>1, <2>1 DEF Accounted
  <2>3. k # a
    BY <2>1, <2>2 DEF HasElements, Released
  <2>4. k \in alive' /\ base'[k] = base[k] /\ ext'[k] = ext[k]
    BY <1>1, <2>2, <2>3, NoExtentsEmpty DEF Spoils, IInv, Types, DeadOwnNothing, HasElements
  <2>5. Owns(k)' /\ Owns(a)' /\ base'[k] = base'[a]
    BY <1>2, <1>5, <2>2, <2>4 DEF Owns, HasElements, Spoils
  <2>6. QED
    BY <2>3, <2>5 DEF NoDamageYet, NoSharedBlocks
<1>6. QED
  BY <1>3, <1>4, <1>5

\* The invariant of these behaviours: what is damaged shows, and is one thing.
Damaged == OneLoss /\ ~NoDamageYet

LEMMA UntilDamageInvariance ==
  ASSUME Compatible
  PROVE  UntilDamage => [](Undamaged \/ Damaged)
<1>1. Undamaged \/ Damaged => (NoDamageYet => Undamaged)
  BY DEF Damaged
<1>2. ASSUME Undamaged \/ Damaged, [Next /\ NoDamageYet]_vars PROVE (Undamaged \/ Damaged)'
  <2>1. CASE UNCHANGED vars
    BY <1>2, <2>1 DEF vars, Undamaged, IInv, Types, DeadOwnNothing, OwnsProperly, HasElements,
                      Exclusive, Accounted, Damaged, OneLoss, LostBlocks, Sound, Built, Owns,
                      NoDamageYet, ArraysHoldTheirElements, NoSharedBlocks, NoLeakedBlocks,
                      NoUndefinedBehaviour
  <2>2. CASE Next /\ NoDamageYet
    <3>1. Undamaged
      BY <1>1, <1>2, <2>2
    <3>2. Preserved \/ FailsWithoutEffect \/ \E a \in Arrays : Damages(a)
      BY <2>2, <3>1, StepsPreserve DEF Undamaged
    <3>3. CASE Preserved
      BY <3>1, <3>3 DEF Preserved, Undamaged
    <3>4. CASE FailsWithoutEffect
      <4>1. PICK p : Leaks(p)
        BY <3>1, <3>4, FailureLeaks DEF Undamaged
      <4>2. QED
        BY <3>1, <4>1, LeakIsOneLoss, LeakShows DEF Damaged
    <3>5. CASE \E a \in Arrays : Damages(a)
      <4>1. PICK a \in Arrays : Damages(a)
        BY <3>5
      <4>2. PICK x, q, p, m : Spoils(a, x, q, p, m)
        BY <3>1, <4>1, DamageSpoils DEF Undamaged
      <4>3. QED
        BY <3>1, <4>2, SpoiledIsOneLoss, SpoiledShows DEF Damaged
    <3>6. QED
      BY <3>2, <3>3, <3>4, <3>5
  <2>3. QED
    BY <1>2, <2>1, <2>2
<1>3. QED
  BY <1>2, InitUndamaged, PTL DEF UntilDamage

\* The first exception, whatever it is, costs one thing at most: a block that
\* nothing returns, or an array whose memory does not hold its elements.
THEOREM FirstDamageIsContained ==
  ASSUME Compatible
  PROVE  UntilDamage => []DamageIsContained
<1>1. Undamaged => OneLoss
  BY UndamagedCostsNothing DEF OneLoss
<1>2. Undamaged \/ Damaged => DamageIsContained
  BY <1>1, OneLossIsContained DEF Damaged
<1>3. QED
  BY <1>2, UntilDamageInvariance, PTL

\* And it hurts no array but the one that it leaves an assignment, a reextent or a
\* load of, or none at all.
THEOREM FirstFailureIsLocal ==
  ASSUME Compatible
  PROVE  UntilDamage => FailureHurtsTargetOnly /\ StrongGuarantee
<1>1. Undamaged => /\ \A a \in Arrays : FailsOn(a) => \A c \in alive \ {a} : Untouched(c)
                   /\ FailsWithoutEffect => \A c \in alive : Untouched(c)
  BY FailureIsLocal, FailureLeaks, LeakIsHarmless DEF Undamaged
<1>2. (Undamaged \/ Damaged) /\ [Next /\ NoDamageYet]_vars =>
        [\A a \in Arrays : FailsOn(a) => \A c \in alive \ {a} : Untouched(c)]_vars
  BY <1>1 DEF Damaged
<1>3. (Undamaged \/ Damaged) /\ [Next /\ NoDamageYet]_vars =>
        [FailsWithoutEffect => \A c \in alive : Untouched(c)]_vars
  BY <1>1 DEF Damaged
<1>4. QED
  BY <1>2, <1>3, UntilDamageInvariance, PTL
  DEF UntilDamage, FailureHurtsTargetOnly, StrongGuarantee

-----------------------------------------------------------------------------
(***************************************************************************)
(* Arrays are values: the refinement of ArrayValues, whose state is what   *)
(* the extensions and the memory of each array are worth.  Besides the     *)
(* invariant it takes that the memory holds an element for every index.    *)
(***************************************************************************)
\* What array a is worth to its user.
Worth(a) == Value(ext[a], Elems(a))

\* The index of element k of extensions x.
Where(x, k) == <<k \div x[2], k % x[2]>>

Grid(x) == (0 .. x[1] - 1) \X (0 .. x[2] - 1)

LEMMA Divided ==
  ASSUME NEW m \in Nat \ {0}, NEW q \in Nat, NEW r \in 0 .. m - 1
  PROVE  (q * m + r) \div m = q /\ (q * m + r) % m = r
<1>1. PICK n \in Nat : n = q * m + r
  OBVIOUS
<1>2. PICK d \in Nat, s \in 0 .. m - 1 : d = n \div m /\ s = n % m /\ n = d * m + s
  OBVIOUS
<1>3. ~(d < q)
  <2> SUFFICES ASSUME d + 1 <= q PROVE FALSE
    OBVIOUS
  <2>1. PICK u \in Nat, v \in Nat : u = d * m /\ v = q * m
    OBVIOUS
  <2>2. u + m <= v
    <3>1. (d + 1) * m <= q * m /\ (d + 1) * m = d * m + m
      OBVIOUS
    <3>2. QED
      BY <2>1, <3>1
  <2>3. QED
    BY <1>1, <1>2, <2>1, <2>2
<1>4. ~(q < d)
  <2> SUFFICES ASSUME q + 1 <= d PROVE FALSE
    OBVIOUS
  <2>1. PICK u \in Nat, v \in Nat : u = d * m /\ v = q * m
    OBVIOUS
  <2>2. v + m <= u
    <3>1. (q + 1) * m <= d * m /\ (q + 1) * m = q * m + m
      OBVIOUS
    <3>2. QED
      BY <2>1, <3>1
  <2>3. QED
    BY <1>1, <1>2, <2>1, <2>2
<1>5. QED
  BY <1>1, <1>2, <1>3, <1>4

\* The element at index i of extensions x, and the index of element k.
LEMMA Placed ==
  ASSUME NEW x \in Nat \X Nat, NEW i \in Grid(x)
  PROVE  i[1] * x[2] + i[2] \in 0 .. x[1] * x[2] - 1 /\ Where(x, i[1] * x[2] + i[2]) = i
<1>1. PICK n \in Nat, m \in Nat : x[1] = n /\ x[2] = m
  OBVIOUS
<1>2. PICK q \in 0 .. n - 1, r \in 0 .. m - 1 : i = <<q, r>>
  BY <1>1 DEF Grid
<1>3. q \in Nat /\ m \in Nat \ {0} /\ n \in Nat
  BY <1>1, <1>2
<1>4. (q + 1) * m <= n * m /\ (q + 1) * m = q * m + m
  BY <1>2, <1>3
<1>5. q * m + r \in 0 .. n * m - 1
  <2>1. PICK u \in Nat, v \in Nat : u = q * m /\ v = n * m
    BY <1>3
  <2>2. QED
    BY <1>2, <1>3, <1>4, <2>1
<1>6. (q * m + r) \div m = q /\ (q * m + r) % m = r
  BY <1>2, <1>3, Divided
<1>7. QED
  BY <1>1, <1>2, <1>5, <1>6 DEF Where

LEMMA Located ==
  ASSUME NEW x \in Nat \X Nat, NEW k \in 0 .. x[1] * x[2] - 1
  PROVE  /\ Where(x, k) \in Grid(x)
         /\ Where(x, k)[1] * x[2] + Where(x, k)[2] = k
<1>1. PICK n \in Nat, m \in Nat : x[1] = n /\ x[2] = m
  OBVIOUS
<1>2. k \in Nat /\ k < n * m /\ m # 0
  BY <1>1
<1>3. PICK q \in Nat, r \in 0 .. m - 1 : q = k \div m /\ r = k % m /\ k = q * m + r
  BY <1>1, <1>2
<1>4. q < n
  <2> SUFFICES ASSUME n <= q PROVE FALSE
    BY <1>1, <1>3
  <2>1. n * m <= q * m
    BY <1>1
  <2>2. QED
    BY <1>1, <1>2, <1>3, <2>1
<1>5. QED
  BY <1>1, <1>3, <1>4 DEF Where, Grid

\* A value is its extensions and the elements of its indices.
LEMMA ValueOf ==
  ASSUME NEW x \in Shapes, NEW f, NEW g,
         \A k \in 0 .. NumElements(x) - 1 : f[k] = g[k]
  PROVE  Value(x, f) = Value(x, g)
<1>1. CASE x = Point
  BY <1>1, PointHasOne DEF Value
<1>2. CASE x # Point
  <2>1. x \in Nat \X Nat /\ NumElements(x) = x[1] * x[2]
    BY <1>2 DEF Shapes, NumElements
  <2>2. \A i \in Grid(x) : f[i[1] * x[2] + i[2]] = g[i[1] * x[2] + i[2]]
    BY <2>1, Placed
  <2>3. [i \in Grid(x) |-> f[i[1] * x[2] + i[2]]] = [i \in Grid(x) |-> g[i[1] * x[2] + i[2]]]
    BY <2>2
  <2>4. QED
    BY <1>2, <2>3 DEF Value, Grid
<1>3. QED
  BY <1>1, <1>2

LEMMA EmptyValue ==
  ASSUME NEW x \in Shapes, ~(NumElements(x) > 0), NEW f, NEW g
  PROVE  Value(x, f) = Value(x, g)
  BY NumElementsNat, ValueOf

\* The memory of an array holds its elements, no more and no less.
AllOf(x, f) == NumElements(x) > 0 => DOMAIN f = 0 .. NumElements(x) - 1

Full(a) == AllOf(ext[a], Elems(a))

AllFull == \A a \in Arrays : Full(a)

\* In a step, an array keeps its value, or gets elements f in extensions x.
Keeps(c) == Worth(c)' = Worth(c) /\ (Full(c) => Full(c)')

Gets(a, x, f) == Worth(a)' = Value(x, f) /\ (AllOf(x, f) => Full(a)')

LEMMA ElementsInBlocks ==
  ASSUME IInv, NEW c \in Arrays, HasElements(c)
  PROVE  base[c] \in live /\ base[c] \in Blocks /\ Elems(c) = heap[base[c]].elems
  BY DEF IInv, Types, OwnsProperly, Elems

LEMMA KeepsIt ==
  ASSUME IInv, NEW c \in Arrays, ext'[c] = ext[c],
         HasElements(c) => /\ base'[c] = base[c]
                           /\ heap'[base[c]].elems = heap[base[c]].elems
  PROVE  Keeps(c)
<1>1. ext[c] \in Shapes
  BY DEF IInv, Types
<1>2. CASE HasElements(c)
  <2>1. Elems(c)' = Elems(c)
    BY <1>2, ElementsInBlocks DEF Elems
  <2>2. QED
    BY <2>1 DEF Keeps, Worth, Full, AllOf
<1>3. CASE ~HasElements(c)
  <2>1. Value(ext[c], Elems(c)') = Value(ext[c], Elems(c))
    BY <1>1, <1>3, EmptyValue DEF HasElements
  <2>2. QED
    BY <1>3, <2>1 DEF Keeps, Worth, Full, AllOf, HasElements
<1>4. QED
  BY <1>2, <1>3

LEMMA GetsIt ==
  ASSUME NEW a \in Arrays, NEW x \in Shapes, NEW f, ext'[a] = x,
         NumElements(x) > 0 => base'[a] \in Blocks /\ heap'[base'[a]].elems = f
  PROVE  Gets(a, x, f)
<1>1. CASE NumElements(x) > 0
  <2>1. Elems(a)' = f
    BY <1>1 DEF Elems
  <2>2. QED
    BY <2>1 DEF Gets, Worth, Full
<1>2. CASE ~(NumElements(x) > 0)
  <2>1. Value(x, Elems(a)') = Value(x, f)
    BY <1>2, EmptyValue
  <2>2. QED
    BY <1>2, <2>1 DEF Gets, Worth, Full, AllOf
<1>3. QED
  BY <1>1, <1>2

\* Array a exchanges its block for one with elements f.
LEMMA Exchanges ==
  ASSUME IInv, NEW a \in Arrays, NEW x \in Shapes, NEW al, NEW q, NEW m, NEW f,
         NEW p \in Allocate(NumElements(x), live \ Released(a)),
         NumElements(x) > 0 => q = p /\ m.elems = f,
         SetArray(a, q, x, al), Exchange(Released(a), p, m)
  PROVE  Gets(a, x, f) /\ \A c \in Arrays \ {a} : Keeps(c)
<1>1. /\ base' = [base EXCEPT ![a] = q]
      /\ ext' = [ext EXCEPT ![a] = x]
  BY DEF SetArray
<1>2. Types /\ NumElements(x) \in Nat /\ NumElements(ext[a]) \in Nat
  BY NumElementsNat DEF IInv, Types
<1>3. \A k \in Blocks : heap'[k] = IF k = p THEN m ELSE IF k \in Released(a) THEN Unused ELSE heap[k]
  BY DEF Exchange, Heap
<1>4. NumElements(x) > 0 => p \in Blocks
  BY <1>2 DEF Allocate
<1>5. ext'[a] = x /\ base'[a] = q
  BY <1>1, <1>2 DEF Types
<1>6. Gets(a, x, f)
  BY <1>3, <1>4, <1>5, GetsIt
<1>7. ASSUME NEW c \in Arrays \ {a} PROVE Keeps(c)
  <2>1. ext'[c] = ext[c] /\ base'[c] = base[c]
    BY <1>1, <1>2 DEF Types
  <2>2. ASSUME HasElements(c) PROVE heap'[base[c]] = heap[base[c]]
    <3>1. base[c] \in live /\ base[c] \in Blocks
      BY <2>2, ElementsInBlocks
    <3>2. base[c] \notin Released(a)
      BY <1>2, <2>2 DEF IInv, Exclusive, HasElements, Released
    <3>3. base[c] # p
      BY <3>1, <3>2, MemoryAssumption DEF Allocate
    <3>4. QED
      BY <1>3, <3>1, <3>2, <3>3
  <2>3. QED
    BY <2>1, <2>2, KeepsIt
<1>8. QED
  BY <1>6, <1>7

\* Array a gets elements f in the block it has.
LEMMA OverwritesElements ==
  ASSUME IInv, NEW a \in Arrays, NEW x \in Shapes, NEW f,
         NumElements(x) = NumElements(ext[a]), heap' = Overwritten(a, f),
         base' = base, ext' = [ext EXCEPT ![a] = x]
  PROVE  Gets(a, x, f) /\ \A c \in Arrays \ {a} : Keeps(c)
<1>1. Types /\ NumElements(x) \in Nat
  BY NumElementsNat DEF IInv
<1>2. ext'[a] = x /\ \A c \in Arrays \ {a} : ext'[c] = ext[c]
  BY <1>1 DEF Types
<1>3. CASE NumElements(x) = 0
  <2>1. heap' = heap
    BY <1>3 DEF Overwritten
  <2>2. QED
    BY <1>2, <1>3, <2>1, GetsIt, KeepsIt
<1>4. CASE NumElements(x) # 0
  <2>1. heap' = [heap EXCEPT ![base[a]].elems = f] /\ HasElements(a)
    BY <1>1, <1>4 DEF Overwritten, HasElements
  <2>2. base[a] \in Blocks
    BY <2>1, ElementsInBlocks
  <2>3. heap'[base[a]] = [heap[base[a]] EXCEPT !.elems = f]
    BY <1>1, <2>1, <2>2 DEF Types
  <2>4. heap'[base[a]].elems = f
    BY <1>1, <2>2, <2>3 DEF Types, IsMemory
  <2>5. Gets(a, x, f)
    BY <1>2, <2>2, <2>4, GetsIt
  <2>6. ASSUME NEW c \in Arrays \ {a} PROVE Keeps(c)
    <3>1. HasElements(c) => base[c] \in Blocks /\ base[c] # base[a]
      BY <2>1, ElementsInBlocks DEF IInv, Exclusive
    <3>2. HasElements(c) => heap'[base[c]] = heap[base[c]]
      BY <1>1, <2>1, <3>1 DEF Types
    <3>3. QED
      BY <1>2, <3>2, KeepsIt
  <2>7. QED
    BY <2>5, <2>6
<1>5. QED
  BY <1>3, <1>4

LEMMA AssignsElements ==
  ASSUME IInv, NEW a \in Arrays, NEW f, AssignElements(a, f)
  PROVE  Gets(a, ext[a], f) /\ \A c \in Arrays \ {a} : Keeps(c)
<1>1. ext[a] \in Shapes /\ ext' = [ext EXCEPT ![a] = ext[a]] /\ base' = base
  BY DEF IInv, Types, AssignElements
<1>2. QED
  BY <1>1, OverwritesElements DEF AssignElements

\* Arrays a and b get elements f and g, each in the block it has.
LEMMA AssignsBoth ==
  ASSUME IInv, NEW a \in Arrays, NEW b \in Arrays, NEW f, NEW g, a # b, ext[a] = ext[b],
         AssignBoth(a, f, b, g)
  PROVE  /\ Gets(a, ext[a], f) /\ Gets(b, ext[b], g)
         /\ \A c \in Arrays \ {a, b} : Keeps(c)
<1>1. Types /\ ext[a] \in Shapes /\ NumElements(ext[a]) \in Nat
  BY NumElementsNat DEF IInv, Types
<1>2. ext' = ext /\ base' = base
  BY DEF AssignBoth
<1>3. CASE NumElements(ext[a]) = 0
  <2>1. heap' = heap
    BY <1>3 DEF AssignBoth
  <2>2. QED
    BY <1>1, <1>2, <1>3, <2>1, GetsIt, KeepsIt
<1>4. CASE NumElements(ext[a]) # 0
  <2>1. heap' = [heap EXCEPT ![base[a]].elems = f, ![base[b]].elems = g]
    BY <1>4 DEF AssignBoth
  <2>2. HasElements(a) /\ HasElements(b)
    BY <1>1, <1>4 DEF HasElements
  <2>3. base[a] \in Blocks /\ base[b] \in Blocks /\ base[a] # base[b]
    BY <2>2, ElementsInBlocks DEF IInv, Exclusive
  <2>4. /\ heap'[base[a]] = [heap[base[a]] EXCEPT !.elems = f]
        /\ heap'[base[b]] = [heap[base[b]] EXCEPT !.elems = g]
        /\ \A k \in Blocks \ {base[a], base[b]} : heap'[k] = heap[k]
    BY <1>1, <2>1, <2>3 DEF Types
  <2>5. heap'[base[a]].elems = f /\ heap'[base[b]].elems = g
    BY <1>1, <2>3, <2>4 DEF Types, IsMemory
  <2>6. Gets(a, ext[a], f) /\ Gets(b, ext[b], g)
    BY <1>1, <1>2, <2>3, <2>5, GetsIt
  <2>7. ASSUME NEW c \in Arrays \ {a, b} PROVE Keeps(c)
    <3>1. HasElements(c) => base[c] \in Blocks \ {base[a], base[b]}
      BY <2>2, ElementsInBlocks DEF IInv, Exclusive
    <3>2. QED
      BY <1>2, <2>4, <3>1, KeepsIt
  <2>8. QED
    BY <2>6, <2>7
<1>5. QED
  BY <1>3, <1>4

\* Array a takes a new block with the elements of b, which is left with f.
LEMMA MovesInto ==
  ASSUME IInv, NEW a \in Arrays, NEW b \in Arrays, Sound(b), MoveElementsInto(a, b)
  PROVE  \E f \in Vacated(b) :
           /\ Gets(a, ext[b], Elems(b)) /\ Gets(b, ext[b], f)
           /\ \A c \in Arrays \ {a, b} : Keeps(c)
<1> DEFINE x == ext[b]
<1>1. PICK p \in Allocate(NumElements(x), live), f \in Vacated(b) :
        /\ SetArray(a, p, x, alloc[b])
        /\ heap' = [k \in Blocks |-> IF k = p THEN Memory(alloc[b], x, Elems(b))
                                    ELSE Overwritten(b, f)[k]]
  BY DEF MoveElementsInto
<1>2. a \notin alive /\ b \in alive /\ a # b
  BY DEF MoveElementsInto, Sound
<1>3. Types /\ x \in Shapes /\ NumElements(x) \in Nat
  BY NumElementsNat DEF IInv, Types
<1>4. /\ ext'[a] = x /\ base'[a] = p
      /\ \A c \in Arrays \ {a} : ext'[c] = ext[c] /\ base'[c] = base[c]
  BY <1>1, <1>3 DEF SetArray, Types
<1>5. ~HasElements(a)
  BY <1>2, NoExtentsEmpty DEF IInv, DeadOwnNothing, HasElements
<1>6. \A c \in Arrays : HasElements(c) => base[c] \in Blocks /\ base[c] # p
  BY <1>1, ElementsInBlocks, MemoryAssumption DEF Allocate
<1>7. Gets(a, x, Elems(b))
  <2>1. NumElements(x) > 0 => p \in Blocks /\ heap'[p].elems = Elems(b)
    BY <1>1, <1>3 DEF Allocate, Memory
  <2>2. QED
    BY <1>3, <1>4, <2>1, GetsIt
<1>8. ASSUME NumElements(x) > 0
      PROVE  /\ heap'[base[b]].elems = f
             /\ \A c \in Arrays \ {a, b} : HasElements(c) => heap'[base[c]] = heap[base[c]]
  <2>1. HasElements(b) /\ base[b] \in Blocks /\ base[b] # p
    BY <1>6, <1>8 DEF HasElements
  <2>2. Overwritten(b, f) = [heap EXCEPT ![base[b]].elems = f]
    BY <1>8 DEF Overwritten
  <2>3. /\ Overwritten(b, f)[base[b]] = [heap[base[b]] EXCEPT !.elems = f]
        /\ \A k \in Blocks : k # base[b] => Overwritten(b, f)[k] = heap[k]
    BY <1>3, <2>1, <2>2 DEF Types
  <2>4. heap'[base[b]] = [heap[base[b]] EXCEPT !.elems = f]
    BY <1>1, <2>1, <2>3
  <2>5. heap'[base[b]].elems = f
    BY <1>3, <2>1, <2>4 DEF Types, IsMemory
  <2>6. \A c \in Arrays \ {a, b} : HasElements(c) => base[c] # base[b]
    BY <2>1 DEF IInv, Exclusive
  <2>7. QED
    BY <1>1, <1>6, <2>3, <2>5, <2>6
<1>9. Gets(b, x, f)
  <2>1. NumElements(x) > 0 => base[b] \in Blocks
    BY <1>6 DEF HasElements
  <2>2. QED
    BY <1>2, <1>3, <1>4, <1>8, <2>1, GetsIt
<1>10. ASSUME NEW c \in Arrays \ {a, b} PROVE Keeps(c)
  <2>1. HasElements(c) => heap'[base[c]] = heap[base[c]]
    <3>1. CASE NumElements(x) > 0
      BY <1>8, <3>1
    <3>2. CASE ~(NumElements(x) > 0)
      BY <1>1, <1>3, <1>6, <3>2 DEF Overwritten
    <3>3. QED
      BY <3>1, <3>2
  <2>2. QED
    BY <1>4, <2>1, KeepsIt
<1>11. QED
  BY <1>7, <1>9, <1>10

-----------------------------------------------------------------------------
(***************************************************************************)
(* The values after a step, and the steps of ArrayValues.                  *)
(***************************************************************************)
Val == [c \in alive |-> Worth(c)]

\* Array a, new or not, becomes worth w, and no other changes its value.
Becomes(a, w) ==
  /\ alive' = alive \cup {a}
  /\ Worth(a)' = w
  /\ \A c \in alive \ {a} : Worth(c)' = Worth(c)

LEMMA ValIs == /\ DOMAIN Val = alive
               /\ \A c \in alive : Val[c] = Worth(c)
  BY DEF Val

LEMMA WithIs ==
  ASSUME NEW a, NEW w, Becomes(a, w)
  PROVE  Val' = Abstract!With(a, w)
<1>1. Val' = [c \in alive' |-> Worth(c)']
  BY DEF Val
<1>2. Abstract!With(a, w) = [c \in alive \cup {a} |-> IF c = a THEN w ELSE Worth(c)]
  BY DEF Abstract!With, Worth
<1>3. QED
  BY <1>1, <1>2 DEF Becomes

LEMMA IndicesAre ==
  /\ Abstract!Indices(Point) = {<<>>}
  /\ \A x \in Nat \X Nat : Abstract!Indices(x) = Grid(x) /\ x # Point
  BY ExtentsAssumption DEF Abstract!Indices, Grid

LEMMA FilledIs ==
  ASSUME NEW x \in Shapes, NEW v
  PROVE  Value(x, Filled(x, v)) = Abstract!Filled(x, v)
<1>1. CASE x = Point
  <2>1. Filled(x, v)[0] = v
    BY <1>1, PointHasOne DEF Filled
  <2>2. QED
    BY <1>1, <2>1, IndicesAre DEF Value, Abstract!Filled, Abstract!Array
<1>2. CASE x # Point
  <2>1. x \in Nat \X Nat /\ NumElements(x) = x[1] * x[2]
    BY <1>2 DEF Shapes, NumElements
  <2>2. \A i \in Grid(x) : Filled(x, v)[i[1] * x[2] + i[2]] = v
    BY <2>1, Placed DEF Filled
  <2>3. Value(x, Filled(x, v)) = [ext |-> x, at |-> [i \in Grid(x) |-> v]]
    BY <1>2, <2>2 DEF Value, Grid
  <2>4. QED
    BY <2>1, <2>3, IndicesAre DEF Abstract!Filled, Abstract!Array
<1>3. QED
  BY <1>1, <1>2

LEMMA MakeStep ==
  ASSUME NEW a \in Arrays, NEW x \in Extents \cup {NoExtents, Point}, NEW v \in Values,
         Becomes(a, Value(x, Filled(x, v)))
  PROVE  Abstract!Next
<1>1. x \in Shapes
  BY ExtentsType, PointHasOne, NoExtentsEmpty
<1>2. Val' = Abstract!With(a, Abstract!Filled(x, v))
  BY <1>1, WithIs, FilledIs
<1>3. Abstract!Make(a, x, v)
  BY <1>2 DEF Abstract!Make, Val, Worth
<1>4. QED
  BY <1>3 DEF Abstract!Next, NoExtents

LEMMA CopyStep ==
  ASSUME NEW a \in Arrays, NEW b \in alive, Becomes(a, Worth(b))
  PROVE  Abstract!Next
<1>1. Abstract!Copy(a, b)
  BY WithIs DEF Abstract!Copy, Val, Worth
<1>2. QED
  BY <1>1 DEF Abstract!Next

\* What an array of two dimensions is worth, element by element.
LEMMA WorthIs ==
  ASSUME IInv, NEW b \in Arrays, ext[b] # Point
  PROVE  /\ ext[b] \in Nat \X Nat
         /\ NumElements(ext[b]) = ext[b][1] * ext[b][2]
         /\ Worth(b) = [ext |-> ext[b],
                        at |-> [i \in Grid(ext[b]) |-> Elems(b)[i[1] * ext[b][2] + i[2]]]]
         /\ Abstract!Indices(ext[b]) = Grid(ext[b])
<1>1. ext[b] \in Nat \X Nat
  BY DEF IInv, Types, Shapes
<1>2. QED
  BY <1>1, IndicesAre DEF NumElements, Worth, Value, Grid

\* A view of an array is worth the array, its transposition or its first row.
LEMMA ViewIs ==
  ASSUME IInv, NEW b \in Arrays, Viewable(b), NEW view \in Views
  PROVE  Value(ViewExtents(b, view), ViewElements(b, view))
           \in {Worth(b), Abstract!Rotated(Worth(b)), Abstract!FirstRow(Worth(b))}
<1> DEFINE x == ViewExtents(b, view)
           f == ViewElements(b, view)
<1>1. ext[b] # Point /\ NumElements(ext[b]) > 0
  BY DEF Viewable, Usable
<1>2. /\ ext[b] \in Nat \X Nat
      /\ NumElements(ext[b]) = ext[b][1] * ext[b][2]
      /\ Worth(b) = [ext |-> ext[b],
                     at |-> [i \in Grid(ext[b]) |-> Elems(b)[i[1] * ext[b][2] + i[2]]]]
  BY <1>1, WorthIs
<1>3. PICK n \in Nat, m \in Nat : ext[b] = <<n, m>>
  BY <1>2
<1>4. n > 0 /\ m > 0
  BY <1>1, <1>2, <1>3
<1>5. x \in Nat \X Nat /\ x # Point /\ NumElements(x) = x[1] * x[2]
  BY <1>3, IndicesAre DEF ViewExtents, NumElements
<1>6. Value(x, f) = [ext |-> x, at |-> [i \in Grid(x) |-> f[i[1] * x[2] + i[2]]]]
  BY <1>5 DEF Value, Grid
<1>7. CASE view = "all"
  <2>1. x = ext[b]
    BY <1>7 DEF ViewExtents
  <2>2. \A k \in 0 .. NumElements(x) - 1 : f[k] = Elems(b)[k]
    BY <1>7 DEF ViewElements
  <2>3. Value(x, f) = Value(x, Elems(b))
    BY <2>1, <2>2, <1>5, ValueOf, ZenonT(30) DEF Shapes
  <2>4. QED
    BY <2>1, <2>3 DEF Worth
<1>8. CASE view = "taked"
  <2>1. x = <<1, m>>
    BY <1>3, <1>8 DEF ViewExtents
  <2>2. \A k \in 0 .. NumElements(x) - 1 : f[k] = Elems(b)[k]
    BY <1>8 DEF ViewElements
  <2>3. ASSUME NEW i \in Grid(x)
        PROVE  /\ i \in Grid(ext[b])
               /\ f[i[1] * x[2] + i[2]] = Elems(b)[i[1] * ext[b][2] + i[2]]
    <3>1. i[1] * x[2] + i[2] \in 0 .. NumElements(x) - 1
      BY <1>5, Placed
    <3>2. QED
      BY <2>1, <2>2, <3>1, <1>3, <1>4 DEF Grid
  <2>4. Abstract!FirstRow(Worth(b)) = [ext |-> x, at |-> [i \in Grid(x) |-> Worth(b).at[i]]]
    <3> DEFINE y == <<1, Worth(b).ext[2]>>
    <3>1. Abstract!FirstRow(Worth(b))
            = [ext |-> y, at |-> [i \in Abstract!Indices(y) |-> Worth(b).at[i]]]
      BY DEF Abstract!FirstRow, Abstract!Array
    <3>2. y = x
      BY <1>2, <1>3, <2>1
    <3> HIDE DEF x, y
    <3>3. QED
      BY <3>1, <3>2, <1>5, IndicesAre
  <2>5. \A i \in Grid(x) : Worth(b).at[i] = f[i[1] * x[2] + i[2]]
    BY <1>2, <2>3
  <2>6. Value(x, f) = Abstract!FirstRow(Worth(b))
    BY <1>6, <2>4, <2>5
  <2>7. QED
    BY <2>6
<1>9. CASE view = "rotated"
  <2>1. x = <<m, n>>
    BY <1>3, <1>9 DEF ViewExtents
  <2>2. \A k \in 0 .. NumElements(x) - 1 : f[k] = Elems(b)[(k % x[2]) * x[1] + k \div x[2]]
    BY <1>9 DEF ViewElements
  <2>3. ASSUME NEW i \in Grid(x)
        PROVE  /\ <<i[2], i[1]>> \in Grid(ext[b])
               /\ f[i[1] * x[2] + i[2]] = Elems(b)[i[2] * ext[b][2] + i[1]]
    <3>1. PICK k \in 0 .. NumElements(x) - 1 :
            /\ k = i[1] * x[2] + i[2]
            /\ k \div x[2] = i[1] /\ k % x[2] = i[2]
      <4>1. Where(x, i[1] * x[2] + i[2]) = i /\ i[1] * x[2] + i[2] \in 0 .. NumElements(x) - 1
        BY <1>5, Placed
      <4>2. i = <<i[1], i[2]>>
        BY DEF Grid
      <4>3. QED
        BY <4>1, <4>2 DEF Where
    <3>2. f[k] = Elems(b)[i[2] * x[1] + i[1]]
      BY <2>2, <3>1
    <3>3. QED
      BY <2>1, <3>1, <3>2, <1>3 DEF Grid
  <2>4. Abstract!Rotated(Worth(b))
          = [ext |-> x, at |-> [i \in Grid(x) |-> Worth(b).at[<<i[2], i[1]>>]]]
    <3> DEFINE y == <<Worth(b).ext[2], Worth(b).ext[1]>>
    <3>1. Abstract!Rotated(Worth(b))
            = [ext |-> y, at |-> [i \in Abstract!Indices(y) |-> Worth(b).at[<<i[2], i[1]>>]]]
      BY DEF Abstract!Rotated, Abstract!Array
    <3>2. y = x
      BY <1>2, <1>3, <2>1
    <3> HIDE DEF x, y
    <3>3. QED
      BY <3>1, <3>2, <1>5, IndicesAre
  <2>5. \A i \in Grid(x) : Worth(b).at[<<i[2], i[1]>>] = f[i[1] * x[2] + i[2]]
    <3>1. \A j \in Grid(ext[b]) : Worth(b).at[j] = Elems(b)[j[1] * ext[b][2] + j[2]]
      BY <1>2
    <3> SUFFICES ASSUME NEW i \in Grid(x)
                 PROVE  Worth(b).at[<<i[2], i[1]>>] = f[i[1] * x[2] + i[2]]
      OBVIOUS
    <3>2. PICK j \in Grid(ext[b]) : j = <<i[2], i[1]>>
      BY <2>3
    <3>3. Worth(b).at[j] = Elems(b)[i[2] * ext[b][2] + i[1]]
      BY <3>1, <3>2
    <3> HIDE DEF f, x
    <3>4. QED
      BY <2>3, <3>2, <3>3
  <2>6. Value(x, f) = Abstract!Rotated(Worth(b))
    BY <1>6, <2>4, <2>5
  <2>7. QED
    BY <2>6
<1>10. QED
  BY <1>7, <1>8, <1>9 DEF Views

LEMMA ViewStep ==
  ASSUME IInv, NEW a \in Arrays, NEW b \in Arrays, Viewable(b), NEW view \in Views,
         Becomes(a, Value(ViewExtents(b, view), ViewElements(b, view)))
  PROVE  Abstract!Next
<1>1. PICK w \in {Worth(b), Abstract!Rotated(Worth(b)), Abstract!FirstRow(Worth(b))} :
        Val' = Abstract!With(a, w)
  BY ViewIs, WithIs
<1>2. b \in alive /\ ext[b] # Point /\ NumElements(ext[b]) > 0
  BY DEF Viewable, Usable, Sound
<1>3. Val[b] = Worth(b) /\ Worth(b).ext = ext[b]
  BY <1>2, ValIs DEF Worth, Value
<1>4. Abstract!Count(ext[b]) = NumElements(ext[b])
  BY DEF Abstract!Count, NumElements
<1>5. Abstract!CopyView(a, b)
  <2>1. /\ Val[b].ext # Point /\ Abstract!Count(Val[b].ext) > 0
        /\ \E u \in {Val[b], Abstract!Rotated(Val[b]), Abstract!FirstRow(Val[b])} :
             Val' = Abstract!With(a, u)
    BY <1>1, <1>2, <1>3, <1>4
  <2>2. QED
    BY <2>1 DEF Abstract!CopyView, Val, Worth
<1>6. QED
  BY <1>2, <1>5 DEF Abstract!Next

LEMMA LoadStep ==
  ASSUME NEW a \in alive, a \in Arrays, NEW r \in Archives, Becomes(a, Value(r[1], r[2]))
  PROVE  Abstract!Next
<1>1. Abstract!Load(a)
  BY WithIs DEF Abstract!Load, Val, Worth
<1>2. QED
  BY <1>1 DEF Abstract!Next

\* Arrays a, new or not, and b become worth v and w.
BothBecome(a, v, b, w) ==
  /\ alive' = alive \cup {a}
  /\ Worth(a)' = v /\ Worth(b)' = w
  /\ \A c \in alive \ {a, b} : Worth(c)' = Worth(c)

LEMMA BothAre ==
  ASSUME NEW a, NEW b \in alive, NEW v, NEW w, a # b, BothBecome(a, v, b, w)
  PROVE  Val' = [c \in alive \cup {a} |-> IF c = a THEN v ELSE IF c = b THEN w ELSE Val[c]]
<1>1. Val' = [c \in alive' |-> Worth(c)']
  BY DEF Val
<1>2. QED
  BY <1>1 DEF BothBecome, Val

LEMMA EmptyIs ==
  ASSUME NEW f
  PROVE  Value(NoExtents, f) = Abstract!Empty
<1>1. Value(NoExtents, f) = Value(NoExtents, Filled(NoExtents, DefaultValue))
  BY EmptyValue, NoExtentsEmpty
<1>2. QED
  BY <1>1, FilledIs, NoExtentsEmpty DEF Abstract!Empty, NoExtents

LEMMA MoveStep ==
  ASSUME NEW a \in Arrays, NEW b \in alive, a # b, NEW f,
         NEW v, v = Worth(b), NEW w, w = Value(NoExtents, f), BothBecome(a, v, b, w)
  PROVE  Abstract!Next
<1>1. Val' = [c \in alive \cup {a} |-> IF c = a THEN Val[b]
                                      ELSE IF c = b THEN Abstract!Empty ELSE Val[c]]
  <2>1. Val' = [c \in alive \cup {a} |-> IF c = a THEN v ELSE IF c = b THEN w ELSE Val[c]]
    BY BothAre, SMTT(30)
  <2>2. v = Val[b] /\ w = Abstract!Empty
    BY EmptyIs, ValIs
  <2>3. QED
    BY <2>1, <2>2
<1>2. Abstract!Move(a, b)
  BY <1>1, ValIs DEF Abstract!Move, Val, Worth
<1>3. QED
  BY <1>2 DEF Abstract!Next

LEMMA MoveElementsStep ==
  ASSUME IInv, NEW a \in Arrays, NEW b \in alive, a # b, NEW f \in Vacated(b),
         BothBecome(a, Worth(b), b, Value(ext[b], f))
  PROVE  Abstract!Next
<1>1. ext[b] \in Shapes /\ Val[b] = Worth(b) /\ Worth(b).ext = ext[b]
  BY ValIs DEF IInv, Types, Worth, Value
<1>2. Value(ext[b], f) \in {Val[b], Abstract!Filled(Val[b].ext, DefaultValue)}
  BY <1>1, FilledIs DEF Vacated, Worth
<1>3. Val' = [c \in alive \cup {a} |-> IF c = a THEN Val[b]
                                      ELSE IF c = b THEN Value(ext[b], f) ELSE Val[c]]
  <2>1. PICK v, w : v = Worth(b) /\ w = Value(ext[b], f) /\ BothBecome(a, v, b, w)
    OBVIOUS
  <2>2. Val' = [c \in alive \cup {a} |-> IF c = a THEN v ELSE IF c = b THEN w ELSE Val[c]]
    BY <2>1, BothAre, SMTT(30)
  <2>3. QED
    BY <1>1, <2>1, <2>2
<1>4. \E w \in {Val[b], Abstract!Filled(Val[b].ext, DefaultValue)} :
        Val' = [c \in alive \cup {a} |-> IF c = a THEN Val[b] ELSE IF c = b THEN w ELSE Val[c]]
  BY <1>2, <1>3
<1>5. Abstract!MoveElements(a, b)
  BY <1>4, ValIs DEF Abstract!MoveElements, Val, Worth
<1>6. QED
  BY <1>5 DEF Abstract!Next

LEMMA SwapStep ==
  ASSUME NEW a \in alive, a \in Arrays, NEW b \in alive, a # b,
         BothBecome(a, Worth(b), b, Worth(a))
  PROVE  Abstract!Next
<1>1. Val' = [c \in alive |-> IF c = a THEN Val[b] ELSE IF c = b THEN Val[a] ELSE Val[c]]
  <2>1. alive \cup {a} = alive
    OBVIOUS
  <2>2. QED
    BY <2>1, BothAre, ValIs, SMTT(30)
<1>2. Val' = [Val EXCEPT ![a] = Val[b], ![b] = Val[a]]
  BY <1>1, ValIs DEF Val
<1>3. Abstract!Swap(a, b)
  BY <1>2, ValIs DEF Abstract!Swap, Val, Worth
<1>4. QED
  BY <1>3 DEF Abstract!Next

LEMMA DestroyStep ==
  ASSUME NEW a \in alive, alive' = alive \ {a}, \A c \in alive \ {a} : Worth(c)' = Worth(c)
  PROVE  Abstract!Next
<1>1. Val' = [c \in alive \ {a} |-> Val[c]]
  BY DEF Val
<1>2. Abstract!Destroy(a)
  BY <1>1, ValIs DEF Abstract!Destroy, Val, Worth
<1>3. QED
  BY <1>2 DEF Abstract!Next

\* The elements in other extensions, in the same order.
LEMMA ReshapeStep ==
  ASSUME IInv, NEW a \in alive, NEW x \in Extents, ext[a] # Point,
         NumElements(x) = NumElements(ext[a]), Becomes(a, Value(x, Elems(a)))
  PROVE  Abstract!Next
<1>1. x \in Nat \X Nat /\ x # Point /\ NumElements(x) = x[1] * x[2] /\ a \in Arrays
  BY ExtentsAssumption, IndicesAre DEF NumElements, IInv, Types
<1>2. /\ ext[a] \in Nat \X Nat
      /\ NumElements(ext[a]) = ext[a][1] * ext[a][2]
      /\ Worth(a) = [ext |-> ext[a],
                     at |-> [i \in Grid(ext[a]) |-> Elems(a)[i[1] * ext[a][2] + i[2]]]]
  BY <1>1, WorthIs
<1> DEFINE at(i) == Worth(a).at[Where(ext[a], i[1] * x[2] + i[2])]
<1>3. ASSUME NEW i \in Grid(x) PROVE at(i) = Elems(a)[i[1] * x[2] + i[2]]
  <2>1. PICK k \in 0 .. ext[a][1] * ext[a][2] - 1 : k = i[1] * x[2] + i[2]
    BY <1>1, <1>2, Placed
  <2>2. Where(ext[a], k) \in Grid(ext[a]) /\ Where(ext[a], k)[1] * ext[a][2] + Where(ext[a], k)[2] = k
    BY <1>2, Located
  <2>3. \A j \in Grid(ext[a]) : Worth(a).at[j] = Elems(a)[j[1] * ext[a][2] + j[2]]
    BY <1>2
  <2>4. QED
    BY <2>1, <2>2, <2>3
<1>4. Abstract!Reshaped(Worth(a), x) = [ext |-> x, at |-> [i \in Grid(x) |-> at(i)]]
  <2>1. Abstract!Indices(x) = Grid(x) /\ Worth(a).ext = ext[a]
    BY <1>1, <1>2, IndicesAre
  <2>2. QED
    BY <2>1 DEF Abstract!Reshaped, Abstract!Array, Where
<1>5. Value(x, Elems(a)) = [ext |-> x, at |-> [i \in Grid(x) |-> Elems(a)[i[1] * x[2] + i[2]]]]
  BY <1>1 DEF Value, Grid
<1>6. Value(x, Elems(a)) = Abstract!Reshaped(Val[a], x)
  <2> HIDE DEF at
  <2>1. QED
    BY <1>3, <1>4, <1>5, ValIs
<1>7. /\ Val[a].ext # Point /\ Abstract!Count(x) = Abstract!Count(Val[a].ext)
      /\ Val' = Abstract!With(a, Abstract!Reshaped(Val[a], x))
  <2>1. Val[a].ext = ext[a]
    BY <1>2, ValIs
  <2>2. Abstract!Count(x) = NumElements(x) /\ Abstract!Count(ext[a]) = NumElements(ext[a])
    BY DEF Abstract!Count, NumElements
  <2>3. Val' = Abstract!With(a, Abstract!Reshaped(Val[a], x))
    BY <1>6, WithIs
  <2>4. QED
    BY <2>1, <2>2, <2>3
<1>8. Abstract!Reshape(a, x)
  BY <1>7 DEF Abstract!Reshape, Val, Worth
<1>9. QED
  BY <1>8 DEF Abstract!Next

\* The elements of common indices in other extensions, and copies of v.
LEMMA ReextentStep ==
  ASSUME IInv, NEW a \in alive, NEW x \in Extents, NEW v \in Values, ext[a] # Point,
         Becomes(a, Value(x, Extended(a, x, v)))
  PROVE  Abstract!Next
<1>1. x \in Nat \X Nat /\ x # Point /\ NumElements(x) = x[1] * x[2] /\ a \in Arrays
  BY ExtentsAssumption, IndicesAre DEF NumElements, IInv, Types
<1>2. /\ ext[a] \in Nat \X Nat
      /\ Worth(a) = [ext |-> ext[a],
                     at |-> [i \in Grid(ext[a]) |-> Elems(a)[i[1] * ext[a][2] + i[2]]]]
      /\ Abstract!Indices(ext[a]) = Grid(ext[a])
  BY <1>1, WorthIs
<1> DEFINE f == Extended(a, x, v)
           at(i) == IF i \in Grid(ext[a]) THEN Worth(a).at[i] ELSE v
<1>3. ASSUME NEW i \in Grid(x) PROVE f[i[1] * x[2] + i[2]] = at(i)
  <2>1. PICK k \in 0 .. NumElements(x) - 1 :
          k = i[1] * x[2] + i[2] /\ k \div x[2] = i[1] /\ k % x[2] = i[2]
    <3>1. Where(x, i[1] * x[2] + i[2]) = i /\ i[1] * x[2] + i[2] \in 0 .. NumElements(x) - 1
      BY <1>1, Placed
    <3>2. i = <<i[1], i[2]>>
      BY DEF Grid
    <3>3. QED
      BY <3>1, <3>2 DEF Where
  <2>2. f[k] = IF i[1] < ext[a][1] /\ i[2] < ext[a][2] THEN Elems(a)[i[1] * ext[a][2] + i[2]] ELSE v
    BY <2>1 DEF Extended
  <2>3. i[1] < ext[a][1] /\ i[2] < ext[a][2] <=> i \in Grid(ext[a])
    BY <1>1, <1>2 DEF Grid
  <2>4. \A j \in Grid(ext[a]) : Worth(a).at[j] = Elems(a)[j[1] * ext[a][2] + j[2]]
    BY <1>2
  <2>5. QED
    BY <2>1, <2>2, <2>3, <2>4
<1>4. Abstract!Reextended(Worth(a), x, v) = [ext |-> x, at |-> [i \in Grid(x) |-> at(i)]]
  <2>1. Abstract!Indices(x) = Grid(x) /\ Worth(a).ext = ext[a]
    BY <1>1, <1>2, IndicesAre
  <2>2. QED
    BY <1>2, <2>1 DEF Abstract!Reextended, Abstract!Array
<1>5. Value(x, f) = [ext |-> x, at |-> [i \in Grid(x) |-> f[i[1] * x[2] + i[2]]]]
  BY <1>1 DEF Value, Grid
<1>6. Value(x, f) = Abstract!Reextended(Val[a], x, v)
  <2> HIDE DEF at, f
  <2>1. QED
    BY <1>3, <1>4, <1>5, ValIs
<1>7. Val[a].ext # Point /\ Val' = Abstract!With(a, Abstract!Reextended(Val[a], x, v))
  BY <1>2, <1>6, ValIs, WithIs
<1>8. Abstract!Reextent(a, x, v)
  BY <1>7 DEF Abstract!Reextent, Val, Worth
<1>9. QED
  BY <1>8 DEF Abstract!Next

LEMMA WriteStep ==
  ASSUME IInv, NEW a \in alive, NEW k \in 0 .. NumElements(ext[a]) - 1, NEW v \in Values,
         NEW f, f = Elems(a), DOMAIN f = 0 .. NumElements(ext[a]) - 1,
         Becomes(a, Value(ext[a], [f EXCEPT ![k] = v]))
  PROVE  Abstract!Next
<1> DEFINE g == [f EXCEPT ![k] = v]
<1>1. g[k] = v /\ \A m \in 0 .. NumElements(ext[a]) - 1 : m # k => g[m] = f[m]
  OBVIOUS
<1>2. PICK i \in Abstract!Indices(ext[a]) :
        Value(ext[a], g) = [Worth(a) EXCEPT !.at = [Worth(a).at EXCEPT ![i] = v]]
  <2> HIDE DEF g
  <2>1. CASE ext[a] = Point
    <3>1. k = 0 /\ <<>> \in Abstract!Indices(ext[a])
      BY <2>1, PointHasOne, IndicesAre
    <3>2. Worth(a) = [ext |-> ext[a], at |-> [j \in {<<>>} |-> f[0]]]
      BY <2>1 DEF Worth, Value
    <3>3. Value(ext[a], g) = [ext |-> ext[a], at |-> [j \in {<<>>} |-> v]]
      BY <2>1, <3>1, <1>1 DEF Value
    <3>4. [Worth(a).at EXCEPT ![<<>>] = v] = [j \in {<<>>} |-> v]
      BY <3>2
    <3>5. Value(ext[a], g) = [Worth(a) EXCEPT !.at = [Worth(a).at EXCEPT ![<<>>] = v]]
      BY <3>2, <3>3, <3>4, SMTT(30)
    <3>6. QED
      BY <3>1, <3>5
  <2>2. CASE ext[a] # Point
    <3>1. /\ ext[a] \in Nat \X Nat
          /\ NumElements(ext[a]) = ext[a][1] * ext[a][2]
          /\ Worth(a) = [ext |-> ext[a],
                         at |-> [j \in Grid(ext[a]) |-> f[j[1] * ext[a][2] + j[2]]]]
          /\ Abstract!Indices(ext[a]) = Grid(ext[a])
      <4>1. a \in Arrays
        BY DEF IInv, Types
      <4>2. QED
        BY <2>2, <4>1, WorthIs
    <3>2. PICK i : i = Where(ext[a], k) /\ i \in Grid(ext[a]) /\ i[1] * ext[a][2] + i[2] = k
      BY <3>1, Located
    <3>3. Value(ext[a], g) = [ext |-> ext[a],
                              at |-> [j \in Grid(ext[a]) |-> g[j[1] * ext[a][2] + j[2]]]]
      BY <2>2 DEF Value, Grid
    <3>4. ASSUME NEW j \in Grid(ext[a])
          PROVE  g[j[1] * ext[a][2] + j[2]] = IF j = i THEN v ELSE f[j[1] * ext[a][2] + j[2]]
      <4>1. PICK m \in 0 .. NumElements(ext[a]) - 1 :
              m = j[1] * ext[a][2] + j[2] /\ Where(ext[a], m) = j
        BY <3>1, Placed
      <4>2. m = k <=> j = i
        BY <3>2, <4>1
      <4>3. QED
        BY <1>1, <4>1, <4>2
    <3>5. [Worth(a).at EXCEPT ![i] = v]
            = [j \in Grid(ext[a]) |-> IF j = i THEN v ELSE f[j[1] * ext[a][2] + j[2]]]
      BY <3>1, <3>2
    <3>6. [Worth(a).at EXCEPT ![i] = v] = [j \in Grid(ext[a]) |-> g[j[1] * ext[a][2] + j[2]]]
      BY <3>4, <3>5
    <3>7. Value(ext[a], g) = [Worth(a) EXCEPT !.at = [Worth(a).at EXCEPT ![i] = v]]
      <4>1. PICK h : h = [Worth(a).at EXCEPT ![i] = v]
        OBVIOUS
      <4>2. [Worth(a) EXCEPT !.at = h] = [ext |-> ext[a], at |-> h]
        BY ONLY <3>1
      <4>3. QED
        BY <3>3, <3>6, <4>1, <4>2
    <3>8. QED
      BY <3>1, <3>2, <3>7
  <2>3. QED
    BY <2>1, <2>2
<1>3. Val' = [c \in alive \cup {a} |-> IF c = a THEN Value(ext[a], g) ELSE Worth(c)]
  BY DEF Val, Becomes
<1>4. Val' = [Val EXCEPT ![a] = [Worth(a) EXCEPT !.at = [Worth(a).at EXCEPT ![i] = v]]]
  <2> HIDE DEF g
  <2>1. QED
    BY <1>2, <1>3, ValIs DEF Val
<1>5. Val' = [Val EXCEPT ![a].at[i] = v]
  BY <1>4, ValIs
<1>6. Abstract!Write(a, i, v)
  BY <1>5 DEF Abstract!Write, Val, Worth
<1>7. i \in Abstract!Indices(Val[a].ext)
  BY <1>2, ValIs DEF Worth, Value
<1>8. QED
  BY <1>6, <1>7, ValIs DEF Abstract!Next, Val, Worth

LEMMA SameStep ==
  ASSUME alive' = alive, \A c \in alive : Worth(c)' = Worth(c)
  PROVE  Val' = Val
  BY DEF Val

-----------------------------------------------------------------------------
(***************************************************************************)
(* Every step of the arrays is a step of their values.                     *)
(***************************************************************************)
Implements == (Abstract!Next \/ Val' = Val) /\ AllFull'

LEMMA BecomesIt ==
  ASSUME IInv, AllFull, NEW a \in Arrays, NEW x, NEW f, Gets(a, x, f), AllOf(x, f),
         \A c \in Arrays \ {a} : Keeps(c), alive' = alive \cup {a}
  PROVE  Becomes(a, Value(x, f)) /\ AllFull'
  BY DEF IInv, Types, Becomes, Gets, Keeps, AllFull

LEMMA BothBecomeIt ==
  ASSUME IInv, AllFull, NEW a \in Arrays, NEW b \in Arrays,
         NEW x, NEW f, Gets(a, x, f), AllOf(x, f),
         NEW y, NEW g, Gets(b, y, g), AllOf(y, g),
         \A c \in Arrays \ {a, b} : Keeps(c), alive' = alive \cup {a}
  PROVE  BothBecome(a, Value(x, f), b, Value(y, g)) /\ AllFull'
  BY DEF IInv, Types, BothBecome, Gets, Keeps, AllFull

LEMMA FilledIsAll ==
  ASSUME NEW x, NEW v
  PROVE  AllOf(x, Filled(x, v))
  BY DEF AllOf, Filled

\* Construction of any kind.
LEMMA ConstructedAs ==
  ASSUME IInv, AllFull, NEW a \in Arrays, NEW x \in Shapes, NEW f, AllOf(x, f), NEW al,
         Construct(a, x, f, al)
  PROVE  Becomes(a, Value(x, f)) /\ AllFull'
<1>1. a \notin alive /\ alive' = alive \cup {a}
  BY DEF Construct
<1>2. PICK p \in Allocate(NumElements(x), live) :
        /\ SetArray(a, p, x, al)
        /\ Exchange({}, p, Memory(al, x, f))
  BY DEF Construct
<1>3. Released(a) = {}
  BY <1>1, NoExtentsEmpty DEF IInv, DeadOwnNothing, Released
<1>4. p \in Allocate(NumElements(x), live \ Released(a)) /\ Exchange(Released(a), p, Memory(al, x, f))
  <2>1. live \ Released(a) = live
    BY <1>3
  <2>2. QED
    BY <1>2, <1>3, <2>1
<1>5. Memory(al, x, f).elems = f
  BY DEF Memory
<1>6. Gets(a, x, f) /\ \A c \in Arrays \ {a} : Keeps(c)
  BY <1>2, <1>4, <1>5, Exchanges
<1>7. QED
  BY <1>1, <1>6, BecomesIt

LEMMA AssignsTemporary ==
  ASSUME IInv, AllFull, NEW a \in alive, NEW x \in Shapes, NEW f, AllOf(x, f),
         AssignTemporary(a, x, f)
  PROVE  Becomes(a, Value(x, f)) /\ AllFull'
<1>1. PICK p \in Allocate(NumElements(x), live) :
        /\ SetArray(a, p, x, IF POCMA THEN DefaultAlloc ELSE alloc[a])
        /\ Exchange(Released(a), p, Memory(DefaultAlloc, x, f))
  BY DEF AssignTemporary
<1>2. p \in Allocate(NumElements(x), live \ Released(a))
  BY <1>1 DEF Allocate
<1>3. Memory(DefaultAlloc, x, f).elems = f /\ a \in Arrays
  BY DEF Memory, IInv, Types
<1>4. Gets(a, x, f) /\ \A c \in Arrays \ {a} : Keeps(c)
  BY <1>1, <1>2, <1>3, Exchanges
<1>5. alive' = alive \cup {a}
  BY DEF AssignTemporary
<1>6. QED
  BY <1>3, <1>4, <1>5, BecomesIt

\* A copy of b has the value of b, and all its elements.
LEMMA CopiesAll ==
  ASSUME AllFull, NEW b \in Arrays
  PROVE  AllOf(ext[b], Elems(b)) /\ Value(ext[b], Elems(b)) = Worth(b)
  BY DEF AllFull, Full, Worth

LEMMA ViewsAll ==
  ASSUME NEW b, NEW view
  PROVE  AllOf(ViewExtents(b, view), ViewElements(b, view))
  BY DEF AllOf, ViewElements

LEMMA UsableIs ==
  ASSUME NEW a, Usable(a) \/ UsablePoint(a) \/ Viewable(a) \/ Sound(a)
  PROVE  a \in alive /\ Sound(a)
  BY DEF Usable, UsablePoint, Viewable, Sound

LEMMA FillsImplement ==
  ASSUME IInv, AllFull, NEW a \in Arrays, NEW x \in Extents \cup {Point}, NEW v \in Values, NEW al,
         Construct(a, x, Filled(x, v), al)
  PROVE  Implements
<1>1. x \in Shapes
  BY ExtentsType, PointHasOne
<1>2. Becomes(a, Value(x, Filled(x, v))) /\ AllFull'
  BY <1>1, FilledIsAll, ConstructedAs
<1>3. QED
  BY <1>2, MakeStep DEF Implements

LEMMA CopiesImplement ==
  ASSUME IInv, AllFull, NEW a \in Arrays, NEW b \in alive, NEW al,
         Construct(a, ext[b], Elems(b), al)
  PROVE  Implements
<1>1. b \in Arrays /\ ext[b] \in Shapes
  BY DEF IInv, Types
<1>2. AllOf(ext[b], Elems(b)) /\ Value(ext[b], Elems(b)) = Worth(b)
  BY <1>1, CopiesAll
<1>3. Becomes(a, Value(ext[b], Elems(b))) /\ AllFull'
  BY <1>1, <1>2, ConstructedAs
<1>4. QED
  BY <1>2, <1>3, CopyStep DEF Implements

LEMMA ViewConstructImplements ==
  ASSUME IInv, AllFull, NEW a \in Arrays, NEW b \in Arrays, NEW view \in Views, NEW al,
         ViewConstruct(a, b, view, al)
  PROVE  Implements
<1>1. Viewable(b) /\ Construct(a, ViewExtents(b, view), ViewElements(b, view), al)
  BY DEF ViewConstruct
<1>2. ViewExtents(b, view) \in Shapes
  BY <1>1, ViewExtentsType DEF IInv, Viewable, Usable
<1>3. Becomes(a, Value(ViewExtents(b, view), ViewElements(b, view))) /\ AllFull'
  BY <1>1, <1>2, ViewsAll, ConstructedAs
<1>4. QED
  BY <1>1, <1>3, ViewStep DEF Implements

LEMMA DefaultConstructImplements ==
  ASSUME IInv, AllFull, NEW a \in Arrays, NEW al, DefaultConstruct(a, al)
  PROVE  Implements
<1>1. /\ alive' = alive \cup {a} /\ heap' = heap
      /\ ext'[a] = NoExtents
      /\ \A c \in Arrays \ {a} : ext'[c] = ext[c] /\ base'[c] = base[c]
  BY DEF DefaultConstruct, SetArray, IInv, Types
<1>2. Gets(a, NoExtents, Filled(NoExtents, DefaultValue))
  BY <1>1, GetsIt, NoExtentsEmpty
<1>3. \A c \in Arrays \ {a} : Keeps(c)
  BY <1>1, KeepsIt
<1>4. Becomes(a, Value(NoExtents, Filled(NoExtents, DefaultValue))) /\ AllFull'
  BY <1>1, <1>2, <1>3, FilledIsAll, BecomesIt
<1>5. QED
  BY <1>4, MakeStep, MemoryAssumption DEF Implements

LEMMA MoveElementsImplements ==
  ASSUME IInv, AllFull, NEW a \in Arrays, NEW b \in Arrays, Sound(b), MoveElementsInto(a, b)
  PROVE  Implements
<1>1. a \notin alive /\ alive' = alive \cup {a} /\ b \in alive /\ a # b
  BY DEF MoveElementsInto, Sound
<1>2. PICK f \in Vacated(b) : /\ Gets(a, ext[b], Elems(b)) /\ Gets(b, ext[b], f)
                              /\ \A c \in Arrays \ {a, b} : Keeps(c)
  BY MovesInto
<1>3. AllOf(ext[b], Elems(b)) /\ Value(ext[b], Elems(b)) = Worth(b) /\ AllOf(ext[b], f)
  BY CopiesAll, FilledIsAll DEF Vacated
<1>4. BothBecome(a, Worth(b), b, Value(ext[b], f)) /\ AllFull'
  BY <1>1, <1>2, <1>3, BothBecomeIt
<1>5. QED
  BY <1>1, <1>4, MoveElementsStep DEF Implements

\* Array a takes the block of b, which is left empty.
LEMMA TakesOver ==
  ASSUME IInv, AllFull, NEW a \in Arrays, NEW b \in alive, a # b,
         alive' = alive \cup {a}, ext' = [ext EXCEPT ![a] = ext[b], ![b] = NoExtents],
         base'[a] = base[b], \A c \in Arrays \ {a, b} : base'[c] = base[c],
         \A k \in Blocks \ Released(a) : heap'[k] = heap[k]
  PROVE  Implements
<1>1. b \in Arrays /\ ext[b] \in Shapes /\ NumElements(ext[a]) \in Nat
  BY NumElementsNat DEF IInv, Types
<1>2. /\ ext'[a] = ext[b] /\ ext'[b] = NoExtents
      /\ \A c \in Arrays \ {a, b} : ext'[c] = ext[c]
  BY <1>1 DEF IInv, Types
<1>3. \A c \in Arrays \ {a} : HasElements(c) => base[c] \in Blocks /\ heap'[base[c]] = heap[base[c]]
  <2> SUFFICES ASSUME NEW c \in Arrays \ {a}, HasElements(c)
               PROVE  base[c] \in Blocks /\ base[c] \notin Released(a)
    OBVIOUS
  <2>1. QED
    BY <1>1, ElementsInBlocks DEF IInv, Exclusive, HasElements, Released
<1>4. Gets(a, ext[b], Elems(b))
  <2>1. NumElements(ext[b]) > 0 => base'[a] \in Blocks /\ heap'[base'[a]].elems = Elems(b)
    BY <1>1, <1>3, ElementsInBlocks DEF HasElements
  <2>2. QED
    BY <1>1, <1>2, <2>1, GetsIt
<1>5. Gets(b, NoExtents, Filled(NoExtents, DefaultValue))
  <2>1. PICK x \in Shapes : x = NoExtents /\ ~(NumElements(x) > 0)
    BY NoExtentsEmpty
  <2>2. ext'[b] = x
    BY <1>2, <2>1
  <2>3. \A f : Gets(b, x, f)
    BY <1>1, <2>1, <2>2, GetsIt
  <2>4. QED
    BY <2>1, <2>3
<1>6. \A c \in Arrays \ {a, b} : Keeps(c)
  BY <1>2, <1>3, KeepsIt
<1>7. AllOf(ext[b], Elems(b)) /\ Value(ext[b], Elems(b)) = Worth(b)
  BY <1>1, CopiesAll
<1>8. BothBecome(a, Worth(b), b, Value(NoExtents, Filled(NoExtents, DefaultValue))) /\ AllFull'
  BY <1>1, <1>4, <1>5, <1>6, <1>7, FilledIsAll, BothBecomeIt
<1>9. QED
  BY <1>8, MoveStep DEF Implements

LEMMA StealImplements ==
  ASSUME IInv, AllFull, NEW a \in Arrays, NEW b \in Arrays, NEW al, Steal(a, b, al)
  PROVE  Implements
<1>1. a # b /\ b \in alive /\ alive' = alive \cup {a} /\ heap' = heap
  BY UsableIs DEF Steal
<1>2. /\ ext' = [ext EXCEPT ![a] = ext[b], ![b] = NoExtents]
      /\ base'[a] = base[b] /\ \A c \in Arrays \ {a, b} : base'[c] = base[c]
  BY DEF Steal, IInv, Types
<1>3. QED
  BY <1>1, <1>2, TakesOver

LEMMA MoveAssignImplements ==
  ASSUME IInv, AllFull, NEW a \in Arrays, NEW b \in Arrays, MoveAssign(a, b)
  PROVE  Implements
<1>1. a # b /\ a \in alive /\ b \in alive /\ alive' = alive
  BY UsableIs DEF MoveAssign
<1>2. /\ ext' = [ext EXCEPT ![a] = ext[b], ![b] = NoExtents]
      /\ base'[a] = base[b] /\ \A c \in Arrays \ {a, b} : base'[c] = base[c]
  BY DEF MoveAssign, IInv, Types
<1>3. \A k \in Blocks \ Released(a) : heap'[k] = heap[k]
  BY MemoryAssumption DEF MoveAssign, Exchange, Heap
<1>4. alive' = alive \cup {a}
  BY <1>1
<1>5. QED
  BY <1>1, <1>2, <1>3, <1>4, TakesOver

LEMMA SwapImplements ==
  ASSUME IInv, AllFull, NEW a \in Arrays, NEW b \in Arrays, Swap(a, b)
  PROVE  Implements
<1>1. a # b /\ a \in alive /\ b \in alive /\ alive' = alive /\ heap' = heap
  BY UsableIs DEF Swap
<1>2. /\ ext'[a] = ext[b] /\ ext'[b] = ext[a] /\ base'[a] = base[b] /\ base'[b] = base[a]
      /\ \A c \in Arrays \ {a, b} : ext'[c] = ext[c] /\ base'[c] = base[c]
  BY DEF Swap, IInv, Types
<1>3. ext[a] \in Shapes /\ ext[b] \in Shapes
  BY DEF IInv, Types
<1>4. Gets(a, ext[b], Elems(b))
  <2>1. NumElements(ext[b]) > 0 => base'[a] \in Blocks /\ heap'[base'[a]].elems = Elems(b)
    BY <1>1, <1>2, ElementsInBlocks DEF HasElements
  <2>2. QED
    BY <1>2, <1>3, <2>1, GetsIt
<1>5. Gets(b, ext[a], Elems(a))
  <2>1. NumElements(ext[a]) > 0 => base'[b] \in Blocks /\ heap'[base'[b]].elems = Elems(a)
    BY <1>1, <1>2, ElementsInBlocks DEF HasElements
  <2>2. QED
    BY <1>2, <1>3, <2>1, GetsIt
<1>6. \A c \in Arrays \ {a, b} : Keeps(c)
  BY <1>1, <1>2, KeepsIt
<1>7. alive' = alive \cup {a}
  BY <1>1
<1>8. BothBecome(a, Value(ext[b], Elems(b)), b, Value(ext[a], Elems(a))) /\ AllFull'
  BY <1>4, <1>5, <1>6, <1>7, CopiesAll, BothBecomeIt
<1>9. BothBecome(a, Worth(b), b, Worth(a))
  BY <1>8, CopiesAll
<1>10. QED
  BY <1>1, <1>8, <1>9, SwapStep DEF Implements

LEMMA DestroyImplements ==
  ASSUME IInv, AllFull, NEW a \in Arrays, Destroy(a)
  PROVE  Implements
<1>1. /\ a \in alive /\ alive' = alive \ {a}
      /\ SetArray(a, Null, NoExtents, DefaultAlloc)
      /\ Exchange(Released(a), Null, Unused)
  BY DEF Destroy
<1>2. Null \in Allocate(NumElements(NoExtents), live \ Released(a))
  BY NoExtentsEmpty DEF Allocate
<1>3. NoExtents \in Shapes /\ ~(NumElements(NoExtents) > 0)
  BY NoExtentsEmpty
<1>4. \A c \in Arrays \ {a} : Keeps(c)
  BY <1>1, <1>2, <1>3, Exchanges
<1>5. Full(a)'
  <2>1. ext'[a] = NoExtents
    BY <1>1 DEF SetArray, IInv, Types
  <2>2. QED
    BY <2>1, <1>3 DEF Full, AllOf
<1>6. AllFull' /\ \A c \in alive \ {a} : Worth(c)' = Worth(c)
  BY <1>4, <1>5 DEF AllFull, Keeps, IInv, Types
<1>7. QED
  BY <1>1, <1>6, DestroyStep DEF Implements

LEMMA ClearImplements ==
  ASSUME IInv, AllFull, NEW a \in Arrays, Clear(a)
  PROVE  Implements
<1>1. a \in alive /\ alive' = alive \cup {a}
  BY UsableIs DEF Clear
<1>2. SetArray(a, base[a], NoExtents, alloc[a]) /\ Exchange(Released(a), Null, Unused)
  BY DEF Clear, SetArray, IInv, Types
<1>3. Null \in Allocate(NumElements(NoExtents), live \ Released(a))
  BY NoExtentsEmpty DEF Allocate
<1>4. NoExtents \in Shapes /\ ~(NumElements(NoExtents) > 0)
  BY NoExtentsEmpty
<1>5. PICK f : f = Filled(NoExtents, DefaultValue)
  OBVIOUS
<1>6. Gets(a, NoExtents, f) /\ \A c \in Arrays \ {a} : Keeps(c)
  BY <1>2, <1>3, <1>4, Exchanges
<1>7. Becomes(a, Value(NoExtents, f)) /\ AllFull'
  BY <1>1, <1>5, <1>6, FilledIsAll, BecomesIt
<1>8. QED
  BY <1>5, <1>7, MakeStep, MemoryAssumption DEF Implements

\* A block that no array has.
LEMMA LeaksImplement ==
  ASSUME IInv, AllFull, NEW p, Leaks(p)
  PROVE  Implements
<1>1. UNCHANGED <<alive, base, ext>>
  BY DEF Leaks
<1>2. ASSUME NEW c \in Arrays PROVE Keeps(c)
  <2>1. HasElements(c) => heap'[base[c]] = heap[base[c]]
    BY ElementsInBlocks DEF Leaks
  <2>2. QED
    BY <1>1, <2>1, KeepsIt
<1>3. AllFull'
  BY <1>2 DEF AllFull, Keeps
<1>4. Val' = Val
  BY <1>1, <1>2, SameStep DEF Keeps, IInv, Types
<1>5. QED
  BY <1>3, <1>4 DEF Implements

\* Array a gets elements of other extensions in a block of their own.
LEMMA ReallocatedAs ==
  ASSUME IInv, AllFull, NEW a \in alive, NEW x \in Shapes, NEW f, AllOf(x, f),
         NEW al, NEW be, NEW q, NEW p \in Allocate(NumElements(x), live \ Released(a)),
         NumElements(x) > 0 => q = p,
         SetArray(a, q, x, al), Exchange(Released(a), p, Memory(be, x, f)), alive' = alive
  PROVE  Becomes(a, Value(x, f)) /\ AllFull'
<1>1. a \in Arrays /\ alive' = alive \cup {a} /\ Memory(be, x, f).elems = f
  BY DEF IInv, Types, Memory
<1>2. PICK m : m = Memory(be, x, f)
  OBVIOUS
<1>3. Gets(a, x, f) /\ \A c \in Arrays \ {a} : Keeps(c)
  BY <1>1, <1>2, Exchanges
<1>4. QED
  BY <1>1, <1>3, BecomesIt

\* ... or of the same extensions, in the block it has.
LEMMA AssignedAs ==
  ASSUME IInv, AllFull, NEW a \in alive, NEW f, AllOf(ext[a], f), AssignElements(a, f)
  PROVE  Becomes(a, Value(ext[a], f)) /\ AllFull'
<1>1. a \in Arrays /\ alive' = alive \cup {a}
  BY DEF AssignElements, IInv, Types
<1>2. Gets(a, ext[a], f) /\ \A c \in Arrays \ {a} : Keeps(c)
  BY <1>1, AssignsElements
<1>3. QED
  BY <1>1, <1>2, BecomesIt

LEMMA CopyAssignImplements ==
  ASSUME IInv, AllFull, NEW a \in Arrays, NEW b \in Arrays,
         CopyAssignSame(a, b) \/ CopyAssignOther(a, b)
  PROVE  Implements
<1>1. a \in alive /\ b \in alive /\ alive' = alive
  BY UsableIs DEF CopyAssignSame, CopyAssignOther
<1>2. ext[a] \in Shapes /\ ext[b] \in Shapes
  BY DEF IInv, Types
<1>3. AllOf(ext[b], Elems(b)) /\ Value(ext[b], Elems(b)) = Worth(b)
  BY CopiesAll
<1>4. Becomes(a, Value(ext[b], Elems(b))) /\ AllFull'
  <2>1. CASE CopyAssignSame(a, b)
    <3>1. /\ ext[a] = ext[b] /\ heap' = Overwritten(a, Elems(b))
          /\ base' = base /\ ext' = [ext EXCEPT ![a] = ext[b]]
      BY <2>1 DEF CopyAssignSame, IInv, Types
    <3>2. Gets(a, ext[b], Elems(b)) /\ \A c \in Arrays \ {a} : Keeps(c)
      BY <1>2, <3>1, OverwritesElements
    <3>3. alive' = alive \cup {a}
      BY <1>1
    <3>4. QED
      BY <1>3, <3>2, <3>3, BecomesIt
  <2>2. CASE CopyAssignOther(a, b)
    <3>1. PICK p \in Allocate(NumElements(ext[b]), live \ Released(a)) :
            /\ SetArray(a, p, ext[b], AllocAfterCopy(a, b))
            /\ Exchange(Released(a), p, Memory(AllocAfterCopy(a, b), ext[b], Elems(b)))
      BY <2>2 DEF CopyAssignOther
    <3>2. QED
      BY <1>1, <1>2, <1>3, <3>1, ReallocatedAs
  <2>3. QED
    BY <2>1, <2>2
<1>5. QED
  BY <1>1, <1>3, <1>4, CopyStep DEF Implements

LEMMA AssignConvertedImplements ==
  ASSUME IInv, AllFull, NEW a \in Arrays, NEW b \in Arrays, AssignConverted(a, b)
  PROVE  Implements
<1>1. a \in alive /\ b \in alive
  BY UsableIs DEF AssignConverted
<1>2. ext[a] \in Shapes /\ ext[b] \in Shapes
  BY DEF IInv, Types
<1>3. AllOf(ext[b], Elems(b)) /\ Value(ext[b], Elems(b)) = Worth(b)
  BY CopiesAll
<1>4. Becomes(a, Value(ext[b], Elems(b))) /\ AllFull'
  <2>1. CASE NumElements(ext[a]) = NumElements(ext[b])
    <3>1. /\ heap' = Overwritten(a, Elems(b))
          /\ base' = base /\ ext' = [ext EXCEPT ![a] = ext[b]] /\ alive' = alive
      BY <2>1 DEF AssignConverted
    <3>2. Gets(a, ext[b], Elems(b)) /\ \A c \in Arrays \ {a} : Keeps(c)
      BY <1>2, <2>1, <3>1, OverwritesElements
    <3>3. alive' = alive \cup {a}
      BY <1>1, <3>1
    <3>4. QED
      BY <1>3, <3>2, <3>3, BecomesIt
  <2>2. CASE NumElements(ext[a]) # NumElements(ext[b])
    <3>1. AssignTemporary(a, ext[b], Elems(b))
      BY <2>2 DEF AssignConverted
    <3>2. QED
      BY <1>1, <1>2, <1>3, <3>1, AssignsTemporary
  <2>3. QED
    BY <2>1, <2>2
<1>5. QED
  BY <1>1, <1>3, <1>4, CopyStep DEF Implements

LEMMA AssignViewImplements ==
  ASSUME IInv, AllFull, NEW a \in Arrays, NEW b \in Arrays, NEW view \in Views,
         AssignView(a, b, view) \/ AssignRange(a, b, view)
  PROVE  Implements
<1> DEFINE x == ViewExtents(b, view)
           f == ViewElements(b, view)
<1>1. a \in alive /\ Viewable(b)
  BY UsableIs DEF AssignView, AssignRange
<1>2. x \in Shapes
  BY <1>1, ViewExtentsType DEF IInv, Viewable, Usable
<1>3. AllOf(x, f)
  BY ViewsAll
<1>4. (ext[a] = x /\ AssignElements(a, f)) \/ AssignTemporary(a, x, f)
  BY DEF AssignView, AssignRange
<1>5. Becomes(a, Value(x, f)) /\ AllFull'
  <2> HIDE DEF x, f
  <2>1. CASE ext[a] = x /\ AssignElements(a, f)
    BY <1>1, <1>3, <2>1, AssignedAs
  <2>2. CASE AssignTemporary(a, x, f)
    BY <1>1, <1>2, <1>3, <2>2, AssignsTemporary
  <2>3. QED
    BY <1>4, <2>1, <2>2
<1>6. QED
  BY <1>1, <1>5, ViewStep DEF Implements

\* Elements assigned from another array of the same extensions, which keeps them.
LEMMA AssignImplements ==
  ASSUME IInv, AllFull, NEW a \in Arrays, NEW b \in Arrays, a \in alive, b \in alive,
         ext[a] = ext[b], AssignElements(a, Elems(b))
  PROVE  Implements
<1>1. AllOf(ext[b], Elems(b)) /\ Value(ext[b], Elems(b)) = Worth(b)
  BY CopiesAll
<1>2. PICK f : f = Elems(b)
  OBVIOUS
<1>3. Becomes(a, Value(ext[a], f)) /\ AllFull'
  BY <1>1, <1>2, AssignedAs
<1>4. QED
  BY <1>1, <1>2, <1>3, CopyStep DEF Implements

\* ... or is left with others, or takes those of a.
LEMMA MovedAssignImplements ==
  ASSUME IInv, AllFull, NEW a \in Arrays, NEW b \in Arrays, a \in alive, b \in alive,
         a # b, ext[a] = ext[b], NEW g \in Vacated(b) \cup {Elems(a)},
         AssignBoth(a, Elems(b), b, g)
  PROVE  Implements
<1>1. AllOf(ext[b], Elems(b)) /\ Value(ext[b], Elems(b)) = Worth(b)
      /\ AllOf(ext[a], Elems(a)) /\ Value(ext[a], Elems(a)) = Worth(a)
  BY CopiesAll
<1>2. AllOf(ext[b], g)
  BY <1>1, FilledIsAll DEF Vacated
<1>3. PICK f : f = Elems(b)
  OBVIOUS
<1>4. /\ Gets(a, ext[a], f) /\ Gets(b, ext[b], g)
      /\ \A c \in Arrays \ {a, b} : Keeps(c)
  BY <1>3, AssignsBoth
<1>5. alive' = alive \cup {a}
  BY DEF AssignBoth
<1>6. BothBecome(a, Value(ext[a], f), b, Value(ext[b], g)) /\ AllFull'
  BY <1>1, <1>2, <1>3, <1>4, <1>5, BothBecomeIt
<1>7. BothBecome(a, Worth(b), b, Value(ext[b], g))
  BY <1>1, <1>3, <1>6
<1>8. CASE g \in Vacated(b)
  BY <1>6, <1>7, <1>8, MoveElementsStep DEF Implements
<1>9. CASE g = Elems(a)
  <2>1. Value(ext[b], g) = Worth(a)
    BY <1>1, <1>9
  <2>2. QED
    BY <1>6, <1>7, <2>1, SwapStep DEF Implements
<1>10. QED
  BY <1>8, <1>9

LEMMA PointAssignImplements ==
  ASSUME IInv, AllFull, NEW a \in Arrays, NEW v \in Values, PointAssign(a, v)
  PROVE  Implements
<1>1. a \in alive /\ ext[a] = Point /\ AssignElements(a, Filled(Point, v))
  BY UsableIs DEF PointAssign, UsablePoint
<1>2. PICK f : f = Filled(Point, v)
  OBVIOUS
<1>3. Becomes(a, Value(Point, f)) /\ AllFull'
  BY <1>1, <1>2, FilledIsAll, AssignedAs
<1>4. QED
  BY <1>2, <1>3, MakeStep DEF Implements

LEMMA ReshapeImplements ==
  ASSUME IInv, AllFull, NEW a \in Arrays, NEW x \in Extents, Reshape(a, x)
  PROVE  Implements
<1>1. /\ a \in alive /\ ext[a] # Point /\ NumElements(x) = NumElements(ext[a])
      /\ alive' = alive \cup {a} /\ base' = base /\ heap' = heap
  BY UsableIs DEF Reshape, Usable
<1>2. x \in Shapes /\ ext'[a] = x /\ \A c \in Arrays \ {a} : ext'[c] = ext[c]
  BY ExtentsType DEF Reshape, IInv, Types
<1>3. Gets(a, x, Elems(a))
  <2>1. NumElements(x) > 0 => base'[a] \in Blocks /\ heap'[base'[a]].elems = Elems(a)
    BY <1>1, ElementsInBlocks DEF HasElements
  <2>2. QED
    BY <1>2, <2>1, GetsIt
<1>4. AllOf(x, Elems(a))
  BY <1>1 DEF AllFull, Full, AllOf
<1>5. \A c \in Arrays \ {a} : Keeps(c)
  BY <1>1, <1>2, KeepsIt
<1>6. Becomes(a, Value(x, Elems(a))) /\ AllFull'
  BY <1>1, <1>3, <1>4, <1>5, BecomesIt
<1>7. QED
  BY <1>1, <1>6, ReshapeStep DEF Implements

LEMMA ReextentImplements ==
  ASSUME IInv, AllFull, NEW a \in Arrays, NEW x \in Extents, NEW v \in Values, Reextent(a, x, v)
  PROVE  Implements
<1>1. a \in alive /\ ext[a] # Point /\ alive' = alive /\ x \in Shapes
  BY UsableIs, ExtentsType DEF Reextent, Usable
<1>2. PICK p \in Allocate(NumElements(x), live) :
        /\ SetArray(a, p, x, alloc[a])
        /\ Exchange(Released(a), p, Memory(alloc[a], x, Extended(a, x, v)))
  BY DEF Reextent
<1>3. p \in Allocate(NumElements(x), live \ Released(a))
  BY <1>2 DEF Allocate
<1>4. PICK f : f = Extended(a, x, v) /\ AllOf(x, f)
  <2>1. AllOf(x, Extended(a, x, v))
    BY DEF AllOf, Extended
  <2>2. QED
    BY <2>1
<1>5. Becomes(a, Value(x, f)) /\ AllFull'
  BY <1>1, <1>2, <1>3, <1>4, ReallocatedAs
<1>6. QED
  BY <1>1, <1>4, <1>5, ReextentStep DEF Implements

LEMMA ReextentMovedImplements ==
  ASSUME IInv, AllFull, NEW a \in Arrays, NEW x \in Extents, ReextentMoved(a, x)
  PROVE  Implements
<1>1. a \in alive /\ alive' = alive /\ x \in Shapes
  BY UsableIs, ExtentsType DEF ReextentMoved, Usable
<1>2. PICK p \in Allocate(NumElements(x), live \ Released(a)) :
        /\ SetArray(a, p, x, alloc[a])
        /\ Exchange(Released(a), p, Memory(alloc[a], x, Filled(x, DefaultValue)))
  BY DEF ReextentMoved
<1>3. PICK f : f = Filled(x, DefaultValue) /\ AllOf(x, f)
  BY FilledIsAll
<1>4. Becomes(a, Value(x, f)) /\ AllFull'
  BY <1>1, <1>2, <1>3, ReallocatedAs
<1>5. QED
  BY <1>3, <1>4, MakeStep, MemoryAssumption DEF Implements

LEMMA LoadImplements ==
  ASSUME IInv, AllFull, NEW a \in Arrays, NEW r \in Archives, Load(a, r[1], r[2])
  PROVE  Implements
<1>1. PICK x \in Shapes : \E f : x = r[1] /\ f = r[2] /\ DOMAIN f = 0 .. NumElements(x) - 1
  BY ArchivesAssumption, ExtentsType
<1>2. PICK f : x = r[1] /\ f = r[2] /\ DOMAIN f = 0 .. NumElements(x) - 1
  BY <1>1
<1>3. AllOf(x, f) /\ a \in alive
  BY <1>2, UsableIs DEF AllOf, Load
<1>4. Becomes(a, Value(x, f)) /\ AllFull'
  <2>1. CASE x = ext[a]
    <3>1. AssignElements(a, f)
      BY <1>2, <2>1 DEF Load
    <3>2. QED
      BY <1>3, <2>1, <3>1, AssignedAs
  <2>2. CASE x # ext[a]
    <3>1. PICK p \in Allocate(NumElements(x), live \ Released(a)) :
            /\ SetArray(a, IF x = NoExtents THEN base[a] ELSE p, x, alloc[a])
            /\ Exchange(Released(a), p, Memory(alloc[a], x, f))
      BY <1>2, <2>2 DEF Load
    <3>2. PICK q : q = IF x = NoExtents THEN base[a] ELSE p
      OBVIOUS
    <3>3. NumElements(x) > 0 => q = p
      BY <3>2, NoExtentsEmpty
    <3>4. alive' = alive
      BY <1>2, <2>2 DEF Load
    <3>5. QED
      BY <1>3, <3>1, <3>2, <3>3, <3>4, ReallocatedAs
  <2>3. QED
    BY <2>1, <2>2
<1>5. Becomes(a, Value(r[1], r[2]))
  BY <1>2, <1>4
<1>6. QED
  BY <1>3, <1>4, <1>5, LoadStep DEF Implements

LEMMA WriteImplements ==
  ASSUME IInv, AllFull, NEW a \in Arrays, NEW k \in 0 .. NumElements(ext[a]) - 1,
         NEW v \in Values, Write(a, k, v)
  PROVE  Implements
<1>1. a \in alive /\ HasElements(a) /\ alive' = alive \cup {a} /\ base' = base /\ ext' = ext
  <2>1. NumElements(ext[a]) \in Nat
    BY NumElementsNat DEF IInv, Types
  <2>2. QED
    BY <2>1, UsableIs DEF Write, HasElements
<1>2. ext[a] \in Shapes /\ ext' = [ext EXCEPT ![a] = ext[a]]
  BY <1>1 DEF IInv, Types
<1>3. PICK f : f = Elems(a) /\ DOMAIN f = 0 .. NumElements(ext[a]) - 1
  BY <1>1 DEF AllFull, Full, AllOf, HasElements
<1>4. PICK g : g = [f EXCEPT ![k] = v]
  OBVIOUS
<1>5. heap' = Overwritten(a, g)
  <2>1. heap' = [heap EXCEPT ![base[a]].elems = [heap[base[a]].elems EXCEPT ![k] = v]]
    BY DEF Write
  <2>2. heap[base[a]].elems = f /\ NumElements(ext[a]) # 0
    BY <1>1, <1>3, ElementsInBlocks DEF HasElements
  <2>3. QED
    BY <1>4, <2>1, <2>2 DEF Overwritten
<1>6. AllOf(ext[a], g)
  BY <1>3, <1>4 DEF AllOf
<1>7. Gets(a, ext[a], g) /\ \A c \in Arrays \ {a} : Keeps(c)
  BY <1>1, <1>2, <1>5, OverwritesElements
<1>8. Becomes(a, Value(ext[a], g)) /\ AllFull'
  BY <1>1, <1>6, <1>7, BecomesIt
<1>9. QED
  BY <1>1, <1>3, <1>4, <1>8, WriteStep DEF Implements

\* A careful program in which the assignment of an element does not throw, which
\* would leave an array with some elements of another.
Unbroken == Careful /\ <<"assign", "element">> \notin Throws

LEMMA NextImplements ==
  ASSUME Unbroken, IInv, AllFull, [Next]_vars
  PROVE  Implements
<1>1. CASE UNCHANGED vars
  <2>1. AllFull'
    BY <1>1 DEF vars, AllFull, Full, AllOf, Elems
  <2>2. \A c \in alive : Worth(c)' = Worth(c)
    BY <1>1 DEF vars, Worth, Elems
  <2>3. QED
    BY <1>1, <2>1, <2>2, SameStep DEF vars, Implements
<1>2. CASE FailsWithoutEffect
  BY <1>2, FailureLeaks, LeaksImplement
<1>3. ASSUME NEW a \in Arrays, NEW al \in Allocators, DefaultConstruct(a, al) PROVE Implements
  BY <1>3, DefaultConstructImplements
<1>4. ASSUME NEW a \in Arrays, NEW x \in Extents, NEW v \in Values, NEW al \in Allocators,
             FillConstruct(a, x, v, al)
      PROVE  Implements
  BY <1>4, FillsImplement DEF FillConstruct
<1>5. ASSUME NEW a \in Arrays, NEW x \in Extents, NEW v \in Values, ListConstruct(a, x, v)
      PROVE  Implements
  BY <1>5, FillsImplement DEF ListConstruct, FillConstruct
<1>6. ASSUME NEW a \in Arrays, NEW v \in Values, NEW al, PointConstruct(a, v, al)
      PROVE  Implements
  BY <1>6, FillsImplement DEF PointConstruct
<1>7. ASSUME NEW a \in Arrays, NEW v \in Values, PointDefaultConstruct(a, v) PROVE Implements
  BY <1>6, <1>7 DEF PointDefaultConstruct
<1>8. ASSUME NEW a \in Arrays, NEW al \in Allocators, PointValueConstruct(a, al) PROVE Implements
  BY <1>6, <1>8 DEF PointValueConstruct
<1>9. ASSUME NEW a \in Arrays, NEW b \in Arrays,
             CopyConstruct(a, b) \/ (\E al \in Allocators : RefConstruct(a, b, al))
      PROVE  Implements
  BY <1>9, UsableIs, CopiesImplement DEF CopyConstruct, RefConstruct
<1>10. ASSUME NEW a \in Arrays, NEW b \in Arrays,
              PointCopyConstruct(a, b) \/ (\E al \in Allocators : PointConvertConstruct(a, b, al))
       PROVE  Implements
  <2>1. b \in alive /\ ext[b] = Point /\ \E al : Construct(a, ext[b], Elems(b), al)
    BY <1>10, UsableIs DEF PointCopyConstruct, PointConvertConstruct, UsablePoint
  <2>2. QED
    BY <2>1, CopiesImplement
<1>11. ASSUME NEW a \in Arrays, NEW b \in Arrays, NEW view \in Views, NEW al \in Allocators,
              ViewConstruct(a, b, view, al) \/ RangeConstruct(a, b, view, al)
       PROVE  Implements
  BY <1>11, ViewConstructImplements DEF RangeConstruct
<1>12. ASSUME NEW a \in Arrays, NEW b \in Arrays,
              StaticMoveConstruct(a, b) \/ PointMoveConstruct(a, b)
       PROVE  Implements
  BY <1>12, UsableIs, MoveElementsImplements DEF StaticMoveConstruct, PointMoveConstruct
<1>13. ASSUME NEW a \in Arrays, NEW b \in Arrays,
              MoveConstruct(a, b) \/ (\E al \in Allocators : MoveConstructWith(a, b, al))
       PROVE  Implements
  BY <1>13, StealImplements DEF MoveConstruct, MoveConstructWith
<1>14. ASSUME NEW a \in Arrays, Destroy(a) PROVE Implements
  BY <1>14, DestroyImplements
<1>15. ASSUME NEW a \in Arrays, Clear(a) \/ (\E r \in Archives : LoadAllocateThrows(a, r[1]))
       PROVE  Implements
  BY <1>15, ClearImplements DEF LoadAllocateThrows
<1>16. ASSUME NEW a \in Arrays, NEW b \in Arrays, CopyAssignSame(a, b) \/ CopyAssignOther(a, b)
       PROVE  Implements
  BY <1>16, CopyAssignImplements
<1>17. ASSUME NEW a \in Arrays, NEW b \in Arrays, MoveAssign(a, b) PROVE Implements
  BY <1>17, MoveAssignImplements
<1>18. ASSUME NEW a \in Arrays, NEW b \in Arrays, Swap(a, b) PROVE Implements
  BY <1>18, SwapImplements
<1>19. ASSUME NEW a \in Arrays, NEW b \in Arrays,
              StaticCopyAssign(a, b) \/ PointCopyAssign(a, b) \/ PointConvertAssign(a, b)
       PROVE  Implements
  <2>1. a \in alive /\ b \in alive /\ ext[a] = ext[b] /\ AssignElements(a, Elems(b))
    BY <1>19, UsableIs DEF StaticCopyAssign, PointCopyAssign, PointConvertAssign, UsablePoint
  <2>2. QED
    BY <2>1, AssignImplements
<1>20. ASSUME NEW a \in Arrays, NEW b \in Arrays,
              StaticMoveAssign(a, b) \/ PointMoveAssign(a, b) \/ StaticSwap(a, b)
       PROVE  Implements
  <2>1. PICK g \in Vacated(b) \cup {Elems(a)} : AssignBoth(a, Elems(b), b, g)
    BY <1>20 DEF StaticMoveAssign, PointMoveAssign, StaticSwap
  <2>2. a \in alive /\ b \in alive /\ a # b /\ ext[a] = ext[b]
    BY <1>20, UsableIs DEF StaticMoveAssign, PointMoveAssign, StaticSwap, UsablePoint
  <2>3. QED
    BY <2>1, <2>2, MovedAssignImplements
<1>21. ASSUME NEW a \in Arrays, NEW v \in Values, PointAssign(a, v) PROVE Implements
  BY <1>21, PointAssignImplements
<1>22. ASSUME NEW a \in Arrays, NEW b \in Arrays, NEW view \in Views,
              AssignView(a, b, view) \/ AssignRange(a, b, view)
       PROVE  Implements
  BY <1>22, AssignViewImplements
<1>23. ASSUME NEW a \in Arrays, NEW b \in Arrays, AssignConverted(a, b) PROVE Implements
  BY <1>23, AssignConvertedImplements
<1>24. ASSUME NEW a \in Arrays, NEW x \in Extents,
              \/ Reshape(a, x)
              \/ \E v \in Values : Reextent(a, x, v)
              \/ ReextentMoved(a, x)
       PROVE  Implements
  BY <1>24, ReshapeImplements, ReextentImplements, ReextentMovedImplements
<1>25. ASSUME NEW a \in Arrays, NEW r \in Archives, Load(a, r[1], r[2]) PROVE Implements
  BY <1>25, LoadImplements
<1>26. ASSUME NEW a \in Arrays, NEW k \in 0 .. NumElements(ext[a]) - 1, NEW v \in Values,
              Write(a, k, v)
       PROVE  Implements
  BY <1>26, WriteImplements
<1>27. /\ \A a, b \in Arrays : /\ ~CopyAssignAllocateThrows(a, b)
                               /\ ~CopyAssignElementThrows(a, b)
                               /\ ~AssignmentInterrupted(a, b)
       /\ \A a \in Arrays, x \in Extents : /\ ~ReextentMovedAllocateThrows(a, x)
                                           /\ ~ReextentMovedElementThrows(a, x)
  BY DEF Unbroken, Careful, SafeThrows, LeakyThrows, CopyAssignAllocateThrows,
         CopyAssignElementThrows, AssignmentInterrupted, ReextentMovedAllocateThrows,
         ReextentMovedElementThrows
<1>28. CASE ~FailsWithoutEffect
  <2>1. /\ \A x \in Extents \cup {Point}, al \in Allocators : ~ConstructThrows(x, al)
        /\ \A a \in Arrays, x \in Extents : ~ReextentElementThrows(a, x)
    BY <1>28 DEF FailsWithoutEffect
  <2>2. QED
    BY <2>1, <1>1, <1>3, <1>4, <1>5, <1>6, <1>7, <1>8, <1>9, <1>10, <1>11, <1>12, <1>13, <1>14,
       <1>15, <1>16, <1>17, <1>18, <1>19, <1>20, <1>21, <1>22, <1>23, <1>24, <1>25, <1>26, <1>27
    DEF Next
<1>29. QED
  BY <1>2, <1>28

LEMMA InitImplements == Init => Abstract!Init /\ AllFull
<1> SUFFICES ASSUME Init PROVE Abstract!Init /\ AllFull
  OBVIOUS
<1>1. AllFull
  BY NoExtentsEmpty DEF Init, AllFull, Full, AllOf
<1>2. alive = {}
  BY DEF Init
<1>3. Abstract!Init
  BY <1>2 DEF Abstract!Init
<1>4. QED
  BY <1>1, <1>3

\* Arrays are values: whatever memory they share, exchange and take over on the way,
\* every operation on one has the effect on extensions and elements that
\* ArrayValues says, and none on the value of another.
THEOREM ArraysAreValues ==
  ASSUME Unbroken
  PROVE  Spec => ImplementsArrayValues
<1>1. IInv /\ AllFull /\ [Next]_vars
        => /\ [Abstract!Next]_([a \in alive |-> Value(ext[a], Elems(a))])
           /\ AllFull'
  BY NextImplements DEF Implements, Val, Worth
<1>2. Careful
  BY DEF Unbroken
<1>3. QED
  BY <1>1, <1>2, InitImplements, Invariance, PTL
  DEF Spec, ImplementsArrayValues, Abstract!Spec
=============================================================================
