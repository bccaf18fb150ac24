--------------------------- MODULE ArrayLifecycle ---------------------------
(***************************************************************************)
(* The memory of multi::static_array and multi::array (array.hpp): which   *)
(* block of which allocator each array points to, through construction,    *)
(* copy, move, swap, the assignments, reextent, reshape, clear, loading    *)
(* from an archive and destruction, with the exceptions that allocators    *)
(* and elements may throw.  Arrays are two-dimensional and zero-based; the *)
(* elements live in row-major order.  Or they have no dimension, and one   *)
(* element always.  An array is also a static_array, its base class, whose *)
(* moves, assignments and swap act on the elements and never on the block. *)
(*                                                                         *)
(* The element-by-element loops are atomic here: UninitializedAlgorithms   *)
(* shows that they build all the elements or none.                         *)
(***************************************************************************)
EXTENDS Integers, FiniteSets

CONSTANTS
  Arrays,         \* the array objects of the program
  Blocks,         \* the addresses allocators hand out
  Null,           \* pointer{nullptr}
  Dimensions,     \* the dimensions of the arrays of the program: 0, 2
  Extents,        \* the extensions the program asks for, <<rows, columns>>
  Point,          \* the extensions of an array of no dimensions
  Values,         \* the element values
  DefaultValue,   \* T{}
  Allocators,     \* the allocator objects that do not compare equal
  DefaultAlloc,   \* allocator_type{}
  Select,         \* select_on_container_copy_construction
  POCCA, POCMA, POCS, \* propagate_on_container_{copy_assignment,move_assignment,swap}
  Mixes,          \* the operations the program applies to two unequal allocators that
                  \* do not propagate: "construct", "move_assign", "swap", "temporary"
  Throws,         \* where exceptions are thrown: <<operation, "allocate" or "element">>
  Archives        \* what archives hold: <<extensions, elements in row-major order>>

NumElements(x) == IF x = Point THEN 1 ELSE x[1] * x[2]

NoExtents == <<0, 0>>

\* layout_t stores a zero for every extension after an empty trailing one
ASSUME ExtentsAssumption ==
  /\ Extents \subseteq Nat \X Nat
  /\ \A x \in Extents : x[2] = 0 => x[1] = 0
  /\ Point \notin Nat \X Nat

ASSUME ArchivesAssumption ==
  \A r \in Archives : r[1] \in Extents /\ r[2] \in [0 .. NumElements(r[1]) - 1 -> Values]

ASSUME AllocatorAssumption ==
  /\ DefaultAlloc \in Allocators
  /\ Select \in [Allocators -> Allocators]
  /\ {POCCA, POCMA, POCS} \subseteq BOOLEAN
  /\ Mixes \subseteq {"construct", "move_assign", "swap", "temporary"}

ASSUME MemoryAssumption ==
  /\ Null \notin Blocks
  /\ DefaultValue \in Values

VARIABLES
  alive,     \* the arrays between their constructor and their destructor
  base,      \* base_
  ext,       \* the extensions the layout stores
  alloc,     \* alloc_
  live,      \* the blocks allocated and not returned
  heap,      \* who allocated each block, its size, whether its elements are built
  ub         \* the undefined behaviours met so far

vars == <<alive, base, ext, alloc, live, heap, ub>>

Memory(al, x, f) == [by |-> al, size |-> NumElements(x), state |-> "built", elems |-> f]

RawMemory(al, x) == [by |-> al, size |-> NumElements(x), state |-> "raw", elems |-> << >>]

Unused == RawMemory(DefaultAlloc, NoExtents)

Faults == {"bad_free", "destroy_raw", "wrong_allocator", "wrong_size"}

Init ==
  /\ alive = {}
  /\ base = [a \in Arrays |-> Null]
  /\ ext = [a \in Arrays |-> NoExtents]
  /\ alloc = [a \in Arrays |-> DefaultAlloc]
  /\ live = {}
  /\ heap = [b \in Blocks |-> Unused]
  /\ ub = {}

-----------------------------------------------------------------------------
(***************************************************************************)
(* Memory.                                                                 *)
(***************************************************************************)

\* allocate(n): any free address, nullptr for no elements
Allocate(n, taken) == IF n = 0 THEN {Null} ELSE Blocks \ taken

\* the elements at base_
Elems(a) == IF base[a] \in Blocks THEN heap[base[a]].elems ELSE << >>

Built(a) == base[a] \in live /\ heap[base[a]].state = "built"

\* The program uses an array only while its memory holds its elements.  After a
\* failure that left it otherwise, all that still happens to it is destruction.
Sound(a) == a \in alive /\ (NumElements(ext[a]) > 0 => Built(a))

\* ... as array<T, 2> and as array<T, 0>
Usable(a) == Sound(a) /\ ext[a] # Point

UsablePoint(a) == Sound(a) /\ ext[a] = Point

\* Mutant of Released: deallocate() without if(num_elements())
Released_Unguarded(a) == {base[a]}

\* destroy() and deallocate(): num_elements() elements at base_, through alloc_
Released(a) == IF NumElements(ext[a]) = 0 THEN {} ELSE {base[a]}

ReleaseFaults(a) ==
  IF Released(a) = {} THEN {}
  ELSE IF base[a] \notin live THEN {"bad_free"}
  ELSE {f \in Faults : \/ f = "destroy_raw" /\ heap[base[a]].state # "built"
                       \/ f = "wrong_allocator" /\ heap[base[a]].by # alloc[a]
                       \/ f = "wrong_size" /\ heap[base[a]].size # NumElements(ext[a])}

\* The heap without the blocks of freed, and with block b holding contents c.
Heap(freed, b, c) == [k \in Blocks |-> IF k = b THEN c
                                       ELSE IF k \in freed THEN Unused ELSE heap[k]]

\* Blocks `freed` are returned and block b, which may be one of them, is taken.
Exchange(freed, b, c) ==
  /\ live' = (live \ freed) \cup ({b} \ {Null})
  /\ heap' = Heap(freed, b, c)

Filled(x, v) == [k \in 0 .. NumElements(x) - 1 |-> v]

\* Element-wise assignment to the elements a already has.
Overwritten(a, f) == IF NumElements(ext[a]) = 0 THEN heap
                     ELSE [heap EXCEPT ![base[a]].elems = f]

\* ... interrupted by an exception after the first m elements
Interrupted(a, f, m) == [k \in DOMAIN Elems(a) |-> IF k < m THEN f[k] ELSE Elems(a)[k]]

SetArray(a, b, x, al) ==
  /\ base' = [base EXCEPT ![a] = b]
  /\ ext' = [ext EXCEPT ![a] = x]
  /\ alloc' = [alloc EXCEPT ![a] = al]

-----------------------------------------------------------------------------
(***************************************************************************)
(* Views of an array as the source of a copy: all of it, its transposition *)
(* and its first row.  (An empty view cannot be copied: see the README.)   *)
(***************************************************************************)
Views == {"all", "rotated", "taked"}

ViewExtents(b, view) ==
  IF view = "rotated" THEN <<ext[b][2], ext[b][1]>>
  ELSE IF view = "taked" THEN <<1, ext[b][2]>>
  ELSE ext[b]

\* What elements() of the view yields, in its own row-major order.
ViewElements(b, view) ==
  LET x == ViewExtents(b, view)
  IN [k \in 0 .. NumElements(x) - 1 |->
        IF view = "rotated" THEN Elems(b)[(k % x[2]) * x[1] + k \div x[2]]
        ELSE Elems(b)[k]]

Viewable(b) == Usable(b) /\ NumElements(ext[b]) > 0

-----------------------------------------------------------------------------
(***************************************************************************)
(* Construction and destruction.                                           *)
(***************************************************************************)
Construct(a, x, f, al) ==
  \E b \in Allocate(NumElements(x), live) :
    /\ a \notin alive
    /\ alive' = alive \cup {a}
    /\ SetArray(a, b, x, al)
    /\ Exchange({}, b, Memory(al, x, f))
    /\ UNCHANGED ub

\* static_array(alloc) and static_array()
DefaultConstruct(a, al) ==
  /\ a \notin alive
  /\ alive' = alive \cup {a}
  /\ SetArray(a, Null, NoExtents, al)
  /\ UNCHANGED <<live, heap, ub>>

FillConstruct(a, x, v, al) == 2 \in Dimensions /\ Construct(a, x, Filled(x, v), al)

\* static_array<T, 0>(extensions, element, allocator)
PointConstruct(a, v, al) == 0 \in Dimensions /\ Construct(a, Point, Filled(Point, v), al)

\* ... without an allocator: from an element, a converted one or nothing
PointDefaultConstruct(a, v) == PointConstruct(a, v, DefaultAlloc)

\* ... without an element: T{}, or what the memory holds if T is trivial
PointValueConstruct(a, al) == \E v \in Values : PointConstruct(a, v, al)

\* array(initializer_list): an array with the default allocator is built from the
\* rows, and its block taken over.
ListConstruct(a, x, v) == FillConstruct(a, x, v, DefaultAlloc)

CopyConstruct(a, b) ==
  /\ Usable(b)
  /\ Construct(a, ext[b], Elems(b), Select[alloc[b]])

ViewConstruct(a, b, view, al) ==
  /\ Viewable(b)
  /\ Construct(a, ViewExtents(b, view), ViewElements(b, view), al)

\* static_array(first, last, alloc), from the rows of a view
RangeConstruct(a, b, view, al) == ViewConstruct(a, b, view, al)

\* static_array(array_ref const&, alloc): the elements in memory order
RefConstruct(a, b, al) ==
  /\ Usable(b)
  /\ Construct(a, ext[b], Elems(b), al)

\* The allocator of a copy is not selected.
PointCopyConstruct(a, b) ==
  /\ UsablePoint(b)
  /\ Construct(a, Point, Elems(b), alloc[b])

\* static_array<T, 0>(static_array<TT, 0> const&, alloc)
PointConvertConstruct(a, b, al) ==
  /\ UsablePoint(b)
  /\ Construct(a, Point, Elems(b), al)

\* The elements that a move leaves behind: those of trivial types stay, those that
\* own something become as T{}.
Vacated(b) == {Elems(b), Filled(ext[b], DefaultValue)}

\* The elements of b move into a block of a's own.
MoveElementsInto(a, b) ==
  \E p \in Allocate(NumElements(ext[b]), live), f \in Vacated(b) :
    /\ a \notin alive
    /\ alive' = alive \cup {a}
    /\ SetArray(a, p, ext[b], alloc[b])
    /\ live' = live \cup ({p} \ {Null})
    /\ heap' = [k \in Blocks |-> IF k = p THEN Memory(alloc[b], ext[b], Elems(b))
                                ELSE Overwritten(b, f)[k]]
    /\ UNCHANGED ub

\* static_array(static_array&&): unlike array's, it allocates
StaticMoveConstruct(a, b) == Usable(b) /\ MoveElementsInto(a, b)

\* ... and array<T, 0> has no other
PointMoveConstruct(a, b) == UsablePoint(b) /\ MoveElementsInto(a, b)

\* static_array(decay_type&& other, alloc): the allocators are not compared
Steal(a, b, al) ==
  /\ a \notin alive
  /\ Usable(b)
  /\ alive' = alive \cup {a}
  /\ base' = [base EXCEPT ![a] = base[b], ![b] = Null]
  /\ ext' = [ext EXCEPT ![a] = ext[b], ![b] = NoExtents]
  /\ alloc' = [alloc EXCEPT ![a] = al]
  /\ UNCHANGED <<live, heap, ub>>

MoveConstruct(a, b) == Steal(a, b, alloc[b])

MoveConstructWith(a, b, al) ==
  /\ "construct" \in Mixes \/ al = alloc[b]
  /\ Steal(a, b, al)

Destroy(a) ==
  /\ a \in alive
  /\ alive' = alive \ {a}
  /\ Exchange(Released(a), Null, Unused)
  /\ ub' = ub \cup ReleaseFaults(a)
  /\ SetArray(a, Null, NoExtents, DefaultAlloc)

\* The element constructor throws in the body of a constructor: ~static_array
\* does not run, and nothing else returns the block.
ConstructThrows(x, al) ==
  /\ <<"construct", "element">> \in Throws
  /\ NumElements(x) > 0
  /\ x = Point => 0 \in Dimensions
  /\ \E b \in Allocate(NumElements(x), live) : Exchange({}, b, RawMemory(al, x))
  /\ UNCHANGED <<alive, base, ext, alloc, ub>>

-----------------------------------------------------------------------------
(***************************************************************************)
(* Assignment.                                                             *)
(***************************************************************************)

\* array::clear(): base_ keeps its value
Clear(a) ==
  /\ Usable(a)
  /\ ext' = [ext EXCEPT ![a] = NoExtents]
  /\ Exchange(Released(a), Null, Unused)
  /\ ub' = ub \cup ReleaseFaults(a)
  /\ UNCHANGED <<alive, base, alloc>>

AllocAfterCopy(a, b) == IF POCCA THEN alloc[b] ELSE alloc[a]

\* Mutant of CopyAssignSame: equal extensions are not treated apart
CopyAssignSame_Reallocates(a, b) ==
  /\ Usable(a) /\ Usable(b)
  /\ ext[a] = ext[b] /\ a # b
  /\ \E p \in Allocate(NumElements(ext[b]), live \ Released(a)) :
       /\ SetArray(a, p, ext[b], AllocAfterCopy(a, b))
       /\ Exchange(Released(a), p, Memory(AllocAfterCopy(a, b), ext[b], Elems(b)))
  /\ ub' = ub \cup ReleaseFaults(a)
  /\ UNCHANGED alive

CopyAssignSame(a, b) ==
  /\ Usable(a) /\ Usable(b)
  /\ ext[a] = ext[b] /\ a # b
  /\ alloc' = [alloc EXCEPT ![a] = AllocAfterCopy(a, b)]
  /\ heap' = Overwritten(a, Elems(b))
  /\ UNCHANGED <<alive, base, ext, live, ub>>

\* Mutant of CopyAssignOther: the layout of the source is not copied
CopyAssignOther_StaleLayout(a, b) ==
  /\ Usable(a) /\ Usable(b)
  /\ ext[a] # ext[b]
  /\ \E p \in Allocate(NumElements(ext[b]), live \ Released(a)) :
       /\ SetArray(a, p, ext[a], AllocAfterCopy(a, b))
       /\ Exchange(Released(a), p, Memory(AllocAfterCopy(a, b), ext[b], Elems(b)))
  /\ ub' = ub \cup ReleaseFaults(a)
  /\ UNCHANGED alive

CopyAssignOther(a, b) ==
  /\ Usable(a) /\ Usable(b)
  /\ ext[a] # ext[b]
  /\ \E p \in Allocate(NumElements(ext[b]), live \ Released(a)) :
       /\ SetArray(a, p, ext[b], AllocAfterCopy(a, b))
       /\ Exchange(Released(a), p, Memory(AllocAfterCopy(a, b), ext[b], Elems(b)))
  /\ ub' = ub \cup ReleaseFaults(a)
  /\ UNCHANGED alive

\* clear() and the new layout are in place, and base_ is the old pointer, when
\* allocate() throws.
CopyAssignAllocateThrows(a, b) ==
  /\ <<"copy_assign", "allocate">> \in Throws
  /\ Usable(a) /\ Usable(b)
  /\ ext[a] # ext[b] /\ NumElements(ext[b]) > 0
  /\ SetArray(a, base[a], ext[b], AllocAfterCopy(a, b))
  /\ Exchange(Released(a), Null, Unused)
  /\ ub' = ub \cup ReleaseFaults(a)
  /\ UNCHANGED alive

\* Mutant of CopyAssignElementThrows: base_ is set after the elements are copied
CopyAssignElementThrows_BaseNotSet(a, b) ==
  /\ <<"copy_assign", "element">> \in Throws
  /\ Usable(a) /\ Usable(b)
  /\ ext[a] # ext[b] /\ NumElements(ext[b]) > 0
  /\ \E p \in Allocate(NumElements(ext[b]), live \ Released(a)) :
       /\ SetArray(a, base[a], ext[b], AllocAfterCopy(a, b))
       /\ Exchange(Released(a), p, RawMemory(AllocAfterCopy(a, b), ext[b]))
  /\ ub' = ub \cup ReleaseFaults(a)
  /\ UNCHANGED alive

\* ... and base_ is the new block, without elements, when a copy constructor
\* throws.
CopyAssignElementThrows(a, b) ==
  /\ <<"copy_assign", "element">> \in Throws
  /\ Usable(a) /\ Usable(b)
  /\ ext[a] # ext[b] /\ NumElements(ext[b]) > 0
  /\ \E p \in Allocate(NumElements(ext[b]), live \ Released(a)) :
       /\ SetArray(a, p, ext[b], AllocAfterCopy(a, b))
       /\ Exchange(Released(a), p, RawMemory(AllocAfterCopy(a, b), ext[b]))
  /\ ub' = ub \cup ReleaseFaults(a)
  /\ UNCHANGED alive

\* The assignment operator of an element throws, in an assignment that keeps the
\* block.  The layout and, for a copy assignment, the allocator are already the
\* new ones.
AssignmentInterrupted(a, b) ==
  /\ <<"assign", "element">> \in Throws
  /\ Usable(a) /\ Usable(b) /\ a # b
  /\ NumElements(ext[a]) = NumElements(ext[b])
  /\ \E m \in 0 .. NumElements(ext[a]) - 1 :
       heap' = Overwritten(a, Interrupted(a, Elems(b), m))
  /\ ext' = [ext EXCEPT ![a] = ext[b]]
  /\ \/ UNCHANGED alloc
     \/ ext[a] = ext[b] /\ alloc' = [alloc EXCEPT ![a] = AllocAfterCopy(a, b)]
  /\ UNCHANGED <<alive, base, live, ub>>

\* Mutants of MoveAssign: the layout of other is copied, not exchanged;
MoveAssign_KeepsLayout(a, b) ==
  /\ Usable(a) /\ Usable(b)
  /\ a # b
  /\ "move_assign" \in Mixes \/ POCMA \/ alloc[a] = alloc[b]
  /\ SetArray(a, base[b], ext[b], IF POCMA THEN alloc[b] ELSE alloc[a])
  /\ Exchange(Released(a), Null, Unused)
  /\ ub' = ub \cup ReleaseFaults(a)
  /\ UNCHANGED alive

\* clear() is missing;
MoveAssign_NoClear(a, b) ==
  /\ Usable(a) /\ Usable(b)
  /\ a # b
  /\ "move_assign" \in Mixes \/ POCMA \/ alloc[a] = alloc[b]
  /\ base' = [base EXCEPT ![a] = base[b]]
  /\ ext' = [ext EXCEPT ![a] = ext[b], ![b] = NoExtents]
  /\ alloc' = [alloc EXCEPT ![a] = IF POCMA THEN alloc[b] ELSE alloc[a]]
  /\ UNCHANGED <<alive, live, heap, ub>>

\* other keeps base_, which is then a second pointer to the same block, and gets
\* an empty layout.
MoveAssign(a, b) ==
  /\ Usable(a) /\ Usable(b)
  /\ a # b
  /\ "move_assign" \in Mixes \/ POCMA \/ alloc[a] = alloc[b]
  /\ base' = [base EXCEPT ![a] = base[b]]
  /\ ext' = [ext EXCEPT ![a] = ext[b], ![b] = NoExtents]
  /\ alloc' = [alloc EXCEPT ![a] = IF POCMA THEN alloc[b] ELSE alloc[a]]
  /\ Exchange(Released(a), Null, Unused)
  /\ ub' = ub \cup ReleaseFaults(a)
  /\ UNCHANGED alive

\* Mutant of Swap: the allocators are not exchanged
Swap_AllocatorsStay(a, b) ==
  /\ Usable(a) /\ Usable(b)
  /\ a # b
  /\ "swap" \in Mixes \/ POCS \/ alloc[a] = alloc[b]
  /\ base' = [base EXCEPT ![a] = base[b], ![b] = base[a]]
  /\ ext' = [ext EXCEPT ![a] = ext[b], ![b] = ext[a]]
  /\ UNCHANGED <<alive, alloc, live, heap, ub>>

Swap(a, b) ==
  /\ Usable(a) /\ Usable(b)
  /\ a # b
  /\ "swap" \in Mixes \/ POCS \/ alloc[a] = alloc[b]
  /\ base' = [base EXCEPT ![a] = base[b], ![b] = base[a]]
  /\ ext' = [ext EXCEPT ![a] = ext[b], ![b] = ext[a]]
  /\ alloc' = IF POCS THEN [alloc EXCEPT ![a] = alloc[b], ![b] = alloc[a]] ELSE alloc
  /\ UNCHANGED <<alive, live, heap, ub>>

\* operator=(array{source}): a temporary with the default allocator takes its
\* block before a is cleared, and is moved from.
AssignTemporary(a, x, f) ==
  /\ "temporary" \in Mixes \/ POCMA \/ alloc[a] = DefaultAlloc
  /\ \E p \in Allocate(NumElements(x), live) :
       /\ SetArray(a, p, x, IF POCMA THEN DefaultAlloc ELSE alloc[a])
       /\ Exchange(Released(a), p, Memory(DefaultAlloc, x, f))
  /\ ub' = ub \cup ReleaseFaults(a)
  /\ UNCHANGED alive

AssignElements(a, f) ==
  /\ heap' = Overwritten(a, f)
  /\ UNCHANGED <<alive, base, ext, alloc, live, ub>>

\* operator=(const_subarray const&).  Assigning a view of a to itself is
\* undefined when the elements overlap, which a temporary avoids.
AssignView(a, b, view) ==
  /\ Usable(a) /\ Viewable(b)
  /\ LET x == ViewExtents(b, view)
         f == ViewElements(b, view)
     IN \/ ext[a] = x /\ a # b /\ AssignElements(a, f)
        \/ ext[a] # x /\ AssignTemporary(a, x, f)

\* static_array::operator=(static_array const&), which asserts equal extensions
StaticCopyAssign(a, b) ==
  /\ Usable(a) /\ Usable(b)
  /\ ext[a] = ext[b] /\ a # b
  /\ AssignElements(a, Elems(b))

PointCopyAssign(a, b) ==
  /\ UsablePoint(a) /\ UsablePoint(b)
  /\ a # b
  /\ AssignElements(a, Elems(b))

\* array<T, 0>::operator=(array<TT, 0> const&), which does not look for itself
PointConvertAssign(a, b) ==
  /\ UsablePoint(a) /\ UsablePoint(b)
  /\ AssignElements(a, Elems(b))

\* The elements of a become f and those of b become g.
AssignBoth(a, f, b, g) ==
  /\ heap' = IF NumElements(ext[a]) = 0 THEN heap
             ELSE [heap EXCEPT ![base[a]].elems = f, ![base[b]].elems = g]
  /\ UNCHANGED <<alive, base, ext, alloc, live, ub>>

\* static_array::operator=(static_array&&): the elements are moved, and each array
\* keeps its block
StaticMoveAssign(a, b) ==
  /\ Usable(a) /\ Usable(b)
  /\ ext[a] = ext[b] /\ a # b
  /\ \E g \in Vacated(b) : AssignBoth(a, Elems(b), b, g)

PointMoveAssign(a, b) ==
  /\ UsablePoint(a) /\ UsablePoint(b)
  /\ a # b
  /\ \E g \in Vacated(b) : AssignBoth(a, Elems(b), b, g)

\* static_array::swap_: element by element, through views of both
StaticSwap(a, b) ==
  /\ Viewable(a) /\ Viewable(b)
  /\ ext[a] = ext[b] /\ a # b
  /\ AssignBoth(a, Elems(b), b, Elems(a))

\* assign(pointer), operator=(Singleton const&), operator=(Other const&)
PointAssign(a, v) ==
  /\ UsablePoint(a)
  /\ AssignElements(a, Filled(Point, v))

\* assign(first, last), for the rows of a view: only the number of rows is
\* compared; rows of another length are the caller's error (an assertion).
AssignRange(a, b, view) ==
  /\ Usable(a) /\ Viewable(b)
  /\ LET x == ViewExtents(b, view)
         f == ViewElements(b, view)
     IN \/ ext[a][1] = x[1] /\ ext[a] = x /\ a # b /\ AssignElements(a, f)
        \/ ext[a][1] # x[1] /\ AssignTemporary(a, x, f)

\* operator=(array<TT, D, AA> const&) and operator=(Range&&), from extensions x
\* and elements f of another type: equal sizes keep the block.
AssignConverted(a, b) ==
  /\ Usable(a) /\ Usable(b) /\ a # b
  /\ \/ NumElements(ext[a]) = NumElements(ext[b])
        /\ ext' = [ext EXCEPT ![a] = ext[b]]
        /\ heap' = Overwritten(a, Elems(b))
        /\ UNCHANGED <<alive, base, alloc, live, ub>>
     \/ NumElements(ext[a]) # NumElements(ext[b])
        /\ AssignTemporary(a, ext[b], Elems(b))

-----------------------------------------------------------------------------
(***************************************************************************)
(* Changing the extensions.                                                *)
(***************************************************************************)

\* layout = layout_t{x}, for the same number of elements
Reshape(a, x) ==
  /\ Usable(a)
  /\ NumElements(x) = NumElements(ext[a])
  /\ ext' = [ext EXCEPT ![a] = x]
  /\ UNCHANGED <<alive, base, alloc, live, heap, ub>>

\* Mutants of Extended: the memory is kept as a prefix, as a vector would;
Extended_Prefix(a, x, v) ==
  [k \in 0 .. NumElements(x) - 1 |->
     IF k < NumElements(ext[a]) THEN Elems(a)[k] ELSE v]

\* The elements of a in new extensions x: those whose indices are in the
\* intersection keep their value, the others have value v.
Extended(a, x, v) ==
  [k \in 0 .. NumElements(x) - 1 |->
     LET i == k \div x[2]
         j == k % x[2]
     IN IF i < ext[a][1] /\ j < ext[a][2] THEN Elems(a)[i * ext[a][2] + j] ELSE v]

\* reextent(x) & and reextent(x, elem) &: the new block exists before the old
\* one is returned.
Reextent(a, x, v) ==
  /\ Usable(a)
  /\ x # ext[a]
  /\ \E p \in Allocate(NumElements(x), live) :
       /\ SetArray(a, p, x, alloc[a])
       /\ Exchange(Released(a), p, Memory(alloc[a], x, Extended(a, x, v)))
  /\ ub' = ub \cup ReleaseFaults(a)
  /\ UNCHANGED alive

\* Mutant of ReextentElementThrows: the old block is returned first
ReextentElementThrows_ReleasesFirst(a, x) ==
  /\ <<"reextent", "element">> \in Throws
  /\ Usable(a)
  /\ x # ext[a] /\ NumElements(x) > 0
  /\ \E p \in Allocate(NumElements(x), live \ Released(a)) :
       Exchange(Released(a), p, RawMemory(alloc[a], x))
  /\ UNCHANGED <<alive, base, ext, alloc, ub>>

\* No handler returns the block when an element of it cannot be constructed.
ReextentElementThrows(a, x) ==
  /\ <<"reextent", "element">> \in Throws
  /\ Usable(a)
  /\ x # ext[a] /\ NumElements(x) > 0
  /\ \E p \in Allocate(NumElements(x), live) : Exchange({}, p, RawMemory(alloc[a], x))
  /\ UNCHANGED <<alive, base, ext, alloc, ub>>

\* reextent(x) &&: the old block is returned first
ReextentMoved(a, x) ==
  /\ Usable(a)
  /\ x # ext[a]
  /\ \E p \in Allocate(NumElements(x), live \ Released(a)) :
       /\ SetArray(a, p, x, alloc[a])
       /\ Exchange(Released(a), p, Memory(alloc[a], x, Filled(x, DefaultValue)))
  /\ ub' = ub \cup ReleaseFaults(a)
  /\ UNCHANGED alive

ReextentMovedAllocateThrows(a, x) ==
  /\ <<"reextent_moved", "allocate">> \in Throws
  /\ Usable(a)
  /\ x # ext[a] /\ NumElements(x) > 0
  /\ SetArray(a, base[a], x, alloc[a])
  /\ Exchange(Released(a), Null, Unused)
  /\ ub' = ub \cup ReleaseFaults(a)
  /\ UNCHANGED alive

ReextentMovedElementThrows(a, x) ==
  /\ <<"reextent_moved", "element">> \in Throws
  /\ Usable(a)
  /\ x # ext[a] /\ NumElements(x) > 0
  /\ \E p \in Allocate(NumElements(x), live \ Released(a)) :
       /\ SetArray(a, p, x, alloc[a])
       /\ Exchange(Released(a), p, RawMemory(alloc[a], x))
  /\ ub' = ub \cup ReleaseFaults(a)
  /\ UNCHANGED alive

\* serialize() from an archive that holds extensions x and elements f
Load(a, x, f) ==
  /\ Usable(a)
  /\ IF x = ext[a]
     THEN AssignElements(a, f)
     ELSE /\ \E p \in Allocate(NumElements(x), live \ Released(a)) :
               /\ SetArray(a, IF x = NoExtents THEN base[a] ELSE p, x, alloc[a])
               /\ Exchange(Released(a), p, Memory(alloc[a], x, f))
          /\ ub' = ub \cup ReleaseFaults(a)
          /\ UNCHANGED alive

\* clear() is done, and reextent() has not changed the empty array.
LoadAllocateThrows(a, x) ==
  /\ <<"load", "allocate">> \in Throws
  /\ x # ext[a] /\ NumElements(x) > 0
  /\ Clear(a)

\* a[i][j] = v, through the array or through a view of it
Write(a, k, v) ==
  /\ Sound(a)
  /\ k < NumElements(ext[a])
  /\ heap' = [heap EXCEPT ![base[a]].elems[k] = v]
  /\ UNCHANGED <<alive, base, ext, alloc, live, ub>>

-----------------------------------------------------------------------------
Next ==
  \/ \E a \in Arrays, al \in Allocators : DefaultConstruct(a, al)
  \/ \E a \in Arrays, x \in Extents, v \in Values, al \in Allocators : FillConstruct(a, x, v, al)
  \/ \E a, b \in Arrays : CopyConstruct(a, b)
  \/ \E a, b \in Arrays, view \in Views, al \in Allocators : ViewConstruct(a, b, view, al)
  \/ \E a, b \in Arrays, view \in Views, al \in Allocators : RangeConstruct(a, b, view, al)
  \/ \E a, b \in Arrays, al \in Allocators : RefConstruct(a, b, al)
  \/ \E a \in Arrays, v \in Values, al \in Allocators : PointConstruct(a, v, al)
  \/ \E a \in Arrays, v \in Values : PointDefaultConstruct(a, v)
  \/ \E a \in Arrays, al \in Allocators : PointValueConstruct(a, al)
  \/ \E a \in Arrays, x \in Extents, v \in Values : ListConstruct(a, x, v)
  \/ \E a, b \in Arrays : PointCopyConstruct(a, b)
  \/ \E a, b \in Arrays, al \in Allocators : PointConvertConstruct(a, b, al)
  \/ \E a, b \in Arrays : StaticMoveConstruct(a, b)
  \/ \E a, b \in Arrays : PointMoveConstruct(a, b)
  \/ \E a, b \in Arrays : MoveConstruct(a, b)
  \/ \E a, b \in Arrays, al \in Allocators : MoveConstructWith(a, b, al)
  \/ \E a \in Arrays : Destroy(a)
  \/ \E x \in Extents \cup {Point}, al \in Allocators : ConstructThrows(x, al)
  \/ \E a \in Arrays : Clear(a)
  \/ \E a, b \in Arrays : CopyAssignSame(a, b)
  \/ \E a, b \in Arrays : CopyAssignOther(a, b)
  \/ \E a, b \in Arrays : CopyAssignAllocateThrows(a, b)
  \/ \E a, b \in Arrays : CopyAssignElementThrows(a, b)
  \/ \E a, b \in Arrays : AssignmentInterrupted(a, b)
  \/ \E a, b \in Arrays : MoveAssign(a, b)
  \/ \E a, b \in Arrays : Swap(a, b)
  \/ \E a, b \in Arrays : StaticCopyAssign(a, b)
  \/ \E a, b \in Arrays : PointCopyAssign(a, b)
  \/ \E a, b \in Arrays : PointConvertAssign(a, b)
  \/ \E a, b \in Arrays : StaticMoveAssign(a, b)
  \/ \E a, b \in Arrays : PointMoveAssign(a, b)
  \/ \E a, b \in Arrays : StaticSwap(a, b)
  \/ \E a \in Arrays, v \in Values : PointAssign(a, v)
  \/ \E a, b \in Arrays, view \in Views : AssignView(a, b, view)
  \/ \E a, b \in Arrays, view \in Views : AssignRange(a, b, view)
  \/ \E a, b \in Arrays : AssignConverted(a, b)
  \/ \E a \in Arrays, x \in Extents : Reshape(a, x)
  \/ \E a \in Arrays, x \in Extents, v \in Values : Reextent(a, x, v)
  \/ \E a \in Arrays, x \in Extents : ReextentElementThrows(a, x)
  \/ \E a \in Arrays, x \in Extents : ReextentMoved(a, x)
  \/ \E a \in Arrays, x \in Extents : ReextentMovedAllocateThrows(a, x)
  \/ \E a \in Arrays, x \in Extents : ReextentMovedElementThrows(a, x)
  \/ \E a \in Arrays, r \in Archives : Load(a, r[1], r[2])
  \/ \E a \in Arrays, r \in Archives : LoadAllocateThrows(a, r[1])
  \/ \E a \in Arrays : \E k \in 0 .. NumElements(ext[a]) - 1, v \in Values : Write(a, k, v)

Spec == Init /\ [][Next]_vars

-----------------------------------------------------------------------------
(***************************************************************************)
(* Properties.                                                             *)
(***************************************************************************)
Owns(a) == a \in alive /\ NumElements(ext[a]) > 0

\* Every array with elements points to a block that is allocated, has room for
\* exactly its num_elements() and holds them, whatever sequence of moves, swaps,
\* assignments and reextents led there.
ArraysHoldTheirElements ==
  \A a \in Arrays : Owns(a) => /\ base[a] \in live
                               /\ heap[base[a]].state = "built"
                               /\ heap[base[a]].size = NumElements(ext[a])

\* No two arrays with elements point to the same block.  (A moved-from array may
\* keep a pointer to it: its layout is empty.)
NoSharedBlocks ==
  \A a, b \in Arrays : Owns(a) /\ Owns(b) /\ base[a] = base[b] => a = b

\* No memory leaks (README.md): every allocated block belongs to an array.
NoLeakedBlocks == \A b \in live : \E a \in Arrays : Owns(a) /\ base[a] = b

\* An array returns its block through an allocator equal to the one it came from.
AllocatorsMatch ==
  \A a \in Arrays : Owns(a) /\ base[a] \in live => heap[base[a]].by = alloc[a]

\* Moves, swaps and propagated allocators leave every array with a block that is
\* its alone and that its own allocator takes back.
OwnBlocks == NoSharedBlocks /\ AllocatorsMatch

\* Nothing was freed twice, through another allocator, with another size, and no
\* destructor ran on memory without an element.
NoUndefinedBehaviour == ub = {}

\* What the arrays are worth to their user: extensions and a value per index.
Value(x, f) ==
  [ext |-> x,
   at  |-> IF x = Point THEN [i \in {<<>>} |-> f[0]]
           ELSE [i \in (0 .. x[1] - 1) \X (0 .. x[2] - 1) |-> f[i[1] * x[2] + i[2]]]]

Abstract == INSTANCE ArrayValues
              WITH val <- [a \in alive |-> Value(ext[a], Elems(a))],
                   Saved <- {Value(r[1], r[2]) : r \in Archives}

\* The arrays are values: an operation on one changes that one only, copies are
\* independent, reextent keeps the elements of common indices, and what a view is
\* assigned from may be the array itself.
ImplementsArrayValues == Abstract!Spec

\* Pointers, iterators and views of an array stay valid until the array is
\* destroyed, moved or swapped, or its extensions change: an assignment between
\* equal extensions, in particular, does not move the elements.
ViewsStayValid ==
  [][\A a \in Arrays :
       Owns(a) /\ Owns(a)' /\ ext[a] = ext'[a]
         /\ ~(\E b \in Arrays : MoveAssign(a, b) \/ Swap(a, b) \/ Swap(b, a))
       => base[a] = base'[a]]_vars

-----------------------------------------------------------------------------
(***************************************************************************)
(* What an exception leaves behind.                                        *)
(***************************************************************************)

\* The failures that leave their target in a state the program can still observe.
FailsOn(a) ==
  \/ \E b \in Arrays : \/ CopyAssignAllocateThrows(a, b)
                       \/ CopyAssignElementThrows(a, b)
                       \/ AssignmentInterrupted(a, b)
  \/ \E x \in Extents : \/ ReextentMovedAllocateThrows(a, x)
                        \/ ReextentMovedElementThrows(a, x)
  \/ \E r \in Archives : LoadAllocateThrows(a, r[1])

\* The failures that undo the operation: reextent on an lvalue, a constructor and
\* the temporary of an assignment.
FailsWithoutEffect ==
  \/ \E x \in Extents \cup {Point}, al \in Allocators : ConstructThrows(x, al)
  \/ \E a \in Arrays, x \in Extents : ReextentElementThrows(a, x)

Untouched(c) == /\ c \in alive' /\ ext'[c] = ext[c] /\ base'[c] = base[c]
                /\ Owns(c) => base[c] \in live' /\ heap'[base[c]] = heap[base[c]]

\* An exception out of an assignment, a reextent or a load of one array leaves
\* every other array with its block and its elements, moved-from arrays and the
\* arrays that took their blocks included.
FailureHurtsTargetOnly ==
  [][\A a \in Arrays : FailsOn(a) => \A c \in alive \ {a} : Untouched(c)]_vars

\* An exception out of reextent on an lvalue, of a constructor or of the copy that
\* an assignment makes first changes no array.
StrongGuarantee == [][FailsWithoutEffect => \A c \in alive : Untouched(c)]_vars

\* Up to the first damage: after it the program only unwinds.
NoDamageYet == /\ ArraysHoldTheirElements /\ NoSharedBlocks
               /\ NoLeakedBlocks /\ NoUndefinedBehaviour

\* The first exception costs at most one thing: a block that nothing returns, or
\* an array whose memory does not hold its elements (or which, if it had been moved
\* from, is left with the block that was taken from it).
LostBlocks == {b \in live : \A a \in Arrays : ~(Owns(a) /\ base[a] = b)}

DamageIsContained == Cardinality({a \in alive : ~Sound(a)}) + Cardinality(LostBlocks) <= 1
=============================================================================
