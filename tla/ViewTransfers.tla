----------------------------- MODULE ViewTransfers -----------------------------
(******************************************************************************)
(* What a program does with the elements of two views of one memory:          *)
(* subarray::operator=, swap, fill, assign, element_moved and serialize, and  *)
(* the comparisons (array_ref.hpp).  Every one of them is a loop over the     *)
(* elements, one element per step; the library does not check whether the two *)
(* views share elements, and then the order of the steps decides.             *)
(******************************************************************************)
EXTENDS Layout, FiniteSets

CONSTANTS
    Cells,          \* the addresses of the memory
    Values,         \* what a cell can hold
    Moved,          \* the value of an element that has been moved from
    Views,          \* the views that the program has, all of them of Cells
    Firsts,         \* the first indices that it gives them before it compares them
    Fills,          \* the values that fill is called with
    Memories,       \* the contents of the memory at the start
    MaxTransfers    \* the program makes no more transfers than these

VARIABLES
    mem,            \* the value of each cell
    before,         \* the memory when the current transfer began
    job,            \* the current transfer, or the last one
    done,           \* how many elements it has visited
    running,        \* whether the loop is going on
    archive,        \* what has been saved
    transfers       \* how many transfers have begun

vars == <<mem, before, job, done, running, archive, transfers>>

Ops == {"none", "copy", "swap", "move", "fill", "save", "load"}

--------------------------------------------------------------------------------
(* The elements of a view, in the order in which the loops visit them.        *)

\* v.elements(): the canonical order.
CanonicalOrder(v) == [n \in 1 .. NumElements(v.dims) |-> ElementAt(v, n - 1)]

\* *(v.begin() + k)
Row(v, k) == View(Tail(v.dims), v.base + k * v.dims[1].stride)

\* Wrong on purpose: the rows are laid end to end, as if v were contiguous.
RowOrder_Contiguous(v) == [n \in 1 .. NumElements(v.dims) |-> v.base + n - 1]

\* A copy of rows visits the elements of the first row, then of the next.
RowOrder(v) ==
    IF v.dims = <<>> THEN <<v.base>>
    ELSE IF Len(v.dims) = 1
    THEN [k \in 1 .. Size(v.dims[1]) |-> v.base + (k - 1) * v.dims[1].stride]
    ELSE FoldLeft(\o, <<>>, [k \in 1 .. Size(v.dims[1]) |-> CanonicalOrder(Row(v, k - 1))])

\* elements() of an array_ref is a vector.
Flat(v) == Reference(v.base, <<<<0, NumElements(v.dims)>>>>)

\* copy_elements_: from data_elements() on, num_elements() of them.
Block(v) == RowOrder(Flat(v))

elements == [v \in Views |-> CanonicalOrder(v)]
rows == [v \in Views |-> RowOrder(v)]

\* Only views of one number of dimensions are assigned and compared; that is
\* a matter of their types.
SameRank(v, w) == Len(v.dims) = Len(w.dims)

SameExtension(v, w) == v.dims # <<>> => Extension(v.dims[1]) = Extension(w.dims[1])

SameShape(v, w) == Extensions(v.dims) = Extensions(w.dims)

\* What an array_ptr refers to: it keeps a layout and makes an array_ref out of
\* the extensions.
Pointee(v) == Reference(v.base, Extensions(v.dims))

IsArray(v) == v = Pointee(v)

\* What the assignment of rows asserts: the sizes, and the shapes of the rows.
RowsFit(v, w) ==
    /\ v.dims # <<>>
    /\ Size(v.dims[1]) = Size(w.dims[1])
    /\ Len(v.dims) > 1 /\ Size(v.dims[1]) # 0 =>
           /\ SameExtension(Row(v, 0), Row(w, 0))
           /\ NumElements(Tail(v.dims)) = NumElements(Tail(w.dims))

\* An array converts to a C array of the same sizes, whose indices start at zero,
\* and throws if the sizes differ.
CArrayOf(w) == Reference(w.base, FromSizes(Sizes(w.dims)))

SizesMatch(v, w) == Sizes(v.dims) = Sizes(w.dims)

ListsCells(s, n) == s \in Seq(Cells) /\ IsInjective(s) /\ Len(s) = n

ASSUME TransfersAssumption ==
    /\ IsFiniteSet(Cells)
    /\ Moved \in Values /\ Fills \subseteq Values
    /\ MaxTransfers \in Nat
    /\ Memories \subseteq [Cells -> Values]
    /\ \A v \in Views :
           /\ ListsCells(elements[v], NumElements(v.dims))
           /\ ListsCells(rows[v], NumElements(v.dims))
           /\ IsArray(v) => ListsCells(Block(v), NumElements(v.dims))
    /\ \A v, w \in Views : SameRank(v, w) =>
           /\ RowsFit(v, w) \/ v.dims = <<>> => Len(rows[v]) = Len(rows[w])
           /\ SameShape(v, w) => Len(elements[v]) = Len(elements[w])
           /\ IsArray(w) /\ SizesMatch(v, w) =>
                  ListsCells(CanonicalOrder(CArrayOf(w)), NumElements(v.dims))

\* elements() counts the indices of every dimension from zero, whatever the first
\* of them is (FromLinear): the program's views start there.  Only where elements()
\* is not called, in comparisons, are they views from another index on (Firsts).
ASSUME ViewsStartAtZero ==
    \A v \in Views :
        /\ v.base \in Int /\ v.dims \in Seq(Dimensions)
        /\ \A k \in DOMAIN v.dims :
               v.dims[k].offset = 0 /\ ExtensionExists(v.dims[k]) /\ Size(v.dims[k]) >= 0

ASSUME FirstsAreIndices == Firsts \subseteq Int

\* Elements are compared with <: numbers stand for a type that it orders totally.
ASSUME ValuesAreOrdered == Values \subseteq Int

--------------------------------------------------------------------------------
(* Transfers begin.                                                           *)

Start(op, to, from, dst, src, x) ==
    /\ job' = [op |-> op, to |-> to, from |-> from, dst |-> dst, src |-> src, value |-> x]
    /\ before' = mem
    /\ done' = 0
    /\ running' = TRUE
    /\ archive' = IF op = "save" THEN <<>> ELSE archive
    /\ transfers' = transfers + 1
    /\ UNCHANGED mem

\* Wrong on purpose: the number of elements is not compared.
AssignView_LeadingOnly(v, w) ==
    /\ SameExtension(v, w)
    /\ Start("copy", v, w, elements[v], elements[w], Moved)

\* v = w asserts that the leading extensions are equal, and then, in the
\* assignment of their elements(), that there are as many elements.
AssignView(v, w) ==
    /\ SameExtension(v, w)
    /\ NumElements(v.dims) = NumElements(w.dims)
    /\ Start("copy", v, w, elements[v], elements[w], Moved)

\* v = range and v.assign(it), where the range iterates over the rows of w: each
\* row of v is assigned in its turn, with the assertions of its assignment.
AssignRows(v, w) ==
    /\ RowsFit(v, w)
    /\ Start("copy", v, w, rows[v], rows[w], Moved)

\* The assignment of array_refs, which are contiguous, counts the elements only.
AssignArray(v, w) ==
    /\ IsArray(v) /\ IsArray(w)
    /\ NumElements(v.dims) = NumElements(w.dims)
    /\ Start("copy", v, w, Block(v), Block(w), Moved)

\* The assignment of an array_ref of another type compares the extensions.
ConvertArray(v, w) ==
    /\ IsArray(v) /\ IsArray(w)
    /\ SameShape(v, w)
    /\ Start("copy", v, w, Block(v), Block(w), Moved)

\* v is assigned from the C array that w converts to.
AssignCArray(v, w) ==
    /\ IsArray(w)
    /\ SizesMatch(v, w) /\ SameExtension(v, CArrayOf(w))
    /\ Start("copy", v, w, elements[v], CanonicalOrder(CArrayOf(w)), Moved)

\* uninitialized_copy of rows constructs the elements of v row by row; it does
\* not compare shapes, and the program gives it the room.
ConstructRows(v, w) ==
    /\ Len(v.dims) > 1
    /\ RowsFit(v, w)
    /\ Start("copy", v, w, rows[v], rows[w], Moved)

\* A view without dimensions is an element.
AssignPoint(v, w) == v.dims = <<>> /\ Start("copy", v, w, rows[v], rows[w], Moved)

FillPoint(v, x) == v.dims = <<>> /\ Start("fill", v, v, rows[v], rows[v], x)

\* A copy from mbegin() and mend(), or from the iterators of w.move(), moves the
\* elements of a vector; with more dimensions the iterators refer to ordinary
\* rows, which are copied.
MoveRange(v, w) ==
    /\ RowsFit(v, w)
    /\ Start(IF Len(v.dims) = 1 THEN "move" ELSE "copy", v, w, rows[v], rows[w], Moved)

\* v = w.element_moved().
MoveElements(v, w) ==
    /\ SameExtension(v, w)
    /\ NumElements(v.dims) = NumElements(w.dims)
    /\ Start("move", v, w, elements[v], elements[w], Moved)

\* swap asserts that the leading extensions are equal and goes as far as v does;
\* the program swaps views of one shape.
SwapViews(v, w) ==
    /\ SameExtension(v, w)
    /\ SameShape(v, w)
    /\ Start("swap", v, w, elements[v], elements[w], Moved)

\* fill is there for vectors only.
FillView(v, x) == Len(v.dims) = 1 /\ Start("fill", v, v, rows[v], rows[v], x)

\* Wrong on purpose: the rows are taken for contiguous.
Order_Contiguous(v, version) == IF version = 0 THEN Block(v) ELSE elements[v]

\* serialize() of version 0 goes by rows, of other versions by elements.
Order(v, version) == IF version = 0 THEN rows[v] ELSE elements[v]

SaveView(v, version) == Start("save", v, v, Order(v, version), Order(v, version), Moved)

LoadView(v, version) ==
    /\ job.op = "save" /\ SameShape(v, job.from)
    /\ Len(archive) = NumElements(v.dims)
    /\ Start("load", v, job.from, Order(v, version), Order(v, version), Moved)

--------------------------------------------------------------------------------
(* One element of the loop.                                                   *)

Target == job.dst[done + 1]
Source == job.src[done + 1]

Visiting(op) == running /\ job.op = op /\ done < Len(job.dst)

Visited ==
    /\ done' = done + 1
    /\ UNCHANGED <<before, job, running, transfers>>

\* Wrong on purpose: the elements of the source are taken in the reverse order.
CopyElement_Backwards ==
    /\ Visiting("copy")
    /\ mem' = [mem EXCEPT ![Target] = mem[job.src[Len(job.src) - done]]]
    /\ Visited /\ UNCHANGED archive

CopyElement ==
    /\ Visiting("copy")
    /\ mem' = [mem EXCEPT ![Target] = mem[Source]]
    /\ Visited /\ UNCHANGED archive

\* Wrong on purpose: one of the two values is lost.
SwapElement_NoTemporary ==
    /\ Visiting("swap")
    /\ mem' = [mem EXCEPT ![Target] = mem[Source]]
    /\ Visited /\ UNCHANGED archive

SwapElement ==
    /\ Visiting("swap")
    /\ mem' = [mem EXCEPT ![Target] = mem[Source], ![Source] = mem[Target]]
    /\ Visited /\ UNCHANGED archive

\* Wrong on purpose: the element that has been copied stays.
MoveElement_Copies ==
    /\ Visiting("move")
    /\ mem' = [mem EXCEPT ![Target] = mem[Source]]
    /\ Visited /\ UNCHANGED archive

\* An element that is moved to itself may keep its value or lose it.
MoveElement ==
    /\ Visiting("move")
    /\ \E left \in IF Target = Source THEN {mem[Source], Moved} ELSE {mem[Source]} :
           mem' = [mem EXCEPT ![Source] = Moved, ![Target] = left]
    /\ Visited /\ UNCHANGED archive

FillElement ==
    /\ Visiting("fill")
    /\ mem' = [mem EXCEPT ![Target] = job.value]
    /\ Visited /\ UNCHANGED archive

SaveElement ==
    /\ Visiting("save")
    /\ archive' = Append(archive, mem[Source])
    /\ Visited /\ UNCHANGED mem

LoadElement ==
    /\ Visiting("load")
    /\ mem' = [mem EXCEPT ![Target] = archive[done + 1]]
    /\ Visited /\ UNCHANGED archive

\* The loop ends when it has visited every element, or when the copy of one
\* throws; nothing is rolled back.
Leave ==
    /\ running
    /\ done = Len(job.dst) \/ job.op = "copy"
    /\ running' = FALSE
    /\ UNCHANGED <<mem, before, job, done, archive, transfers>>

--------------------------------------------------------------------------------
Init ==
    /\ mem \in Memories
    /\ before = mem
    /\ \E v \in Views :
           job = [op |-> "none", to |-> v, from |-> v, dst |-> <<>>, src |-> <<>>, value |-> Moved]
    /\ done = 0
    /\ running = FALSE
    /\ archive = <<>>
    /\ transfers = 0

\* The program is not in a transfer, and begins one.
Begin ==
    /\ ~running
    /\ transfers < MaxTransfers
    /\ \/ \E v, w \in Views :
           /\ SameRank(v, w)
           /\ \/ AssignView(v, w) \/ AssignRows(v, w) \/ AssignArray(v, w) \/ ConvertArray(v, w)
              \/ AssignCArray(v, w) \/ ConstructRows(v, w) \/ AssignPoint(v, w)
              \/ MoveRange(v, w) \/ MoveElements(v, w) \/ SwapViews(v, w)
       \/ \E v \in Views :
              \/ \E x \in Fills : FillView(v, x) \/ FillPoint(v, x)
              \/ \E version \in {0, 1} : SaveView(v, version) \/ LoadView(v, version)

Step ==
    \/ CopyElement \/ SwapElement \/ MoveElement \/ FillElement \/ SaveElement \/ LoadElement
    \/ Leave

Next == Begin \/ Step

Spec == Init /\ [][Next]_vars

--------------------------------------------------------------------------------
(* Comparisons.  They read only, and so are operators on the memory.          *)

ValuesOf(v) == [n \in DOMAIN elements[v] |-> mem[elements[v][n]]]

\* operator==: the leading extensions and the elements in their order.
Equal(v, w) == SameExtension(v, w) /\ ValuesOf(v) = ValuesOf(w)

\* operator== of arrays: all extensions, and the elements in memory.
EqualArrays(v, w) ==
    /\ SameShape(v, w)
    /\ \A n \in DOMAIN Block(v) : mem[Block(v)[n]] = mem[Block(w)[n]]

\* Wrong on purpose: any smaller item will do.
LexicographicallyLess_Anywhere(m, n, less, greater) ==
    less # {} \/ m < n

\* std::lexicographical_compare of two ranges of m and n items, of which those
\* at the positions less and greater differ.
LexicographicallyLess(m, n, less, greater) ==
    \/ \E k \in less : \A j \in 0 .. k - 1 : j \notin less \cup greater
    \/ m < n /\ less \cup greater = {}

\* Views are ordered by their first index, the greater first, and then by
\* their items.
FirstOf(v) == Extension(v.dims[1])[1]

\* Wrong on purpose: a smaller first index does not end the comparison.
Compare_GoesOn(v, w, less, greater) ==
    \/ FirstOf(v) > FirstOf(w)
    \/ LexicographicallyLess(Size(v.dims[1]), Size(w.dims[1]), less, greater)

Compare(v, w, less, greater) ==
    \/ FirstOf(v) > FirstOf(w)
    \/ /\ FirstOf(v) = FirstOf(w)
       /\ LexicographicallyLess(Size(v.dims[1]), Size(w.dims[1]), less, greater)

\* The positions of the items that both views have.
Common(v, w) == {k \in 0 .. Size(v.dims[1]) - 1 : k < Size(w.dims[1])}

LessVector(v, w) ==
    LET Item(u, k) == mem[u.base + k * u.dims[1].stride]
    IN  Compare(v, w, {k \in Common(v, w) : Item(v, k) < Item(w, k)},
                      {k \in Common(v, w) : Item(w, k) < Item(v, k)})

LessMatrix(v, w) ==
    Compare(v, w, {k \in Common(v, w) : LessVector(Row(v, k), Row(w, k))},
                  {k \in Common(v, w) : LessVector(Row(w, k), Row(v, k))})

LessPoint(v, w) == mem[v.base] < mem[w.base]

Less(v, w) ==
    CASE Len(v.dims) = 0 -> LessPoint(v, w)
      [] Len(v.dims) = 1 -> LessVector(v, w)
      [] Len(v.dims) = 2 -> LessMatrix(v, w)

--------------------------------------------------------------------------------
(* Properties.                                                                *)

Jobs ==
    [op : Ops, to : Views, from : Views,
     dst : Seq(Cells), src : Seq(Cells), value : Values]

\* Cells hold values, a transfer visits cells of the memory, and it has visited
\* no more elements than it has (the loops of adl_copy, swap_ranges, fill_n).
TypeOK ==
    /\ mem \in [Cells -> Values] /\ before \in [Cells -> Values]
    /\ job \in Jobs /\ Len(job.src) = Len(job.dst)
    /\ done \in 0 .. Len(job.dst)
    /\ running \in BOOLEAN
    /\ archive \in Seq(Values)
    /\ transfers \in 0 .. MaxTransfers

\* No element is read after it has been written over with another one.
ReadInTime(dst, src) == \A m, n \in DOMAIN dst : m < n => dst[m] # src[n]

Disjoint(dst, src) == \A m, n \in DOMAIN dst : dst[m] # src[n]

\* What an assignment promises, as far as it has gone: the elements visited
\* have the values that the elements of the source had when it began, whatever
\* the loop has written since; the other cells are as they were.  It holds
\* also when the views overlap, if each element is read before it is written
\* over (subarray::operator=, assign).
Assigned ==
    job.op = "copy" /\ ReadInTime(job.dst, job.src) =>
        /\ \A n \in 1 .. done : mem[job.dst[n]] = before[job.src[n]]
        /\ \A c \in Cells : (\A n \in 1 .. done : c # job.dst[n]) => mem[c] = before[c]

\* The same in terms of indices, and so for the three loops alike: after an
\* assignment between views of one shape that share no element, v[i][j] has
\* the value of w[i][j].
AssignedByIndex ==
    job.op = "copy" /\ done = Len(job.dst) /\ SameShape(job.to, job.from)
      /\ Disjoint(elements[job.to], elements[job.from]) =>
        \A i \in Indices(Extensions(job.to.dims)) :
            mem[Address(job.to, i)] = before[Address(job.from, i)]

Holding(m, x) == {c \in Cells : m[c] = x}

\* swap loses no value and makes none up, even if the two views overlap: every
\* value is held by as many cells as before (subarray::swap).
SwapRearranges ==
    job.op = "swap" => \A x \in Values : Cardinality(Holding(mem, x)) = Cardinality(Holding(before, x))

\* And if they do not overlap, the visited elements are exchanged, and nothing
\* else has changed.
SwapExchanges ==
    job.op = "swap" /\ Disjoint(job.dst, job.src) =>
        /\ \A n \in 1 .. done : mem[job.dst[n]] = before[job.src[n]] /\ mem[job.src[n]] = before[job.dst[n]]
        /\ \A c \in Cells : (\A n \in 1 .. done : c # job.dst[n] /\ c # job.src[n]) => mem[c] = before[c]

\* Each element is moved once: it is found in its place of the destination, and
\* what it leaves behind is moved-from; no moved-from value gets into the
\* destination, and nothing else changes (element_moved).
MovedOnce ==
    job.op = "move" /\ Disjoint(job.dst, job.src) =>
        /\ \A n \in 1 .. done : mem[job.dst[n]] = before[job.src[n]] /\ mem[job.src[n]] = Moved
        /\ \A c \in Cells : (\A n \in 1 .. done : c # job.dst[n] /\ c # job.src[n]) => mem[c] = before[c]

\* What is saved from one view and loaded into another of the same shape gives
\* it the values, by index, although one of the two may go by rows and the
\* other by elements (serialize, version).
RoundTrip ==
    job.op = "load" /\ done = Len(job.dst) =>
        \A i \in Indices(Extensions(job.to.dims)) :
            mem[Address(job.to, i)] = before[Address(job.from, i)]

\* Views of one number of dimensions.
Comparable == {p \in Views \X Views : SameRank(p[1], p[2]) /\ Len(p[1].dims) <= 2}

\* Arrays of one shape.
TwoArrays == {p \in Comparable : IsArray(p[1]) /\ IsArray(p[2]) /\ SameShape(p[1], p[2])}

\* v.reindexed(i): the same elements, from the index i on.
Reindexed(v, i) == View(Reindex(v.dims, i), v.base)

HasItems(v) == v.dims # <<>> /\ Size(v.dims[1]) # 0

OneOfThree(v, w) ==
    /\ ~(Less(v, w) /\ Less(w, v))
    /\ Equal(v, w) <=> ~Less(v, w) /\ ~Less(w, v)

\* Of two views exactly one is less or they are equal, for whatever the memory
\* holds after any transfers, also if they are given different first indices:
\* then these alone decide, and whatever the items are, equal ones included, one
\* view is less (operator==, lexicographical_compare); and arrays of one shape are
\* equal as arrays if they are equal as views.
Trichotomy ==
    ~running /\ done = Len(job.dst) => \A p \in Comparable :
        LET v == p[1]
            w == p[2]
        IN  /\ OneOfThree(v, w)
            /\ HasItems(v) /\ HasItems(w) =>
                   \A i, j \in Firsts : i # j => OneOfThree(Reindexed(v, i), Reindexed(w, j))
            /\ p \in TwoArrays => EqualArrays(v, w) = Equal(v, w)

================================================================================
