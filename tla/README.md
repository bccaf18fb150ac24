# Boost.Multi in TLA+

Boost.Multi is a header-only C++ library of multidimensional arrays: `multi::array<T, D>`
owns memory, and `multi::subarray` and its relatives are views of memory that somebody else
owns. Adaptors hand arrays to BLAS, LAPACK, FFT libraries and MPI. This directory holds TLA+
specifications of its algorithms, the TLC configurations that model-check them on small
instances, and TLAPS proofs of what matters most. Paths below are relative to
`src/include/boost/multi/` unless they start with `src/`.

The library is sequential code: nothing in the core runs concurrently, no message is sent
and nothing is persisted. What is hard is elsewhere:

- exceptions that leave an operation between two of its steps;
- long sequences of moves, swaps and assignments through which blocks of memory change
  owners, with allocators that are not interchangeable;
- chains of views of views, each of which rewrites a base pointer and a layout;
- loops over two views that share elements, where the order of the steps decides;
- iterators that keep their place in two representations at once;
- adaptors that turn strides into the arguments of foreign calls, case by case, and keep
  handles of foreign resources, in one case in a map for each thread.

## 1. The parts of the system

| part | code | status |
|---|---|---|
| uninitialized algorithms | `detail/adl.hpp`, `detail/memory.hpp` | partly modelled |
| `static_array` and `array` | `array.hpp` | partly modelled |
| subarray views and layouts | `array_ref.hpp`, `detail/layout.hpp` | partly modelled |
| subarray views of one dimension | `array_ref.hpp` | partly modelled |
| elements range and iterator | `array_ref.hpp`, `detail/layout.hpp` | partly modelled |
| iterators, cursors, pointers to subarrays | `array_ref.hpp` | modelled |
| assignment, comparison, swap of views | `array_ref.hpp`, `utility.hpp` | modelled |
| extensions and index ranges | `detail/layout.hpp`, `detail/index_range.hpp` | partly modelled |
| serialization | `detail/serialization.hpp` | partly modelled |
| blas adaptor | `adaptors/blas/` | partly modelled |
| lapack adaptor | `adaptors/lapack/` | `potrf` modelled |
| fftw, cufft and hipfft adaptors | `adaptors/fftw.hpp`, `cufft.hpp`, ... | partly modelled |
| mpi adaptor | `adaptors/mpi.hpp` | partly modelled |
| `static_allocator`, `inplace_array` | `detail/static_allocator.hpp` | not modelled |
| tuples, operator mixins, traits | `detail/*.hpp`, `utility.hpp` | not modelled |
| cuda, thrust and hipthrust adaptors | `adaptors/thrust/`, `adaptors/cuda/` | not modelled |
| tblis, complex, totalview adaptors | `adaptors/` | not modelled |

How they interact: an `array` is a `static_array` is an `array_ref` is a `subarray` is a
layout with a base pointer. The array asks its allocator for a block, calls an uninitialized
algorithm to build the elements in it, and hands out views, which are copies of the layout
and of the pointer, rewritten. Views hand out iterators, which are a view and a position;
`elements()` hands out the iterator that the element-wise copies are written with. When the
array changes its extensions or dies it calls `destroy()` and `deallocate()`. The adaptors
read base and strides and call a library. There are no callbacks other than the
constructors, destructors and assignments of the element type and the functions of the
allocator, and these may throw.

### Uninitialized algorithms

State: the block being filled, and the locals of a loop (`first`, `current`, `count`).
Operations: `alloc_uninitialized_{value_construct,default_construct,copy,move,fill}_n`,
each with a `catch(...)` that destroys what was built and rethrows, and `alloc_destroy_n`,
which goes backwards. A function object chooses which implementation runs.
Hard: the exception of the k-th constructor, blocks of no elements, trivial elements, for
which construction or destruction does nothing, implementations that lose the allocator.
Correct when: all elements exist after a return and none after an exception; constructors
and destructors alternate on each cell; every call comes back; the allocator destroys what
it constructed.

### `static_array` and `array`

State: a pointer `base_`, a layout, an allocator `alloc_`; and the blocks of the heap.
Operations: constructors, destructor, copy, move and swap, the assignments of both classes,
`reextent` on lvalues and on rvalues, `reshape`, `clear`, loading from an archive.
Hard: an exception between the steps of an assignment, moved-from arrays that keep their
pointer, allocators that compare unequal and do or do not propagate, assignment from a view
of the array itself, blocks of size zero that are never allocated, arrays of no dimension,
which are never empty.
Correct when: each array with elements owns a block of its own that holds exactly them,
nothing leaks, each block goes back to where it came from, and the arrays behave as values.

### Subarray views and layouts

State: a base address and, for each dimension, a stride, an offset and a number `nelems`.
Operations: the some thirty member functions that make a view out of a view, and casts. Views
of one dimension are a specialisation with code of its own.
Hard: negative or composite strides, views without elements, indices that do not start at
zero, functions that are right only for some of these and check less than they need.
Correct when: a chain of views never leaves the memory of its array, never names one element
twice, has extensions, and names exactly the elements that its functions promise.

### The elements range, iterators, cursors and pointers

State: of an iterator of `elements()` a base, a layout, extensions, a number `n_` and a tuple
of indices `ns_`; of the others a pointer, a stride and a layout.
Operations: begin, end, copy, conversion, assignment, steps, `*`, `[]`, `()`, `&`,
comparison, difference.
Hard: a number and indices that have to move together, an end that has no indices, strides
that are negative, pointers that step by the size of what they point to.
Correct when: each refers to what `operator[]` finds at its position, and comparisons are
those of positions. Of the iterators of `elements()` this holds on the paths that keep number
and indices together; on the others (`=`, `-=`, `++` past the last element) what is checked is
by how much the two part, and what is referred to and compared then.

### Assignment, comparison, swap, fill, move and serialization of views

State: the memory, the two lists of addresses that a loop walks, how far it has come.
Hard: views that share elements; loops by rows and loops by elements, which must agree;
moved-from elements; comparisons that look at the first index, the extension, the elements.
Correct when: an assignment is the simultaneous one wherever it reads each element before it
overwrites it, swap and move lose nothing, and exactly one of `<`, `==` and `>` holds.

### The adaptors

- blas and lapack: pure selections. Correct when the sums of products that the library forms
  by addresses are those the operation means by indices, and plain operands are not refused.
- fftw, cufft: a plan holds a handle and a reading of two layouts; cufft's plans are found
  again in a `thread_local` map. Correct when an execution transforms what its caller asked
  for, and each open handle has one owner and one user.
- mpi: a datatype for each dimension, each made of the one below and freed once used. Correct
  when the type selects the view in canonical order, and no handle is lost or freed twice.

## 2. The modules

| module | models | kind |
|---|---|---|
| `AtomicBatch` | the all-or-nothing call an owner relies on | abstract |
| `UninitializedAlgorithms` | the loops of `adl.hpp`, an iteration per step | detailed |
| `CustomizationPoints` | who runs an algorithm, and who asks the allocator | detailed |
| `UninitializedAlgorithms_proofs` | theorems about the loops, and about who runs them | proofs |
| `ArrayValues` | arrays as mathematical values | abstract |
| `ArrayLifecycle` | arrays, allocators and the heap | detailed |
| `ArrayLifecycle_proofs` | theorems about it | proofs |
| `IndexMaps` | views as a box of indices and the element each names | abstract |
| `Layout` | the arithmetic of `layout_t` and `extensions_t` | operators |
| `Layout_proofs` | lemmas about it, for any number of dimensions | proofs |
| `IndexRanges` | the arithmetic of half-open ranges | operators |
| `SubarrayViews` | chains of views of views, and casts | detailed |
| `SubarrayViews_proofs` | theorems about it | proofs |
| `VectorMaps` | views of one dimension as sequences of elements | abstract |
| `VectorViews` | `const_subarray<T, 1>` | detailed |
| `VectorViews_proofs` | theorems about it | proofs |
| `ElementsIterator` | iterators of `elements()` that are moved and assigned | detailed |
| `ArrayIterators` | the other iterators, pointers and cursors | detailed |
| `ArrayIterators_proofs` | theorems about it and about `ElementsIterator` | proofs |
| `ViewTransfers` | loops over the elements of two views of one memory | detailed |
| `ViewTransfers_proofs` | theorems about it | proofs |
| `Blas` | the selections of the blas adaptor and of `potrf` | detailed |
| `FourierTransforms` | plans, their cache in each thread, their executions | detailed |
| `FourierTransforms_proofs` | theorems about it | proofs |
| `Datatypes` | MPI datatypes, their owners and what they select | detailed |
| `MC...` | values of the constants for TLC | instances |

Composition: `UninitializedAlgorithms` implements `AtomicBatch`, and that is what allows
`ArrayLifecycle` to build the elements of a block in one step, or none of them.
`CustomizationPoints` extends it with the choice of the loop. `ArrayLifecycle` implements
`ArrayValues`. Everything about views extends `Layout`, so that iterators, transfers and
datatypes act on the layouts that `SubarrayViews` makes; `SubarrayViews` implements
`IndexMaps`, and `VectorViews` implements `VectorMaps`. `Layout_proofs` is the library of
lemmas that the proofs about views and iterators share.

### From the code to `UninitializedAlgorithms` and `CustomizationPoints`

`cell` is the block; `first`, `current` and `count` are the locals of the same names, as
offsets from the start of the block; `pc` is the place in the function. `ConstructNext` is an
iteration of a construction loop, `ConstructThrows` its exception, `RollbackNext` and
`Rethrow` the handler, `DestroyNext` an iteration of `alloc_destroy_n`. `ctors` and `dtors`
are history variables that count calls. Trivial elements take `SkipConstruction` (only for
default construction) and `SkipDestruction`, as the `if constexpr` conditions say.

The function objects of `adl.hpp` try implementations in an order of priorities, and the last
that compiles is taken. `CustomizationPoints` has one sequence of candidates for each of
them; `provided` is the set of levels at which a program implements the algorithm itself,
`by` the implementation chosen, `made` and `ended` count the calls of `construct` and
`destroy` of the allocator.

### From the code to `ArrayLifecycle`

`base`, `ext` and `alloc` are the members of each array, `live` is the set of allocated
blocks, and `heap` remembers of each block who allocated it, how large it is and what is in
it. `ub` collects the undefined behaviours an execution has met: a block freed that is not
allocated (`bad_free`), elements destroyed that were not built (`destroy_raw`), a block
returned through an unequal allocator or with another size. `ub` never steers an action.
Each member function is one action; each place where an allocator or an element may throw
and leave something behind is another, which ends in the state that the exception finds.
The constants `POCCA`, `POCMA` and `POCS` are the propagation traits of the allocator;
`Select` is `select_on_container_copy_construction`.

Two constants say what the program does: `Throws` where exceptions come from, and `Mixes`
which operations it applies to arrays whose allocators are unequal and do not propagate. The
code does not compare allocators there (`array.hpp:1253`), so that a program that is careful
keeps `Mixes` empty.

Extents are zero-based pairs of rows and columns, or the `Point` of an array of no dimension.
`layout_t` computes the extension of a dimension from `nelems`, which an empty trailing
dimension sets to zero: an array made with extensions (2, 0) reports (0, 0).
`ExtentsAssumption` says so. Actions named `Static...` are those of `static_array`, an
`array`'s base class, which move, assign and swap elements and leave every block where it is;
those named `Point...` belong to arrays of no dimension, which allocate one element even to
be moved into.

Elements are taken to be of a class with constructors and destructors, except that no action
depends on them being so; trivial elements are the subject of `UninitializedAlgorithms`.

### From the code to `Layout`, `SubarrayViews` and `IndexMaps`

A view is a record of `base`, counted in elements from the start of the array, and `dims`,
the nested `layout_t<D>` as a sequence, leading dimension first. Division and remainder are
those of C++, which round towards zero. `FromLinear` and `NextCanonical` are
`extensions_t::from_linear` and `next_canonical` (`detail/layout.hpp:155-192`).

An action of `SubarrayViews` is a member function with its assertions as guards. Some
functions fit some views only and do not say so: `dropped` and `diagonal` need indices that
start at zero, `strided` a step that divides the size, `flatted` rows that are adjacent,
`partitioned` parts that divide the size and not only `nelems`, a view between two iterators
rows that fill their stride, a cast to a larger type strides that it divides. The program of
the model calls them on such views, and the guard that says so stands at the action; section
6 lists what happens elsewhere. Casts change what `base` and strides are counted in: `origin`
is the byte that `base` zero stands for, and `width` the size of an element.

`IndexMaps` has no strides. A view is the box of its valid indices and a function from them
to the first byte of an element. Its variable `call` names the function that was called, with
its arguments; the variable of the same name in `SubarrayViews` is mapped to it, so that the
refinement holds function by function: `rotated` of the code is `rotated` of the promise, and
not merely some operation that happens to give the same elements.

### From the code to `VectorViews` and `VectorMaps`

The same for one dimension, whose functions are written again in the specialisation. `view`
has a base, counted in units of memory, a width and one dimension. Functions that make a view
of two dimensions (`partitioned`, `chunked`, `tiled`, `broadcasted`) are modelled together
with the subscript that takes a row of it. Ranges that end before the view, or begin after
it, go through `IndexRanges`. `VectorMaps` is a first index and a sequence of places.

### From the code to `ElementsIterator` and `ArrayIterators`

`it[x]` holds the members of an iterator. History variables say where it should be: `over[x]`
is the view that it moves over, `skew[x]` by how many positions its indices are ahead of its
number, and `astray` has the iterators whose indices are those of no position. Every operation
is taken as it is in the code and whenever the program keeps the number between begin and
end: `=` between any two iterators of one type, which leaves `ns_` and `l_` behind (`Assign`),
`-=` of any number, which moves `n_` alone (`Minus`), `+=`, which counts from `ns_` (`Plus`),
and `++` past the last element, from which the indices return to the first (`Increment`). What
each of them does to `skew` is in its action. An iterator goes astray if it is assigned from
one of another layout, or led out of its range by `+=` after its indices have moved away from
its number, or incremented where its indices are at the end; it can be copied, converted,
assigned and replaced then, but is not moved further. Reindexed views are left out, since
`from_linear` counts from zero. In `ArrayIterators` `position` says where an iterator should be.
That module has both `array_iterator`s, `subarray_ptr` (which the program only moves by `+=`),
`cursor_t` and `range::const_iterator`, each as its members, with the operators that
`iterator_facade` derives; `&*w` makes a pointer out of an iterator.

### From the code to `ViewTransfers`

`mem` is the memory, `job` the transfer in progress with the addresses that its two iterators
visit, `done` the number of elements visited, `before` the memory when it began. Each member
function computes the two lists in the order of its loops - row by row, in canonical order of
the elements, or contiguously for `array_ref` - with its assertions as guards. A step of
`CopyElement`, `SwapElement`, `MoveElement`, `FillElement`, `SaveElement` or `LoadElement` is
one element. Comparisons only read, and are operators on the memory.

### From the code to `Blas`

A request is an operation with its views; a view has two strides and may be conjugated.
Numbers are symbolic: a sum is a set of products of elements. Each function is the chain of
tests that it makes, and ends in calls of the library (`Library`), whose meaning is written
in terms of addresses as the BLAS standard has it; the tests of `core.hpp` and of the library
refuse calls. Requests may be held as a range (`Hold`) and evaluated later, or written with
the operators of `operations.hpp` (`Multiply`, `Transform`, `AddVector`, `AddScaled`).

### From the code to `FourierTransforms`

A call looks for its plan in the map of its thread (`Call`), makes one (`MakePlan`), moves it
into the map (`Insert`), executes and returns; `temporary` is the plan that the call owns.
`ManyPlans` is the constructor of `cufft::plan`: it sorts the dimensions by their strides,
merges repetitions that adjoin, takes the longest for the batch - among equal ones any, as
`std::sort` is not stable - and leaves the others to the loops of `execute`. `GuruPlan` is
fftw's. A transform is the set of places that it reads and writes.

### From the code to `Datatypes`

`mpi` is the table of types under handles. `Strided` is `MPI_Type_create_hvector` and
`MPI_Type_create_resized`, `Dimension` the recursion over dimensions with the handles that it
frees. `object` is what the program's names stand for: a skeleton, a message, data, or the
bare type that `create_subarray` returns and the caller must commit and free.

## 3. The runs

Every passing run finishes within a minute or so with two workers.

### `uninitialized_algorithms` (5726 states)

Blocks of up to four elements, all five algorithms, trivial and class elements, an exception
at every element, calls that follow calls, and every set of levels at which the program
implements an algorithm itself.
`CellsMatchCursor`: at every iteration the cells with an element are those the locals say.
`LifetimesBalance`: no constructor on a live cell, no destructor on a raw one.
`AllocatorEndsWhatItMade`: but for the three algorithms that lose the allocator (section 6),
it destroys what it constructed, also when an exception undoes a construction.
`ImplementsAtomicBatch`: to its owner a call builds everything or nothing.
`CallsComeBack`: a call returns or throws.
Four elements suffice: the loops treat all but the first and last alike, and the theorems of
section 5 hold for every size.

### `lifecycle` (2375 states up to symmetry)

Two arrays, of two dimensions or of none, three blocks, five extents, two values, two unequal
allocators with copies that select the default one and moves and swaps that propagate, no
exceptions. Two arrays are the largest number any operation mentions; three blocks allow both
arrays to own one while a third is taken for a new value. The extents include an empty one,
one with columns but no rows, a row, a column and a square, which reshape, rotate and extend
into each other. Arrays and blocks are interchangeable, so symmetry is sound: no temporal
property here is a liveness property. With a third array the state space no longer fits the
time of a run; a block that travels through three arrays is covered by the theorems.
`ArraysHoldTheirElements`, `OwnBlocks`, `NoLeakedBlocks`, `NoUndefinedBehaviour`: memory has
one owner, of the right size and the right allocator, always.
`ViewsStayValid`: assigning between equal extensions does not move the elements.
`ImplementsArrayValues`: the arrays are independent values; assigning from one's own
transposition gives the transposition; `reextent` keeps the elements of common indices.

### `throws` (888 states up to symmetry)

Three arrays and every exception that leaves a trace. The constraint `NoDamageYet` ends an
execution at the first state in which something is lost.
`FailureHurtsTargetOnly`: the arrays that were not assigned to keep blocks and elements.
`StrongGuarantee`: a throwing `reextent` of an lvalue, constructor or temporary changes no
array. `DamageIsContained`: the first exception costs one block or one array and not both.

### `copy_allocate_throws` (violation)

One property and one exception; section 6 says what it shows.

### `views` (54247 states)

Five arrays (2 x 3, a vector of 4, an empty 0 x 2, a 2 x 2 and an empty 2 x 0 whose indices
start at one and two) of elements of four bytes, chains of up to three functions and casts with
all their valid arguments, steps of two, first indices zero and one, at most three dimensions. A
chain of three reaches every pair of functions on a view that a third has already made irregular, for
instance a partition of a transposition of a strided view. Sizes of zero, one, two and more
occur in the leading and in the other dimensions. Longer chains would repeat pairs on views
whose strides, offsets and sizes are of the same kinds.
`ExtensionsExist`: the assertions in `extension()` hold, always.
`IteratorsAgreeWithIndices`: begin-and-step and subscripts reach the same elements, although
one ignores the offset and the other subtracts it.
`ElementsAreCanonical`: on zero-based views `elements()` has the right order and size, and a
layout said to be compact is.
`ImplementsIndexMaps`: each function names exactly the elements that it promises. From this it
follows that no index leads out of the memory and no two name one element, as `IndexMaps`
only ever renames, selects and divides the elements of an array. The last of the five arrays is
there because it was missing: `layout_t` multiplies the first index of a dimension by the number
of elements further in, so that an array without elements forgets where its indices started
(`extensions()` of a 2 x 0 array is 0 x 0), and an attempt at the proof of section 5 came to a
halt there. `IndexMaps` says it with `Reported`.
A chain ends after `MaxCalls` functions, so deadlock is not looked for.

### `vectors` (32877 states)

Vectors of 0, 4 and 6 elements of two units of memory each, chains of up to four functions
and casts, ranges with bounds before, in and after the vector. Six elements have parts of two
and of three, four have parts of parts.
`ImplementsVectorMaps`: every view has the elements and the first index that it promises.
`TraversalsAgree`: subscripts, iterators, `front`, `back`, `elements()` and the hull meet.

### `elements_iterator` (23104 states)

Two iterators over a transposed matrix of two rows and three columns, two of its rows, which
have one layout and different bases, a rotated 2 x 2 x 2 block and an empty vector, with all
constructions, copies, conversions, assignments and steps. Two iterators are what a comparison
and an assignment involve. The block has eight positions, enough for carries through two
dimensions; the two rows are the smallest case of an assignment between different ranges that
does not go astray. The states of iterators that have gone astray are told apart by their
number of dimensions only (`VIEW Distinguished`): nothing that can still happen to them, and
no property, depends on more.
`PointsAtItsElement`: an iterator refers to the element `skew` positions on from its number,
which is the element of its number unless `=`, `-=` or `++` past the last element has been used.
`SubscriptReachesItsElement`: `it[k]` is the element `k` positions on from that, and `front`,
`back` and the range find the same elements. `ComparisonsFollowTheElements`: of two iterators
over one view with the same `skew`, equality, order and difference are those of the elements;
with different ones, two that refer to one element are never equal, which is what `=` and `-=`
do to a program that compares.

### `iterators` (2916 states)

Two walkers over a block, its transposition, a matrix indexed from one, its column, a vector
and one that goes down in memory, moved by steps of -1, 0, 2 and 3, assigned to each other,
and turned from iterators into pointers.
`RefersToItsElement`: each refers to what `operator[]` finds at its position, and so do its
subscripts and calls, relative to where it is. `OrderIsPosition`: equality, the four orders
and the difference are those of positions, also where addresses go down.

### `view_transfers` (75065 states)

Two transfers in a row between nine views of a 2 x 4 matrix: a column, a left block, the
transposition of a right block, an array that overlaps them, two disjoint vectors and a
strided one that overlaps the first, two elements. Every cell starts with a value of its own,
so that each value tells where it came from; the second transfer starts from what the first
left, moved-from elements included, and loads what it saved.
`Assigned`: an assignment that reads no element after overwriting it has so far done what
the simultaneous assignment does, and changed nothing else.
`AssignedByIndex`: rows, elements and contiguous blocks amount to the same, index by index.
`SwapRearranges`, `SwapExchanges`: a swap loses no value even if the views overlap, and
exchanges them if they do not. `MovedOnce`: no element is moved twice. `RoundTrip`: what is
saved by rows can be loaded by elements. `Trichotomy`: exactly one of `<`, `==`, `>` holds,
for every memory that the transfers produce, between the views as they are and between the
views reindexed from different first indices (`Firsts`: a negative one, zero and a positive
one), where the first indices decide and the items must not. `TypeOK`: no transfer leaves the memory or
visits more elements than there are, whatever the shapes that were not compared.

### `blas` (9072 states)

Matrices of two and three rows and columns by rows and by columns, with and without a gap
after each, plain and conjugated, empty, too wide for `INT` (here 15) or for the assertions on it
(`InRange`), with no unit stride, in
place; vectors of up to three elements with steps of one and two; every operation, triangle,
side and diagonal; minors of a Cholesky factorisation that are not positive. Two and three
tell a row from a column and a leading dimension from a count, which is what the tests in the
code look at. `ComputesTheDefinition`: what the library writes is what the operation means.
`PlainIsServed`: no call is rejected by the library, and no plain operand refused.
Combinations for which the code computes something else are listed in section 6 and excluded
in `MCBlas` (`Right` and the filters of `Updates`, `Dots`, `Solves`).

### `fourier` (177141 states)

One thread asks for transforms of 2 x 2 x 2, 2 x 3 x 2, 2 x 2 x 2 x 2 and 2 x 2 x 2 x 2 x 2 views
along every (of three) or some (of more) choices of dimensions, from one order of the
dimensions in memory to every other, with and without gaps, in place or not; a second asks
for one that the first asks for too, in both directions. A map holds one plan (`PlanBound`)
beside the one of the call, and two threads with one each are enough to share one by mistake.
`TransformsAsAsked`: whichever plan was found or made, the execution transforms what its call
asked for, in its direction. `OneOwner`: an open handle is owned by one plan, in a call or in
a map. `NotShared`: no two threads execute one plan at a time.
Layouts that are merged wrongly (section 6) are excluded in `MCFourierTransforms`.

### `mpi` (9853 states)

Two names, nine views: a block and its rotation, a matrix indexed from one and its
transposition, a column, a vector, every second element of one, and two without elements. Two
names are what a move involves; handles are given out again after they were freed.
`SelectsTheView`: buffer, count and type select the elements of the view, in canonical order.
`OneOwnerEach`: each type has one owner, each owner a type, and nothing is freed twice.

### Mutations

Each property of a passing run comes with a plausible slip of the code that breaks it
(definitions named `X_Y`, which no action uses: `X` is the definition and `Y` the slip, such
as a missing reset, a wrong order or an off-by-one). TLC finds the property violated in the
same configuration once `X` is replaced by `X_Y`.

## 4. Fairness and liveness

Only the uninitialized algorithms assume fairness: weak fairness of `Step`, the iterations and
the return of the loop in progress. The loops run on the caller's thread and nothing blocks
them, provided the element constructors return or throw. The owner is under no obligation to
call or to destroy, so `Call` and `DestroyCall` are not fair.

The other specifications state safety only: nothing in them waits, so that a liveness
property would say no more than that a function returns. The two threads of
`FourierTransforms` share no lock and never wait for each other.

## 5. What is proved

All with TLAPS, from the named assumptions of the modules and nothing else.

### `UninitializedAlgorithms_proofs`

- `TypeCorrect`: `Spec => []TypeOK`.
- `CursorCorrect`: `Spec => []CellsMatchCursor`.
- `AllOrNothing`: `Spec => ImplementsAtomicBatch`.
- `BalanceCorrect`: `Spec => []LifetimesBalance`.
- `AllocatorBalance`: `DispatchSpec => []AllocatorEndsWhatItMade`.

`CellsMatchCursor` is not inductive: it does not know that `current + count = total` during
construction, nor that destruction starts at `first = count`. `IInv` adds these
(`CursorsAgree`), the number of calls (`CallsCounted`) and that a skipped construction finds
an untouched block. Each step of the loops then keeps it, for every `MaxCount`, and each step
maps to a step of `AtomicBatch` or to a stutter.

`LifetimesBalance` counts the live cells, and counting needs to know where they are:
`BalanceInv` adds what the calls come to once a loop has ended, and which elements exist
without having been constructed. The live cells are then an interval whose length is the
difference of the calls (`BalanceInterval`). The choice of an implementation does not disturb
the loops (`DispatchedIsLoop`), so that their invariants hold of `DispatchSpec` too.
`AllocatorBalance` follows from looking at each function object: the last candidate that
compiles (`LastThatCompiles`) passes the allocator on, save in the cases of `LosesAllocator`
(`ConstructKnowsTheAllocator`, `DestroyKnowsTheAllocator`), which section 6 is about.

### `ArrayLifecycle_proofs`

- `MemorySafety`: `Careful` implies `Spec => []NoUndefinedBehaviour`.
- `Contents`: `Careful` implies `Spec => []ArraysHoldTheirElements`.
- `Ownership`: `Careful` implies `Spec => []OwnBlocks`.
- `NoLeaks`: `Disciplined` implies `Spec => []NoLeakedBlocks`, and that no block is left when
  no array is.

Three conditions on the constants, each weaker than the one before, say what section 6 shows
to be necessary. `Disciplined`: exceptions come only from the assignment of an element or from
the allocation while loading (`SafeThrows`), unequal allocators are mixed only where they
propagate (`Mixes = {}`), and, if copy assignment propagates the allocator, all allocators are
equal. `Careful`: elements may also throw in a constructor or in `reextent` of an lvalue
(`LeakyThrows`), which loses a block. `Compatible`: anything may throw.

The inductive invariant `IInv` says that arrays that do not exist own nothing, that every array
with elements owns a built block of its size from its own allocator (`OwnsProperly`), and
that no two own the same (`Exclusive`). `Undamaged` adds that every live block is owned
(`Accounted`), which a leak ends for good, while the rest survives it.
`NoUndefinedBehaviour` alone is not inductive, as releasing is safe only if the block is
owned; `OwnBlocks` alone is not, as releasing the block of one array would harm a second
that shared it; and `Exclusive` survives an allocation only because owned blocks are live
and a block that an allocator hands out is not. The actions fall into a few shapes, and each
shape has its lemma: `Replace` (an array gives up its block and gets a new one), `Overwrites`
(it keeps it and gets new elements), `Keep` (only layouts change), `TakeOver` (it gets the
block of another). The proofs cover arrays of any extensions and of none, any number of them,
and any propagation traits of move and swap.

- `ElementsStay`: `Spec => ViewsStayValid`, for every program, disciplined or not.
- `FailuresAreLocal`: `Careful` implies `Spec => FailureHurtsTargetOnly`.
- `FailuresAreUndone`: `Careful` implies `Spec => StrongGuarantee`.
- `FirstDamageIsContained`: `Compatible` implies `UntilDamage => []DamageIsContained`.
- `FirstFailureIsLocal`: `Compatible` implies
  `UntilDamage => FailureHurtsTargetOnly /\ StrongGuarantee`.

`UntilDamage` has the behaviours of `Spec` that make no step after one has done damage, as the
constraint `NoDamageYet` of the run `throws` has it: copy assignment and `reextent` of an rvalue
can leave an array that points to memory without elements, and destroying that array is the
undefined behaviour of section 6, so that more cannot be true.

`ElementsStay` needs no more than that every array has a layout (`LayoutsExist`): each step either
constructs (`Constructs`), changes extensions and no block (`InPlace`), gives an array other
extensions than it had (`Resizes`), or is a move or a swap, and a lemma for each shape says
that the arrays it does not name stay where they are.

For the others `StepsPreserve` says that a step preserves the invariant unless it throws in one of
two ways. It leaks (`Leaks`: a block that was free is taken, and nothing else changes), or it
spoils one array (`Spoils`: its block is returned, and it has the new extensions over the old
pointer or over a new raw block). A leak changes no array, as arrays with elements have live
blocks, and the leaked one was not. A spoiled array hurts no other by `Exclusive`: the block
that it returned was nobody else's. After either, one block is unowned or one array is without
its elements, never both (`OneLoss`), since a spoiled array owns whatever was allocated for it.
And either shows in `NoDamageYet`: a spoiled array that had been empty may keep a pointer to a
live block, but that block then has an owner, with which it is shared (`SpoiledShows`).

- `ArraysAreValues`: `Unbroken` implies `Spec => ImplementsArrayValues`.

`Unbroken` is `Careful` without exceptions from the assignment of an element: these leave an
array with some of its old elements and some of the new, which is no value that `ArrayValues`
gives it (`FailuresAreLocal` says what remains true). Everything else may throw, and a step that
leaks a block, or that changes no value, is a stutter of `ArrayValues`. The invariant is `IInv`
and, new, `AllFull`: the memory of an array holds an element for each of its indices and no more.

What a step does to the values, it does in few ways: an array keeps its value (`Keeps`) or gets
elements in extensions (`Gets`). Every shape of action has a lemma that says which arrays do which:
elements are overwritten in place (`OverwritesElements`, and in two arrays at once
`AssignsBoth`), blocks are exchanged (`Exchanges`), stolen (`MovesInto`) or taken over (`TakesOver`).
That an array keeps its value while another is written to is `Exclusive` of `IInv`.
Second come the values themselves, which `ArrayValues` indexes by pairs and the heap by
offsets: `Placed` and `Located` go from one to the other and back by division, and `ViewIs`,
`ReshapeStep`, `ReextentStep` and `WriteStep` say with them that a view of an array, the same
elements in another shape, the common part of two extensions, and one element written are the
same on both sides. Third, each action of `Next` implements one of `ArrayValues`
(`NextImplements`, a lemma per action).

### `Layout_proofs`

Lemmas, for layouts of any number of dimensions, that the next three modules cite. What folds
over sequences compute is reached through their partial results: `FoldExists` and `FoldSteps`
show that a fold over a sequence is the last of a list of results, each made from the one
before. Induction is on the set of the numbers up to which a list agrees (`Induct`, which
comes from the least element of what is left out), so that no lemma has an operator as its
parameter. Of each operator of `Layout` a lemma says what one dimension more does to it
(`NumElementsSteps`, `AtSteps`, `BeginSteps`, `SubscriptSteps`, `WithinSteps`,
`IndicesSteps`), and of the chains of transpositions that rotation, unrotation and reversal
are made of, what they come to (`RotateExact`, `UnrotateExact`, `ReverseExact`). The division
of C++ truncates: `QuotientExact` and `RemainderZero` say when it is exact, for either sign.

The second half is about canonical order. Within a box whose extensions are not negative,
`ToLinear` and `FromLinear` are inverse to each other (`FromLinearInBox`, `ToLinearInRange`,
`FromLinearOfToLinear`; one dimension more divides by the number of the elements of the others,
`DigitSteps`), and `ToLinear` keeps order (`BeforeIffLess`), so that it counts the indices
that come before (`CountIndices`). With these the n-th element that `elements()`,
`elements_at()` and the loops by rows find is the one at the n-th index
(`ElementAtIsAddress`, `ElementsAtIsAddress`, `RowsOfElements`), and the elements of a layout
made of extensions follow each other in memory (`ArrayIsContiguous`). Two indices that differ by
a carry are neighbours, as no third one comes between them (`NeighboursFollow`). Where indices
start does not matter to their order (`RankFromZero`).

Its last part is about views whose dimensions are regular, which the inductive invariant of
`SubarrayViews` says they are: what their sizes and extensions are, how an index and its address
are made of those of the leading one or two dimensions and of the rest, and what another order of
the dimensions, or another size of the elements, does to them.

### `SubarrayViews_proofs`

- `ExtensionsAlwaysExist`: `Spec => []ExtensionsExist`.
- `IteratorsAlwaysAgree`: `Spec => []IteratorsAgreeWithIndices`.
- `ElementsAlwaysInOrder`: `Spec => []ElementsInOrder`.
- `ViewsAreMaps`: `Spec => ImplementsIndexMaps`.

They hold for arrays of every number of dimensions, of any sizes and first indices, and for
any chain of the member functions that make a view out of a view, from `ViewsAssumption`. The
first says that what `extension()` asserts is never violated: `nelems` is divisible by the
stride, and so is `offset`. That is not inductive, as nothing in it says that a nonempty dimension has a
stride other than zero, nor that the quotients are the indices that the next function takes.
The invariant says that every dimension is regular: its stride, if it is not empty, is not
zero and divides both `offset` and `nelems` (`IsRegular`). Each function keeps it for a reason
of its own, and has its lemma: `sliced` and `take` change `nelems` by multiples of the stride,
`strided` multiplies the stride, and its precondition is that the product still divides, `rotated` and its kin only permute dimensions, `diagonal` adds the
strides of two dimensions that have been sliced to one size, `partitioned` splits one dimension in two whose
products agree, and the casts multiply and divide all three numbers by the widths, which the
precondition on the widths allows. The second says that walking from `begin()` arrives at
what `operator[]` finds: with `offset = stride * first` the two addresses differ by nothing.
The third is the half of `ElementsAreCanonical` about order: in a view that starts at zero the
n-th element of `elements()` and of `elements_at()` is the one with n indices before its own. It
takes sizes that are not negative, which is why the arrays have none (`ViewsAssumption`) and
the invariant says so of every view.

The fourth is the refinement: bases, strides, offsets and sizes do what `IndexMaps` promises in
terms of indices and elements alone. So no chain of functions, however long, reaches an element
that the array does not have, or the same one by two indices, where the abstract specification
does not. The invariant is the one above, and that `origin` is a number.

- An abstract step is shown by `BecomesMap`: the new view has the extensions it should have, and
  each of its indices names what an index of the old view named (`IsMapOf`, `Named`). Most
  functions keep all but a few dimensions, and lemmas take the rest away: `LeadIsMap` for those
  that change the leading dimension, `RestBecomes` for a subscript, `OneForTwo`, `TwoForOne` and
  `TwoForTwo` for those that join, split or change two. What remains is arithmetic on one or two
  strides.
- That arithmetic has a case for an empty dimension, of which nothing is known but its extension
  `<<0, 0>>`, and one for a dimension that is not: `stride`, `stride * first` and
  `stride * size` (`DimensionCases`). Parts, chunks and tiles are one lemma (`PartedRows`).
- `rotated`, `unrotated` and `reversed` permute all dimensions. An address is the sum of what
  each index adds to it (`SumsTo`), and a sum does not care for the order.
- Casts multiply or divide all strides. Addresses count elements, `elem` counts bytes, and the
  two factors cancel (`ScaledAddress`, `CastNames`).
- Initially, the address of an element of an array, relative to its first, is the number of
  indices before its own: counted from zero (`ArrayIsContiguous` of `Layout_proofs`), and then
  from wherever the indices start, which changes neither the order nor the number
  (`RankFromZero`).

`NextMaps` has a lemma for each of the functions (`SlicedMaps`, `StridedMaps`, `FlattedMaps`,
and so on), each showing the abstract function of that name and no other.

### `VectorViews_proofs`

- `VectorsOnly`: `Spec => []IInv`.
- `VectorsAreMaps`: `Spec => ImplementsVectorMaps`.
- `TraversalsMeet`: `Spec => []TraversalsAgree`.

From `VectorsAssumption`: vectors of every size, elements of every width, chains of every
length. The invariant says that a view is made of five numbers, the base, a width, a positive
stride, a count and a first index, and that `nelems` and `offset` are the products of the
stride with the last two (`IsVector`). From these the abstract state can be read off: a sequence
of equidistant places (`Line`) and the index of the first. Each of the member functions then does to the line what
`VectorMaps` says that it does to a sequence: a slice takes a part of it (`PartOfLine`),
`strided` takes every n-th place (`EveryOfLine`), and a cast to members or to narrower elements
replaces each place (`MemberImplements`, `UnitsImplements`, `WholesImplements`). One lemma per
action shows that it keeps the invariant and maps to a step of the abstract specification.

### `ArrayIterators_proofs`

- `WalkersRefer`: `Spec => []RefersToItsElement`.
- `WalkersInOrder`: `Spec => []OrderIsPosition`.

For any set of iterators, pointers, index iterators and cursors over views of every number of
dimensions, from `IteratorsAssumption`, which asks of the views what the previous theorems give:
that each dimension has a stride other than zero that divides its `nelems` and `offset`
(`CanBeWalked`). The invariant says that the members of a walker are those that it began with,
moved by its position times the stride of the first dimension, and for cursors by the sum over
all dimensions (`Placed`). Copies, assignments, increments, jumps, `end()` and the differences
of two walkers keep it by distributivity. `RefersToItsElement` then says that dereferencing
finds the element that `operator[]` finds, subarray or value; for a cursor that is the sum
over all dimensions of two index vectors (`ShiftAdds`, `CursorRefers`). `OrderIsPosition` needs
the stride not to be zero, and either sign of it: where the addresses go down, the comparisons
have to follow the positions nevertheless.

- `IteratorsPoint`: `E!Spec => []E!PointsAtItsElement`.
- `SubscriptsReach`: `E!Spec => []E!SubscriptReachesItsElement`.
- `ComparedByPlace`: `E!Spec => []E!ComparisonsFollowTheElements`.

`E` is `ElementsIterator` with variables of its own, and its assumptions are hypotheses: views
have dimensions with existing extensions whose sizes are not negative (`IteratorsAssumption`),
and for the last theorem no two elements share a place (`ElementsApart`). Both hold of the views
of an array, and TLC evaluates them on the run. The properties are not inductive, as they say nothing of what
`++` does at a carry. The invariant is that the indices of an
iterator that has not gone astray are those that `from_linear` makes of its position, number
plus `skew`, and that this position is one of its range or its end (`Positioned`).
`next_canonical` carries from the right and `prev_canonical` borrows (`NextDigits`,
`PrevDigits`); both change the indices to neighbours of what they were, wrap from the last to
the first and back (`NextFollows`, `PrevPrecedes`), and `--` from the end that the constructor
makes, which is no index of the box, finds the last element nevertheless (`PrevOfBehind`). The
operations that part number and indices keep the invariant because they change `skew` by just
as much; no assignment and no step is excluded. `ComparedByPlace` says that comparing numbers
is comparing elements exactly among iterators of one `skew` (`PositionsTellElements`).

### `ViewTransfers_proofs`

- `TypeCorrect`: `Spec => []TypeOK`.
- `CopyIsAssignment`: `Spec => []Assigned`.
- `SwapIsExchange`, `SwapIsRearrangement`: `Spec => []SwapExchanges`, `Spec => []SwapRearranges`.
- `MoveIsOnce`: `Spec => []MovedOnce`.
- `AssignmentByIndex`: `Spec => []AssignedByIndex`.
- `SavedIsLoaded`: `Spec => []RoundTrip`.
- `ComparedByOrder`: `Spec => []Trichotomy`.

They hold for every memory, every set of views and every number of transfers, from
`TransfersAssumption`: the elements of a view are listed without repetition and inside the
memory, which is what `SubarrayViews` checks of views. The last three also need
`ViewsStartAtZero`, as `elements()` counts from zero in every dimension whatever its first index
is, and, of values, that `<` orders them (`ValuesAreOrdered`). Comparisons do not call `elements()`
of views whose first indices differ, so that `ComparedByOrder` has such views too, of any first
indices (`Firsts`). The invariant adds to the properties
that the two lists of a transfer have no repetitions (`WellFormed`): only then a step leaves
the elements visited earlier alone. An assignment further needs that the element it is about
to read has not been overwritten (`ReadInTime`), and this is where overlapping views part.
`SwapRearranges` needs no such condition: a swap of two cells is an involution of the memory,
and `ExchangeKeepsCounts` follows with a bijection between the cells that hold a value before
and after.

`AssignedByIndex` compares three loops, by rows of rows, by elements and by contiguous blocks. All
three list the same addresses (`RowsAreElements`, `BlockIsElements`), and the place of an index
in the list is its number (`PlaceOfIndex`), so that an element of one view is given the value of
the element of the other at the same index. For `RoundTrip` the invariant remembers which view
was saved and that the archive holds its elements in the order of its rows (`Archived`); they are
loaded in the order of the elements, which `RowsAreElements` shows to be the same.
`Trichotomy` is about a comparison that is lexicographic twice over: the first index counts before
any element, in the opposite sense, and a row is compared with a row in the same way. The order
of rows is total because that of their elements is (`LexicographicOrder`, once for the values of
a row, once for the rows of a matrix), and it is `==` on which neither is less: the
sizes agree and so do the elements (`EqualAsArrays`, `SameMatrices`). With different first indices
the extensions differ and the greater first index is less, whatever the items are
(`ReindexedExtension`, `ReindexedTrichotomy`); this needs the stride to divide the offset that
`reindexed` makes.

### `FourierTransforms_proofs`

- `HandlesHaveOneOwner`: `Spec => []OneOwner`.
- `PlansAreNotShared`: `Spec => []NotShared`.

They hold for any number of threads, any requests to either library and any number of handles,
from `HandleAssumption` (zero, which a plan without a handle has, is none) and
`RequestsAssumption`. `OneOwner` counts owners, which is not inductive: nothing in it says who
they are. The invariant follows a handle instead. A call owns one from the construction of its
plan to the insertion (cufft) or the return (fftw), and none at other times (`CallsOwn`); the
map has no plan under the key when one is made, so that the insertion always takes place, and
has one when it is executed (`MapsHave`); what the maps own is open (`MapsOwn`); calls, entries,
and calls and entries own different handles; and every open handle is owned (`Owned`). A new
handle differs from all others because all others are open. What a plan transforms plays no
part: `PlansHold` says that each constructor keeps the handle that it is given.

## 6. Where the code and its documentation part

The run `copy_allocate_throws` ends in a counterexample of a few steps (`array.hpp:1278`): copy
assignment between different extensions clears, takes the new layout, then allocates. An
exception leaves the array with the freed pointer and a layout with elements; its destructor
frees the block a second time. `src/README.md:37` promises no memory leaks in the presence of
exceptions thrown from allocations.

The following were found while writing the actions. The models exclude them by the guards and
constants that are named, and stop holding their properties where these are lifted.

Arrays (excluded by `Careful`, `Disciplined` or `Compatible` in the proofs, by `Throws` and `Mixes` in the runs):

- the block of an array is allocated in an initializer of a base class and its elements are
  built in the body of the constructor: if one throws, no destructor runs that would return
  the block (`array.hpp:279`);
- move assignment takes the block of the source whether the allocators are equal or not
  (`array.hpp:1253`): with polymorphic allocators, which do not propagate, it is later returned
  to another memory resource (`src/README.md:1310`);
- `reextent` of an lvalue loses the new block if an element throws (`array.hpp:1427`);
- copy assignment leaves raw memory behind its layout if an element throws (`array.hpp:1279`);
- an element whose copy throws inside `reextent` ends in `std::terminate`, as the assignment
  through the intersection is `noexcept` (`array.hpp:1430`);
- `reextent` of an rvalue frees before it allocates (`array.hpp:1400`);
- construction from an rvalue with another allocator takes the block (`array.hpp:222`);
- the temporary of an assignment always has the default allocator (`array.hpp:1292`);
- copy assignment with `POCCA` keeps the block and replaces its allocator (`array.hpp:1269`);
- the move constructors of `static_array` and of arrays of no dimension allocate, although the
  latter is `noexcept`;
- `assign(extensions, element)` (`array.hpp:1353`) and four constructors of
  `static_array<T, 0>` do not compile, so have no behaviour.

Allocators (`LosesAllocator` in `CustomizationPoints`): filling (`detail/adl.hpp:667`, a plain
overload ranks above the library's own loop), copying and value-constructing
(`detail/adl.hpp:630` and `551`, where the level is commented out) build the elements without the
allocator, whereas `alloc_destroy_n` always destroys through it. An allocator that counts its
calls sees destructions only. This was compiled and run.

Views (guards of `SubarrayViews` and `VectorViews`):

- `dropped` subtracts the offset from the base and leaves it in the layout, where `operator[]`
  subtracts it again: on a vector indexed from one, `dropped(0)` begins one element before the
  memory (`array_ref.hpp:1186`, against `src/README.md:1206`); this was compiled and run;
- `strided` with a step that does not divide the size rounds the size down and has an end
  that steps do not reach (`src/README.md:2095` discusses it);
- `flatted` of a rotated view, `partitioned` of a strided one and `diagonal` of one that is
  indexed from one each leave the memory or name the wrong elements; a diagonal across two
  opposite strides has stride zero and is empty (`array_ref.hpp:1320`);
- `tiled(n)` of a view with fewer than n elements fails an assertion;
- the view between two iterators counts rows by their size, right only where the rows fill
  their stride (`array_ref.hpp:1488`);
- `reinterpret_array_cast` to a larger type rounds strides down (`array_ref.hpp:1737`);
- `is_compact` of a layout with a negative stride may be true of one that is not;
- `size()` of a broadcast view divides by its stride, zero;
- the intersection with a disjoint range may have its base before the array, with no elements;
- `elements()` of reindexed views, and so copying them, reads past the view, since
  `from_linear` counts from zero in every dimension; copying an empty view whose columns are
  zero divides by zero there (`detail/layout.hpp:155`); `reextent` to extensions without columns
  fails the assertion in `array_ref.hpp:1205`.

Iterators:

- assignment of iterators of `elements()` copies the number and neither the indices nor the
  layout, so that the assigned iterator equals its source and refers to another element
  (`array_ref.hpp:749`); this was compiled and run; `ElementsIterator` models it (`Assign`);
- `-=` leaves the indices (`array_ref.hpp:774`), and `+=` with a negative step from an end that
  `++` reached counts from the first element; both are modelled (`Minus`, `Plus`). What an
  iterator does that is moved on after it has gone astray is not;
- `+=` of a pointer to a subarray steps by its `nelems`, right where rows adjoin
  (`array_ref.hpp:437`; `ArrayIterators` has pointers to such rows only); `increment` and
  `decrement` are protected and not called, its `offset_` is never read, and pointers have no
  difference of their own.

Transfers:

- `operator==` compares the leading extension and the elements in one sequence
  (`array_ref.hpp:1594`), so that a 2 x 1 x 2 and a 2 x 2 x 1 view may be equal;
  `src/README.md:1156` says that extensions are compared;
- assignment of an `array_ref` of the same type asserts the number of elements only;
- moving iterators and `move_subarray` move the elements of vectors only; with more
  dimensions they give ordinary rows, which are copied, as does `v = w.move()`; this was
  compiled and run.

Blas and lapack (excluded in `MCBlas`):

- `gemm` with the first matrix by rows and the others by columns computes the product in the
  other order (`adaptors/blas/gemm.hpp:69`), although `adaptors/blas/README.md:19` says that
  transpositions are handled; a conjugated second matrix with a result by columns, or with a
  first matrix by columns and a result that is not square, is wrong too; so are many shapes of
  one row or one column;
- `herk` of a conjugated matrix by rows into a result by rows, and `syrk` of one by columns
  into a result by columns, are wrong; neither asserts that one stride is one;
- `dot` of empty vectors leaves the result of some types unset; a vector of stride zero is
  rejected by the library; `trsm` with both operands conjugated does not compile;
- numbers are narrowed to `INT` without a test in some calls;
- `potrf` does not check that the matrix is square; a tall one by rows fails an assertion.

Fourier transforms (excluded in `MCFourierTransforms`):

- repetitions are merged if the strides of the first are the product of the counts of the
  others, whatever strides these have: a 2 x 2 x 2 transform of the last dimension from strides
  (1, 2, 4) to (4, 2, 1) goes wrong (`adaptors/cufft.hpp:183`);
- without a transformed dimension an assertion divides by zero before the exception that is
  meant for this case (`adaptors/cufft.hpp:166`); three repetitions that do not merge, or two in
  place, throw when the plan is executed.

MPI: `data` makes a type whose extent ignores the stride, so that a strided vector is sent as
adjacent elements, as `adaptors/mpi/test/mpi.cpp:68` expects (1 3 5 arrives as 1 2 3); the type
of `create_subarray` is not committed; the codes that MPI returns are ignored.

## 7. What is only model-checked

- Liveness (`CallsComeBack`).
- `CompactIsContiguous`, the other half of `ElementsAreCanonical`. `is_compact()` multiplies sizes and
  compares the product with one `nelems`, which is not enough for any layout whose strides
  divide: strides 2 and 3 with sizes 3 and 2 pass the test and leave gaps. That no chain of
  functions arrives at such strides needs an invariant on all of a view's strides together.
- `Datatypes`: what a derived datatype selects is built by nested folds.
- `Blas`: a finite table of cases, best enumerated.
- `TransformsAsAsked`: which points a plan transforms comes out of sums over sets.
- What follows an exception that spoils an array: section 6 shows where it ends.

## 8. Bounds and abstractions

- Addresses are model values in `ArrayLifecycle`: whether two blocks are adjacent does not
  matter there. In `Layout` they are integers, as adjacency is all that matters there.
- Integers are unbounded; the library uses `ptrdiff_t`, and an overflow of it needs an array
  larger than the address space allows. The narrower `INT` of the blas has its bound `IntMax`;
  `IndexMin` and `IndexMax` are the unbounded ends of ranges.
- Element values are few. What an operation does to a value is to copy it, so that two
  values, or one for each cell, tell all outcomes apart. In `Blas` and `FourierTransforms`
  values are symbolic, and rounding is left out.
- Views inside `ArrayLifecycle` are three (all, transposed, first row), as it needs views of
  other extensions than their array's. `SubarrayViews` has the others.
- `MaxCalls`, `MaxDims`, `MaxElements`, `MaxCount`, `MaxTransfers`, `PlanBound`, `Firsts`,
  `Steps` and `Strides` are the bounds on behaviours; the state spaces are otherwise finite
  because the sets of arrays, blocks, extents, views and requests are.
- An array that an exception left without its elements can only be destroyed (`Usable`):
  using it would be the program's error, destroying it is unavoidable.
- Assignment of a view of an array to the array itself with equal extensions is left out of
  `ArrayLifecycle`: the elements overlap, and the outcome depends on the order of the copy,
  which is the subject of `ViewTransfers`.
- A function that fails an assertion has no successor: the program is one that keeps to the
  assertions. `FourierTransforms` and `Blas` say "aborted" and "refused" instead.

## 9. What is not modelled, and why

- A layout made of extensions and strides that do not belong together (`detail/layout.hpp:679`)
  has an `nelems` that is not a multiple of its strides; nothing in the library makes one.
- `static_allocator` has its buffer inside itself, and blocks have no place in
  `ArrayLifecycle`. With `static_array`, as in the tests, no block changes hands; what
  `array` would do with it is a listed hazard that no property reaches.
- Constructors from C arrays, conversions to other containers and deduction guides are
  conversions of types.
- Tuples, mixins and traits are computed by the compiler; the operators that mixins derive
  are modelled where they are used.
- The GPU levels of `adl.hpp` and thrust, cuda and hip select loops and pointers of devices by
  types.
- `ger.hpp`, `trsv.hpp`, `syev`, `getrf`, `geqrf` and `hermitic` do not compile, or are
  included by nothing; `herk_nm` and the sums of two vectors make copies and call modelled
  functions.
- `fftw.hpp` before line 275 is commented out; `adaptors/fftw/mpi_` names types that do not
  exist and is mostly disabled; fftw's planner without its thread support is the caller's
  responsibility.
- MPI datatypes of negative strides, and a count that is narrowed with an assertion.
- Tblis, complex and totalview convert types, or format them for a debugger.

## 10. What could come next

- `StaticAllocator`: blocks with a place, inside an array or on the heap, so that a move of an
  array leaves a pointer into the array it came from.
- `CompactIsContiguous` as a theorem, from an invariant on all strides of a view.
- `OneOwnerEach` of `Datatypes` and `TransformsAsAsked` as theorems.

## 11. Running

```
tlc -workers 2 -config MCArrayLifecycle_throws.cfg MCArrayLifecycle
tlc -workers 2 -config MCSubarrayViews.cfg MCSubarrayViews
tlapm ArrayLifecycle_proofs.tla
```

`PROJECT.json` lists the runs with their properties, the source lines of each definition,
the hazards with the properties that cover them, the mutations, findings and theorems.
