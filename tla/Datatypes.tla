-------------------------------- MODULE Datatypes ------------------------------
(******************************************************************************)
(* The MPI datatypes made of layouts (adaptors/mpi.hpp).  A skeleton asks MPI *)
(* for a type per dimension, each made of the one below it, and frees all but *)
(* the last; a message is a skeleton with a buffer; data is a type for the    *)
(* elements an iterator passes; create_subarray gives a type to the caller.   *)
(*                                                                            *)
(* MPI is a table of types under handles, and gives the handle of a type that *)
(* was freed to the next one that is made.  A type lists the displacements of *)
(* its elements, has an extent, which is how far the next element of that     *)
(* type is from it, and may or may not be committed.  Displacements are       *)
(* counted in elements, where the code counts bytes.                          *)
(******************************************************************************)
EXTENDS Layout, FiniteSets

CONSTANTS
    Names,      \* the objects and the handles that the program has names for
    Views       \* the views that they are made for

ASSUME DatatypesAssumption ==
    \A v \in Views : Len(v.dims) > 0 /\ \A k \in DOMAIN v.dims : ExtensionExists(v.dims[k])

VARIABLES
    mpi,        \* the table of types, and whether a handle was freed in vain
    object      \* what each name stands for

vars == <<mpi, object>>

Null == 0       \* MPI_DATATYPE_NULL
Basic == -1     \* MPI_INT and the other types that are there from the start

NoObject == [kind |-> "none"]

--------------------------------------------------------------------------------
(* MPI.                                                                       *)

BasicType == [displacements |-> <<0>>, extent |-> 1, committed |-> TRUE]

Handles == DOMAIN mpi.types

FreshIn(w) == CHOOSE h \in 1 .. Cardinality(DOMAIN w.types) + 1 : h \notin DOMAIN w.types

TypeIn(w, h) == IF h = Basic THEN BasicType ELSE w.types[h]

\* A step of the program with MPI: the table, and the handle it was given.
Given(w, type) ==
    LET h == FreshIn(w)
    IN  [w EXCEPT !.types = (h :> type) @@ @, !.last = h]

\* One element of type t after the other, distance apart.
HVector(w, count, distance, h) ==
    LET t == TypeIn(w, h)
    IN  Given(w, [displacements |->
                      FlattenSeq([k \in 1 .. count |->
                          [n \in DOMAIN t.displacements |-> (k - 1) * distance + t.displacements[n]]]),
                  extent |-> (count - 1) * distance + t.extent, committed |-> FALSE])

Resized(w, h, extent) ==
    Given(w, [displacements |-> TypeIn(w, h).displacements, extent |-> extent, committed |-> FALSE])

Freed(w, h) ==
    IF h \in DOMAIN w.types
    THEN [w EXCEPT !.types = [g \in DOMAIN @ \ {h} |-> @[g]]]
    ELSE [w EXCEPT !.astray = TRUE]

Committed(w, h) == [w EXCEPT !.types[h].committed = TRUE]

--------------------------------------------------------------------------------
(* Types made of layouts.                                                     *)

\* Wrong on purpose: the extent is that of the vector.
Strided_NotResized(w, count, stride, h) ==
    LET vector == HVector(w, count, stride, h)
    IN  Freed(Resized(vector, vector.last, TypeIn(vector, vector.last).extent), vector.last)

\* A vector of types a stride apart, resized to be that far from the next one.
Strided(w, count, stride, h) ==
    LET vector == HVector(w, count, stride, h)
    IN  Freed(Resized(vector, vector.last, stride), vector.last)

\* The private constructor of skeleton, from the last dimension to dimension k;
\* the skeleton of the dimension below is destroyed when the type is made.
Dimension(dims, k, w) ==
    LET count == IF k = 1 THEN 1 ELSE Size(dims[k])
        made  == Strided(w, count, dims[k].stride, w.last)
    IN  IF k = Len(dims) THEN made ELSE Freed(made, w.last)

SkeletonOf(w, dims) ==
    FoldRightDomain(LAMBDA k, u : Dimension(dims, k, u), dims, [w EXCEPT !.last = Basic])

CommittedSkeleton(w, dims) == LET made == SkeletonOf(w, dims) IN Committed(made, made.last)

\* create_subarray: as many skeletons as there are rows, in one type.
SubarrayType(w, dims) ==
    LET skeleton == CommittedSkeleton(w, dims)
        made     == Strided(skeleton, Size(dims[1]), dims[1].stride, skeleton.last)
    IN  Freed(made, skeleton.last)

\* create_subarray_aux: of a copy of the basic type, subcount rows.
AuxDimension(dims, k, subcount, w) ==
    Freed(Strided(w, IF k = 1 THEN subcount ELSE Size(dims[k]), dims[k].stride, w.last), w.last)

SubarrayAuxType(w, dims, subcount) ==
    FoldRightDomain(LAMBDA k, u : AuxDimension(dims, k, subcount, u), dims, Given(w, BasicType))

--------------------------------------------------------------------------------
Init ==
    /\ mpi = [types |-> <<>>, last |-> Null, astray |-> FALSE]
    /\ object = [x \in Names |-> NoObject]

IsFree(x) == object[x] = NoObject

Becomes(x, w, o) ==
    /\ mpi' = w
    /\ object' = [object EXCEPT ![x] = o]

Skeleton(x, v) ==
    /\ IsFree(x)
    /\ LET w == CommittedSkeleton(mpi, v.dims)
       IN  Becomes(x, w, [kind |-> "skeleton", view |-> v, count |-> Size(v.dims[1]), datatype |-> w.last])

Message(x, v) ==
    /\ IsFree(x)
    /\ LET w == CommittedSkeleton(mpi, v.dims)
       IN  Becomes(x, w, [kind |-> "message", view |-> v, count |-> Size(v.dims[1]), datatype |-> w.last,
                          buffer |-> v.base])

\* Wrong on purpose: both have the handle.
MovedFrom_Copies(o) == o

\* std::exchange(other.datatype_, MPI_DATATYPE_NULL), and the count stays.
MovedFrom(o) == [o EXCEPT !.datatype = Null]

Takes(x, y, o) ==
    /\ IsFree(x) /\ object[y].kind = "skeleton"
    /\ object' = [object EXCEPT ![x] = o, ![y] = MovedFrom(object[y])]
    /\ UNCHANGED mpi

MoveSkeleton(x, y) == Takes(x, y, object[y])

\* message(buf, std::move(skeleton))
MessageFrom(x, y) ==
    /\ object[y].kind = "skeleton" /\ object[y].datatype # Null
    /\ Takes(x, y, [kind |-> "message", view |-> object[y].view, count |-> object[y].count,
                    datatype |-> object[y].datatype, buffer |-> object[y].view.base])

\* std::move(skeleton).datatype(): the handle is the caller's.
Release(x, y) ==
    /\ object[y].kind = "skeleton" /\ object[y].datatype # Null
    /\ Takes(x, y, [kind |-> "type", view |-> object[y].view, count |-> object[y].count,
                    datatype |-> object[y].datatype])

\* MPI_Type_vector(1, 1, stride) has one element: the stride does not matter.
Data(x, v) ==
    /\ IsFree(x) /\ Len(v.dims) = 1
    /\ LET vector == HVector(mpi, 1, v.dims[1].stride, Basic)
       IN  Becomes(x, Committed(vector, vector.last),
                   [kind |-> "data", view |-> v, count |-> Size(v.dims[1]), datatype |-> vector.last,
                    buffer |-> v.base])

Subarray(x, v) ==
    /\ IsFree(x)
    /\ LET w == SubarrayType(mpi, v.dims)
       IN  Becomes(x, w, [kind |-> "type", view |-> v, count |-> 1, datatype |-> w.last])

SubarrayAux(x, v) ==
    /\ IsFree(x)
    /\ LET w == SubarrayAuxType(mpi, v.dims, Size(v.dims[1]))
       IN  Becomes(x, w, [kind |-> "type", view |-> v, count |-> 1, datatype |-> w.last])

\* What the program does with a handle of its own.
Commit(x) ==
    /\ object[x].kind = "type"
    /\ Becomes(x, Committed(mpi, object[x].datatype), object[x])

Free(x) ==
    /\ object[x].kind = "type"
    /\ Becomes(x, Freed(mpi, object[x].datatype), NoObject)

Destroy(x) ==
    /\ object[x].kind \in {"skeleton", "message", "data"}
    /\ Becomes(x, IF object[x].datatype = Null THEN mpi ELSE Freed(mpi, object[x].datatype), NoObject)

Next ==
    \E x \in Names :
        \/ \E v \in Views : Skeleton(x, v) \/ Message(x, v) \/ Data(x, v) \/ Subarray(x, v) \/ SubarrayAux(x, v)
        \/ \E y \in Names : MoveSkeleton(x, y) \/ MessageFrom(x, y) \/ Release(x, y)
        \/ Commit(x) \/ Free(x) \/ Destroy(x)

Spec == Init /\ [][Next]_vars

--------------------------------------------------------------------------------
(* Properties.                                                                *)

Owners(h) == {x \in Names : object[x] # NoObject /\ object[x].datatype = h}

\* The elements that count instances of a type select, from where the base is.
Selected(o) ==
    LET t == mpi.types[o.datatype]
    IN  FlattenSeq([k \in 1 .. o.count |->
            [n \in DOMAIN t.displacements |-> o.view.base + (k - 1) * t.extent + t.displacements[n]]])

Elements(v) ==
    LET first == FromSizes(Sizes(v.dims))
    IN  [n \in 1 .. NumElements(v.dims) |-> AddressByIterators(v, FromLinear(first, n - 1))]

\* A send or a receive with the buffer, the count and the type of an object
\* transfers the elements of its view, all of them, in canonical order; so the
\* two sides may have different layouts.  With data, which has no stride, this
\* is so for contiguous vectors; for others it transfers as many elements from
\* the first one on, which is what test/mpi.cpp expects.  What an object gives
\* to MPI is committed (skeleton, message, data, create_subarray and its _aux).
SelectsTheView ==
    \A x \in Names :
        LET o == object[x]
        IN  o # NoObject /\ o.datatype # Null =>
                /\ Selected(o) = IF o.kind = "data" THEN [n \in 1 .. o.count |-> o.view.base + n - 1]
                                 ELSE Elements(o.view)
                /\ o.kind # "type" => mpi.types[o.datatype].committed

\* Every type that was made and not freed has one owner, an object or the
\* program, every owner's type is there, and no handle was freed twice
\* (skeleton's constructors, its destructor, datatype() &&).
OneOwnerEach ==
    /\ ~mpi.astray
    /\ \A h \in Handles : Cardinality(Owners(h)) = 1
    /\ \A x \in Names : object[x] # NoObject /\ object[x].datatype # Null => object[x].datatype \in Handles

================================================================================
