---------------------------- MODULE ArrayValues ----------------------------
(***************************************************************************)
(* The arrays of Boost.Multi as values: what README.md promises the user   *)
(* of multi::array, with no memory, allocators or layouts.  An array is    *)
(* its extensions and a function from index pairs to element values, or    *)
(* one element with no index at all.                                       *)
(***************************************************************************)
EXTENDS Integers

CONSTANTS Arrays, Extents, Values, DefaultValue,
          Point,           \* the extensions of an array of no dimensions
          Saved            \* the values that archives hold

VARIABLE val               \* the value of each array that exists

Indices(x) == IF x = Point THEN {<<>>} ELSE (0 .. x[1] - 1) \X (0 .. x[2] - 1)

Array(x, at(_)) == [ext |-> x, at |-> [i \in Indices(x) |-> at(i)]]

Filled(x, v) == Array(x, LAMBDA i : v)

Empty == Filled(<<0, 0>>, DefaultValue)

\* Row-major order: the same sequence of elements in other extensions.
Reshaped(w, x) ==
  Array(x, LAMBDA i : LET k == i[1] * x[2] + i[2]
                      IN w.at[<<k \div w.ext[2], k % w.ext[2]>>])

Rotated(w) == Array(<<w.ext[2], w.ext[1]>>, LAMBDA i : w.at[<<i[2], i[1]>>])

FirstRow(w) == Array(<<1, w.ext[2]>>, LAMBDA i : w.at[i])

\* The elements of common indices are kept, the others are v.
Reextended(w, x, v) == Array(x, LAMBDA i : IF i \in Indices(w.ext) THEN w.at[i] ELSE v)

Count(x) == IF x = Point THEN 1 ELSE x[1] * x[2]

\* val with array a, new or not, of value w
With(a, w) == [c \in DOMAIN val \cup {a} |-> IF c = a THEN w ELSE val[c]]

Init == val = [a \in {} |-> Empty]

\* a is constructed or assigned from scratch
Make(a, x, v) == val' = With(a, Filled(x, v))

Load(a) == \E w \in Saved : val' = With(a, w)

Copy(a, b) == val' = With(a, val[b])

CopyView(a, b) ==
  /\ val[b].ext # Point /\ Count(val[b].ext) > 0
  /\ \E w \in {val[b], Rotated(val[b]), FirstRow(val[b])} : val' = With(a, w)

Move(a, b) ==
  /\ a # b
  /\ val' = [c \in DOMAIN val \cup {a} |-> IF c = a THEN val[b]
                                         ELSE IF c = b THEN Empty ELSE val[c]]

\* The elements of b move to a, and leave themselves or default values behind.
MoveElements(a, b) ==
  /\ a # b
  /\ \E w \in {val[b], Filled(val[b].ext, DefaultValue)} :
       val' = [c \in DOMAIN val \cup {a} |-> IF c = a THEN val[b]
                                            ELSE IF c = b THEN w ELSE val[c]]

Swap(a, b) ==
  /\ a \in DOMAIN val
  /\ val' = [val EXCEPT ![a] = val[b], ![b] = val[a]]

Destroy(a) == val' = [c \in DOMAIN val \ {a} |-> val[c]]

Reshape(a, x) ==
  /\ val[a].ext # Point
  /\ Count(x) = Count(val[a].ext)
  /\ val' = With(a, Reshaped(val[a], x))

Reextent(a, x, v) == val[a].ext # Point /\ val' = With(a, Reextended(val[a], x, v))

Write(a, i, v) == val' = [val EXCEPT ![a].at[i] = v]

Next ==
  \/ \E a \in Arrays, x \in Extents \cup {<<0, 0>>, Point}, v \in Values : Make(a, x, v)
  \/ \E a \in Arrays, b \in DOMAIN val : Copy(a, b) \/ CopyView(a, b) \/ Swap(a, b)
  \/ \E a \in Arrays, b \in DOMAIN val : Move(a, b) \/ MoveElements(a, b)
  \/ \E a \in DOMAIN val : Destroy(a) \/ Load(a)
  \/ \E a \in DOMAIN val, x \in Extents : \/ Reshape(a, x)
                                         \/ \E v \in Values : Reextent(a, x, v)
  \/ \E a \in DOMAIN val : \E i \in Indices(val[a].ext), v \in Values : Write(a, i, v)

Spec == Init /\ [][Next]_val
=============================================================================
