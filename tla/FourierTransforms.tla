--------------------------- MODULE FourierTransforms ---------------------------
(******************************************************************************)
(* The Fourier adaptors.  A transform is asked for along some dimensions of a *)
(* view, from one layout to another with the same sizes.  fftw::plan hands    *)
(* every dimension to the library, for one execution.  cufft::plan has to fit *)
(* them in the interface of cuFFT, which transforms a batch of blocks: it     *)
(* sorts the dimensions, merges those that are repetitions into one where it  *)
(* can, takes the longest for the batch, and loops over those that are left.  *)
(* Such a plan is kept by each thread in a map, with the layouts for the key. *)
(*                                                                            *)
(* A transform is represented by where it finds and leaves each of its points;*)
(* dimensions carry the number they have in the view to name the points.      *)
(******************************************************************************)
EXTENDS Integers, Sequences, FiniteSets

LOCAL INSTANCE SequencesExt
LOCAL INSTANCE FiniteSetsExt

CONSTANTS
    Thread,
    Requests,       \* Requests[t]: the transforms that a thread may ask for
    PlanBound,      \* how many plans the map of a thread holds
    Handle          \* the handles that the libraries may give

ASSUME HandleAssumption == 0 \notin Handle      \* 0 is the null handle

ASSUME RequestsAssumption == \A t \in Thread : \A r \in Requests[t] : r.lib \in {"fftw", "cufft"}

VARIABLES
    pc,             \* where a thread is in its call
    request,        \* what it asks for
    temporary,      \* the plan that its call owns, if it owns one
    cache,          \* cache[t][key]: the plans of LEAKY_cache
    live            \* the handles that the libraries have open

vars == <<pc, request, temporary, cache, live>>

NoPlan == [h |-> 0]
None == [lib |-> "none"]

Key(r) == <<r.which, r.n, r.is, r.os>>

\* fftw_iodim64 of each dimension.
iodims(r) == [k \in 1 .. Len(r.n) |-> [k |-> k, n |-> r.n[k], is |-> r.is[k], os |-> r.os[k]]]

\* dft takes a sign, dft_forward and dft_backward have theirs.
Sign(r) == CASE r.call = "dft_forward"  -> "forward"
             [] r.call = "dft_backward" -> "backward"
             [] OTHER                   -> r.sign

FFTs(r, dims) == SelectSeq(dims, LAMBDA d : r.which[d.k])
Repetitions(r, dims) == SelectSeq(dims, LAMBDA d : ~r.which[d.k])

--------------------------------------------------------------------------------
(* Points.  Offset is where an index of some dimensions leads.                *)

Indices(dims) == LET Domain == {d.k : d \in dims}
                     Size == [k \in Domain |-> (CHOOSE d \in dims : d.k = k).n]
                     Values == UNION {0 .. d.n - 1 : d \in dims}
                 IN  {x \in [Domain -> Values] : \A k \in Domain : x[k] < Size[k]}

Offset(dims, x) ==
    <<MapThenSumSet(LAMBDA d : x[d.k] * d.is, dims), MapThenSumSet(LAMBDA d : x[d.k] * d.os, dims)>>

Plus(p, q) == <<p[1] + q[1], p[2] + q[2]>>
Elements(s) == {s[k] : k \in DOMAIN s}

\* The transforms that are asked for: one for each index of the repetitions.
Wanted(r) ==
    LET along == Elements(FFTs(r, iodims(r)))
        over  == Elements(Repetitions(r, iodims(r)))
    IN  {[x \in Indices(along) |-> Plus(Offset(along, x), Offset(over, y))] : y \in Indices(over)}

--------------------------------------------------------------------------------
(* fftw.                                                                      *)

\* fftw_plan_dft: the dimensions in their order, transformed or repeated, and
\* the sign.
GuruPlan(r, h) ==
    [h |-> h, sign |-> Sign(r), along |-> FFTs(r, iodims(r)), over |-> Repetitions(r, iodims(r))]

\* fftw_plan_guru64_dft and fftw_execute_dft.
Guru(p) ==
    {[x \in Indices(Elements(p.along)) |-> Plus(Offset(Elements(p.along), x), Offset(Elements(p.over), y))] :
         y \in Indices(Elements(p.over))}

--------------------------------------------------------------------------------
(* cufft.                                                                     *)

\* std::stable_sort: position a comes before position b.
ByStride(a, b, dims) ==
    dims[a].is > dims[b].is \/ (dims[a].is = dims[b].is /\ a < b)

Sorted(dims) ==
    [p \in DOMAIN dims |->
        dims[CHOOSE b \in DOMAIN dims : Cardinality({a \in DOMAIN dims : ByStride(a, b, dims)}) = p - 1]]

Count(dims) == FoldLeft(LAMBDA n, d : n * d.n, 1, dims)

\* Mutant: the strides of the output are not looked at.
Adjoins_InputOnly(d, rest) == d.is = Count(rest)

\* Whether the repetitions that follow d fill its stride.
Adjoins(d, rest) == d.is = Count(rest) /\ d.os = Count(rest)

\* What k steps of the loop leave, each of which merges the first repetition into
\* the second.
Merged(dims, k) ==
    <<[dims[k + 1] EXCEPT !.n = Count(SubSeq(dims, 1, k + 1))]>> \o SubSeq(dims, k + 2, Len(dims))

\* It stops at a repetition that does not adjoin, or at the last.
Coalesced(dims) ==
    LET Stops(k) == k = Len(dims) - 1 \/ ~Adjoins(Head(Merged(dims, k)), Tail(Merged(dims, k)))
    IN  Merged(dims, CHOOSE k \in 0 .. Len(dims) - 1 : Stops(k) /\ \A j \in 0 .. k - 1 : ~Stops(j))

\* std::sort: by counts, downwards, those that are equal in any order.
Orderings(dims) ==
    {[p \in DOMAIN dims |-> dims[f[p]]] :
        f \in {g \in [DOMAIN dims -> DOMAIN dims] : \A a, b \in DOMAIN dims : g[a] = g[b] => a = b}}
ByCount(dims) == {s \in Orderings(dims) : \A a, b \in DOMAIN s : a < b => s[a].n >= s[b].n}

\* The assertions on the strides, which the loop evaluates for no transformed
\* dimension too: there it divides by the zero that istrides is filled with.
Embeds(ffts) ==
    /\ ffts # <<>>
    /\ \A i \in 2 .. Len(ffts) :
           /\ ffts[i - 1].os >= ffts[i].os
           /\ ffts[i - 1].os % ffts[i].os = 0
           /\ ffts[i - 1].is % ffts[i].is = 0

One == [k |-> 0, n |-> 1, is |-> 1, os |-> 1]

\* The plans that the constructor may make: ion, inembed and onembed, the last
\* strides, the batch and the repetitions that are left.
ManyPlans(r, h) ==
    LET dims == Sorted(iodims(r))
        ffts == FFTs(r, dims)
        last == ffts[Len(ffts)]
        Plan(batch, over) ==
            [h |-> h, along |-> ffts,
             inembed |-> [i \in 1 .. Len(ffts) |-> IF i = 1 THEN 0 ELSE ffts[i - 1].is \div ffts[i].is],
             onembed |-> [i \in 1 .. Len(ffts) |-> IF i = 1 THEN 0 ELSE ffts[i - 1].os \div ffts[i].os],
             istride |-> last.is, ostride |-> last.os, batch |-> batch, over |-> over]
    IN  IF Repetitions(r, dims) = <<>> THEN {Plan(One, <<>>)}
        ELSE {Plan(s[1], Tail(s)) : s \in ByCount(Coalesced(Repetitions(r, dims)))}

\* Where cuFFT looks for a point: the advanced layout of cufftPlanMany.
Embedded(along, embed, x) ==
    FoldLeftDomain(LAMBDA at, m : x[along[m].k] + embed[m] * at, 0, along)

InEmbedded(p, x) == Embedded(p.along, p.inembed, x) * p.istride
OutEmbedded(p, x) == Embedded(p.along, p.onembed, x) * p.ostride

\* cufftExecZ2Z at an offset.
Batch(p, at) ==
    {[x \in Indices(Elements(p.along)) |->
        Plus(<<InEmbedded(p, x) + b * p.batch.is, OutEmbedded(p, x) + b * p.batch.os>>, at)] : b \in 0 .. p.batch.n - 1}

\* The loops of execute over the repetitions that are left.
Loops(p) == UNION {Batch(p, Offset(Elements(p.over), y)) : y \in Indices(Elements(p.over))}

\* plan::execute is told the direction: the plan does not have it, nor its key.
Direction(p, r) == IF r.lib = "fftw" THEN p.sign ELSE Sign(r)

\* execute cannot do three loops, nor two in place.
ExecuteThrows(p, r) == r.lib = "cufft" /\ (Len(p.over) > 2 \/ (Len(p.over) = 2 /\ r.inplace))

--------------------------------------------------------------------------------
Init ==
    /\ pc = [t \in Thread |-> "idle"]
    /\ request = [t \in Thread |-> None]
    /\ temporary = [t \in Thread |-> NoPlan]
    /\ cache = [t \in Thread |-> <<>>]
    /\ live = {}

\* Mutant: the map is not thread_local.
Found_Shared(t, key) == {c[key] : c \in {cache[u] : u \in {v \in Thread : key \in DOMAIN cache[v]}}}

\* LEAKY_cache.find.
Found(t, key) == {cache[u][key] : u \in {v \in {t} : key \in DOMAIN cache[v]}}

\* dft(which, in, out, sign).
Call(t) ==
    /\ pc[t] = "idle"
    /\ \E r \in Requests[t] :
        /\ r.lib = "cufft" /\ Found(t, Key(r)) = {} => Cardinality(DOMAIN cache[t]) < PlanBound
        /\ request' = [request EXCEPT ![t] = r]
        /\ pc' = [pc EXCEPT ![t] = IF r.lib = "cufft" /\ Found(t, Key(r)) # {} THEN "execute" ELSE "plan"]
    /\ UNCHANGED <<temporary, cache, live>>

\* The constructors of the plans; a failed assertion, or the division by zero,
\* is the end of the program.
MakePlan(t) ==
    LET r == request[t]
        h == CHOOSE x \in Handle : x \notin live
    IN  /\ pc[t] = "plan"
        /\ IF r.lib = "cufft" /\ ~Embeds(FFTs(r, Sorted(iodims(r))))
           THEN pc' = [pc EXCEPT ![t] = "aborted"] /\ UNCHANGED <<temporary, live>>
           ELSE /\ Handle \ live # {}
                /\ live' = live \cup {h}
                /\ \E p \in IF r.lib = "cufft" THEN ManyPlans(r, h) ELSE {GuruPlan(r, h)} :
                       temporary' = [temporary EXCEPT ![t] = p]
                /\ pc' = [pc EXCEPT ![t] = IF r.lib = "cufft" THEN "insert" ELSE "execute"]
        /\ UNCHANGED <<request, cache>>

\* Mutant: the handle stays in the plan that has been moved.
MovedFrom_Copies(p) == p

\* plan(plan&&): std::exchange(other.h_, {}).
MovedFrom(p) == [p EXCEPT !.h = 0]

\* The insertion moves the plan to the map and destroys the temporary.
Insert(t) ==
    /\ pc[t] = "insert"
    /\ cache' = [cache EXCEPT ![t] =
                    [k \in DOMAIN cache[t] \cup {Key(request[t])} |->
                        IF k \in DOMAIN cache[t] THEN cache[t][k] ELSE temporary[t]]]
    /\ live' = live \ {MovedFrom(temporary[t]).h}
    /\ temporary' = [temporary EXCEPT ![t] = NoPlan]
    /\ pc' = [pc EXCEPT ![t] = "execute"]
    /\ UNCHANGED request

\* The plan that a call executes.
Executed(t) ==
    IF request[t].lib = "fftw" THEN temporary[t]
    ELSE CHOOSE p \in Found(t, Key(request[t])) : TRUE

Execute(t) ==
    /\ pc[t] = "execute"
    /\ pc' = [pc EXCEPT ![t] = IF ExecuteThrows(Executed(t), request[t]) THEN "thrown" ELSE "executed"]
    /\ UNCHANGED <<request, temporary, cache, live>>

\* The end of the full expression destroys what it owns.
Return(t) ==
    /\ pc[t] \in {"executed", "thrown"}
    /\ live' = live \ {temporary[t].h}
    /\ temporary' = [temporary EXCEPT ![t] = NoPlan]
    /\ request' = [request EXCEPT ![t] = None]
    /\ pc' = [pc EXCEPT ![t] = "idle"]
    /\ UNCHANGED cache

Next ==
    /\ \A t \in Thread : pc[t] # "aborted"
    /\ \E t \in Thread : Call(t) \/ MakePlan(t) \/ Insert(t) \/ Execute(t) \/ Return(t)

Spec == Init /\ [][Next]_vars

--------------------------------------------------------------------------------
(* Properties.                                                                *)

Effect(p, r) == IF r.lib = "fftw" THEN Guru(p) ELSE Loops(p)

\* What an execution does, with a plan that may have been made long ago and for
\* another call, is what its caller asked for: each transform with its points,
\* in its direction, and no other.
TransformsAsAsked ==
    \A t \in Thread : pc[t] = "executed" =>
        /\ Effect(Executed(t), request[t]) = Wanted(request[t])
        /\ Direction(Executed(t), request[t]) = Sign(request[t])

\* The plans that own a handle, in the calls and in the maps.
Owners(h) ==
    {<<"call", t>> : t \in {u \in Thread : temporary[u].h = h}}
      \cup UNION {{<<"map", t, k>> : k \in {j \in DOMAIN cache[t] : cache[t][j].h = h}} : t \in Thread}

\* A handle is open as long as one plan owns it, and no two plans own one.
OneOwner == \A h \in Handle : Cardinality(Owners(h)) = IF h \in live THEN 1 ELSE 0

\* No plan is executed by two threads at a time, nor by one while another has
\* yet to make it: the libraries do not lock their plans.
NotShared ==
    \A t, u \in Thread :
        t # u /\ pc[t] = "execute" /\ pc[u] = "execute" => Executed(t).h # Executed(u).h

================================================================================
