------------------------ MODULE FourierTransforms_proofs -----------------------
(******************************************************************************)
(* Proofs about FourierTransforms: for any number of threads, requests and    *)
(* handles, an open handle belongs to one plan, and no two threads execute    *)
(* one plan.  What a handle goes through, from the call that makes the plan   *)
(* to the map that keeps it, is in the invariant; which points the plans      *)
(* transform does not matter here.                                            *)
(******************************************************************************)
EXTENDS FourierTransforms, FiniteSetTheorems, TLAPS

States == {"idle", "plan", "insert", "execute", "executed", "thrown", "aborted"}

\* Between the call and its return.
Late == {"execute", "executed", "thrown"}

Types ==
    /\ pc \in [Thread -> States]
    /\ DOMAIN request = Thread /\ DOMAIN temporary = Thread /\ DOMAIN cache = Thread
    /\ live \subseteq Handle

\* A call owns a handle from the construction of its plan on: until the plan is
\* in the map, or if it is fftw's, until the call returns.
CallsOwn ==
    \A t \in Thread :
        /\ pc[t] # "idle" => request[t].lib \in {"fftw", "cufft"}
        /\ pc[t] \in {"idle", "plan", "aborted"} => temporary[t].h = 0
        /\ pc[t] = "insert" => temporary[t].h \in live
        /\ pc[t] \in Late => IF request[t].lib = "fftw" THEN temporary[t].h \in live
                             ELSE temporary[t].h = 0

\* A plan is made if the map has none for its key, and is there when executed.
MapsHave ==
    \A t \in Thread :
        /\ pc[t] = "insert" => Key(request[t]) \notin DOMAIN cache[t]
        /\ pc[t] = "plan" /\ request[t].lib = "cufft" => Key(request[t]) \notin DOMAIN cache[t]
        /\ pc[t] = "insert" => request[t].lib = "cufft"
        /\ pc[t] \in Late /\ request[t].lib = "cufft" => Key(request[t]) \in DOMAIN cache[t]

\* The maps own open handles; no two calls own one, no two entries, nor a call
\* and an entry.
MapsOwn == \A t \in Thread : \A k \in DOMAIN cache[t] : cache[t][k].h \in live

CallsDiffer ==
    \A t, u \in Thread : temporary[t].h = temporary[u].h /\ temporary[t].h # 0 => t = u

EntriesDiffer ==
    \A t, u \in Thread : \A k \in DOMAIN cache[t], j \in DOMAIN cache[u] :
        cache[t][k].h = cache[u][j].h => t = u /\ k = j

CallsAndEntriesDiffer ==
    \A t, u \in Thread : \A k \in DOMAIN cache[u] : temporary[t].h # cache[u][k].h

\* No open handle is lost.
Owned ==
    \A h \in live :
        \/ \E t \in Thread : temporary[t].h = h
        \/ \E t \in Thread : \E k \in DOMAIN cache[t] : cache[t][k].h = h

Inv ==
    /\ Types /\ CallsOwn /\ MapsHave /\ MapsOwn
    /\ CallsDiffer /\ EntriesDiffer /\ CallsAndEntriesDiffer /\ Owned

--------------------------------------------------------------------------------
(* Plans.                                                                     *)

\* Whatever a constructor makes of the layouts, the plan has the handle that the
\* library gave for it.
LEMMA PlansHold ==
    ASSUME NEW r, NEW h
    PROVE  /\ \A p \in ManyPlans(r, h) : p.h = h
           /\ GuruPlan(r, h).h = h
<1>1. GuruPlan(r, h).h = h
    BY DEF GuruPlan
<1>2. \A p \in ManyPlans(r, h) : p.h = h
    BY DEF ManyPlans
<1> QED  BY <1>1, <1>2

LEMMA FoundInOwnMap ==
    ASSUME NEW t \in Thread, NEW k
    PROVE  Found(t, k) = IF k \in DOMAIN cache[t] THEN {cache[t][k]} ELSE {}
BY DEF Found

--------------------------------------------------------------------------------
(* The invariant.                                                             *)

LEMMA InitInv == Init => Inv
<1> SUFFICES ASSUME Init PROVE Inv
    OBVIOUS
<1>1. \A t \in Thread : DOMAIN cache[t] = {}
    BY DEF Init
<1> QED
    BY <1>1 DEF Init, Inv, Types, States, Late, CallsOwn, MapsHave, MapsOwn, CallsDiffer, EntriesDiffer,
                CallsAndEntriesDiffer, Owned, NoPlan

LEMMA CallKeepsInv ==
    ASSUME Inv, NEW t \in Thread, Call(t)
    PROVE  Inv'
<1>1. PICK r \in Requests[t] :
          /\ request' = [request EXCEPT ![t] = r]
          /\ pc' = [pc EXCEPT ![t] = IF r.lib = "cufft" /\ Found(t, Key(r)) # {} THEN "execute" ELSE "plan"]
    BY DEF Call
<1>2. pc[t] = "idle" /\ temporary' = temporary /\ cache' = cache /\ live' = live
    BY DEF Call
<1>3. r.lib \in {"fftw", "cufft"}
    BY RequestsAssumption
<1>4. Found(t, Key(r)) # {} <=> Key(r) \in DOMAIN cache[t]
    BY FoundInOwnMap
<1>5. Types'
    BY <1>1, <1>2 DEF Inv, Types, States
<1>6. /\ request'[t] = r /\ pc'[t] \in {"execute", "plan"}
      /\ pc'[t] = "execute" <=> r.lib = "cufft" /\ Key(r) \in DOMAIN cache[t]
      /\ \A u \in Thread : u # t => request'[u] = request[u] /\ pc'[u] = pc[u]
    BY <1>1, <1>2, <1>4 DEF Inv, Types
<1>7. CallsOwn'
    BY <1>2, <1>3, <1>6 DEF Inv, CallsOwn, Late
<1>8. MapsHave'
    BY <1>2, <1>3, <1>6 DEF Inv, MapsHave, Late
<1>9. MapsOwn' /\ CallsDiffer' /\ EntriesDiffer' /\ CallsAndEntriesDiffer' /\ Owned'
    BY <1>2 DEF Inv, MapsOwn, CallsDiffer, EntriesDiffer, CallsAndEntriesDiffer, Owned
<1> QED  BY <1>5, <1>7, <1>8, <1>9 DEF Inv

\* The new handle is not open yet, and so nobody owns it.
LEMMA MakePlanKeepsInv ==
    ASSUME Inv, NEW t \in Thread, MakePlan(t)
    PROVE  Inv'
<1> DEFINE r == request[t]
           h == CHOOSE x \in Handle : x \notin live
<1>0. pc[t] = "plan" /\ request' = request /\ cache' = cache
    BY DEF MakePlan
<1>1. CASE pc' = [pc EXCEPT ![t] = "aborted"] /\ UNCHANGED <<temporary, live>>
    <2>1. pc'[t] = "aborted" /\ \A u \in Thread : u # t => pc'[u] = pc[u]
        BY <1>1 DEF Inv, Types
    <2>2. Types'
        BY <1>0, <1>1 DEF Inv, Types, States
    <2>3. CallsOwn' /\ MapsHave'
        BY <1>0, <1>1, <2>1 DEF Inv, CallsOwn, MapsHave, Late
    <2>4. MapsOwn' /\ CallsDiffer' /\ EntriesDiffer' /\ CallsAndEntriesDiffer' /\ Owned'
        BY <1>0, <1>1 DEF Inv, MapsOwn, CallsDiffer, EntriesDiffer, CallsAndEntriesDiffer, Owned
    <2> QED  BY <2>2, <2>3, <2>4 DEF Inv
<1>2. CASE /\ Handle \ live # {}
           /\ live' = live \cup {h}
           /\ \E p \in IF r.lib = "cufft" THEN ManyPlans(r, h) ELSE {GuruPlan(r, h)} :
                  temporary' = [temporary EXCEPT ![t] = p]
           /\ pc' = [pc EXCEPT ![t] = IF r.lib = "cufft" THEN "insert" ELSE "execute"]
    <2>1. h \in Handle /\ h \notin live /\ h # 0
        BY <1>2, HandleAssumption
    <2> HIDE DEF h
    <2>2. PICK p : temporary' = [temporary EXCEPT ![t] = p] /\ p.h = h
        <3>1. PICK p \in IF r.lib = "cufft" THEN ManyPlans(r, h) ELSE {GuruPlan(r, h)} :
                  temporary' = [temporary EXCEPT ![t] = p]
            BY <1>2
        <3>2. p.h = h
            BY <3>1, PlansHold
        <3> QED  BY <3>1, <3>2
    <2>3. temporary'[t].h = h /\ \A u \in Thread : u # t => temporary'[u] = temporary[u]
        BY <2>2 DEF Inv, Types
    <2>4. /\ pc'[t] = IF r.lib = "cufft" THEN "insert" ELSE "execute"
          /\ \A u \in Thread : u # t => pc'[u] = pc[u]
        BY <1>2 DEF Inv, Types
    <2>5. Types'
        BY <1>0, <1>2, <2>1, <2>2 DEF Inv, Types, States
    <2>6. r.lib \in {"fftw", "cufft"}
        BY <1>0 DEF Inv, CallsOwn
    <2>7. \A u \in Thread : temporary[u].h \in live \cup {0}
        BY DEF Inv, Types, States, CallsOwn, Late
    <2>8. CallsOwn'
        BY <1>0, <1>2, <2>3, <2>4, <2>6 DEF Inv, CallsOwn, Late
    <2>9. MapsHave'
        BY <1>0, <2>4, <2>6 DEF Inv, MapsHave, Late
    <2>10. MapsOwn' /\ EntriesDiffer'
        BY <1>0, <1>2 DEF Inv, MapsOwn, EntriesDiffer
    <2>11. CallsDiffer'
        BY <2>1, <2>3, <2>7 DEF Inv, CallsDiffer
    <2>12. CallsAndEntriesDiffer'
        BY <1>0, <2>1, <2>3 DEF Inv, MapsOwn, CallsAndEntriesDiffer
    <2>13. Owned'
        <3>1. temporary[t].h = 0
            BY <1>0 DEF Inv, CallsOwn
        <3>2. 0 \notin live
            BY HandleAssumption DEF Inv, Types
        <3> QED  BY <1>0, <1>2, <2>3, <3>1, <3>2 DEF Inv, Owned
    <2> QED  BY <2>5, <2>8, <2>9, <2>10, <2>11, <2>12, <2>13 DEF Inv
<1> QED  BY <1>1, <1>2 DEF MakePlan

\* The handle goes from the call to the map: no handle is closed, as the plan
\* that was moved from has none.
LEMMA InsertKeepsInv ==
    ASSUME Inv, NEW t \in Thread, Insert(t)
    PROVE  Inv'
<1> DEFINE key == Key(request[t])
<1>1. /\ pc[t] = "insert" /\ request' = request
      /\ pc' = [pc EXCEPT ![t] = "execute"]
      /\ temporary' = [temporary EXCEPT ![t] = NoPlan]
    BY DEF Insert
<1>2. temporary[t].h \in live /\ key \notin DOMAIN cache[t] /\ request[t].lib = "cufft"
    BY <1>1 DEF Inv, CallsOwn, MapsHave
<1>3. 0 \notin live
    BY HandleAssumption DEF Inv, Types
<1>4. live' = live
    BY <1>3 DEF Insert, MovedFrom
<1>5. /\ DOMAIN cache'[t] = DOMAIN cache[t] \cup {key}
      /\ \A k \in DOMAIN cache[t] : cache'[t][k] = cache[t][k]
      /\ cache'[t][key] = temporary[t]
      /\ \A u \in Thread : u # t => cache'[u] = cache[u]
    BY <1>2 DEF Insert, Inv, Types
<1>6. Types'
    BY <1>1, <1>4 DEF Inv, Types, States, Insert
<1>7. /\ temporary'[t].h = 0 /\ \A u \in Thread : u # t => temporary'[u] = temporary[u]
      /\ pc'[t] = "execute" /\ \A u \in Thread : u # t => pc'[u] = pc[u]
    BY <1>1 DEF Inv, Types, NoPlan
<1> HIDE DEF key
<1>8. CallsOwn'
    BY <1>1, <1>2, <1>4, <1>7 DEF Inv, CallsOwn, Late
<1>9. MapsHave'
    BY <1>1, <1>2, <1>5, <1>7 DEF Inv, MapsHave, Late, key
<1>10. MapsOwn'
    BY <1>2, <1>4, <1>5 DEF Inv, MapsOwn
<1>11. CallsDiffer'
    BY <1>7 DEF Inv, CallsDiffer
<1>12. EntriesDiffer'
    BY <1>2, <1>5 DEF Inv, EntriesDiffer, CallsAndEntriesDiffer
<1>13. CallsAndEntriesDiffer'
    BY <1>2, <1>3, <1>5, <1>7 DEF Inv, CallsDiffer, CallsAndEntriesDiffer, MapsOwn
<1>14. Owned'
    BY <1>4, <1>5, <1>7 DEF Inv, Owned
<1> QED  BY <1>6, <1>8, <1>9, <1>10, <1>11, <1>12, <1>13, <1>14 DEF Inv

LEMMA ExecuteKeepsInv ==
    ASSUME Inv, NEW t \in Thread, Execute(t)
    PROVE  Inv'
<1>1. /\ pc[t] = "execute" /\ UNCHANGED <<request, temporary, cache, live>>
      /\ \E s \in {"thrown", "executed"} : pc' = [pc EXCEPT ![t] = s]
    BY DEF Execute
<1>2. pc'[t] \in {"thrown", "executed"} /\ \A u \in Thread : u # t => pc'[u] = pc[u]
    BY <1>1 DEF Inv, Types
<1>3. Types'
    BY <1>1 DEF Inv, Types, States
<1>4. CallsOwn' /\ MapsHave'
    BY <1>1, <1>2 DEF Inv, CallsOwn, MapsHave, Late
<1>5. MapsOwn' /\ CallsDiffer' /\ EntriesDiffer' /\ CallsAndEntriesDiffer' /\ Owned'
    BY <1>1 DEF Inv, MapsOwn, CallsDiffer, EntriesDiffer, CallsAndEntriesDiffer, Owned
<1> QED  BY <1>3, <1>4, <1>5 DEF Inv

\* A handle is closed if the call owns one, and then nobody else has it.
LEMMA ReturnKeepsInv ==
    ASSUME Inv, NEW t \in Thread, Return(t)
    PROVE  Inv'
<1> DEFINE h == temporary[t].h
<1>1. /\ pc[t] \in {"executed", "thrown"} /\ cache' = cache
      /\ live' = live \ {h}
      /\ temporary' = [temporary EXCEPT ![t] = NoPlan]
      /\ request' = [request EXCEPT ![t] = None]
      /\ pc' = [pc EXCEPT ![t] = "idle"]
    BY DEF Return
<1>2. /\ temporary'[t].h = 0 /\ pc'[t] = "idle"
      /\ \A u \in Thread : u # t => /\ temporary'[u] = temporary[u]
                                    /\ request'[u] = request[u] /\ pc'[u] = pc[u]
    BY <1>1 DEF Inv, Types, NoPlan
<1>3. 0 \notin live
    BY HandleAssumption DEF Inv, Types
<1>4. Types'
    BY <1>1 DEF Inv, Types, States
<1>5. CallsOwn'
    BY <1>1, <1>2, <1>3 DEF Inv, CallsOwn, CallsDiffer, Late
<1>6. MapsHave'
    BY <1>1, <1>2 DEF Inv, MapsHave, Late
<1>7. MapsOwn'
    BY <1>1 DEF Inv, MapsOwn, CallsAndEntriesDiffer
<1>8. CallsDiffer' /\ EntriesDiffer'
    BY <1>1, <1>2 DEF Inv, CallsDiffer, EntriesDiffer
<1>9. CallsAndEntriesDiffer'
    BY <1>1, <1>2, <1>3 DEF Inv, CallsAndEntriesDiffer, MapsOwn
<1>10. Owned'
    BY <1>1, <1>2 DEF Inv, Owned
<1> QED  BY <1>4, <1>5, <1>6, <1>7, <1>8, <1>9, <1>10 DEF Inv

LEMMA NextInv == Inv /\ [Next]_vars => Inv'
<1> SUFFICES ASSUME Inv, [Next]_vars PROVE Inv'
    OBVIOUS
<1>1. CASE UNCHANGED vars
    BY <1>1 DEF vars, Inv, Types, CallsOwn, MapsHave, MapsOwn, CallsDiffer, EntriesDiffer, CallsAndEntriesDiffer, Owned
<1>2. CASE Next
    <2>1. PICK t \in Thread : Call(t) \/ MakePlan(t) \/ Insert(t) \/ Execute(t) \/ Return(t)
        BY <1>2 DEF Next
    <2> QED  BY <2>1, CallKeepsInv, MakePlanKeepsInv, InsertKeepsInv, ExecuteKeepsInv, ReturnKeepsInv
<1> QED  BY <1>1, <1>2

LEMMA Invariance == Spec => []Inv
BY InitInv, NextInv, PTL DEF Spec

--------------------------------------------------------------------------------
(* Theorems.                                                                  *)

\* Handles are neither lost nor owned twice: a temporary plan, the pair it is
\* moved into and the node of the map hold one after the other (cufft.hpp:98).
THEOREM HandlesHaveOneOwner == Spec => []OneOwner
<1>1. Inv => OneOwner
    <2> SUFFICES ASSUME Inv, NEW h \in Handle
                 PROVE  Cardinality(Owners(h)) = IF h \in live THEN 1 ELSE 0
        BY DEF OneOwner
    <2>0. h # 0
        BY HandleAssumption
    <2>1. \A t \in Thread : temporary[t].h \in live \cup {0}
        BY DEF Inv, Types, States, CallsOwn, Late
    <2>2. CASE h \notin live
        <3>1. Owners(h) = {}
            BY <2>0, <2>1, <2>2 DEF Inv, MapsOwn, Owners
        <3> QED  BY <2>2, <3>1, FS_EmptySet
    <2>3. CASE h \in live
        <3>1. \E o : Owners(h) = {o}
            <4>1. CASE \E t \in Thread : temporary[t].h = h
                <5>1. PICK t \in Thread : temporary[t].h = h
                    BY <4>1
                <5>2. Owners(h) = {<<"call", t>>}
                    BY <2>0, <5>1 DEF Inv, CallsDiffer, CallsAndEntriesDiffer, Owners
                <5> QED  BY <5>2
            <4>2. CASE \E t \in Thread : \E k \in DOMAIN cache[t] : cache[t][k].h = h
                <5>0. PICK t \in Thread : \E k \in DOMAIN cache[t] : cache[t][k].h = h
                    BY <4>2
                <5>1. PICK k \in DOMAIN cache[t] : cache[t][k].h = h
                    BY <5>0
                <5>2. Owners(h) = {<<"map", t, k>>}
                    BY <5>1 DEF Inv, EntriesDiffer, CallsAndEntriesDiffer, Owners
                <5> QED  BY <5>2
            <4> QED  BY <2>3, <4>1, <4>2 DEF Inv, Owned
        <3> QED  BY <2>3, <3>1, FS_Singleton
    <2> QED  BY <2>2, <2>3
<1> QED  BY <1>1, Invariance, PTL

\* Threads execute plans of their own: the map is thread_local, and a plan that
\* is not kept belongs to its call (cufft.hpp:368).
THEOREM PlansAreNotShared == Spec => []NotShared
<1>1. Inv => NotShared
    <2> SUFFICES ASSUME Inv, NEW t \in Thread, NEW u \in Thread, t # u, pc[t] = "execute", pc[u] = "execute"
                 PROVE  Executed(t).h # Executed(u).h
        BY DEF NotShared
    <2>1. \A w \in {t, u} :
              \/ /\ request[w].lib = "fftw" /\ temporary[w].h \in live
                 /\ Executed(w) = temporary[w]
              \/ /\ request[w].lib = "cufft" /\ Key(request[w]) \in DOMAIN cache[w]
                 /\ Executed(w) = cache[w][Key(request[w])]
        BY FoundInOwnMap DEF Inv, CallsOwn, MapsHave, Late, Executed
    <2>2. 0 \notin live
        BY HandleAssumption DEF Inv, Types
    <2> QED  BY <2>1, <2>2 DEF Inv, CallsDiffer, EntriesDiffer, CallsAndEntriesDiffer
<1> QED  BY <1>1, Invariance, PTL

================================================================================
