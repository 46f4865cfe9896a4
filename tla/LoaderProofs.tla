---------------------------- MODULE LoaderProofs -----------------------------
(***************************************************************************)
(* Proofs about Loader, for any number of databases: what loadSessionFromDB *)
(* makes of their values and dates.  That `n == firstValidIdx' holds for the *)
(* last database only, and only if all before it were skipped, is a matter *)
(* of counting: firstValidIdx is one more than the number of skipped ones. *)
(***************************************************************************)
EXTENDS Loader, FiniteSetTheorems, TLAPS

\* The counter counts the skipped databases, which were all asked already.
Counted ==
    /\ skipped \subseteq 1 .. (i - 1)
    /\ firstIdx = 1 + Cardinality(skipped)

IInv == TypeOK /\ Counted /\ LastValueWins /\ FirstDateWins

\* The condition under which a Store is taken as it is (provider.go, n ==
\* firstValidIdx): no other database counts.
LEMMA TakenAlone ==
    ASSUME TypeOK, Counted, i <= NDb, NDb = firstIdx
    PROVE  Valid = {}
<1>1. NDb \in Nat /\ i \in Nat /\ i - 1 \in Nat
  BY LoaderAssumption DEF TypeOK
<1>2. IsFiniteSet(1 .. (i - 1)) /\ Cardinality(1 .. (i - 1)) = i - 1
  <2>1. Cardinality(1 .. (i - 1)) = IF 1 > i - 1 THEN 0 ELSE (i - 1) - 1 + 1
    BY <1>1, FS_Interval
  <2> QED BY <1>1, <2>1, FS_Interval
<1>3. /\ Cardinality(skipped) <= i - 1
      /\ Cardinality(skipped) = i - 1 => skipped = 1 .. (i - 1)
  BY <1>2, FS_Subset DEF Counted
<1>4. Cardinality(skipped) \in Nat
  BY <1>2, FS_Subset, FS_CardinalityType DEF Counted
<1>5. Cardinality(skipped) = i - 1
  BY <1>1, <1>3, <1>4 DEF Counted
<1> QED BY <1>3, <1>5 DEF Valid

\* What an Overlay is.
LEMMA OverlayType ==
    ASSUME NEW new \in Maps, NEW old \in Maps
    PROVE  /\ Overlay(new, old) \in Maps
           /\ \A k \in Key : Overlay(new, old)[k] =
                                 IF new[k] # None THEN new[k] ELSE old[k]
BY DEF Overlay, Maps

\* Merge leaves a key with the value of the last database that has it.
LEMMA MergeValues ==
    ASSUME IInv, Merge
    PROVE  LastValueWins'
<1> USE DEF IInv
<1>1. i \in Nat /\ i \in Db /\ NDb \in Nat
  BY LoaderAssumption DEF TypeOK, Merge, Db
<1>2. Valid' = Valid \cup {i} /\ \A e \in Valid : e \in Nat /\ e < i
  BY <1>1 DEF Valid, Merge, TypeOK, Counted
<1>3. dbs' = dbs /\ dbs[i].vals \in Maps /\ store \in Maps
  BY <1>1 DEF Merge, TypeOK
<1> SUFFICES ASSUME NEW k \in Key
             PROVE  \/ store'[k] = None /\ \A d \in Valid' : dbs'[d].vals[k] = None
                    \/ \E d \in Valid' : /\ LastWith(Valid, k, d)'
                                         /\ store'[k] = dbs'[d].vals[k]
  BY DEF LastValueWins
<1>4. CASE dbs[i].vals[k] # None
  <2>1. store'[k] = dbs[i].vals[k]
    BY <1>3, <1>4, OverlayType DEF Merge, TakeValues
  <2>2. PICK j \in Valid' : j = i
    BY <1>2
  <2>3. LastWith(Valid, k, j)'
    BY <1>1, <1>2, <1>3, <1>4, <2>2 DEF LastWith
  <2> QED BY <1>3, <2>1, <2>2, <2>3
<1>5. CASE dbs[i].vals[k] = None
  <2>1. CASE NDb = firstIdx
    <3>1. Valid' = {i}
      BY <1>2, <2>1, TakenAlone DEF Merge
    <3> QED BY <1>3, <1>5, <2>1, <3>1 DEF Merge, TakeValues
  <2>2. CASE NDb # firstIdx
    <3>1. store'[k] = store[k]
      BY <1>3, <1>5, <2>2, OverlayType DEF Merge, TakeValues
    <3>2. CASE store[k] = None /\ \A d \in Valid : dbs[d].vals[k] = None
      BY <1>2, <1>3, <1>5, <3>1, <3>2
    <3>3. CASE \E d \in Valid : LastWith(Valid, k, d) /\ store[k] = dbs[d].vals[k]
      <4>1. PICK d \in Valid : LastWith(Valid, k, d) /\ store[k] = dbs[d].vals[k]
        BY <3>3
      <4>2. LastWith(Valid, k, d)'
        BY <1>2, <1>3, <1>5, <4>1 DEF LastWith
      <4> QED BY <1>2, <1>3, <3>1, <4>1, <4>2
    <3> QED BY <3>2, <3>3 DEF LastValueWins
  <2> QED BY <2>1, <2>2
<1> QED BY <1>4, <1>5

\* Merge leaves the first date that is not zero.
LEMMA MergeDate ==
    ASSUME IInv, Merge
    PROVE  FirstDateWins'
<1> USE DEF IInv
<1>1. i \in Nat /\ i \in Db /\ NDb \in Nat
  BY LoaderAssumption DEF TypeOK, Merge, Db
<1>2. Valid' = Valid \cup {i} /\ \A e \in Valid : e \in Nat /\ e < i
  BY <1>1 DEF Valid, Merge, TypeOK, Counted
<1>3. dbs' = dbs /\ lifetime' = IF lifetime = 0 THEN dbs[i].date ELSE lifetime
  BY DEF Merge, FirstDate
<1>4. CASE lifetime = 0
  <2>1. \A d \in Valid : dbs[d].date = 0
    BY <1>4 DEF FirstDateWins
  <2>2. CASE dbs[i].date = 0
    BY <1>2, <1>3, <1>4, <2>1, <2>2 DEF FirstDateWins
  <2>3. CASE dbs[i].date # 0
    BY <1>1, <1>2, <1>3, <1>4, <2>1, <2>3 DEF FirstDateWins
  <2> QED BY <2>2, <2>3
<1>5. CASE lifetime # 0
  <2>1. PICK d \in Valid : /\ lifetime = dbs[d].date
                           /\ \A e \in Valid : e < d => dbs[e].date = 0
    BY <1>5 DEF FirstDateWins
  <2>2. \A e \in Valid' : e < d => dbs'[e].date = 0
    BY <1>1, <1>2, <1>3, <2>1
  <2> QED BY <1>2, <1>3, <1>5, <2>1, <2>2 DEF FirstDateWins
<1> QED BY <1>4, <1>5

\* Every step of loadSessionFromDB keeps the invariant.
LEMMA Inductive ==
    ASSUME IInv, [Next]_vars
    PROVE  IInv'
<1> USE DEF IInv
<1>0. NDb \in Nat /\ i \in Nat /\ 1 <= i
  BY LoaderAssumption DEF TypeOK
<1>1. CASE SkipExpired
  <2>1. TypeOK'
    BY <1>0, <1>1 DEF TypeOK, SkipExpired, Db
  <2>2. Counted'
    <3>0. IsFiniteSet(1 .. (i - 1))
      <4>1. 1 \in Int /\ i - 1 \in Int BY <1>0
      <4> QED BY <4>1, FS_Interval
    <3>1. IsFiniteSet(skipped)
      BY <3>0, FS_Subset DEF Counted
    <3>2. i \notin skipped
      BY <1>0 DEF Counted
    <3>3. Cardinality(skipped \cup {i}) = Cardinality(skipped) + 1
      BY <3>1, <3>2, FS_AddElement
    <3>4. Cardinality(skipped) \in Nat
      BY <3>1, FS_CardinalityType
    <3> QED BY <1>0, <1>1, <3>3, <3>4 DEF SkipExpired, Counted
  <2>3. Valid' = Valid /\ UNCHANGED <<dbs, store, lifetime>>
    BY <1>0, <1>1 DEF SkipExpired, Valid, Counted
  <2> QED BY <2>1, <2>2, <2>3 DEF LastValueWins, FirstDateWins, LastWith
<1>2. CASE Merge
  <2>1. TypeOK'
    <3>1. i \in Db /\ dbs[i].vals \in Maps /\ dbs[i].date \in Nat
      BY <1>0, <1>2 DEF Merge, TypeOK, Db
    <3>2. store' \in Maps
      BY <1>2, <3>1, OverlayType DEF Merge, TakeValues, TypeOK
    <3>3. lifetime' \in Nat
      BY <1>2, <3>1 DEF Merge, FirstDate, TypeOK
    <3> QED BY <1>0, <1>2, <3>2, <3>3 DEF Merge, TypeOK
  <2>2. Counted'
    BY <1>0, <1>2 DEF Merge, Counted
  <2> QED BY <1>2, <2>1, <2>2, MergeValues, MergeDate
<1>3. CASE Tick
  <2>1. TypeOK'
    BY <1>3 DEF Tick, TypeOK
  <2> QED BY <1>3, <2>1
          DEF Tick, Counted, LastValueWins, FirstDateWins, Valid, LastWith
<1>4. CASE UNCHANGED vars
  BY <1>4 DEF vars, TypeOK, Counted, LastValueWins, FirstDateWins, Valid, LastWith
<1> QED BY <1>1, <1>2, <1>3, <1>4 DEF Next, Done

\* Before the first database is asked the invariant holds.
LEMMA Initial ==
    ASSUME Init
    PROVE  IInv
<1>1. TypeOK
  <2>1. dbs \in [Db -> [vals : Maps, date : Nat]]
    <3>1. [vals : Maps, date : Dates] \subseteq [vals : Maps, date : Nat]
      BY LoaderAssumption
    <3> HIDE DEF Maps
    <3> QED BY <3>1 DEF Init
  <2>2. i \in 1 .. (NDb + 1)
    BY LoaderAssumption DEF Init
  <2>3. store \in Maps
    BY DEF Init, NoValues, Maps
  <2> QED BY <2>1, <2>2, <2>3 DEF Init, TypeOK
<1>2. Counted
  BY FS_EmptySet DEF Init, Counted
<1>3. Valid = {}
  BY DEF Init, Valid
<1>4. LastValueWins
  BY <1>3 DEF Init, LastValueWins, NoValues
<1>5. FirstDateWins
  BY <1>3 DEF Init, FirstDateWins
<1> QED BY <1>1, <1>2, <1>4, <1>5 DEF IInv

\* loadSessionFromDB keeps its variables well formed.
THEOREM TypeCorrect == Spec => []TypeOK
<1>1. IInv => TypeOK BY DEF IInv
<1> QED BY <1>1, Initial, Inductive, PTL DEF Spec

\* Whatever the number of databases and whichever expire meanwhile, a key gets
\* the value of the last valid database that has it, and no key is lost.
THEOREM ValuesMerged == Spec => []LastValueWins
<1>1. IInv => LastValueWins BY DEF IInv
<1> QED BY <1>1, Initial, Inductive, PTL DEF Spec

\* The session gets the date of the first valid database that has one.
THEOREM DateMerged == Spec => []FirstDateWins
<1>1. IInv => FirstDateWins BY DEF IInv
<1> QED BY <1>1, Initial, Inductive, PTL DEF Spec
==============================================================================
