--------------------------- MODULE MemstoreProofs ----------------------------
(***************************************************************************)
(* The store of a session keeps every key once and implements the map of   *)
(* KVStore, for every set of keys and values and every growth of the array. *)
(***************************************************************************)
EXTENDS Memstore, TLAPS

\* UniqueKeys of an arbitrary slice.
Unique(s) ==
    \A i, j \in 1 .. s.len : s.arr[i].key = s.arr[j].key => i = j

\* The inductive invariant: the slice is well formed, the last answer has its
\* type and no key is stored twice.
IInv == TypeOK /\ UniqueKeys

\* What the linear search returns on a slice without duplicates: the slot of
\* the key, or 0 when no visible entry has it.
LEMMA IndexOfSearch ==
    ASSUME NEW s, IsStore(s), Unique(s), NEW k \in Key
    PROVE  \/ /\ IndexOf(s, k) \in 1 .. s.len
              /\ s.arr[IndexOf(s, k)].key = k
              /\ \A j \in 1 .. s.len : s.arr[j].key = k => j = IndexOf(s, k)
           \/ /\ IndexOf(s, k) = 0
              /\ \A j \in 1 .. s.len : s.arr[j].key # k
<1>1. CASE \E i \in 1 .. s.len : s.arr[i].key = k
  <2>1. PICK i \in 1 .. s.len : s.arr[i].key = k
    BY <1>1
  <2>2. FirstAt(s, k, i)
    BY <2>1 DEF FirstAt, Unique, IsStore
  <2>3. /\ IndexOf(s, k) \in 1 .. s.len
        /\ FirstAt(s, k, IndexOf(s, k))
    BY <2>2 DEF IndexOf
  <2>4. QED
    BY <2>3 DEF FirstAt, Unique
<1>2. CASE ~ \E i \in 1 .. s.len : s.arr[i].key = k
  BY <1>2 DEF IndexOf, FirstAt
<1>3. QED
  BY <1>1, <1>2

\* Overwriting the slot of a key keeps the slice well formed and its keys.
LEMMA SaveFoundStore ==
    ASSUME NEW s, IsStore(s), Unique(s), NEW e \in Entry,
           NEW i \in 1 .. s.len, s.arr[i].key = e.key
    PROVE  /\ IsStore(SaveFound(s, i, e))
           /\ Unique(SaveFound(s, i, e))
           /\ SaveFound(s, i, e).arr[i] \in Entry
<1>1. CASE MayReplace(s.arr[i], e.immutable)
  <2> DEFINE t == SaveFound(s, i, e)
  <2>1. t = [arr |-> [s.arr EXCEPT ![i] = e], len |-> s.len, cap |-> s.cap]
    BY <1>1 DEF SaveFound
  <2>2. IsStore(t) /\ t.arr[i] = e
    BY <2>1 DEF IsStore
  <2>3. \A j \in 1 .. s.len : t.arr[j].key = s.arr[j].key
    BY <2>1 DEF IsStore
  <2>4. Unique(t)
    BY <2>1, <2>3 DEF Unique
  <2>5. QED
    BY <2>2, <2>4
<1>2. CASE ~MayReplace(s.arr[i], e.immutable)
  BY <1>2 DEF SaveFound, IsStore
<1>3. QED
  BY <1>1, <1>2

\* Adding an entry whose key is not visible keeps both.
LEMMA SaveNewStore ==
    ASSUME NEW s, IsStore(s), Unique(s), NEW e \in Entry,
           \A j \in 1 .. s.len : s.arr[j].key # e.key, NEW spare \in Nat
    PROVE  /\ IsStore(SaveNew(s, e, spare))
           /\ Unique(SaveNew(s, e, spare))
<1>1. CASE s.cap > s.len
  BY <1>1 DEF SaveNew, IsStore, Unique, Entry
<1>2. CASE ~(s.cap > s.len)
  <2>1. ZeroEntry \in Entry
    BY ConstantsAssumption DEF ZeroEntry, Entry
  <2>2. QED
    BY <1>2, <2>1 DEF SaveNew, IsStore, Unique
<1>3. QED
  BY <1>1, <1>2

\* Shifting the later entries down keeps both.
LEMMA RemoveAtStore ==
    ASSUME NEW s, IsStore(s), Unique(s), NEW i \in 1 .. s.len
    PROVE  /\ IsStore(RemoveAt(s, i))
           /\ Unique(RemoveAt(s, i))
<1> DEFINE t == RemoveAt(s, i)
<1>1. /\ t.len = s.len - 1
      /\ t.cap = s.cap
      /\ t = [arr |-> t.arr, len |-> t.len, cap |-> t.cap]
      /\ t.arr = [j \in 1 .. s.cap |->
                    IF j >= i /\ j < s.len THEN s.arr[j + 1] ELSE s.arr[j]]
  BY DEF RemoveAt
<1> HIDE DEF t
<1>2. t.arr \in [1 .. s.cap -> Entry]
  BY <1>1 DEF IsStore
<1>3. IsStore(t)
  BY <1>1, <1>2 DEF IsStore
<1>4. \A j \in 1 .. t.len :
         t.arr[j] = IF j >= i THEN s.arr[j + 1] ELSE s.arr[j]
  BY <1>1 DEF IsStore
<1>5. Unique(t)
  <2> DEFINE Was(j) == IF j >= i THEN j + 1 ELSE j
  <2>1. \A j \in 1 .. t.len : Was(j) \in 1 .. s.len /\ t.arr[j] = s.arr[Was(j)]
    BY <1>1, <1>4 DEF IsStore
  <2>2. \A a, b \in 1 .. t.len : Was(a) = Was(b) => a = b
    BY <1>1 DEF IsStore
  <2> HIDE DEF Was
  <2>3. QED
    BY <2>1, <2>2 DEF Unique
<1>6. QED
  BY <1>3, <1>5 DEF t

LEMMA ResetStoreStore ==
    ASSUME NEW s, IsStore(s)
    PROVE  /\ IsStore(ResetStore(s))
           /\ Unique(ResetStore(s))
BY DEF ResetStore, IsStore, Unique

LEMMA InvInit == Init => IInv
<1>1. ZeroEntry \in Entry
  BY ConstantsAssumption DEF ZeroEntry, Entry
<1>2. IsStore(NilStore) /\ Unique(NilStore)
  BY DEF IsStore, NilStore, Unique
<1>3. QED
  BY <1>1, <1>2 DEF Init, IInv, TypeOK, UniqueKeys, Unique

LEMMA InvNext == IInv /\ [Next]_vars => IInv'
<1> SUFFICES ASSUME IInv, [Next]_vars PROVE IInv'
  OBVIOUS
<1>0. ZeroEntry \in Entry
  BY ConstantsAssumption DEF ZeroEntry, Entry
<1>s. IsStore(store) /\ Unique(store)
  BY DEF IInv, TypeOK, UniqueKeys, Unique
<1>g. ASSUME IsStore(store'), Unique(store'), out' \in [entry : Entry, flag : BOOLEAN]
      PROVE  IInv'
  BY <1>g DEF IInv, TypeOK, UniqueKeys, Unique, IsStore
<1>1. ASSUME NEW e \in Entry, Save(e) PROVE IInv'
  <2> DEFINE i == IndexOf(store, e.key)
  <2>0. e.key \in Key
    BY DEF Entry
  <2>1. CASE i # 0
    <3>1. i \in 1 .. store.len /\ store.arr[i].key = e.key
      BY <2>0, <2>1, <1>s, IndexOfSearch
    <3>2. /\ store' = SaveFound(store, i, e)
          /\ out' = [entry |-> store'.arr[i], flag |-> FALSE]
      BY <1>1, <2>1 DEF Save
    <3> HIDE DEF i
    <3>3. QED
      BY <3>1, <3>2, <1>s, <1>g, SaveFoundStore
  <2>2. CASE i = 0
    <3>1. \A j \in 1 .. store.len : store.arr[j].key # e.key
      BY <2>0, <2>2, <1>s, IndexOfSearch
    <3>2. PICK spare \in Spare : store' = SaveNew(store, e, spare)
      BY <1>1, <2>2 DEF Save
    <3>3. out' = [entry |-> e, flag |-> TRUE]
      BY <1>1, <2>2 DEF Save
    <3>4. spare \in Nat
      BY ConstantsAssumption
    <3>5. QED
      BY <3>1, <3>2, <3>3, <3>4, <1>s, <1>g, SaveNewStore
  <2>3. QED
    BY <2>1, <2>2
<1>2. ASSUME NEW k \in Key, Remove(k) PROVE IInv'
  <2> DEFINE i == IndexOf(store, k)
  <2>1. CASE i # 0
    <3>1. i \in 1 .. store.len
      BY <2>1, <1>s, IndexOfSearch
    <3>2. store' = RemoveAt(store, i) /\ out' = [entry |-> ZeroEntry, flag |-> TRUE]
      BY <1>2, <2>1 DEF Remove
    <3> HIDE DEF i
    <3>3. QED
      BY <3>1, <3>2, <1>0, <1>s, <1>g, RemoveAtStore
  <2>2. CASE i = 0
    BY <2>2, <1>2, <1>0, <1>s, <1>g DEF Remove
  <2>3. QED
    BY <2>1, <2>2
<1>3. ASSUME NEW k \in Key, Get(k) PROVE IInv'
  <2>1. store' = store
    BY <1>3 DEF Get
  <2>2. IndexOf(store, k) # 0 => store.arr[IndexOf(store, k)] \in Entry
    BY <1>s, IndexOfSearch DEF IsStore
  <2>3. QED
    BY <2>1, <2>2, <1>3, <1>0, <1>s, <1>g DEF Get
<1>4. CASE Reset
  BY <1>4, <1>0, <1>s, <1>g, ResetStoreStore DEF Reset
<1>5. CASE UNCHANGED vars
  BY <1>5 DEF vars, IInv, TypeOK, UniqueKeys, IsStore
<1>6. QED
  BY <1>1, <1>2, <1>3, <1>4, <1>5 DEF Next

\* The store is always a well-formed slice: Save never writes past the
\* capacity and Remove never shortens an empty store.
THEOREM TypeCorrect == Spec => []TypeOK
<1>1. IInv => TypeOK
  BY DEF IInv
<1>2. QED
  BY <1>1, InvInit, InvNext, PTL DEF Spec

\* No sequence of Set, SetImmutable, Remove and Reset stores a key twice.
THEOREM KeysUnique == Spec => []UniqueKeys
<1>1. IInv => UniqueKeys
  BY DEF IInv
<1>2. QED
  BY <1>1, InvInit, InvNext, PTL DEF Spec

------------------------------------------------------------------------------
\* The visible entries with a given key, KVStore's At under the mapping.
Under(s, k) == {e \in Visible(s) : e.key = k}

\* The search finds the one visible entry of a key, or there is none.
LEMMA UnderSearch ==
    ASSUME NEW s, IsStore(s), Unique(s), NEW k \in Key
    PROVE  \/ /\ IndexOf(s, k) # 0
              /\ Under(s, k) = {s.arr[IndexOf(s, k)]}
           \/ /\ IndexOf(s, k) = 0
              /\ Under(s, k) = {}
<1>1. CASE IndexOf(s, k) # 0
  <2>1. /\ IndexOf(s, k) \in 1 .. s.len
        /\ s.arr[IndexOf(s, k)].key = k
        /\ \A j \in 1 .. s.len : s.arr[j].key = k => j = IndexOf(s, k)
    BY <1>1, IndexOfSearch
  <2>2. QED
    BY <1>1, <2>1 DEF Under, Visible
<1>2. CASE IndexOf(s, k) = 0
  BY <1>2, IndexOfSearch DEF Under, Visible
<1>3. QED
  BY <1>1, <1>2

\* Overwriting a slot replaces exactly the entry of its key.
LEMMA SaveFoundVisible ==
    ASSUME NEW s, IsStore(s), Unique(s), NEW e \in Entry,
           NEW i \in 1 .. s.len, s.arr[i].key = e.key,
           MayReplace(s.arr[i], e.immutable)
    PROVE  /\ Visible(SaveFound(s, i, e)) = (Visible(s) \ Under(s, e.key)) \cup {e}
           /\ SaveFound(s, i, e).arr[i] = e
<1> DEFINE t == SaveFound(s, i, e)
<1>1. t = [arr |-> [s.arr EXCEPT ![i] = e], len |-> s.len, cap |-> s.cap]
  BY DEF SaveFound
<1>2. /\ t.len = s.len
      /\ t.arr[i] = e
      /\ \A j \in 1 .. s.len : j # i => t.arr[j] = s.arr[j]
  BY <1>1 DEF IsStore
<1>3. \A j \in 1 .. s.len : s.arr[j].key = e.key => j = i
  BY DEF Unique
<1> HIDE DEF t
<1>4. QED
  BY <1>2, <1>3 DEF Visible, Under, t

\* Adding an entry makes exactly that entry visible, reallocated or not.
LEMMA SaveNewVisible ==
    ASSUME NEW s, IsStore(s), NEW e \in Entry, NEW spare \in Nat
    PROVE  Visible(SaveNew(s, e, spare)) = Visible(s) \cup {e}
<1> DEFINE t == SaveNew(s, e, spare)
<1>1. /\ t.len = s.len + 1
      /\ t.arr[s.len + 1] = e
      /\ \A j \in 1 .. s.len : t.arr[j] = s.arr[j]
  BY DEF SaveNew, IsStore
<1>2. /\ s.len \in Nat
      /\ \A j \in 1 .. t.len : j = s.len + 1 \/ j \in 1 .. s.len
  BY <1>1 DEF IsStore
<1> HIDE DEF t
<1>3. QED
  BY <1>1, <1>2 DEF Visible, t

\* Removing a slot hides exactly its entry.
LEMMA RemoveAtVisible ==
    ASSUME NEW s, IsStore(s), Unique(s), NEW i \in 1 .. s.len
    PROVE  Visible(RemoveAt(s, i)) = Visible(s) \ Under(s, s.arr[i].key)
<1> DEFINE t == RemoveAt(s, i)
<1>1. /\ t.len = s.len - 1
      /\ s.len \in Nat
      /\ \A j \in 1 .. t.len : t.arr[j] = IF j >= i THEN s.arr[j + 1] ELSE s.arr[j]
  BY DEF RemoveAt, IsStore
<1> HIDE DEF t
<1>2. ASSUME NEW x \in Visible(t) PROVE x \in Visible(s) /\ x.key # s.arr[i].key
  <2>1. PICK j \in 1 .. t.len : x = t.arr[j]
    BY <1>2 DEF Visible
  <2>2. PICK m \in 1 .. s.len : m # i /\ x = s.arr[m]
    BY <1>1, <2>1
  <2>3. QED
    BY <2>2 DEF Visible, Unique
<1>3. ASSUME NEW x \in Visible(s), x.key # s.arr[i].key PROVE x \in Visible(t)
  <2>1. PICK m \in 1 .. s.len : x = s.arr[m]
    BY DEF Visible
  <2>2. m # i
    BY <1>3, <2>1
  <2>3. PICK j \in 1 .. t.len : x = t.arr[j]
    <3>1. CASE m < i
      BY <3>1, <2>1, <1>1
    <3>2. CASE m > i
      <4>1. m - 1 \in 1 .. t.len /\ t.arr[m - 1] = s.arr[m]
        BY <3>2, <1>1
      <4>2. QED
        BY <4>1, <2>1
    <3>3. QED
      BY <2>2, <3>1, <3>2
  <2>4. QED
    BY <2>3 DEF Visible
<1>4. QED
  BY <1>2, <1>3 DEF Under, t

\* Each step of the slice is a step of the map, or leaves it unchanged.
LEMMA StepSimulation == IInv /\ [Next]_vars => [KV!Next]_(KV!vars)
<1> SUFFICES ASSUME IInv, [Next]_vars PROVE [KV!Next]_(KV!vars)
  OBVIOUS
<1>s. IsStore(store) /\ Unique(store)
  BY DEF IInv, TypeOK, UniqueKeys, Unique
<1>a. \A k : KV!At(k) = Under(store, k)
  BY DEF KV!At, Under
<1>e. KV!Entry = Entry /\ KV!ZeroEntry = ZeroEntry
  BY DEF KV!Entry, Entry, KV!ZeroEntry, ZeroEntry
<1>1. ASSUME NEW e \in Entry, Save(e) PROVE KV!Next
  <2> DEFINE i == IndexOf(store, e.key)
  <2>0. e.key \in Key
    BY DEF Entry
  <2>1. CASE i # 0
    <3>1. /\ i \in 1 .. store.len
          /\ store.arr[i].key = e.key
          /\ Under(store, e.key) = {store.arr[i]}
      BY <2>0, <2>1, <1>s, IndexOfSearch, UnderSearch
    <3>2. /\ store' = SaveFound(store, i, e)
          /\ out' = [entry |-> store'.arr[i], flag |-> FALSE]
      BY <1>1, <2>1 DEF Save
    <3> HIDE DEF i
    <3>3. CASE MayReplace(store.arr[i], e.immutable)
      <4>1. /\ Visible(store') = (Visible(store) \ Under(store, e.key)) \cup {e}
            /\ store'.arr[i] = e
        BY <3>1, <3>2, <3>3, <1>s, SaveFoundVisible
      <4>2. KV!Replace(e)
        BY <4>1, <3>1, <3>2, <3>3, <1>a DEF KV!Replace, MayReplace
      <4>3. QED
        BY <4>2, <1>e DEF KV!Next
    <3>4. CASE ~MayReplace(store.arr[i], e.immutable)
      <4>1. store' = store /\ store.arr[i].immutable /\ ~e.immutable
        BY <3>2, <3>4 DEF SaveFound, MayReplace
      <4>2. KV!Refuse(e)
        BY <4>1, <3>1, <3>2, <1>a DEF KV!Refuse
      <4>3. QED
        BY <4>2, <1>e DEF KV!Next
    <3>5. QED
      BY <3>3, <3>4
  <2>2. CASE i = 0
    <3>1. Under(store, e.key) = {}
      BY <2>0, <2>2, <1>s, UnderSearch
    <3>2. PICK spare \in Spare : store' = SaveNew(store, e, spare)
      BY <1>1, <2>2 DEF Save
    <3>3. Visible(store') = Visible(store) \cup {e}
      BY <3>2, <1>s, SaveNewVisible, ConstantsAssumption
    <3>4. out' = [entry |-> e, flag |-> TRUE]
      BY <1>1, <2>2 DEF Save
    <3>5. KV!Insert(e)
      BY <3>1, <3>3, <3>4, <1>a DEF KV!Insert
    <3>6. QED
      BY <3>5, <1>e DEF KV!Next
  <2>3. QED
    BY <2>1, <2>2
<1>2. ASSUME NEW k \in Key, Remove(k) PROVE KV!Next
  <2> DEFINE i == IndexOf(store, k)
  <2>1. CASE i # 0
    <3>1. /\ i \in 1 .. store.len
          /\ store.arr[i].key = k
          /\ Under(store, k) = {store.arr[i]}
      BY <2>1, <1>s, IndexOfSearch, UnderSearch
    <3>2. store' = RemoveAt(store, i) /\ out' = [entry |-> ZeroEntry, flag |-> TRUE]
      BY <1>2, <2>1 DEF Remove
    <3> HIDE DEF i
    <3>3. Visible(store') = Visible(store) \ Under(store, k)
      BY <3>1, <3>2, <1>s, RemoveAtVisible
    <3>4. KV!Remove(k)
      BY <3>1, <3>2, <3>3, <1>a, <1>e DEF KV!Remove
    <3>5. QED
      BY <3>4 DEF KV!Next
  <2>2. CASE i = 0
    <3>1. Under(store, k) = {}
      BY <2>2, <1>s, UnderSearch
    <3>2. store' = store /\ out' = [entry |-> ZeroEntry, flag |-> FALSE]
      BY <1>2, <2>2 DEF Remove
    <3>3. KV!Remove(k)
      BY <3>1, <3>2, <1>a, <1>e DEF KV!Remove
    <3>4. QED
      BY <3>3 DEF KV!Next
  <2>3. QED
    BY <2>1, <2>2
<1>3. ASSUME NEW k \in Key, Get(k) PROVE KV!Next
  <2>1. store' = store
    BY <1>3 DEF Get
  <2>2. KV!Lookup(k)
    BY <2>1, <1>3, <1>s, <1>a, <1>e, UnderSearch DEF Get, KV!Lookup
  <2>3. QED
    BY <2>2 DEF KV!Next
<1>4. ASSUME Reset PROVE KV!Next
  <2>1. Visible(store') = {}
    BY <1>4 DEF Reset, ResetStore, Visible
  <2>2. KV!Reset
    BY <2>1, <1>4, <1>e DEF Reset, KV!Reset
  <2>3. QED
    BY <2>2 DEF KV!Next
<1>5. CASE UNCHANGED vars
  BY <1>5 DEF vars, KV!vars
<1>6. QED
  BY <1>1, <1>2, <1>3, <1>4, <1>5 DEF Next

\* The store of memstore.go implements the map its callers rely on: what Get,
\* Set, SetImmutable, Remove and Reset do and return depends only on the
\* entries saved, never on slots left over in the array or on reallocation.
THEOREM StoreImplementsMap == Spec => KVSpec
<1>1. Init => KV!Init
  BY DEF Init, NilStore, KV!Init, Visible, KV!ZeroEntry, ZeroEntry
<1>2. QED
  BY <1>1, InvInit, InvNext, StepSimulation, PTL DEF Spec, KVSpec, KV!Spec
==============================================================================
