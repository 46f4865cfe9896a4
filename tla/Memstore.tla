------------------------------ MODULE Memstore -------------------------------
(***************************************************************************)
(* The calls on a Store of memstore.go, the key-value storage behind       *)
(* Session.values, on the slice of module Store.                           *)
(***************************************************************************)
EXTENDS Store

VARIABLES store,  \* the slice
          out     \* what the last call returned

vars == <<store, out>>

TypeOK ==
    /\ IsStore(store)
    /\ out \in [entry : Entry, flag : BOOLEAN]

------------------------------------------------------------------------------
Init ==
    /\ store = NilStore
    /\ out = [entry |-> ZeroEntry, flag |-> FALSE]

\* Store.Save, and with it Set (immutable FALSE) and SetImmutable (TRUE).
Save(e) ==
    LET i == IndexOf(store, e.key) IN
    \/ /\ i # 0
       /\ store' = SaveFound(store, i, e)
       /\ out' = [entry |-> store'.arr[i], flag |-> FALSE]
    \/ /\ i = 0
       /\ \E spare \in Spare : store' = SaveNew(store, e, spare)
       /\ out' = [entry |-> e, flag |-> TRUE]

\* Store.Remove: TRUE when an entry is actually removed.
Remove(k) ==
    LET i == IndexOf(store, k) IN
    /\ store' = IF i # 0 THEN RemoveAt(store, i) ELSE store
    /\ out' = [entry |-> ZeroEntry, flag |-> i # 0]

\* Store.Reset keeps the array and its capacity.
Reset ==
    /\ store' = ResetStore(store)
    /\ out' = [entry |-> ZeroEntry, flag |-> FALSE]

\* Entry.Value copies an immutable value by reflection, which panics on nil.
ValuePanics(e) == e.immutable /\ e.value = Nil

\* Store.GetDefault and Get: the found entry, or the caller's default.  A call
\* that panics does not return and changes nothing here.
Get(k) ==
    LET i == IndexOf(store, k) IN
    /\ i # 0 => ~ValuePanics(store.arr[i])
    /\ out' = IF i # 0 THEN [entry |-> store.arr[i], flag |-> TRUE]
              ELSE [entry |-> ZeroEntry, flag |-> FALSE]
    /\ UNCHANGED store

Next ==
    \/ \E e \in Entry : Save(e)
    \/ \E k \in Key : Remove(k)
    \/ \E k \in Key : Get(k)
    \/ Reset

Spec == Init /\ [][Next]_vars

------------------------------------------------------------------------------
\* No key is stored twice.  Remove deletes only the first entry it finds and
\* Get reads only the first, so a duplicate would make a deleted value come
\* back: the search of Save must cover every visible slot and nothing else.
UniqueKeys ==
    \A i, j \in 1 .. store.len :
        store.arr[i].key = store.arr[j].key => i = j

\* The slice implements the map of KVStore: every call changes the visible
\* entries, and answers, as the map does, whatever the array holds past its
\* length and wherever the entries were moved to.
KV == INSTANCE KVStore WITH kv <- Visible(store)

KVSpec == KV!Spec
==============================================================================
