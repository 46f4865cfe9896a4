------------------------------- MODULE KVStore -------------------------------
(***************************************************************************)
(* What the memory store of a session promises its callers, without slices *)
(* or capacities: a finite map from keys to values in which some entries   *)
(* are immutable, kept here as a set of entries.  Memstore implements it.   *)
(***************************************************************************)

CONSTANTS Key,       \* the keys of the entries
          Value,     \* the values an entry may hold
          EmptyKey,  \* the empty string, the key of a zero Entry
          Nil        \* the nil interface, the value of a zero Entry

VARIABLES kv,   \* the entries of the map
          out   \* what the last call returned

vars == <<kv, out>>

Entry == [key : Key, value : Value, immutable : BOOLEAN]

ZeroEntry == [key |-> EmptyKey, value |-> Nil, immutable |-> FALSE]

\* The entries stored under a key: none or one.
At(k) == {e \in kv : e.key = k}

Init ==
    /\ kv = {}
    /\ out = [entry |-> ZeroEntry, flag |-> FALSE]

\* The key is new: the entry is added and reported as inserted.
Insert(e) ==
    /\ At(e.key) = {}
    /\ kv' = kv \cup {e}
    /\ out' = [entry |-> e, flag |-> TRUE]

\* The key is taken and the entry may be replaced: an immutable entry only by
\* another immutable one.
Replace(e) ==
    /\ \E old \in At(e.key) : old.immutable => e.immutable
    /\ kv' = (kv \ At(e.key)) \cup {e}
    /\ out' = [entry |-> e, flag |-> FALSE]

\* A plain save on an immutable entry leaves it as it is and returns it.
Refuse(e) ==
    /\ ~e.immutable
    /\ \E old \in At(e.key) :
          /\ old.immutable
          /\ out' = [entry |-> old, flag |-> FALSE]
    /\ UNCHANGED kv

Remove(k) ==
    /\ kv' = kv \ At(k)
    /\ out' = [entry |-> ZeroEntry, flag |-> At(k) # {}]

Reset ==
    /\ kv' = {}
    /\ out' = [entry |-> ZeroEntry, flag |-> FALSE]

Lookup(k) ==
    /\ \/ /\ At(k) = {}
          /\ out' = [entry |-> ZeroEntry, flag |-> FALSE]
       \/ \E e \in At(k) : out' = [entry |-> e, flag |-> TRUE]
    /\ UNCHANGED kv

Next ==
    \/ \E e \in Entry : Insert(e) \/ Replace(e) \/ Refuse(e)
    \/ \E k \in Key : Remove(k) \/ Lookup(k)
    \/ Reset

Spec == Init /\ [][Next]_vars
==============================================================================
