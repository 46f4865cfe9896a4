-------------------------------- MODULE Store --------------------------------
(***************************************************************************)
(* A Store of memstore.go as a value: a Go slice of entries, that is a     *)
(* backing array, a length and a capacity.  Slots past the length keep     *)
(* whatever was left there by Remove and Reset, and are handed out again   *)
(* by Save.                                                                *)
(***************************************************************************)
EXTENDS Integers

CONSTANTS Key,       \* the keys of the entries
          Value,     \* the values an entry may hold
          EmptyKey,  \* the empty string, the key of a zero Entry
          Nil,       \* the nil interface, the value of a zero Entry
          Spare      \* unused slots an append that reallocates may leave

ASSUME ConstantsAssumption ==
    /\ EmptyKey \in Key   \* "" is a key like any other
    /\ Nil \in Value      \* and nil a value like any other
    /\ Spare \subseteq Nat
    /\ Spare # {}

Entry == [key : Key, value : Value, immutable : BOOLEAN]

ZeroEntry == [key |-> EmptyKey, value |-> Nil, immutable |-> FALSE]

\* A slice header together with the array it points to.
IsStore(s) ==
    /\ s.cap \in Nat
    /\ s.len \in 0 .. s.cap
    /\ s.arr \in [1 .. s.cap -> Entry]
    /\ s = [arr |-> s.arr, len |-> s.len, cap |-> s.cap]

NilStore == [arr |-> [i \in 1 .. 0 |-> ZeroEntry], len |-> 0, cap |-> 0]

------------------------------------------------------------------------------
\* The slot the linear search stops at, 0 when it runs off the end.
FirstAt(s, k, i) ==
    /\ i \in 1 .. s.len
    /\ s.arr[i].key = k
    /\ \A j \in 1 .. (i - 1) : s.arr[j].key # k

\* Mutant: the search stops one entry short of the end.
IndexOfOffByOne(s, k) ==
    IF \E i \in 1 .. (s.len - 1) : FirstAt(s, k, i)
    THEN CHOOSE i \in 1 .. s.len : FirstAt(s, k, i)
    ELSE 0

IndexOf(s, k) ==
    IF \E i \in 1 .. s.len : FirstAt(s, k, i)
    THEN CHOOSE i \in 1 .. s.len : FirstAt(s, k, i)
    ELSE 0

\* Mutant: Set overwrites an immutable entry.
MayReplaceAny(old, immutable) == TRUE

\* An entry found by Save is overwritten unless it is immutable and the call
\* is a plain Set.
MayReplace(old, immutable) == immutable \/ ~old.immutable

SaveFound(s, i, e) ==
    IF MayReplace(s.arr[i], e.immutable)
    THEN [arr |-> [s.arr EXCEPT ![i] = e], len |-> s.len, cap |-> s.cap]
    ELSE s

\* Mutant: an array that is exactly full is taken for one with room.
SaveNewFull(s, e, spare) ==
    [arr |-> [s.arr EXCEPT ![s.len + 1] = e], len |-> s.len + 1, cap |-> s.cap]

\* A new entry takes the next slot of the array when the capacity allows it.
\* Otherwise append moves the entries to a larger array, whose size Go leaves
\* to the implementation.
SaveNew(s, e, spare) ==
    IF s.cap > s.len
    THEN [arr |-> [s.arr EXCEPT ![s.len + 1] = e], len |-> s.len + 1, cap |-> s.cap]
    ELSE [arr |-> [i \in 1 .. (s.len + 1 + spare) |->
                      IF i <= s.len THEN s.arr[i]
                      ELSE IF i = s.len + 1 THEN e ELSE ZeroEntry],
          len |-> s.len + 1,
          cap |-> s.len + 1 + spare]

\* What Save makes of the slice.
Saved(s, e, spare) ==
    LET i == IndexOf(s, e.key)
    IN IF i # 0 THEN SaveFound(s, i, e) ELSE SaveNew(s, e, spare)

\* Removing shifts the later entries one slot down in the same array, which
\* leaves a second copy of the last one behind the new end.
RemoveAt(s, i) ==
    [arr |-> [j \in 1 .. s.cap |->
                 IF j >= i /\ j < s.len THEN s.arr[j + 1] ELSE s.arr[j]],
     len |-> s.len - 1,
     cap |-> s.cap]

ResetStore(s) == [arr |-> s.arr, len |-> 0, cap |-> s.cap]

\* The entries a Visit walks over: the slots below the length.
Visible(s) == {s.arr[i] : i \in 1 .. s.len}
==============================================================================
