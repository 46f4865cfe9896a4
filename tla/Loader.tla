------------------------------- MODULE Loader --------------------------------
(***************************************************************************)
(* loadSessionFromDB of provider.go: the databases are asked one after the *)
(* other, without a lock, for the session of an id, and what they return   *)
(* is merged into the values and the date of the new session.  A Store is  *)
(* the map that KVStore makes of it; None is a key that is not there.      *)
(***************************************************************************)
EXTENDS LifeTime, FiniteSets

CONSTANTS NDb,      \* how many databases are registered
          Key, Value, None,
          Dates,    \* the dates that may be stored; 0 is the zero time
          MaxTime   \* bound on the clock

ASSUME LoaderAssumption ==
    /\ NDb \in Nat \ {0}
    /\ None \notin Value
    /\ Dates \subseteq Nat
    /\ MaxTime \in Nat

Db == 1 .. NDb

Maps == [Key -> Value \cup {None}]
NoValues == [k \in Key |-> None]

VARIABLES dbs,       \* what Load of each database returns
          now,       \* the clock
          i,         \* the database that is asked next
          firstIdx,  \* firstValidIdx
          store,     \* the values so far
          lifetime,  \* the date so far
          skipped    \* history: the databases that were found expired

vars == <<dbs, now, i, firstIdx, store, lifetime, skipped>>

TypeOK ==
    /\ dbs \in [Db -> [vals : Maps, date : Nat]]
    /\ now \in Nat
    /\ i \in 1 .. (NDb + 1)
    /\ firstIdx \in Nat
    /\ store \in Maps
    /\ lifetime \in Nat
    /\ skipped \in SUBSET Db

Init ==
    /\ dbs \in [Db -> [vals : Maps, date : Dates]]
    /\ now = 1
    /\ i = 1
    /\ firstIdx = 1
    /\ store = NoValues
    /\ lifetime = 0
    /\ skipped = {}

\* Visit of one Store with Set of another.
Overlay(new, old) == [k \in Key |-> IF new[k] # None THEN new[k] ELSE old[k]]

\* Mutant: an expired database's empty Store is taken over as nil.
SkipExpiredNil ==
    /\ i <= NDb
    /\ HasExpired(dbs[i].date, now)
    /\ firstIdx' = firstIdx + 1
    /\ skipped' = skipped \cup {i}
    /\ i' = i + 1
    /\ store' = None
    /\ UNCHANGED <<dbs, now, lifetime>>

\* An expired database is skipped.
SkipExpired ==
    /\ i <= NDb
    /\ HasExpired(dbs[i].date, now)
    /\ firstIdx' = firstIdx + 1
    /\ skipped' = skipped \cup {i}
    /\ i' = i + 1
    /\ UNCHANGED <<dbs, now, store, lifetime>>

\* Mutant: every database sets the date.
LaterDate(d) == IF dbs[d].date # 0 THEN dbs[d].date ELSE lifetime

\* The first date that is not zero stays.
FirstDate(d) == IF lifetime = 0 THEN dbs[d].date ELSE lifetime

\* Mutant: the condition of the two branches is turned round.
TakeValuesSwapped(d) ==
    IF NDb # firstIdx THEN dbs[d].vals ELSE Overlay(dbs[d].vals, store)

\* A single valid database's Store is taken as it is, others are added.
TakeValues(d) ==
    IF NDb = firstIdx THEN dbs[d].vals ELSE Overlay(dbs[d].vals, store)

Merge ==
    /\ i <= NDb
    /\ ~HasExpired(dbs[i].date, now)
    /\ lifetime' = FirstDate(i)
    /\ store' = TakeValues(i)
    /\ i' = i + 1
    /\ UNCHANGED <<dbs, now, firstIdx, skipped>>

\* Time passes between two databases.
Tick ==
    /\ i <= NDb
    /\ now < MaxTime
    /\ now' = now + 1
    /\ UNCHANGED <<dbs, i, firstIdx, store, lifetime, skipped>>

\* newSession goes on with the values and the date.
Done == i > NDb /\ UNCHANGED vars

Next == SkipExpired \/ Merge \/ Tick \/ Done

Spec == Init /\ [][Next]_vars

------------------------------------------------------------------------------
\* The databases asked so far whose data count.
Valid == (1 .. (i - 1)) \ skipped

\* d is the last of the databases D in which key k is stored.
LastWith(D, k, d) ==
    /\ d \in D
    /\ dbs[d].vals[k] # None
    /\ \A e \in D : dbs[e].vals[k] # None => e <= d

\* Whichever databases are expired, empty or partly filled, and whenever they
\* expire, a key gets the value of the last valid database that has it and no
\* key is lost: taking one Store as it is never drops what others returned.
\* The comment of Database says otherwise, see FirstLoadUsed.
LastValueWins ==
    \A k \in Key :
        \/ store[k] = None /\ \A d \in Valid : dbs[d].vals[k] = None
        \/ \E d \in Valid : LastWith(Valid, k, d) /\ store[k] = dbs[d].vals[k]

\* The session gets the date of the first valid database that has one, also
\* when its values come from another, and none only if none of them has one.
FirstDateWins ==
    \/ lifetime = 0 /\ \A d \in Valid : dbs[d].date = 0
    \/ \E d \in Valid : /\ lifetime # 0 /\ lifetime = dbs[d].date
                        /\ \A e \in Valid : e < d => dbs[e].date = 0

------------------------------------------------------------------------------
(* What a comment of the code promises and the code does not keep.         *)

\* "you can register more than one session database but the first non-empty Load
\* return data will be used as the session values": once all databases are asked
\* the values are those of the first valid one that has any.
FirstLoadUsed ==
    i > NDb => \A d \in Valid :
        /\ dbs[d].vals # NoValues
        /\ \A e \in Valid : e < d => dbs[e].vals = NoValues
        => store = dbs[d].vals
==============================================================================
