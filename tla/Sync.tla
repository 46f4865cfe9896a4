-------------------------------- MODULE Sync ---------------------------------
(***************************************************************************)
(* The values of one session on their way to the databases: Set, Delete    *)
(* and Clear of session.go change them under the session's mutex, unlock,  *)
(* and then hand a SyncPayload to every database (database.go), in turn or  *)
(* in goroutines of their own.  The payload holds the slice of the session *)
(* itself, so a database serializes an array that other requests may be    *)
(* changing.  Destroy sends a payload that removes what is stored.         *)
(*                                                                         *)
(* A word of the array that is written while it is being read is seen old  *)
(* or new; the copy of a slice header is one step.  A stored session is    *)
(* the sequence of its keys and values: gob leaves the immutable flag out. *)
(* The file database truncates its file and then writes it; the others put *)
(* the bytes in one step.                                                  *)
(***************************************************************************)
EXTENDS Store, Sequences

CONSTANTS Proc,        \* goroutines that use the session
          NDb,         \* how many databases are registered
          Files,       \* those that keep a session in a file
          None,
          Junk,        \* an empty file, or bytes that do not decode
          Flags,       \* the immutable flags that set is called with
          MaxOps       \* bound on the calls

ASSUME SyncAssumption ==
    /\ NDb \in Nat \ {0}
    /\ Files \subseteq 1 .. NDb
    /\ None \notin Value \cup Seq([key : Key, value : Value])
    /\ Junk \notin {None} \cup Seq([key : Key, value : Value])
    /\ Flags \subseteq BOOLEAN
    /\ MaxOps \in Nat

Db == 1 .. NDb

VARIABLES sess,      \* is there a session, and is it still registered
          values,    \* Session.values
          async,     \* Async(true) was called on the databases
          pc,        \* where a call is
          act,       \* what its payload asks for
          pay,       \* the Store of its payload
          at,        \* the database it is about to sync
          job,       \* the syncs that databases have begun
          disk,      \* what the databases have stored
          ops,       \* calls so far
          last,      \* history: what the last call did, if it began alone
          calm,      \* history: all calls since the load began alone
          before     \* history: the values that were stored before that call

vars == <<sess, values, async, pc, act, pay, at, job, disk, ops,
          last, calm, before>>

\* A payload's slice; shared while its array is the one the session writes to.
NoPay == [st |-> NilStore, shared |-> FALSE]

\* The key-value pairs of a slice, and what gob makes of them.
Content(s) == [i \in 1 .. s.len |-> [key |-> s.arr[i].key, value |-> s.arr[i].value]]

\* What Get finds.
MapOf(s) == [k \in Key |-> IF IndexOf(s, k) = 0 THEN None
                           ELSE s.arr[IndexOf(s, k)].value]

Empty == [k \in Key |-> None]

------------------------------------------------------------------------------
\* loadSessionFromDB: the only database's values as they are, otherwise the
\* pairs of one after the other set in a new Store.
AsStore(c) ==
    [arr |-> [i \in 1 .. Len(c) |-> [key |-> c[i].key, value |-> c[i].value,
                                     immutable |-> FALSE]],
     len |-> Len(c), cap |-> Len(c)]

SetPair(s, e) ==
    Saved(s, [key |-> e.key, value |-> e.value, immutable |-> FALSE], 0)

\* DecodeRemoteStore: what cannot be decoded is an empty store.
Decoded(d) == IF disk[d] \in {None, Junk} THEN << >> ELSE disk[d]

\* Visit of a database's values, with Set on the Store.
Visited(s, c) ==
    LET f[n \in 0 .. Len(c)] == IF n = 0 THEN s ELSE SetPair(f[n - 1], c[n])
    IN f[Len(c)]

Loaded ==
    LET f[d \in 0 .. NDb] == IF d = 0 THEN NilStore
                              ELSE Visited(f[d - 1], Decoded(d))
    IN IF NDb = 1 THEN AsStore(Decoded(1)) ELSE f[NDb]

------------------------------------------------------------------------------
\* A sync that a database has begun: what it has seen of the array so far, or
\* the bytes for the file that it has truncated.
Job(a, n, arrays, sh) ==
    [act |-> a, len |-> n, seen |-> arrays, shared |-> sh, bytes |-> << >>]
NoSync == Job("none", 0, {}, FALSE)
NoJob == [d \in Db |-> NoSync]

Init ==
    /\ sess = "none"
    /\ values = NilStore
    /\ async \in BOOLEAN
    /\ pc = [p \in Proc |-> "idle"]
    /\ act = [p \in Proc |-> "update"]
    /\ pay = [p \in Proc |-> NoPay]
    /\ at = [p \in Proc |-> 1]
    /\ job = [p \in Proc |-> NoJob]
    /\ disk = [d \in Db |-> None]
    /\ ops = 0
    /\ last = "none"
    /\ calm = TRUE
    /\ before = Empty

\* A call is under way, or a database has still to write.
Busy == \E p \in Proc : pc[p] # "idle" \/ job[p] # NoJob

\* What the databases should hold once the last call is done.
Target == IF last = "destroy" THEN Empty ELSE MapOf(values)

\* A request needs the session: newSession loads it.  Bound: nobody is using
\* a destroyed one any more.
Load ==
    /\ sess # "registered"
    /\ \A p \in Proc : pc[p] = "idle"
    /\ sess' = "registered"
    /\ values' = Loaded
    /\ job' = [p \in Proc |-> [d \in Db |->
                  [job[p][d] EXCEPT !.shared = FALSE]]]
    /\ last' = "none"
    /\ calm' = (job = [p \in Proc |-> NoJob])
    /\ before' = MapOf(Loaded)
    /\ UNCHANGED <<async, pc, act, pay, at, disk, ops>>

\* A call begins.
Begin(p, a) ==
    /\ pc[p] = "idle"
    /\ ops < MaxOps
    /\ ops' = ops + 1
    /\ pc' = [pc EXCEPT ![p] = "unlocked"]
    /\ act' = [act EXCEPT ![p] = a]
    /\ last' = IF Busy THEN "none" ELSE a
    /\ calm' = (calm /\ ~Busy)
    /\ before' = Target

\* The array is changed under those who hold a slice of it, unless append has
\* moved the session's values to a new one.
Follow(y, new) ==
    IF ~y.shared THEN y
    ELSE IF new.cap = values.cap
         THEN [st |-> [arr |-> new.arr, len |-> y.st.len, cap |-> y.st.cap],
               shared |-> TRUE]
         ELSE [st |-> y.st, shared |-> FALSE]

FollowJob(y, new) ==
    IF ~y.shared THEN y
    ELSE IF new.cap = values.cap
         THEN Job(y.act, y.len, y.seen \cup {new.arr}, TRUE)
         ELSE Job(y.act, y.len, y.seen, FALSE)

\* The critical section of Set, Delete or Clear.
Change(p, new) ==
    /\ sess # "none"
    /\ Begin(p, "update")
    /\ values' = new
    /\ pay' = [q \in Proc |-> Follow(pay[q], new)]
    /\ job' = [q \in Proc |-> [d \in Db |-> FollowJob(job[q][d], new)]]
    /\ UNCHANGED <<sess, async, at, disk>>

Set(p, e, spare) == Change(p, Saved(values, e, spare))

Delete(p, k) ==
    Change(p, IF IndexOf(values, k) = 0 THEN values
              ELSE RemoveAt(values, IndexOf(values, k)))

\* Mutant: Clear leaves the databases as they are.
ClearNoSync(p) ==
    /\ sess = "registered"
    /\ pc[p] = "idle"
    /\ values' = ResetStore(values)
    /\ UNCHANGED <<sess, async, pc, act, pay, at, job, disk, ops, last,
                   calm, before>>

Clear(p) == Change(p, ResetStore(values))

\* deleteSession: the session leaves the registry; its removal is still to come.
Destroy(p) ==
    /\ sess = "registered"
    /\ Begin(p, "destroy")
    /\ sess' = "destroyed"
    /\ UNCHANGED <<values, async, pay, at, job, disk>>

\* acquireSyncPayload, after the unlock.
Acquire(p) ==
    /\ pc[p] = "unlocked"
    /\ pay' = [pay EXCEPT ![p] = [st |-> values, shared |-> TRUE]]
    /\ pc' = [pc EXCEPT ![p] = "sync"]
    /\ UNCHANGED <<sess, values, async, act, at, job, disk, ops, last,
                   calm, before>>

\* syncDatabases calls Sync of the next database, which begins to read the
\* payload.  Bound: one unfinished goroutine per call and database.
Submit(p) ==
    /\ pc[p] = "sync"
    /\ at[p] <= NDb
    /\ job[p][at[p]] = NoSync
    /\ async \/ job[p] = NoJob
    /\ job' = [job EXCEPT ![p][at[p]] =
                  Job(act[p], pay[p].st.len, {pay[p].st.arr}, pay[p].shared)]
    /\ at' = [at EXCEPT ![p] = @ + 1]
    /\ UNCHANGED <<sess, values, async, pc, act, pay, disk, ops, last,
                   calm, before>>

\* What Serialize may have read: each word as it was at some time meanwhile.
Readings(y) ==
    {c \in [1 .. y.len -> [key : Key, value : Value]] :
        \A i \in 1 .. y.len : /\ \E a \in y.seen : c[i].key = a[i].key
                              /\ \E a \in y.seen : c[i].value = a[i].value}

\* A sync for database d ends.
Done(p, d) ==
    /\ job' = [job EXCEPT ![p][d] = NoSync]
    /\ UNCHANGED <<sess, values, async, pc, act, pay, at, ops, before>>

\* The database removes the session.  A file that another sync has open loses
\* its name: what is written to it is not found.
Remove(p, d) ==
    /\ job[p][d].act = "destroy"
    /\ disk' = [disk EXCEPT ![d] = None]
    /\ job' = [q \in Proc |-> [e \in Db |->
                  IF e = d /\ (q = p \/ job[q][e].act = "write") THEN NoSync
                  ELSE job[q][e]]]
    /\ UNCHANGED <<sess, values, async, pc, act, pay, at, ops, last,
                   calm, before>>

\* The file database has serialized the payload and opens the file, which
\* truncates it.
Truncate(p, d) ==
    /\ d \in Files
    /\ job[p][d].act = "update"
    /\ \E c \in Readings(job[p][d]) :
          job' = [job EXCEPT ![p][d] = [NoSync EXCEPT !.act = "write", !.bytes = c]]
    /\ disk' = [disk EXCEPT ![d] = Junk]
    /\ UNCHANGED <<sess, values, async, pc, act, pay, at, ops, last,
                   calm, before>>

\* It writes the file.  Any other database serializes the payload and puts it
\* in one step.
Write(p, d) ==
    /\ \/ /\ job[p][d].act = "write"
          /\ disk' = [disk EXCEPT ![d] = job[p][d].bytes]
       \/ /\ job[p][d].act = "update"
          /\ d \notin Files
          /\ \E c \in Readings(job[p][d]) : disk' = [disk EXCEPT ![d] = c]
    /\ Done(p, d)
    /\ UNCHANGED <<last, calm>>

\* Serialize or the device fails, which is only logged: the file stays as it
\* is, perhaps truncated; another database may have put what Serialize returned
\* with its error.
Fails(p, d) ==
    /\ job[p][d] # NoSync
    /\ \/ UNCHANGED disk
       \/ /\ d \notin Files
          /\ job[p][d].act = "update"
          /\ disk' = [disk EXCEPT ![d] = Junk]
    /\ Done(p, d)
    /\ last' = "none"
    /\ calm' = FALSE

\* Mutant: syncDatabases leaves out the last database.
ReturnEarly(p) ==
    /\ pc[p] = "sync"
    /\ at[p] >= NDb
    /\ async \/ job[p] = NoJob
    /\ pc' = [pc EXCEPT ![p] = "idle"]
    /\ act' = [act EXCEPT ![p] = "update"]
    /\ pay' = [pay EXCEPT ![p] = NoPay]
    /\ at' = [at EXCEPT ![p] = 1]
    /\ UNCHANGED <<sess, values, async, job, disk, ops, last, calm,
                   before>>

\* The call returns.
Return(p) ==
    /\ pc[p] = "sync"
    /\ at[p] > NDb
    /\ async \/ job[p] = NoJob
    /\ pc' = [pc EXCEPT ![p] = "idle"]
    /\ act' = [act EXCEPT ![p] = "update"]
    /\ pay' = [pay EXCEPT ![p] = NoPay]
    /\ at' = [at EXCEPT ![p] = 1]
    /\ UNCHANGED <<sess, values, async, job, disk, ops, last, calm,
                   before>>

\* The process stops anywhere; only the databases remain.
Restart ==
    /\ sess' = "none"
    /\ values' = NilStore
    /\ pc' = [p \in Proc |-> "idle"]
    /\ act' = [p \in Proc |-> "update"]
    /\ pay' = [p \in Proc |-> NoPay]
    /\ at' = [p \in Proc |-> 1]
    /\ job' = [p \in Proc |-> NoJob]
    /\ last' = "none"
    /\ UNCHANGED <<async, disk, ops, calm, before>>

Next ==
    \/ Load
    \/ \E p \in Proc :
        \/ \E k \in Key, v \in Value, f \in Flags, spare \in Spare :
              Set(p, [key |-> k, value |-> v, immutable |-> f], spare)
        \/ \E k \in Key : Delete(p, k)
        \/ Clear(p) \/ Destroy(p)
        \/ Acquire(p) \/ Submit(p) \/ Return(p)
        \/ \E d \in Db : Remove(p, d) \/ Truncate(p, d) \/ Write(p, d) \/ Fails(p, d)
    \/ Restart

Spec == Init /\ [][Next]_vars

------------------------------------------------------------------------------
\* Every sync carries the whole session, so a single call that nobody disturbs
\* and no database fails repairs whatever interleaved, reordered, interrupted or
\* failed syncs have left: once it is done every database holds exactly what the
\* memory holds, or nothing if the call was Destroy.
Settled ==
    ~Busy /\ last # "none" =>
        \A d \in Db : disk[d] = IF last = "destroy" THEN None ELSE Content(values)

\* A call has truncated the file of a database and not written it yet.
Torn == \E p \in Proc, d \in Db : job[p][d].act = "write"

\* Wherever the process stops, the next one finds for each key the value from
\* before or from after the call that was interrupted, however many databases
\* the call had already reached and however different they were; and between
\* calls it finds what the memory held.  Only while the file database has its
\* file truncated may a key be found with no value at all.  This is for calls
\* that do not overlap, and for databases that do not fail.
Recoverable ==
    ~async /\ calm /\ sess # "none" =>
        LET found == MapOf(Loaded) IN
        \A k \in Key : \/ found[k] = Target[k]
                       \/ Busy /\ found[k] = before[k]
                       \/ Torn /\ found[k] = None
==============================================================================
