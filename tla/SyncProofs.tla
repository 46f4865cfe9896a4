----------------------------- MODULE SyncProofs ------------------------------
(***************************************************************************)
(* Proofs about Sync, for any keys and values, any number of goroutines,   *)
(* databases, calls and restarts.  A call that begins when nothing else is  *)
(* under way sets the history variable last; until another call begins,     *)
(* every payload and every read of it carries the values of the session,    *)
(* and a database that does not hold them yet is still to be reached.       *)
(***************************************************************************)
EXTENDS Sync, Induction

\* As much of the types as the proof needs.
Shape ==
    /\ pc \in [Proc -> {"idle", "unlocked", "sync"}]
    /\ at \in [Proc -> Nat \ {0}]
    /\ act = [p \in Proc |-> act[p]]
    /\ pay = [p \in Proc |-> pay[p]]
    /\ disk = [d \in Db |-> disk[d]]
    /\ job = [p \in Proc |-> [d \in Db |-> job[p][d]]]
    /\ \A p \in Proc : pc[p] # "sync" => at[p] = 1

\* What the databases are to hold.
Wanted == IF last = "destroy" THEN None ELSE Content(values)

\* A payload and a read of it are of the session as it is.
Faithful ==
    /\ \A p \in Proc : pc[p] # "idle" => act[p] = last
    /\ \A p \in Proc : pc[p] = "sync" => pay[p].st = values
    /\ \A p \in Proc, d \in Db : job[p][d] # NoSync =>
          IF job[p][d].act = "write"
          THEN last = "update" /\ job[p][d].bytes = Content(values)
          ELSE /\ job[p][d].act = last
               /\ job[p][d].len = values.len
               /\ job[p][d].seen = {values.arr}

\* Call p has not reached database d yet, or d is still reading.
Pending(p, d) ==
    \/ pc[p] = "unlocked"
    \/ pc[p] = "sync" /\ d >= at[p]
    \/ job[p][d] # NoSync

Covered == \A d \in Db : disk[d] = Wanted \/ \E p \in Proc : Pending(p, d)

IInv == /\ Shape
        /\ last # "none" => last \in {"update", "destroy"} /\ Faithful /\ Covered

\* What the databases read of an array that nobody writes is what it holds.
LEMMA ReadingsExact ==
    ASSUME NEW y, NEW s, y.len = s.len, y.seen = {s.arr}, NEW c \in Readings(y)
    PROVE  c = Content(s)
<1>1. /\ c \in [1 .. s.len -> [key : Key, value : Value]]
      /\ \A i \in 1 .. s.len : c[i].key = s.arr[i].key /\ c[i].value = s.arr[i].value
  BY DEF Readings
<1>2. \A i \in 1 .. s.len : c[i] = [key |-> s.arr[i].key, value |-> s.arr[i].value]
  BY <1>1
<1> QED BY <1>1, <1>2 DEF Content

\* When nothing is under way no database is reading.
LEMMA NobodyReads ==
    ASSUME Shape, ~Busy
    PROVE  \A p \in Proc : pc[p] = "idle" /\ \A d \in Db : job[p][d] = NoSync
BY DEF Shape, Busy, NoJob

\* A call begins: it is the first to carry the new values, or it forgets last.
LEMMA CallBegins ==
    ASSUME IInv, NEW p \in Proc, NEW a \in {"update", "destroy"}, Begin(p, a),
           UNCHANGED <<at, disk>>,
           pay' = [q \in Proc |-> pay'[q]],
           job' = [q \in Proc |-> [d \in Db |-> job'[q][d]]],
           ~Busy => \A q \in Proc, d \in Db : job'[q][d] = NoSync
    PROVE  IInv'
<1>1. Shape'
  <2>1. pc' \in [Proc -> {"idle", "unlocked", "sync"}]
    BY DEF IInv, Shape, Begin
  <2>2. act' = [q \in Proc |-> act'[q]]
    BY DEF IInv, Shape, Begin
  <2>3. \A q \in Proc : pc'[q] # "sync" => at'[q] = 1
    BY DEF IInv, Shape, Begin
  <2> QED BY <2>1, <2>2, <2>3 DEF IInv, Shape
<1>2. CASE Busy
  BY <1>1, <1>2 DEF IInv, Begin
<1>3. CASE ~Busy
  <2>1. last' = a
    BY <1>3 DEF Begin
  <2>2. /\ pc'[p] = "unlocked" /\ act'[p] = a
        /\ \A q \in Proc : q # p => pc'[q] = "idle"
    BY <1>3, NobodyReads DEF IInv, Shape, Begin
  <2>3. Faithful'
    BY <1>3, <2>1, <2>2 DEF Faithful
  <2>4. Covered'
    BY <2>2 DEF Covered, Pending
  <2> QED BY <1>1, <2>1, <2>3, <2>4 DEF IInv
<1> QED BY <1>2, <1>3

\* acquireSyncPayload takes the values as they are.
LEMMA AcquireKeeps ==
    ASSUME IInv, NEW p \in Proc, Acquire(p)
    PROVE  IInv'
<1>1. /\ pc' \in [Proc -> {"idle", "unlocked", "sync"}]
      /\ pc[p] = "unlocked" /\ pc'[p] = "sync"
      /\ pay'[p].st = values /\ pay' = [q \in Proc |-> pay'[q]]
      /\ \A q \in Proc : q # p => pc'[q] = pc[q] /\ pay'[q] = pay[q]
      /\ UNCHANGED <<values, act, at, job, disk, last>>
  BY DEF IInv, Shape, Acquire
<1>2. Shape' /\ at[p] = 1
  BY <1>1 DEF IInv, Shape
<1>3. ASSUME last # "none"
      PROVE  Faithful' /\ Covered'
  <2>1. Faithful'
    BY <1>1, <1>3 DEF IInv, Faithful
  <2>2. \A d \in Db : d >= 1
    BY SyncAssumption DEF Db
  <2>3. \A q \in Proc, d \in Db : Pending(q, d) => Pending(q, d)'
    BY <1>1, <1>2, <2>2 DEF Pending
  <2>4. Wanted' = Wanted
    BY <1>1 DEF Wanted, Content
  <2> QED BY <1>1, <1>3, <2>1, <2>3, <2>4 DEF IInv, Covered
<1> QED BY <1>1, <1>2, <1>3 DEF IInv

\* syncDatabases reaches one database more.
LEMMA SubmitKeeps ==
    ASSUME IInv, NEW p \in Proc, Submit(p)
    PROVE  IInv'
<1>0. /\ at[p] \in Nat \ {0} /\ at[p] <= NDb /\ pc[p] = "sync" /\ NDb \in Nat
      /\ UNCHANGED <<values, pc, act, pay, disk, last>>
  BY SyncAssumption DEF IInv, Shape, Submit
<1>1. at[p] \in Db
  BY <1>0 DEF Db
<1> DEFINE e == at[p]
           j == Job(act[p], pay[p].st.len, {pay[p].st.arr}, pay[p].shared)
<1>2. /\ at' \in [Proc -> Nat \ {0}] /\ at'[p] = e + 1
      /\ \A q \in Proc : q # p => at'[q] = at[q]
  BY <1>0 DEF IInv, Shape, Submit
<1>3. /\ job' = [q \in Proc |-> [d \in Db |-> job'[q][d]]]
      /\ \A q \in Proc, d \in Db : job'[q][d] = IF q = p /\ d = e THEN j
                                                ELSE job[q][d]
  <2>1. /\ job = [q \in Proc |-> [d \in Db |-> job[q][d]]]
        /\ job' = [job EXCEPT ![p][e] = j]
    BY DEF IInv, Shape, Submit
  <2> HIDE DEF j, e
  <2> QED BY <1>1, <2>1 DEF e
<1>4. /\ j.act = act[p] /\ j.len = pay[p].st.len /\ j.seen = {pay[p].st.arr}
      /\ act[p] # "none" => j # NoSync
  BY DEF Job, NoSync
<1> HIDE DEF j, e
<1>5. Shape'
  BY <1>0, <1>2, <1>3 DEF IInv, Shape
<1>6. ASSUME last # "none"
      PROVE  Faithful' /\ Covered'
  <2>1. act[p] = last /\ pay[p].st = values
    BY <1>0, <1>6 DEF IInv, Faithful
  <2>2. Faithful'
    BY <1>0, <1>3, <1>4, <1>6, <2>1 DEF IInv, Faithful
  <2>3. ASSUME NEW q \in Proc, NEW d \in Db, Pending(q, d)
        PROVE  Pending(q, d)'
    <3>1. d \in Nat /\ e \in Nat
      BY <1>0, SyncAssumption DEF Db, e
    <3>2. CASE q = p /\ d = e
      BY <1>3, <1>4, <1>6, <2>1, <3>2 DEF Pending
    <3>3. CASE ~(q = p /\ d = e)
      <4>1. job'[q][d] = job[q][d] /\ pc'[q] = pc[q]
        BY <1>0, <1>3, <3>3
      <4>2. CASE q = p
        <5>1. d >= at[p] => d >= at'[p]
          BY <1>2, <3>1, <3>3, <4>2 DEF e
        <5> QED BY <2>3, <4>1, <4>2, <5>1 DEF Pending
      <4>3. CASE q # p
        BY <1>2, <2>3, <4>1, <4>3 DEF Pending
      <4> QED BY <4>2, <4>3
    <3> QED BY <3>2, <3>3
  <2>4. Wanted' = Wanted
    BY <1>0 DEF Wanted, Content
  <2> QED BY <1>0, <1>6, <2>2, <2>3, <2>4 DEF IInv, Covered
<1> QED BY <1>0, <1>5, <1>6 DEF IInv

\* A database holds what it is to hold, and the sync is done.
LEMMA StoreKeeps ==
    ASSUME IInv, NEW p \in Proc, NEW e \in Db,
           UNCHANGED <<values, pc, act, pay, at, last>>,
           disk' = [d \in Db |-> disk'[d]],
           \A d \in Db : d # e => disk'[d] = disk[d],
           last # "none" => disk'[e] = Wanted,
           job' = [q \in Proc |-> [d \in Db |-> job'[q][d]]],
           \A q \in Proc, d \in Db : job'[q][d] = NoSync \/ job'[q][d] = job[q][d],
           \A q \in Proc, d \in Db : d # e => job'[q][d] = job[q][d]
    PROVE  IInv'
<1>1. Shape'
  BY DEF IInv, Shape
<1>2. ASSUME last # "none"
      PROVE  Faithful' /\ Covered'
  <2>1. Wanted' = Wanted /\ Content(values)' = Content(values) /\ NoSync' = NoSync
    BY DEF Wanted, Content, NoSync, Job
  <2>2. Faithful'
    <3>1. ASSUME NEW q \in Proc, NEW d \in Db, job'[q][d] # NoSync
          PROVE  IF job'[q][d].act = "write"
                 THEN last = "update" /\ job'[q][d].bytes = Content(values)
                 ELSE /\ job'[q][d].act = last
                      /\ job'[q][d].len = values.len
                      /\ job'[q][d].seen = {values.arr}
      BY <1>2, <3>1 DEF IInv, Faithful
    <3>2. /\ \A q \in Proc : pc'[q] # "idle" => act'[q] = last'
          /\ \A q \in Proc : pc'[q] = "sync" => pay'[q].st = values'
      BY <1>2 DEF IInv, Faithful
    <3> QED BY <2>1, <3>1, <3>2 DEF Faithful
  <2>3. \A q \in Proc, d \in Db : d # e /\ Pending(q, d) => Pending(q, d)'
    BY <2>1 DEF Pending
  <2> QED BY <1>2, <2>1, <2>2, <2>3 DEF IInv, Covered
<1> QED BY <1>1, <1>2 DEF IInv

\* A database writes what it has read.
LEMMA WriteKeeps ==
    ASSUME IInv, NEW p \in Proc, NEW e \in Db, Write(p, e)
    PROVE  IInv'
<1>1. /\ job[p][e].act \in {"update", "write"} /\ disk = [d \in Db |-> disk[d]]
      /\ UNCHANGED <<values, pc, act, pay, at, last>>
  BY DEF IInv, Shape, Write, Done
<1>2. PICK c : /\ disk' = [disk EXCEPT ![e] = c]
               /\ IF job[p][e].act = "write" THEN c = job[p][e].bytes
                  ELSE c \in Readings(job[p][e])
  BY DEF Write
<1>3. /\ disk' = [d \in Db |-> disk'[d]] /\ disk'[e] = c
      /\ \A d \in Db : d # e => disk'[d] = disk[d]
  BY <1>1, <1>2
<1>4. ASSUME last # "none"
      PROVE  c = Wanted
  <2>1. job[p][e] # NoSync
    BY <1>1 DEF NoSync, Job
  <2>2. /\ last = "update"
        /\ IF job[p][e].act = "write" THEN job[p][e].bytes = Content(values)
           ELSE job[p][e].len = values.len /\ job[p][e].seen = {values.arr}
    BY <1>1, <1>4, <2>1 DEF IInv, Faithful
  <2>3. c = Content(values)
    BY <1>2, <2>2, ReadingsExact
  <2> QED BY <2>2, <2>3 DEF Wanted
<1>5. job' = [job EXCEPT ![p][e] = NoSync]
  BY DEF Write, Done
<1>6. /\ job' = [q \in Proc |-> [d \in Db |-> job'[q][d]]]
      /\ \A q \in Proc, d \in Db : job'[q][d] = IF q = p /\ d = e THEN NoSync
                                                ELSE job[q][d]
  BY <1>5 DEF IInv, Shape
<1> QED BY <1>1, <1>3, <1>4, <1>6, StoreKeeps

\* A database removes the session.
LEMMA RemoveKeeps ==
    ASSUME IInv, NEW p \in Proc, NEW e \in Db, Remove(p, e)
    PROVE  IInv'
<1>1. /\ job[p][e].act = "destroy" /\ disk = [d \in Db |-> disk[d]]
      /\ UNCHANGED <<values, pc, act, pay, at, last>>
  BY DEF IInv, Shape, Remove
<1>2. /\ disk' = [d \in Db |-> disk'[d]] /\ disk'[e] = None
      /\ \A d \in Db : d # e => disk'[d] = disk[d]
  BY <1>1 DEF Remove
<1>3. last # "none" => Wanted = None
  <2>1. job[p][e] # NoSync
    BY <1>1 DEF NoSync, Job
  <2> QED BY <1>1, <2>1 DEF IInv, Faithful, Wanted
<1>4. /\ job' = [q \in Proc |-> [d \in Db |-> job'[q][d]]]
      /\ \A q \in Proc, d \in Db : job'[q][d] = NoSync \/ job'[q][d] = job[q][d]
      /\ \A q \in Proc, d \in Db : d # e => job'[q][d] = job[q][d]
  BY DEF Remove
<1>5. last # "none" => disk'[e] = Wanted
  BY <1>2, <1>3
<1> QED BY <1>1, <1>2, <1>4, <1>5, StoreKeeps

\* A file is truncated: the sync is still to write what it has read.
LEMMA TruncateKeeps ==
    ASSUME IInv, NEW p \in Proc, NEW e \in Db, Truncate(p, e)
    PROVE  IInv'
<1>1. /\ job[p][e].act = "update" /\ disk = [d \in Db |-> disk[d]]
      /\ UNCHANGED <<values, pc, act, pay, at, last>>
  BY DEF IInv, Shape, Truncate
<1>2. /\ disk' = [d \in Db |-> disk'[d]]
      /\ \A d \in Db : d # e => disk'[d] = disk[d]
  BY <1>1 DEF Truncate
<1>3. PICK c \in Readings(job[p][e]) :
          job' = [job EXCEPT ![p][e] = [NoSync EXCEPT !.act = "write", !.bytes = c]]
  BY DEF Truncate
<1>4. PICK j : j = [NoSync EXCEPT !.act = "write", !.bytes = c]
  OBVIOUS
<1>5. j.act = "write" /\ j.bytes = c /\ j # NoSync
  BY <1>4 DEF NoSync, Job
<1>6. /\ job' = [q \in Proc |-> [d \in Db |-> job'[q][d]]]
      /\ \A q \in Proc, d \in Db : job'[q][d] = IF q = p /\ d = e THEN j
                                                ELSE job[q][d]
  <2>1. job' = [job EXCEPT ![p][e] = j]
    BY <1>3, <1>4
  <2> QED BY <2>1 DEF IInv, Shape
<1>7. Shape'
  BY <1>1, <1>2, <1>6 DEF IInv, Shape
<1>8. ASSUME last # "none"
      PROVE  Faithful' /\ Covered'
  <2>1. job[p][e] # NoSync
    BY <1>1 DEF NoSync, Job
  <2>2. /\ last = "update" /\ job[p][e].len = values.len
        /\ job[p][e].seen = {values.arr}
    BY <1>1, <1>8, <2>1 DEF IInv, Faithful
  <2>3. c = Content(values)
    BY <2>2, ReadingsExact
  <2>4. Content(values)' = Content(values) /\ Wanted' = Wanted /\ NoSync' = NoSync
    BY <1>1 DEF Content, Wanted, NoSync, Job
  <2>5. Faithful'
    <3>1. ASSUME NEW q \in Proc, NEW d \in Db, job'[q][d] # NoSync
          PROVE  IF job'[q][d].act = "write"
                 THEN last = "update" /\ job'[q][d].bytes = Content(values)
                 ELSE /\ job'[q][d].act = last
                      /\ job'[q][d].len = values.len
                      /\ job'[q][d].seen = {values.arr}
      BY <1>5, <1>6, <1>8, <2>2, <2>3, <3>1 DEF IInv, Faithful
    <3>2. /\ \A q \in Proc : pc'[q] # "idle" => act'[q] = last'
          /\ \A q \in Proc : pc'[q] = "sync" => pay'[q].st = values'
      BY <1>1, <1>8 DEF IInv, Faithful
    <3> QED BY <1>1, <2>4, <3>1, <3>2 DEF Faithful
  <2>6. \A q \in Proc, d \in Db : Pending(q, d) => Pending(q, d)'
    BY <1>1, <1>5, <1>6, <2>4 DEF Pending
  <2>7. Pending(p, e)'
    BY <1>5, <1>6, <2>4 DEF Pending
  <2>8. Covered'
    BY <1>2, <1>8, <2>4, <2>6, <2>7 DEF IInv, Covered
  <2> QED BY <2>5, <2>8
<1> QED BY <1>1, <1>7, <1>8 DEF IInv

\* After a failure nothing is known of the databases.
LEMMA FailsKeeps ==
    ASSUME IInv, NEW p \in Proc, NEW e \in Db, Fails(p, e)
    PROVE  IInv'
<1>1. /\ disk = [d \in Db |-> disk[d]] /\ last' = "none"
      /\ UNCHANGED <<pc, act, pay, at>>
  BY DEF IInv, Shape, Fails, Done
<1>2. disk' = [d \in Db |-> disk'[d]]
  BY <1>1 DEF Fails
<1>3. job' = [job EXCEPT ![p][e] = NoSync]
  BY DEF Fails, Done
<1>4. /\ job' = [q \in Proc |-> [d \in Db |-> job'[q][d]]]
      /\ \A q \in Proc, d \in Db : job'[q][d] \in {NoSync, job[q][d]}
  BY <1>3 DEF IInv, Shape
<1>5. Shape'
  BY <1>1, <1>2, <1>4 DEF IInv, Shape, NoSync, Job
<1> QED BY <1>1, <1>5 DEF IInv

\* A call returns when it has reached every database.
LEMMA ReturnKeeps ==
    ASSUME IInv, NEW p \in Proc, Return(p)
    PROVE  IInv'
<1>1. /\ pc' \in [Proc -> {"idle", "unlocked", "sync"}]
      /\ pc'[p] = "idle" /\ at'[p] = 1 /\ at[p] \in Nat /\ at[p] > NDb
      /\ pc[p] = "sync"
      /\ \A q \in Proc : q # p => /\ pc'[q] = pc[q] /\ pay'[q] = pay[q]
                                  /\ act'[q] = act[q] /\ at'[q] = at[q]
      /\ UNCHANGED <<values, job, disk, last>>
  BY DEF IInv, Shape, Return
<1>2. /\ at' \in [Proc -> Nat \ {0}]
      /\ act' = [q \in Proc |-> act'[q]] /\ pay' = [q \in Proc |-> pay'[q]]
  <2>1. at' \in [Proc -> Nat \ {0}]
    BY DEF IInv, Shape, Return
  <2>2. act' = [q \in Proc |-> act'[q]]
    BY DEF IInv, Shape, Return
  <2>3. pay' = [q \in Proc |-> pay'[q]]
    BY DEF IInv, Shape, Return
  <2> QED BY <2>1, <2>2, <2>3
<1>3. Shape'
  BY <1>1, <1>2 DEF IInv, Shape
<1>4. ASSUME last # "none"
      PROVE  Faithful' /\ Covered'
  <2>1. Faithful'
    BY <1>1, <1>4 DEF IInv, Faithful
  <2>2. \A d \in Db : d \in Nat /\ d <= NDb /\ NDb \in Nat
    BY SyncAssumption DEF Db
  <2>3. \A q \in Proc, d \in Db : Pending(q, d) => Pending(q, d)'
    BY <1>1, <2>2 DEF Pending
  <2>4. Wanted' = Wanted
    BY <1>1 DEF Wanted, Content
  <2> QED BY <1>1, <1>4, <2>1, <2>3, <2>4 DEF IInv, Covered
<1> QED BY <1>1, <1>3, <1>4 DEF IInv

\* Set, Delete or Clear changes the values under the mutex.
LEMMA ChangeKeeps ==
    ASSUME IInv, NEW p \in Proc, NEW new, Change(p, new)
    PROVE  IInv'
<1>1. /\ pay' = [q \in Proc |-> Follow(pay[q], new)]
      /\ job' = [q \in Proc |-> [d \in Db |-> FollowJob(job[q][d], new)]]
      /\ Begin(p, "update") /\ UNCHANGED <<at, disk>>
  BY DEF Change
<1>2. /\ pay' = [q \in Proc |-> pay'[q]]
      /\ job' = [q \in Proc |-> [d \in Db |-> job'[q][d]]]
  BY <1>1
<1>3. FollowJob(NoSync, new) = NoSync
  BY DEF FollowJob, NoSync, Job
<1>4. ~Busy => \A q \in Proc, d \in Db : job'[q][d] = NoSync
  BY <1>1, <1>3, NobodyReads DEF IInv
<1> QED BY <1>1, <1>2, <1>4, CallBegins

\* Every step keeps the invariant.
LEMMA Inductive ==
    ASSUME IInv, [Next]_vars
    PROVE  IInv'
<1>1. CASE Load
  <2>1. Shape'
    BY <1>1 DEF IInv, Shape, Load
  <2> QED BY <1>1, <2>1 DEF IInv, Load
<1>2. CASE Restart
  <2>1. Shape'
    BY <1>2 DEF IInv, Shape, Restart, NoJob
  <2> QED BY <1>2, <2>1 DEF IInv, Restart
<1>3. ASSUME NEW p \in Proc,
             \/ \E k \in Key, v \in Value, f \in Flags, spare \in Spare :
                   Set(p, [key |-> k, value |-> v, immutable |-> f], spare)
             \/ \E k \in Key : Delete(p, k)
             \/ Clear(p)
      PROVE  IInv'
  BY <1>3, ChangeKeeps DEF Set, Delete, Clear
<1>4. ASSUME NEW p \in Proc, Destroy(p)
      PROVE  IInv'
  <2>1. /\ Begin(p, "destroy") /\ UNCHANGED <<at, disk, pay, job>>
    BY <1>4 DEF Destroy
  <2>2. /\ pay' = [q \in Proc |-> pay'[q]]
        /\ job' = [q \in Proc |-> [d \in Db |-> job'[q][d]]]
    BY <2>1 DEF IInv, Shape
  <2>3. ~Busy => \A q \in Proc, d \in Db : job'[q][d] = NoSync
    BY <2>1, NobodyReads DEF IInv
  <2> QED BY <2>1, <2>2, <2>3, CallBegins
<1>5. ASSUME NEW p \in Proc,
             \/ Acquire(p) \/ Submit(p) \/ Return(p)
             \/ \E d \in Db : Remove(p, d) \/ Truncate(p, d) \/ Write(p, d) \/ Fails(p, d)
      PROVE  IInv'
  BY <1>5, AcquireKeeps, SubmitKeeps, ReturnKeeps, RemoveKeeps, TruncateKeeps,
     WriteKeeps, FailsKeeps
<1>6. CASE UNCHANGED vars
  <2>1. Shape' BY <1>6 DEF vars, IInv, Shape
  <2>2. Faithful => Faithful' BY <1>6 DEF vars, Faithful
  <2>3. Covered => Covered' BY <1>6 DEF vars, Covered, Pending, Wanted, Content
  <2> QED BY <1>6, <2>1, <2>2, <2>3 DEF vars, IInv
<1> QED BY <1>1, <1>2, <1>3, <1>4, <1>5, <1>6 DEF Next

\* Before the first request the invariant holds.
LEMMA Initial == Init => IInv
BY DEF Init, IInv, Shape, NoJob

\* A call that nobody disturbs leaves every database with exactly what the memory
\* holds, or with nothing after a Destroy, whatever has been stored before it.
THEOREM CallSettles == Spec => []Settled
<1>1. ASSUME IInv
      PROVE  Settled
  <2> SUFFICES ASSUME ~Busy, last # "none", NEW d \in Db
               PROVE  disk[d] = Wanted
    BY DEF Settled, Wanted
  <2>1. \A p \in Proc : ~Pending(p, d)
    BY <1>1, NobodyReads DEF IInv, Pending
  <2> QED BY <1>1, <2>1 DEF IInv, Covered
<1> QED BY <1>1, Initial, Inductive, PTL DEF Spec

------------------------------------------------------------------------------
\* The Store on its way through the databases.

Unique(s) == \A i, j \in 1 .. s.len : s.arr[i].key = s.arr[j].key => i = j

Pairs == [key : Key, value : Value]

\* The linear search finds the first entry, and there is only one.
LEMMA Search ==
    ASSUME NEW s, s.len \in Nat, NEW k
    PROVE  /\ IndexOf(s, k) # 0 => FirstAt(s, k, IndexOf(s, k))
           /\ \A i : FirstAt(s, k, i) => IndexOf(s, k) = i
<1>1. \A i, j : FirstAt(s, k, i) /\ FirstAt(s, k, j) => i = j
  BY DEF FirstAt
<1>2. ASSUME NEW i, FirstAt(s, k, i)
      PROVE  FirstAt(s, k, IndexOf(s, k)) /\ IndexOf(s, k) = i
  <2>1. i \in 1 .. s.len
    BY <1>2 DEF FirstAt
  <2>2. FirstAt(s, k, IndexOf(s, k))
    BY <1>2, <2>1 DEF IndexOf
  <2> QED BY <1>1, <1>2, <2>2
<1> QED BY <1>2 DEF IndexOf

\* What Get finds in a slice without duplicates.
LEMMA LookUp ==
    ASSUME NEW s, IsStore(s), Unique(s), NEW k \in Key
    PROVE  /\ \A i \in 1 .. s.len : s.arr[i].key = k => /\ IndexOf(s, k) = i
                                                        /\ MapOf(s)[k] = s.arr[i].value
           /\ (\A i \in 1 .. s.len : s.arr[i].key # k) => /\ IndexOf(s, k) = 0
                                                          /\ MapOf(s)[k] = None
<1>1. s.len \in Nat
  BY DEF IsStore
<1>2. ASSUME NEW i \in 1 .. s.len, s.arr[i].key = k
      PROVE  IndexOf(s, k) = i /\ MapOf(s)[k] = s.arr[i].value
  <2>1. FirstAt(s, k, i)
    BY <1>1, <1>2 DEF FirstAt, Unique
  <2>2. IndexOf(s, k) = i
    BY <1>1, <2>1, Search
  <2> QED BY <1>1, <2>2 DEF MapOf
<1>3. ASSUME \A i \in 1 .. s.len : s.arr[i].key # k
      PROVE  IndexOf(s, k) = 0 /\ MapOf(s)[k] = None
  <2>1. IndexOf(s, k) = 0
    BY <1>1, <1>3, Search DEF FirstAt
  <2> QED BY <2>1 DEF MapOf
<1> QED BY <1>2, <1>3

\* Save keeps a slice well formed, and without duplicates if it was.
LEMMA SavedStore ==
    ASSUME NEW s, IsStore(s), NEW e \in Entry, NEW spare \in Nat
    PROVE  /\ IsStore(Saved(s, e, spare))
           /\ Unique(s) => Unique(Saved(s, e, spare))
<1>1. s.len \in Nat /\ ZeroEntry \in Entry /\ e.key \in Key
  BY ConstantsAssumption DEF IsStore, ZeroEntry, Entry
<1> DEFINE i == IndexOf(s, e.key)
<1>2. CASE i # 0 /\ MayReplace(s.arr[i], e.immutable)
  <2>1. PICK n \in 1 .. s.len : n = i /\ s.arr[n].key = e.key
    BY <1>1, <1>2, Search DEF FirstAt
  <2>2. PICK t : t = Saved(s, e, spare)
    OBVIOUS
  <2>3. t = [arr |-> [s.arr EXCEPT ![n] = e], len |-> s.len, cap |-> s.cap]
    BY <1>2, <2>1, <2>2 DEF Saved, SaveFound
  <2>4. IsStore(t)
    BY <2>3 DEF IsStore
  <2>5. t.len = s.len /\ \A j \in 1 .. s.len : t.arr[j].key = s.arr[j].key
    BY <2>1, <2>3 DEF IsStore
  <2>6. Unique(s) => Unique(t)
    BY <2>5 DEF Unique
  <2> QED BY <2>2, <2>4, <2>6
<1>3. CASE i # 0 /\ ~MayReplace(s.arr[i], e.immutable)
  BY <1>3 DEF Saved, SaveFound
<1>4. CASE i = 0
  <2>1. Saved(s, e, spare) = SaveNew(s, e, spare)
    BY <1>4 DEF Saved
  <2>2. PICK t : t = SaveNew(s, e, spare)
    OBVIOUS
  <2>3. IsStore(t)
    <3>1. CASE s.cap > s.len
      BY <2>2, <3>1 DEF SaveNew, IsStore
    <3>2. CASE ~(s.cap > s.len)
      BY <1>1, <2>2, <3>2 DEF SaveNew, IsStore
    <3> QED BY <3>1, <3>2
  <2>4. /\ t.len = s.len + 1 /\ t.arr[s.len + 1] = e
        /\ \A j \in 1 .. s.len : t.arr[j] = s.arr[j]
    BY <1>1, <2>2 DEF SaveNew, IsStore
  <2>5. ASSUME Unique(s)
        PROVE  Unique(t)
    <3>1. \A j \in 1 .. s.len : s.arr[j].key # e.key
      BY <1>1, <1>4, <2>5, LookUp
    <3> QED BY <1>1, <2>4, <2>5, <3>1 DEF Unique
  <2> QED BY <2>1, <2>2, <2>3, <2>5
<1> QED BY <1>2, <1>3, <1>4

\* Remove and Reset do, too.
LEMMA RemovedStore ==
    ASSUME NEW s, IsStore(s), NEW i \in 1 .. s.len
    PROVE  /\ IsStore(RemoveAt(s, i))
           /\ Unique(s) => Unique(RemoveAt(s, i))
<1>1. PICK t : t = RemoveAt(s, i)
  OBVIOUS
<1>2. /\ t.len = s.len - 1 /\ t.cap = s.cap
      /\ t = [arr |-> t.arr, len |-> t.len, cap |-> t.cap]
      /\ t.arr = [j \in 1 .. s.cap |->
                    IF j >= i /\ j < s.len THEN s.arr[j + 1] ELSE s.arr[j]]
  BY <1>1 DEF RemoveAt
<1>3. t.arr \in [1 .. s.cap -> Entry]
  BY <1>2 DEF IsStore
<1>4. IsStore(t)
  BY <1>2, <1>3 DEF IsStore
<1> DEFINE Was(j) == IF j >= i THEN j + 1 ELSE j
<1>5. \A j \in 1 .. t.len : Was(j) \in 1 .. s.len /\ t.arr[j] = s.arr[Was(j)]
  BY <1>2 DEF IsStore
<1>6. \A a, b \in 1 .. t.len : Was(a) = Was(b) => a = b
  BY <1>2 DEF IsStore
<1> HIDE DEF Was
<1>7. Unique(s) => Unique(t)
  BY <1>5, <1>6 DEF Unique
<1> QED BY <1>1, <1>4, <1>7

LEMMA ResetIsStore ==
    ASSUME NEW s, IsStore(s)
    PROVE  IsStore(ResetStore(s)) /\ Unique(ResetStore(s))
BY DEF ResetStore, IsStore, Unique

\* The slices that Visit makes of a new one: no duplicates, nothing immutable.
AllStores == [arr : UNION {[1 .. n -> Entry] : n \in Nat}, len : Nat, cap : Nat]
Plain == {s \in AllStores : /\ IsStore(s) /\ Unique(s)
                            /\ \A i \in 1 .. s.len : ~s.arr[i].immutable}

LEMMA PlainIs ==
    ASSUME NEW s
    PROVE  s \in Plain <=> /\ IsStore(s) /\ Unique(s)
                           /\ \A i \in 1 .. s.len : ~s.arr[i].immutable
<1>1. ASSUME IsStore(s) PROVE s \in AllStores
  <2>1. PICK n \in Nat : n = s.cap
    BY <1>1 DEF IsStore
  <2>2. s.arr \in UNION {[1 .. m -> Entry] : m \in Nat}
    BY <1>1, <2>1 DEF IsStore
  <2> QED BY <1>1, <2>2 DEF IsStore, AllStores
<1> QED BY <1>1 DEF Plain

LEMMA NilPlain ==
    /\ NilStore \in Plain
    /\ \A k \in Key : MapOf(NilStore)[k] = None
<1>1. IsStore(NilStore) /\ Unique(NilStore) /\ NilStore.len = 0
  BY DEF IsStore, NilStore, Unique
<1>2. NilStore \in Plain
  BY <1>1, PlainIs
<1>3. \A k \in Key : MapOf(NilStore)[k] = None
  BY <1>1, LookUp
<1> QED BY <1>2, <1>3

\* Set during the load: the pair is found again, and the others as before.
LEMMA SetPairIs ==
    ASSUME NEW s \in Plain, NEW e \in Pairs
    PROVE  /\ SetPair(s, e) \in Plain
           /\ \A k \in Key : MapOf(SetPair(s, e))[k] = IF k = e.key THEN e.value
                                                       ELSE MapOf(s)[k]
<1>1. PICK f \in Entry : f = [key |-> e.key, value |-> e.value, immutable |-> FALSE]
  BY DEF Pairs, Entry
<1>2. f.key = e.key /\ f.value = e.value /\ ~f.immutable /\ e.key \in Key
  BY <1>1 DEF Pairs
<1>3. /\ IsStore(s) /\ Unique(s) /\ s.len \in Nat /\ s.cap \in Nat
      /\ \A i \in 1 .. s.len : ~s.arr[i].immutable
  BY PlainIs DEF IsStore
<1>4. PICK t : t = SetPair(s, e)
  OBVIOUS
<1>5. t = Saved(s, f, 0)
  BY <1>1, <1>4 DEF SetPair
<1>6. IsStore(t) /\ Unique(t) /\ t.len \in Nat
  BY <1>3, <1>5, SavedStore DEF IsStore
<1>7. PICK m \in 1 .. t.len :
         /\ t.arr[m] = f
         /\ \A j \in 1 .. s.len : j # m => t.arr[j] = s.arr[j] /\ j \in 1 .. t.len
         /\ \A j \in 1 .. t.len : j # m => j \in 1 .. s.len
         /\ \A j \in 1 .. s.len : s.arr[j].key = e.key <=> j = m
  <2>1. CASE \E i \in 1 .. s.len : s.arr[i].key = e.key
    <3>1. PICK i \in 1 .. s.len : s.arr[i].key = e.key
      BY <2>1
    <3>2. IndexOf(s, f.key) = i /\ i # 0
      BY <1>2, <1>3, <3>1, LookUp
    <3>3. t = SaveFound(s, i, f)
      BY <1>5, <3>2 DEF Saved
    <3>4. t = [arr |-> [s.arr EXCEPT ![i] = f], len |-> s.len, cap |-> s.cap]
      BY <1>3, <3>1, <3>3 DEF SaveFound, MayReplace
    <3>5. \A j \in 1 .. s.len : s.arr[j].key = e.key => j = i
      BY <1>3, <3>1 DEF Unique
    <3>6. /\ t.len = s.len /\ t.arr[i] = f
          /\ \A j \in 1 .. s.len : j # i => t.arr[j] = s.arr[j]
      BY <1>3, <3>1, <3>4 DEF IsStore
    <3> QED BY <3>1, <3>5, <3>6
  <2>2. CASE \A i \in 1 .. s.len : s.arr[i].key # e.key
    <3>1. IndexOf(s, f.key) = 0
      BY <1>2, <1>3, <2>2, LookUp
    <3>2. t = SaveNew(s, f, 0)
      BY <1>5, <3>1 DEF Saved
    <3>3. /\ t.len = s.len + 1 /\ t.arr[s.len + 1] = f
          /\ \A j \in 1 .. s.len : t.arr[j] = s.arr[j]
      BY <1>3, <3>2 DEF SaveNew, IsStore
    <3>4. s.len + 1 \in 1 .. t.len
      BY <1>3, <3>3
    <3>5. \A j \in 1 .. t.len : j # s.len + 1 => j \in 1 .. s.len
      BY <1>3, <3>3
    <3>6. \A j \in 1 .. s.len : j \in 1 .. t.len
      BY <1>3, <3>3
    <3>7. \A j \in 1 .. s.len : j # s.len + 1
      BY <1>3
    <3> QED BY <2>2, <3>3, <3>4, <3>5, <3>6, <3>7
  <2> QED BY <2>1, <2>2
<1>8. t \in Plain
  <2>1. \A i \in 1 .. t.len : ~t.arr[i].immutable
    BY <1>2, <1>3, <1>7
  <2> QED BY <1>6, <2>1, PlainIs
<1>9. ASSUME NEW k \in Key
      PROVE  MapOf(t)[k] = IF k = e.key THEN e.value ELSE MapOf(s)[k]
  <2>1. CASE k = e.key
    BY <1>2, <1>6, <1>7, <2>1, LookUp
  <2>2. CASE k # e.key /\ \E j \in 1 .. s.len : s.arr[j].key = k
    <3>1. PICK j \in 1 .. s.len : s.arr[j].key = k
      BY <2>2
    <3>2. j # m /\ t.arr[j] = s.arr[j] /\ j \in 1 .. t.len
      BY <1>7, <2>2, <3>1
    <3>3. MapOf(t)[k] = t.arr[j].value
      BY <1>6, <3>1, <3>2, LookUp
    <3>4. MapOf(s)[k] = s.arr[j].value
      BY <1>3, <3>1, LookUp
    <3> QED BY <2>2, <3>2, <3>3, <3>4
  <2>3. CASE k # e.key /\ \A j \in 1 .. s.len : s.arr[j].key # k
    <3>1. \A j \in 1 .. t.len : t.arr[j].key # k
      BY <1>2, <1>7, <2>3
    <3> QED BY <1>3, <1>6, <2>3, <3>1, LookUp
  <2> QED BY <2>1, <2>2, <2>3
<1> QED BY <1>4, <1>8, <1>9

\* The Store after each of the pairs of a database.
Steps(s, c, g) ==
    /\ g \in [0 .. Len(c) -> Plain]
    /\ g[0] = s
    /\ \A n \in 1 .. Len(c) : g[n] = SetPair(g[n - 1], c[n])

\* The recursive function of Visited is what its definition says.
LEMMA VisitedSteps ==
    ASSUME NEW s \in Plain, NEW c \in Seq(Pairs)
    PROVE  \E g : Steps(s, c, g) /\ Visited(s, c) = g[Len(c)]
<1> DEFINE N == Len(c)
           Step == [t \in Plain |-> [n \in 1 .. N |-> SetPair(t, c[n])]]
           Is(f) == f = [n \in 0 .. N |-> IF n = 0 THEN s ELSE SetPair(f[n - 1], c[n])]
<1>1. N \in Nat /\ \A n \in 1 .. N : c[n] \in Pairs
  OBVIOUS
<1>2. IsStep(Step, Plain, N)
  BY <1>1, SetPairIs DEF IsStep
<1>3. PICK g : Iterates(g, Plain, s, N, Step)
  <2> HIDE DEF N, Step
  <2> QED BY <1>1, <1>2, Recursion
<1>4. \A n \in 1 .. N : g[n] = SetPair(g[n - 1], c[n])
  <2> TAKE n \in 1 .. N
  <2>1. g[n - 1] \in Plain
    BY <1>1, <1>3 DEF Iterates
  <2> QED BY <1>3, <2>1 DEF Iterates
<1>5. Is(g)
  BY <1>1, <1>3, <1>4 DEF Iterates
<1> DEFINE f == CHOOSE f : Is(f)
<1>6. Is(f)
  <2> HIDE DEF Is
  <2> QED BY <1>5
<1>7. Visited(s, c) = f[N]
  BY DEF Visited
<1> HIDE DEF f
<1>8. f[0] = s /\ \A n \in 1 .. N : f[n] = SetPair(f[n - 1], c[n])
  BY <1>1, <1>6
<1> DEFINE T == {n \in 0 .. N : f[n] \in Plain}
<1>9. \A n \in 0 .. N : n \in T
  <2>1. 0 \in T
    BY <1>1, <1>8
  <2>2. ASSUME NEW n \in 1 .. N, n - 1 \in T
        PROVE  n \in T
    <3>1. f[n - 1] \in Plain /\ c[n] \in Pairs /\ n \in 0 .. N
      BY <1>1, <2>2
    <3>2. f[n] \in Plain
      BY <1>8, <3>1, SetPairIs
    <3> QED BY <3>1, <3>2
  <2> HIDE DEF T, N
  <2> QED BY <1>1, <2>1, <2>2, UpTo
<1>10. f \in [0 .. N -> Plain]
  BY <1>6, <1>9
<1> QED BY <1>7, <1>8, <1>10 DEF Steps

\* One step of it, for a key.
LEMMA StepIs ==
    ASSUME NEW s \in Plain, NEW c \in Seq(Pairs), NEW g, Steps(s, c, g),
           NEW n \in 1 .. Len(c), NEW k \in Key
    PROVE  /\ n - 1 \in 0 .. Len(c) /\ c[n] \in Pairs
           /\ MapOf(g[n])[k] = IF k = c[n].key THEN c[n].value
                               ELSE MapOf(g[n - 1])[k]
<1>1. n - 1 \in 0 .. Len(c) /\ c[n] \in Pairs /\ g[n - 1] \in Plain
  BY DEF Steps
<1>2. PICK b \in Plain : b = g[n - 1]
  BY <1>1
<1>3. PICK e \in Pairs : e = c[n]
  BY <1>1
<1>4. g[n] = SetPair(b, e)
  BY <1>2, <1>3 DEF Steps
<1>5. MapOf(SetPair(b, e))[k] = IF k = e.key THEN e.value ELSE MapOf(b)[k]
  BY SetPairIs
<1> QED BY <1>1, <1>2, <1>3, <1>4, <1>5

\* A database's pairs go before those that are there already, and do not depend
\* on them.
LEMMA VisitedIs ==
    ASSUME NEW s \in Plain, NEW c \in Seq(Pairs)
    PROVE  /\ Visited(s, c) \in Plain
           /\ \A k \in Key : MapOf(Visited(s, c))[k] =
                 IF MapOf(Visited(NilStore, c))[k] # None
                 THEN MapOf(Visited(NilStore, c))[k] ELSE MapOf(s)[k]
<1> DEFINE N == Len(c)
<1>1. PICK f : Steps(s, c, f) /\ Visited(s, c) = f[N]
  BY VisitedSteps
<1>2. PICK g : Steps(NilStore, c, g) /\ Visited(NilStore, c) = g[N]
  BY NilPlain, VisitedSteps
<1>3. N \in Nat /\ N \in 0 .. N
  OBVIOUS
<1>4. f[N] \in Plain
  BY <1>1, <1>3 DEF Steps
<1>5. ASSUME NEW k \in Key
      PROVE  MapOf(f[N])[k] = IF MapOf(g[N])[k] # None THEN MapOf(g[N])[k]
                              ELSE MapOf(s)[k]
  <2> DEFINE T == {n \in 0 .. N : MapOf(f[n])[k] =
                     IF MapOf(g[n])[k] # None THEN MapOf(g[n])[k] ELSE MapOf(s)[k]}
  <2>1. 0 \in T
    <3>1. f[0] = s /\ g[0] = NilStore
      BY <1>1, <1>2 DEF Steps
    <3>2. MapOf(g[0])[k] = None
      BY <3>1, NilPlain
    <3> QED BY <1>3, <3>1, <3>2
  <2>2. ASSUME NEW n \in 1 .. N, n - 1 \in T
        PROVE  n \in T
    <3>1. /\ MapOf(f[n])[k] = IF k = c[n].key THEN c[n].value ELSE MapOf(f[n - 1])[k]
          /\ c[n] \in Pairs
      BY <1>1, StepIs
    <3>2. MapOf(g[n])[k] = IF k = c[n].key THEN c[n].value ELSE MapOf(g[n - 1])[k]
      BY <1>2, NilPlain, StepIs
    <3>3. c[n].value # None
      BY <3>1, SyncAssumption DEF Pairs
    <3>4. MapOf(f[n - 1])[k] = IF MapOf(g[n - 1])[k] # None THEN MapOf(g[n - 1])[k]
                               ELSE MapOf(s)[k]
      BY <2>2
    <3> QED BY <1>3, <3>1, <3>2, <3>3, <3>4
  <2>3. N \in T
    <3> HIDE DEF T, N
    <3> QED BY <1>3, <2>1, <2>2, UpTo
  <2> QED BY <2>3
<1> QED BY <1>1, <1>2, <1>4, <1>5

\* What a load finds of key k when a database holds c and the others nothing.
Read(c, k) == MapOf(IF NDb = 1 THEN AsStore(c) ELSE Visited(NilStore, c))[k]

LEMMA AsStoreIs ==
    ASSUME NEW c \in Seq(Pairs)
    PROVE  IsStore(AsStore(c))
<1>1. Len(c) \in Nat /\ \A i \in 1 .. Len(c) : c[i] \in Pairs
  OBVIOUS
<1>2. \A i \in 1 .. Len(c) :
         [key |-> c[i].key, value |-> c[i].value, immutable |-> FALSE] \in Entry
  BY <1>1 DEF Pairs, Entry
<1> QED BY <1>1, <1>2 DEF AsStore, IsStore

\* A database without pairs has no key.
LEMMA ReadNothing == \A k \in Key : Read(<< >>, k) = None
<1> TAKE k \in Key
<1>0. << >> \in Seq(Pairs) /\ Len(<< >>) = 0
  OBVIOUS
<1>1. CASE NDb = 1
  <2>1. AsStore(<< >>).len = 0
    BY <1>0 DEF AsStore
  <2>2. IndexOf(AsStore(<< >>), k) = 0
    BY <2>1 DEF IndexOf
  <2> QED BY <1>1, <2>2 DEF Read, MapOf
<1>2. CASE NDb # 1
  <2>1. PICK g : Steps(NilStore, << >>, g) /\ Visited(NilStore, << >>) = g[0]
    BY <1>0, NilPlain, VisitedSteps
  <2>2. Visited(NilStore, << >>) = NilStore
    BY <2>1 DEF Steps
  <2> QED BY <1>2, <2>2, NilPlain DEF Read
<1> QED BY <1>1, <1>2

\* A database that holds the values of a session gives each key its value.
LEMMA ReadContent ==
    ASSUME NEW s, IsStore(s), NDb # 1 => Unique(s)
    PROVE  /\ Content(s) \in Seq(Pairs)
           /\ \A k \in Key : Read(Content(s), k) = MapOf(s)[k]
<1> DEFINE N == s.len
           c == Content(s)
<1>1. N \in Nat /\ \A i \in 1 .. N : s.arr[i] \in Entry
  BY DEF IsStore
<1>2. \A i \in 1 .. N : [key |-> s.arr[i].key, value |-> s.arr[i].value] \in Pairs
  BY <1>1 DEF Entry, Pairs
<1>3. c = [i \in 1 .. N |-> [key |-> s.arr[i].key, value |-> s.arr[i].value]]
  BY DEF Content
<1> HIDE DEF c
<1>4. c \in Seq(Pairs) /\ Len(c) = N
  <2>1. c \in [1 .. N -> Pairs]
    BY <1>2, <1>3
  <2> QED BY <1>1, <2>1
<1>5. \A i \in 1 .. N : c[i].key = s.arr[i].key /\ c[i].value = s.arr[i].value
  BY <1>3
<1>6. ASSUME NDb = 1, NEW k \in Key
      PROVE  Read(c, k) = MapOf(s)[k]
  <2>1. PICK t : t = AsStore(c)
    OBVIOUS
  <2>2. /\ t.len = N
        /\ \A i \in 1 .. N : t.arr[i].key = s.arr[i].key /\ t.arr[i].value = s.arr[i].value
    BY <1>4, <1>5, <2>1 DEF AsStore
  <2>3. \A i : FirstAt(t, k, i) <=> FirstAt(s, k, i)
    BY <1>1, <2>2 DEF FirstAt
  <2>4. IndexOf(t, k) = IndexOf(s, k)
    <3>1. CASE \E i : FirstAt(s, k, i)
      BY <1>1, <2>2, <2>3, <3>1, Search
    <3>2. CASE ~ \E i : FirstAt(s, k, i)
      BY <2>3, <3>2 DEF IndexOf
    <3> QED BY <3>1, <3>2
  <2>5. IndexOf(s, k) # 0 => IndexOf(s, k) \in 1 .. N
    BY <1>1, Search DEF FirstAt
  <2> QED BY <1>6, <2>1, <2>2, <2>4, <2>5 DEF Read, MapOf
<1>7. ASSUME NDb # 1, NEW k \in Key
      PROVE  Read(c, k) = MapOf(s)[k]
  <2>1. PICK g : Steps(NilStore, c, g) /\ Visited(NilStore, c) = g[N]
    BY <1>4, NilPlain, VisitedSteps
  <2> DEFINE T == {n \in 0 .. N :
                     /\ \A i \in 1 .. n : s.arr[i].key = k =>
                                             MapOf(g[n])[k] = s.arr[i].value
                     /\ (\A i \in 1 .. n : s.arr[i].key # k) => MapOf(g[n])[k] = None}
  <2>2. 0 \in T
    <3>1. g[0] = NilStore
      BY <2>1 DEF Steps
    <3> QED BY <1>1, <3>1, NilPlain
  <2>3. ASSUME NEW n \in 1 .. N, n - 1 \in T
        PROVE  n \in T
    <3>1. MapOf(g[n])[k] = IF k = s.arr[n].key THEN s.arr[n].value
                           ELSE MapOf(g[n - 1])[k]
      BY <1>4, <1>5, <2>1, NilPlain, StepIs
    <3>2. \A i \in 1 .. n : i = n \/ i \in 1 .. (n - 1)
      BY <1>1
    <3>3. \A i \in 1 .. (n - 1) : i \in 1 .. N /\ i # n /\ i \in 1 .. n
      BY <1>1
    <3>4. CASE s.arr[n].key = k
      <4>1. \A i \in 1 .. (n - 1) : s.arr[i].key # k
        BY <1>7, <3>3, <3>4 DEF Unique
      <4>2. n \in 1 .. n /\ n \in 0 .. N
        BY <1>1
      <4> QED BY <3>1, <3>2, <3>4, <4>1, <4>2
    <3>5. CASE s.arr[n].key # k
      <4>1. n \in 0 .. N
        BY <1>1
      <4> QED BY <2>3, <3>1, <3>2, <3>3, <3>5, <4>1
    <3> QED BY <3>4, <3>5
  <2>4. N \in T
    <3>1. N \in 0 .. N
      BY <1>1
    <3> HIDE DEF T, N
    <3> QED BY <1>1, <2>2, <2>3, <3>1, UpTo
  <2>5. CASE \E i \in 1 .. N : s.arr[i].key = k
    BY <1>7, <2>1, <2>4, <2>5, LookUp DEF Read
  <2>6. CASE \A i \in 1 .. N : s.arr[i].key # k
    BY <1>7, <2>1, <2>4, <2>6, LookUp DEF Read
  <2> QED BY <2>5, <2>6
<1> QED BY <1>4, <1>6, <1>7 DEF c

\* Every database holds the pairs of a session, nothing, or what cannot be read.
Disks == \A d \in Db : disk[d] \in {None, Junk} \/ disk[d] \in Seq(Pairs)

LEMMA DecodedPairs ==
    ASSUME Disks, NEW d \in Db
    PROVE  Decoded(d) \in Seq(Pairs)
BY DEF Disks, Decoded

\* The Store after each of the databases.
Merges(g) ==
    /\ g \in [0 .. NDb -> Plain]
    /\ g[0] = NilStore
    /\ \A d \in Db : g[d] = Visited(g[d - 1], Decoded(d))

\* The recursive function of Loaded is what its definition says.
LEMMA LoadedMerges ==
    ASSUME Disks, NDb # 1
    PROVE  \E g : Merges(g) /\ Loaded = g[NDb]
<1> DEFINE Step == [t \in Plain |-> [d \in 1 .. NDb |-> Visited(t, Decoded(d))]]
           Is(f) == f = [d \in 0 .. NDb |-> IF d = 0 THEN NilStore
                                            ELSE Visited(f[d - 1], Decoded(d))]
<1>1. NDb \in Nat /\ Db = 1 .. NDb /\ \A d \in 1 .. NDb : Decoded(d) \in Seq(Pairs)
  BY SyncAssumption, DecodedPairs DEF Db
<1>2. IsStep(Step, Plain, NDb)
  <2>1. \A t \in Plain : \A d \in 1 .. NDb : Visited(t, Decoded(d)) \in Plain
    BY <1>1, VisitedIs
  <2> QED BY <2>1 DEF IsStep
<1>3. PICK g : Iterates(g, Plain, NilStore, NDb, Step)
  <2> HIDE DEF Step
  <2> QED BY <1>1, <1>2, NilPlain, Recursion
<1>4. \A d \in 1 .. NDb : g[d] = Visited(g[d - 1], Decoded(d))
  <2> TAKE d \in 1 .. NDb
  <2>1. g[d - 1] \in Plain
    BY <1>1, <1>3 DEF Iterates
  <2> QED BY <1>3, <2>1 DEF Iterates
<1>5. Is(g)
  BY <1>1, <1>3, <1>4 DEF Iterates
<1> DEFINE f == CHOOSE f : Is(f)
<1>6. Is(f)
  <2> HIDE DEF Is
  <2> QED BY <1>5
<1>7. Loaded = f[NDb]
  BY DEF Loaded
<1> HIDE DEF f
<1>8. f[0] = NilStore /\ \A d \in 1 .. NDb : f[d] = Visited(f[d - 1], Decoded(d))
  BY <1>1, <1>6
<1> DEFINE T == {d \in 0 .. NDb : f[d] \in Plain}
<1>9. \A d \in 0 .. NDb : d \in T
  <2>1. 0 \in T
    BY <1>1, <1>8, NilPlain
  <2>2. ASSUME NEW d \in 1 .. NDb, d - 1 \in T
        PROVE  d \in T
    <3>1. f[d - 1] \in Plain /\ Decoded(d) \in Seq(Pairs) /\ d \in 0 .. NDb
      BY <1>1, <2>2
    <3>2. f[d] \in Plain
      BY <1>8, <3>1, VisitedIs
    <3> QED BY <3>1, <3>2
  <2> HIDE DEF T
  <2> QED BY <1>1, <2>1, <2>2, UpTo
<1>10. f \in [0 .. NDb -> Plain]
  BY <1>6, <1>9
<1> QED BY <1>1, <1>7, <1>8, <1>10 DEF Merges

\* The last of the databases up to n that has key k gives it the value v.
Top(k, n, v) ==
    \/ /\ v # None
       /\ \E d \in 1 .. n : /\ Read(Decoded(d), k) = v
                            /\ \A e \in 1 .. n : e > d => Read(Decoded(e), k) = None
    \/ v = None /\ \A d \in 1 .. n : Read(Decoded(d), k) = None

\* What a load makes of the databases: the last one that has a key counts.
LEMMA LoadedIs ==
    ASSUME Disks
    PROVE  /\ IsStore(Loaded) /\ (NDb # 1 => Unique(Loaded))
           /\ \A k \in Key : Top(k, NDb, MapOf(Loaded)[k])
<1>0. NDb \in Nat /\ Db = 1 .. NDb /\ \A d \in 1 .. NDb : Decoded(d) \in Seq(Pairs)
  BY SyncAssumption, DecodedPairs DEF Db
<1>1. CASE NDb = 1
  <2>1. Loaded = AsStore(Decoded(1)) /\ 1 \in 1 .. NDb
    BY <1>1 DEF Loaded
  <2>2. IsStore(Loaded)
    BY <1>0, <2>1, AsStoreIs
  <2>3. \A k : Read(Decoded(1), k) = MapOf(Loaded)[k]
    BY <1>1, <2>1 DEF Read
  <2> QED BY <1>1, <2>2, <2>3 DEF Top
<1>2. CASE NDb # 1
  <2>1. PICK g : Merges(g) /\ Loaded = g[NDb]
    BY <1>2, LoadedMerges
  <2>2. Loaded \in Plain
    BY <1>0, <2>1 DEF Merges
  <2>3. IsStore(Loaded) /\ Unique(Loaded)
    BY <2>2, PlainIs
  <2>4. ASSUME NEW k \in Key
        PROVE  Top(k, NDb, MapOf(g[NDb])[k])
    <3> DEFINE T == {n \in 0 .. NDb : Top(k, n, MapOf(g[n])[k])}
    <3>1. 0 \in T
      <4>1. MapOf(g[0])[k] = None
        BY <2>1, NilPlain DEF Merges
      <4> QED BY <1>0, <4>1 DEF Top
    <3>2. ASSUME NEW n \in 1 .. NDb, n - 1 \in T
          PROVE  n \in T
      <4>1. PICK b \in Plain : b = g[n - 1]
        BY <1>0, <2>1 DEF Merges
      <4>2. PICK c \in Seq(Pairs) : c = Decoded(n)
        BY <1>0
      <4>3. g[n] = Visited(b, c)
        BY <1>0, <2>1, <4>1, <4>2 DEF Merges
      <4>4. MapOf(g[n])[k] = IF Read(Decoded(n), k) # None THEN Read(Decoded(n), k)
                             ELSE MapOf(g[n - 1])[k]
        BY <1>2, <4>1, <4>2, <4>3, VisitedIs DEF Read
      <4>5. /\ \A d \in 1 .. n : d = n \/ d \in 1 .. (n - 1)
            /\ \A d \in 1 .. (n - 1) : d \in 1 .. n
            /\ n \in 1 .. n /\ n \in 0 .. NDb
            /\ \A d \in 1 .. n : ~(d > n)
        BY <1>0
      <4>6. Top(k, n - 1, MapOf(g[n - 1])[k])
        BY <3>2
      <4>7. CASE Read(Decoded(n), k) # None
        BY <4>4, <4>5, <4>7 DEF Top
      <4>8. CASE Read(Decoded(n), k) = None
        <5>1. MapOf(g[n])[k] = MapOf(g[n - 1])[k]
          BY <4>4, <4>8
        <5>2. Top(k, n, MapOf(g[n - 1])[k])
          <6>1. PICK v : v = MapOf(g[n - 1])[k]
            OBVIOUS
          <6>2. Top(k, n - 1, v)
            BY <4>6, <6>1
          <6>3. Top(k, n, v)
            BY <4>5, <4>8, <6>2 DEF Top
          <6> QED BY <6>1, <6>3
        <5> QED BY <4>5, <5>1, <5>2
      <4> QED BY <4>7, <4>8
    <3>3. NDb \in T
      <4>1. NDb \in 0 .. NDb
        BY <1>0
      <4> HIDE DEF T
      <4> QED BY <1>0, <3>1, <3>2, <4>1, UpTo
    <3> QED BY <3>3
  <2> QED BY <2>1, <2>3, <2>4
<1> QED BY <1>1, <1>2

\* What a load finds is the same as long as the databases are.
LEMMA LoadedKept ==
    ASSUME disk' = disk
    PROVE  /\ Loaded' = Loaded
           /\ \A d : Decoded(d)' = Decoded(d)
           /\ Disks' <=> Disks
<1>1. \A d : Decoded(d)' = Decoded(d)
  BY DEF Decoded
<1>2. Loaded' = Loaded
  BY DEF Loaded, Decoded
<1>3. Disks' <=> Disks
  BY DEF Disks
<1> QED BY <1>1, <1>2, <1>3

------------------------------------------------------------------------------
\* The inductive invariant of Recoverable.

\* A sync has pairs to read, or has read them.
Readable(y) == y.len \in Nat /\ y.bytes \in Seq(Pairs)

Sound ==
    /\ IsStore(values) /\ (NDb # 1 => Unique(values))
    /\ \A p \in Proc : pay[p].st.len \in Nat
    /\ \A p \in Proc, d \in Db : Readable(job[p][d])
    /\ Disks

\* In turn, a call is in the database that it has reached last, if any.
InTurn == ~async => \A p \in Proc, d \in Db :
             job[p][d] # NoSync => pc[p] = "sync" /\ d = at[p] - 1

\* Calls that do not overlap come one at a time, and after a load none has begun.
OneCall == calm => \A p, q \in Proc : pc[p] # "idle" /\ pc[q] # "idle" => p = q
Rested == calm /\ last = "none" => ~Busy

Found == calm /\ sess # "none" /\ last = "none" =>
            \A k \in Key : MapOf(Loaded)[k] = MapOf(values)[k]

\* A database that the call has yet to write, if it is the last one to have a
\* key, has the value from before the call; and so do they all together as long
\* as the call has neither written nor truncated one.
Old(d) == \E p \in Proc : Pending(p, d)
Last(d, k) == /\ Read(Decoded(d), k) # None
              /\ \A e \in Db : e > d => Read(Decoded(e), k) = None
Earlier ==
    /\ \A k \in Key, d \in Db : Old(d) /\ Last(d, k)
                                  => Read(Decoded(d), k) = before[k]
    /\ (\A d \in Db : Old(d)) /\ ~Torn => \A k \in Key : MapOf(Loaded)[k] = before[k]
Outdated == calm /\ ~async /\ sess # "none" /\ last # "none" => Earlier

RInv == IInv /\ Sound /\ InTurn /\ OneCall /\ Rested /\ Found /\ Outdated

LEMMA DbIs == NDb \in Nat /\ NDb >= 1 /\ Db = 1 .. NDb /\ 1 \in Db /\ NDb \in Db
BY SyncAssumption DEF Db

LEMMA NotTorn ==
    ASSUME ~Busy
    PROVE  ~Torn
BY DEF Busy, Torn, NoJob, NoSync, Job

LEMMA NoSyncReadable == Readable(NoSync)
BY DEF Readable, NoSync, Job

\* Only one value comes last.
LEMMA TopUnique ==
    ASSUME NEW k, NEW v, NEW w, Top(k, NDb, v), Top(k, NDb, w)
    PROVE  v = w
BY DbIs DEF Top

LEMMA OldBusy ==
    ASSUME NEW d \in Db, Old(d)
    PROVE  Busy
BY DEF Old, Pending, Busy, NoJob

\* A database that was written by the call gives every key its new value.
LEMMA WantedRead ==
    ASSUME Sound, NEW d \in Db, disk[d] = Wanted, NEW k \in Key
    PROVE  Read(Decoded(d), k) = Target[k]
<1>1. CASE last = "destroy"
  <2>1. Decoded(d) = << >>
    BY <1>1 DEF Wanted, Decoded
  <2> QED BY <1>1, <2>1, ReadNothing DEF Target, Empty
<1>2. CASE last # "destroy"
  <2>1. Content(values) \in Seq(Pairs) /\ Read(Content(values), k) = MapOf(values)[k]
    BY ReadContent DEF Sound
  <2>2. Decoded(d) = Content(values)
    BY <1>2, <2>1, SyncAssumption DEF Wanted, Decoded, Pairs
  <2> QED BY <1>2, <2>1, <2>2 DEF Target
<1> QED BY <1>1, <1>2

\* What a load finds.
LEMMA Recovered ==
    ASSUME RInv, calm, ~async, sess # "none", NEW k \in Key
    PROVE  \/ MapOf(Loaded)[k] = Target[k]
           \/ Busy /\ MapOf(Loaded)[k] = before[k]
           \/ Torn /\ MapOf(Loaded)[k] = None
<1>1. CASE last = "none"
  BY <1>1 DEF RInv, Found, Target
<1>2. CASE last # "none"
  <2>1. Top(k, NDb, MapOf(Loaded)[k])
    BY LoadedIs DEF RInv, Sound
  <2>2. Earlier
    BY <1>2 DEF RInv, Outdated
  <2>3. \A d \in Db : disk[d] = Wanted \/ Old(d)
    BY <1>2 DEF RInv, IInv, Covered, Old
  <2>4. \A d \in Db : ~Old(d) => Read(Decoded(d), k) = Target[k]
    BY <2>3, WantedRead DEF RInv
  <2>5. CASE MapOf(Loaded)[k] # None
    <3>1. PICK d \in Db : Read(Decoded(d), k) = MapOf(Loaded)[k] /\ Last(d, k)
      BY <2>1, <2>5, DbIs DEF Top, Last
    <3>2. CASE Old(d)
      BY <2>2, <3>1, <3>2, OldBusy DEF Earlier
    <3>3. CASE ~Old(d)
      BY <2>4, <3>1, <3>3
    <3> QED BY <3>2, <3>3
  <2>6. CASE MapOf(Loaded)[k] = None
    <3>1. \A d \in Db : Read(Decoded(d), k) = None
      BY <2>1, <2>6, DbIs DEF Top
    <3>2. CASE \A d \in Db : Old(d)
      BY <2>2, <2>6, <3>2, DbIs, OldBusy DEF Earlier
    <3>3. CASE \E d \in Db : ~Old(d)
      BY <2>4, <2>6, <3>1, <3>3
    <3> QED BY <3>2, <3>3
  <2> QED BY <2>5, <2>6
<1> QED BY <1>1, <1>2

\* A call begins: what a load finds now is what it calls before.
LEMMA BeginRecovers ==
    ASSUME RInv, NEW p \in Proc, NEW a \in {"update", "destroy"}, Begin(p, a),
           IInv', sess # "none", UNCHANGED <<async, at, disk>>,
           IsStore(values'), NDb # 1 => Unique(values'),
           \A q \in Proc : pay'[q].st.len \in Nat,
           \A q \in Proc, d \in Db : /\ Readable(job'[q][d])
                                     /\ job'[q][d] # NoSync => job[q][d] # NoSync
    PROVE  RInv'
<1>1. Sound'
  BY LoadedKept DEF RInv, Sound, IsStore, Unique
<1>2. /\ pc[p] = "idle" /\ pc'[p] = "unlocked"
      /\ \A q \in Proc : q # p => pc'[q] = pc[q]
      /\ last' = IF Busy THEN "none" ELSE a
      /\ calm' = (calm /\ ~Busy)
      /\ before' = Target
  BY DEF Begin, RInv, IInv, Shape
<1>3. InTurn'
  <2> SUFFICES ASSUME ~async, NEW q \in Proc, NEW d \in Db, job'[q][d] # NoSync
               PROVE  pc'[q] = "sync" /\ d = at'[q] - 1
    BY DEF InTurn, NoSync, Job
  <2>1. pc[q] = "sync" /\ d = at[q] - 1
    BY DEF RInv, InTurn
  <2> QED BY <1>2, <2>1
<1>4. CASE ~calm'
  BY <1>1, <1>3, <1>4 DEF RInv, OneCall, Rested, Found, Outdated
<1>5. CASE calm'
  <2>1. calm /\ ~Busy /\ last' = a /\ \A q \in Proc : pc[q] = "idle"
    BY <1>2, <1>5 DEF Busy
  <2>2. OneCall'
    BY <1>2, <2>1 DEF OneCall
  <2>3. Rested' /\ Found'
    BY <2>1 DEF Rested, Found
  <2>4. ASSUME ~async
        PROVE  Earlier'
    <3>1. \A k \in Key : MapOf(Loaded)[k] = before'[k]
      BY <1>2, <2>1, <2>4, Recovered, NotTorn
    <3>2. ASSUME NEW k \in Key, NEW d \in Db, Last(d, k)
          PROVE  Read(Decoded(d), k) = before'[k]
      <4>1. Top(k, NDb, Read(Decoded(d), k))
        BY <3>2, DbIs DEF Last, Top
      <4>2. Top(k, NDb, MapOf(Loaded)[k])
        BY LoadedIs DEF RInv, Sound
      <4> QED BY <3>1, <4>1, <4>2, TopUnique
    <3>3. \A k : MapOf(Loaded')[k] = MapOf(Loaded)[k]
      BY LoadedKept
    <3>4. \A k \in Key, d \in Db : Last(d, k)' => Last(d, k)
      BY LoadedKept DEF Last
    <3>5. \A k \in Key, d \in Db : Old(d)' /\ Last(d, k)' => Read(Decoded(d)', k) = before'[k]
      BY <3>2, <3>4, LoadedKept
    <3>6. \A k \in Key : MapOf(Loaded')[k] = before'[k]
      BY <3>1, <3>3
    <3> QED BY <3>5, <3>6 DEF Earlier, Read, MapOf
  <2>5. Outdated'
    BY <2>4 DEF Outdated
  <2> QED BY <1>1, <1>3, <2>2, <2>3, <2>5 DEF RInv
<1> QED BY <1>4, <1>5

\* A step of a call that neither begins nor writes.
LEMMA GoesOn ==
    ASSUME RInv, Busy, UNCHANGED <<sess, async, disk, last, calm, before>>,
           \A d \in Db : Old(d)' => Old(d), Torn => Torn'
    PROVE  Rested' /\ Found' /\ Outdated'
<1>1. ~(calm /\ last = "none")
  BY DEF RInv, Rested
<1>2. Rested' /\ Found'
  BY <1>1 DEF Rested, Found
<1>3. ASSUME Earlier
      PROVE  Earlier'
  <2>1. \A k \in Key, d \in Db : Last(d, k)' => Last(d, k)
    BY LoadedKept DEF Last
  <2>2. \A k \in Key, d \in Db : Old(d)' /\ Last(d, k)' => Read(Decoded(d)', k) = before'[k]
    BY <1>3, <2>1, LoadedKept DEF Earlier
  <2>3. \A k : MapOf(Loaded')[k] = MapOf(Loaded)[k]
    BY LoadedKept
  <2>4. (\A d \in Db : Old(d)') /\ ~Torn' => \A k \in Key : MapOf(Loaded')[k] = before'[k]
    BY <1>3, <2>3 DEF Earlier
  <2> QED BY <2>2, <2>4 DEF Earlier, Read, MapOf
<1>4. Outdated'
  BY <1>3 DEF RInv, Outdated
<1> QED BY <1>2, <1>4

LEMMA AcquireRecovers ==
    ASSUME RInv, NEW p \in Proc, Acquire(p), IInv'
    PROVE  RInv'
<1>1. /\ pc[p] = "unlocked" /\ pc'[p] = "sync" /\ at[p] = 1
      /\ pay'[p].st = values
      /\ \A q \in Proc : q # p => pc'[q] = pc[q] /\ pay'[q] = pay[q]
      /\ UNCHANGED <<sess, values, async, act, at, job, disk, last, calm, before>>
  BY DEF RInv, IInv, Shape, Acquire
<1>2. Sound'
  <2>1. \A q \in Proc : pay'[q].st.len \in Nat
    BY <1>1 DEF RInv, Sound, IsStore
  <2> QED BY <1>1, <2>1, LoadedKept DEF RInv, Sound, IsStore, Unique
<1>3. InTurn'
  BY <1>1 DEF RInv, InTurn, NoSync, Job
<1>4. OneCall'
  BY <1>1 DEF RInv, OneCall
<1>5. Busy
  BY <1>1 DEF Busy
<1>6. \A d \in Db : Old(d)' => Old(d)
  BY <1>1 DEF Old, Pending, NoSync, Job
<1>7. Torn => Torn'
  BY <1>1 DEF Torn
<1> QED BY <1>1, <1>2, <1>3, <1>4, <1>5, <1>6, <1>7, GoesOn DEF RInv

LEMMA SubmitRecovers ==
    ASSUME RInv, NEW p \in Proc, Submit(p), IInv'
    PROVE  RInv'
<1> DEFINE e == at[p]
           j == Job(act[p], pay[p].st.len, {pay[p].st.arr}, pay[p].shared)
<1>1. /\ pc[p] = "sync" /\ e \in Nat \ {0} /\ e <= NDb /\ (async \/ job[p] = NoJob)
      /\ UNCHANGED <<sess, values, async, pc, act, pay, disk, last, calm, before>>
  BY DEF RInv, IInv, Shape, Submit
<1>2. e \in Db
  BY <1>1, DbIs
<1>3. at'[p] = e + 1 /\ \A q \in Proc : q # p => at'[q] = at[q]
  BY <1>1 DEF RInv, IInv, Shape, Submit
<1>4. \A q \in Proc, d \in Db : job'[q][d] = IF q = p /\ d = e THEN j ELSE job[q][d]
  BY <1>2 DEF RInv, IInv, Shape, Submit
<1>5. Readable(j)
  BY DEF RInv, Sound, Readable, Job
<1> HIDE DEF j, e
<1>6. Sound'
  <2>1. \A q \in Proc, d \in Db : Readable(job'[q][d])
    BY <1>4, <1>5 DEF RInv, Sound
  <2> QED BY <1>1, <2>1, LoadedKept DEF RInv, Sound, IsStore, Unique
<1>7. InTurn'
  <2> SUFFICES ASSUME ~async, NEW q \in Proc, NEW d \in Db, job'[q][d] # NoSync
               PROVE  pc'[q] = "sync" /\ d = at'[q] - 1
    BY <1>1 DEF InTurn, NoSync, Job
  <2>1. CASE q # p
    BY <1>1, <1>3, <1>4, <2>1 DEF RInv, InTurn
  <2>2. CASE q = p /\ d = e
    BY <1>1, <1>3, <2>2 DEF e
  <2>3. CASE q = p /\ d # e
    BY <1>1, <1>4, <2>3 DEF NoJob
  <2> QED BY <2>1, <2>2, <2>3
<1>8. OneCall'
  BY <1>1 DEF RInv, OneCall
<1>9. Busy
  BY <1>1 DEF Busy
<1>10. ASSUME NEW d \in Db, Old(d)'
       PROVE  Old(d)
  <2>1. PICK q \in Proc : Pending(q, d)'
    BY <1>10 DEF Old
  <2>2. Pending(q, d)
    <3>1. d \in Nat
      BY DbIs
    <3>2. CASE q # p
      BY <1>1, <1>3, <1>4, <2>1, <3>2 DEF Pending, NoSync, Job
    <3>3. CASE q = p /\ d >= e
      BY <1>1, <3>3 DEF Pending, e
    <3>4. CASE q = p /\ ~(d >= e)
      <4>1. d # e /\ ~(d >= e + 1)
        BY <1>1, <3>1, <3>4 DEF e
      <4>2. job'[q][d] # NoSync
        BY <1>1, <1>3, <2>1, <3>4, <4>1 DEF Pending, NoSync, Job
      <4> QED BY <1>4, <4>1, <4>2 DEF Pending
    <3> QED BY <3>2, <3>3, <3>4
  <2> QED BY <2>2 DEF Old
<1>11. Torn => Torn'
  <2>1. job[p][e] = NoSync
    BY DEF Submit, e
  <2> QED BY <1>4, <2>1 DEF Torn, NoSync, Job
<1> QED BY <1>1, <1>6, <1>7, <1>8, <1>9, <1>10, <1>11, GoesOn DEF RInv

LEMMA ReturnRecovers ==
    ASSUME RInv, NEW p \in Proc, Return(p), IInv'
    PROVE  RInv'
<1>1. /\ pc[p] = "sync" /\ pc'[p] = "idle" /\ (async \/ job[p] = NoJob)
      /\ pay'[p] = NoPay
      /\ \A q \in Proc : q # p => /\ pc'[q] = pc[q] /\ pay'[q] = pay[q]
                                  /\ at'[q] = at[q]
      /\ UNCHANGED <<sess, values, async, job, disk, last, calm, before>>
  BY DEF RInv, IInv, Shape, Return
<1>2. Sound'
  <2>1. NoPay.st.len = 0
    BY DEF NoPay, NilStore
  <2>2. \A q \in Proc : pay'[q].st.len \in Nat
    BY <1>1, <2>1 DEF RInv, Sound
  <2> QED BY <1>1, <2>2, LoadedKept DEF RInv, Sound, IsStore, Unique
<1>3. InTurn'
  <2> SUFFICES ASSUME ~async, NEW q \in Proc, NEW d \in Db, job[q][d] # NoSync
               PROVE  pc'[q] = "sync" /\ d = at'[q] - 1
    BY <1>1 DEF InTurn, NoSync, Job
  <2>1. q # p
    BY <1>1 DEF NoJob
  <2> QED BY <1>1, <2>1 DEF RInv, InTurn
<1>4. OneCall'
  BY <1>1 DEF RInv, OneCall
<1>5. Busy
  BY <1>1 DEF Busy
<1>6. \A d \in Db : Old(d)' => Old(d)
  BY <1>1 DEF Old, Pending, NoSync, Job
<1>7. Torn => Torn'
  BY <1>1 DEF Torn
<1> QED BY <1>1, <1>2, <1>3, <1>4, <1>5, <1>6, <1>7, GoesOn DEF RInv

\* A database is written in its turn, or its file truncated: those after it are
\* still to come.
LEMMA StoreRecovers ==
    ASSUME RInv, NEW p \in Proc, NEW e \in Db, IInv', Sound', job[p][e] # NoSync,
           UNCHANGED <<sess, values, async, pc, act, pay, at, last, calm, before>>,
           \A d \in Db : d # e => disk'[d] = disk[d],
           \A q \in Proc, d \in Db : job'[q][d] # NoSync => job[q][d] # NoSync,
           job'[p][e] = NoSync \/ (disk'[e] = Junk /\ Torn')
    PROVE  RInv'
<1>1. InTurn'
  BY DEF RInv, InTurn, NoSync, Job
<1>2. OneCall'
  BY DEF RInv, OneCall
<1>3. Busy
  BY DEF Busy, NoJob
<1>4. Rested' /\ Found'
  BY <1>3 DEF RInv, Rested, Found
<1>5. ASSUME calm, ~async, sess # "none", last # "none"
      PROVE  Earlier'
  <2>1. pc[p] = "sync" /\ e = at[p] - 1 /\ at[p] \in Nat \ {0} /\ e \in Nat
    BY <1>5, DbIs DEF RInv, InTurn, IInv, Shape
  <2>2. ASSUME NEW d \in Db, Old(d)'
        PROVE  Old(d) /\ (d > e \/ (d = e /\ job'[p][e] # NoSync))
    <3>1. PICK q \in Proc : Pending(q, d)'
      BY <2>2 DEF Old
    <3>2. \/ pc[q] = "unlocked"
          \/ pc[q] = "sync" /\ d >= at[q]
          \/ job'[q][d] # NoSync /\ job[q][d] # NoSync
      BY <3>1 DEF Pending, NoSync, Job
    <3>3. pc[q] # "idle"
      BY <1>5, <3>2 DEF RInv, InTurn
    <3>4. q = p
      BY <1>5, <2>1, <3>3 DEF RInv, OneCall
    <3>5. d \in Nat /\ (d >= at[p] \/ (d = e /\ job'[p][e] # NoSync))
      <4>1. d \in Nat
        BY DbIs
      <4>2. CASE job'[q][d] # NoSync /\ job[q][d] # NoSync
        <5>1. d = e
          BY <1>5, <2>1, <3>4, <4>2 DEF RInv, InTurn
        <5> QED BY <3>4, <4>1, <4>2, <5>1
      <4>3. CASE pc[q] = "sync" /\ d >= at[q]
        BY <3>4, <4>1, <4>3
      <4> QED BY <2>1, <3>2, <3>4, <4>2, <4>3
    <3>6. Pending(p, d)
      BY <2>1, <3>5 DEF Pending
    <3> QED BY <2>1, <3>5, <3>6 DEF Old
  <2>3. Earlier
    BY <1>5 DEF RInv, Outdated
  <2>4. \A d \in Db : d # e => Decoded(d)' = Decoded(d)
    BY DEF Decoded
  <2>5. ASSUME NEW k \in Key, NEW d \in Db, Old(d)', Last(d, k)'
        PROVE  Read(Decoded(d)', k) = before'[k]
    <3>1. Old(d) /\ d \in Nat /\ (d > e \/ (d = e /\ job'[p][e] # NoSync))
      BY <2>2, <2>5, DbIs
    <3>2. d # e
      <4> SUFFICES ASSUME d = e PROVE FALSE
        OBVIOUS
      <4>1. Decoded(d)' = << >>
        BY <2>1, <3>1 DEF Decoded
      <4>2. Read(Decoded(d)', k) = None
        BY <4>1, ReadNothing
      <4> QED BY <2>5, <4>2 DEF Last, Read, MapOf
    <3>3. Decoded(d)' = Decoded(d)
      BY <2>4, <3>2
    <3>4. ASSUME NEW x \in Db, x > d
          PROVE  Read(Decoded(x), k) = None
      <4>1. x # e /\ x \in Nat
        BY <2>1, <3>1, <3>2, <3>4, DbIs
      <4>2. Decoded(x)' = Decoded(x)
        BY <2>4, <4>1
      <4> QED BY <2>5, <3>4, <4>2 DEF Last
    <3>5. Last(d, k)
      BY <2>5, <3>3, <3>4 DEF Last
    <3> QED BY <2>3, <3>1, <3>3, <3>5 DEF Earlier
  <2>6. ~Old(e)' \/ Torn'
    BY <2>1, <2>2
  <2> QED BY <2>5, <2>6 DEF Earlier, Read, MapOf
<1>6. Outdated'
  BY <1>5 DEF Outdated
<1> QED BY <1>1, <1>2, <1>4, <1>6 DEF RInv

\* The syncs stay readable when one of them ends or has read its pairs.
LEMMA StoreSound ==
    ASSUME RInv, NEW e \in Db, UNCHANGED <<values, pay>>,
           \A d \in Db : d # e => disk'[d] = disk[d],
           disk'[e] \in {None, Junk} \/ disk'[e] \in Seq(Pairs),
           \A q \in Proc, d \in Db : Readable(job'[q][d])
    PROVE  Sound'
<1>1. Disks'
  BY DEF RInv, Sound, Disks
<1> QED BY <1>1 DEF RInv, Sound, IsStore, Unique

\* Serialize reads pairs.
LEMMA ReadingsPairs ==
    ASSUME NEW y, Readable(y), NEW c \in Readings(y)
    PROVE  c \in Seq(Pairs)
<1>1. PICK n \in Nat : n = y.len
  BY DEF Readable
<1>2. c \in [1 .. n -> Pairs]
  BY <1>1 DEF Readings, Pairs
<1> QED BY <1>2

LEMMA WriteRecovers ==
    ASSUME RInv, NEW p \in Proc, NEW e \in Db, Write(p, e), IInv'
    PROVE  RInv'
<1>1. /\ job[p][e] # NoSync /\ disk = [d \in Db |-> disk[d]]
      /\ UNCHANGED <<sess, values, async, pc, act, pay, at, last, calm, before>>
  BY DEF RInv, IInv, Shape, Write, Done, NoSync, Job
<1>2. \A q \in Proc, d \in Db : job'[q][d] = IF q = p /\ d = e THEN NoSync
                                             ELSE job[q][d]
  BY DEF RInv, IInv, Shape, Write, Done
<1>3. PICK c : /\ disk' = [disk EXCEPT ![e] = c]
               /\ c = job[p][e].bytes \/ c \in Readings(job[p][e])
  BY DEF Write
<1>4. c \in Seq(Pairs)
  BY <1>3, ReadingsPairs DEF RInv, Sound, Readable
<1>5. disk'[e] = c /\ \A d \in Db : d # e => disk'[d] = disk[d]
  BY <1>1, <1>3
<1>6. \A q \in Proc, d \in Db : Readable(job'[q][d])
  BY <1>2, NoSyncReadable DEF RInv, Sound
<1>7. Sound'
  BY <1>1, <1>4, <1>5, <1>6, StoreSound
<1>8. \A q \in Proc, d \in Db : job'[q][d] # NoSync => job[q][d] # NoSync
  BY <1>2
<1>9. job'[p][e] = NoSync
  BY <1>2
<1> QED BY <1>1, <1>5, <1>7, <1>8, <1>9, StoreRecovers

LEMMA RemoveRecovers ==
    ASSUME RInv, NEW p \in Proc, NEW e \in Db, Remove(p, e), IInv'
    PROVE  RInv'
<1>1. /\ job[p][e] # NoSync /\ disk = [d \in Db |-> disk[d]]
      /\ UNCHANGED <<sess, values, async, pc, act, pay, at, last, calm, before>>
  BY DEF RInv, IInv, Shape, Remove, NoSync, Job
<1>2. /\ job'[p][e] = NoSync
      /\ \A q \in Proc, d \in Db : job'[q][d] \in {NoSync, job[q][d]}
  BY DEF Remove
<1>3. disk'[e] = None /\ \A d \in Db : d # e => disk'[d] = disk[d]
  BY <1>1 DEF Remove
<1>4. \A q \in Proc, d \in Db : Readable(job'[q][d])
  BY <1>2, NoSyncReadable DEF RInv, Sound
<1>5. Sound'
  BY <1>1, <1>3, <1>4, StoreSound
<1>6. \A q \in Proc, d \in Db : job'[q][d] # NoSync => job[q][d] # NoSync
  BY <1>2
<1> QED BY <1>1, <1>2, <1>3, <1>5, <1>6, StoreRecovers

LEMMA TruncateRecovers ==
    ASSUME RInv, NEW p \in Proc, NEW e \in Db, Truncate(p, e), IInv'
    PROVE  RInv'
<1>1. /\ job[p][e] # NoSync /\ disk = [d \in Db |-> disk[d]]
      /\ UNCHANGED <<sess, values, async, pc, act, pay, at, last, calm, before>>
  BY DEF RInv, IInv, Shape, Truncate, NoSync, Job
<1>2. PICK c \in Readings(job[p][e]) :
          job' = [job EXCEPT ![p][e] = [NoSync EXCEPT !.act = "write", !.bytes = c]]
  BY DEF Truncate
<1>3. PICK j : j = [NoSync EXCEPT !.act = "write", !.bytes = c]
  OBVIOUS
<1>4. j.act = "write" /\ j.bytes = c /\ j.len = 0
  BY <1>3 DEF NoSync, Job
<1>5. \A q \in Proc, d \in Db : job'[q][d] = IF q = p /\ d = e THEN j ELSE job[q][d]
  <2>1. job' = [job EXCEPT ![p][e] = j]
    BY <1>2, <1>3
  <2> QED BY <2>1 DEF RInv, IInv, Shape
<1>6. Readable(j)
  BY <1>4, ReadingsPairs DEF RInv, Sound, Readable
<1>7. disk'[e] = Junk /\ \A d \in Db : d # e => disk'[d] = disk[d]
  BY <1>1 DEF Truncate
<1>8. \A q \in Proc, d \in Db : Readable(job'[q][d])
  BY <1>5, <1>6 DEF RInv, Sound
<1>9. Sound'
  BY <1>1, <1>7, <1>8, StoreSound
<1>10. Torn'
  BY <1>4, <1>5 DEF Torn
<1> QED BY <1>1, <1>5, <1>7, <1>9, <1>10, StoreRecovers

LEMMA FailsRecovers ==
    ASSUME RInv, NEW p \in Proc, NEW e \in Db, Fails(p, e), IInv'
    PROVE  RInv'
<1>1. /\ ~calm' /\ disk = [d \in Db |-> disk[d]]
      /\ UNCHANGED <<sess, values, async, pc, act, pay, at, before>>
  BY DEF RInv, IInv, Shape, Fails, Done
<1>2. \A q \in Proc, d \in Db : job'[q][d] = IF q = p /\ d = e THEN NoSync
                                             ELSE job[q][d]
  BY DEF RInv, IInv, Shape, Fails, Done
<1>3. /\ disk'[e] = disk[e] \/ disk'[e] = Junk
      /\ \A d \in Db : d # e => disk'[d] = disk[d]
  BY <1>1 DEF Fails
<1>4. \A q \in Proc, d \in Db : Readable(job'[q][d])
  BY <1>2, NoSyncReadable DEF RInv, Sound
<1>5. disk'[e] \in {None, Junk} \/ disk'[e] \in Seq(Pairs)
  BY <1>3 DEF RInv, Sound, Disks
<1>6. Sound'
  BY <1>1, <1>3, <1>4, <1>5, StoreSound
<1>7. InTurn'
  BY <1>1, <1>2 DEF RInv, InTurn, NoSync, Job
<1>8. OneCall' /\ Rested' /\ Found' /\ Outdated'
  BY <1>1 DEF OneCall, Rested, Found, Outdated
<1> QED BY <1>6, <1>7, <1>8 DEF RInv

LEMMA LoadRecovers ==
    ASSUME RInv, Load, IInv'
    PROVE  RInv'
<1>1. /\ sess' = "registered" /\ values' = Loaded /\ last' = "none"
      /\ \A p \in Proc : pc[p] = "idle"
      /\ calm' = (job = [p \in Proc |-> NoJob])
      /\ UNCHANGED <<async, pc, act, pay, at, disk>>
  BY DEF Load
<1>2. \A p \in Proc, d \in Db : job'[p][d] = [job[p][d] EXCEPT !.shared = FALSE]
  BY DEF Load
<1>3. NoSync.len = 0 /\ [NoSync EXCEPT !.shared = FALSE] = NoSync
  <2>1. PICK j : j = [NoSync EXCEPT !.shared = FALSE]
    OBVIOUS
  <2>2. j = NoSync
    BY <2>1 DEF NoSync, Job
  <2> QED BY <2>1, <2>2 DEF NoSync, Job
<1>4. Sound'
  <2>1. IsStore(values') /\ (NDb # 1 => Unique(values'))
    BY <1>1, LoadedIs DEF RInv, Sound
  <2>2. \A p \in Proc, d \in Db : Readable(job'[p][d])
    <3> SUFFICES ASSUME NEW p \in Proc, NEW d \in Db
                 PROVE  Readable(job'[p][d])
      OBVIOUS
    <3>1. PICK j : j = job[p][d] /\ Readable(j)
      BY DEF RInv, Sound
    <3>2. PICK i : i = [j EXCEPT !.shared = FALSE]
      OBVIOUS
    <3>3. i.len = j.len /\ i.bytes = j.bytes
      BY <3>2
    <3>4. Readable(i)
      BY <3>1, <3>3 DEF Readable
    <3> QED BY <1>2, <3>1, <3>2, <3>4
  <2> QED BY <1>1, <2>1, <2>2, LoadedKept DEF RInv, Sound, IsStore, Unique
<1>5. \A p \in Proc, d \in Db : job[p][d] = NoSync => job'[p][d] = NoSync
  BY <1>2, <1>3
<1>6. InTurn'
  BY <1>1, <1>5 DEF RInv, InTurn, NoSync, Job
<1>7. OneCall'
  BY <1>1 DEF OneCall
<1>8. Rested'
  <2> SUFFICES ASSUME calm' PROVE ~Busy'
    BY DEF Rested
  <2>0. job = [p \in Proc |-> NoJob]
    BY <1>1
  <2>1. \A p \in Proc, d \in Db : job'[p][d] = NoSync
    <3> SUFFICES ASSUME NEW p \in Proc, NEW d \in Db
                 PROVE  job'[p][d] = NoSync
      OBVIOUS
    <3>1. job[p] = NoJob
      BY <2>0
    <3>2. job[p][d] = NoSync
      BY <3>1 DEF NoJob
    <3> QED BY <1>5, <3>2
  <2>2. \A p \in Proc : job'[p] = NoJob
    BY <2>1 DEF IInv, Shape, NoJob
  <2> QED BY <1>1, <2>2 DEF Busy, NoJob, NoSync, Job
<1>9. Found'
  <2>1. \A k : MapOf(Loaded')[k] = MapOf(values')[k]
    BY <1>1, LoadedKept
  <2> QED BY <2>1 DEF Found, MapOf
<1>10. Outdated'
  BY <1>1 DEF Outdated
<1> QED BY <1>4, <1>6, <1>7, <1>8, <1>9, <1>10 DEF RInv

LEMMA RestartRecovers ==
    ASSUME RInv, Restart, IInv'
    PROVE  RInv'
<1>1. /\ sess' = "none" /\ values' = NilStore /\ last' = "none"
      /\ \A p \in Proc : pc'[p] = "idle" /\ pay'[p] = NoPay /\ job'[p] = NoJob
      /\ UNCHANGED <<async, disk>>
  BY DEF Restart
<1>2. \A p \in Proc, d \in Db : job'[p][d] = NoSync
  BY <1>1 DEF NoJob
<1>3. Sound'
  <2>1. Readable(NoSync) /\ NoPay.st.len = 0
    BY NoSyncReadable DEF NoPay, NilStore
  <2>2. IsStore(NilStore) /\ Unique(NilStore)
    BY NilPlain, PlainIs
  <2>3. IsStore(values') /\ Unique(values')
    BY <1>1, <2>2
  <2> QED BY <1>1, <1>2, <2>1, <2>3, LoadedKept DEF RInv, Sound, IsStore, Unique
<1>4. InTurn' /\ OneCall'
  BY <1>1, <1>2 DEF InTurn, OneCall, NoSync, Job
<1>5. ~Busy'
  BY <1>1 DEF Busy, NoJob, NoSync, Job
<1>6. Rested' /\ Found' /\ Outdated'
  BY <1>1, <1>5 DEF Rested, Found, Outdated
<1> QED BY <1>3, <1>4, <1>6 DEF RInv

\* Set, Delete and Clear.
LEMMA ChangeRecovers ==
    ASSUME RInv, NEW p \in Proc, NEW new, Change(p, new), IInv',
           IsStore(new), NDb # 1 => Unique(new)
    PROVE  RInv'
<1>1. /\ pay' = [q \in Proc |-> Follow(pay[q], new)]
      /\ job' = [q \in Proc |-> [d \in Db |-> FollowJob(job[q][d], new)]]
      /\ Begin(p, "update") /\ values' = new /\ sess # "none"
      /\ UNCHANGED <<async, at, disk>>
  BY DEF Change
<1>2. \A q \in Proc : pay'[q].st.len \in Nat
  BY <1>1 DEF Follow, RInv, Sound
<1>3. FollowJob(NoSync, new) = NoSync
  BY DEF FollowJob, NoSync, Job
<1>4. \A q \in Proc, d \in Db : /\ Readable(job'[q][d])
                                /\ job'[q][d] # NoSync => job[q][d] # NoSync
  BY <1>1, <1>3 DEF FollowJob, RInv, Sound, Readable, Job
<1> QED BY <1>1, <1>2, <1>4, BeginRecovers

LEMMA RInductive ==
    ASSUME RInv, [Next]_vars
    PROVE  RInv'
<1>0. IInv'
  BY Inductive DEF RInv
<1>v. IsStore(values) /\ (NDb # 1 => Unique(values)) /\ values.len \in Nat
  BY DEF RInv, Sound, IsStore
<1>1. CASE Load
  BY <1>0, <1>1, LoadRecovers
<1>2. CASE Restart
  BY <1>0, <1>2, RestartRecovers
<1>3. ASSUME NEW p \in Proc, NEW k \in Key, NEW v \in Value, NEW f \in Flags,
             NEW spare \in Spare, Set(p, [key |-> k, value |-> v, immutable |-> f], spare)
      PROVE  RInv'
  <2>1. PICK e \in Entry : e = [key |-> k, value |-> v, immutable |-> f]
    BY SyncAssumption DEF Entry
  <2>2. PICK new : new = Saved(values, e, spare)
    OBVIOUS
  <2>3. IsStore(new) /\ (NDb # 1 => Unique(new))
    BY <1>v, <2>2, SavedStore, ConstantsAssumption
  <2>4. Change(p, new)
    BY <1>3, <2>1, <2>2 DEF Set
  <2> QED BY <1>0, <2>3, <2>4, ChangeRecovers
<1>4. ASSUME NEW p \in Proc, NEW k \in Key, Delete(p, k)
      PROVE  RInv'
  <2>1. PICK new : new = IF IndexOf(values, k) = 0 THEN values
                         ELSE RemoveAt(values, IndexOf(values, k))
    OBVIOUS
  <2>2. IndexOf(values, k) # 0 => IndexOf(values, k) \in 1 .. values.len
    BY <1>v, Search DEF FirstAt
  <2>3. IsStore(new) /\ (NDb # 1 => Unique(new))
    BY <1>v, <2>1, <2>2, RemovedStore
  <2>4. Change(p, new)
    BY <1>4, <2>1 DEF Delete
  <2> QED BY <1>0, <2>3, <2>4, ChangeRecovers
<1>5. ASSUME NEW p \in Proc, Clear(p)
      PROVE  RInv'
  <2>1. PICK new : new = ResetStore(values)
    OBVIOUS
  <2>2. IsStore(new) /\ Unique(new)
    BY <1>v, <2>1, ResetIsStore
  <2>3. Change(p, new)
    BY <1>5, <2>1 DEF Clear
  <2> QED BY <1>0, <2>2, <2>3, ChangeRecovers
<1>6. ASSUME NEW p \in Proc, Destroy(p)
      PROVE  RInv'
  <2>1. /\ Begin(p, "destroy") /\ sess # "none"
        /\ UNCHANGED <<values, async, pay, at, job, disk>>
    BY <1>6 DEF Destroy
  <2>2. IsStore(values') /\ (NDb # 1 => Unique(values'))
    BY <1>v, <2>1
  <2>3. /\ \A q \in Proc : pay'[q].st.len \in Nat
        /\ \A q \in Proc, d \in Db : /\ Readable(job'[q][d])
                                     /\ job'[q][d] # NoSync => job[q][d] # NoSync
    BY <2>1 DEF RInv, Sound
  <2> QED BY <1>0, <2>1, <2>2, <2>3, BeginRecovers
<1>7. ASSUME NEW p \in Proc,
             \/ Acquire(p) \/ Submit(p) \/ Return(p)
             \/ \E d \in Db : Remove(p, d) \/ Truncate(p, d) \/ Write(p, d) \/ Fails(p, d)
      PROVE  RInv'
  BY <1>0, <1>7, AcquireRecovers, SubmitRecovers, ReturnRecovers, RemoveRecovers,
     TruncateRecovers, WriteRecovers, FailsRecovers
<1>8. CASE UNCHANGED vars
  <2>1. /\ UNCHANGED <<sess, values, async, pc, pay, at, job, disk, last, calm, before>>
        /\ Loaded' = Loaded
    BY <1>8, LoadedKept DEF vars
  <2>2. Sound' /\ InTurn' /\ OneCall' /\ Rested'
    BY <2>1, LoadedKept DEF RInv, Sound, IsStore, Unique, InTurn, OneCall, Rested,
                            Busy, NoJob, NoSync, Job
  <2>3. \A k : MapOf(Loaded')[k] = MapOf(Loaded)[k] /\ MapOf(values')[k] = MapOf(values)[k]
    BY <2>1
  <2>4. Found'
    BY <2>1, <2>3 DEF RInv, Found, MapOf
  <2>5. Outdated'
    <3>1. \A d \in Db : Old(d)' => Old(d)
      BY <2>1 DEF Old, Pending, NoSync, Job
    <3>2. \A k \in Key, d \in Db : Last(d, k)' => Last(d, k)
      BY <2>1, LoadedKept DEF Last
    <3>3. ASSUME Earlier
          PROVE  Earlier'
      <4>1. \A k \in Key, d \in Db : Old(d)' /\ Last(d, k)' => Read(Decoded(d)', k) = before'[k]
        BY <2>1, <3>1, <3>2, <3>3, LoadedKept DEF Earlier
      <4>2. (\A d \in Db : Old(d)') /\ ~Torn' => \A k \in Key : MapOf(Loaded')[k] = before'[k]
        BY <2>1, <2>3, <3>1, <3>3 DEF Earlier, Torn
      <4> QED BY <4>1, <4>2 DEF Earlier, Read, MapOf
    <3> QED BY <2>1, <3>3 DEF RInv, Outdated
  <2> QED BY <1>0, <2>2, <2>4, <2>5 DEF RInv
<1> QED BY <1>1, <1>2, <1>3, <1>4, <1>5, <1>6, <1>7, <1>8 DEF Next

LEMMA RInitial == Init => RInv
<1> SUFFICES ASSUME Init PROVE RInv
  OBVIOUS
<1>1. /\ sess = "none" /\ values = NilStore /\ last = "none"
      /\ \A p \in Proc : pc[p] = "idle" /\ pay[p] = NoPay /\ job[p] = NoJob
      /\ \A d \in Db : disk[d] = None
  BY DEF Init
<1>2. \A p \in Proc, d \in Db : job[p][d] = NoSync
  BY <1>1 DEF NoJob
<1>3. Sound
  <2>1. Readable(NoSync) /\ NoPay.st.len = 0
    BY NoSyncReadable DEF NoPay, NilStore
  <2>2. IsStore(values) /\ Unique(values)
    BY <1>1, NilPlain, PlainIs
  <2> QED BY <1>1, <1>2, <2>1, <2>2 DEF Sound, Disks
<1>4. InTurn /\ OneCall /\ Rested /\ Found /\ Outdated
  BY <1>1, <1>2 DEF InTurn, OneCall, Rested, Busy, Found, Outdated
<1> QED BY <1>3, <1>4, Initial DEF RInv

\* Wherever the process stops during calls that do not overlap and do not fail,
\* loadSessionFromDB finds for each key the value from before or from after the
\* call, however many databases syncDatabases had reached, or no value while
\* WriteFile has truncated a file; between calls it finds what memory held.
THEOREM CrashRecoverable == Spec => []Recoverable
<1>1. ASSUME RInv
      PROVE  Recoverable
  BY <1>1, Recovered DEF Recoverable
<1> QED BY <1>1, RInitial, RInductive, PTL DEF Spec
==============================================================================
