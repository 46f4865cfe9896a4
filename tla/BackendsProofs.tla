--------------------------- MODULE BackendsProofs ----------------------------
(***************************************************************************)
(* Proofs about Backends, for any number of sessions, syncs, faults and     *)
(* restarts: what the databases of sessiondb/ keep of a session.           *)
(***************************************************************************)
EXTENDS Backends, FiniteSetTheorems, TLAPS

Blobs == [st : {"absent", "junk", "ok"}, ver : Nat, date : Nat, ttl : Nat,
          asked : Nat, wrote : Nat]

Tasks == [pc : {"idle", "begin", "write", "send"}, sid : Sid \cup {None},
          destroy : BOOLEAN, ver : Nat, date : Nat, good : BOOLEAN,
          linked : BOOLEAN, secs : Int, asked : Nat, alone : BOOLEAN]

Known == [ver : Int, date : Nat]

\* Division by a positive number, as SMT needs it spelled out.
LEMMA Division ==
    ASSUME NEW a \in Nat, NEW b \in Nat \ {0}
    PROVE  /\ a \div b \in Nat
           /\ (a \div b) * b \in Nat
           /\ (a \div b) * b <= a
           /\ a < (a \div b) * b + b
OBVIOUS

\* n are the whole seconds from the time a to the date d, as far as Set makes a
\* difference between them.
Whole(n, d, a) ==
    IF n > 0 THEN n * Second <= d - a /\ d - a < n * Second + Second
    ELSE d = 0 \/ d < a + Second

\* What redis' Sync computes from a date.
LEMMA SecondsOf ==
    ASSUME NEW d \in Nat, now \in Nat
    PROVE  Seconds(d) \in Int /\ Whole(Seconds(d), d, now)
<1>1. Second \in Nat \ {0}
  BY BackendsAssumption
<1>2. CASE d # 0 /\ d >= now
  <2> DEFINE k == (d - now) \div Second
  <2>1. Seconds(d) = k
    BY <1>2 DEF Seconds
  <2>2. /\ k \in Nat /\ k * Second \in Nat
        /\ k * Second <= d - now
        /\ d - now < k * Second + Second
    BY <1>1, <1>2, Division
  <2>3. k = 0 => k * Second = 0
    BY <1>1
  <2> HIDE DEF k
  <2>4. k > 0 \/ k = 0
    BY <2>2
  <2>5. CASE k > 0
    BY <2>1, <2>2, <2>5 DEF Whole
  <2>6. CASE k = 0
    <3>1. d < now + Second
      BY <1>1, <1>2, <2>2, <2>3, <2>6
    <3> QED BY <2>1, <2>6, <3>1 DEF Whole
  <2> QED BY <2>4, <2>5, <2>6
<1>3. CASE d # 0 /\ d < now
  <2>1. (now - d) \div Second \in Nat
    BY <1>1, <1>3, Division
  <2>2. Seconds(d) \in Int /\ ~(Seconds(d) > 0)
    BY <1>3, <2>1 DEF Seconds
  <2>3. d < now + Second
    BY <1>1, <1>3
  <2> QED BY <2>2, <2>3 DEF Whole
<1>4. CASE d = 0
  BY <1>4 DEF Seconds, Whole
<1> QED BY <1>2, <1>3, <1>4

\* What Set makes of the seconds that were computed at the time a.
LEMMA TtlOf ==
    ASSUME now \in Nat, NEW n \in Int, NEW d \in Nat, NEW a \in Nat, a <= now,
           Whole(n, d, a)
    PROVE  /\ Ttl(n) \in Nat
           /\ \/ /\ Ttl(n) # 0 /\ d # 0 /\ Ttl(n) <= d + (now - a)
                 /\ d + (now - a) < Ttl(n) + Second
              \/ Ttl(n) = 0 /\ (d = 0 \/ d < a + Second)
<1>1. Second \in Nat \ {0}
  BY BackendsAssumption
<1>2. CASE n > 0
  <2>1. PICK m \in Int : m = n * Second
    BY <1>1
  <2>2. m > 0
    BY <1>1, <1>2, <2>1
  <2>3. m <= d - a /\ d - a < m + Second
    BY <1>2, <2>1 DEF Whole
  <2>4. Ttl(n) = now + m
    BY <1>2, <2>1 DEF Ttl
  <2> QED BY <1>1, <2>2, <2>3, <2>4
<1>3. CASE ~(n > 0)
  BY <1>3 DEF Ttl, Whole
<1> QED BY <1>2, <1>3

------------------------------------------------------------------------------
\* The types, with the records named.
Shape ==
    /\ kind \in Kinds
    /\ conn \in {"new", "open", "closed"}
    /\ dev \in {"ok", "full", "down"}
    /\ now \in Nat
    /\ stored \in [Sid -> Blobs]
    /\ task \in [Task -> Tasks]
    /\ syncs \in Nat
    /\ steady \in BOOLEAN
    /\ expect \in [Sid -> Known]

\* Shape is TypeOK.
LEMMA ShapeIsType == Shape <=> TypeOK
BY DEF Shape, TypeOK, Blobs, Tasks, Known

\* The constant records have their types.
LEMMA Constants ==
    /\ Absent \in Blobs /\ Junk \in Blobs /\ NoTask \in Tasks /\ Unknown \in Known
    /\ Absent.st = "absent" /\ Absent.ttl = 0
    /\ Junk.st = "junk" /\ Junk.ttl = 0
    /\ Absent.asked <= Absent.wrote /\ Junk.asked <= Junk.wrote
    /\ NoTask.pc = "idle" /\ NoTask.sid = None /\ NoTask.alone = FALSE
    /\ Unknown.ver = -1
BY DEF Absent, Junk, Blob, NoTask, Unknown, Blobs, Tasks, Known

\* What the end of a Sync does to the tasks and to the history.
LEMMA EndType ==
    ASSUME Shape, NEW t \in Task, NEW ok \in BOOLEAN, End(t, ok)
    PROVE  /\ task' \in [Task -> Tasks]
           /\ \A u \in Task : task'[u] = IF u = t THEN NoTask ELSE task[u]
           /\ expect' \in [Sid -> Known]
           /\ \A s \in Sid : s # task[t].sid => expect'[s] = expect[s]
           /\ \A s \in Sid : s = task[t].sid =>
                 IF task[t].alone /\ ok
                 THEN expect'[s] = IF task[t].destroy THEN [ver |-> 0, date |-> 0]
                                   ELSE [ver |-> task[t].ver, date |-> task[t].date]
                 ELSE expect'[s] = Unknown
<1>1. task[t] \in Tasks
  BY DEF Shape
<1>2. /\ task' \in [Task -> Tasks]
      /\ \A u \in Task : task'[u] = IF u = t THEN NoTask ELSE task[u]
  BY Constants DEF Shape, End
<1>3. PICK e \in Known :
          /\ expect' = [expect EXCEPT ![task[t].sid] = e]
          /\ IF task[t].alone /\ ok
             THEN e = IF task[t].destroy THEN [ver |-> 0, date |-> 0]
                      ELSE [ver |-> task[t].ver, date |-> task[t].date]
             ELSE e = Unknown
  <2> DEFINE e == IF task[t].alone /\ ok
                  THEN [ver |-> IF task[t].destroy THEN 0 ELSE task[t].ver,
                        date |-> IF task[t].destroy THEN 0 ELSE task[t].date]
                  ELSE Unknown
  <2>1. e \in Known
    BY <1>1, Constants DEF Known, Tasks
  <2>2. expect' = [expect EXCEPT ![task[t].sid] = e]
    BY DEF End
  <2> QED BY <2>1, <2>2
<1> QED BY <1>2, <1>3 DEF Shape

\* What the beginning of a Sync does to the tasks and to the history.
LEMMA BeginType ==
    ASSUME Shape, NEW t \in Task, NEW s \in Sid, NEW d \in Nat,
           NEW destroy \in BOOLEAN, NEW good \in BOOLEAN,
           BeginSync(t, s, d, destroy, good)
    PROVE  /\ task' \in [Task -> Tasks]
           /\ task'[t].sid = s /\ task'[t].pc = "begin"
           /\ task'[t].alone <=> \A u \in Task : task[u].sid # s
           /\ \A u \in Task : u # t =>
                 /\ task'[u].pc = task[u].pc
                 /\ task'[u].sid = task[u].sid
                 /\ task'[u].destroy = task[u].destroy
                 /\ task'[u].linked = task[u].linked
                 /\ task'[u].date = task[u].date /\ task'[u].secs = task[u].secs
                 /\ task'[u].asked = task[u].asked
                 /\ task'[u].alone <=> (task[u].alone /\ task[u].sid # s)
           /\ expect' \in [Sid -> Known]
           /\ \A r \in Sid : expect'[r] = IF r = s THEN Unknown ELSE expect[r]
<1> DEFINE others == {u \in Task : task[u].sid = s}
           new == [pc |-> "begin", sid |-> s, destroy |-> destroy,
                   ver |-> syncs + 1, date |-> d, good |-> good,
                   linked |-> FALSE, secs |-> 0, asked |-> 0,
                   alone |-> others = {}]
<1>1. task' = [u \in Task |-> IF u = t THEN new
                              ELSE IF u \in others
                                   THEN [task[u] EXCEPT !.alone = FALSE]
                                   ELSE task[u]]
  BY DEF BeginSync
<1>2. new \in Tasks /\ (new.alone <=> \A u \in Task : task[u].sid # s)
  <2>1. (others = {}) \in BOOLEAN /\ syncs + 1 \in Nat
    BY DEF Shape
  <2>2. new.alone = (others = {})
    OBVIOUS
  <2>3. (others = {}) <=> \A u \in Task : task[u].sid # s
    OBVIOUS
  <2> HIDE DEF others
  <2>4. new \in Tasks
    BY <2>1 DEF Tasks
  <2> QED BY <2>2, <2>3, <2>4
<1>3. \A u \in Task : [task[u] EXCEPT !.alone = FALSE] \in Tasks
  BY DEF Shape, Tasks
<1>4. task' \in [Task -> Tasks]
  <2> HIDE DEF new, others
  <2> QED BY <1>1, <1>2, <1>3 DEF Shape
<1>5. task'[t] = new
  <2> HIDE DEF new
  <2> QED BY <1>1
<1>6. ASSUME NEW u \in Task, u # t
      PROVE  /\ task'[u].pc = task[u].pc
             /\ task'[u].sid = task[u].sid
             /\ task'[u].destroy = task[u].destroy
             /\ task'[u].linked = task[u].linked
             /\ task'[u].date = task[u].date /\ task'[u].secs = task[u].secs
             /\ task'[u].asked = task[u].asked
             /\ task'[u].alone <=> (task[u].alone /\ task[u].sid # s)
  <2>1. task[u] \in Tasks
    BY DEF Shape
  <2>2. task'[u] = IF task[u].sid = s THEN [task[u] EXCEPT !.alone = FALSE]
                   ELSE task[u]
    BY <1>1, <1>6
  <2> QED BY <2>1, <2>2 DEF Tasks
<1>7. /\ expect' \in [Sid -> Known]
      /\ \A r \in Sid : expect'[r] = IF r = s THEN Unknown ELSE expect[r]
  BY Constants DEF BeginSync, Shape
<1> QED BY <1>2, <1>4, <1>5, <1>6, <1>7

------------------------------------------------------------------------------
\* With at most Prefetch sessions badger's iterator fills no buffer twice, so
\* its Cleanup deletes the key it means: the places of the sessions are distinct
\* and none is a whole round of buffers from another.
LEMMA BadgerCommit ==
    ASSUME Shape, kind = "badger", FewSessions, NEW s \in Sid, Expired(s)
    PROVE  AtCommit(s) = s
<1> DEFINE Upto(r) == {q \in Sid : stored[q].st # "absent" /\ q <= r}
<1>1. Sid \subseteq Nat /\ IsFiniteSet(Sid) /\ Prefetch \in Nat \ {0}
  BY BackendsAssumption
<1>2. Cardinality(Sid) \in Nat /\ Cardinality(Sid) <= Prefetch
  BY <1>1, FS_CardinalityType DEF FewSessions
<1>3. ASSUME NEW r \in Sid, stored[r].st # "absent"
      PROVE  Place(r) \in 1 .. Prefetch
  <2>1. Upto(r) \subseteq Sid /\ r \in Upto(r)
    BY <1>1, <1>3
  <2>2. IsFiniteSet(Upto(r)) /\ Cardinality(Upto(r)) <= Cardinality(Sid)
    BY <1>1, <2>1, FS_Subset
  <2>3. Cardinality(Upto(r)) \in Nat /\ Cardinality(Upto(r)) # 0
    BY <2>1, <2>2, FS_CardinalityType, FS_EmptySet
  <2>4. Place(r) = Cardinality(Upto(r))
    BY DEF Place
  <2> HIDE DEF Upto
  <2> QED BY <1>1, <1>2, <2>2, <2>3, <2>4
<1>4. ASSUME NEW q \in Sid, NEW r \in Sid, q < r,
             stored[q].st # "absent", stored[r].st # "absent"
      PROVE  Place(q) # Place(r)
  <2>1. Upto(q) \subseteq Upto(r) /\ r \notin Upto(q) /\ r \in Upto(r)
    <3>1. q \in Nat /\ r \in Nat /\ ~(r <= q) /\ r <= r
      BY <1>1, <1>4
    <3>2. \A x \in Sid : x <= q => x <= r
      BY <1>1, <1>4
    <3> QED BY <1>4, <3>1, <3>2
  <2>2. IsFiniteSet(Upto(r))
    BY <1>1, FS_Subset
  <2>3. Cardinality(Upto(q)) = Cardinality(Upto(r)) => Upto(q) = Upto(r)
    <3> HIDE DEF Upto
    <3> QED BY <2>1, <2>2, FS_Subset
  <2> QED BY <2>1, <2>3 DEF Place
<1>5. stored[s].st # "absent"
  BY DEF Expired
<1>6. InBuffer(s) = {s}
  <2>1. s \in InBuffer(s)
    BY <1>5 DEF InBuffer
  <2>2. ASSUME NEW r \in InBuffer(s)
        PROVE  r = s
    <3>1. r \in Sid /\ stored[r].st # "absent"
      BY DEF InBuffer
    <3>2. Place(r) % Prefetch = Place(s) % Prefetch
      BY DEF InBuffer
    <3>3. Place(r) \in 1 .. Prefetch /\ Place(s) \in 1 .. Prefetch
      BY <1>3, <1>5, <3>1
    <3>4. Place(r) = Place(s)
      <4>1. \A a, b \in 1 .. Prefetch : a % Prefetch = b % Prefetch => a = b
        BY <1>1
      <4> QED BY <3>2, <3>3, <4>1
    <3>5. ~(r < s) /\ ~(s < r)
      BY <1>4, <1>5, <3>1, <3>4
    <3> QED BY <1>1, <3>1, <3>5
  <2> QED BY <2>1, <2>2
<1>7. s <= s
  BY <1>1
<1> QED BY <1>6, <1>7 DEF AtCommit

------------------------------------------------------------------------------
\* New and its Cleanup: what is gone had expired, or Cleanup was badger's with
\* more sessions than buffers.
Opens ==
    /\ conn' \in {"new", "open"}
    /\ stored' \in [Sid -> Blobs]
    /\ \A s \in Sid : \/ stored'[s] = stored[s]
                      \/ /\ stored'[s] = Absent
                         /\ Expired(s) \/ ~FewSessions
    /\ UNCHANGED <<kind, dev, now, task, syncs, steady, expect>>

\* Only the connection is opened or closed, or nothing happens.
Connects ==
    /\ conn' \in {"new", "open", "closed"}
    /\ UNCHANGED <<kind, dev, now, stored, task, syncs, steady, expect>>

\* A step of some database that opens it is one of Opens.
LEMMA OpenForm ==
    ASSUME Shape, FileNew \/ LeveldbNew \/ BoltdbNew \/ BadgerNew
    PROVE  Opens
<1>1. ASSUME NEW k, NEW gone, NEW res \in {"new", "open"}, Open(k, gone, res),
             \A s \in Sid : s \in gone => Expired(s) \/ ~FewSessions
      PROVE  Opens
  <2>1. \/ stored' = [s \in Sid |-> IF s \in gone THEN Absent ELSE stored[s]]
        \/ stored' = stored
    BY <1>1 DEF Open
  <2>2. stored' \in [Sid -> Blobs]
    BY <2>1, Constants DEF Shape
  <2>3. \A s \in Sid : \/ stored'[s] = stored[s]
                       \/ stored'[s] = Absent /\ (Expired(s) \/ ~FewSessions)
    BY <1>1, <2>1
  <2> QED BY <1>1, <2>2, <2>3 DEF Opens, Open
<1>2. CASE FileNew
  BY <1>1, <1>2 DEF FileNew
<1>3. CASE LeveldbNew
  BY <1>1, <1>3 DEF LeveldbNew
<1>4. CASE BoltdbNew
  BY <1>1, <1>4 DEF BoltdbNew
<1>5. CASE BadgerNew
  <2> DEFINE gone == {AtCommit(s) : s \in {s \in Sid : Expired(s)}}
  <2>1. PICK res \in {"new", "open"} : Open("badger", gone, res) /\ kind = "badger"
    BY <1>5 DEF BadgerNew, Open
  <2>2. \A s \in Sid : s \in gone => Expired(s) \/ ~FewSessions
    BY <2>1, BadgerCommit
  <2> HIDE DEF gone
  <2> QED BY <1>1, <2>1, <2>2
<1> QED BY <1>2, <1>3, <1>4, <1>5

\* The forms that a step can have.
LEMMA StepForms ==
    ASSUME Shape, [Next]_vars
    PROVE  \/ Opens \/ Connects \/ Tick \/ Fail \/ Restart
           \/ \E t \in Task, s \in Sid, d \in Nat, destroy, good \in BOOLEAN :
                 BeginSync(t, s, d, destroy, good)
           \/ \E t \in Task :
                 \/ FileDestroy(t) \/ FileFails(t) \/ FileTruncate(t)
                 \/ FileWrite(t) \/ RedisSeconds(t) \/ RedisSet(t) \/ RedisDelete(t)
                 \/ kind \notin {"file", "redis"} /\ EmbeddedSync(t)
<1>1. CASE FileNew \/ LeveldbNew \/ BoltdbNew \/ BadgerNew
  BY <1>1, OpenForm
<1>2. CASE \/ RedisConnect \/ LeveldbClose \/ BadgerClose \/ BoltdbClose
           \/ RedisClose \/ UNCHANGED vars
  <2>1. Connects
    BY <1>2 DEF Connects, RedisConnect, LeveldbClose, BadgerClose, BoltdbClose,
                RedisClose, CloseDB, vars, Shape
  <2> QED BY <2>1
<1>3. ASSUME NEW t \in Task, NEW s \in Sid,
             \/ BeginSync(t, s, 0, TRUE, TRUE)
             \/ \E d \in Dates, good \in BOOLEAN : BeginSync(t, s, d, FALSE, good)
      PROVE  \E d \in Nat, destroy, good \in BOOLEAN :
                BeginSync(t, s, d, destroy, good)
  <2>1. Dates \subseteq Nat
    BY BackendsAssumption
  <2>2. CASE BeginSync(t, s, 0, TRUE, TRUE)
    BY <2>2
  <2>3. CASE \E d \in Dates, good \in BOOLEAN : BeginSync(t, s, d, FALSE, good)
    BY <2>1, <2>3
  <2> QED BY <1>3, <2>2, <2>3
<1>4. ASSUME NEW t \in Task, SyncStep(t)
      PROVE  \/ FileDestroy(t) \/ FileFails(t) \/ FileTruncate(t)
             \/ FileWrite(t) \/ RedisSeconds(t) \/ RedisSet(t) \/ RedisDelete(t)
             \/ kind \notin {"file", "redis"} /\ EmbeddedSync(t)
  BY <1>4 DEF SyncStep, LeveldbSync, BadgerSync, BoltdbSync
<1> QED BY <1>1, <1>2, <1>3, <1>4 DEF Next

------------------------------------------------------------------------------
\* What the steps of a Sync leave behind, for each of them: the tasks but for t
\* and what is stored but for its session stay as they are.
LEMMA FileDestroyStep ==
    ASSUME Shape, NEW t \in Task, FileDestroy(t)
    PROVE  /\ Shape'
           /\ task'[t] = NoTask
           /\ \A u \in Task : u # t =>
                 /\ task'[u].pc = task[u].pc /\ task'[u].sid = task[u].sid
                 /\ task'[u].alone = task[u].alone
                 /\ task'[u].destroy = task[u].destroy
                 /\ task'[u].date = task[u].date /\ task'[u].secs = task[u].secs
                 /\ task'[u].asked = task[u].asked
                 /\ task[u].sid # task[t].sid => task'[u].linked = task[u].linked
           /\ \A s \in Sid : stored'[s] = IF s = task[t].sid THEN Absent
                                          ELSE stored[s]
           /\ \A s \in Sid : expect'[s] = IF s # task[t].sid THEN expect[s]
                                          ELSE IF task[t].alone
                                          THEN [ver |-> 0, date |-> 0] ELSE Unknown
<1>1. \A u \in Task : /\ task[u] \in Tasks
                      /\ [task[u] EXCEPT !.linked = FALSE] \in Tasks
  BY DEF Shape, Tasks
<1>2. \A u \in Task : task'[u] = IF u = t THEN NoTask
                                 ELSE IF task[u].sid = task[t].sid
                                 THEN [task[u] EXCEPT !.linked = FALSE] ELSE task[u]
  BY DEF FileDestroy
<1>3. task' \in [Task -> Tasks]
  BY <1>1, Constants DEF FileDestroy
<1>4. ASSUME NEW u \in Task, u # t
      PROVE  /\ task'[u].pc = task[u].pc /\ task'[u].sid = task[u].sid
             /\ task'[u].alone = task[u].alone
             /\ task'[u].destroy = task[u].destroy
             /\ task'[u].date = task[u].date /\ task'[u].secs = task[u].secs
             /\ task'[u].asked = task[u].asked
             /\ task[u].sid # task[t].sid => task'[u].linked = task[u].linked
  <2>1. task[u] \in Tasks
    BY <1>1
  <2>2. task'[u] = IF task[u].sid = task[t].sid
                   THEN [task[u] EXCEPT !.linked = FALSE] ELSE task[u]
    BY <1>2, <1>4
  <2> QED BY <2>1, <2>2 DEF Tasks
<1>5. /\ stored' \in [Sid -> Blobs]
      /\ \A s \in Sid : stored'[s] = IF s = task[t].sid THEN Absent ELSE stored[s]
  BY Constants DEF FileDestroy, Put, Shape
<1>6. /\ expect' \in [Sid -> Known]
      /\ \A s \in Sid : expect'[s] = IF s # task[t].sid THEN expect[s]
                                     ELSE IF task[t].alone
                                     THEN [ver |-> 0, date |-> 0] ELSE Unknown
  <2>1. [ver |-> 0, date |-> 0] \in Known
    BY DEF Known
  <2> QED BY <2>1, Constants DEF FileDestroy, Shape
<1>7. Shape'
  BY <1>3, <1>5, <1>6 DEF Shape, FileDestroy
<1> QED BY <1>2, <1>4, <1>5, <1>6, <1>7

\* Opening a file for writing empties it.
LEMMA FileTruncateStep ==
    ASSUME Shape, NEW t \in Task, FileTruncate(t)
    PROVE  /\ Shape'
           /\ task'[t].pc = "write" /\ task'[t].sid = task[t].sid
           /\ task'[t].linked = TRUE /\ task'[t].alone = task[t].alone
           /\ task'[t].destroy = task[t].destroy
           /\ \A u \in Task : u # t => task'[u] = task[u]
           /\ \A s \in Sid : stored'[s] = IF s = task[t].sid THEN Junk ELSE stored[s]
           /\ expect' = expect
<1> DEFINE y == [task[t] EXCEPT !.pc = "write", !.linked = TRUE]
<1>1. /\ y \in Tasks
      /\ y.pc = "write" /\ y.sid = task[t].sid /\ y.linked = TRUE
      /\ y.alone = task[t].alone /\ y.destroy = task[t].destroy
  BY DEF Shape, Tasks
<1>2. task' = [task EXCEPT ![t] = y]
  BY DEF FileTruncate, Proceed
<1> HIDE DEF y
<1>3. /\ task' \in [Task -> Tasks] /\ task'[t] = y
      /\ \A u \in Task : u # t => task'[u] = task[u]
  BY <1>1, <1>2 DEF Shape
<1>4. /\ stored' \in [Sid -> Blobs]
      /\ \A s \in Sid : stored'[s] = IF s = task[t].sid THEN Junk ELSE stored[s]
  BY Constants DEF FileTruncate, Put, Shape
<1>5. Shape'
  BY <1>3, <1>4 DEF Shape, FileTruncate, Proceed
<1> QED BY <1>1, <1>3, <1>4, <1>5 DEF FileTruncate, Proceed

\* redis' sync has asked the clock.
LEMMA RedisAsks ==
    ASSUME Shape, NEW t \in Task, RedisSeconds(t), task[t].good
    PROVE  /\ Shape'
           /\ task'[t].pc = "send" /\ task'[t].sid = task[t].sid
           /\ task'[t].alone = task[t].alone /\ task'[t].destroy = FALSE
           /\ task'[t].date = task[t].date /\ task'[t].secs = Seconds(task[t].date)
           /\ task'[t].asked = now
           /\ \A u \in Task : u # t => task'[u] = task[u]
           /\ UNCHANGED <<kind, conn, dev, now, stored, syncs, steady, expect>>
           /\ kind = "redis" /\ task[t].pc = "begin"
<1> DEFINE y == [task[t] EXCEPT !.pc = "send", !.secs = Seconds(task[t].date),
                                !.asked = now]
<1>0. task[t] \in Tasks /\ now \in Nat /\ task[t].date \in Nat
  BY DEF Shape, Tasks
<1>1. Seconds(task[t].date) \in Int
  BY <1>0, SecondsOf
<1>2. /\ y \in Tasks
      /\ y.pc = "send" /\ y.sid = task[t].sid /\ y.alone = task[t].alone
      /\ y.destroy = task[t].destroy /\ y.date = task[t].date
      /\ y.secs = Seconds(task[t].date) /\ y.asked = now
  BY <1>0, <1>1 DEF Tasks
<1>3. Proceed(t, y) /\ stored' = stored /\ ~task[t].destroy /\ kind = "redis"
      /\ task[t].pc = "begin"
  BY DEF RedisSeconds
<1> HIDE DEF y
<1>4. /\ task' = [task EXCEPT ![t] = y]
      /\ UNCHANGED <<kind, conn, dev, now, syncs, steady, expect>>
  BY <1>3 DEF Proceed
<1>5. /\ task' \in [Task -> Tasks] /\ task'[t] = y
      /\ \A u \in Task : u # t => task'[u] = task[u]
  BY <1>2, <1>4 DEF Shape
<1>6. Shape'
  BY <1>3, <1>4, <1>5 DEF Shape
<1>7. y.destroy = FALSE
  BY <1>0, <1>2, <1>3 DEF Tasks
<1> QED BY <1>2, <1>3, <1>4, <1>5, <1>6, <1>7

\* The step that ends a Sync: FileFails, FileWrite, or the last step of the other
\* databases.  b is what it stores, if it stores something, and ok whether it
\* has done what it was asked for.
Stores(t, b) ==
    /\ b \in Blobs /\ b.st = "ok"
    /\ b.ver = task[t].ver /\ b.date = task[t].date
    /\ IF kind = "redis"
       THEN /\ b.ttl = Ttl(task[t].secs) /\ b.asked = task[t].asked /\ b.wrote = now
            /\ task[t].pc = "send"
       ELSE b.ttl = 0 /\ b.asked = 0 /\ b.wrote = 0

Ends(t) ==
    \E ok \in BOOLEAN :
      /\ End(t, ok)
      /\ stored' \in [Sid -> Blobs]
      /\ \A s \in Sid : s # task[t].sid => stored'[s] = stored[s]
      /\ \A s \in Sid : s = task[t].sid =>
           \/ ~ok /\ stored'[s] = stored[s]
           \/ ~ok /\ stored'[s] = Junk /\ task[t].pc = "begin" /\ ~task[t].good
              /\ kind \notin {"file", "redis"}
           \/ ok /\ task[t].destroy /\ stored'[s] = Absent /\ task[t].pc = "begin"
              /\ kind # "file"
           \/ ok /\ ~task[t].destroy /\ Stores(t, stored'[s])
           \/ /\ kind = "file" /\ task[t].pc = "write"
              /\ ~task[t].linked /\ stored'[s] = stored[s]
      /\ kind = "file" => \/ task[t].pc = "write" /\ (ok <=> dev = "ok")
                          \/ task[t].pc = "begin" /\ ~ok

\* A task that writes to a file belongs to the file database and to an update;
\* one that sends to redis, also, and it has asked the clock for its seconds.
Writers ==
    \A t \in Task :
        /\ task[t].pc = "write" => kind = "file" /\ ~task[t].destroy
        /\ task[t].pc = "send" =>
              /\ kind = "redis" /\ ~task[t].destroy
              /\ task[t].asked <= now
              /\ Whole(task[t].secs, task[t].date, task[t].asked)

\* The steps that end a Sync are of this form.
LEMMA EndForms ==
    ASSUME Shape, Writers, NEW t \in Task,
           \/ FileFails(t) \/ FileWrite(t) \/ RedisSet(t) \/ RedisDelete(t)
           \/ RedisSeconds(t) /\ ~task[t].good
           \/ kind \notin {"file", "redis"} /\ EmbeddedSync(t)
    PROVE  Ends(t)
<1>1. /\ task[t].ver \in Nat /\ task[t].date \in Nat /\ now \in Nat
      /\ task[t].good \in BOOLEAN /\ task[t].destroy \in BOOLEAN
      /\ task[t].linked \in BOOLEAN /\ Works \in BOOLEAN
      /\ task[t].secs \in Int /\ task[t].asked \in Nat
      /\ stored \in [Sid -> Blobs]
  BY DEF Shape, Tasks, Works
<1>2. PICK b \in Blobs : /\ b = Bytes(task[t]) /\ b.st = "ok" /\ b.ttl = 0
                         /\ b.ver = task[t].ver /\ b.date = task[t].date
                         /\ b.asked = 0 /\ b.wrote = 0
  <2>1. PICK x : x = Bytes(task[t])
    OBVIOUS
  <2>2. x = Blob("ok", task[t].ver, task[t].date, 0, 0, 0)
    BY <2>1 DEF Bytes
  <2>3. /\ x \in Blobs /\ x.st = "ok" /\ x.ttl = 0 /\ x.ver = task[t].ver
        /\ x.date = task[t].date /\ x.asked = 0 /\ x.wrote = 0
    BY <1>1, <2>2 DEF Blob, Blobs
  <2> QED BY <2>1, <2>3
<1>3. kind # "redis" => Stores(t, b)
  BY <1>2 DEF Stores
<1>4. \A x \in Blobs : Put(task[t].sid, x) =>
          /\ stored' \in [Sid -> Blobs]
          /\ \A s \in Sid : stored'[s] = IF s = task[t].sid THEN x ELSE stored[s]
  BY <1>1 DEF Put
<1>5. CASE FileFails(t)
  BY <1>1, <1>5 DEF FileFails, Ends
<1>6. CASE FileWrite(t)
  <2>1. /\ kind = "file" /\ ~task[t].destroy /\ task[t].pc = "write"
        /\ End(t, dev = "ok") /\ (dev = "ok") \in BOOLEAN
    BY <1>6 DEF FileWrite, Writers
  <2>2. CASE task[t].linked /\ dev = "ok"
    BY <1>1, <1>2, <1>3, <1>4, <1>6, <2>1, <2>2 DEF FileWrite, Ends
  <2>3. CASE ~(task[t].linked /\ dev = "ok")
    BY <1>1, <1>6, <2>1, <2>3 DEF FileWrite, Ends
  <2> QED BY <2>2, <2>3
<1>7. CASE kind \notin {"file", "redis"} /\ EmbeddedSync(t)
  <2> DEFINE ok == Works /\ (task[t].destroy \/ task[t].good)
  <2>1. End(t, ok) /\ ok \in BOOLEAN /\ task[t].pc = "begin"
    BY <1>1, <1>7 DEF EmbeddedSync
  <2>2. CASE ~Works
    BY <1>1, <1>7, <2>1, <2>2 DEF EmbeddedSync, Ends
  <2>3. CASE Works /\ task[t].destroy
    BY <1>1, <1>4, <1>7, <2>1, <2>3, Constants DEF EmbeddedSync, Ends
  <2>4. CASE Works /\ ~task[t].destroy /\ task[t].good
    <3>1. Put(task[t].sid, b)
      BY <1>2, <1>7, <2>4 DEF EmbeddedSync
    <3>2. /\ stored' \in [Sid -> Blobs]
          /\ \A s \in Sid : stored'[s] = IF s = task[t].sid THEN b ELSE stored[s]
      BY <1>4, <3>1
    <3> QED BY <1>3, <1>7, <2>1, <2>4, <3>2 DEF Ends
  <2>5. CASE Works /\ ~task[t].destroy /\ ~task[t].good
    BY <1>1, <1>4, <1>7, <2>1, <2>5, Constants DEF EmbeddedSync, Ends
  <2> QED BY <2>2, <2>3, <2>4, <2>5
<1>8. CASE RedisSet(t)
  <2>1. /\ End(t, Works) /\ task[t].pc = "send"
        /\ kind = "redis" /\ ~task[t].destroy
        /\ task[t].asked <= now /\ Whole(task[t].secs, task[t].date, task[t].asked)
    BY <1>8 DEF RedisSet, Writers
  <2>2. CASE ~Works
    BY <1>1, <1>8, <2>1, <2>2 DEF RedisSet, Ends
  <2>3. CASE Works
    <3>1. Ttl(task[t].secs) \in Nat
      BY <1>1, <2>1, TtlOf
    <3>2. PICK x \in Blobs : /\ x = Blob("ok", task[t].ver, task[t].date,
                                         Ttl(task[t].secs), task[t].asked, now)
                             /\ Stores(t, x)
      <4>1. PICK l \in Nat : l = Ttl(task[t].secs)
        BY <3>1
      <4>2. PICK x : x = Blob("ok", task[t].ver, task[t].date, l, task[t].asked, now)
        OBVIOUS
      <4>3. /\ x \in Blobs /\ x.st = "ok" /\ x.ttl = l /\ x.ver = task[t].ver
            /\ x.date = task[t].date /\ x.asked = task[t].asked /\ x.wrote = now
        BY <1>1, <4>1, <4>2 DEF Blob, Blobs
      <4>4. Stores(t, x)
        BY <2>1, <4>1, <4>3 DEF Stores
      <4> QED BY <4>1, <4>2, <4>3, <4>4
    <3>3. Put(task[t].sid, x)
      BY <1>8, <2>3, <3>2 DEF RedisSet
    <3>4. /\ stored' \in [Sid -> Blobs]
          /\ \A s \in Sid : stored'[s] = IF s = task[t].sid THEN x ELSE stored[s]
      BY <1>4, <3>3
    <3> QED BY <1>1, <2>1, <2>3, <3>2, <3>4 DEF Ends
  <2> QED BY <2>2, <2>3
<1>9. CASE RedisDelete(t)
  <2>1. /\ End(t, Works) /\ task[t].pc = "begin"
        /\ kind = "redis" /\ task[t].destroy
    BY <1>9 DEF RedisDelete
  <2>2. CASE ~Works
    BY <1>1, <1>9, <2>1, <2>2 DEF RedisDelete, Ends
  <2>3. CASE Works
    BY <1>1, <1>4, <1>9, <2>1, <2>3, Constants DEF RedisDelete, Ends
  <2> QED BY <2>2, <2>3
<1>10. CASE RedisSeconds(t) /\ ~task[t].good
  BY <1>1, <1>10 DEF RedisSeconds, Ends
<1> QED BY <1>5, <1>6, <1>7, <1>8, <1>9, <1>10

------------------------------------------------------------------------------
\* Without a fault the device works.
Faultless == steady => dev = "ok"

\* Only redis drops keys by itself.
NoTtl == kind # "redis" => \A s \in Sid : stored[s].ttl = 0

\* A Sync that is alone has its session for itself, and if it writes a file,
\* that file is still in the directory.
Alone ==
    \A t \in Task : task[t].alone =>
        /\ task[t].sid \in Sid
        /\ task[t].pc = "write" => task[t].linked
        /\ \A u \in Task : u # t => task[u].sid # task[t].sid

\* While it is known what is stored for a session nobody syncs it.
Quiet == \A s \in Sid : expect[s].ver # -1 => \A t \in Task : task[t].sid # s

\* What is stored is the known, unless its date is near or has passed.
Kept ==
    FewSessions => \A s \in Sid : expect[s].ver # -1 =>
        \/ /\ Decoded(stored[s]) = expect[s].ver
           /\ Readable(s) => stored[s].date = expect[s].date
        \/ expect[s].date # 0 /\ expect[s].date < now + Second

\* A key of redis is written after the clock was asked.
Clocked == \A s \in Sid : stored[s].asked <= stored[s].wrote

IInv == /\ Shape /\ Writers /\ Faultless /\ NoTtl /\ Alone /\ Quiet /\ Kept
        /\ Clocked /\ TtlMatchesDate /\ TruncatedOnlyWhileWriting

\* redis drops no key a second or more before the date of its session.
LEMMA TtlBound ==
    ASSUME IInv, kind = "redis", NEW s \in Sid, Readable(s), stored[s].ttl # 0
    PROVE  stored[s].date # 0 /\ stored[s].date < stored[s].ttl + Second
<1>1. /\ stored[s].date \in Nat /\ stored[s].ttl \in Nat /\ Second \in Nat
      /\ stored[s].asked \in Nat /\ stored[s].wrote \in Nat
  BY BackendsAssumption DEF IInv, Shape, Blobs
<1>2. stored[s].asked <= stored[s].wrote
  BY DEF IInv, Clocked
<1>3. /\ stored[s].date # 0
      /\ stored[s].date + (stored[s].wrote - stored[s].asked) < stored[s].ttl + Second
  BY DEF IInv, TtlMatchesDate
<1> QED BY <1>1, <1>2, <1>3

\* The steps of StepForms with those that end a Sync put together.
LEMMA IStepForms ==
    ASSUME IInv, [Next]_vars
    PROVE  \/ Opens \/ Connects \/ Tick \/ Fail \/ Restart
           \/ \E t \in Task, s \in Sid, d \in Nat, destroy, good \in BOOLEAN :
                 BeginSync(t, s, d, destroy, good)
           \/ \E t \in Task : \/ FileDestroy(t) \/ FileTruncate(t) \/ Ends(t)
                              \/ RedisSeconds(t) /\ task[t].good
<1>1. ASSUME NEW t \in Task,
             \/ FileFails(t) \/ FileWrite(t) \/ RedisSet(t) \/ RedisDelete(t)
             \/ RedisSeconds(t) /\ ~task[t].good
             \/ kind \notin {"file", "redis"} /\ EmbeddedSync(t)
      PROVE  Ends(t)
  BY <1>1, EndForms DEF IInv
<1> QED BY <1>1, StepForms DEF IInv

\* Opening a database, with its Cleanup.
LEMMA OpensKeeps ==
    ASSUME IInv, Opens
    PROVE  IInv'
<1> USE DEF IInv
<1>1. Shape'
  BY DEF Opens, Shape
<1>2. Writers' /\ Faultless' /\ Alone' /\ Quiet'
  BY DEF Opens, Writers, Faultless, Alone, Quiet
<1>3. NoTtl' /\ Clocked'
  BY Constants DEF Opens, NoTtl, Clocked
<1>4. TtlMatchesDate'
  BY Constants DEF Opens, TtlMatchesDate, Readable
<1>5. TruncatedOnlyWhileWriting'
  BY Constants DEF Opens, TruncatedOnlyWhileWriting
<1>6. Kept'
  <2> SUFFICES ASSUME FewSessions', NEW s \in Sid, expect'[s].ver # -1
               PROVE  \/ /\ Decoded(stored'[s]) = expect'[s].ver
                         /\ Readable(s)' => stored'[s].date = expect'[s].date
                      \/ expect'[s].date # 0 /\ expect'[s].date < now' + Second
    BY DEF Kept
  <2>1. FewSessions /\ expect' = expect /\ now' = now
    BY DEF Opens, FewSessions
  <2>2. \/ /\ Decoded(stored[s]) = expect[s].ver
           /\ Readable(s) => stored[s].date = expect[s].date
        \/ expect[s].date # 0 /\ expect[s].date < now + Second
    BY <2>1 DEF Kept
  <2>3. CASE stored'[s] = stored[s]
    BY <2>1, <2>2, <2>3 DEF Readable
  <2>4. CASE stored'[s] = Absent /\ Expired(s)
    <3>1. Readable(s) /\ stored[s].date # 0 /\ stored[s].date < now
      BY <2>4 DEF Expired, HasExpired, Readable
    <3>2. stored[s].date \in Nat /\ now \in Nat /\ Second \in Nat \ {0}
      BY BackendsAssumption DEF Shape, Blobs
    <3> QED BY <2>1, <2>2, <3>1, <3>2
  <2> QED BY <2>1, <2>3, <2>4 DEF Opens
<1> QED BY <1>1, <1>2, <1>3, <1>4, <1>5, <1>6

\* Time: redis drops keys.
LEMMA TickKeeps ==
    ASSUME IInv, Tick
    PROVE  IInv'
<1> USE DEF IInv
<1>0. /\ stored' \in [Sid -> Blobs]
      /\ now \in Nat /\ now' = now + 1 /\ Second \in Nat \ {0}
      /\ \A s \in Sid : \/ stored'[s] = stored[s]
                        \/ /\ stored'[s] = Absent
                           /\ stored[s].ttl # 0 /\ stored[s].ttl <= now + 1
  BY Constants, BackendsAssumption DEF Tick, Shape
<1>1. Shape'
  BY <1>0 DEF Tick, Shape
<1>2. Faultless' /\ Alone' /\ Quiet'
  BY DEF Tick, Faultless, Alone, Quiet
<1>7. Writers'
  <2>1. \A t \in Task : task[t].asked \in Nat
    BY DEF Shape, Tasks
  <2> QED BY <1>0, <2>1 DEF Tick, Writers, Whole
<1>3. NoTtl' /\ Clocked'
  BY <1>0, Constants DEF Tick, NoTtl, Clocked
<1>4. TtlMatchesDate'
  BY <1>0, Constants DEF Tick, TtlMatchesDate, Readable
<1>5. TruncatedOnlyWhileWriting'
  BY <1>0, Constants DEF Tick, TruncatedOnlyWhileWriting
<1>6. Kept'
  <2> SUFFICES ASSUME FewSessions', NEW s \in Sid, expect'[s].ver # -1
               PROVE  \/ /\ Decoded(stored'[s]) = expect'[s].ver
                         /\ Readable(s)' => stored'[s].date = expect'[s].date
                      \/ expect'[s].date # 0 /\ expect'[s].date < now' + Second
    BY DEF Kept
  <2>1. FewSessions /\ expect' = expect /\ expect[s].date \in Nat
    BY DEF Tick, FewSessions, Shape, Known
  <2>2. \/ /\ Decoded(stored[s]) = expect[s].ver
           /\ Readable(s) => stored[s].date = expect[s].date
        \/ expect[s].date # 0 /\ expect[s].date < now + Second
    BY <2>1 DEF Kept
  <2>3. CASE stored'[s] = stored[s]
    BY <1>0, <2>1, <2>2, <2>3 DEF Readable
  <2>4. CASE /\ stored'[s] = Absent /\ Readable(s)
             /\ stored[s].ttl # 0 /\ stored[s].ttl <= now + 1
    <3>1. kind = "redis"
      BY <2>4 DEF NoTtl
    <3>2. stored[s].date < stored[s].ttl + Second /\ stored[s].date # 0
      BY <2>4, <3>1, TtlBound
    <3>3. stored[s].date \in Nat /\ stored[s].ttl \in Nat
      BY DEF Shape, Blobs
    <3> QED BY <1>0, <2>1, <2>2, <2>4, <3>2, <3>3
  <2>5. CASE stored'[s] = Absent /\ ~Readable(s)
    BY <1>0, <2>1, <2>2, <2>5, Constants DEF Decoded, Readable
  <2> QED BY <1>0, <2>3, <2>4, <2>5
<1> QED BY <1>1, <1>2, <1>3, <1>4, <1>5, <1>6, <1>7

\* A Sync begins.
LEMMA BeginKeeps ==
    ASSUME IInv, NEW t \in Task, NEW s \in Sid, NEW d \in Nat,
           NEW destroy \in BOOLEAN, NEW good \in BOOLEAN,
           BeginSync(t, s, d, destroy, good)
    PROVE  IInv'
<1> USE DEF IInv
<1>0. /\ UNCHANGED <<kind, conn, dev, now, stored, steady>>
      /\ syncs' = syncs + 1 /\ task[t].pc = "idle"
  BY DEF BeginSync
<1>1. Shape'
  BY <1>0, BeginType DEF Shape
<1>2. Writers'
  BY <1>0, BeginType DEF Writers
<1>3. Alone'
  <2> SUFFICES ASSUME NEW u \in Task, task'[u].alone
               PROVE  /\ task'[u].sid \in Sid
                      /\ task'[u].pc = "write" => task'[u].linked
                      /\ \A w \in Task : w # u => task'[w].sid # task'[u].sid
    BY DEF Alone
  <2>1. CASE u = t
    BY <2>1, BeginType
  <2>2. CASE u # t
    <3>1. /\ task[u].alone /\ task[u].sid # s
          /\ task'[u].pc = task[u].pc /\ task'[u].sid = task[u].sid
          /\ task'[u].linked = task[u].linked
      BY <2>2, BeginType
    <3>2. task'[t].sid = s /\ \A w \in Task : w # t => task'[w].sid = task[w].sid
      BY BeginType
    <3> QED BY <3>1, <3>2 DEF Alone
  <2> QED BY <2>1, <2>2
<1>4. Quiet'
  BY BeginType, Constants DEF Quiet
<1>5. Kept'
  <2>1. \A r \in Sid : expect'[r].ver # -1 => expect'[r] = expect[r]
    BY BeginType, Constants
  <2> QED BY <1>0, <2>1 DEF Kept, FewSessions, Readable
<1>6. TruncatedOnlyWhileWriting'
  <2>1. \A u \in Task : task[u].pc = "write" =>
            /\ task'[u].pc = task[u].pc /\ task'[u].sid = task[u].sid
            /\ task'[u].linked = task[u].linked
    BY <1>0, BeginType
  <2> QED BY <1>0, <2>1 DEF TruncatedOnlyWhileWriting
<1>7. Faultless' /\ NoTtl' /\ Clocked' /\ TtlMatchesDate'
  BY <1>0 DEF Faultless, NoTtl, Clocked, TtlMatchesDate, Readable
<1> QED BY <1>1, <1>2, <1>3, <1>4, <1>5, <1>6, <1>7

\* The file database removes a file.
LEMMA FileDestroyKeeps ==
    ASSUME IInv, NEW t \in Task, FileDestroy(t)
    PROVE  IInv'
<1> USE DEF IInv
<1> DEFINE sid == task[t].sid
<1>0. /\ UNCHANGED <<kind, conn, dev, now, syncs, steady>>
      /\ kind = "file" /\ task[t].pc = "begin"
  BY DEF FileDestroy
<1>1. Shape'
  BY FileDestroyStep
<1>2. Writers'
  BY <1>0, FileDestroyStep, Constants DEF Writers
<1>3. Alone'
  <2> SUFFICES ASSUME NEW u \in Task, task'[u].alone
               PROVE  /\ task'[u].sid \in Sid
                      /\ task'[u].pc = "write" => task'[u].linked
                      /\ \A w \in Task : w # u => task'[w].sid # task'[u].sid
    BY DEF Alone
  <2>1. u # t /\ task[u].alone
    BY FileDestroyStep, Constants
  <2>2. task[u].sid # task[t].sid
    BY <2>1 DEF Alone
  <2>3. /\ task'[u].pc = task[u].pc /\ task'[u].sid = task[u].sid
        /\ task'[u].linked = task[u].linked
    BY <2>1, <2>2, FileDestroyStep
  <2>4. ASSUME NEW w \in Task, w # u
        PROVE  task'[w].sid # task'[u].sid
    <3>1. CASE w = t
      <4>1. task[u].sid # None
        BY <2>1, BackendsAssumption DEF Alone
      <4> QED BY <2>3, <3>1, <4>1, FileDestroyStep, Constants
    <3>2. CASE w # t
      BY <2>1, <2>3, <2>4, <3>2, FileDestroyStep DEF Alone
    <3> QED BY <3>1, <3>2
  <2> QED BY <2>1, <2>3, <2>4 DEF Alone
<1>4. Quiet'
  <2> SUFFICES ASSUME NEW s \in Sid, expect'[s].ver # -1, NEW u \in Task
               PROVE  task'[u].sid # s
    BY DEF Quiet
  <2>1. s # None
    BY BackendsAssumption
  <2>2. CASE u = t
    BY <2>1, <2>2, FileDestroyStep, Constants
  <2>3. CASE u # t /\ s # sid
    BY <2>3, FileDestroyStep DEF Quiet
  <2>4. CASE u # t /\ s = sid
    <3>1. task[t].alone
      BY <2>4, FileDestroyStep, Constants
    <3> QED BY <2>4, <3>1, FileDestroyStep DEF Alone
  <2> QED BY <2>2, <2>3, <2>4
<1>5. Kept'
  <2> SUFFICES ASSUME FewSessions', NEW s \in Sid, expect'[s].ver # -1
               PROVE  \/ /\ Decoded(stored'[s]) = expect'[s].ver
                         /\ Readable(s)' => stored'[s].date = expect'[s].date
                      \/ expect'[s].date # 0 /\ expect'[s].date < now' + Second
    BY DEF Kept
  <2>1. CASE s = sid
    BY <2>1, FileDestroyStep, Constants DEF Decoded, Readable
  <2>2. CASE s # sid
    <3>1. expect'[s] = expect[s] /\ stored'[s] = stored[s] /\ FewSessions
      BY <1>0, <2>2, FileDestroyStep DEF FewSessions
    <3> QED BY <1>0, <3>1 DEF Kept, Readable
  <2> QED BY <2>1, <2>2
<1>6. TruncatedOnlyWhileWriting'
  <2> SUFFICES ASSUME steady, NEW s \in Sid,
                      stored'[s].st = "junk"
               PROVE  \E u \in Task : /\ task'[u].pc = "write" /\ task'[u].sid = s
                                      /\ task'[u].linked
    BY <1>0 DEF TruncatedOnlyWhileWriting
  <2>1. s # sid /\ stored'[s] = stored[s]
    BY FileDestroyStep, Constants
  <2>2. PICK u \in Task : task[u].pc = "write" /\ task[u].sid = s /\ task[u].linked
    BY <1>0, <2>1 DEF TruncatedOnlyWhileWriting
  <2>3. u # t
    BY <1>0, <2>2
  <2> QED BY <2>1, <2>2, <2>3, FileDestroyStep
<1>7. Faultless' /\ NoTtl' /\ Clocked' /\ TtlMatchesDate'
  BY <1>0, FileDestroyStep, Constants
     DEF Faultless, NoTtl, Clocked, TtlMatchesDate, Readable
<1> QED BY <1>1, <1>2, <1>3, <1>4, <1>5, <1>6, <1>7

\* The file database empties a file that it will write.
LEMMA FileTruncateKeeps ==
    ASSUME IInv, NEW t \in Task, FileTruncate(t)
    PROVE  IInv'
<1> USE DEF IInv
<1> DEFINE sid == task[t].sid
<1>0. /\ UNCHANGED <<kind, conn, dev, now, syncs, steady>>
      /\ kind = "file" /\ task[t].pc = "begin" /\ ~task[t].destroy
  BY DEF FileTruncate, Proceed
<1>1. Shape'
  BY FileTruncateStep
<1>2. Writers'
  BY <1>0, FileTruncateStep DEF Writers
<1>3. /\ \A u \in Task : u # t => task'[u] = task[u]
      /\ task'[t].pc = "write" /\ task'[t].sid = sid
      /\ task'[t].linked = TRUE /\ task'[t].alone = task[t].alone
      /\ \A s \in Sid : stored'[s] = IF s = sid THEN Junk ELSE stored[s]
      /\ expect' = expect
  BY FileTruncateStep
<1>a. \A u \in Task : task'[u].sid = task[u].sid /\ task'[u].alone = task[u].alone
  BY <1>3
<1>4. Alone'
  BY <1>3, <1>a DEF Alone
<1>5. Quiet'
  BY <1>3, <1>a DEF Quiet
<1>6. Kept'
  <2>1. \A s \in Sid : expect'[s].ver # -1 => expect'[s] = expect[s] /\ s # sid
    BY <1>3 DEF Quiet
  <2> QED BY <1>0, <1>3, <2>1 DEF Kept, FewSessions, Readable
<1>7. TruncatedOnlyWhileWriting'
  <2> SUFFICES ASSUME steady, NEW s \in Sid,
                      stored'[s].st = "junk"
               PROVE  \E u \in Task : /\ task'[u].pc = "write" /\ task'[u].sid = s
                                      /\ task'[u].linked
    BY <1>0 DEF TruncatedOnlyWhileWriting
  <2>1. CASE s = sid
    BY <1>3, <2>1
  <2>2. CASE s # sid
    <3>1. PICK u \in Task : task[u].pc = "write" /\ task[u].sid = s /\ task[u].linked
      BY <1>0, <1>3, <2>2 DEF TruncatedOnlyWhileWriting
    <3> QED BY <1>0, <1>3, <3>1
  <2> QED BY <2>1, <2>2
<1>8. Faultless' /\ NoTtl' /\ Clocked' /\ TtlMatchesDate'
  BY <1>0, <1>3, Constants
     DEF Faultless, NoTtl, Clocked, TtlMatchesDate, Readable
<1> QED BY <1>1, <1>2, <1>4, <1>5, <1>6, <1>7, <1>8

\* A Sync of any database comes to its end.
LEMMA EndsKeeps ==
    ASSUME IInv, NEW t \in Task, Ends(t)
    PROVE  IInv'
<1> USE DEF IInv
<1> DEFINE sid == task[t].sid
           Done(ok) ==
             /\ End(t, ok)
             /\ stored' \in [Sid -> Blobs]
             /\ \A s \in Sid : s # sid => stored'[s] = stored[s]
             /\ \A s \in Sid : s = sid =>
                  \/ ~ok /\ stored'[s] = stored[s]
                  \/ ~ok /\ stored'[s] = Junk /\ kind # "file"
                  \/ ok /\ task[t].destroy /\ stored'[s] = Absent
                  \/ ok /\ ~task[t].destroy /\ Stores(t, stored'[s])
                  \/ /\ kind = "file" /\ task[t].pc = "write"
                     /\ ~task[t].linked /\ stored'[s] = stored[s]
             /\ kind = "file" => \/ task[t].pc = "write" /\ (ok <=> dev = "ok")
                                 \/ task[t].pc = "begin" /\ ~ok
<1>0. PICK ok \in BOOLEAN : Done(ok)
  BY DEF Ends
<1>1. UNCHANGED <<kind, conn, dev, now, syncs, steady>>
  BY <1>0 DEF End
<1>2. /\ task' \in [Task -> Tasks] /\ expect' \in [Sid -> Known]
      /\ \A u \in Task : task'[u] = IF u = t THEN NoTask ELSE task[u]
      /\ \A s \in Sid : s # sid => expect'[s] = expect[s]
      /\ \A s \in Sid : s = sid =>
            IF task[t].alone /\ ok
            THEN expect'[s] = IF task[t].destroy THEN [ver |-> 0, date |-> 0]
                              ELSE [ver |-> task[t].ver, date |-> task[t].date]
            ELSE expect'[s] = Unknown
  BY <1>0, EndType
<1>3. ASSUME NEW b, Stores(t, b)
      PROVE  /\ b.st = "ok" /\ b.ver = task[t].ver /\ b.date = task[t].date
             /\ kind # "redis" => b.ttl = 0
             /\ b.asked <= b.wrote
             /\ kind = "redis" =>
                  \/ /\ b.ttl # 0 /\ b.date # 0
                     /\ b.ttl <= b.date + (b.wrote - b.asked)
                     /\ b.date + (b.wrote - b.asked) < b.ttl + Second
                  \/ b.ttl = 0 /\ (b.date = 0 \/ b.date < b.asked + Second)
  <2>1. /\ task[t].date \in Nat /\ now \in Nat
        /\ task[t].secs \in Int /\ task[t].asked \in Nat
    BY DEF Shape, Tasks
  <2>2. CASE kind = "redis"
    <3>1. task[t].asked <= now /\ Whole(task[t].secs, task[t].date, task[t].asked)
      BY <1>3, <2>2 DEF Stores, Writers
    <3> QED BY <1>3, <2>1, <2>2, <3>1, TtlOf DEF Stores
  <2>3. CASE kind # "redis"
    BY <1>3, <2>3 DEF Stores
  <2> QED BY <2>2, <2>3
<1>5. \A s \in Sid : \/ stored'[s] = stored[s] \/ stored'[s] = Absent
                     \/ (stored'[s] = Junk /\ kind # "file")
                     \/ Stores(t, stored'[s])
  BY <1>0
<1>6. Shape'
  BY <1>0, <1>1, <1>2 DEF Shape
<1>7. Writers'
  BY <1>1, <1>2, Constants DEF Writers
<1>8. Alone'
  <2> SUFFICES ASSUME NEW u \in Task, task'[u].alone
               PROVE  /\ task'[u].sid \in Sid
                      /\ task'[u].pc = "write" => task'[u].linked
                      /\ \A w \in Task : w # u => task'[w].sid # task'[u].sid
    BY DEF Alone
  <2>1. u # t /\ task'[u] = task[u]
    BY <1>2, Constants
  <2>2. task[u].sid \in Sid /\ None \notin Sid
    BY <2>1, BackendsAssumption DEF Alone
  <2> QED BY <1>2, <2>1, <2>2, Constants DEF Alone
<1>9. Quiet'
  <2> SUFFICES ASSUME NEW s \in Sid, expect'[s].ver # -1, NEW u \in Task
               PROVE  task'[u].sid # s
    BY DEF Quiet
  <2>1. s # None
    BY BackendsAssumption
  <2>2. CASE u = t
    BY <1>2, <2>1, <2>2, Constants
  <2>3. CASE u # t /\ s # sid
    BY <1>2, <2>3 DEF Quiet
  <2>4. CASE u # t /\ s = sid
    <3>1. task[t].alone
      BY <1>2, <2>4, Constants
    <3> QED BY <1>2, <2>4, <3>1 DEF Alone
  <2> QED BY <2>2, <2>3, <2>4
<1>10. Kept'
  <2> SUFFICES ASSUME FewSessions', NEW s \in Sid, expect'[s].ver # -1
               PROVE  \/ /\ Decoded(stored'[s]) = expect'[s].ver
                         /\ Readable(s)' => stored'[s].date = expect'[s].date
                      \/ expect'[s].date # 0 /\ expect'[s].date < now' + Second
    BY DEF Kept
  <2>1. CASE s # sid
    <3>1. expect'[s] = expect[s] /\ stored'[s] = stored[s] /\ FewSessions
      BY <1>0, <1>1, <1>2, <2>1 DEF FewSessions
    <3> QED BY <1>1, <3>1 DEF Kept, Readable
  <2>2. CASE s = sid
    <3>1. task[t].alone /\ ok
      BY <1>2, <2>2, Constants
    <3>2. task[t].pc = "write" => task[t].linked
      BY <3>1 DEF Alone
    <3>3. \/ task[t].destroy /\ stored'[s] = Absent
          \/ ~task[t].destroy /\ Stores(t, stored'[s])
      BY <1>0, <2>2, <3>1, <3>2
    <3> QED BY <1>2, <1>3, <2>2, <3>1, <3>3, Constants DEF Decoded, Readable
  <2> QED BY <2>1, <2>2
<1>11. TruncatedOnlyWhileWriting'
  <2> SUFFICES ASSUME kind = "file", steady, NEW s \in Sid,
                      stored'[s].st = "junk"
               PROVE  \E u \in Task : /\ task'[u].pc = "write" /\ task'[u].sid = s
                                      /\ task'[u].linked
    BY <1>1 DEF TruncatedOnlyWhileWriting
  <2>1. stored'[s] = stored[s]
    BY <1>3, <1>5, Constants
  <2>2. PICK u \in Task : task[u].pc = "write" /\ task[u].sid = s /\ task[u].linked
    BY <2>1 DEF TruncatedOnlyWhileWriting
  <2>3. u # t
    <3> SUFFICES ASSUME u = t PROVE FALSE
      OBVIOUS
    <3>1. ok
      BY <1>0, <2>2 DEF Faultless
    <3>2. stored'[s] = Absent \/ Stores(t, stored'[s])
      BY <1>0, <2>2, <3>1
    <3> QED BY <1>3, <3>2, Constants
  <2> QED BY <1>2, <2>2, <2>3
<1>12. Faultless' /\ NoTtl' /\ Clocked'
  BY <1>1, <1>3, <1>5, Constants DEF Faultless, NoTtl, Clocked
<1>13. TtlMatchesDate'
  BY <1>1, <1>3, <1>5, Constants DEF TtlMatchesDate, Readable
<1> QED BY <1>6, <1>7, <1>8, <1>9, <1>10, <1>11, <1>12, <1>13

\* redis' sync asks the clock.
LEMMA AsksKeeps ==
    ASSUME IInv, NEW t \in Task, RedisSeconds(t), task[t].good
    PROVE  IInv'
<1> USE DEF IInv
<1>1. /\ UNCHANGED <<kind, conn, dev, now, stored, syncs, steady, expect>>
      /\ kind = "redis" /\ task[t].pc = "begin" /\ Shape'
      /\ task'[t].pc = "send" /\ task'[t].destroy = FALSE
      /\ task'[t].date = task[t].date /\ task'[t].secs = Seconds(task[t].date)
      /\ task'[t].asked = now
      /\ \A u \in Task : u # t => task'[u] = task[u]
  BY RedisAsks
<1>2. \A u \in Task : task'[u].sid = task[u].sid /\ task'[u].alone = task[u].alone
  BY <1>1, RedisAsks
<1>3. Writers'
  <2>1. task[t].date \in Nat /\ now \in Nat
    BY DEF Shape, Tasks
  <2>2. task'[t].asked <= now' /\ Whole(task'[t].secs, task'[t].date, task'[t].asked)
    BY <1>1, <2>1, SecondsOf
  <2> QED BY <1>1, <2>2 DEF Writers, Whole
<1>4. Alone' /\ Quiet'
  BY <1>1, <1>2 DEF Alone, Quiet
<1>5. Kept'
  BY <1>1 DEF Kept, FewSessions, Readable
<1>6. /\ Faultless' /\ NoTtl' /\ Clocked' /\ TtlMatchesDate'
      /\ TruncatedOnlyWhileWriting'
  BY <1>1 DEF Faultless, NoTtl, Clocked, TtlMatchesDate, TruncatedOnlyWhileWriting,
              Readable
<1> QED BY <1>1, <1>3, <1>4, <1>5, <1>6

\* Every step keeps the invariant.
LEMMA Inductive ==
    ASSUME IInv, [Next]_vars
    PROVE  IInv'
<1>1. CASE Opens
  BY <1>1, OpensKeeps
<1>2. CASE Connects
  BY <1>2 DEF Connects, IInv, Shape, Writers, Whole, Faultless, NoTtl, Alone, Quiet,
              Kept, Clocked, TtlMatchesDate, TruncatedOnlyWhileWriting, FewSessions,
              Readable
<1>3. CASE Tick
  BY <1>3, TickKeeps
<1>4. CASE Fail
  BY <1>4 DEF Fail, IInv, Shape, Writers, Whole, Faultless, NoTtl, Alone, Quiet,
              Kept, Clocked, TtlMatchesDate, TruncatedOnlyWhileWriting, FewSessions,
              Readable
<1>5. CASE Restart
  <2>1. /\ \A t \in Task : task'[t] = NoTask
        /\ task' \in [Task -> Tasks] /\ steady' = FALSE
        /\ UNCHANGED <<kind, dev, now, stored, syncs, expect>>
        /\ conn' = "new"
    BY <1>5, Constants DEF Restart, IInv, Shape
  <2>2. Shape' /\ Faultless' /\ NoTtl' /\ Clocked' /\ TtlMatchesDate'
        /\ TruncatedOnlyWhileWriting'
    BY <2>1 DEF IInv, Shape, Faultless, NoTtl, Clocked, TtlMatchesDate,
                TruncatedOnlyWhileWriting, Readable
  <2>3. Writers' /\ Alone' /\ Quiet'
    BY <2>1, Constants, BackendsAssumption DEF Writers, Alone, Quiet
  <2>4. Kept'
    BY <2>1 DEF IInv, Kept, FewSessions, Readable
  <2> QED BY <2>2, <2>3, <2>4 DEF IInv
<1>6. CASE \E t \in Task, s \in Sid, d \in Nat, destroy, good \in BOOLEAN :
              BeginSync(t, s, d, destroy, good)
  BY <1>6, BeginKeeps
<1>7. CASE \E t \in Task : \/ FileDestroy(t) \/ FileTruncate(t) \/ Ends(t)
                           \/ RedisSeconds(t) /\ task[t].good
  BY <1>7, FileDestroyKeeps, FileTruncateKeeps, EndsKeeps, AsksKeeps
<1> QED BY <1>1, <1>2, <1>3, <1>4, <1>5, <1>6, <1>7, IStepForms

\* A new installation satisfies the invariant.
LEMMA Initial ==
    ASSUME Init
    PROVE  IInv
<1>1. Shape
  BY Constants DEF Init, Shape
<1>2. \A t \in Task : task[t] = NoTask
  BY DEF Init
<1>3. Writers /\ Alone
  BY <1>2, Constants DEF Writers, Alone
<1>4. Faultless /\ NoTtl /\ Clocked /\ TtlMatchesDate /\ TruncatedOnlyWhileWriting
  BY Constants DEF Init, Faultless, NoTtl, Clocked, TtlMatchesDate, Readable,
                   TruncatedOnlyWhileWriting
<1>5. Quiet /\ Kept
  BY Constants DEF Init, Quiet, Kept
<1> QED BY <1>1, <1>3, <1>4, <1>5 DEF IInv

\* The databases keep their state well formed; what redis is told is a number.
THEOREM TypeCorrect == Spec => []TypeOK
<1>1. IInv => TypeOK
  BY ShapeIsType DEF IInv
<1> QED BY <1>1, Initial, Inductive, PTL DEF Spec

\* redis drops a session less than a second before its date, or later by no more
\* than the sync took to send the seconds it had computed; but for one whose
\* seconds were computed in the last second of its life, which it keeps.
THEOREM TtlCorrect == Spec => []TtlMatchesDate
<1>1. IInv => TtlMatchesDate
  BY DEF IInv
<1> QED BY <1>1, Initial, Inductive, PTL DEF Spec

\* Without faults no interleaving of override and destroy leaves an empty file.
THEOREM NoEmptyFile == Spec => []TruncatedOnlyWhileWriting
<1>1. IInv => TruncatedOnlyWhileWriting
  BY DEF IInv
<1> QED BY <1>1, Initial, Inductive, PTL DEF Spec

\* Load returns what the last undisturbed Sync has stored, for every database
\* and through faults, restarts, Cleanup and redis' own expiration.
THEOREM LoadsLastSync == Spec => []LastSyncWins
<1>1. ASSUME IInv
      PROVE  LastSyncWins
  <2> USE <1>1 DEF IInv
  <2> SUFFICES ASSUME NEW s \in Sid, expect[s].ver # -1,
                      expect[s].date = 0 \/ now + Second <= expect[s].date,
                      dev # "down", kind = "file" \/ conn # "closed",
                      FewSessions
               PROVE  Load(s) = expect[s].ver
    BY DEF LastSyncWins
  <2>1. expect[s].date \in Nat /\ now \in Nat /\ Second \in Nat \ {0}
    BY BackendsAssumption DEF Shape, Known
  <2>2. Decoded(stored[s]) = expect[s].ver
    BY <2>1 DEF Kept
  <2>3. kind \in {"file", "leveldb", "badger", "boltdb", "redis"}
    BY BackendsAssumption DEF Shape
  <2>4. Load(s) = Decoded(stored[s])
    BY <2>3 DEF Load, FileLoad, LeveldbLoad, BadgerLoad, BoltdbLoad, RedisLoad
  <2> QED BY <2>2, <2>4
<1> QED BY <1>1, Initial, Inductive, PTL DEF Spec

\* A stored session is lost only by its own syncs or by its date.
THEOREM LossExplained == Spec => LossHasCause
<1> DEFINE Cause(s) ==
      \/ \E t \in Task :
            /\ task[t].sid = s /\ task[t].pc = "begin" /\ task'[t] # task[t]
            /\ \/ task[t].destroy
               \/ kind = "file"
               \/ kind # "redis" /\ ~task[t].good
      \/ /\ stored[s].date # 0
         /\ \/ HasExpired(stored[s].date, now)
            \/ kind = "redis" /\ stored[s].date < now' + Second
      \/ ~FewSessions
<1>1. ASSUME IInv, [Next]_vars, NEW s \in Sid, Readable(s), ~Readable(s)'
      PROVE  Cause(s)
  <2> USE <1>1 DEF IInv
  <2>1. CASE Opens
    BY <2>1 DEF Opens, Expired, HasExpired, Readable
  <2>2. CASE Connects \/ Fail \/ Restart
    BY <2>2 DEF Connects, Fail, Restart, Readable
  <2>3. CASE Tick
    <3>1. /\ stored[s].ttl # 0 /\ stored[s].ttl <= now + 1 /\ now' = now + 1
      BY <2>3 DEF Tick, Readable
    <3>2. kind = "redis"
      BY <3>1 DEF NoTtl
    <3>3. stored[s].date # 0 /\ stored[s].date < stored[s].ttl + Second
      BY <3>1, <3>2, TtlBound
    <3>4. /\ stored[s].date \in Nat /\ stored[s].ttl \in Nat /\ now \in Nat
          /\ Second \in Nat
      BY BackendsAssumption DEF Shape, Blobs
    <3> QED BY <3>1, <3>2, <3>3, <3>4
  <2>4. CASE \E t \in Task, r \in Sid, d \in Nat, destroy, good \in BOOLEAN :
                BeginSync(t, r, d, destroy, good)
    BY <2>4 DEF BeginSync, Readable
  <2>5. ASSUME NEW t \in Task, FileDestroy(t)
        PROVE  Cause(s)
    <3>1. /\ task[t].pc = "begin" /\ task[t].destroy
          /\ task'[t] = NoTask /\ s = task[t].sid
      BY <2>5, FileDestroyStep DEF FileDestroy, Readable
    <3> QED BY <3>1, Constants
  <2>6. ASSUME NEW t \in Task, FileTruncate(t)
        PROVE  Cause(s)
    <3>1. /\ task[t].pc = "begin" /\ kind = "file"
          /\ task'[t].pc = "write" /\ s = task[t].sid
      BY <2>6, FileTruncateStep DEF FileTruncate, Readable
    <3> QED BY <3>1
  <2>7. ASSUME NEW t \in Task, Ends(t)
        PROVE  Cause(s)
    <3>1. PICK ok \in BOOLEAN : End(t, ok)
      BY <2>7 DEF Ends
    <3>2. task'[t] = NoTask
      BY <3>1, EndType
    <3>3. \A b : Stores(t, b) => b.st = "ok"
      BY DEF Stores
    <3>4. /\ s = task[t].sid /\ task[t].pc = "begin"
          /\ \/ task[t].destroy
             \/ ~task[t].good /\ kind # "redis"
      BY <2>7, <3>3 DEF Ends, Readable
    <3> QED BY <3>2, <3>4, Constants
  <2>8. ~ \E t \in Task : RedisSeconds(t)
    BY DEF RedisSeconds, Readable
  <2> QED BY <2>1, <2>2, <2>3, <2>4, <2>5, <2>6, <2>7, <2>8, IStepForms
<1>2. IInv /\ [Next]_vars =>
        [\A s \in Sid : Readable(s) /\ ~Readable(s)' =>
          \/ \E t \in Task :
                /\ task[t].sid = s /\ task[t].pc = "begin" /\ task'[t] # task[t]
                /\ \/ task[t].destroy
                   \/ kind = "file"
                   \/ kind # "redis" /\ ~task[t].good
          \/ /\ stored[s].date # 0
             /\ \/ HasExpired(stored[s].date, now)
                \/ kind = "redis" /\ stored[s].date < now' + Second
          \/ ~FewSessions]_vars
  BY <1>1
<1> QED BY <1>2, Initial, Inductive, PTL DEF Spec, LossHasCause
==============================================================================
