------------------------------ MODULE Backends -------------------------------
(***************************************************************************)
(* The databases of sessiondb/: file, leveldb, badger, boltdb and redis.    *)
(* Each stores a session as the bytes of one gob under the session's id.   *)
(* They differ in what a sync does when the payload cannot be serialized,   *)
(* in whether a write is one step, in Cleanup, in the connection, and in   *)
(* who removes a session whose date has passed.                            *)
(*                                                                         *)
(* A payload is the number of its sync and a date; syncs of one database   *)
(* run at the same time when requests do, or as goroutines after Async.     *)
(* leveldb, badger, bolt and the redis server are external: a Put or a SET *)
(* is atomic, and it fails when they are closed, full or not reached.      *)
(* badger's iterator, whose buffers Cleanup holds on to, is modelled.       *)
(***************************************************************************)
EXTENDS LifeTime, FiniteSets

CONSTANTS Sid,          \* session ids, in the order of their bytes
          Task,         \* goroutines that sync
          None,
          Kinds,        \* which databases
          Dates,        \* dates of sessions; 0 is an unlimited one
          Second,       \* ticks in a second
          Prefetch,     \* how many items badger's iterator holds: 100
          MaxSyncs, MaxTime   \* bounds

ASSUME BackendsAssumption ==
    /\ Sid \subseteq Nat /\ IsFiniteSet(Sid)
    /\ None \notin Sid
    /\ Kinds \subseteq {"file", "leveldb", "badger", "boltdb", "redis"}
    /\ Dates \subseteq Nat
    /\ Second \in Nat \ {0}
    /\ Prefetch \in Nat \ {0, 1}
    /\ {MaxSyncs, MaxTime} \subseteq Nat

VARIABLES kind,      \* the database in use
          conn,      \* "new": before New, or before redis' Connect
          dev,       \* the disk, or the redis server: "full" takes no writes,
                     \* "down" answers nothing
          now,       \* the clock
          stored,    \* what is stored for an id
          task,      \* syncs under way
          syncs,     \* syncs so far
          steady,    \* history: nothing has failed and nothing has stopped
          expect     \* history: what the last undisturbed sync has stored

vars == <<kind, conn, dev, now, stored, task, syncs, steady, expect>>

\* junk is what DecodeRemoteStore fails on: an empty file, or the bytes that a
\* failed Serialize has left.  Of redis: ttl is when it drops the key, 0 for
\* never; the sync has asked the clock for the seconds, and later wrote.
Blob(st, ver, date, ttl, asked, wrote) ==
    [st |-> st, ver |-> ver, date |-> date, ttl |-> ttl, asked |-> asked,
     wrote |-> wrote]
Absent == Blob("absent", 0, 0, 0, 0, 0)
Junk == Blob("junk", 0, 0, 0, 0, 0)

\* What Serialize makes of the payload of a sync.
Bytes(y) == Blob("ok", y.ver, y.date, 0, 0, 0)

NoTask == [pc |-> "idle", sid |-> None, destroy |-> FALSE, ver |-> 0, date |-> 0,
           good |-> TRUE, linked |-> FALSE, secs |-> 0, asked |-> 0,
           alone |-> FALSE]

Unknown == [ver |-> -1, date |-> 0]

TypeOK ==
    /\ kind \in Kinds
    /\ conn \in {"new", "open", "closed"}
    /\ dev \in {"ok", "full", "down"}
    /\ now \in Nat
    /\ stored \in [Sid -> [st : {"absent", "junk", "ok"}, ver : Nat, date : Nat,
                           ttl : Nat, asked : Nat, wrote : Nat]]
    /\ task \in [Task -> [pc : {"idle", "begin", "write", "send"},
                          sid : Sid \cup {None}, destroy : BOOLEAN, ver : Nat,
                          date : Nat, good : BOOLEAN, linked : BOOLEAN,
                          secs : Int, asked : Nat, alone : BOOLEAN]]
    /\ syncs \in Nat
    /\ steady \in BOOLEAN
    /\ expect \in [Sid -> [ver : Int, date : Nat]]

Init ==
    /\ kind \in Kinds
    /\ conn = "new"
    /\ dev = "ok"
    /\ now = 1
    /\ stored = [s \in Sid |-> Absent]
    /\ task = [t \in Task |-> NoTask]
    /\ syncs = 0
    /\ steady = TRUE
    /\ expect = [s \in Sid |-> Unknown]

------------------------------------------------------------------------------
\* DecodeRemoteStore: the number of the sync, 0 for an empty RemoteStore.
Decoded(b) == IF b.st = "ok" THEN b.ver ELSE 0

\* Mutant: an unlimited session counts as expired.
ExpiredOrZero(s) == stored[s].st = "ok" /\ stored[s].date < now

\* What Cleanup looks for; it passes over what it cannot decode.
Expired(s) == stored[s].st = "ok" /\ HasExpired(stored[s].date, now)

\* New opens the database, and its Cleanup takes the sessions in gone if the
\* device lets it.  result is what the caller is left with.
Open(k, gone, result) ==
    /\ kind = k
    /\ conn = "new"
    /\ dev # "down"
    /\ conn' = result
    /\ \/ stored' = [s \in Sid |-> IF s \in gone THEN Absent ELSE stored[s]]
       \/ dev = "full" /\ UNCHANGED stored
    /\ UNCHANGED <<kind, dev, now, task, syncs, steady, expect>>

FileNew == Open("file", {s \in Sid : Expired(s)}, "open")
LeveldbNew == Open("leveldb", {s \in Sid : Expired(s)}, "open")
BoltdbNew == Open("boltdb", {s \in Sid : Expired(s)}, "open")

\* The place of a session in badger's iteration.
Place(s) == Cardinality({r \in Sid : stored[r].st # "absent" /\ r <= s})

\* badger: the transaction keeps item.Key(), a buffer that the iterator fills
\* again with the key Prefetch places further on, and with the next such key
\* after that; the transaction is committed after the last of them.
InBuffer(s) ==
    {r \in Sid : stored[r].st # "absent" /\ Place(r) % Prefetch = Place(s) % Prefetch}
AtCommit(s) == CHOOSE r \in InBuffer(s) : \A q \in InBuffer(s) : q <= r

\* badger's Cleanup returns the errors of what it cannot decode, and New returns
\* them with the database, which the caller may then give up.
BadgerNew ==
    \E result \in {"open"} \cup {"new" : s \in {s \in Sid : stored[s].st = "junk"}} :
        Open("badger", {AtCommit(s) : s \in {s \in Sid : Expired(s)}}, result)

\* redis: New only allocates; the first Load connects.  Connected is set before
\* the ping, and stays set when that fails.
RedisConnect ==
    /\ kind = "redis"
    /\ conn = "new"
    /\ conn' = "open"
    /\ UNCHANGED <<kind, dev, now, stored, task, syncs, steady, expect>>

\* Close.  A closed redis pool stays closed, as Connected stays true.  Bound:
\* badger, which panics on a write after Close, is closed when nobody writes.
CloseDB(k) ==
    /\ kind = k
    /\ conn = "open"
    /\ conn' = "closed"
    /\ UNCHANGED <<kind, dev, now, stored, task, syncs, steady, expect>>

LeveldbClose == CloseDB("leveldb")
BadgerClose == CloseDB("badger") /\ \A t \in Task : task[t].pc = "idle"
BoltdbClose == CloseDB("boltdb")
RedisClose == CloseDB("redis")

\* There is a Database to sync.  Bounds: badger's is not closed, and a redis
\* database is registered before the first session, so Load comes before Sync.
Running == conn # "new" /\ (conn = "closed" => kind # "badger")

\* The service accepts a write.
Works == conn = "open" /\ dev = "ok"

\* What Load returns.  Every error ends in an empty RemoteStore.
FileLoad(s) == IF dev = "down" THEN 0 ELSE Decoded(stored[s])
LeveldbLoad(s) == IF conn = "closed" \/ dev = "down" THEN 0 ELSE Decoded(stored[s])
BadgerLoad(s) == IF conn = "closed" \/ dev = "down" THEN 0 ELSE Decoded(stored[s])
BoltdbLoad(s) == IF conn = "closed" \/ dev = "down" THEN 0 ELSE Decoded(stored[s])
RedisLoad(s) == IF conn = "closed" \/ dev = "down" THEN 0 ELSE Decoded(stored[s])

Load(s) ==
    CASE kind = "file"    -> FileLoad(s)
      [] kind = "leveldb" -> LeveldbLoad(s)
      [] kind = "badger"  -> BadgerLoad(s)
      [] kind = "boltdb"  -> BoltdbLoad(s)
      [] kind = "redis"   -> RedisLoad(s)

------------------------------------------------------------------------------
\* Sync is called, or its goroutine starts.
BeginSync(t, s, d, destroy, good) ==
    /\ Running
    /\ syncs < MaxSyncs
    /\ task[t].pc = "idle"
    /\ syncs' = syncs + 1
    /\ LET others == {u \in Task : task[u].sid = s}
       IN task' = [u \in Task |->
              IF u = t THEN [pc |-> "begin", sid |-> s, destroy |-> destroy,
                             ver |-> syncs + 1, date |-> d, good |-> good,
                             linked |-> FALSE, secs |-> 0, asked |-> 0,
                             alone |-> others = {}]
              ELSE IF u \in others THEN [task[u] EXCEPT !.alone = FALSE]
              ELSE task[u]]
    /\ expect' = [expect EXCEPT ![s] = Unknown]
    /\ UNCHANGED <<kind, conn, dev, now, stored, steady>>

\* Sync returns; ok if nothing failed on the way.
End(t, ok) ==
    /\ task' = [task EXCEPT ![t] = NoTask]
    /\ expect' = [expect EXCEPT ![task[t].sid] =
                    IF task[t].alone /\ ok
                    THEN [ver |-> IF task[t].destroy THEN 0 ELSE task[t].ver,
                          date |-> IF task[t].destroy THEN 0 ELSE task[t].date]
                    ELSE Unknown]
    /\ UNCHANGED <<kind, conn, dev, now, syncs, steady>>

Put(s, b) == stored' = [stored EXCEPT ![s] = b]

\* A sync goes on.
Proceed(t, y) ==
    /\ task' = [task EXCEPT ![t] = y]
    /\ UNCHANGED <<kind, conn, dev, now, syncs, steady, expect>>

\* Mutant: the file is emptied and kept.
FileDestroyTruncates(t) ==
    /\ task[t].pc = "begin" /\ kind = "file" /\ task[t].destroy
    /\ Put(task[t].sid, Junk)
    /\ End(t, TRUE)

\* file: os.Remove.  Who has the file open goes on writing to no directory entry.
FileDestroy(t) ==
    /\ task[t].pc = "begin" /\ kind = "file" /\ task[t].destroy
    /\ dev # "down"
    /\ Put(task[t].sid, Absent)
    /\ expect' = [expect EXCEPT ![task[t].sid] =
                    IF task[t].alone THEN [ver |-> 0, date |-> 0] ELSE Unknown]
    /\ task' = [u \in Task |->
                  IF u = t THEN NoTask
                  ELSE IF task[u].sid = task[t].sid
                       THEN [task[u] EXCEPT !.linked = FALSE] ELSE task[u]]
    /\ UNCHANGED <<kind, conn, dev, now, syncs, steady>>

\* file: the device lets nothing be removed or opened, or override gives up as
\* it cannot serialize.
FileFails(t) ==
    /\ task[t].pc = "begin" /\ kind = "file"
    /\ dev # "ok" \/ (~task[t].destroy /\ ~task[t].good)
    /\ End(t, FALSE)
    /\ UNCHANGED stored

\* file: WriteFile opens the file, which empties it ...
FileTruncate(t) ==
    /\ task[t].pc = "begin" /\ kind = "file" /\ ~task[t].destroy
    /\ task[t].good
    /\ dev # "down"
    /\ Put(task[t].sid, Junk)
    /\ Proceed(t, [task[t] EXCEPT !.pc = "write", !.linked = TRUE])

\* Mutant: the file is emptied after it was written.
FileWriteSwapped(t) ==
    /\ task[t].pc = "write"
    /\ Put(task[t].sid, Junk)
    /\ End(t, dev = "ok")

\* ... and then writes to it, if the device lets it.
FileWrite(t) ==
    LET y == task[t] IN
    /\ y.pc = "write"
    /\ IF y.linked /\ dev = "ok" THEN Put(y.sid, Bytes(y)) ELSE UNCHANGED stored
    /\ End(t, dev = "ok")

\* leveldb, badger, boltdb: one Put or Delete.  A failed Serialize is logged and
\* its bytes are stored nevertheless.
EmbeddedSync(t) ==
    LET y == task[t] IN
    /\ y.pc = "begin"
    /\ IF Works
       THEN Put(y.sid, IF y.destroy THEN Absent
                       ELSE IF y.good THEN Bytes(y) ELSE Junk)
       ELSE UNCHANGED stored
    /\ End(t, Works /\ (y.destroy \/ y.good))

LeveldbSync(t) == kind = "leveldb" /\ EmbeddedSync(t)
BadgerSync(t) == kind = "badger" /\ EmbeddedSync(t)
BoltdbSync(t) == kind = "boltdb" /\ EmbeddedSync(t)

\* Mutant: the duration is passed as seconds without the conversion.
SecondsRaw(d) == IF d = 0 THEN 0 ELSE d - now

\* redis: the whole seconds left, 0 for an unlimited session ...
Seconds(d) ==
    IF d = 0 THEN 0
    ELSE IF d >= now THEN (d - now) \div Second ELSE -((now - d) \div Second)

\* Mutant: SETEX with -1, what TTL answers for an unlimited key.
TtlMinusOne(n) == IF n > 0 THEN now + n * Second ELSE -1

\* ... and SETEX if that is more than 0, SET otherwise.
Ttl(n) == IF n > 0 THEN now + n * Second ELSE 0

\* sync of an update asks the clock, unless Serialize fails ...
RedisSeconds(t) ==
    LET y == task[t] IN
    /\ kind = "redis" /\ y.pc = "begin" /\ ~y.destroy
    /\ UNCHANGED stored
    /\ IF y.good
       THEN Proceed(t, [y EXCEPT !.pc = "send", !.secs = Seconds(y.date),
                                 !.asked = now])
       ELSE End(t, FALSE)

\* ... and Set gets a connection, which it may have to dial first, and sends.
\* Errors are ignored.
RedisSet(t) ==
    LET y == task[t] IN
    /\ y.pc = "send"
    /\ IF Works
       THEN Put(y.sid, Blob("ok", y.ver, y.date, Ttl(y.secs), y.asked, now))
       ELSE UNCHANGED stored
    /\ End(t, Works)

RedisDelete(t) ==
    /\ kind = "redis" /\ task[t].pc = "begin" /\ task[t].destroy
    /\ IF Works THEN Put(task[t].sid, Absent) ELSE UNCHANGED stored
    /\ End(t, Works)

------------------------------------------------------------------------------
\* Time passes; redis drops the keys that are due.
Tick ==
    /\ now < MaxTime
    /\ now' = now + 1
    /\ stored' = [s \in Sid |-> IF stored[s].ttl # 0 /\ stored[s].ttl <= now + 1
                                THEN Absent ELSE stored[s]]
    /\ UNCHANGED <<kind, conn, dev, task, syncs, steady, expect>>

\* The device or the server fails, and is repaired.
Fail ==
    /\ dev' \in {"ok", "full", "down"} \ {dev}
    /\ steady' = FALSE
    /\ UNCHANGED <<kind, conn, now, stored, task, syncs, expect>>

\* The process stops anywhere.
Restart ==
    /\ conn' = "new"
    /\ task' = [t \in Task |-> NoTask]
    /\ steady' = FALSE
    /\ UNCHANGED <<kind, dev, now, stored, syncs, expect>>

SyncStep(t) ==
    \/ FileDestroy(t) \/ FileFails(t) \/ FileTruncate(t) \/ FileWrite(t)
    \/ LeveldbSync(t) \/ BadgerSync(t) \/ BoltdbSync(t)
    \/ RedisSeconds(t) \/ RedisSet(t) \/ RedisDelete(t)

Next ==
    \/ FileNew \/ LeveldbNew \/ BoltdbNew \/ BadgerNew \/ RedisConnect
    \/ LeveldbClose \/ BadgerClose \/ BoltdbClose \/ RedisClose
    \/ Tick \/ Fail \/ Restart
    \/ \E t \in Task :
        \/ \E s \in Sid : \/ BeginSync(t, s, 0, TRUE, TRUE)
                          \/ \E d \in Dates, good \in BOOLEAN :
                                BeginSync(t, s, d, FALSE, good)
        \/ SyncStep(t)

Spec == Init /\ [][Next]_vars

------------------------------------------------------------------------------
Readable(s) == stored[s].st = "ok"

\* badger's iterator reuses no buffer.
FewSessions == kind = "badger" => Cardinality(Sid) <= Prefetch

\* A sync that nothing disturbed is what Load returns from then on, whenever the
\* database can be read, through any faults and restarts and their Cleanup, until
\* another sync begins or less than a second of the session's life is left.  This
\* is for a badger of so few sessions that its Cleanup is right.
LastSyncWins ==
    \A s \in Sid :
        /\ expect[s].ver # -1
        /\ expect[s].date = 0 \/ now + Second <= expect[s].date
        /\ dev # "down"
        /\ kind = "file" \/ conn # "closed"
        /\ FewSessions
        => Load(s) = expect[s].ver

\* A stored session that could be loaded cannot any more only because of its
\* own syncs (a Destroy, the moment in which a file is empty, or the bytes of a
\* failed Serialize in leveldb, badger and boltdb) or because of its date, which
\* redis may anticipate by less than a second; and badger's Cleanup when there
\* are many sessions.
LossHasCause ==
    [][\A s \in Sid : Readable(s) /\ ~Readable(s)' =>
          \/ \E t \in Task :
                /\ task[t].sid = s /\ task[t].pc = "begin" /\ task'[t] # task[t]
                /\ \/ task[t].destroy
                   \/ kind = "file"
                   \/ kind # "redis" /\ ~task[t].good
          \/ /\ stored[s].date # 0
             /\ \/ HasExpired(stored[s].date, now)
                \/ kind = "redis" /\ stored[s].date < now' + Second
          \/ ~FewSessions]_vars

\* Concurrent rewrites and a Destroy in between leave no empty file: while
\* nothing fails and nothing stops, a file is empty only as long as somebody
\* who will fill it has it open.
TruncatedOnlyWhileWriting ==
    kind = "file" /\ steady =>
        \A s \in Sid : stored[s].st = "junk" =>
            \E t \in Task : task[t].pc = "write" /\ task[t].sid = s /\ task[t].linked

\* redis drops a session less than a second before its date, or later by no more
\* than the sync took from asking the clock to its SETEX.  It keeps for ever what
\* was asked for in the last second of a session's life.
TtlMatchesDate ==
    kind = "redis" => \A s \in Sid : Readable(s) =>
        LET b == stored[s]
            late == b.wrote - b.asked
        IN \/ /\ b.ttl # 0 /\ b.date # 0
              /\ b.ttl <= b.date + late /\ b.date + late < b.ttl + Second
           \/ b.ttl = 0 /\ (b.date = 0 \/ b.date < b.asked + Second)

\* "Cleanup removes any invalid(have expired) session entries": when a database
\* has been opened on a device that works, those and no others are gone.
CleanupRemovesExpired ==
    [][conn = "new" /\ conn' = "open" /\ kind # "redis" /\ dev = "ok" =>
          \A s \in Sid : stored'[s] = IF Expired(s) THEN Absent ELSE stored[s]]_vars
==============================================================================
