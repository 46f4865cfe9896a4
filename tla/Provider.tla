------------------------------ MODULE Provider -------------------------------
(***************************************************************************)
(* The provider of provider.go: the registry of the live sessions, shared   *)
(* by the goroutines that serve requests and by those that the expiration  *)
(* timers start.  Its mutex guards the registry only: a session is loaded,  *)
(* given its timer and synced to the database outside of it.               *)
(*                                                                         *)
(* A session is a pointer in the code and an element of Obj here; its      *)
(* values and flash messages are left to other modules, so of a database   *)
(* entry only the presence and the expiration date remain.                 *)
(***************************************************************************)
EXTENDS LifeTime, FiniteSets

CONSTANTS Sid,         \* session ids
          Proc,        \* the goroutines serving requests
          Obj,         \* Session objects, one per newSession of a process
          None,        \* nil
          Ops,         \* the calls the application makes
          Expires,     \* Config.Expires in ticks; <= 0 is unlimited
          Updates,     \* the durations UpdateExpiration is called with
          Flashed,     \* the sessions given a flash message for GetFlash
          MaxTime      \* requests arrive while the clock is below this

ASSUME ProviderAssumption ==
    /\ None \notin Obj \cup Sid \cup Proc
    /\ Obj \cap Proc = {}
    /\ Expires \in Int
    /\ Updates \subseteq Nat \ {0}
    /\ Flashed \subseteq Obj
    /\ MaxTime \in Nat

VARIABLES now,       \* the clock
          mu,        \* who holds provider.mu
          sessions,  \* provider.sessions: the session registered for an id
          sidOf,     \* Session.sid of an object, None before newSession
          life,      \* Session.lifetime of an object
          firing,    \* onExpire goroutines of an object still to take the lock
          db,        \* the stored session of an id
          pc,        \* where a goroutine is
          arg,       \* the session id a request is about
          load,      \* the date newSession loaded
          cur,       \* the session a goroutine works on
          known,     \* the ids that browsers hold in a cookie
          todo,      \* what DestroyAll's range over the registry has left
          locked     \* sessions whose mutex a GetFlash has left locked

vars == <<now, mu, sessions, sidOf, life, firing, db, pc, arg, load, cur, known,
          todo, locked>>

\* Goroutines are named by the request they serve or by the session whose
\* timer started them.
Goroutine == Proc \cup Obj

NoEntry == [has |-> FALSE, time |-> 0]

TypeOK ==
    /\ now \in Nat \ {0}
    /\ mu \in Goroutine \cup {None}
    /\ sessions \in [Sid -> Obj \cup {None}]
    /\ sidOf \in [Obj -> Sid \cup {None}]
    /\ life \in [Obj -> LifeTimes]
    /\ firing \in [Obj -> Nat]
    /\ db \in [Sid -> [has : BOOLEAN, time : Nat]]
    /\ pc \in [Goroutine -> {"idle", "gc", "load", "birth", "publish",
                             "handler", "shift", "destroySync", "all", "allSync"}]
    /\ arg \in [Goroutine -> Sid \cup {None}]
    /\ load \in [Proc -> Nat]
    /\ cur \in [Proc -> Obj \cup {None}]
    /\ known \in SUBSET Sid
    /\ todo \in SUBSET Sid
    /\ locked \in SUBSET Obj

Init ==
    /\ now = 1
    /\ mu = None
    /\ sessions = [s \in Sid |-> None]
    /\ sidOf = [o \in Obj |-> None]
    /\ life = [o \in Obj |-> Stored(0)]
    /\ firing = [o \in Obj |-> 0]
    /\ db = [s \in Sid |-> NoEntry]
    /\ pc = [g \in Goroutine |-> "idle"]
    /\ arg = [g \in Goroutine |-> None]
    /\ load = [p \in Proc |-> 0]
    /\ cur = [p \in Proc |-> None]
    /\ known \in SUBSET Sid
    /\ todo = {}
    /\ locked = {}

------------------------------------------------------------------------------
\* Bounds.  A request may create a session only if an object is left for it
\* and for every other request on its way to newSession.
Creating == {p \in Proc : pc[p] \in {"load", "birth"}}
Unused == {o \in Obj : sidOf[o] = None}
RoomForSession == Cardinality(Creating) < Cardinality(Unused)

\* A goroutine that serves nobody takes a new call.
Call(p, op) == /\ op \in Ops
               /\ pc[p] = "idle"
               /\ now < MaxTime

------------------------------------------------------------------------------
\* Start without a cookie: the generator returns an id nobody has (external),
\* and the session is created without looking it up.
StartNew(p, s) ==
    /\ Call(p, "start")
    /\ RoomForSession
    /\ s \notin known
    /\ \A q \in Proc : pc[q] \in {"load", "birth", "publish"} => arg[q] # s
    /\ arg' = [arg EXCEPT ![p] = s]
    /\ pc' = [pc EXCEPT ![p] = "load"]
    /\ UNCHANGED <<now, mu, sessions, sidOf, life, firing, db, load, cur,
                   known, todo, locked>>

\* Read, found: the lock stays taken for the flash GC of the session.
ReadFound(p, s) ==
    /\ Call(p, "start")
    /\ s \in known
    /\ mu = None
    /\ sessions[s] # None
    /\ mu' = p
    /\ cur' = [cur EXCEPT ![p] = sessions[s]]
    /\ arg' = [arg EXCEPT ![p] = s]
    /\ pc' = [pc EXCEPT ![p] = "gc"]
    /\ UNCHANGED <<now, sessions, sidOf, life, firing, db, load, known,
                   todo, locked>>

\* runFlashGC waits for the session's mutex; then Read unlocks and returns the
\* session.
RunFlashGC(p) ==
    /\ pc[p] = "gc"
    /\ cur[p] \notin locked
    /\ mu' = None
    /\ pc' = [pc EXCEPT ![p] = "handler"]
    /\ UNCHANGED <<now, sessions, sidOf, life, firing, db, arg, load, cur, known,
                   todo, locked>>

\* Read, not found: the lock is given up and Init makes a session.
ReadMissing(p, s) ==
    /\ Call(p, "start")
    /\ s \in known
    /\ RoomForSession
    /\ mu = None
    /\ sessions[s] = None
    /\ arg' = [arg EXCEPT ![p] = s]
    /\ pc' = [pc EXCEPT ![p] = "load"]
    /\ UNCHANGED <<now, mu, sessions, sidOf, life, firing, db, load, cur,
                   known, todo, locked>>

\* loadSessionFromDB with one database: an expired entry counts as none.
LoadSession(p) ==
    /\ pc[p] = "load"
    /\ LET t == db[arg[p]].time
       IN load' = [load EXCEPT ![p] = IF HasExpired(t, now) THEN 0 ELSE t]
    /\ pc' = [pc EXCEPT ![p] = "birth"]
    /\ UNCHANGED <<now, mu, sessions, sidOf, life, firing, db, arg, cur, known,
                   todo, locked>>

\* The rest of newSession: a loaded date is revived, otherwise the configured
\* life begins.  The timer runs from here on.
NewLife(t) ==
    IF t # 0 THEN Revive(Stored(t), now) ELSE Begin(Stored(0), Expires, now)

\* Mutant: newSession takes a Session from a pool that may still be in use.
NewSessionPooled(p, o) ==
    /\ pc[p] = "birth"
    /\ sidOf' = [sidOf EXCEPT ![o] = arg[p]]
    /\ life' = [life EXCEPT ![o] = NewLife(load[p])]
    /\ cur' = [cur EXCEPT ![p] = o]
    /\ load' = [load EXCEPT ![p] = 0]
    /\ pc' = [pc EXCEPT ![p] = "publish"]
    /\ UNCHANGED <<now, mu, sessions, firing, db, arg, known, todo, locked>>

\* The new Session, known to this request only.
NewSession(p, o) ==
    /\ pc[p] = "birth"
    /\ sidOf[o] = None
    /\ sidOf' = [sidOf EXCEPT ![o] = arg[p]]
    /\ life' = [life EXCEPT ![o] = NewLife(load[p])]
    /\ cur' = [cur EXCEPT ![p] = o]
    /\ load' = [load EXCEPT ![p] = 0]
    /\ pc' = [pc EXCEPT ![p] = "publish"]
    /\ UNCHANGED <<now, mu, sessions, firing, db, arg, known, todo, locked>>

\* Mutant: Init registers the session without taking the lock.
PublishUnlocked(p) ==
    /\ pc[p] = "publish"
    /\ sessions' = [sessions EXCEPT ![arg[p]] = cur[p]]
    /\ known' = known \cup {arg[p]}
    /\ pc' = [pc EXCEPT ![p] = "handler"]
    /\ UNCHANGED <<now, mu, sidOf, life, firing, db, arg, load, cur, todo,
                   locked>>

\* The end of Init: the new session is registered, over any other.  Start then
\* sends a generated id as the cookie.
Publish(p) ==
    /\ pc[p] = "publish"
    /\ mu = None
    /\ sessions' = [sessions EXCEPT ![arg[p]] = cur[p]]
    /\ known' = known \cup {arg[p]}
    /\ pc' = [pc EXCEPT ![p] = "handler"]
    /\ UNCHANGED <<now, mu, sidOf, life, firing, db, arg, load, cur, todo,
                   locked>>

\* Session.Set, Delete and Clear end in a sync that stores the session with
\* its date.  They never look at the registry.
Mutate(p) ==
    /\ "mutate" \in Ops
    /\ pc[p] = "handler"
    /\ cur[p] \notin locked
    /\ db' = [db EXCEPT ![arg[p]] = [has |-> TRUE, time |-> life[cur[p]].time]]
    /\ UNCHANGED <<now, mu, sessions, sidOf, life, firing, pc, arg, load, cur,
                   known, todo, locked>>

\* GetFlash of a message that is there: peekFlashMessage returns with the
\* session's mutex locked.
GetFlash(p) ==
    /\ pc[p] = "handler"
    /\ cur[p] \in Flashed \ locked
    /\ locked' = locked \cup {cur[p]}
    /\ UNCHANGED <<now, mu, sessions, sidOf, life, firing, db, pc, arg, load,
                   cur, known, todo>>

\* The handler returns.
Return(p) ==
    /\ pc[p] = "handler"
    /\ pc' = [pc EXCEPT ![p] = "idle"]
    /\ arg' = [arg EXCEPT ![p] = None]
    /\ cur' = [cur EXCEPT ![p] = None]
    /\ UNCHANGED <<now, mu, sessions, sidOf, life, firing, db, load, known,
                   todo, locked>>

------------------------------------------------------------------------------
\* UpdateExpiration up to the unlock.  A duration <= 0 changes nothing.
UpdateExpiration(p, s) ==
    /\ Call(p, "update")
    /\ mu = None
    /\ sessions[s] # None
    /\ arg' = [arg EXCEPT ![p] = s]
    /\ cur' = [cur EXCEPT ![p] = sessions[s]]
    /\ pc' = [pc EXCEPT ![p] = "shift"]
    /\ UNCHANGED <<now, mu, sessions, sidOf, life, firing, db, load, known,
                   todo, locked>>

\* Mutant: the session is written back to the registry after the shift.
ShiftWriteBack(p, d) ==
    /\ pc[p] = "shift"
    /\ life' = [life EXCEPT ![cur[p]] = Shift(@, d, now)]
    /\ sessions' = [sessions EXCEPT ![arg[p]] = cur[p]]
    /\ pc' = [pc EXCEPT ![p] = "idle"]
    /\ arg' = [arg EXCEPT ![p] = None]
    /\ cur' = [cur EXCEPT ![p] = None]
    /\ UNCHANGED <<now, mu, sidOf, firing, db, load, known, todo, locked>>

\* Its last step, outside the lock.
ShiftLifetime(p, d) ==
    /\ pc[p] = "shift"
    /\ life' = [life EXCEPT ![cur[p]] = Shift(@, d, now)]
    /\ pc' = [pc EXCEPT ![p] = "idle"]
    /\ arg' = [arg EXCEPT ![p] = None]
    /\ cur' = [cur EXCEPT ![p] = None]
    /\ UNCHANGED <<now, mu, sessions, sidOf, firing, db, load, known, todo,
                   locked>>

------------------------------------------------------------------------------
\* Mutant: Destroy looks the session up without waiting for the lock.
DestroyNoWait(g, s) ==
    \/ /\ sessions[s] # None
       /\ mu' = g
       /\ sessions' = [sessions EXCEPT ![s] = None]
       /\ pc' = [pc EXCEPT ![g] = "destroySync"]
       /\ arg' = [arg EXCEPT ![g] = s]
    \/ /\ sessions[s] = None
       /\ UNCHANGED <<mu, sessions, pc, arg>>

\* provider.Destroy by goroutine g: the entry is deleted under the lock, which
\* stays taken during the sync.  The timer of the session is left running.
DestroyLocked(g, s) ==
    /\ mu = None
    /\ \/ /\ sessions[s] # None
          /\ mu' = g
          /\ sessions' = [sessions EXCEPT ![s] = None]
          /\ pc' = [pc EXCEPT ![g] = "destroySync"]
          /\ arg' = [arg EXCEPT ![g] = s]
       \/ /\ sessions[s] = None
          /\ UNCHANGED <<mu, sessions, pc, arg>>

\* Destroy or DestroyByID called by a request.
Destroy(p, s) ==
    /\ Call(p, "destroy")
    /\ DestroyLocked(p, s)
    /\ UNCHANGED <<now, sidOf, life, firing, db, load, cur, known, todo,
                   locked>>

\* The sync that removes the stored session, and the unlock.
DestroySync(g) ==
    /\ pc[g] = "destroySync"
    /\ db' = [db EXCEPT ![arg[g]] = NoEntry]
    /\ mu' = None
    /\ pc' = [pc EXCEPT ![g] = "idle"]
    /\ arg' = [arg EXCEPT ![g] = None]
    /\ UNCHANGED <<now, sessions, sidOf, life, firing, load, cur, known, todo,
                   locked>>

\* DestroyAll: the sessions one by one under a single lock.  The range visits
\* the entries present when it starts; one added meanwhile may be skipped.
DestroyAll(p) ==
    /\ Call(p, "destroyAll")
    /\ mu = None
    /\ mu' = p
    /\ todo' = {s \in Sid : sessions[s] # None}
    /\ pc' = [pc EXCEPT ![p] = "all"]
    /\ UNCHANGED <<now, sessions, sidOf, life, firing, db, arg, load, cur,
                   known, locked>>

DestroyAllNext(p, s) ==
    /\ pc[p] = "all"
    /\ s \in todo
    /\ todo' = todo \ {s}
    /\ sessions' = [sessions EXCEPT ![s] = None]
    /\ arg' = [arg EXCEPT ![p] = s]
    /\ pc' = [pc EXCEPT ![p] = "allSync"]
    /\ UNCHANGED <<now, mu, sidOf, life, firing, db, load, cur, known, locked>>

DestroyAllSync(p) ==
    /\ pc[p] = "allSync"
    /\ db' = [db EXCEPT ![arg[p]] = NoEntry]
    /\ arg' = [arg EXCEPT ![p] = None]
    /\ pc' = [pc EXCEPT ![p] = "all"]
    /\ UNCHANGED <<now, mu, sessions, sidOf, life, firing, load, cur, known,
                   todo, locked>>

DestroyAllEnd(p) ==
    /\ pc[p] = "all"
    /\ todo = {}
    /\ mu' = None
    /\ pc' = [pc EXCEPT ![p] = "idle"]
    /\ UNCHANGED <<now, sessions, sidOf, life, firing, db, arg, load, cur,
                   known, todo, locked>>

------------------------------------------------------------------------------
\* The runtime fires a due timer: a goroutine starts in onExpire.
Fire(o) ==
    /\ life[o].timer = "armed"
    /\ now >= life[o].at
    /\ life' = [life EXCEPT ![o].timer = "fired"]
    /\ firing' = [firing EXCEPT ![o] = @ + 1]
    /\ UNCHANGED <<now, mu, sessions, sidOf, db, pc, arg, load, cur, known,
                   todo, locked>>

\* Mutant: onExpire runs when it is passed to AfterFunc, not when the timer fires.
OnExpireAtOnce(o) ==
    /\ sidOf[o] # None
    /\ DestroyLocked(o, sidOf[o])
    /\ firing' = [firing EXCEPT ![o] = @ - 1]
    /\ UNCHANGED <<now, sidOf, life, db, load, cur, known, todo, locked>>

\* onExpire: destroys whatever session is registered under the id by then.
OnExpire(o) ==
    /\ firing[o] > 0
    /\ DestroyLocked(o, sidOf[o])
    /\ firing' = [firing EXCEPT ![o] = @ - 1]
    /\ UNCHANGED <<now, sidOf, life, db, load, cur, known, todo, locked>>

\* The clock.  It runs while requests arrive and while a timer is to come.
Tick ==
    /\ now < MaxTime \/ \E o \in Obj : life[o].timer = "armed" /\ life[o].at > now
    /\ now' = now + 1
    /\ UNCHANGED <<mu, sessions, sidOf, life, firing, db, pc, arg, load, cur,
                   known, todo, locked>>

\* The process stops anywhere and starts again: all that was in memory is
\* lost, and opening the database runs its Cleanup.
Cleanup == [s \in Sid |-> IF HasExpired(db[s].time, now) THEN NoEntry ELSE db[s]]

Restart ==
    /\ mu' = None
    /\ sessions' = [s \in Sid |-> None]
    /\ sidOf' = [o \in Obj |-> None]
    /\ life' = [o \in Obj |-> Stored(0)]
    /\ firing' = [o \in Obj |-> 0]
    /\ db' = Cleanup
    /\ pc' = [g \in Goroutine |-> "idle"]
    /\ arg' = [g \in Goroutine |-> None]
    /\ load' = [p \in Proc |-> 0]
    /\ cur' = [p \in Proc |-> None]
    /\ todo' = {}
    /\ locked' = {}
    /\ UNCHANGED <<now, known>>

------------------------------------------------------------------------------
Request(p) ==
    \/ \E s \in Sid : \/ StartNew(p, s)
                      \/ ReadFound(p, s)
                      \/ ReadMissing(p, s)
                      \/ UpdateExpiration(p, s)
                      \/ Destroy(p, s)
                      \/ DestroyAllNext(p, s)
    \/ RunFlashGC(p)
    \/ LoadSession(p)
    \/ \E o \in Obj : NewSession(p, o)
    \/ Publish(p)
    \/ Mutate(p)
    \/ GetFlash(p)
    \/ Return(p)
    \/ \E d \in Updates : ShiftLifetime(p, d)
    \/ DestroyAll(p)
    \/ DestroyAllSync(p)
    \/ DestroyAllEnd(p)

Next ==
    \/ \E p \in Proc : Request(p)
    \/ \E g \in Goroutine : DestroySync(g)
    \/ \E o \in Obj : Fire(o) \/ OnExpire(o)
    \/ Tick
    \/ Restart

Spec == Init /\ [][Next]_vars

\* What a request does once its call has begun, the writes of its handler left
\* aside.
Proceed(p) ==
    \/ RunFlashGC(p) \/ LoadSession(p) \/ Publish(p) \/ Return(p)
    \/ \E o \in Obj : NewSession(p, o)
    \/ \E d \in Updates : ShiftLifetime(p, d)
    \/ \E s \in Sid : DestroyAllNext(p, s)
    \/ DestroyAllSync(p) \/ DestroyAllEnd(p) \/ DestroySync(p)

\* A running goroutine goes on, a handler returns, a due timer fires and time
\* passes.  Fairness is strong where a step needs a lock: sync.Mutex hands itself
\* to a waiter that has waited too long, so none is passed over for ever.  Nothing
\* makes a request arrive or a process restart.
Fairness ==
    /\ WF_vars(Tick)
    /\ \A p \in Proc : SF_vars(Proceed(p))
    /\ \A o \in Obj : /\ WF_vars(Fire(o))
                      /\ SF_vars(OnExpire(o) \/ DestroySync(o))

FairSpec == Spec /\ Fairness

------------------------------------------------------------------------------
(* What holds.                                                             *)

InCritical == {"gc", "destroySync", "all", "allSync"}

\* Mutual exclusion: a goroutine is between a Lock and an Unlock of provider.mu
\* exactly when it is the one that holds it, so no two deleteSession overlap.
MutualExclusion == \A g \in Goroutine : pc[g] \in InCritical <=> mu = g

\* A session that newSession made and Init has not registered yet.
Unpublished(o) == \E p \in Proc : pc[p] = "publish" /\ cur[p] = o

Registered(o) == \E s \in Sid : sessions[s] = o

\* The registry holds a session under the id it was made for, so deleteSession
\* removes the entry it was called for; and a session still to be registered is
\* known to a single request and not yet to the registry.
RegistryConsistent ==
    /\ \A s \in Sid : sessions[s] # None => sidOf[sessions[s]] = s
    /\ \A p \in Proc : pc[p] = "publish" =>
          /\ cur[p] \in Obj
          /\ sidOf[cur[p]] = arg[p]
          /\ ~Registered(cur[p])
          /\ \A q \in Proc \ {p} : pc[q] = "publish" => cur[q] # cur[p]

\* A session that was in the registry, or was replaced in it, and is not now.
Retired(o) == sidOf[o] # None /\ ~Registered(o) /\ ~Unpublished(o)

\* A session removed from the registry never returns to it while the process
\* runs: no goroutine that got hold of it earlier puts it back.
RetiredForGood ==
    [][~Restart => \A o \in Obj : Retired(o) => Retired(o)']_vars

\* When DestroyAll gives up the lock no session is registered, whoever was
\* about to register one while it ran.
DestroyAllEmpties ==
    [][\A p \in Proc : pc[p] = "all" /\ pc'[p] = "idle" /\ ~Restart
                         => \A s \in Sid : sessions[s] = None]_vars

\* A timer never comes early: its goroutine runs only once the date of its
\* session has been reached, provided UpdateExpiration is never called with
\* less than the configured life.
NoEarlyExpiry ==
    (\A d \in Updates : d >= Expires) =>
        \A o \in Obj : firing[o] > 0 => life[o].time <= now

\* A registered session whose timer runs leaves the registry in the end: the
\* timer fires and its goroutine gets the lock that requests keep taking.  This
\* needs that no GetFlash leaves a session's mutex locked, for which Read would
\* wait with provider.mu taken, and that UpdateExpiration does not move timers
\* for ever.
TimersDestroy ==
    [](locked = {}) /\ <>[](\A p \in Proc : pc[p] # "shift") =>
        \A o \in Obj : Registered(o) /\ life[o].timer = "armed" ~> ~Registered(o)

------------------------------------------------------------------------------
(* What a comment of the code promises and the code does not keep.         *)

\* The session that a step of o's onExpire goroutine takes out of the registry.
ExpiresBy(o, s) == /\ firing'[o] < firing[o] /\ ~Restart
                   /\ sessions[s] # None /\ sessions'[s] = None

\* "LifeTime controls the session expiration datetime": a timer removes a
\* session only at that session's own date.
ExpiresByOwnDate ==
    [][\A o \in Obj, s \in Sid : ExpiresBy(o, s) =>
           life[sessions[s]].time # 0 /\ life[sessions[s]].time <= now]_vars
==============================================================================
