------------------------------- MODULE Session -------------------------------
(***************************************************************************)
(* The flash messages of a Session (session.go) and the two locks on the   *)
(* way to them: provider.mu, which Read holds while it runs the flash GC,   *)
(* and the session's own mutex, which every Session method takes.          *)
(*                                                                         *)
(* A flash message is a pointer in the code; here it is the number of the  *)
(* SetFlash that made it.                                                  *)
(***************************************************************************)
EXTENDS Naturals, FiniteSets

CONSTANTS Sess,     \* registered sessions
          Key,      \* keys of flash messages
          Proc,     \* goroutines serving requests
          None,
          Ops,      \* the Session methods that handlers call
          NilIn,    \* the sessions with an immutable nil among their values
          MaxMsgs   \* how many messages are set

ASSUME SessionAssumption ==
    /\ None \notin Proc \cup Sess \cup Nat
    /\ NilIn \subseteq Sess
    /\ MaxMsgs \in Nat

VARIABLES pmu,      \* who holds provider.mu
          smu,      \* who holds Session.mu of a session
          rlocked,  \* the sessions of which a read lock is never released
          flashes,  \* Session.flashes
          remove,   \* the messages with shouldRemove set
          pc,       \* where a request is: a method it has called, or ...
          sess,     \* the session of a request
          key,      \* the key its method was called with
          last,     \* the last message made
          fetched,  \* history: the messages GetFlash and GetFlashes returned
          old       \* history: those of them in the session when a request began

vars == <<pmu, smu, rlocked, flashes, remove, pc, sess, key, last, fetched, old>>

Methods == {"SetFlash", "GetFlash", "PeekFlash", "GetFlashes", "DeleteFlash",
            "ClearFlashes", "Get"}

TypeOK ==
    /\ pmu \in Proc \cup {None}
    /\ smu \in [Sess -> Proc \cup {None}]
    /\ rlocked \in SUBSET Sess
    /\ flashes \in [Sess -> [Key -> Nat \cup {None}]]
    /\ remove \in SUBSET Nat
    /\ pc \in [Proc -> Methods \cup {"idle", "Read", "runFlashGC", "handler", "mark"}]
    /\ sess \in [Proc -> Sess \cup {None}]
    /\ key \in [Proc -> Key \cup {None}]
    /\ last \in Nat
    /\ fetched \in SUBSET Nat
    /\ old \in [Proc -> SUBSET Nat]

Init ==
    /\ pmu = None
    /\ smu = [x \in Sess |-> None]
    /\ rlocked = {}
    /\ flashes = [x \in Sess |-> [k \in Key |-> None]]
    /\ remove = {}
    /\ pc = [p \in Proc |-> "idle"]
    /\ sess = [p \in Proc |-> None]
    /\ key = [p \in Proc |-> None]
    /\ last = 0
    /\ fetched = {}
    /\ old = [p \in Proc |-> {}]

Messages(x) == {flashes[x][k] : k \in Key} \ {None}

------------------------------------------------------------------------------
\* A request of an existing session: Start calls Read.
Start(p, x) ==
    /\ pc[p] = "idle"
    /\ sess' = [sess EXCEPT ![p] = x]
    /\ pc' = [pc EXCEPT ![p] = "Read"]
    /\ UNCHANGED <<pmu, smu, rlocked, flashes, remove, key, last, fetched, old>>

\* Read takes provider.mu and finds the session.
Read(p) ==
    /\ pc[p] = "Read"
    /\ pmu = None
    /\ pmu' = p
    /\ pc' = [pc EXCEPT ![p] = "runFlashGC"]
    /\ UNCHANGED <<smu, rlocked, flashes, remove, sess, key, last, fetched, old>>

\* Session.mu can be locked: nobody holds it, for writing or reading.
Free(x) == smu[x] = None /\ x \notin rlocked

\* It can be locked for reading: nobody holds it for writing, or waits to while
\* others read.
FreeToRead(x) ==
    /\ smu[x] = None
    /\ x \in rlocked => \A q \in Proc :
          sess[q] = x => pc[q] \notin (Methods \ {"Get"}) \cup {"runFlashGC"}

\* Mutant: the GC removes every message, fetched or not.
CollectAll(x) == [k \in Key |-> None]

\* What the GC leaves of a session's messages.
Collected(x) ==
    [k \in Key |-> IF flashes[x][k] \in remove THEN None ELSE flashes[x][k]]

\* runFlashGC removes the old messages, still under provider.mu, which Read
\* gives up at last.
RunFlashGC(p) ==
    /\ pc[p] = "runFlashGC"
    /\ Free(sess[p])
    /\ flashes' = [flashes EXCEPT ![sess[p]] = Collected(sess[p])]
    /\ pmu' = None
    /\ pc' = [pc EXCEPT ![p] = "handler"]
    /\ old' = [old EXCEPT ![p] = fetched \cap Messages(sess[p])]
    /\ UNCHANGED <<smu, rlocked, remove, sess, key, last, fetched>>

\* Bound: MaxMsgs messages are set, those on their way included.
RoomForMessage ==
    last + Cardinality({p \in Proc : pc[p] = "SetFlash"}) < MaxMsgs

\* The handler calls a method of the session, or returns.
Invoke(p, m, k) ==
    /\ m \in Ops
    /\ m = "SetFlash" => RoomForMessage
    /\ pc[p] = "handler"
    /\ pc' = [pc EXCEPT ![p] = m]
    /\ key' = [key EXCEPT ![p] = k]
    /\ UNCHANGED <<pmu, smu, rlocked, flashes, remove, sess, last, fetched, old>>

Return(p) ==
    /\ pc[p] = "handler"
    /\ pc' = [pc EXCEPT ![p] = "idle"]
    /\ sess' = [sess EXCEPT ![p] = None]
    /\ key' = [key EXCEPT ![p] = None]
    /\ old' = [old EXCEPT ![p] = {}]
    /\ UNCHANGED <<pmu, smu, rlocked, flashes, remove, last, fetched>>

------------------------------------------------------------------------------
\* Method m of p has got the session's mutex; it gives it up at its end.
Locked(p, m) ==
    /\ pc[p] = m
    /\ Free(sess[p])
    /\ pc' = [pc EXCEPT ![p] = "handler"]
    /\ UNCHANGED <<pmu, sess, key, old>>

SetFlash(p) ==
    /\ Locked(p, "SetFlash")
    /\ last' = last + 1
    /\ flashes' = [flashes EXCEPT ![sess[p]][key[p]] = last + 1]
    /\ UNCHANGED <<smu, rlocked, remove, fetched>>

\* Mutant: GetFlashes returns the messages and does not mark them.
GetFlashesUnmarked(p) ==
    /\ Locked(p, "GetFlashes")
    /\ fetched' = fetched \cup Messages(sess[p])
    /\ UNCHANGED <<smu, rlocked, flashes, remove, last>>

GetFlashes(p) ==
    /\ Locked(p, "GetFlashes")
    /\ remove' = remove \cup Messages(sess[p])
    /\ fetched' = fetched \cup Messages(sess[p])
    /\ UNCHANGED <<smu, rlocked, flashes, last>>

\* Mutant: DeleteFlash keeps the mutex.
DeleteFlashLocked(p) ==
    /\ Locked(p, "DeleteFlash")
    /\ smu' = [smu EXCEPT ![sess[p]] = p]
    /\ flashes' = [flashes EXCEPT ![sess[p]][key[p]] = None]
    /\ UNCHANGED <<rlocked, remove, last, fetched>>

DeleteFlash(p) ==
    /\ Locked(p, "DeleteFlash")
    /\ flashes' = [flashes EXCEPT ![sess[p]][key[p]] = None]
    /\ UNCHANGED <<smu, rlocked, remove, last, fetched>>

\* Mutant: the map is set to nil instead of being emptied.
ClearFlashesToNil(p) ==
    /\ Locked(p, "ClearFlashes")
    /\ flashes' = [flashes EXCEPT ![sess[p]] = None]
    /\ UNCHANGED <<smu, rlocked, remove, last, fetched>>

ClearFlashes(p) ==
    /\ Locked(p, "ClearFlashes")
    /\ flashes' = [flashes EXCEPT ![sess[p]] = [k \in Key |-> None]]
    /\ UNCHANGED <<smu, rlocked, remove, last, fetched>>

\* Get, and with it the other methods on the values: of the state here they only
\* need the mutex.
Get(p) ==
    /\ pc[p] = "Get"
    /\ FreeToRead(sess[p])
    /\ pc' = [pc EXCEPT ![p] = "handler"]
    /\ UNCHANGED <<pmu, smu, rlocked, flashes, remove, sess, key, last, fetched,
                   old>>

\* Get of an immutable nil: Entry.Value panics, the read lock is not released by
\* a defer, and net/http recovers, which ends the request.
GetPanics(p) ==
    /\ pc[p] = "Get"
    /\ sess[p] \in NilIn
    /\ FreeToRead(sess[p])
    /\ rlocked' = rlocked \cup {sess[p]}
    /\ pc' = [pc EXCEPT ![p] = "idle"]
    /\ sess' = [sess EXCEPT ![p] = None]
    /\ key' = [key EXCEPT ![p] = None]
    /\ old' = [old EXCEPT ![p] = {}]
    /\ UNCHANGED <<pmu, smu, flashes, remove, last, fetched>>

\* peekFlashMessage does not find the key: it unlocks, and nil is returned.
PeekMissing(p) ==
    /\ pc[p] \in {"GetFlash", "PeekFlash"}
    /\ Locked(p, pc[p])
    /\ flashes[sess[p]][key[p]] = None
    /\ UNCHANGED <<smu, rlocked, flashes, remove, last, fetched>>

\* It finds the key: it returns the message with the mutex still locked, and
\* so do PeekFlash and, once it has marked the message, GetFlash.
PeekFound(p) ==
    /\ pc[p] \in {"GetFlash", "PeekFlash"}
    /\ Free(sess[p])
    /\ flashes[sess[p]][key[p]] # None
    /\ smu' = [smu EXCEPT ![sess[p]] = p]
    /\ pc' = [pc EXCEPT ![p] = IF pc[p] = "GetFlash" THEN "mark" ELSE "handler"]
    /\ UNCHANGED <<pmu, rlocked, flashes, remove, sess, key, last, fetched, old>>

MarkFlash(p) ==
    /\ pc[p] = "mark"
    /\ remove' = remove \cup {flashes[sess[p]][key[p]]}
    /\ fetched' = fetched \cup {flashes[sess[p]][key[p]]}
    /\ pc' = [pc EXCEPT ![p] = "handler"]
    /\ UNCHANGED <<pmu, smu, rlocked, flashes, sess, key, last, old>>

------------------------------------------------------------------------------
\* What a request does once it has begun, apart from its calls.
Step(p) ==
    \/ Read(p) \/ RunFlashGC(p) \/ Return(p)
    \/ SetFlash(p) \/ GetFlashes(p) \/ DeleteFlash(p) \/ ClearFlashes(p)
    \/ Get(p) \/ GetPanics(p) \/ PeekMissing(p) \/ PeekFound(p) \/ MarkFlash(p)

Next ==
    \E p \in Proc :
        \/ \E x \in Sess : Start(p, x)
        \/ \E m \in Methods, k \in Key : Invoke(p, m, k)
        \/ Step(p)

Spec == Init /\ [][Next]_vars

\* A goroutine that can run runs, one that waits for a mutex gets it when it is
\* released again and again (sync.Mutex does not let a waiter starve), and a
\* handler calls finitely many methods.
Fairness == \A p \in Proc : SF_vars(Step(p)) /\ SF_vars(Return(p))

FairSpec == Spec /\ Fairness

------------------------------------------------------------------------------
\* What GetFlash or GetFlashes returned before a request's GC is not there for
\* that request, whatever other requests of the session do meanwhile.  Two
\* requests that are both past their GC may still both get a message.
FetchedOnce ==
    \A p \in Proc : sess[p] # None => old[p] \cap Messages(sess[p]) = {}

\* A message nobody fetched outlives every GC: only a SetFlash of its key,
\* a DeleteFlash or a ClearFlashes takes it away.
UnfetchedSurvives ==
    [][\A x \in Sess, k \in Key :
          LET m == flashes[x][k]
          IN m # None /\ m \notin fetched /\ flashes'[x][k] # m =>
                \E p \in Proc : /\ sess[p] = x
                                /\ pc[p] \in {"SetFlash", "DeleteFlash", "ClearFlashes"}
                                /\ pc'[p] = "handler"]_vars

\* Every request is served, it gets its session and returns, as long as nobody
\* calls GetFlash or PeekFlash, which may leave the session locked, and no Get
\* panics, which leaves it locked for reading.
RequestsServed ==
    [](rlocked = {} /\ \A p \in Proc : pc[p] \notin {"GetFlash", "PeekFlash"})
        => \A p \in Proc : pc[p] = "Read" ~> pc[p] = "idle"

\* "GetFlash returns a stored flash message ... which will be removed on the next
\* request", and PeekFlash "will keep the message valid for the next requests":
\* the next request gets its session.
NextRequestBegins == \A p \in Proc : pc[p] = "Read" ~> pc[p] = "handler"
==============================================================================
