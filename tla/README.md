# Verification of go-sessions

TLA+ modules for [go-sessions](../src/README.md), a session manager for `net/http` and
`fasthttp`: what its parts keep and do, model-checked by TLC on small instances and, for the
properties that matter most, proved by TLAPS for instances of any size.

## 1. The system

| Part | Source | State | Operations |
|------|--------|-------|-----------|
| Memstore | `memstore.go` | a slice of entries (key, value, immutable flag) | `Save`/`Set`/`SetImmutable`, `Get`, `Remove`, `Reset`, `Visit` |
| Lifetime | `lifetime.go` | the expiration date and a `time.Timer` | `Begin`, `Revive`, `Shift`, `HasExpired` (`ExpireNow` is never called) |
| Provider | `provider.go` | the registry id -> session, its mutex, the databases | `Init`, `Read`, `UpdateExpiration`, `Destroy`, `DestroyAll`, `onExpire`, `loadSessionFromDB` |
| Session | `session.go` | values, flash messages, an `RWMutex`, the lifetime | getters, `Set`/`Delete`/`Clear`, the flash methods, `runFlashGC` |
| Manager | `sessions.go`, `cookie.go`, `config.go` | configuration; the cookie is in the browser | `Start`, `ShiftExpiration`, `UpdateExpiration`, `Destroy`, `DestroyByID`, `DestroyAll` |
| Sync | `database.go` | pooled payloads | `acquireSyncPayload`, `syncDatabases`, gob encoding of a `RemoteStore` |
| Databases | `sessiondb/*` | stored sessions, one blob per id | `Load`, `Sync`, `Cleanup`, `Close`, optional goroutine per sync (`Async`) |

Requests run in goroutines of their own and meet in the registry (under `provider.mu`) and in
the session they share (under its own mutex). Every session with a date has a timer, whose
goroutine calls `provider.Destroy` with the session's id. `provider.mu` is held around
`runFlashGC`, which takes the session's mutex, and around the database sync of a destroyed
session. It is *not* held while a session is loaded, given its timer, shifted, or synced by a
handler. A restart loses all but the databases and the browsers' cookies.

What is hard, part by part (the list with lines is `hazards` in `PROJECT.json`):

* Memstore: slots behind the length keep old entries and are reused. It must still be a map.
* Lifetime and Provider: steps between the unlock and the use of what was looked up; timers that
  fire before the session is registered, after it was destroyed, or while they are rescheduled;
  stored dates; restarts. The registry must stay consistent, what was removed must stay removed,
  `DestroyAll` must leave nothing, timers must neither be early nor lost.
* Session: two locks, taken in order by `Read`; the flash messages of one session used by
  several requests. A message is shown on one page and not lost before.
* Sync: the payload is the session's own slice, read after the unlock by several databases,
  perhaps in goroutines. Whatever a race has stored must be repaired by the next call, and a
  crash in the middle of a call must leave something that call explains.
* Loader: several databases, some expired, empty, or expiring while they are asked.
* Databases: a file is emptied before it is written, a failed serialization is stored, redis
  counts in seconds, badger's iterator owns the keys that `Cleanup` deletes. A stored session
  must be what the last sync stored, and must not go before its time.
* Cookies: whole seconds, domains, lost and reordered responses, keys that a restart changes,
  removal. Browser and server must agree on how long a session lives.

## 2. Modules

| Module | What it is |
|--------|------------|
| `KVStore` | abstract: a map with immutable entries and the answers of its calls |
| `Store` | the slice of `memstore.go` as a value, and what each call makes of it |
| `Memstore` | a Store and its calls; `KVSpec` states that it implements `KVStore` |
| `LifeTime` | the operations of `lifetime.go` as operators on (date, timer, due) |
| `Provider` | registry, timers, clock, one database, restarts |
| `Session` | flash messages under the two locks |
| `Sync` | `Set`, `Delete`, `Clear`, `Destroy` from the critical section to the stored bytes; built on `Store` |
| `Loader` | `loadSessionFromDB` over several databases; built on `LifeTime` |
| `Backends` | the five databases of `sessiondb/`; built on `LifeTime` |
| `Cookies` | the manager's calls between a browser and the registry |
| `MCSync`, `MCBackends`, `MCCookies` | symmetry sets and configurations for TLC |
| `Induction` | proved: induction and recursion over the naturals, for the proofs about folds |
| `*Proofs` | the theorems about `Memstore`, `Provider`, `Session`, `Sync`, `Loader`, `Backends`, `Cookies` |

**Memstore.** `store` is the slice: backing array, length, capacity. `Save` searches the visible
slots, overwrites, takes the next free slot, or reallocates; how much room Go's `append` leaves
is a choice from `Spare`. `Remove` shifts within the array, `Reset` sets the length to 0, both
leave old entries behind. `Get` on an immutable nil panics in the code (`Entry.Value`), so the
action is not taken there; what the panic leaves behind is in `Session`.

**Provider.** One action per stretch of code that runs without a scheduling point that matters:
`Read` is `ReadFound`, which takes the lock, and `RunFlashGC`, which waits for the session's
mutex with the lock held and then gives it up; or it is `ReadMissing` (one critical section),
then `LoadSession`, `NewSession` (here the timer starts) and `Publish` (the critical section of
`Init`). `GetFlash` of a message that is there leaves the session in `locked`; the sessions that
have such a message are `Flashed`. `UpdateExpiration` is the lookup under the lock and
`ShiftLifetime` after it. `Destroy` and `DestroyAll` keep the lock over the sync, which is a
step of its own, so requests, timers and restarts can come between. A timer fires (`Fire`) by
starting a goroutine; `OnExpire` is the moment that goroutine gets the lock. A session is an
object (`Obj`); of a stored session only its presence and date are kept, and `Mutate` is any of
`Set`, `Delete`, `Clear` with its sync. `known` are the ids browsers have in cookies: an id just
generated is not known to another request before it was sent. A handler that calls `Destroy` or
`UpdateExpiration` on its own session is another element of `Proc`, which allows these orders
and more.

**Session.** `pmu` and `smu` are the two mutexes. A request calls `Read`, runs the GC holding
both, and then calls methods of the session in any order. The critical section of a method is
one step, except for `GetFlash`, which marks the message after `peekFlashMessage` returned.
`peekFlashMessage` leaves the mutex locked when it finds the message, and so does the model.
`Get` stands for every method that only needs the mutex; `GetPanics` is one of an immutable nil
(the sessions of `NilIn` have one), which leaves the session locked for reading (`rlocked`) and
ends the request, as `net/http` recovers. A waiting writer keeps new readers out (`FreeToRead`),
as Go's `RWMutex` does. A message is the number of its `SetFlash`; `fetched` and `old` are
history variables for the properties.

**Sync.** `values` is the session's Store. `Set`, `Delete` and `Clear` are the critical section;
`Acquire` is `acquireSyncPayload`, which copies the slice header after the unlock; `Submit` is
the call of one database's `Sync`. `Write` is the moment the database has read the payload and
stores it; a database of `Files` truncates its file first, in a step of its own (`Truncate`).
`Fails` is an error of `Serialize` or of the device, which the code only logs: nothing is
stored, or the file stays truncated, or what `Serialize` returned is. While a payload or a read
is `shared`, every change of the session's array reaches it (`Follow`, `FollowJob`), until
`append` moves the session to another array. A database may see each word of the array as it was
at any time since it began to read (`Readings`): the data race is a choice over what the build
can produce. `async` is `Async(true)`: the call goes on while its databases write. `Destroy` is
`deleteSession`. `last`, `calm` and `before` are history variables: whether the last call began
when nothing else was under way and no database failed it, whether that is so of all calls, and
what was stored before it.

**Loader.** One action per turn of the loop of `loadSessionFromDB`: `SkipExpired` counts
`firstValidIdx` up, `Merge` takes the date and the values. The clock may move between two
databases. A Store is taken as the map it implements (`StoreImplementsMap`).

**Backends.** `kind` is the database in use. A stored session is the number of the sync that
wrote it, with its date; `junk` is what cannot be decoded. `BeginSync` is the call (several
`Task`s at once are parallel requests, or `Async`); the file database then truncates and writes
in two steps, and a removed file that is still open is written to in vain (`linked`); leveldb,
badger and boltdb do one atomic operation of their library, which is external. A redis sync asks
the clock for the seconds that are left (`RedisSeconds`), and sends them once it has got a
connection (`RedisSet`), which may be later. Opening is `New` with its `Cleanup`; badger's
returns an error if there is an entry that cannot be decoded, and the caller may then go on
without a database. For badger the keys that `Cleanup` passes to the transaction are buffers of
the iterator, filled again `Prefetch` keys later (`AtCommit`). `Fail` makes the device or server
refuse writes ("full") or answer nothing ("down", in which `Load` returns an empty store), or
repairs it; `Restart` stops the process anywhere. `steady` is history: neither has happened.
`expect` is history: what the last sync that ran alone and did not fail has stored.

**Cookies.** `due` is the registry with its timers; a provider call is one step here. A request
carries the cookie the browser sends (`GetCookie`), a handler makes up to `MaxCalls` calls, the
response collects `Set-Cookie` lines (appended by `net/http`, replaced by `fasthttp`) and is
received or lost. A cookie value is an id encoded with the key of the running process; a restart
changes the key. `Expires` is a date of whole seconds (`HttpDate`), `Max-Age` the whole seconds
up to the exact one, counted from the arrival. A host is the sequence of its labels, and a
cookie belongs to one host or to a domain (`CookieScope`). The browser is external, after RFC
6265. `expect` is history: what the last undisturbed request told the browser.

The composition is by value and by abstraction: `Sync` uses the Stores of `Store`, `Loader` and
`Provider` the lifetimes of `LifeTime`, `Loader` relies on what `Memstore` was shown to
implement, `Backends` details what `Sync` and `Provider` take as one write to a database, and
`Cookies` takes each provider call as the step that `Provider` splits.

## 3. Runs

| Run | Expect | What it checks |
|-----|--------|----------------|
| `memstore` | pass | `TypeOK`, `UniqueKeys`; `KVSpec`: the slice refines the map |
| `provider` | pass | `TypeOK`, `MutualExclusion`, `RegistryConsistent`, `NoEarlyExpiry`, `RetiredForGood`, `DestroyAllEmpties`, with restarts; `TimersDestroy` under fairness, unless a session stays locked or timers are moved for ever |
| `session` | pass | `TypeOK`, `FetchedOnce`, `UnfetchedSurvives` with all methods, the leaked mutex included; `RequestsServed` under fairness, unless somebody calls `GetFlash` or `PeekFlash` or a `Get` panics |
| `sync` | pass | `Settled`: an undisturbed call repairs whatever races, reordering or crashes have stored; `Recoverable`: a crash leaves for each key the value from before or after the interrupted call, or none while a file is truncated |
| `loader` | pass | `TypeOK`, `LastValueWins`, `FirstDateWins`: what the merge of several databases is |
| `backends` | pass | `TypeOK`, `LastSyncWins`, `LossHasCause`, `TruncatedOnlyWhileWriting`, `TtlMatchesDate` for all five databases |
| `cookies` | pass | `TypeOK`, `Remembered`: the browser keeps the cookie as long as the server keeps the session; `Forgotten`: a host's cookie is gone after Destroy |
| `leaked_lock` | violation | `GetFlash` of an existing message blocks the next request, then everybody |
| `stale_timer` | violation | the timer of a destroyed session destroys its successor early |
| `first_load` | violation | of two databases with values the last one's are used, not the first one's |
| `badger_cleanup` | violation | `Cleanup` of more sessions than the iterator prefetches deletes one that has not expired |
| `left_cookie` | violation | `DestroyFasthttp` leaves a domain cookie in the browser |

The violations are disagreements between the code and its own comments; `findings` in
`PROJECT.json` quotes the lines.

**Bounds.** Memstore: three keys (one the empty string), two values (one nil), reallocation with
and without spare room: every path of `Save` and every shift of `Remove` at every position
occurs. Provider: one id, two requests and two sessions are the least in which a session is
replaced, destroyed by a stale timer, or created twice, and in which `DestroyAll` meets a
request about to register; ids do not interact but through `DestroyAll`'s loop, and the theorems
are for any number of them. Requests arrive while the clock is below `MaxTime` = 3 and the clock
then runs until the last timer; `Expires` = 1 lets a date be stored, revived after a restart and
reached. Restarts are not bounded. A request that needs a new session is refused when `Obj` is
used up, which is a bound of the model. Session: two sessions and requests, one key, two
messages, so that a message can be replaced. Sync: two requests, two databases, two keys and
three calls: a slice is read while the other request shifts or overwrites it, a goroutine is
overtaken by a later one, and a call finds databases that differ; `Flags` = {FALSE} because gob
drops the flag and `memstore` covers it; `Spare` = {0}, and a `Remove` still leaves room for a
`Save` in place. One of the databases is of files; restarts and failures are not bounded, so
what a crash left is loaded, changed, and interrupted again. Loader: three databases, each
expired, expiring or without a date. Backends: two sessions, two concurrent syncs of three, a
device or server that fails and comes back and restarts with their `Cleanup`, as often as they
like; a second has two ticks, so that lives of less than a second, whole seconds and between
occur; `Prefetch` stands for badger's 100, and `badger_cleanup` has one session more than that.
Cookies: two hosts of one site, one below a public suffix of two labels, one that is an address;
sessions with a life, without one, and with a browser-session cookie; sites served by either
framework, and by both with cookies of one scope; three requests, two under way at a time, two
calls in each. Symmetry is used in safety runs only. `CHECK_DEADLOCK FALSE` is set where the
model stops because its bounds are used up, or where the code really blocks (`session`,
`leaked_lock`).

**Fairness.** A goroutine that can run runs (weak fairness of each step), handlers return, time
passes and a due timer fires. Steps that take a mutex get strong fairness: since Go 1.9
`sync.Mutex` hands itself to a waiter that has waited for a millisecond, so a waiter is not
passed over for ever. `TimersDestroy` also assumes that `UpdateExpiration` stops being called at
some time (`<>[]` no request is about to shift), as each call moves the timer. Nothing is
assumed about the arrival of requests.

**Conditions in the properties.** `RequestsServed` and `TimersDestroy` are for behaviours in
which no `GetFlash` or `PeekFlash` has left a session's mutex locked, and no `Get` has panicked
under the read lock: otherwise the next `Read` of that session waits in `runFlashGC` with
`provider.mu` held, and with it everybody else (`leaked_lock`). `NoEarlyExpiry` is for updates
of at least the configured life, as the code's `Shift` leaves the stored date alone.
`FetchedOnce` is about what was returned before a request's GC; two requests past it may both
get a message. `LastSyncWins` is for a database that can be read; it and `LossHasCause` except
badger with more sessions than its iterator holds (`FewSessions`, see `badger_cleanup`).
`Remembered` and `Forgotten` are for hosts that get cookies of one scope (`OneScope`): where one
framework sends cookies for the host and the other for the domain, two cookies of one name hide
each other. `Remembered` is not for a host whose cookie domain is a public suffix (`Refused`),
`Forgotten` not for cookies of a domain (`left_cookie`); a session without a timer counts only
if `UpdateExpiration` is not used, which would date its cookie and not the session.
`Recoverable` is for calls that do not overlap: with overlapping or asynchronous ones the race
may store a key with another's value until the next call, which `Settled` says repairs it. It
and `Settled` are for calls that no database fails. `TtlMatchesDate` allows redis to be late by
the time a sync took from asking the clock to its SETEX, and to keep for ever what is synced in
the last second of a life (section 5).

## 4. Proofs

All from the named assumptions on the constants, which TLC evaluates in the runs.

* `MemstoreProofs`: `TypeOK /\ UniqueKeys` is inductive. Uniqueness is needed for the
  refinement, because `Remove` deletes and `Get` reads only the first entry found.
  `StoreImplementsMap` maps each call to one action of `KVStore`.
* `ProviderProofs`: `IInv` adds to `TypeOK`, `MutualExclusion` and `RegistryConsistent` that a
  request past its first step has an id and, past its lookup, a session (`RequestData`), that
  only a session that was made has a timer (`TimerData`), and that while `DestroyAll` runs
  everything registered is still on its list (`RangeData`, which needs mutual exclusion: nobody
  else can register). From it follow `TypeCorrect`, `Exclusive`, `Consistent`, the action
  properties `NoReturn` and `EmptiedByDestroyAll`. `TimersNotEarly` needs a second invariant,
  `Dates`: no date, stored, loaded or in a session, lies further ahead than the configured life,
  so a shift by at least that much never puts the timer before the date.
* `SessionProofs`: exactly the returned messages are marked (`Marked`), a message about to be
  marked is protected by the mutex (`RequestData`), numbers are not reused (`Numbered`); the
  read lock that a panic leaves changes none of this. With `FetchedOnce` it is inductive and
  gives `DisplayedOnce`, `NotLost` and `TypeCorrect`.
* `SyncProofs`: `CallSettles` and `CrashRecoverable`, for any number of goroutines, databases,
  calls and restarts. As long as no other call has begun since one that began alone, every
  payload and every read of it is of the session as it is (`Faithful`), and every database that
  does not hold that yet is still to be reached or still reading (`Covered`). So when nothing is
  under way every database holds it. `Faithful` is where the alias matters: nobody writes to the
  array; a file database that has truncated its file holds the same bytes in hand. A failure
  resets `last`, so that nothing is claimed of its call. For `CrashRecoverable` the invariant
  also says what the databases hold that the call has *not* reached (`RInv`). Loading merges
  them, and the last one that has a key counts (`LoadedIs`); one already written holds what the
  call wants (`Covered`), and one still to be written that is last to have a key holds the value
  from before the call (`Outdated`), although the databases may have differed then. The
  databases are written in order (`InTurn`, `OneCall`), so those after an unwritten one are
  unwritten too, and none becomes the last to have a key by the removal of a later one; a
  truncated file counts as one that has no key, which is the third case of `Recoverable`
  (`Torn`). With several databases the slice has unique keys, which what is stored and read back
  needs (`ReadContent`); with one it is taken as it is, even if a race has once stored a key
  twice.
* `LoaderProofs`: `ValuesMerged` and `DateMerged`, for any number of databases. The code takes a
  single Store as it is when `len(databases) == firstValidIdx`; that this drops nothing is
  counting: `firstValidIdx` is one more than the number of skipped databases (`Counted`), so the
  condition holds only for the last database with all before it skipped (`TakenAlone`).
* `BackendsProofs`: `TypeCorrect`, `TtlCorrect`, `NoEmptyFile`, `LoadsLastSync` and
  `LossExplained`, for any number of sessions, goroutines, faults and restarts. `IInv` says that only
  a file is written in two steps and only redis is sent seconds, which are those of the date at
  the moment asked (`Writers`), that the device works while there was no fault (`Faultless`),
  that a key is written no earlier than its seconds were asked for (`Clocked`, which makes the
  delay in `TtlMatchesDate` a natural number), that only redis drops keys by itself (`NoTtl`),
  that a sync marked alone is the only one of its session (`Alone`), that nobody is syncing a
  session whose content is known (`Quiet`), and that it is then stored with its date (`Kept`).
  `LossExplained` goes over the steps that can take a stored session away; for badger it needs
  that with no more sessions than buffers the key at commit is the key that was deleted
  (`BadgerCommit`).
* `CookiesProofs`: `TypeCorrect`, `CookieRemembered` and `CookieForgotten`, for any hosts,
  configurations, lives, requests, calls and restarts. `Known` is what the server may conclude
  about the browser while it answers a request that is alone: a cookie that did not come is not
  there; of the session found or made there is, or will be once the `Set-Cookie` lines arrived,
  a cookie that does not expire more than a second before the timer; after `Destroy` there will
  be none. `HostOK` says the same of the browser once the response was received. Both speak of
  the one scope that reaches the host (`Own`), which no other cookie of the jar hides (`Traced`:
  the jar has only scopes of the site). `Alone` and `Unasked` say that nobody else's response
  can come in between. `StoredAllIs` is what a response makes of the jar: of each scope the last
  line counts, also when an earlier line of the response removed the cookie. `CookieAge` is the
  arithmetic of whole seconds: `Max-Age` rounds a life down and `Expires` a date, so with either
  the cookie goes less than a second early.
* `Induction`: a session that is loaded and a jar that receives a response are computed by
  recursive functions over sequences. The library's induction rules take an operator as a
  parameter, which the provers cannot instantiate; so a statement is proved as the *set* of the
  numbers it holds for, from the well-foundedness of `<` (`Least`, `UpTo`), and a recursive
  function is shown to exist (`Recursion`) before anything is proved of it.

Only model-checked: `TimersDestroy` and `RequestsServed`, as the prover does not do liveness
under fairness. Every invariant and action property of a passing run has a theorem.

## 5. Disagreements that no run states

Met while modelling. The models have these behaviours; the properties are stated so that they
hold with them.

* A timer that has fired and waits for the lock destroys a session that `UpdateExpiration` has
  just renewed (`provider.go:159`).
* `Shift` does not change the date, so a sync stores the old one, where `database.go:141` says
  "the new expiration datetime(if updated or the old one)".
* A timer that fires before `Init` registers its session is spent, and the session stays. A
  stored date that passes between `loadSessionFromDB` and `Revive` arms no timer either.
* Two requests of one id both load it; `database.go:29` says this is done once.
* A handler stores a destroyed session again, and `Destroy` of a session that is stored and not
  loaded leaves it in the database; `sessions.go:358-359` says "(and database if registered)".
* Asynchronous or parallel syncs may be stored in another order than that of the calls;
  `database.go:39-41` says "at call-time".
* A life of less than a second is 0 seconds to redis' `Set`, which then sends a `SET` without an
  expiration: the key stays for ever. `service.go:54` says "if has expiration, then use the "EX"
  to delete the key automatically".
* The seconds for SETEX are computed before the connection is there, so that redis may keep a
  session past its date by as long as dialing took.
* badger's `New` returns an error together with the database if one entry cannot be decoded; the
  other databases open.
* For a host of four labels the cookie is for the last two; the comment at `sessions.go:94` says
  three.
* After `DestroyByID` the browser's cookie stays as it is, and the next request makes a session
  of the same id; `sessions.go:360` says the cookie "will be reseted on the next request".

## 6. Not modelled

* Typed getters, `isNew`, `GetAll`, `GetBytes` and `Len` of the services: they read and convert.
* The gob format. What it loses (the flag, the difference between nothing and empty) is there.
* `Secure`, `HttpOnly`, the name and the path of the cookie; no transition depends on them.
* `RegisterDatabase` and `UseDatabase` while requests run: the examples call them at start.
* Badger writes after `Close` and redis syncs before the first `Load` (they panic or fail inside
  the library), and the race of two first redis `Load`s on `Connected`: `RedisConnect` is one
  step, and a dial, AUTH or SELECT that fails is a server that does not answer.
* Immutability by reference: what `reflect` copies and what it shares.
* Logging, configuration defaults, examples and the vendored libraries, except for what the code
  relies on in them.

## 7. Plan

1. `Memstore` with `KVStore`, `Provider` with `LifeTime`, `Session`: done.
2. `Sync`, `Loader`, `Backends`, `Cookies` with their runs: done.
3. Theorems about `Memstore`, `Provider`, `Session`, `Sync`, `Loader`, `Backends`, `Cookies`:
   done for every invariant and action property.
4. Left: overlapping calls of `Sync` as a refinement of a register of which the last writer wins
   in each database; `RegisterDatabase` while requests run.

