------------------------------ MODULE Cookies --------------------------------
(***************************************************************************)
(* The Sessions manager of sessions.go between a browser and the provider: *)
(* Start, UpdateExpiration and Destroy of net/http and of fasthttp, the    *)
(* cookie they send (cookie.go), and what it makes of the session.  Several *)
(* requests are under way at a time, their responses arrive in any order   *)
(* or not at all, and the server may restart with new cookie keys.         *)
(*                                                                         *)
(* The browser is external, modelled after RFC 6265.  Of the provider only *)
(* the registry and the timers are kept, a call of it being one step: its  *)
(* interleavings are in Provider.  A host is the sequence of its labels.   *)
(***************************************************************************)
EXTENDS Integers, Sequences, FiniteSets

CONSTANTS Sid,           \* what SessionIDGenerator returns
          Req,           \* requests that may be under way at a time
          None,
          Hosts,         \* the hosts of the site
          Loopback,      \* 0.0.0.0 and 127.0.0.1
          Numeric,       \* labels that Atoi accepts
          PublicSuffix,  \* domains no browser takes a cookie for
          Absolute,      \* may requests name the host in their URL
          Configs,       \* the configurations of the manager
          Second,        \* ticks in a second
          Unlimited,     \* 24 years
          MaxReqs, MaxCalls, MaxTime, MaxRestarts   \* bounds

ASSUME CookiesAssumption ==
    /\ None \notin Sid /\ "gone" \notin Sid \cup {None}
    /\ None \notin [sid : Sid \cup {None}, key : Nat]
    /\ Hosts \subseteq Seq(STRING) /\ IsFiniteSet(Hosts) /\ None \notin Hosts
    /\ Absolute \subseteq BOOLEAN
    /\ \A c \in Configs : /\ c.disable \in BOOLEAN /\ c.encode \subseteq BOOLEAN
                          /\ c.expires \in Int /\ c.updates \subseteq Int
                          /\ c.fw \in [Hosts -> {"net/http", "fasthttp", "none"}]
    /\ Second \in Nat \ {0}
    /\ {Unlimited, MaxReqs, MaxCalls, MaxTime, MaxRestarts} \subseteq Nat
    /\ Second <= MaxTime
    /\ Unlimited > MaxTime + Second

\* Of a configuration: disable is DisableSubdomainPersistence, encode says how
\* Encode may end and is empty if it is nil, expires is Expires in ticks, updates
\* are the durations that the application calls UpdateExpiration with, and fw is
\* the framework that serves a host, if any does.
VARIABLES config,   \* Sessions.config, and how the site is served
          now,      \* the clock; seconds begin at the multiples of Second
          due,      \* of a session: None if not registered, 0 without a timer
          used,     \* the ids generated so far
          boot,     \* restarts so far, and the key cookies are encoded with
          jar,      \* the cookie of the browser for each scope
          req,      \* requests under way
          sent,     \* requests so far
          expect    \* history: what the last undisturbed request left to a host

vars == <<config, now, due, used, boot, jar, req, sent, expect>>

------------------------------------------------------------------------------
\* Cookie domains.

\* IsValidCookieDomain.
IsValidCookieDomain(h) ==
    /\ h \notin Loopback
    /\ Len(h) >= 2
    /\ Len(h) >= 4 => h[Len(h)] \notin Numeric

\* The last two labels.
SiteDomain(h) == SubSeq(h, Len(h) - 1, Len(h))

\* A cookie is for one host only, or for a domain with all its subdomains.
HostOnly(h) == [host |-> h, only |-> TRUE]
ForDomain(d) == [host |-> d, only |-> FALSE]

Scope == {HostOnly(h) : h \in Hosts}
           \cup {ForDomain(SiteDomain(h)) : h \in {h \in Hosts : Len(h) >= 2}}

\* net/http looks at r.URL.Host, empty unless the request line has the host;
\* fasthttp at ctx.Host().
CookieScope(h, absolute) ==
    IF /\ ~config.disable
       /\ config.fw[h] = "fasthttp" \/ absolute
       /\ IsValidCookieDomain(h)
    THEN ForDomain(SiteDomain(h)) ELSE HostOnly(h)

------------------------------------------------------------------------------
\* Cookie values: an encoded session id, or one that decodes to nothing.
Token(s, k) == [sid |-> s, key |-> k]
Junk == Token(None, 0)

Encoded == config.encode # {}
EncodeResults == IF Encoded THEN config.encode ELSE {TRUE}

\* encodeCookieValue; a failed Encode leaves an empty value.
Encode(s, ok) == IF ~ok THEN Junk
                 ELSE Token(s, IF Encoded THEN boot ELSE 0)

\* decodeCookieValue; None is the empty string.
Decode(t) == IF t = None THEN None
             ELSE IF Encoded /\ t.key # boot THEN None ELSE t.sid

\* exp: when the browser drops the cookie, 0 when it closes; made: its turn.
Cookie(t, exp, made) == [tok |-> t, exp |-> exp, made |-> made]
NoCookie == Cookie(None, 0, 0)

Fresh(c) == c.tok # None /\ (c.exp = 0 \/ c.exp > now)

\* RFC 6265: the cookies that go to a host, the oldest first.  The servers
\* look at the first one only.
Matches(x, h) ==
    IF x.only THEN x.host = h
    ELSE /\ Len(x.host) <= Len(h)
         /\ SubSeq(h, Len(h) - Len(x.host) + 1, Len(h)) = x.host
SentTo(h) == {x \in Scope : Matches(x, h) /\ Fresh(jar[x])}
GetCookie(h) ==
    IF SentTo(h) = {} THEN None
    ELSE LET x == CHOOSE x \in SentTo(h) :
                    \A y \in SentTo(h) : jar[x].made <= jar[y].made
         IN jar[x].tok

------------------------------------------------------------------------------
NoReq == [host |-> None, tok |-> None, absolute |-> FALSE, calls |-> 0,
          set |-> << >>, alone |-> FALSE, result |-> None]

Quiet == \A r \in Req : req[r] = NoReq

Tokens == [sid : Sid \cup {None}, key : Nat]
Sets == [scope : Scope, tok : Tokens \cup {None}, exp : Nat, maxAge : Nat]

TypeOK ==
    /\ config \in Configs
    /\ now \in Nat
    /\ due \in [Sid -> Nat \cup {None}]
    /\ used \in SUBSET Sid
    /\ boot \in Nat
    /\ jar \in [Scope -> [tok : Tokens \cup {None}, exp : Nat, made : Nat]]
    /\ req \in [Req -> [host : Hosts \cup {None}, tok : Tokens \cup {None},
                        absolute : BOOLEAN, calls : Nat, set : Seq(Sets),
                        alone : BOOLEAN, result : Sid \cup {"gone", None}]]
    /\ sent \in Nat
    /\ expect \in [Hosts -> Sid \cup {"gone", None}]

Init ==
    /\ config \in Configs
    /\ now = Second
    /\ due = [s \in Sid |-> None]
    /\ used = {}
    /\ boot = 0
    /\ jar = [x \in Scope |-> NoCookie]
    /\ req = [r \in Req |-> NoReq]
    /\ sent = 0
    /\ expect = [h \in Hosts |-> None]

\* The browser sends a request.
Send(r, h, absolute) ==
    /\ req[r] = NoReq
    /\ config.fw[h] # "none"
    /\ sent < MaxReqs
    /\ sent' = sent + 1
    /\ LET new == [host |-> h, tok |-> GetCookie(h), absolute |-> absolute,
                   calls |-> 0, set |-> << >>, alone |-> Quiet,
                   result |-> expect[h]]
       IN req' = [q \in Req |-> IF q = r THEN new
                                ELSE [req[q] EXCEPT !.alone = FALSE]]
    /\ expect' = [g \in Hosts |-> None]
    /\ UNCHANGED <<config, now, due, used, boot, jar>>

------------------------------------------------------------------------------
\* The life of a session that Init makes.
Birth == IF config.expires > 0 THEN now + config.expires ELSE 0

\* Mutant: the two times are the wrong way round.
MaxAgeNegated(exp) == ((now - exp) \div Second) * Second

\* Max-Age as net/http sends it, in whole seconds; 0 is no Max-Age at all.
MaxAge(exp) == ((exp - now) \div Second) * Second

FrameworkOf(r) == config.fw[req[r].host]

\* When a cookie sent with duration d expires.
Expiry(d) == CASE d < 0 -> 0 [] d = 0 -> Unlimited [] d > 0 -> now + d

\* Expires goes over the wire as a date of whole seconds.
HttpDate(e) == (e \div Second) * Second

\* updateCookieFasthttp: the cookie that it sends for sid s ...
CookieFasthttp(r, s, d, ok) ==
    [scope |-> CookieScope(req[r].host, req[r].absolute),
     tok |-> Encode(s, ok), exp |-> HttpDate(Expiry(d)), maxAge |-> 0]

\* ... and updateCookie, with a Max-Age up to the exact date.
CookieHttp(r, s, d, ok) ==
    [CookieFasthttp(r, s, d, ok) EXCEPT
        !.maxAge = IF d < 0 THEN 0 ELSE MaxAge(Expiry(d))]

NewCookie(r, s, d, ok) ==
    IF FrameworkOf(r) = "net/http" THEN CookieHttp(r, s, d, ok)
    ELSE CookieFasthttp(r, s, d, ok)

\* AddCookie appends a header line, AddCookieFasthttp replaces the one there is.
Added(r, c) ==
    IF FrameworkOf(r) = "net/http" THEN Append(req[r].set, c) ELSE <<c>>

\* A handler calls the manager.
Call(r) == /\ req[r] # NoReq
           /\ req[r].calls < MaxCalls

\* The history of a request that calls both Destroy and the others says nothing.
Result(r, x) ==
    IF req[r].calls > 0 /\ (req[r].result = "gone") # (x = "gone") THEN None ELSE x

Answer(r, set, s) ==
    req' = [req EXCEPT ![r] =
              [req[r] EXCEPT !.calls = req[r].calls + 1, !.set = set,
                             !.result = Result(r, s)]]

\* Start without a valid cookie.
StartNew(r, s, ok) ==
    /\ Call(r)
    /\ Decode(req[r].tok) = None
    /\ s \notin used
    /\ used' = used \cup {s}
    /\ due' = [due EXCEPT ![s] = Birth]
    /\ Answer(r, Added(r, NewCookie(r, s, config.expires, ok)),
              IF ok THEN s ELSE None)
    /\ UNCHANGED <<config, now, boot, jar, sent, expect>>

\* Start with one: Read, which makes a session if there is none.  No cookie is
\* sent, so the life of a session made here is not that of its cookie.
StartRead(r) ==
    LET s == Decode(req[r].tok) IN
    /\ Call(r)
    /\ s # None
    /\ due' = [due EXCEPT ![s] = IF @ = None THEN Birth ELSE @]
    /\ Answer(r, req[r].set,
              IF due[s] # None /\ req[r].result = s THEN s ELSE None)
    /\ UNCHANGED <<config, now, used, boot, jar, sent, expect>>

\* Mutant: the cookie is left as it is.
UpdateSessionOnly(r, d, ok) ==
    LET s == Decode(req[r].tok) IN
    /\ Call(r)
    /\ s # None
    /\ d > 0
    /\ due[s] # None
    /\ due' = [due EXCEPT ![s] = IF @ = 0 THEN 0 ELSE now + d]
    /\ Answer(r, req[r].set, s)
    /\ UNCHANGED <<config, now, used, boot, jar, sent, expect>>

\* UpdateExpiration, or ShiftExpiration with Config.Expires.  Shift does nothing
\* for a session without a timer; the cookie is sent all the same.
UpdateExpiration(r, d, ok) ==
    LET s == Decode(req[r].tok) IN
    /\ Call(r)
    /\ s # None
    /\ d > 0
    /\ due[s] # None
    /\ due' = [due EXCEPT ![s] = IF @ = 0 THEN 0 ELSE now + d]
    /\ Answer(r, Added(r, NewCookie(r, s, d, ok)), IF ok THEN s ELSE None)
    /\ UNCHANGED <<config, now, used, boot, jar, sent, expect>>

\* Mutant: it expires a little later instead of a minute ago.
RemovedCookieLater(h) ==
    [scope |-> HostOnly(h), tok |-> Junk, exp |-> now + 1, maxAge |-> 0]

\* The cookie that removes one: for the host, and never for a domain.
RemovedCookie(h) ==
    [scope |-> HostOnly(h), tok |-> None, exp |-> now, maxAge |-> 0]

\* destroy: of the session that the request's cookie names, if it does.
DestroySession(r) ==
    LET s == Decode(req[r].tok)
    IN due' = IF s = None THEN due ELSE [due EXCEPT ![s] = None]

\* Destroy of net/http.  RemoveCookie does nothing if the request has no cookie.
Destroy(r) ==
    /\ Call(r)
    /\ FrameworkOf(r) = "net/http"
    /\ DestroySession(r)
    /\ Answer(r, IF req[r].tok = None THEN req[r].set
                 ELSE Added(r, RemovedCookie(req[r].host)), "gone")
    /\ UNCHANGED <<config, now, used, boot, jar, sent, expect>>

\* DestroyFasthttp.  RemoveCookieFasthttp takes the cookie away from the request
\* too, so that a later Start of the same handler makes a new session.
DestroyFasthttp(r) ==
    /\ Call(r)
    /\ FrameworkOf(r) = "fasthttp"
    /\ DestroySession(r)
    /\ req' = [req EXCEPT ![r] =
                 [req[r] EXCEPT !.calls = req[r].calls + 1, !.tok = None,
                                !.set = Added(r, RemovedCookie(req[r].host)),
                                !.result = Result(r, "gone")]]
    /\ UNCHANGED <<config, now, used, boot, jar, sent, expect>>

\* DestroyByID, or a timer that is due.
DestroyByID(s) ==
    /\ due[s] # None
    /\ due' = [due EXCEPT ![s] = None]
    /\ UNCHANGED <<config, now, used, boot, jar, req, sent, expect>>

\* DestroyAll.
DestroyAll ==
    /\ due # [s \in Sid |-> None]
    /\ due' = [s \in Sid |-> None]
    /\ UNCHANGED <<config, now, used, boot, jar, req, sent, expect>>

------------------------------------------------------------------------------
\* What the browser makes of one Set-Cookie line: Max-Age counts from now on and
\* goes before Expires, a public suffix is refused, and a cookie that takes the
\* place of another keeps its turn.
Turn(j) == 1 + Cardinality({x \in Scope : j[x].tok # None})

Stored(j, c) ==
    IF ~c.scope.only /\ c.scope.host \in PublicSuffix THEN j
    ELSE IF c.tok = None THEN [j EXCEPT ![c.scope] = NoCookie]
    ELSE [j EXCEPT ![c.scope] =
            Cookie(c.tok,
                   IF c.maxAge > 0 THEN now + c.maxAge ELSE c.exp,
                   IF @.tok # None THEN @.made ELSE Turn(j))]

StoredAll(j, cs) ==
    LET f[n \in 0 .. Len(cs)] == IF n = 0 THEN j ELSE Stored(f[n - 1], cs[n])
    IN f[Len(cs)]

\* The response arrives, or is lost.
Receive(r) ==
    /\ req[r] # NoReq
    /\ jar' = StoredAll(jar, req[r].set)
    /\ req' = [req EXCEPT ![r] = NoReq]
    /\ expect' = [expect EXCEPT ![req[r].host] =
                    IF req[r].alone THEN req[r].result ELSE None]
    /\ UNCHANGED <<config, now, due, used, boot, sent>>

Lose(r) ==
    /\ req[r] # NoReq
    /\ req' = [req EXCEPT ![r] = NoReq]
    /\ UNCHANGED <<config, now, due, used, boot, jar, sent, expect>>

\* Time passes.
Tick ==
    /\ now < MaxTime
    /\ now' = now + 1
    /\ UNCHANGED <<config, due, used, boot, jar, req, sent, expect>>

\* The server restarts, with another key for its cookies.
Restart ==
    /\ boot < MaxRestarts
    /\ boot' = boot + 1
    /\ due' = [s \in Sid |-> None]
    /\ req' = [r \in Req |-> NoReq]
    /\ expect' = [h \in Hosts |-> None]
    /\ UNCHANGED <<config, now, used, jar, sent>>

\* The browser is closed.
CloseBrowser ==
    /\ Quiet
    /\ \E x \in Scope : jar[x].tok # None /\ jar[x].exp = 0
    /\ jar' = [x \in Scope |-> IF jar[x].exp = 0 THEN NoCookie ELSE jar[x]]
    /\ expect' = [h \in Hosts |-> None]
    /\ UNCHANGED <<config, now, due, used, boot, req, sent>>

Next ==
    \/ \E r \in Req :
        \/ \E h \in Hosts, absolute \in Absolute : Send(r, h, absolute)
        \/ \E s \in Sid, ok \in EncodeResults : StartNew(r, s, ok)
        \/ StartRead(r)
        \/ \E d \in config.updates, ok \in EncodeResults :
              UpdateExpiration(r, d, ok)
        \/ Destroy(r)
        \/ DestroyFasthttp(r)
        \/ Receive(r)
        \/ Lose(r)
    \/ \E s \in Sid : DestroyByID(s)
    \/ DestroyAll \/ Tick \/ Restart \/ CloseBrowser

Spec == Init /\ [][Next]_vars

------------------------------------------------------------------------------
\* The scopes of the cookies that the site sends.
Issued == {CookieScope(g, a) : g \in {g \in Hosts : config.fw[g] # "none"},
                               a \in Absolute}

\* A host gets cookies of one scope only, whichever host of the site sent them:
\* one for the host and one for its domain would hide each other.
OneScope(h) == \A x, y \in Issued : Matches(x, h) /\ Matches(y, h) => x = y

Refused(h) == \E a \in Absolute : /\ ~CookieScope(h, a).only
                                  /\ CookieScope(h, a).host \in PublicSuffix

\* The session lives for at least a second more.  One without a timer counts
\* if UpdateExpiration, which dates its cookie only, is not used.
Alive(s) ==
    /\ due[s] # None
    /\ IF due[s] = 0 THEN config.updates = {} ELSE now + Second <= due[s]

\* The browser does not lose a session before the server does: while a session
\* whose cookie an undisturbed request was given is alive, the next request of
\* that host finds it, whatever other responses were lost or came late before,
\* and however long they took.
Remembered ==
    \A h \in Hosts, s \in Sid :
        expect[h] = s /\ Alive(s) /\ OneScope(h) /\ ~Refused(h)
            => Decode(GetCookie(h)) = s

\* After an undisturbed Destroy the browser has no cookie left for the host, if
\* its cookies are not for a domain.
Forgotten ==
    \A h \in Hosts :
        /\ expect[h] = "gone"
        /\ OneScope(h)
        /\ \A a \in Absolute : CookieScope(h, a).only
        => GetCookie(h) = None

\* "Destroy remove the session data and remove the associated cookie".
CookieRemoved == \A h \in Hosts : expect[h] = "gone" => GetCookie(h) = None
==============================================================================
