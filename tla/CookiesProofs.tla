---------------------------- MODULE CookiesProofs ----------------------------
(***************************************************************************)
(* Proofs about Cookies, for any hosts, configurations, requests, calls    *)
(* and restarts: what the browser makes of the Set-Cookie lines of a       *)
(* response, and that browser and server agree on the life of a session.   *)
(***************************************************************************)
EXTENDS Cookies, Induction, FiniteSetTheorems

Toks == Tokens \cup {None}
Kept == [tok : Toks, exp : Nat, made : Nat]
Jars == [Scope -> Kept]

\* The site has finitely many scopes.
LEMMA ScopeFinite == IsFiniteSet(Scope)
<1>1. IsFiniteSet(Hosts)
  BY CookiesAssumption
<1>2. IsFiniteSet({HostOnly(h) : h \in Hosts})
  <2> DEFINE T == {HostOnly(h) : h \in Hosts}
             f == [h \in Hosts |-> HostOnly(h)]
  <2>1. f \in Surjection(Hosts, T)
    BY DEF Surjection
  <2> QED BY <1>1, <2>1, FS_Surjection
<1> DEFINE H == {h \in Hosts : Len(h) >= 2}
<1>3. IsFiniteSet(H)
  BY <1>1, FS_Subset
<1>4. IsFiniteSet({ForDomain(SiteDomain(h)) : h \in H})
  <2> DEFINE T == {ForDomain(SiteDomain(h)) : h \in H}
             f == [h \in H |-> ForDomain(SiteDomain(h))]
  <2>1. f \in Surjection(H, T)
    BY DEF Surjection
  <2> QED BY <1>3, <2>1, FS_Surjection
<1> QED BY <1>2, <1>4, FS_Union DEF Scope

LEMMA TurnType == \A j : Turn(j) \in Nat
<1> TAKE j
<1> DEFINE X == {x \in Scope : j[x].tok # None}
<1>1. IsFiniteSet(X)
  BY ScopeFinite, FS_Subset
<1>2. Cardinality(X) \in Nat
  BY <1>1, FS_CardinalityType
<1> QED BY <1>2 DEF Turn

\* A scope no browser takes a cookie for.
Barred(x) == ~x.only /\ x.host \in PublicSuffix

\* When a cookie sent as c expires that arrives now.
Until(c) == IF c.maxAge > 0 THEN now + c.maxAge ELSE c.exp

\* One Set-Cookie line changes the cookie of its scope and no other.
LEMMA StoredLine ==
    ASSUME NEW j \in Jars, NEW c \in Sets, now \in Nat
    PROVE  /\ Stored(j, c) \in Jars
           /\ \A x \in Scope : x # c.scope => Stored(j, c)[x] = j[x]
           /\ c.tok = None \/ Barred(c.scope) =>
                 Stored(j, c)[c.scope].tok \in {j[c.scope].tok, None}
           /\ ~Barred(c.scope) =>
                 /\ Stored(j, c)[c.scope].tok = c.tok
                 /\ c.tok # None => Stored(j, c)[c.scope].exp = Until(c)
<1>1. c.scope \in Scope /\ c.tok \in Toks /\ c.exp \in Nat /\ c.maxAge \in Nat
  BY DEF Sets, Toks
<1>2. j[c.scope] \in Kept
  BY <1>1 DEF Jars
<1>3. CASE Barred(c.scope)
  <2>1. Stored(j, c) = j
    BY <1>3 DEF Stored, Barred
  <2> QED BY <1>1, <1>2, <1>3, <2>1
<1>4. CASE ~Barred(c.scope) /\ c.tok = None
  <2>1. Stored(j, c) = [j EXCEPT ![c.scope] = NoCookie]
    BY <1>4 DEF Stored, Barred
  <2>2. NoCookie \in Kept /\ NoCookie.tok = None
    BY DEF NoCookie, Cookie, Kept, Toks
  <2> QED BY <1>1, <1>4, <2>1, <2>2 DEF Jars
<1>5. CASE ~Barred(c.scope) /\ c.tok # None
  <2> DEFINE made == IF j[c.scope].tok # None THEN j[c.scope].made ELSE Turn(j)
             k == Cookie(c.tok, Until(c), made)
  <2>1. Stored(j, c) = [j EXCEPT ![c.scope] = k]
    BY <1>5 DEF Stored, Barred, Until
  <2>2. made \in Nat
    BY <1>2, TurnType DEF Kept
  <2>3. Until(c) \in Nat
    BY <1>1 DEF Until
  <2>4. k \in Kept /\ k.tok = c.tok /\ k.exp = Until(c)
    BY <1>1, <2>2, <2>3 DEF Cookie, Kept
  <2> HIDE DEF k
  <2> QED BY <1>1, <1>5, <2>1, <2>4 DEF Jars
<1> QED BY <1>3, <1>4, <1>5

\* The jar after each of the lines of a response.
Lines(j, cs, g) ==
    /\ g \in [0 .. Len(cs) -> Jars]
    /\ g[0] = j
    /\ \A n \in 1 .. Len(cs) : g[n] = Stored(g[n - 1], cs[n])

\* The recursive function of StoredAll is what its definition says.
LEMMA StoredAllLines ==
    ASSUME NEW j \in Jars, NEW cs \in Seq(Sets), now \in Nat
    PROVE  \E g : Lines(j, cs, g) /\ StoredAll(j, cs) = g[Len(cs)]
<1> DEFINE N == Len(cs)
           Step == [k \in Jars |-> [n \in 1 .. N |-> Stored(k, cs[n])]]
           Is(f) == f = [n \in 0 .. N |-> IF n = 0 THEN j ELSE Stored(f[n - 1], cs[n])]
<1>1. N \in Nat /\ \A n \in 1 .. N : cs[n] \in Sets
  OBVIOUS
<1>2. IsStep(Step, Jars, N)
  BY <1>1, StoredLine DEF IsStep
<1>3. PICK g : Iterates(g, Jars, j, N, Step)
  <2> HIDE DEF N, Step
  <2> QED BY <1>1, <1>2, Recursion
<1>4. \A n \in 1 .. N : g[n] = Stored(g[n - 1], cs[n])
  <2> TAKE n \in 1 .. N
  <2>1. g[n - 1] \in Jars
    BY <1>1, <1>3 DEF Iterates
  <2> QED BY <1>3, <2>1 DEF Iterates
<1>5. Is(g)
  BY <1>1, <1>3, <1>4 DEF Iterates
<1> DEFINE f == CHOOSE f : Is(f)
<1>6. Is(f)
  <2> HIDE DEF Is
  <2> QED BY <1>5
<1>7. StoredAll(j, cs) = f[N]
  BY DEF StoredAll
<1> HIDE DEF f
<1>8. f[0] = j /\ \A n \in 1 .. N : f[n] = Stored(f[n - 1], cs[n])
  BY <1>1, <1>6
<1> DEFINE T == {n \in 0 .. N : f[n] \in Jars}
<1>9. \A n \in 0 .. N : n \in T
  <2>1. 0 \in T
    BY <1>1, <1>8
  <2>2. ASSUME NEW n \in 1 .. N, n - 1 \in T
        PROVE  n \in T
    <3>1. f[n - 1] \in Jars /\ cs[n] \in Sets /\ n \in 0 .. N
      BY <1>1, <2>2
    <3>2. f[n] \in Jars
      BY <1>8, <3>1, StoredLine
    <3> QED BY <3>1, <3>2
  <2> HIDE DEF T, N
  <2> QED BY <1>1, <2>1, <2>2, UpTo
<1>10. f \in [0 .. N -> Jars]
  BY <1>6, <1>9
<1> QED BY <1>7, <1>8, <1>10 DEF Lines

\* The last line of a response for a scope.
LastLine(cs, x, i) ==
    /\ i \in 1 .. Len(cs)
    /\ cs[i].scope = x
    /\ \A k \in 1 .. Len(cs) : k > i => cs[k].scope # x

Silent(cs, x) == \A i \in 1 .. Len(cs) : cs[i].scope # x

\* A cookie of scope x is among the lines 1 .. n.
Offered(cs, x, n) == \E i \in 1 .. n : cs[i].scope = x /\ cs[i].tok # None

\* What a response makes of the jar: a scope without a line keeps its cookie, the
\* last line counts for the others, and no cookie comes from anywhere else.
LEMMA StoredAllIs ==
    ASSUME NEW j \in Jars, NEW cs \in Seq(Sets), now \in Nat
    PROVE  /\ StoredAll(j, cs) \in Jars
           /\ \A x \in Scope : StoredAll(j, cs)[x].tok # None =>
                 j[x].tok # None \/ Offered(cs, x, Len(cs))
           /\ \A x \in Scope : Silent(cs, x) => StoredAll(j, cs)[x] = j[x]
           /\ \A x \in Scope : \A i : LastLine(cs, x, i) /\ ~Barred(x) =>
                 /\ StoredAll(j, cs)[x].tok = cs[i].tok
                 /\ cs[i].tok # None => StoredAll(j, cs)[x].exp = Until(cs[i])
<1> DEFINE N == Len(cs)
<1>1. PICK g : Lines(j, cs, g) /\ StoredAll(j, cs) = g[N]
  BY StoredAllLines
<1>2. /\ N \in Nat /\ N \in 0 .. N
      /\ g \in [0 .. N -> Jars] /\ g[0] = j /\ g[N] \in Jars
  BY <1>1 DEF Lines
<1>L. ASSUME NEW n \in 1 .. N
      PROVE  /\ n - 1 \in 0 .. N /\ cs[n].scope \in Scope
             /\ \A x \in Scope : x # cs[n].scope => g[n][x] = g[n - 1][x]
             /\ cs[n].tok = None \/ Barred(cs[n].scope) =>
                   g[n][cs[n].scope].tok \in {g[n - 1][cs[n].scope].tok, None}
             /\ ~Barred(cs[n].scope) =>
                   /\ g[n][cs[n].scope].tok = cs[n].tok
                   /\ cs[n].tok # None => g[n][cs[n].scope].exp = Until(cs[n])
  <2> DEFINE b == g[n - 1]
             c == cs[n]
  <2>1. n - 1 \in 0 .. N /\ b \in Jars
    BY <1>2
  <2>2. c \in Sets
    OBVIOUS
  <2>3. g[n] = Stored(b, c)
    BY <1>1 DEF Lines
  <2>4. c.scope \in Scope
    BY <2>2 DEF Sets
  <2> HIDE DEF b, c
  <2>5. /\ \A x \in Scope : x # c.scope => Stored(b, c)[x] = b[x]
        /\ c.tok = None \/ Barred(c.scope) =>
                 Stored(b, c)[c.scope].tok \in {b[c.scope].tok, None}
        /\ ~Barred(c.scope) =>
                 /\ Stored(b, c)[c.scope].tok = c.tok
                 /\ c.tok # None => Stored(b, c)[c.scope].exp = Until(c)
    BY <2>1, <2>2, StoredLine
  <2> QED BY <2>1, <2>3, <2>4, <2>5 DEF b, c
<1> HIDE DEF N
<1>3. ASSUME NEW x \in Scope
      PROVE  g[N][x].tok # None => j[x].tok # None \/ Offered(cs, x, N)
  <2> DEFINE T == {n \in 0 .. N : g[n][x].tok # None =>
                                      j[x].tok # None \/ Offered(cs, x, n)}
  <2>1. 0 \in T
    BY <1>2
  <2>2. ASSUME NEW n \in 1 .. N, n - 1 \in T
        PROVE  n \in T
    <3>1. g[n][x].tok # None => g[n - 1][x].tok # None \/ Offered(cs, x, n)
      <4>1. CASE x # cs[n].scope
        BY <1>L, <4>1
      <4>2. CASE x = cs[n].scope /\ cs[n].tok = None
        BY <1>L, <4>2
      <4>3. CASE x = cs[n].scope /\ cs[n].tok # None
        BY <1>2, <4>3 DEF Offered
      <4> QED BY <4>1, <4>2, <4>3
    <3>2. Offered(cs, x, n - 1) => Offered(cs, x, n)
      BY <1>2 DEF Offered
    <3> QED BY <1>2, <2>2, <3>1, <3>2
  <2>3. N \in T
    <3> HIDE DEF T
    <3> QED BY <1>2, <2>1, <2>2, UpTo
  <2> QED BY <2>3
<1>4. ASSUME NEW x \in Scope, Silent(cs, x)
      PROVE  g[N][x] = j[x]
  <2> DEFINE T == {n \in 0 .. N : g[n][x] = j[x]}
  <2>1. 0 \in T
    BY <1>2
  <2>2. ASSUME NEW n \in 1 .. N, n - 1 \in T
        PROVE  n \in T
    <3>1. cs[n].scope # x
      BY <1>4 DEF Silent, N
    <3>2. g[n][x] = g[n - 1][x]
      BY <1>L, <3>1
    <3> QED BY <2>2, <3>2
  <2>3. N \in T
    <3> HIDE DEF T
    <3> QED BY <1>2, <2>1, <2>2, UpTo
  <2> QED BY <2>3
<1>5. ASSUME NEW x \in Scope, NEW i, LastLine(cs, x, i), ~Barred(x)
      PROVE  /\ g[N][x].tok = cs[i].tok
             /\ cs[i].tok # None => g[N][x].exp = Until(cs[i])
  <2> DEFINE T == {n \in 0 .. N : n >= i =>
                      /\ g[n][x].tok = cs[i].tok
                      /\ cs[i].tok # None => g[n][x].exp = Until(cs[i])}
  <2>0. i \in 1 .. N /\ cs[i].scope = x
    BY <1>5 DEF LastLine, N
  <2>1. 0 \in T
    BY <1>2, <2>0
  <2>2. ASSUME NEW n \in 1 .. N, n - 1 \in T
        PROVE  n \in T
    <3>1. CASE n < i
      BY <2>0, <3>1
    <3>2. CASE n = i
      <4>1. /\ g[n][x].tok = cs[i].tok
            /\ cs[i].tok # None => g[n][x].exp = Until(cs[i])
        BY <1>5, <1>L, <2>0, <3>2
      <4> QED BY <3>2, <4>1
    <3>3. CASE n > i
      <4>1. cs[n].scope # x
        BY <1>5, <3>3 DEF LastLine, N
      <4>2. g[n][x] = g[n - 1][x]
        BY <1>L, <4>1
      <4>3. n - 1 >= i
        BY <2>0, <3>3
      <4> QED BY <2>2, <4>2, <4>3
    <3> QED BY <2>0, <3>1, <3>2, <3>3
  <2>3. N \in T
    <3> HIDE DEF T
    <3> QED BY <1>2, <2>1, <2>2, UpTo
  <2> QED BY <1>2, <2>0, <2>3
<1>6. g[N] \in Jars
  BY <1>2
<1> QED BY <1>1, <1>3, <1>4, <1>5, <1>6 DEF N

------------------------------------------------------------------------------
\* The assumptions, one by one.
LEMMA Constants ==
    /\ None \notin Sid /\ "gone" \notin Sid /\ None # "gone"
    /\ None \notin Tokens
    /\ None \notin Hosts
    /\ Absolute \subseteq BOOLEAN
    /\ Second \in Nat /\ Second > 0 /\ MaxTime \in Nat /\ Unlimited \in Nat
    /\ Second <= MaxTime /\ Unlimited > MaxTime + Second
BY CookiesAssumption DEF Tokens

LEMMA ConfigType ==
    ASSUME config \in Configs
    PROVE  /\ config.expires \in Int /\ config.updates \subseteq Int
           /\ config.fw \in [Hosts -> {"net/http", "fasthttp", "none"}]
           /\ config.encode \subseteq BOOLEAN
BY CookiesAssumption

\* A cookie of a host is in a scope that goes to the host.
LEMMA ScopeOf ==
    ASSUME NEW h \in Hosts, NEW a
    PROVE  /\ CookieScope(h, a) \in Scope
           /\ HostOnly(h) \in Scope
           /\ Matches(CookieScope(h, a), h)
           /\ CookieScope(h, a).only => CookieScope(h, a) = HostOnly(h)
<1>1. h \in Seq(STRING)
  BY CookiesAssumption
<1>2. HostOnly(h) \in Scope /\ HostOnly(h).only /\ HostOnly(h).host = h
  BY DEF Scope, HostOnly
<1>3. CASE CookieScope(h, a) = HostOnly(h)
  BY <1>2, <1>3 DEF Matches
<1>4. CASE CookieScope(h, a) # HostOnly(h)
  <2>1. Len(h) >= 2 /\ CookieScope(h, a) = ForDomain(SiteDomain(h))
    BY <1>4 DEF CookieScope, IsValidCookieDomain
  <2>2. ForDomain(SiteDomain(h)) \in Scope
    BY <2>1 DEF Scope
  <2>3. /\ ~ForDomain(SiteDomain(h)).only
        /\ ForDomain(SiteDomain(h)).host = SiteDomain(h)
    BY DEF ForDomain
  <2>4. Len(SiteDomain(h)) = 2
    BY <1>1, <2>1 DEF SiteDomain
  <2>5. SubSeq(h, Len(h) - 2 + 1, Len(h)) = SiteDomain(h)
    <3>1. Len(h) - 2 + 1 = Len(h) - 1
      BY <1>1
    <3> QED BY <3>1 DEF SiteDomain
  <2> QED BY <1>2, <2>1, <2>2, <2>3, <2>4, <2>5 DEF Matches
<1> QED BY <1>3, <1>4

\* The one scope of the cookies of host h.
Own(h, x) == x \in Issued /\ Matches(x, h) /\ OneScope(h)

LEMMA OwnScope ==
    ASSUME NEW h \in Hosts, config.fw[h] # "none", NEW a \in Absolute
    PROVE  /\ CookieScope(h, a) \in Issued
           /\ \A x : Own(h, x) => x = CookieScope(h, a) /\ x \in Scope
<1>1. CookieScope(h, a) \in Issued
  BY DEF Issued
<1> QED BY <1>1, ScopeOf DEF Own, OneScope

\* A scope that is issued is one of the site's.
LEMMA IssuedScope == Issued \subseteq Scope
BY ScopeOf DEF Issued

\* Division by a positive number, as SMT needs it spelled out.
LEMMA Division ==
    ASSUME NEW a \in Nat, NEW b \in Nat, b > 0
    PROVE  /\ (a \div b) * b \in Nat
           /\ (a \div b) * b <= a
           /\ a < (a \div b) * b + b
OBVIOUS

\* A cookie that expires at exp does not expire a second before a session that is
\* due at u.
Lasting(exp, u) == \/ exp = 0
                   \/ u = 0 /\ exp > MaxTime + 1
                   \/ u # 0 /\ exp + Second > u

\* When a cookie sent for duration d, and received at once, expires.
LEMMA CookieAge ==
    ASSUME NEW r \in Req, NEW s \in Sid, NEW d \in Int, NEW ok,
           now \in Nat, now <= MaxTime + 1
    PROVE  LET c == NewCookie(r, s, d, ok) IN
           /\ c.exp \in Nat /\ c.maxAge \in Nat
           /\ d < 0 => Until(c) = 0
           /\ d = 0 => Until(c) > MaxTime + 1
           /\ d > 0 => Until(c) + Second > now + d
<1> DEFINE c == NewCookie(r, s, d, ok)
           e == Expiry(d)
           m == MaxAge(e)
<1>1. /\ d < 0 => e = 0
      /\ d = 0 => e = Unlimited
      /\ d > 0 => e = now + d
  BY DEF Expiry
<1>2. e \in Nat
  BY <1>1, Constants
<1>3. ASSUME d >= 0
      PROVE  m \in Nat /\ now + m <= e /\ e < now + m + Second
  <2> DEFINE k == e - now
             p == (k \div Second) * Second
  <2>1. k \in Nat
    BY <1>1, <1>3, Constants
  <2>2. m = p
    BY DEF MaxAge
  <2>3. k + now = e
    BY <1>2
  <2> HIDE DEF k, e, m
  <2>4. p \in Nat /\ p <= k /\ k < p + Second
    BY <2>1, Constants, Division
  <2> HIDE DEF p
  <2> QED BY <1>2, <2>1, <2>2, <2>3, <2>4, Constants
<1>4. c.exp = HttpDate(e) /\ (c.maxAge = 0 \/ (d >= 0 /\ c.maxAge = m))
  BY DEF NewCookie, CookieHttp, CookieFasthttp
<1> HIDE DEF c, e, m
<1>D. HttpDate(e) \in Nat /\ HttpDate(e) <= e /\ e < HttpDate(e) + Second
  BY <1>2, Constants, Division DEF HttpDate
<1>5. c.exp \in Nat /\ c.maxAge \in Nat
  BY <1>3, <1>4, <1>D
<1>6. d < 0 => Until(c) = 0
  BY <1>1, <1>4, <1>D DEF Until
<1>7. d >= 0 => Until(c) + Second > e
  <2>1. CASE c.maxAge > 0
    BY <1>2, <1>3, <1>4, <2>1, Constants DEF Until
  <2>2. CASE ~(c.maxAge > 0)
    BY <1>4, <1>D, <2>2 DEF Until
  <2> QED BY <2>1, <2>2
<1>8. Until(c) \in Nat
  BY <1>5 DEF Until
<1>9. d = 0 => Until(c) > MaxTime + 1
  BY <1>1, <1>7, <1>8, Constants
<1>10. d > 0 => Until(c) + Second > now + d
  BY <1>1, <1>7
<1> QED BY <1>5, <1>6, <1>9, <1>10 DEF c

------------------------------------------------------------------------------
\* The inductive invariant.

\* The browser has, or has once it got the lines cs, a cookie of session s for
\* scope x that lasts until u.
Has(x, s, u) == Decode(jar[x].tok) = s /\ Lasting(jar[x].exp, u)
Gets(cs, x, s, u) ==
    \/ \E i \in 1 .. Len(cs) : /\ LastLine(cs, x, i)
                               /\ Decode(cs[i].tok) = s
                               /\ Lasting(Until(cs[i]), u)
    \/ Silent(cs, x) /\ Has(x, s, u)

\* The browser sends no cookie of scope x once it got the lines cs.
Loses(cs, x) ==
    \/ \E i \in 1 .. Len(cs) : LastLine(cs, x, i) /\ cs[i].tok = None
    \/ Silent(cs, x) /\ ~Fresh(jar[x])

\* A session whose cookie is not dated apart from it (see Alive).
Dated(s) == due[s] # None /\ (due[s] = 0 => config.updates = {})

\* What the server knows of the cookie when it answers a request q that is alone:
\* there is none if none came, there is one of the session it found or made, and
\* there will be none after Destroy.
Known(q) ==
    \A x : Own(q.host, x) =>
        /\ q.tok = None /\ config.fw[q.host] = "net/http" => ~Fresh(jar[x])
        /\ \A s \in Sid : q.result = s /\ ~Refused(q.host) /\ Dated(s)
                            => Gets(q.set, x, s, due[s])
        /\ q.result = "gone" /\ x.only => Loses(q.set, x)

\* A request under way is one of a host that is served; it gets no line before
\* the first call, and every cookie it gets is one of the site's scopes.
ReqOK(q) ==
    /\ q # NoReq => /\ q.host \in Hosts /\ config.fw[q.host] # "none"
                    /\ q.absolute \in Absolute
    /\ q.calls = 0 => q.set = << >>
    /\ \A x \in Scope : Offered(q.set, x, Len(q.set)) => x \in Issued
    /\ q.alone => Known(q)

\* The cookie of a host of which something is expected.
HostOK(h) ==
    \A x : Own(h, x) =>
        /\ \A s \in Sid : expect[h] = s /\ ~Refused(h) /\ Dated(s)
                            => Has(x, s, due[s])
        /\ expect[h] = "gone" /\ x.only => ~Fresh(jar[x])

\* No other request is under way when one is alone, and none at all when
\* something is expected of the browser.
Alone == \A r, q \in Req : req[r].alone /\ q # r => req[q] = NoReq
Unasked == \A h \in Hosts : expect[h] # None =>
              Quiet /\ config.fw[h] # "none" /\ Absolute # {}

Traced == \A x \in Scope : jar[x].tok # None => x \in Issued

IInv == /\ TypeOK
        /\ now <= MaxTime + 1
        /\ Alone /\ Unasked /\ Traced
        /\ \A r \in Req : ReqOK(req[r])
        /\ \A h \in Hosts : HostOK(h)

ReqType == [host : Hosts \cup {None}, tok : Toks, absolute : BOOLEAN,
            calls : Nat, set : Seq(Sets), alone : BOOLEAN,
            result : Sid \cup {"gone", None}]

LEMMA Types ==
    ASSUME TypeOK
    PROVE  /\ now \in Nat /\ boot \in Nat /\ jar \in Jars
           /\ req \in [Req -> ReqType]
           /\ due \in [Sid -> Nat \cup {None}]
           /\ config \in Configs
BY DEF TypeOK, Jars, Kept, Toks, ReqType

\* What the configuration decides is the same as long as it is.
LEMMA ConfigKept ==
    ASSUME config' = config
    PROVE  /\ Issued' = Issued
           /\ \A h, x : Own(h, x)' <=> Own(h, x)
           /\ \A h : Refused(h)' <=> Refused(h)
<1>1. \A h, a : CookieScope(h, a)' = CookieScope(h, a)
  BY DEF CookieScope
<1>2. Issued' = Issued
  BY <1>1 DEF Issued
<1>3. \A h, x : Own(h, x)' <=> Own(h, x)
  BY <1>2 DEF Own, OneScope
<1>4. \A h : Refused(h)' <=> Refused(h)
  BY <1>1 DEF Refused
<1> QED BY <1>2, <1>3, <1>4

LEMMA DecodeKept ==
    ASSUME config' = config, boot' = boot
    PROVE  \A t : Decode(t)' = Decode(t)
BY DEF Decode, Encoded

\* The same of the browser's side.
LEMMA BrowserKept ==
    ASSUME config' = config, boot' = boot, now' = now, jar' = jar
    PROVE  /\ \A x, s, u : Has(x, s, u)' <=> Has(x, s, u)
           /\ \A cs, x, s, u : Gets(cs, x, s, u)' <=> Gets(cs, x, s, u)
           /\ \A x : Fresh(jar[x])' <=> Fresh(jar[x])
           /\ \A cs, x : Loses(cs, x)' <=> Loses(cs, x)
<1>1. \A x, s, u : Has(x, s, u)' <=> Has(x, s, u)
  BY DecodeKept DEF Has
<1>2. \A c : Until(c)' = Until(c)
  BY DEF Until
<1>3. \A x : Fresh(jar[x])' <=> Fresh(jar[x])
  BY DEF Fresh
<1>4. \A cs, x, s, u : Gets(cs, x, s, u)' <=> Gets(cs, x, s, u)
  BY <1>1, <1>2, DecodeKept DEF Gets
<1>5. \A cs, x : Loses(cs, x)' <=> Loses(cs, x)
  BY <1>3 DEF Loses
<1> QED BY <1>1, <1>3, <1>4, <1>5

LEMMA NoReqOK ==
    /\ NoReq \in ReqType /\ ~NoReq.alone
    /\ [NoReq EXCEPT !.alone = FALSE] = NoReq
    /\ ReqOK(NoReq)
<1>1. << >> \in Seq(Sets) /\ Len(<< >>) = 0
  OBVIOUS
<1>2. NoReq \in ReqType /\ ~NoReq.alone /\ NoReq.set = << >>
  BY <1>1 DEF NoReq, ReqType, Toks
<1>3. [NoReq EXCEPT !.alone = FALSE] = NoReq
  <2>1. PICK b : b = [NoReq EXCEPT !.alone = FALSE]
    OBVIOUS
  <2>2. b = NoReq
    BY <2>1 DEF NoReq
  <2> QED BY <2>1, <2>2
<1>4. ReqOK(NoReq)
  BY <1>2 DEF ReqOK, Offered
<1> QED BY <1>2, <1>3, <1>4

------------------------------------------------------------------------------
\* The calls of the handlers.

\* The line that a call adds is the last one, and the others were there before.
LEMMA AddedLine ==
    ASSUME NEW r \in Req, NEW c \in Sets, req[r].set \in Seq(Sets)
    PROVE  LET cs == Added(r, c) IN
           /\ cs \in Seq(Sets)
           /\ LastLine(cs, c.scope, Len(cs)) /\ Len(cs) \in 1 .. Len(cs)
           /\ cs[Len(cs)] = c
           /\ \A x : Offered(cs, x, Len(cs)) =>
                 \/ Offered(req[r].set, x, Len(req[r].set))
                 \/ c.scope = x /\ c.tok # None
<1> DEFINE b == req[r].set
           cs == Added(r, c)
<1>1. CASE FrameworkOf(r) = "net/http"
  <2>1. cs = Append(b, c)
    BY <1>1 DEF Added
  <2> HIDE DEF b, cs
  <2>2. b \in Seq(Sets)
    BY DEF b
  <2>3. /\ cs \in Seq(Sets) /\ Len(cs) = Len(b) + 1 /\ Len(b) \in Nat
        /\ cs[Len(cs)] = c
        /\ \A i \in 1 .. Len(b) : cs[i] = b[i]
    BY <2>1, <2>2
  <2>4. LastLine(cs, c.scope, Len(cs))
    BY <2>3 DEF LastLine
  <2>5. ASSUME NEW x, Offered(cs, x, Len(cs))
        PROVE  Offered(b, x, Len(b)) \/ (c.scope = x /\ c.tok # None)
    <3>1. PICK i \in 1 .. Len(cs) : cs[i].scope = x /\ cs[i].tok # None
      BY <2>5 DEF Offered
    <3>2. CASE i = Len(cs)
      BY <2>3, <3>1, <3>2
    <3>3. CASE i # Len(cs)
      <4>1. i \in 1 .. Len(b)
        BY <2>3, <3>1, <3>3
      <4> QED BY <2>3, <3>1, <4>1 DEF Offered
    <3> QED BY <3>2, <3>3
  <2>6. Len(cs) \in 1 .. Len(cs)
    BY <2>3
  <2> QED BY <2>3, <2>4, <2>5, <2>6 DEF b, cs
<1>2. CASE FrameworkOf(r) # "net/http"
  <2>1. cs = <<c>>
    BY <1>2 DEF Added
  <2> HIDE DEF b, cs
  <2>2. cs \in Seq(Sets) /\ Len(cs) = 1 /\ cs[1] = c
    BY <2>1
  <2>3. LastLine(cs, c.scope, Len(cs))
    BY <2>2 DEF LastLine
  <2>4. \A x : Offered(cs, x, Len(cs)) => c.scope = x /\ c.tok # None
    BY <2>2 DEF Offered
  <2> QED BY <2>2, <2>3, <2>4 DEF b, cs
<1> QED BY <1>1, <1>2

\* While a request is under way no other one is alone and nothing is expected.
LEMMA Busy ==
    ASSUME IInv, NEW r \in Req, req[r] # NoReq
    PROVE  /\ \A p \in Req : p # r => ~req[p].alone
           /\ \A h \in Hosts : expect[h] = None
<1>1. ASSUME NEW p \in Req, p # r
      PROVE  ~req[p].alone
  <2>1. req[p].alone => req[r] = NoReq
    BY <1>1 DEF IInv, Alone
  <2>2. req[p].alone \in BOOLEAN
    BY Types DEF IInv, ReqType
  <2> QED BY <2>1, <2>2
<1>2. \A h \in Hosts : expect[h] = None
  BY DEF IInv, Unasked, Quiet
<1> QED BY <1>1, <1>2

\* A call that changes the session and its own request only, and leaves that in
\* order, keeps the invariant: nothing is expected of the browser and no other
\* request is alone.
LEMMA CallKeeps ==
    ASSUME IInv, NEW r \in Req, req[r] # NoReq,
           NEW q \in ReqType,
           q.host = req[r].host, q.absolute = req[r].absolute,
           q.alone = req[r].alone, q.calls > 0,
           req' = [req EXCEPT ![r] = q],
           UNCHANGED <<config, now, boot, jar, sent, expect>>,
           used' \in SUBSET Sid,
           due' \in [Sid -> Nat \cup {None}],
           \A x \in Scope : Offered(q.set, x, Len(q.set)) => x \in Issued,
           q.alone => Known(q)'
    PROVE  IInv'
<1>1. TypeOK'
  BY DEF IInv, TypeOK, ReqType, Toks
<1>T. /\ req \in [Req -> ReqType] /\ req' \in [Req -> ReqType]
      /\ req'[r] = q /\ \A p \in Req : p # r => req'[p] = req[p]
  BY Types DEF IInv
<1>2. \A p \in Req : p # r => ~req[p].alone
  BY Busy
<1>3. \A h \in Hosts : expect[h] = None
  BY Busy
<1>4. /\ req[r].host \in Hosts /\ config.fw[req[r].host] # "none"
      /\ req[r].absolute \in Absolute
  BY DEF IInv, ReqOK
<1>5. Alone'
  <2> SUFFICES ASSUME NEW p \in Req, NEW p2 \in Req, req'[p].alone, p2 # p
               PROVE  req'[p2] = NoReq
    BY DEF Alone, NoReq
  <2>1. p = r
    BY <1>2, <1>T
  <2>2. req[p].alone
    BY <1>T, <2>1
  <2> QED BY <1>T, <2>1, <2>2 DEF IInv, Alone
<1>6. Unasked'
  BY <1>3 DEF Unasked
<1>7. Traced'
  BY ConfigKept DEF IInv, Traced
<1>8. ASSUME NEW p \in Req
      PROVE  ReqOK(req[p])'
  <2>1. CASE p = r
    <3>1. /\ q # NoReq => /\ q.host \in Hosts /\ config'.fw[q.host] # "none"
                          /\ q.absolute \in Absolute
          /\ q.calls = 0 => q.set = << >>
          /\ \A x \in Scope : Offered(q.set, x, Len(q.set)) => x \in Issued'
      BY <1>4, ConfigKept
    <3>2. q.alone => Known(q)'
      OBVIOUS
    <3>3. ReqOK(q)'
      BY <3>1, <3>2 DEF ReqOK, NoReq
    <3> QED BY <1>T, <2>1, <3>3 DEF ReqOK, Known
  <2>2. CASE p # r
    <3>1. ReqOK(req[p]) /\ ~req[p].alone
      BY <1>2, <2>2 DEF IInv
    <3> QED BY <1>T, <2>2, <3>1, ConfigKept DEF ReqOK, NoReq
  <2> QED BY <2>1, <2>2
<1>9. ASSUME NEW h \in Hosts
      PROVE  HostOK(h)'
  BY <1>3, Constants DEF HostOK
<1> QED BY <1>1, <1>5, <1>6, <1>7, <1>8, <1>9 DEF IInv

LEMMA Codec ==
    ASSUME boot \in Nat
    PROVE  /\ \A t \in Toks : Decode(t) \in Sid \cup {None}
           /\ \A s \in Sid : \A ok : Encode(s, ok) \in Tokens
           /\ \A s \in Sid : Decode(Encode(s, TRUE)) = s
<1>1. \A s \in Sid \cup {None}, k \in Nat :
         /\ Token(s, k) \in Tokens /\ Token(s, k) # None
         /\ Token(s, k).sid = s /\ Token(s, k).key = k
  BY Constants DEF Token, Tokens
<1>2. \A s \in Sid : \A ok : Encode(s, ok) \in Tokens
  BY <1>1 DEF Encode, Junk
<1>3. \A s \in Sid : Decode(Encode(s, TRUE)) = s
  BY <1>1 DEF Encode, Decode
<1>4. \A t \in Toks : Decode(t) \in Sid \cup {None}
  BY DEF Toks, Tokens, Decode
<1> QED BY <1>2, <1>3, <1>4

\* The cookie of a session is one of the host's scope.
LEMMA NewCookieIs ==
    ASSUME IInv, NEW r \in Req, req[r] # NoReq,
           NEW s \in Sid, NEW d \in Int, NEW ok \in BOOLEAN
    PROVE  LET c == NewCookie(r, s, d, ok) IN
           /\ c \in Sets
           /\ c.scope = CookieScope(req[r].host, req[r].absolute)
           /\ ok => Decode(c.tok) = s
<1> DEFINE c == NewCookie(r, s, d, ok)
           x == CookieScope(req[r].host, req[r].absolute)
<1>1. now \in Nat /\ now <= MaxTime + 1 /\ boot \in Nat
  BY Types DEF IInv
<1>2. req[r].host \in Hosts
  BY DEF IInv, ReqOK
<1>3. x \in Scope
  BY <1>2, ScopeOf
<1>4. c.exp \in Nat /\ c.maxAge \in Nat
  BY <1>1, CookieAge
<1>5. /\ c.scope = x /\ c.tok = Encode(s, ok)
      /\ c = [scope |-> x, tok |-> c.tok, exp |-> c.exp, maxAge |-> c.maxAge]
  BY DEF NewCookie, CookieHttp, CookieFasthttp
<1>6. c.tok \in Tokens
  BY <1>1, <1>5, Codec
<1> HIDE DEF c, x
<1>7. c \in Sets
  BY <1>3, <1>4, <1>5, <1>6 DEF Sets
<1>8. ok => Decode(c.tok) = s
  BY <1>1, <1>5, Codec
<1> QED BY <1>5, <1>7, <1>8 DEF c, x

\* A line with a cookie of s, sent for the duration that the session lives: the
\* answer is in order.
LEMMA CookieSent ==
    ASSUME IInv, NEW r \in Req, req[r] # NoReq,
           NEW s \in Sid, NEW d \in Int, NEW ok \in BOOLEAN,
           NEW q \in ReqType,
           q = [req[r] EXCEPT !.calls = req[r].calls + 1,
                              !.set = Added(r, NewCookie(r, s, d, ok)),
                              !.result = Result(r, IF ok THEN s ELSE None)],
           req' = [req EXCEPT ![r] = q],
           UNCHANGED <<config, now, boot, jar, sent, expect>>,
           used' \in SUBSET Sid,
           due' \in [Sid -> Nat \cup {None}],
           Dated(s)' => \/ d > 0 /\ due'[s] = now + d
                        \/ d <= 0 /\ due'[s] = 0
    PROVE  IInv'
<1> DEFINE c == NewCookie(r, s, d, ok)
           cs == Added(r, c)
           h == req[r].host
<1>1. /\ now \in Nat /\ now <= MaxTime + 1 /\ boot \in Nat
      /\ req[r] \in ReqType /\ req[r].set \in Seq(Sets) /\ req[r].calls \in Nat
      /\ h \in Hosts /\ config.fw[h] # "none" /\ req[r].absolute \in Absolute
  BY Types DEF IInv, ReqOK, ReqType
<1>2. /\ q.host = h /\ q.absolute = req[r].absolute /\ q.alone = req[r].alone
      /\ q.tok = req[r].tok /\ q.calls > 0 /\ q.set = cs
      /\ q.result = Result(r, IF ok THEN s ELSE None)
  BY <1>1 DEF ReqType
<1>3. c \in Sets /\ c.scope = CookieScope(h, req[r].absolute)
      /\ (ok => Decode(c.tok) = s)
  BY NewCookieIs
<1>4. /\ LastLine(cs, c.scope, Len(cs)) /\ Len(cs) \in 1 .. Len(cs)
      /\ cs[Len(cs)] = c
      /\ \A x : Offered(cs, x, Len(cs)) =>
            Offered(req[r].set, x, Len(req[r].set)) \/ c.scope = x
  BY <1>1, <1>3, AddedLine
<1>5. c.scope \in Issued /\ \A x : Own(h, x) => x = c.scope
  BY <1>1, <1>3, OwnScope
<1>6. \A x \in Scope : Offered(q.set, x, Len(q.set)) => x \in Issued
  BY <1>2, <1>4, <1>5 DEF IInv, ReqOK
<1>7. q.result \in {s, None} /\ (q.result = s => ok)
  BY <1>2, Constants DEF Result
<1>8. Dated(s)' => Lasting(Until(c), due'[s])
  <2>1. /\ d < 0 => Until(c) = 0
        /\ d = 0 => Until(c) > MaxTime + 1
        /\ d > 0 => Until(c) + Second > now + d
    BY <1>1, CookieAge
  <2> HIDE DEF c
  <2> QED BY <1>1, <2>1 DEF Lasting
<1> HIDE DEF c, cs, h
<1>9. ASSUME q.alone
      PROVE  Known(q)'
  <2>1. Known(req[r])
    BY <1>2, <1>9 DEF IInv, ReqOK
  <2> SUFFICES ASSUME NEW x, Own(q.host, x)
               PROVE  /\ q.tok = None /\ config.fw[q.host] = "net/http" => ~Fresh(jar[x])'
                      /\ \A s2 \in Sid : q.result = s2 /\ Dated(s2)'
                            => Gets(q.set, x, s2, due[s2])'
                      /\ q.result # "gone"
    BY ConfigKept DEF Known
  <2>2. q.tok = None /\ config.fw[q.host] = "net/http" => ~Fresh(jar[x])'
    BY <1>2, <2>1, BrowserKept DEF Known, h
  <2>3. q.result # "gone"
    BY <1>7, Constants
  <2>4. ASSUME NEW s2 \in Sid, q.result = s2, Dated(s2)'
        PROVE  Gets(q.set, x, s2, due[s2])'
    <3>1. s2 = s /\ ok
      BY <1>7, <2>4, Constants
    <3>2. x = c.scope
      BY <1>2, <1>5
    <3>3. Gets(cs, x, s, due'[s])
      BY <1>3, <1>4, <1>8, <2>4, <3>1, <3>2 DEF Gets
    <3> QED BY <1>2, <3>1, <3>3, BrowserKept
  <2> QED BY <2>2, <2>3, <2>4
<1>10. q.host = req[r].host
  BY <1>2 DEF h
<1> QED BY <1>2, <1>6, <1>9, <1>10, CallKeeps

LEMMA OkType == ASSUME config \in Configs PROVE EncodeResults \subseteq BOOLEAN
BY ConfigType DEF EncodeResults

\* Of a request that is under way.
LEMMA ReqFacts ==
    ASSUME IInv, NEW r \in Req, req[r] # NoReq
    PROVE  /\ req[r] \in ReqType /\ req[r].host \in Hosts
           /\ req[r].absolute \in Absolute
           /\ config.fw[req[r].host] # "none"
           /\ req[r].set \in Seq(Sets) /\ req[r].calls \in Nat
           /\ req[r].tok \in Toks
           /\ req[r].result \in Sid \cup {"gone", None}
           /\ Decode(req[r].tok) \in Sid \cup {None}
           /\ now \in Nat /\ boot \in Nat
           /\ ReqOK(req[r])
<1>1. /\ req[r] \in ReqType /\ now \in Nat /\ boot \in Nat
      /\ req[r].host \in Hosts /\ req[r].absolute \in Absolute
      /\ config.fw[req[r].host] # "none" /\ ReqOK(req[r])
  BY Types DEF IInv, ReqOK
<1>2. /\ req[r].set \in Seq(Sets) /\ req[r].calls \in Nat /\ req[r].tok \in Toks
      /\ req[r].result \in Sid \cup {"gone", None}
  BY <1>1 DEF ReqType
<1>3. Decode(req[r].tok) \in Sid \cup {None}
  BY <1>1, <1>2, Codec
<1> QED BY <1>1, <1>2, <1>3

\* The request after an answer.
LEMMA AnswerType ==
    ASSUME IInv, NEW r \in Req, req[r] # NoReq,
           NEW cs \in Seq(Sets), NEW y \in Sid \cup {"gone", None}
    PROVE  [req[r] EXCEPT !.calls = req[r].calls + 1, !.set = cs, !.result = Result(r, y)]
              \in ReqType
<1>1. /\ req[r] \in ReqType /\ req[r].calls \in Nat
  BY ReqFacts
<1>2. PICK z \in Sid \cup {"gone", None} : z = Result(r, y)
  BY DEF Result
<1>3. PICK n \in Nat : n = req[r].calls + 1
  BY <1>1
<1>4. [req[r] EXCEPT !.calls = n, !.set = cs, !.result = z] \in ReqType
  BY <1>1 DEF ReqType
<1> QED BY <1>2, <1>3, <1>4

LEMMA StartNewKeeps ==
    ASSUME IInv, NEW r \in Req, NEW s \in Sid, NEW ok \in EncodeResults,
           StartNew(r, s, ok)
    PROVE  IInv'
<1> DEFINE d == config.expires
           c == NewCookie(r, s, d, ok)
           new == [req[r] EXCEPT !.calls = req[r].calls + 1, !.set = Added(r, c),
                                 !.result = Result(r, IF ok THEN s ELSE None)]
<1>1. req[r] # NoReq /\ req' = [req EXCEPT ![r] = new]
  BY DEF StartNew, Call, Answer
<1>2. d \in Int /\ ok \in BOOLEAN
  BY Types, ConfigType, OkType DEF IInv
<1>3. c \in Sets
  BY <1>1, <1>2, NewCookieIs
<1>4. req[r].set \in Seq(Sets) /\ now \in Nat
  BY <1>1, ReqFacts
<1>5. Added(r, c) \in Seq(Sets)
  BY <1>3, <1>4, AddedLine
<1>6. new \in ReqType
  <2> DEFINE cs == Added(r, c)
  <2> HIDE DEF cs, c
  <2> QED BY <1>1, <1>5, AnswerType DEF cs
<1>7. Birth \in Nat
  BY <1>2, <1>4 DEF Birth
<1>8. /\ due' = [due EXCEPT ![s] = Birth] /\ used' = used \cup {s}
      /\ UNCHANGED <<config, now, boot, jar, sent, expect>>
  BY DEF StartNew
<1>9. due' \in [Sid -> Nat \cup {None}] /\ due'[s] = Birth /\ used' \in SUBSET Sid
  BY <1>7, <1>8 DEF IInv, TypeOK
<1>10. \/ d > 0 /\ due'[s] = now + d
       \/ d <= 0 /\ due'[s] = 0
  BY <1>2, <1>9 DEF Birth
<1>11. PICK q \in ReqType : q = new
  BY <1>6
<1> QED BY <1>1, <1>2, <1>8, <1>9, <1>10, <1>11, CookieSent

LEMMA UpdateExpirationKeeps ==
    ASSUME IInv, NEW r \in Req, NEW d \in config.updates, NEW ok \in EncodeResults,
           UpdateExpiration(r, d, ok)
    PROVE  IInv'
<1> DEFINE s == Decode(req[r].tok)
           c == NewCookie(r, s, d, ok)
           new == [req[r] EXCEPT !.calls = req[r].calls + 1, !.set = Added(r, c),
                                 !.result = Result(r, IF ok THEN s ELSE None)]
<1>1. /\ req[r] # NoReq /\ req' = [req EXCEPT ![r] = new]
      /\ s # None /\ d > 0
      /\ due' = [due EXCEPT ![s] = IF @ = 0 THEN 0 ELSE now + d]
      /\ UNCHANGED <<config, now, used, boot, jar, sent, expect>>
  BY DEF UpdateExpiration, Call, Answer
<1>2. d \in Int /\ ok \in BOOLEAN
  BY Types, ConfigType, OkType DEF IInv
<1>3. PICK t \in Sid : t = s
  BY <1>1, ReqFacts
<1>4. c \in Sets
  BY <1>1, <1>2, <1>3, NewCookieIs
<1>5. req[r].set \in Seq(Sets) /\ now \in Nat
  BY <1>1, ReqFacts
<1>6. Added(r, c) \in Seq(Sets)
  BY <1>4, <1>5, AddedLine
<1>7. new \in ReqType
  <2> DEFINE cs == Added(r, c)
  <2> HIDE DEF cs, c, s
  <2> QED BY <1>1, <1>3, <1>6, AnswerType DEF cs
<1>8. /\ due' \in [Sid -> Nat \cup {None}]
      /\ due'[t] = IF due[t] = 0 THEN 0 ELSE now + d
  BY <1>1, <1>2, <1>3, <1>5 DEF IInv, TypeOK
<1>9. used' \in SUBSET Sid
  BY <1>1 DEF IInv, TypeOK
<1>10. Dated(t)' => d > 0 /\ due'[t] = now + d
  BY <1>1, <1>8 DEF Dated
<1>11. PICK q \in ReqType : q = new
  BY <1>7
<1>12. q = [req[r] EXCEPT !.calls = req[r].calls + 1, !.set = Added(r, NewCookie(r, t, d, ok)),
                          !.result = Result(r, IF ok THEN t ELSE None)]
  BY <1>3, <1>11
<1>13. /\ req[r] # NoReq /\ req' = [req EXCEPT ![r] = q]
       /\ UNCHANGED <<config, now, boot, jar, sent, expect>>
  BY <1>1, <1>11
<1>14. Dated(t)' => \/ d > 0 /\ due'[t] = now + d
                    \/ d <= 0 /\ due'[t] = 0
  BY <1>10
<1>15. due' \in [Sid -> Nat \cup {None}]
  BY <1>8
<1> HIDE DEF s, c, new
<1> QED BY <1>2, <1>9, <1>12, <1>13, <1>14, <1>15, CookieSent

LEMMA StartReadKeeps ==
    ASSUME IInv, NEW r \in Req, StartRead(r)
    PROVE  IInv'
<1> DEFINE s == Decode(req[r].tok)
           y == IF due[s] # None /\ req[r].result = s THEN s ELSE None
           new == [req[r] EXCEPT !.calls = req[r].calls + 1, !.set = req[r].set,
                                 !.result = Result(r, y)]
<1>1. /\ req[r] # NoReq /\ req' = [req EXCEPT ![r] = new]
      /\ s # None
      /\ due' = [due EXCEPT ![s] = IF @ = None THEN Birth ELSE @]
      /\ UNCHANGED <<config, now, used, boot, jar, sent, expect>>
  BY DEF StartRead, Call, Answer
<1>2. PICK t \in Sid : t = s
  BY <1>1, ReqFacts
<1>3. req[r].set \in Seq(Sets) /\ now \in Nat /\ req[r].calls \in Nat /\ req[r] \in ReqType
  BY <1>1, ReqFacts
<1>4. Birth \in Nat
  BY <1>3, Types, ConfigType DEF Birth, IInv
<1>5. /\ due' \in [Sid -> Nat \cup {None}]
      /\ \A t2 \in Sid : due[t2] # None => due'[t2] = due[t2]
  BY <1>1, <1>2, <1>4 DEF IInv, TypeOK
<1>6. new \in ReqType
  <2> HIDE DEF s
  <2> QED BY <1>1, <1>2, <1>3, AnswerType
<1>7. PICK q \in ReqType : q = new
  BY <1>6
<1>8. /\ q.host = req[r].host /\ q.absolute = req[r].absolute
      /\ q.alone = req[r].alone /\ q.tok = req[r].tok /\ q.calls > 0
      /\ q.set = req[r].set /\ q.result = Result(r, y)
  BY <1>3, <1>7 DEF ReqType
<1>9. q.result # None => q.result = t /\ req[r].result = t /\ due[t] # None
  BY <1>2, <1>8 DEF Result
<1>10. \A x \in Scope : Offered(q.set, x, Len(q.set)) => x \in Issued
  BY <1>8 DEF IInv, ReqOK
<1>11. ASSUME q.alone
       PROVE  Known(q)'
  <2>1. Known(req[r])
    BY <1>8, <1>11 DEF IInv, ReqOK
  <2> SUFFICES ASSUME NEW x, Own(q.host, x)
               PROVE  /\ q.tok = None /\ config.fw[q.host] = "net/http" => ~Fresh(jar[x])'
                      /\ \A s2 \in Sid : q.result = s2 /\ ~Refused(q.host) /\ Dated(s2)'
                            => Gets(q.set, x, s2, due[s2])'
                      /\ q.result # "gone"
    BY <1>1, ConfigKept DEF Known
  <2>2. q.tok = None /\ config.fw[q.host] = "net/http" => ~Fresh(jar[x])'
    BY <1>1, <1>8, <2>1, BrowserKept DEF Known
  <2>3. q.result # "gone"
    BY <1>9, Constants
  <2>4. ASSUME NEW s2 \in Sid, q.result = s2, ~Refused(q.host), Dated(s2)'
        PROVE  Gets(q.set, x, s2, due[s2])'
    <3>1. s2 = t /\ req[r].result = t /\ due[t] # None
      BY <1>9, <2>4, Constants
    <3>2. due'[t] = due[t] /\ Dated(t)
      BY <1>1, <1>5, <2>4, <3>1 DEF Dated
    <3>3. Gets(req[r].set, x, t, due[t])
      BY <1>8, <2>1, <2>4, <3>1, <3>2 DEF Known
    <3> QED BY <1>1, <1>8, <3>1, <3>2, <3>3, BrowserKept
  <2> QED BY <2>2, <2>3, <2>4
<1>12. used' \in SUBSET Sid
  BY <1>1 DEF IInv, TypeOK
<1>13. req' = [req EXCEPT ![r] = q]
  BY <1>1, <1>7
<1> QED BY <1>1, <1>5, <1>8, <1>10, <1>11, <1>12, <1>13, CallKeeps

\* The line that removes a cookie.
LEMMA RemovedCookieIs ==
    ASSUME NEW h \in Hosts, now \in Nat
    PROVE  /\ RemovedCookie(h) \in Sets
           /\ RemovedCookie(h).scope = HostOnly(h) /\ RemovedCookie(h).tok = None
BY ScopeOf DEF RemovedCookie, Sets

\* The answer of a handler that destroys the session, if what it says of the
\* cookies is right.
LEMMA DestroyedKeeps ==
    ASSUME IInv, NEW r \in Req, req[r] # NoReq, DestroySession(r),
           UNCHANGED <<config, now, used, boot, jar, sent, expect>>,
           NEW q \in ReqType,
           q.host = req[r].host, q.absolute = req[r].absolute,
           q.alone = req[r].alone, q.calls > 0,
           q.result = Result(r, "gone"),
           req' = [req EXCEPT ![r] = q],
           \A x \in Scope : Offered(q.set, x, Len(q.set)) => x \in Issued,
           \A x : /\ q.alone /\ Own(q.host, x)
                  /\ q.tok = None /\ config.fw[q.host] = "net/http"
                  => ~Fresh(jar[x]),
           \A x : /\ q.alone /\ Own(q.host, x) /\ x.only /\ q.result = "gone"
                  => Loses(q.set, x)
    PROVE  IInv'
<1>1. due' \in [Sid -> Nat \cup {None}]
  <2>1. Decode(req[r].tok) \in Sid \cup {None}
    BY ReqFacts
  <2> QED BY <2>1 DEF DestroySession, IInv, TypeOK
<1>2. used' \in SUBSET Sid
  BY DEF IInv, TypeOK
<1>3. q.result \notin Sid
  BY Constants DEF Result
<1>4. ASSUME q.alone
      PROVE  Known(q)'
  <2> SUFFICES ASSUME NEW x, Own(q.host, x)
               PROVE  /\ q.tok = None /\ config.fw[q.host] = "net/http" => ~Fresh(jar[x])'
                      /\ q.result = "gone" /\ x.only => Loses(q.set, x)'
    BY <1>3, ConfigKept DEF Known
  <2>1. q.tok = None /\ config.fw[q.host] = "net/http" => ~Fresh(jar[x])'
    BY <1>4, BrowserKept
  <2>2. q.result = "gone" /\ x.only => Loses(q.set, x)'
    BY <1>4, BrowserKept
  <2> QED BY <2>1, <2>2
<1> QED BY <1>1, <1>2, <1>4, CallKeeps

LEMMA DestroyKeeps ==
    ASSUME IInv, NEW r \in Req, Destroy(r)
    PROVE  IInv'
<1> DEFINE h == req[r].host
           c == RemovedCookie(h)
           cs == IF req[r].tok = None THEN req[r].set ELSE Added(r, c)
           new == [req[r] EXCEPT !.calls = req[r].calls + 1, !.set = cs,
                                 !.result = Result(r, "gone")]
<1>1. /\ req[r] # NoReq /\ req' = [req EXCEPT ![r] = new] /\ DestroySession(r)
      /\ UNCHANGED <<config, now, used, boot, jar, sent, expect>>
      /\ config.fw[h] = "net/http"
  BY DEF Destroy, Call, Answer, FrameworkOf
<1>2. /\ h \in Hosts /\ req[r] \in ReqType /\ req[r].set \in Seq(Sets)
      /\ now \in Nat /\ req[r].calls \in Nat /\ ReqOK(req[r])
      /\ config.fw[h] # "none" /\ req[r].absolute \in Absolute
  BY <1>1, ReqFacts
<1>3. c \in Sets /\ c.scope = HostOnly(h) /\ c.tok = None
  BY <1>2, RemovedCookieIs
<1>4. /\ Added(r, c) \in Seq(Sets)
      /\ LastLine(Added(r, c), c.scope, Len(Added(r, c)))
      /\ Len(Added(r, c)) \in 1 .. Len(Added(r, c))
      /\ Added(r, c)[Len(Added(r, c))] = c
      /\ \A x : Offered(Added(r, c), x, Len(Added(r, c))) =>
            Offered(req[r].set, x, Len(req[r].set))
  BY <1>2, <1>3, AddedLine
<1> HIDE DEF c
<1>5. cs \in Seq(Sets)
  BY <1>2, <1>4
<1>6. new \in ReqType
  <2> HIDE DEF cs
  <2> QED BY <1>1, <1>5, AnswerType
<1>7. PICK q \in ReqType : q = new
  BY <1>6
<1>8. /\ q.host = h /\ q.absolute = req[r].absolute
      /\ q.alone = req[r].alone /\ q.tok = req[r].tok /\ q.calls > 0
      /\ q.set = cs /\ q.result = Result(r, "gone")
  <2> HIDE DEF cs
  <2> QED BY <1>2, <1>7 DEF ReqType
<1>9. \A x \in Scope : Offered(q.set, x, Len(q.set)) => x \in Issued
  BY <1>2, <1>4, <1>8 DEF ReqOK
<1>10. ASSUME NEW x, q.alone, Own(h, x), q.tok = None
       PROVE  ~Fresh(jar[x])
  BY <1>1, <1>2, <1>8, <1>10 DEF ReqOK, Known
<1>11. ASSUME NEW x, q.alone, Own(h, x), x.only, q.result = "gone"
       PROVE  Loses(q.set, x)
  <2>1. x = HostOnly(h)
    BY <1>2, <1>11, OwnScope, ScopeOf
  <2>2. CASE req[r].tok # None
    BY <1>3, <1>4, <1>8, <2>1, <2>2 DEF Loses
  <2>3. CASE req[r].tok = None /\ req[r].calls = 0
    <3>1. q.set = << >>
      BY <1>2, <1>8, <2>3 DEF ReqOK
    <3>2. Silent(q.set, x)
      BY <3>1 DEF Silent
    <3> QED BY <1>8, <1>10, <1>11, <2>3, <3>2 DEF Loses
  <2>4. CASE req[r].tok = None /\ req[r].calls # 0
    <3>1. req[r].result = "gone"
      BY <1>2, <1>8, <1>11, <2>4, Constants DEF Result
    <3>2. Loses(req[r].set, x)
      BY <1>2, <1>8, <1>11, <3>1 DEF ReqOK, Known
    <3> QED BY <1>8, <2>4, <3>2
  <2> QED BY <2>2, <2>3, <2>4
<1>12. req' = [req EXCEPT ![r] = q]
  BY <1>1, <1>7
<1> HIDE DEF new, cs
<1> QED BY <1>1, <1>8, <1>9, <1>10, <1>11, <1>12, DestroyedKeeps

LEMMA DestroyFasthttpKeeps ==
    ASSUME IInv, NEW r \in Req, DestroyFasthttp(r)
    PROVE  IInv'
<1> DEFINE h == req[r].host
           c == RemovedCookie(h)
           cs == Added(r, c)
           new == [req[r] EXCEPT !.calls = req[r].calls + 1, !.tok = None,
                                 !.set = cs, !.result = Result(r, "gone")]
<1>1. /\ req[r] # NoReq /\ req' = [req EXCEPT ![r] = new] /\ DestroySession(r)
      /\ UNCHANGED <<config, now, used, boot, jar, sent, expect>>
      /\ config.fw[h] = "fasthttp"
  BY DEF DestroyFasthttp, Call, FrameworkOf
<1>2. /\ h \in Hosts /\ req[r] \in ReqType /\ req[r].set \in Seq(Sets)
      /\ now \in Nat /\ req[r].calls \in Nat /\ ReqOK(req[r])
      /\ config.fw[h] # "none" /\ req[r].absolute \in Absolute
  BY <1>1, ReqFacts
<1>3. c \in Sets /\ c.scope = HostOnly(h) /\ c.tok = None
  BY <1>2, RemovedCookieIs
<1>4. /\ cs \in Seq(Sets)
      /\ LastLine(cs, c.scope, Len(cs)) /\ Len(cs) \in 1 .. Len(cs)
      /\ cs[Len(cs)] = c
      /\ \A x : Offered(cs, x, Len(cs)) => Offered(req[r].set, x, Len(req[r].set))
  BY <1>2, <1>3, AddedLine
<1> HIDE DEF c, cs
<1>5. new \in ReqType
  <2>1. PICK b \in ReqType : b = [req[r] EXCEPT !.calls = req[r].calls + 1,
                                       !.set = cs, !.result = Result(r, "gone")]
    BY <1>1, <1>4, AnswerType
  <2>2. [b EXCEPT !.tok = None] \in ReqType
    BY <2>1 DEF ReqType, Toks
  <2>3. new = [b EXCEPT !.tok = None]
    BY <1>2, <2>1 DEF ReqType
  <2> QED BY <2>2, <2>3
<1>6. PICK q \in ReqType : q = new
  BY <1>5
<1>7. /\ q.host = h /\ q.absolute = req[r].absolute
      /\ q.alone = req[r].alone /\ q.calls > 0
      /\ q.set = cs /\ q.result = Result(r, "gone")
  BY <1>2, <1>6 DEF ReqType
<1>8. \A x \in Scope : Offered(q.set, x, Len(q.set)) => x \in Issued
  BY <1>2, <1>4, <1>7 DEF ReqOK
<1>9. \A x : Own(h, x) /\ x.only => Loses(q.set, x)
  BY <1>2, <1>3, <1>4, <1>7, OwnScope, ScopeOf DEF Loses
<1>10. req' = [req EXCEPT ![r] = q]
  BY <1>1, <1>6
<1> HIDE DEF new
<1> QED BY <1>1, <1>7, <1>8, <1>9, <1>10, DestroyedKeeps

------------------------------------------------------------------------------
\* The browser and the clock.

\* The cookie that the browser sends is one of those it may send.
LEMMA GetCookieIs ==
    ASSUME jar \in Jars, NEW h
    PROVE  /\ SentTo(h) = {} => GetCookie(h) = None
           /\ SentTo(h) # {} => \E x \in SentTo(h) : GetCookie(h) = jar[x].tok
           /\ GetCookie(h) \in Toks
<1>1. SentTo(h) = {} => GetCookie(h) = None
  BY DEF GetCookie
<1>2. ASSUME SentTo(h) # {}
      PROVE  \E x \in SentTo(h) : GetCookie(h) = jar[x].tok
  <2> DEFINE T == {jar[x].made : x \in SentTo(h)}
             First(x) == x \in SentTo(h) /\ \A y \in SentTo(h) : jar[x].made <= jar[y].made
             f == CHOOSE x \in SentTo(h) : \A y \in SentTo(h) : jar[x].made <= jar[y].made
  <2>1. \A x \in SentTo(h) : jar[x].made \in Nat
    BY DEF SentTo, Jars, Kept
  <2>2. T \subseteq Nat /\ T # {}
    BY <1>2, <2>1
  <2>3. PICK m \in T : \A n \in T : m <= n
    <3> HIDE DEF T
    <3> QED BY <2>2, Least
  <2>4. \E x \in SentTo(h) : \A y \in SentTo(h) : jar[x].made <= jar[y].made
    BY <2>3
  <2>5. f \in SentTo(h)
    BY <2>4
  <2>6. GetCookie(h) = jar[f].tok
    BY <1>2 DEF GetCookie
  <2> HIDE DEF f
  <2> QED BY <2>5, <2>6
<1>3. GetCookie(h) \in Toks
  BY <1>1, <1>2 DEF SentTo, Jars, Kept, Toks
<1> QED BY <1>1, <1>2, <1>3

LEMMA SendKeeps ==
    ASSUME IInv, NEW r \in Req, NEW h \in Hosts, NEW absolute \in Absolute,
           Send(r, h, absolute)
    PROVE  IInv'
<1> DEFINE new == [host |-> h, tok |-> GetCookie(h), absolute |-> absolute,
                   calls |-> 0, set |-> << >>, alone |-> Quiet, result |-> expect[h]]
<1>1. /\ req' = [p \in Req |-> IF p = r THEN new ELSE [req[p] EXCEPT !.alone = FALSE]]
      /\ UNCHANGED <<config, now, due, used, boot, jar>>
      /\ expect' = [g \in Hosts |-> None] /\ sent' = sent + 1
      /\ req[r] = NoReq /\ config.fw[h] # "none"
  BY DEF Send
<1>2. /\ jar \in Jars /\ req \in [Req -> ReqType] /\ absolute \in BOOLEAN
      /\ expect[h] \in Sid \cup {"gone", None} /\ sent \in Nat
  BY Types, Constants DEF IInv, TypeOK
<1>3. GetCookie(h) \in Toks /\ Quiet \in BOOLEAN
  BY <1>2, GetCookieIs DEF Quiet
<1>4. new \in ReqType
  <2>1. << >> \in Seq(Sets)
    OBVIOUS
  <2>2. PICK e \in Sid \cup {"gone", None} : e = expect[h]
    BY <1>2
  <2>3. PICK t \in Toks : t = GetCookie(h)
    BY <1>3
  <2>4. PICK b \in BOOLEAN : b = Quiet
    BY <1>3
  <2>5. [host |-> h, tok |-> t, absolute |-> absolute, calls |-> 0, set |-> << >>,
         alone |-> b, result |-> e] \in ReqType
    BY <1>2, <2>1 DEF ReqType
  <2> QED BY <2>2, <2>3, <2>4, <2>5
<1>5. PICK q \in ReqType : q = new
  BY <1>4
<1>6. /\ q.host = h /\ q.tok = GetCookie(h) /\ q.absolute = absolute
      /\ q.set = << >> /\ q.alone = Quiet /\ q.result = expect[h]
  BY <1>5
<1>7. \A p \in Req : p # r => /\ [req[p] EXCEPT !.alone = FALSE] \in ReqType
                              /\ ~[req[p] EXCEPT !.alone = FALSE].alone
                              /\ ReqOK([req[p] EXCEPT !.alone = FALSE])
  <2> SUFFICES ASSUME NEW p \in Req
               PROVE  /\ [req[p] EXCEPT !.alone = FALSE] \in ReqType
                      /\ ~[req[p] EXCEPT !.alone = FALSE].alone
                      /\ ReqOK([req[p] EXCEPT !.alone = FALSE])
    OBVIOUS
  <2>1. PICK b \in ReqType : b = req[p] /\ ReqOK(b)
    BY <1>2 DEF IInv
  <2>2. PICK b2 \in ReqType : b2 = [b EXCEPT !.alone = FALSE]
    BY DEF ReqType
  <2>3. /\ b2.host = b.host /\ b2.absolute = b.absolute /\ b2.calls = b.calls
        /\ b2.set = b.set /\ ~b2.alone
    BY <2>2 DEF ReqType
  <2>4. b2 # NoReq => b # NoReq
    BY <2>2, NoReqOK
  <2>5. ReqOK(b2)
    BY <2>1, <2>3, <2>4 DEF ReqOK
  <2> QED BY <2>1, <2>2, <2>3, <2>5
<1>8. /\ req'[r] = q
      /\ \A p \in Req : p # r => req'[p] = [req[p] EXCEPT !.alone = FALSE]
  BY <1>1, <1>5
<1>9. req' \in [Req -> ReqType]
  <2> HIDE DEF new
  <2>1. req' = [p \in Req |-> req'[p]]
    BY <1>1
  <2>2. \A p \in Req : req'[p] \in ReqType
    BY <1>7, <1>8
  <2> QED BY <2>1, <2>2
<1> HIDE DEF new
<1>10. TypeOK'
  BY <1>1, <1>2, <1>9 DEF IInv, TypeOK, ReqType, Toks
<1>11. Alone'
  <2> SUFFICES ASSUME NEW p \in Req, NEW p2 \in Req, req'[p].alone, p2 # p
               PROVE  req'[p2] = NoReq
    BY DEF Alone, NoReq
  <2>1. p = r /\ Quiet
    BY <1>6, <1>7, <1>8
  <2>2. req'[p2] = [NoReq EXCEPT !.alone = FALSE]
    BY <1>8, <2>1 DEF Quiet
  <2> QED BY <2>2 DEF NoReq
<1>12. Unasked'
  BY <1>1 DEF Unasked
<1>13. Traced'
  BY <1>1, ConfigKept DEF IInv, Traced
<1>14. ASSUME q.alone
       PROVE  Known(q)
  <2> SUFFICES ASSUME NEW x, Own(h, x)
               PROVE  /\ GetCookie(h) = None => ~Fresh(jar[x])
                      /\ \A s \in Sid : expect[h] = s /\ ~Refused(h) /\ Dated(s)
                            => Gets(<< >>, x, s, due[s])
                      /\ expect[h] = "gone" /\ x.only => Loses(<< >>, x)
    BY <1>6 DEF Known
  <2>1. GetCookie(h) = None => ~Fresh(jar[x])
    <3> SUFFICES ASSUME Fresh(jar[x]) PROVE GetCookie(h) # None
      OBVIOUS
    <3>1. x \in SentTo(h)
      BY IssuedScope DEF SentTo, Own
    <3>2. PICK y \in SentTo(h) : GetCookie(h) = jar[y].tok
      BY <1>2, <3>1, GetCookieIs
    <3> QED BY <3>2 DEF SentTo, Fresh
  <2>2. Silent(<< >>, x)
    BY DEF Silent
  <2>3. HostOK(h)
    BY DEF IInv
  <2> QED BY <2>1, <2>2, <2>3 DEF HostOK, Gets, Loses
<1>15. ReqOK(q)
  <2>1. \A x : ~Offered(<< >>, x, Len(<< >>))
    BY DEF Offered
  <2> QED BY <1>1, <1>6, <1>14, <2>1 DEF ReqOK
<1>16. ASSUME NEW p \in Req
       PROVE  ReqOK(req[p])'
  <2>1. PICK b \in ReqType : b = req'[p] /\ ReqOK(b)
    BY <1>7, <1>8, <1>15
  <2>2. Known(b)' <=> Known(b)
    BY <1>1, ConfigKept, BrowserKept DEF Known, Dated
  <2>3. ReqOK(b)'
    BY <1>1, <2>1, <2>2, ConfigKept DEF ReqOK, NoReq
  <2> QED BY <2>1, <2>3 DEF ReqOK, Known
<1>17. ASSUME NEW g \in Hosts
       PROVE  HostOK(g)'
  BY <1>1, Constants DEF HostOK
<1>18. now' <= MaxTime + 1
  BY <1>1 DEF IInv
<1> QED BY <1>10, <1>11, <1>12, <1>13, <1>16, <1>17, <1>18 DEF IInv

\* A request that ends leaves the others as they are.
LEMMA EndedReqs ==
    ASSUME IInv, NEW r \in Req, req[r] # NoReq, config' = config,
           req' = [req EXCEPT ![r] = NoReq]
    PROVE  /\ req' \in [Req -> ReqType]
           /\ \A p \in Req : ~req'[p].alone
           /\ Alone'
           /\ \A p \in Req : ReqOK(req[p])'
<1>1. req \in [Req -> ReqType]
  BY Types DEF IInv
<1>2. req'[r] = NoReq /\ \A p \in Req : p # r => req'[p] = req[p]
  BY <1>1
<1>3. \A p \in Req : ~req'[p].alone
  BY <1>2, Busy, NoReqOK
<1>4. req' \in [Req -> ReqType]
  BY <1>1, NoReqOK
<1>5. Alone'
  BY <1>3 DEF Alone
<1>6. ASSUME NEW p \in Req
      PROVE  ReqOK(req[p])'
  <2>1. PICK b \in ReqType : b = req'[p] /\ ReqOK(b) /\ ~b.alone
    BY <1>2, <1>3, <1>4, NoReqOK DEF IInv
  <2>2. ReqOK(b)'
    BY <2>1, ConfigKept DEF ReqOK, NoReq
  <2> QED BY <2>1, <2>2 DEF ReqOK, Known
<1> QED BY <1>3, <1>4, <1>5, <1>6

LEMMA LoseKeeps ==
    ASSUME IInv, NEW r \in Req, Lose(r)
    PROVE  IInv'
<1>1. /\ req[r] # NoReq /\ req' = [req EXCEPT ![r] = NoReq]
      /\ UNCHANGED <<config, now, due, used, boot, jar, sent, expect>>
  BY DEF Lose
<1>2. /\ req' \in [Req -> ReqType] /\ Alone' /\ \A p \in Req : ReqOK(req[p])'
  BY <1>1, EndedReqs
<1>3. \A h \in Hosts : expect[h] = None
  BY <1>1, Busy
<1>4. TypeOK'
  BY <1>1, <1>2 DEF IInv, TypeOK, ReqType, Toks
<1>5. Unasked' /\ \A h \in Hosts : HostOK(h)'
  BY <1>1, <1>3, Constants DEF Unasked, HostOK
<1>6. Traced' /\ now' <= MaxTime + 1
  BY <1>1, ConfigKept DEF IInv, Traced
<1> QED BY <1>2, <1>4, <1>5, <1>6 DEF IInv

LEMMA ReceiveKeeps ==
    ASSUME IInv, NEW r \in Req, Receive(r)
    PROVE  IInv'
<1> DEFINE g == req[r].host
           cs == req[r].set
<1>1. /\ req[r] # NoReq /\ req' = [req EXCEPT ![r] = NoReq]
      /\ jar' = StoredAll(jar, cs)
      /\ expect' = [expect EXCEPT ![g] = IF req[r].alone THEN req[r].result ELSE None]
      /\ UNCHANGED <<config, now, due, used, boot, sent>>
  BY DEF Receive
<1>2. /\ req' \in [Req -> ReqType] /\ Alone' /\ \A p \in Req : ReqOK(req[p])'
  BY <1>1, EndedReqs
<1>3. \A h \in Hosts : expect[h] = None
  BY <1>1, Busy
<1>4. /\ g \in Hosts /\ config.fw[g] # "none" /\ req[r].absolute \in Absolute
      /\ cs \in Seq(Sets) /\ now \in Nat /\ ReqOK(req[r])
      /\ req[r].result \in Sid \cup {"gone", None}
      /\ jar \in Jars /\ expect \in [Hosts -> Sid \cup {"gone", None}]
  BY <1>1, ReqFacts, Types DEF IInv, TypeOK
<1>5. /\ jar' \in Jars
      /\ \A x \in Scope : jar'[x].tok # None => jar[x].tok # None \/ Offered(cs, x, Len(cs))
      /\ \A x \in Scope : Silent(cs, x) => jar'[x] = jar[x]
      /\ \A x \in Scope : \A i : LastLine(cs, x, i) /\ ~Barred(x) =>
            /\ jar'[x].tok = cs[i].tok
            /\ cs[i].tok # None => jar'[x].exp = Until(cs[i])
  BY <1>1, <1>4, StoredAllIs
<1>6. TypeOK'
  BY <1>1, <1>2, <1>4, <1>5 DEF IInv, TypeOK, ReqType, Toks, Jars, Kept
<1>7. Traced' /\ now' <= MaxTime + 1
  BY <1>1, <1>4, <1>5, ConfigKept DEF IInv, Traced, ReqOK
<1>8. ASSUME NEW h \in Hosts, expect'[h] # None
      PROVE  h = g /\ req[r].alone /\ expect'[h] = req[r].result
  BY <1>1, <1>3, <1>4, <1>8
<1>9. Unasked'
  <2> SUFFICES ASSUME NEW h \in Hosts, expect'[h] # None
               PROVE  Quiet' /\ config'.fw[h] # "none" /\ Absolute # {}
    BY DEF Unasked
  <2>1. h = g /\ req[r].alone
    BY <1>8
  <2>2. \A p \in Req : p # r => req[p] = NoReq
    BY <2>1 DEF IInv, Alone
  <2>3. Quiet'
    BY <1>1, <2>2, Types DEF Quiet, IInv, NoReq
  <2> QED BY <1>1, <1>4, <2>1, <2>3
<1>10. \A x : Own(g, x) => x \in Scope /\ (~Refused(g) \/ x.only => ~Barred(x))
  BY <1>4, OwnScope DEF Refused, Barred
<1>11. ASSUME NEW h \in Hosts
       PROVE  HostOK(h)'
  <2> SUFFICES ASSUME NEW x, Own(h, x), expect'[h] # None
               PROVE  /\ \A s \in Sid : expect'[h] = s /\ ~Refused(h) /\ Dated(s)
                            => Has(x, s, due[s])'
                      /\ expect'[h] = "gone" /\ x.only => ~Fresh(jar[x])'
    BY <1>1, ConfigKept, Constants DEF HostOK, Dated
  <2>1. h = g /\ req[r].alone /\ expect'[h] = req[r].result /\ x \in Scope
    BY <1>8, <1>10
  <2>2. Known(req[r])
    BY <1>4, <2>1 DEF ReqOK
  <2>3. ASSUME NEW s \in Sid, expect'[h] = s, ~Refused(h), Dated(s)
        PROVE  Has(x, s, due[s])'
    <3>1. Gets(cs, x, s, due[s])
      BY <2>1, <2>2, <2>3 DEF Known
    <3>2. CASE Silent(cs, x) /\ Has(x, s, due[s])
      BY <1>1, <1>5, <2>1, <3>2, DecodeKept DEF Has
    <3>3. CASE \E i \in 1 .. Len(cs) : /\ LastLine(cs, x, i)
                                       /\ Decode(cs[i].tok) = s
                                       /\ Lasting(Until(cs[i]), due[s])
      <4>1. PICK i \in 1 .. Len(cs) : /\ LastLine(cs, x, i)
                                      /\ Decode(cs[i].tok) = s
                                      /\ Lasting(Until(cs[i]), due[s])
        BY <3>3
      <4>2. cs[i].tok # None
        BY <4>1, Constants DEF Decode
      <4>3. jar'[x].tok = cs[i].tok /\ jar'[x].exp = Until(cs[i])
        BY <1>5, <1>10, <2>1, <2>3, <4>1, <4>2
      <4> QED BY <1>1, <4>1, <4>3, DecodeKept DEF Has
    <3> QED BY <3>1, <3>2, <3>3 DEF Gets
  <2>4. ASSUME expect'[h] = "gone", x.only
        PROVE  ~Fresh(jar[x])'
    <3>1. Loses(cs, x)
      BY <2>1, <2>2, <2>4 DEF Known
    <3>2. CASE Silent(cs, x) /\ ~Fresh(jar[x])
      BY <1>1, <1>5, <2>1, <3>2 DEF Fresh
    <3>3. CASE \E i \in 1 .. Len(cs) : LastLine(cs, x, i) /\ cs[i].tok = None
      BY <1>5, <1>10, <2>1, <2>4, <3>3 DEF Fresh
    <3> QED BY <3>1, <3>2, <3>3 DEF Loses
  <2> QED BY <2>3, <2>4
<1> QED BY <1>2, <1>6, <1>7, <1>9, <1>11 DEF IInv

\* A session that is destroyed, or that all are.
LEMMA DueKeeps ==
    ASSUME IInv, due' \in [Sid -> Nat \cup {None}],
           \A s \in Sid : due'[s] \in {due[s], None},
           UNCHANGED <<config, now, used, boot, jar, req, sent, expect>>
    PROVE  IInv'
<1>1. TypeOK' /\ now' <= MaxTime + 1
  BY DEF IInv, TypeOK
<1>2. Alone' /\ Unasked' /\ Traced'
  BY ConfigKept DEF IInv, Alone, Unasked, Quiet, Traced, NoReq
<1>3. \A s \in Sid : Dated(s)' => Dated(s) /\ due'[s] = due[s]
  BY DEF Dated
<1>4. ASSUME NEW r \in Req
      PROVE  ReqOK(req[r])'
  <2>1. PICK b : b = req[r] /\ ReqOK(b)
    BY DEF IInv
  <2>2. Known(b) => Known(b)'
    BY <1>3, ConfigKept, BrowserKept DEF Known
  <2>3. ReqOK(b)'
    BY <2>1, <2>2, ConfigKept DEF ReqOK, NoReq
  <2> QED BY <2>1, <2>3 DEF ReqOK, Known
<1>5. ASSUME NEW h \in Hosts
      PROVE  HostOK(h)'
  BY <1>3, ConfigKept, BrowserKept DEF IInv, HostOK
<1> QED BY <1>1, <1>2, <1>4, <1>5 DEF IInv

LEMMA TickKeeps ==
    ASSUME IInv, Tick
    PROVE  IInv'
<1>1. /\ now < MaxTime /\ now' = now + 1
      /\ UNCHANGED <<config, due, used, boot, jar, req, sent, expect>>
      /\ now \in Nat /\ jar \in Jars /\ req \in [Req -> ReqType]
      /\ MaxTime \in Nat /\ Second \in Nat
  BY Types, Constants DEF Tick, IInv
<1>2. TypeOK' /\ now' <= MaxTime + 1
  BY <1>1 DEF IInv, TypeOK
<1>3. Alone' /\ Unasked' /\ Traced'
  BY <1>1, ConfigKept DEF IInv, Alone, Unasked, Quiet, Traced, NoReq
<1>4. \A x \in Scope : Fresh(jar[x])' => Fresh(jar[x])
  BY <1>1 DEF Fresh, Jars, Kept
<1>5. \A x, s, u : Has(x, s, u)' <=> Has(x, s, u)
  BY <1>1, DecodeKept DEF Has
<1>6. ASSUME NEW c \in Sets, NEW u \in Nat, Lasting(Until(c), u)
      PROVE  Lasting(Until(c)', u)
  <2>1. c.maxAge \in Nat /\ c.exp \in Nat
    BY DEF Sets
  <2>2. \/ Until(c)' = Until(c)
        \/ Until(c)' = Until(c) + 1 /\ Until(c) # 0
    BY <1>1, <2>1 DEF Until
  <2>3. Until(c) \in Nat
    BY <1>1, <2>1 DEF Until
  <2> QED BY <1>1, <1>6, <2>2, <2>3 DEF Lasting
<1>7. ASSUME NEW cs \in Seq(Sets), NEW x, NEW s, NEW u \in Nat, Gets(cs, x, s, u)
      PROVE  Gets(cs, x, s, u)'
  <2>1. \A i \in 1 .. Len(cs) : cs[i] \in Sets
    OBVIOUS
  <2>2. CASE Silent(cs, x) /\ Has(x, s, u)
    BY <1>5, <2>2 DEF Gets
  <2>3. CASE \E i \in 1 .. Len(cs) : /\ LastLine(cs, x, i)
                                     /\ Decode(cs[i].tok) = s
                                     /\ Lasting(Until(cs[i]), u)
    <3>1. PICK i \in 1 .. Len(cs) : /\ LastLine(cs, x, i)
                                    /\ Decode(cs[i].tok) = s
                                    /\ Lasting(Until(cs[i]), u)
      BY <2>3
    <3>2. PICK c \in Sets : c = cs[i]
      BY <2>1
    <3>3. Lasting(Until(c)', u)
      BY <1>6, <3>1, <3>2
    <3>4. Lasting(Until(cs[i]), u)'
      BY <3>2, <3>3 DEF Until
    <3> QED BY <1>1, <3>1, <3>4, DecodeKept DEF Gets
  <2> QED BY <1>7, <2>2, <2>3 DEF Gets
<1>8. \A cs : \A x \in Scope : Loses(cs, x) => Loses(cs, x)'
  BY <1>4 DEF Loses
<1>9. \A s \in Sid : (Dated(s)' <=> Dated(s)) /\ (Dated(s) => due[s] \in Nat)
  BY <1>1 DEF Dated, IInv, TypeOK
<1>10. \A h, x : Own(h, x) => x \in Scope
  BY IssuedScope DEF Own
<1>11. ASSUME NEW r \in Req
       PROVE  ReqOK(req[r])'
  <2>1. PICK b \in ReqType : b = req[r] /\ ReqOK(b)
    BY <1>1 DEF IInv
  <2>2. ASSUME Known(b)
        PROVE  Known(b)'
    <3> SUFFICES ASSUME NEW x, Own(b.host, x)
                 PROVE  /\ b.tok = None /\ config.fw[b.host] = "net/http" => ~Fresh(jar[x])'
                        /\ \A s \in Sid : b.result = s /\ ~Refused(b.host) /\ Dated(s)
                              => Gets(b.set, x, s, due[s])'
                        /\ b.result = "gone" /\ x.only => Loses(b.set, x)'
      BY <1>1, <1>9, ConfigKept DEF Known
    <3>1. b.set \in Seq(Sets) /\ x \in Scope
      BY <1>10 DEF ReqType
    <3>2. ASSUME NEW s \in Sid, b.result = s, ~Refused(b.host), Dated(s)
          PROVE  Gets(b.set, x, s, due[s])'
      <4>1. Gets(b.set, x, s, due[s]) /\ due[s] \in Nat
        BY <1>9, <2>2, <3>2 DEF Known
      <4>2. PICK u \in Nat : u = due[s]
        BY <4>1
      <4>3. Gets(b.set, x, s, u)'
        BY <1>7, <3>1, <4>1, <4>2
      <4> QED BY <1>1, <4>2, <4>3
    <3>3. b.tok = None /\ config.fw[b.host] = "net/http" => ~Fresh(jar[x])'
      BY <1>4, <2>2, <3>1 DEF Known
    <3>4. b.result = "gone" /\ x.only => Loses(b.set, x)'
      BY <1>8, <2>2, <3>1 DEF Known
    <3> QED BY <3>2, <3>3, <3>4
  <2>3. ReqOK(b)'
    BY <1>1, <2>1, <2>2, ConfigKept DEF ReqOK, NoReq
  <2> QED BY <1>1, <2>1, <2>3 DEF ReqOK, Known
<1>12. ASSUME NEW h \in Hosts
       PROVE  HostOK(h)'
  BY <1>1, <1>4, <1>5, <1>9, <1>10, ConfigKept DEF IInv, HostOK
<1> QED BY <1>2, <1>3, <1>11, <1>12 DEF IInv

\* No request is under way and nothing is expected.
LEMMA QuietKeeps ==
    ASSUME IInv, config' = config, now' = now,
           TypeOK', Quiet', expect' = [h \in Hosts |-> None],
           \A x \in Scope : jar'[x].tok # None => jar[x].tok # None
    PROVE  IInv'
<1>1. \A r \in Req : req'[r] = NoReq
  BY DEF Quiet, NoReq
<1>2. Alone' /\ Unasked' /\ Traced' /\ now' <= MaxTime + 1
  BY <1>1, ConfigKept, NoReqOK DEF Alone, Unasked, Traced, IInv
<1>3. ASSUME NEW r \in Req
      PROVE  ReqOK(req[r])'
  <2>1. ReqOK(NoReq)
    BY NoReqOK
  <2>2. ~NoReq.alone
    BY NoReqOK
  <2>3. ReqOK(NoReq)'
    BY <2>1, <2>2, ConfigKept DEF ReqOK, NoReq
  <2> QED BY <1>1, <2>3 DEF ReqOK, Known, NoReq
<1>4. ASSUME NEW h \in Hosts
      PROVE  HostOK(h)'
  BY Constants DEF HostOK
<1> QED BY <1>2, <1>3, <1>4 DEF IInv

LEMMA RestartKeeps ==
    ASSUME IInv, Restart
    PROVE  IInv'
<1>1. /\ boot' = boot + 1 /\ due' = [s \in Sid |-> None]
      /\ req' = [r \in Req |-> NoReq] /\ expect' = [h \in Hosts |-> None]
      /\ UNCHANGED <<config, now, used, jar, sent>>
  BY DEF Restart
<1>2. Quiet'
  BY <1>1 DEF Quiet, NoReq
<1>3. req' \in [Req -> ReqType]
  BY <1>1, NoReqOK
<1>4. TypeOK'
  BY <1>1, <1>3 DEF IInv, TypeOK, ReqType, Toks
<1> QED BY <1>1, <1>2, <1>4, QuietKeeps

LEMMA CloseBrowserKeeps ==
    ASSUME IInv, CloseBrowser
    PROVE  IInv'
<1>1. /\ Quiet /\ expect' = [h \in Hosts |-> None]
      /\ jar' = [x \in Scope |-> IF jar[x].exp = 0 THEN NoCookie ELSE jar[x]]
      /\ UNCHANGED <<config, now, due, used, boot, req, sent>>
  BY DEF CloseBrowser
<1>2. Quiet'
  BY <1>1 DEF Quiet, NoReq
<1>3. NoCookie \in Kept /\ NoCookie.tok = None
  BY DEF NoCookie, Cookie, Kept, Toks
<1>4. jar' \in Jars /\ \A x \in Scope : jar'[x].tok # None => jar[x].tok # None
  BY <1>1, <1>3, Types DEF IInv, Jars
<1>5. TypeOK'
  BY <1>1, <1>4 DEF IInv, TypeOK, Jars, Kept, Toks
<1> QED BY <1>1, <1>2, <1>4, <1>5, QuietKeeps

------------------------------------------------------------------------------
LEMMA Initial == Init => IInv
<1> SUFFICES ASSUME Init PROVE IInv
  OBVIOUS
<1>1. /\ req \in [Req -> ReqType] /\ \A r \in Req : req[r] = NoReq
  BY NoReqOK DEF Init
<1>2. NoCookie \in Kept /\ NoCookie.tok = None
  BY DEF NoCookie, Cookie, Kept, Toks
<1>3. jar \in Jars /\ \A x \in Scope : jar[x].tok = None
  BY <1>2 DEF Init, Jars
<1>4. TypeOK
  BY <1>1, <1>3, Constants DEF Init, TypeOK, ReqType, Toks, Jars, Kept
<1>5. Alone /\ Unasked /\ Traced
  BY <1>1, <1>3, NoReqOK DEF Init, Alone, Unasked, Traced
<1>6. \A r \in Req : ReqOK(req[r])
  BY <1>1, NoReqOK
<1>7. \A h \in Hosts : HostOK(h)
  BY Constants DEF Init, HostOK
<1>8. now <= MaxTime + 1
  BY Constants DEF Init
<1> QED BY <1>4, <1>5, <1>6, <1>7, <1>8 DEF IInv

LEMMA Inductive == IInv /\ [Next]_vars => IInv'
<1> SUFFICES ASSUME IInv, [Next]_vars PROVE IInv'
  OBVIOUS
<1>1. ASSUME NEW r \in Req, NEW h \in Hosts, NEW absolute \in Absolute,
             Send(r, h, absolute)
      PROVE  IInv'
  BY <1>1, SendKeeps
<1>2. ASSUME NEW r \in Req, NEW s \in Sid, NEW ok \in EncodeResults, StartNew(r, s, ok)
      PROVE  IInv'
  BY <1>2, StartNewKeeps
<1>3. ASSUME NEW r \in Req, StartRead(r)
      PROVE  IInv'
  BY <1>3, StartReadKeeps
<1>4. ASSUME NEW r \in Req, NEW d \in config.updates, NEW ok \in EncodeResults,
             UpdateExpiration(r, d, ok)
      PROVE  IInv'
  BY <1>4, UpdateExpirationKeeps
<1>5. ASSUME NEW r \in Req, Destroy(r) \/ DestroyFasthttp(r)
      PROVE  IInv'
  BY <1>5, DestroyKeeps, DestroyFasthttpKeeps
<1>6. ASSUME NEW r \in Req, Receive(r) \/ Lose(r)
      PROVE  IInv'
  BY <1>6, ReceiveKeeps, LoseKeeps
<1>7. ASSUME NEW s \in Sid, DestroyByID(s)
      PROVE  IInv'
  <2>1. /\ due' = [due EXCEPT ![s] = None]
        /\ UNCHANGED <<config, now, used, boot, jar, req, sent, expect>>
    BY <1>7 DEF DestroyByID
  <2>2. /\ due' \in [Sid -> Nat \cup {None}]
        /\ \A t \in Sid : due'[t] \in {due[t], None}
    BY <2>1 DEF IInv, TypeOK
  <2> QED BY <2>1, <2>2, DueKeeps
<1>8. CASE DestroyAll
  <2>1. /\ due' = [s \in Sid |-> None]
        /\ UNCHANGED <<config, now, used, boot, jar, req, sent, expect>>
    BY <1>8 DEF DestroyAll
  <2>2. /\ due' \in [Sid -> Nat \cup {None}]
        /\ \A t \in Sid : due'[t] \in {due[t], None}
    BY <2>1
  <2> QED BY <2>1, <2>2, DueKeeps
<1>9. CASE Tick \/ Restart \/ CloseBrowser
  BY <1>9, TickKeeps, RestartKeeps, CloseBrowserKeeps
<1>10. CASE UNCHANGED vars
  <2>1. /\ due' = due
        /\ UNCHANGED <<config, now, used, boot, jar, req, sent, expect>>
    BY <1>10 DEF vars
  <2>2. due \in [Sid -> Nat \cup {None}]
    BY DEF IInv, TypeOK
  <2> QED BY <2>1, <2>2, DueKeeps
<1> QED
  BY <1>1, <1>2, <1>3, <1>4, <1>5, <1>6, <1>7, <1>8, <1>9, <1>10 DEF Next

LEMMA Invariance == Spec => []IInv
BY Initial, Inductive, PTL DEF Spec

\* A cookie that is sent to a host of which something is expected is the one of
\* the host's own scope.
LEMMA OnlyOwn ==
    ASSUME IInv, NEW h \in Hosts, expect[h] # None, OneScope(h)
    PROVE  /\ config.fw[h] # "none" /\ Absolute # {} /\ jar \in Jars
           /\ \A a \in Absolute : /\ Own(h, CookieScope(h, a))
                                  /\ CookieScope(h, a) \in Scope
                                  /\ SentTo(h) \subseteq {CookieScope(h, a)}
<1>1. config.fw[h] # "none" /\ Absolute # {} /\ jar \in Jars
  BY Types DEF IInv, Unasked
<1>2. ASSUME NEW a \in Absolute
      PROVE  /\ Own(h, CookieScope(h, a)) /\ CookieScope(h, a) \in Scope
             /\ SentTo(h) \subseteq {CookieScope(h, a)}
  <2>1. Own(h, CookieScope(h, a)) /\ CookieScope(h, a) \in Scope
    BY <1>1, OwnScope, ScopeOf DEF Own
  <2>2. \A y \in SentTo(h) : y \in Issued /\ Matches(y, h)
    BY DEF SentTo, Fresh, IInv, Traced
  <2> QED BY <2>1, <2>2 DEF Own, OneScope
<1> QED BY <1>1, <1>2

\* TypeOK: every value of the manager, of the browser and of the responses under
\* way is one of its type, at every step of Start, UpdateExpiration and Destroy.
THEOREM TypeCorrect == Spec => []TypeOK
<1>1. IInv => TypeOK
  BY DEF IInv
<1> QED BY <1>1, Invariance, PTL

\* Remembered: the cookie that Start or UpdateExpiration sent (updateCookie) makes
\* the next request find the session as long as it is alive.
THEOREM CookieRemembered == Spec => []Remembered
<1>1. ASSUME IInv
      PROVE  Remembered
  <2> SUFFICES ASSUME NEW h \in Hosts, NEW s \in Sid, expect[h] = s, Alive(s),
                      OneScope(h), ~Refused(h)
               PROVE  Decode(GetCookie(h)) = s
    BY DEF Remembered
  <2>1. expect[h] # None
    BY Constants
  <2>2. PICK a \in Absolute : /\ Own(h, CookieScope(h, a))
                              /\ CookieScope(h, a) \in Scope
                              /\ SentTo(h) \subseteq {CookieScope(h, a)}
    BY <1>1, <2>1, OnlyOwn
  <2>3. PICK x \in Scope : x = CookieScope(h, a) /\ Own(h, x) /\ SentTo(h) \subseteq {x}
    BY <2>2
  <2>4. Dated(s)
    BY Constants DEF Alive, Dated
  <2>5. Decode(jar[x].tok) = s /\ Lasting(jar[x].exp, due[s])
    BY <1>1, <2>3, <2>4 DEF IInv, HostOK, Has
  <2>6. /\ jar \in Jars /\ jar[x] \in Kept /\ jar[x].exp \in Nat /\ now \in Nat
        /\ due[s] \in Nat /\ now <= MaxTime + 1
    BY <1>1, <2>3, <2>4, Types DEF IInv, Jars, Kept, TypeOK, Dated
  <2>7. jar[x].exp = 0 \/ jar[x].exp > now
    BY <2>5, <2>6, Constants DEF Lasting, Alive
  <2>8. jar[x].tok # None
    BY <2>5, Constants DEF Decode
  <2>9. x \in SentTo(h)
    BY <2>3, <2>7, <2>8 DEF SentTo, Fresh, Own
  <2>10. GetCookie(h) = jar[x].tok
    BY <2>3, <2>6, <2>9, GetCookieIs
  <2> QED BY <2>5, <2>10
<1> QED BY <1>1, Invariance, PTL

\* Forgotten: after an undisturbed Destroy the browser has no cookie of the host,
\* because RemoveCookie names the scope that the cookie has.
THEOREM CookieForgotten == Spec => []Forgotten
<1>1. ASSUME IInv
      PROVE  Forgotten
  <2> SUFFICES ASSUME NEW h \in Hosts, expect[h] = "gone", OneScope(h),
                      \A a \in Absolute : CookieScope(h, a).only
               PROVE  GetCookie(h) = None
    BY DEF Forgotten
  <2>1. expect[h] # None
    BY Constants
  <2>2. jar \in Jars
    BY <1>1, <2>1, OnlyOwn
  <2>3. PICK a \in Absolute : /\ Own(h, CookieScope(h, a))
                              /\ SentTo(h) \subseteq {CookieScope(h, a)}
    BY <1>1, <2>1, OnlyOwn
  <2>4. ~Fresh(jar[CookieScope(h, a)])
    BY <1>1, <2>3 DEF IInv, HostOK
  <2>5. SentTo(h) = {}
    BY <2>3, <2>4 DEF SentTo
  <2> QED BY <2>2, <2>5, GetCookieIs
<1> QED BY <1>1, Invariance, PTL
==============================================================================
