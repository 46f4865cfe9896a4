----------------------------- MODULE MCCookies -------------------------------
(* Cookies for TLC. *)
EXTENDS Cookies, TLC

\* Two hosts of one site; one below a public suffix of two labels, and one that
\* is no domain.
SiteHosts == {<<"example", "com">>, <<"www", "example", "com">>}
OddHosts == {<<"example", "co", "uk">>, <<"10", "0", "0", "1">>}
AllHosts == SiteHosts \cup OddHosts

LoopbackHosts == {<<"0", "0", "0", "0">>, <<"127", "0", "0", "1">>}
Numbers == {"0", "1", "10", "127"}
Suffixes == {<<"co", "uk">>}

Serve(H, f) == [h \in AllHosts |-> IF h \in H THEN f ELSE "none"]
Both == [Serve(SiteHosts, "fasthttp")
            EXCEPT ![<<"www", "example", "com">>] = "net/http"]

\* Sessions with a timer and encoded cookies; sessions without one, and cookies
\* for a single host, from both frameworks; cookies that the browser drops when
\* it closes.
Timed(fw, results) == [disable |-> FALSE, encode |-> results, expires |-> 3,
                       updates |-> {3}, fw |-> fw]
Unending(fw) == [disable |-> TRUE, encode |-> {}, expires |-> 0,
                 updates |-> {}, fw |-> fw]
Passing(fw) == [disable |-> FALSE, encode |-> {}, expires |-> -1,
                updates |-> {}, fw |-> fw]

SomeConfigs ==
    {Timed(Serve(SiteHosts, "net/http"), {TRUE}),
     Timed(Serve(SiteHosts, "fasthttp"), {TRUE}),
     Timed(Serve(OddHosts, "fasthttp"), {TRUE, FALSE}),
     Unending(Both), Passing(Serve(SiteHosts, "net/http"))}

\* fasthttp with the default configuration.
SubdomainConfig == {Timed(Serve(SiteHosts, "fasthttp"), {TRUE})}

\* The requests are interchangeable, and so are the ids.
Symmetry == Permutations(Req) \cup Permutations(Sid)
==============================================================================
