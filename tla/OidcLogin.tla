------------------------------ MODULE OidcLogin ------------------------------
(***************************************************************************)
(* Login by an identity provider: the login and callback routes of         *)
(* auth/oidc/endpoints.ts over OidcClient and JwksClient.  The state of a   *)
(* login is in a cookie, one per browser, so the tabs of a browser share   *)
(* it; the server keeps only the key set, and every fetch suspends the     *)
(* request.  The provider rotates its signing key and publishes the last   *)
(* two.                                                                    *)
(***************************************************************************)
EXTENDS Naturals, FiniteSets

CONSTANTS
    Browsers, None,
    FlowTtl,        \* of the flow cookie
    KeysTtl, Cooldown,  \* of the cached key set, and between its forced refreshes
    Latency,        \* bound of the model: how long a callback may wait for a fetch
    RotationGap,    \* bound of the provider: how far apart rotations are
    MaxTime, MaxLogins, MaxRotations, MaxFailures   \* bounds of the model

VARIABLES
    now,
    key, rotated,   \* the number of the provider's signing key; when it became so
    jwks,           \* the key set: [keys, expires, forced], or None
    cookie,         \* browser -> its flow cookie: [flow, exp], or None
    logins,         \* logins started: how many
    tabs,           \* [browser, flow] at the provider, which will send it back
    calls,          \* callbacks under way
    session,        \* browser -> the login its session is of, 0 without one
    missed,         \* history: a callback was refused for want of the key
    failures,
    late            \* history: a fetch of keys was overtaken by a newer one

idp == <<key, rotated>>
vars == <<now, key, rotated, jwks, cookie, logins, tabs, calls, session, missed, failures, late>>

Published(k) == {k, IF k > 0 THEN k - 1 ELSE 0}

Init ==
    /\ now = 1 /\ key = 0 /\ rotated = 0 /\ jwks = None
    /\ cookie = [b \in Browsers |-> None] /\ logins = 0 /\ tabs = {} /\ calls = {}
    /\ session = [b \in Browsers |-> 0] /\ missed = FALSE /\ failures = 0 /\ late = FALSE

----------------------------------------------------------------------------
\* /login: new state, nonce and verifier, in the one flow cookie of the browser.
Login(b) ==
    /\ logins < MaxLogins /\ logins' = logins + 1
    /\ cookie' = [cookie EXCEPT ![b] = [flow |-> logins + 1, exp |-> now + FlowTtl]]
    /\ tabs' = tabs \cup {[browser |-> b, flow |-> logins + 1]}
    /\ UNCHANGED <<now, idp, jwks, calls, session, missed, failures, late>>

\* The user signs in or gives up in a tab; the provider's refusal clears the cookie.
Denied(t) ==
    /\ tabs' = tabs \ {t} /\ cookie' = [cookie EXCEPT ![t.browser] = None]
    /\ failures < MaxFailures /\ failures' = failures + 1
    /\ UNCHANGED <<now, idp, jwks, logins, calls, session, missed, late>>

\* verifyFlowCookie and the state check of complete.
FlowOf(t) == cookie[t.browser] # None /\ cookie[t.browser].exp > now /\ cookie[t.browser].flow = t.flow

\* /callback: without the cookie 400; of another flow 400, and the cookie is cleared; else the
\* code is redeemed and the provider signs an ID token with its key of now.
Callback(t) ==
    /\ t \in tabs /\ tabs' = tabs \ {t}
    /\ IF FlowOf(t)
       THEN /\ calls' = calls \cup {[browser |-> t.browser, flow |-> t.flow, kid |-> key, at |-> "keys",
                                     sent |-> now, got |-> {}]}
            /\ UNCHANGED cookie
       ELSE /\ cookie' = [cookie EXCEPT ![t.browser] = IF @ # None /\ @.exp > now THEN None ELSE @]
            /\ UNCHANGED calls
    /\ UNCHANGED <<now, idp, jwks, logins, session, missed, failures, late>>

\* issueSession; the flow cookie is cleared.
SignsIn(c) ==
    /\ session' = [session EXCEPT ![c.browser] = c.flow]
    /\ calls' = calls \ {c} /\ cookie' = [cookie EXCEPT ![c.browser] = None]
    /\ UNCHANGED missed

Refuses(c, forKey) ==
    /\ missed' = (missed \/ forKey) /\ calls' = calls \ {c}
    /\ cookie' = [cookie EXCEPT ![c.browser] = None] /\ UNCHANGED session

Fetches(c, at) ==
    /\ calls' = (calls \ {c}) \cup {[c EXCEPT !.at = at, !.sent = now, !.got = {}]}
    /\ UNCHANGED <<cookie, session, missed>>

\* findKey with the set at hand: found, or one forced refresh, unless one was lately.
Pick(c, entry) ==
    IF c.kid \in entry.keys THEN SignsIn(c)
    ELSE IF entry.forced + Cooldown > now /\ entry.forced > 0 THEN Refuses(c, TRUE)
    ELSE Fetches(c, "forced")

\* verify: the cached set while it is fresh.
Keys(c) ==
    /\ c.at = "keys"
    /\ IF jwks # None /\ jwks.expires > now THEN Pick(c, jwks) ELSE Fetches(c, "fetch")
    /\ UNCHANGED <<now, idp, jwks, logins, tabs, failures, late>>

\* The provider answers the fetch with the keys of now.
Answers(c) ==
    /\ c.at \in {"fetch", "forced"} /\ c.got = {}
    /\ calls' = (calls \ {c}) \cup {[c EXCEPT !.got = Published(key)]}
    /\ UNCHANGED <<now, idp, jwks, cookie, logins, tabs, session, missed, failures, late>>

\* A slip: every refresh starts the cooldown.
ForcedAtAny(c) == now

\* When the cooldown started: only a forced refresh starts it.
ForcedAt(c) == IF c.at = "forced" THEN now ELSE IF jwks = None THEN 0 ELSE jwks.forced

\* refresh: the cache takes what was fetched, be it older than what it has.
Refreshed(c) ==
    /\ c.at \in {"fetch", "forced"} /\ c.got # {}
    /\ jwks' = [keys |-> c.got, expires |-> now + KeysTtl, forced |-> ForcedAt(c)]
    /\ late' = (late \/ (jwks # None /\ ~(jwks.keys \subseteq c.got) /\ key \in jwks.keys))
    /\ IF c.at = "fetch" THEN Pick(c, jwks')
       ELSE IF c.kid \in c.got THEN SignsIn(c) ELSE Refuses(c, TRUE)
    /\ UNCHANGED <<now, idp, logins, tabs, failures>>

\* The token endpoint, the key fetch or the verification fails otherwise.
Fails(c) ==
    /\ failures < MaxFailures /\ failures' = failures + 1
    /\ Refuses(c, FALSE)
    /\ UNCHANGED <<now, idp, jwks, logins, tabs, late>>

----------------------------------------------------------------------------
Rotate ==
    /\ key < MaxRotations /\ now >= rotated + RotationGap
    /\ key' = key + 1 /\ rotated' = now
    /\ UNCHANGED <<now, jwks, cookie, logins, tabs, calls, session, missed, failures, late>>

\* /logout clears the cookie of the session.
Logout(b) ==
    /\ session[b] # 0 /\ session' = [session EXCEPT ![b] = 0]
    /\ UNCHANGED <<now, idp, jwks, cookie, logins, tabs, calls, missed, failures, late>>

Tick ==
    /\ now < MaxTime /\ \A c \in calls : now < c.sent + Latency
    /\ now' = now + 1
    /\ UNCHANGED <<idp, jwks, cookie, logins, tabs, calls, session, missed, failures, late>>

Next ==
    \/ \E b \in Browsers : Login(b) \/ Logout(b)
    \/ \E t \in tabs : Denied(t) \/ Callback(t)
    \/ \E c \in calls : Keys(c) \/ Answers(c) \/ Refreshed(c) \/ Fails(c)
    \/ Rotate \/ Tick

Spec == Init /\ [][Next]_vars
----------------------------------------------------------------------------
(* "IdPs rotate keys without warning": the rotation of the key turns no      *)
(* login away, as long as no fetch of the old keys overtakes one of the new  *)
(* ones and rotations are as far apart as RotationAssumption of Logins says: *)
(* with less, the refresh that a rotation forced, by the first login after   *)
(* it, may hold back the one that the next rotation needs.                   *)
RotationTurnsNobodyAway == ~late => ~missed
=============================================================================
