------------------------------ MODULE OpaEngine ------------------------------
(***************************************************************************)
(* OpaPolicyEngine of auth/policy/opa.ts: the gates decide synchronously   *)
(* from a cache; a miss denies and sends a query whose answer is cached at *)
(* the time it arrives.  Any number of queries for a key are under way and *)
(* are answered in any order.  The policy at OPA changes as it likes.      *)
(***************************************************************************)
EXTENDS Integers, FiniteSets

CONSTANTS
    Keys,           \* cache keys: roles, resource, action and tenant; or roles and tenant of a list
    Lists,          \* those of list()
    None,
    Ttl, ListTtl,   \* cacheTtlMs, listCacheTtlMs
    Retry,          \* how long a failed decision is cached
    Timeout,        \* timeoutMs
    MaxTime, MaxQueries     \* bounds of the model

VARIABLES
    now,
    policy,         \* what OPA answers for each key now: allowed or not
    cache,          \* [at, allowed, asof] or None; asof is history: when OPA decided so
    queries,        \* [key, sent, allowed, asof]; allowed is None until OPA decided
    allowed         \* history: [at, asof] of what was granted from the cache

vars == <<now, policy, cache, queries, allowed>>

TtlOf(key) == IF key \in Lists THEN ListTtl ELSE Ttl
Query(key) == [key |-> key, sent |-> now, allowed |-> None, asof |-> now]

\* main pre-warms every key it knows.
Init ==
    /\ now = 0 /\ policy \in [Keys -> BOOLEAN]
    /\ cache = [k \in Keys |-> None] /\ queries = {Query(k) : k \in Keys} /\ allowed = {}

Fresh(key) == cache[key] # None /\ now - cache[key].at < TtlOf(key)

\* A slip: a hit renews the entry.
HitRenews(key) == [cache EXCEPT ![key].at = now]

\* A hit leaves the entry as it is.
Hit(key) == cache

\* evaluate and list: from the cache, or deny and warm it.
Evaluate(key) ==
    /\ IF Fresh(key)
       THEN /\ cache' = Hit(key)
            /\ allowed' = IF cache[key].allowed
                          THEN allowed \cup {[at |-> now, asof |-> cache[key].asof, key |-> key]} ELSE allowed
            /\ UNCHANGED queries
       ELSE /\ Cardinality(queries) < MaxQueries
            /\ queries' = queries \cup {Query(key)} /\ UNCHANGED <<cache, allowed>>
    /\ UNCHANGED <<now, policy>>

\* OPA decides a query.
Decides(q) ==
    /\ q.allowed = None
    /\ queries' = (queries \ {q}) \cup {[q EXCEPT !.allowed = policy[q.key], !.asof = now]}
    /\ UNCHANGED <<now, policy, cache, allowed>>

\* warmEvaluate, warmList: the answer is cached.
Answered(q) ==
    /\ q.allowed # None /\ queries' = queries \ {q}
    /\ cache' = [cache EXCEPT ![q.key] = [at |-> now, allowed |-> q.allowed, asof |-> q.asof]]
    /\ UNCHANGED <<now, policy, allowed>>

\* The query failed or ran into the timeout: a decision denies for a short while, a list is
\* empty for as long as any.
Failed(q) ==
    /\ queries' = queries \ {q}
    /\ cache' = [cache EXCEPT ![q.key] =
          [at |-> IF q.key \in Lists THEN now ELSE now - Ttl + Retry, allowed |-> FALSE, asof |-> now]]
    /\ UNCHANGED <<now, policy, allowed>>

PolicyChanges(key) ==
    /\ policy' = [policy EXCEPT ![key] = ~@] /\ UNCHANGED <<now, cache, queries, allowed>>

\* Time passes; no query outlives its timeout.
Tick ==
    /\ now < MaxTime /\ \A q \in queries : now - q.sent < Timeout
    /\ now' = now + 1 /\ allowed' = {} /\ UNCHANGED <<policy, cache, queries>>

Next ==
    \/ \E k \in Keys : Evaluate(k) \/ PolicyChanges(k)
    \/ \E q \in queries : Decides(q) \/ Answered(q) \/ Failed(q)
    \/ Tick

Spec == Init /\ [][Next]_vars
----------------------------------------------------------------------------
(* What is granted, OPA granted not longer ago than the cache keeps an       *)
(* answer and a query may take together, however the answers overtook each   *)
(* other: "a policy update at OPA is reflected promptly".                    *)
GrantIsRecent == \A a \in allowed : a.at - a.asof < TtlOf(a.key) + Timeout
=============================================================================
