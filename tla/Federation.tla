------------------------------ MODULE Federation ------------------------------
(***************************************************************************)
(* Upstream MCP gateways: UpstreamClient of federation/upstream.ts and     *)
(* FederationRegistry of federation/registry.ts, as index.ts starts them.  *)
(* Every upstream is connected once at boot; its list of tools is cached   *)
(* and asked for again by an interval timer.  A session is built from the  *)
(* cached lists, and a call is routed by the lists as they are then.  What *)
(* an upstream offers is a version of its list, numbered by its changes.   *)
(* A connection that is lost - a socket or a pipe that closed, an HTTP     *)
(* session the upstream forgot - is lost for good: nothing connects again. *)
(***************************************************************************)
EXTENDS Naturals, Sequences, FiniteSets

CONSTANTS
    Environments,   \* values OMCP_FEDERATION_UPSTREAMS may have: sequences of entries
    Offers,         \* upstream name -> version of its list -> set of tools
    Sessions,
    None,
    MaxChanges, MaxAsked, MaxFailures   \* bounds of the model

VARIABLES
    env,            \* what the environment says
    phase,          \* "boot", "up", "closed", or "crashed" when the boot threw
    upstreams,      \* names in the registry, in the order they were added
    status,         \* name -> status of its client
    cache,          \* name -> version of the cached list, or None
    timer,          \* names whose refresh timer runs
    asked,          \* name -> tools/list requests in flight, in the order they were sent
    world,          \* name -> version of the list the upstream has
    session,        \* session -> namespaced tools it registered, or None
    lost,           \* names whose connection is lost
    failures,       \* failures of connections that stand
    crowded         \* history: names with two requests in flight at once

vars == <<env, phase, upstreams, status, cache, timer, asked, world, session, lost, failures, crowded>>

\* parseFederationEnv: an entry without "=", with a bad name or with a scheme nobody
\* speaks is skipped.
Parsed(entries) ==
    LET Usable(e) == e.named /\ e.kind \in {"http", "ws", "stdio"}
    IN  SelectSeq(entries, Usable)

\* FederationRegistry.add throws on a name it has.
Clash(entries) == \E i, j \in DOMAIN entries : i # j /\ entries[i].name = entries[j].name

\* The upstreams there may be.
Names == UNION {{Parsed(entries)[i].name : i \in DOMAIN Parsed(entries)} : entries \in Environments}
Registered == {upstreams[i] : i \in DOMAIN upstreams}

\* getTools: the cached list.
ToolsOf(u) == IF cache[u] = None THEN {} ELSE Offers[u][cache[u]]

\* callNamespacedTool: the upstreams a call of a namespaced tool may go to; none is the
\* error "federated tool not found".
Route(u, tool) == {o \in Registered : o = u /\ tool \in ToolsOf(o)}

Request(by) == [by |-> by, version |-> None]

Init ==
    /\ env \in Environments
    /\ phase = "boot" /\ upstreams = <<>>
    /\ status = [u \in Names |-> "disconnected"]
    /\ cache = [u \in Names |-> None] /\ timer = {}
    /\ asked = [u \in Names |-> <<>>]
    /\ world = [u \in Names |-> 0]
    /\ session = [s \in Sessions |-> None]
    /\ lost = {} /\ failures = 0 /\ crowded = {}

\* The loop of main: one client per entry, its connect begun and not awaited.
Boot ==
    /\ phase = "boot"
    /\ LET entries == Parsed(env)
       IN  IF Clash(entries)
           THEN phase' = "crashed" /\ UNCHANGED <<upstreams, status>>
           ELSE /\ phase' = "up"
                /\ upstreams' = [i \in DOMAIN entries |-> entries[i].name]
                /\ status' = [u \in Names |->
                      IF \E i \in DOMAIN entries : entries[i].name = u THEN "connecting" ELSE "disconnected"]
    /\ UNCHANGED <<env, cache, timer, asked, world, session, lost, failures, crowded>>

\* refresh: tools/list is sent.
Ask(u, by) ==
    /\ asked' = [asked EXCEPT ![u] = Append(@, Request(by))]
    /\ crowded' = IF asked[u] # <<>> THEN crowded \cup {u} ELSE crowded

\* The handshake of connect succeeds, and its refresh begins.
Handshake(u) ==
    /\ phase = "up" /\ status[u] = "connecting" /\ asked[u] = <<>>
    /\ Ask(u, "connect")
    /\ UNCHANGED <<env, phase, upstreams, status, cache, timer, world, session, lost, failures>>

\* The handshake fails: degraded, and nothing connects again.
HandshakeFails(u) ==
    /\ phase = "up" /\ status[u] = "connecting" /\ asked[u] = <<>> /\ failures < MaxFailures
    /\ status' = [status EXCEPT ![u] = "degraded"] /\ failures' = failures + 1
    /\ UNCHANGED <<env, phase, upstreams, cache, timer, asked, world, session, lost, crowded>>

\* The interval of a ready upstream.
RefreshTimer(u) ==
    /\ u \in timer /\ Len(asked[u]) < MaxAsked
    /\ Ask(u, "timer")
    /\ UNCHANGED <<env, phase, upstreams, status, cache, timer, world, session, lost, failures>>

\* The connection is lost after its handshake; neither status, timer nor cache notices.
Disconnects(u) ==
    /\ phase = "up" /\ u \notin lost /\ (u \in timer \/ asked[u] # <<>>)
    /\ lost' = lost \cup {u}
    /\ UNCHANGED <<env, phase, upstreams, status, cache, timer, asked, world, session, failures, crowded>>

\* The upstream takes its list for the i-th request in flight.
Serve(u, i) ==
    /\ u \notin lost /\ asked[u][i].version = None
    /\ asked' = [asked EXCEPT ![u][i].version = world[u]]
    /\ UNCHANGED <<env, phase, upstreams, status, cache, timer, world, session, lost, failures, crowded>>

Without(s, i) == SubSeq(s, 1, i - 1) \o SubSeq(s, i + 1, Len(s))

\* connect goes on after its refresh: ready, and the timer starts.
Connected(u) ==
    /\ status' = [status EXCEPT ![u] = "ready"]
    /\ timer' = timer \cup {u}

\* An answer arrives, in any order, and becomes the cached list.
Listed(u, i) ==
    /\ asked[u][i].version # None
    /\ cache' = [cache EXCEPT ![u] = asked[u][i].version]
    /\ asked' = [asked EXCEPT ![u] = Without(@, i)]
    /\ IF asked[u][i].by = "connect" THEN Connected(u) ELSE UNCHANGED <<status, timer>>
    /\ UNCHANGED <<env, phase, upstreams, world, session, lost, failures, crowded>>

\* A request fails: on a lost connection always, on one that stands now and then.
Fails(u) ==
    \/ u \in lost /\ UNCHANGED failures
    \/ u \notin lost /\ failures < MaxFailures /\ failures' = failures + 1

\* A slip: a failed refresh empties the list.
ListFailsEmpties(u, i) ==
    /\ Fails(u)
    /\ asked' = [asked EXCEPT ![u] = Without(@, i)]
    /\ cache' = [cache EXCEPT ![u] = None]
    /\ status' = IF asked[u][i].by = "connect" THEN [status EXCEPT ![u] = "degraded"] ELSE status
    /\ UNCHANGED <<env, phase, upstreams, timer, world, session, lost, crowded>>

\* A slip: a failed refresh ends the interval.
ListFailsStops(u, i) ==
    /\ Fails(u)
    /\ asked' = [asked EXCEPT ![u] = Without(@, i)]
    /\ timer' = timer \ {u}
    /\ status' = IF asked[u][i].by = "connect" THEN [status EXCEPT ![u] = "degraded"] ELSE status
    /\ UNCHANGED <<env, phase, upstreams, cache, world, session, lost, crowded>>

\* The failure of a request: connect ends degraded, the timer's only warns.
ListFails(u, i) ==
    /\ Fails(u)
    /\ asked' = [asked EXCEPT ![u] = Without(@, i)]
    /\ status' = IF asked[u][i].by = "connect" THEN [status EXCEPT ![u] = "degraded"] ELSE status
    /\ UNCHANGED <<env, phase, upstreams, cache, timer, world, session, lost, crowded>>

UpstreamChanges(u) ==
    /\ phase \in {"boot", "up"} /\ world[u] < MaxChanges
    /\ world' = [world EXCEPT ![u] = @ + 1]
    /\ UNCHANGED <<env, phase, upstreams, status, cache, timer, asked, session, lost, failures, crowded>>

\* createMcpServer registers a proxy for every tool of getNamespacedTools: the lists that
\* are cached now.
OpenSession(s) ==
    /\ phase = "up"
    /\ session' = [session EXCEPT ![s] = [u \in Registered |-> cache[u]]]
    /\ UNCHANGED <<env, phase, upstreams, status, cache, timer, asked, world, lost, failures, crowded>>

\* closeAll, the shutdown hook: timers stop, requests in flight are rejected.
CloseAll ==
    /\ phase = "up"
    /\ phase' = "closed" /\ timer' = {} /\ upstreams' = <<>>
    /\ status' = [u \in Names |-> IF u \in Registered THEN "disconnected" ELSE status[u]]
    /\ asked' = [u \in Names |-> <<>>]
    /\ UNCHANGED <<env, cache, world, session, lost, failures, crowded>>

Answers(u) == \E i \in DOMAIN asked[u] : Serve(u, i) \/ Listed(u, i) \/ ListFails(u, i)

Next ==
    \/ Boot \/ CloseAll
    \/ \E u \in Names :
          \/ Handshake(u) \/ HandshakeFails(u) \/ RefreshTimer(u) \/ UpstreamChanges(u) \/ Disconnects(u)
          \/ \E i \in DOMAIN asked[u] : Serve(u, i) \/ Listed(u, i) \/ ListFails(u, i)
    \/ \E s \in Sessions : OpenSession(s)

\* The interval fires, and an upstream answers what it was asked or the request fails; of
\* a connection that stands only MaxFailures requests do.
Fairness == \A u \in Names : WF_vars(RefreshTimer(u)) /\ WF_vars(Answers(u))

Spec == Init /\ [][Next]_vars /\ Fairness
----------------------------------------------------------------------------
(* A tool that a session registered, and that its upstream has offered ever *)
(* since, is never refused as not found: failed refreshes and other answers *)
(* do not take it away, unless two requests to that upstream were in flight *)
(* at once, or the registry was closed.                                     *)
RegisteredIsRouted ==
    \A s \in Sessions : session[s] # None /\ phase = "up" =>
        \A u \in DOMAIN session[s] \ crowded : session[s][u] # None =>
            \A tool \in Offers[u][session[s][u]] :
                (\A v \in session[s][u] .. world[u] : tool \in Offers[u][v]) => Route(u, tool) # {}

(* Whatever failed before, the list that sessions are built from becomes    *)
(* the list the upstream has, once that no longer changes and as long as    *)
(* the connection stands; also when requests overlapped and answers arrived *)
(* out of order.                                                            *)
CatchesUp == \A u \in Names :
    u \in timer ~> (phase = "closed" \/ u \in lost \/ cache[u] = world[u])
=============================================================================
