--------------------------- MODULE SourceRegistry ---------------------------
(***************************************************************************)
(* ConnectorRegistry of connectors/registry.ts and the routes of index.ts  *)
(* that change it.  A route runs without interruption up to the next       *)
(* connect() or disconnect(), which wait for the backend; other requests   *)
(* run in between.  A source's url, type and metrics are abstracted to the *)
(* identity of its configuration object.                                   *)
(***************************************************************************)
EXTENDS Naturals, FiniteSets

CONSTANTS
    Names,
    Tenants,
    Global,             \* a source without tenant, or an admin's choice of none
    Admin,              \* a caller with users:delete
    Requests,           \* slots for requests in flight
    None,               \* no configuration, connector or source
    MaxObjects,         \* bounds of the model: configuration objects made,
    MaxConnects,        \* connections tried,
    MaxRestarts         \* and restarts

\* A configuration object, and the connector a connection of it made.
Sources == [id : 1 .. MaxObjects, tenant : Tenants \cup {Global}, enabled : BOOLEAN]
Connectors == [source : Sources, id : 0 .. MaxConnects]

ASSUME RegistryAssumption ==
    /\ {Global, Admin, None} \cap (Tenants \cup Names) = {}
    /\ None \notin Sources \cup Connectors
    /\ {MaxObjects, MaxConnects, MaxRestarts} \subseteq Nat

VARIABLES
    sourceConfigs,      \* name -> configuration object, or None
    connectors,         \* name -> connected connector, or None
    listed,             \* config.sources, as of the last save that took it over
    saved,              \* the sources in the configuration file
    request,            \* slot -> what the route in it waits for
    open,               \* connections made and not closed
    objects, connects, restarts,
    overlapped,         \* history: two requests on one name were in flight together
    clobbered           \* history: a rename landed on a name already in use

registry == <<sourceConfigs, connectors>>
counters == <<objects, connects, restarts>>
vars == <<registry, listed, saved, request, open, counters, overlapped, clobbered>>

----------------------------------------------------------------------------
Idle == [at |-> "idle"]

Free(p) == request[p] = Idle

\* Names, tenants and slots are interchangeable.
Swaps(S) == {[w \in S |-> CASE w = u -> v [] w = v -> u [] OTHER -> w] : u, v \in S}
RegistrySymmetry == Swaps(Names) \cup Swaps(Tenants) \cup Swaps(Requests)

Touched(q) == IF Free(q) THEN {} ELSE {request[q].old, request[q].new}

\* validated against the configuration the route has found: a foreign source is a 404.
MayTouch(caller, source) ==
    source # None /\ (caller = Admin \/ source.tenant \in {Global, caller})

\* getByNameForTenant, getByTenant: no configuration counts as global.
Visible(name, tenant) ==
    /\ connectors[name] # None
    /\ sourceConfigs[name] = None \/ sourceConfigs[name].tenant \in {Global, tenant}

----------------------------------------------------------------------------
Init ==
    /\ sourceConfigs = [n \in Names |-> None]
    /\ connectors = [n \in Names |-> None]
    /\ listed = sourceConfigs /\ saved = sourceConfigs
    /\ request = [p \in Requests |-> Idle]
    /\ open = {}
    /\ objects = 0 /\ connects = 0 /\ restarts = 0
    /\ overlapped = FALSE /\ clobbered = FALSE

\* The end of a route: saveConfig.  The metrics routes save the list as it is.
Finish(p, kind) ==
    /\ request' = [request EXCEPT ![p] = Idle]
    /\ listed' = IF kind = "metrics" THEN listed ELSE sourceConfigs'
    /\ saved' = listed'

\* addSource, on a registry whose configurations are base; None only removes.
Add(p, kind, old, new, source, base) ==
    IF source = None
    THEN sourceConfigs' = base /\ UNCHANGED connects /\ Finish(p, kind)
    ELSE /\ sourceConfigs' = [base EXCEPT ![new] = source]
         /\ IF source.enabled
            THEN /\ connects < MaxConnects
                 /\ connects' = connects + 1
                 /\ request' = [request EXCEPT ![p] =
                        [at |-> "connecting", kind |-> kind, old |-> old, new |-> new,
                         source |-> source, connection |-> connects']]
                 /\ UNCHANGED <<listed, saved>>
            ELSE UNCHANGED connects /\ Finish(p, kind)

\* A slip: an update puts the new source over the old one's connection.
ReplaceInPlace(p, kind, old, new, source) ==
    Add(p, kind, old, new, source, [sourceConfigs EXCEPT ![old] = None])

\* updateSource, removeSource: a connected source is disconnected first.
Replace(p, kind, old, new, source) ==
    IF connectors[old] = None
    THEN Add(p, kind, old, new, source, [sourceConfigs EXCEPT ![old] = None])
    ELSE /\ request' = [request EXCEPT ![p] =
                [at |-> "disconnecting", kind |-> kind, old |-> old, new |-> new,
                 source |-> source, connector |-> connectors[old]]]
         /\ UNCHANGED <<sourceConfigs, listed, saved, connects>>

Arrive(p, names) ==
    /\ Free(p)
    /\ overlapped' = (overlapped \/ \E q \in Requests : Touched(q) \cap names # {})
    /\ UNCHANGED <<connectors, open, restarts>>

NewObject(tenant, enabled) == [id |-> objects', tenant |-> tenant, enabled |-> enabled]

\* POST /api/sources: a caller who is no admin creates in his own tenant.
Create(p, caller, name, tenant, enabled) ==
    /\ Arrive(p, {name})
    /\ tenant = caller \/ caller = Admin
    /\ sourceConfigs[name] = None
    /\ objects < MaxObjects /\ objects' = objects + 1
    /\ Add(p, "create", name, name, NewObject(tenant, enabled), sourceConfigs)
    /\ UNCHANGED clobbered

\* PUT /api/sources/:name, which may rename it; only an admin moves it to another tenant.
Update(p, caller, old, new, tenant, enabled) ==
    /\ Arrive(p, {old, new})
    /\ MayTouch(caller, sourceConfigs[old])
    /\ tenant = sourceConfigs[old].tenant \/ caller = Admin
    /\ objects < MaxObjects /\ objects' = objects + 1
    /\ Replace(p, "update", old, new, NewObject(tenant, enabled))
    /\ clobbered' = (clobbered \/ (new # old /\ (sourceConfigs[new] # None \/ connectors[new] # None)))

\* PATCH /api/sources/:name/toggle
Toggle(p, caller, name) ==
    /\ Arrive(p, {name})
    /\ MayTouch(caller, sourceConfigs[name])
    /\ objects < MaxObjects /\ objects' = objects + 1
    /\ Replace(p, "toggle", name, name,
               NewObject(sourceConfigs[name].tenant, ~sourceConfigs[name].enabled))
    /\ UNCHANGED clobbered

\* PUT and DELETE /api/sources/:name/metrics: the object is found in the list, not in
\* the registry, changed in place and put back.
Remeasure(p, caller, name) ==
    /\ Arrive(p, {name})
    /\ MayTouch(caller, listed[name])
    /\ Replace(p, "metrics", name, name, listed[name])
    /\ UNCHANGED <<objects, clobbered>>

\* DELETE /api/sources/:name
Delete(p, caller, name) ==
    /\ Arrive(p, {name})
    /\ MayTouch(caller, sourceConfigs[name])
    /\ Replace(p, "delete", name, name, None)
    /\ UNCHANGED <<objects, clobbered>>

\* A slip: the closed connector stays under its name.
DisconnectedKeeping(p) ==
    /\ request[p].at = "disconnecting"
    /\ LET r == request[p]
       IN  /\ open' = open \ {r.connector}
           /\ Add(p, r.kind, r.old, r.new, r.source, [sourceConfigs EXCEPT ![r.old] = None])
    /\ UNCHANGED <<connectors, objects, restarts, overlapped, clobbered>>

\* The backend is disconnected: whatever is registered under the name now goes.
Disconnected(p) ==
    /\ request[p].at = "disconnecting"
    /\ LET r == request[p]
       IN  /\ connectors' = [connectors EXCEPT ![r.old] = None]
           /\ open' = open \ {r.connector}
           /\ Add(p, r.kind, r.old, r.new, r.source, [sourceConfigs EXCEPT ![r.old] = None])
    /\ UNCHANGED <<objects, restarts, overlapped, clobbered>>

\* connect() succeeds, and the connector takes the name; or it fails and is dropped.
Connected(p, ok) ==
    /\ request[p].at = "connecting"
    /\ LET r == request[p]
           connector == [source |-> r.source, id |-> r.connection]
       IN  /\ connectors' = IF ok THEN [connectors EXCEPT ![r.new] = connector] ELSE connectors
           /\ open' = IF ok THEN open \cup {connector} ELSE open
           /\ sourceConfigs' = sourceConfigs
           /\ Finish(p, r.kind)
    /\ UNCHANGED <<counters, overlapped, clobbered>>

\* The process ends; the next one reads the file and connects what is enabled,
\* as far as the backends answer, before it listens.
Restart(answering) ==
    /\ restarts < MaxRestarts /\ restarts' = restarts + 1
    /\ sourceConfigs' = saved /\ listed' = saved
    /\ connectors' = [n \in Names |->
           IF saved[n] # None /\ saved[n].enabled /\ n \in answering
           THEN [source |-> saved[n], id |-> 0] ELSE None]
    /\ open' = {connectors'[n] : n \in Names} \ {None}
    /\ request' = [p \in Requests |-> Idle]
    /\ overlapped' = FALSE /\ clobbered' = FALSE
    /\ UNCHANGED <<saved, objects, connects>>

Next ==
    \/ \E p \in Requests, caller \in Tenants \cup {Admin}, n \in Names :
          \/ \E t \in Tenants \cup {Global}, e \in BOOLEAN :
                \/ Create(p, caller, n, t, e)
                \/ \E m \in Names : Update(p, caller, n, m, t, e)
          \/ Toggle(p, caller, n) \/ Remeasure(p, caller, n) \/ Delete(p, caller, n)
    \/ \E p \in Requests : Disconnected(p) \/ \E ok \in BOOLEAN : Connected(p, ok)
    \/ \E answering \in SUBSET Names : Restart(answering)

Spec == Init /\ [][Next]_vars

----------------------------------------------------------------------------
Settled == \A p \in Requests : Free(p)

(* Types; and only an enabled source is ever connected. *)
TypeOK ==
    /\ {sourceConfigs, listed, saved} \subseteq [Names -> Sources \cup {None}]
    /\ connectors \in [Names -> Connectors \cup {None}]
    /\ open \subseteq {c \in Connectors : c.source.enabled}
    /\ \A p \in Requests : Free(p) \/ request[p].at \in {"connecting", "disconnecting"}
    /\ objects <= MaxObjects /\ connects <= MaxConnects /\ restarts <= MaxRestarts
    /\ overlapped \in BOOLEAN /\ clobbered \in BOOLEAN

(* When all requests are through, and none of them shared a name with       *)
(* another one in flight or was renamed onto a name in use, every connector *)
(* was connected with the configuration its name has now, and no connection *)
(* is open that no name leads to.                                           *)
SettledConnections ==
    Settled /\ ~overlapped /\ ~clobbered =>
        /\ \A n \in Names : connectors[n] # None => sourceConfigs[n] = connectors[n].source
        /\ open = {connectors[n] : n \in Names} \ {None}

(* Requests on different names may overlap at will, each saving the whole   *)
(* list with the others half done: when all are through, the file, the list *)
(* the settings routes save and the registry agree, so that a restart       *)
(* brings back what the API showed.                                         *)
SettledFile == Settled /\ ~overlapped => saved = sourceConfigs /\ listed = sourceConfigs

(* States are of their types, and when all requests are through the         *)
(* connections, the file, the settings' list and the registry agree        *)
(* (connectors/registry.ts, index.ts).                                      *)
SettledAgree == TypeOK /\ SettledConnections /\ SettledFile

(* A tenant resolves a name only to a connector of a source of its own or   *)
(* of a global one, in the middle of any update, as long as the requests    *)
(* under way are on different names.                                        *)
GateHoldsApart ==
    ~overlapped /\ ~clobbered =>
        \A n \in Names, t \in Tenants :
            Visible(n, t) => connectors[n].source.tenant \in {Global, t}

(* The gate as its comment states it: whoever runs concurrently, a source   *)
(* of one tenant resolves for no other.                                     *)
TenantGate ==
    \A n \in Names, t \in Tenants :
        Visible(n, t) => connectors[n].source.tenant \in {Global, t}
=============================================================================
