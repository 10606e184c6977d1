------------------------ MODULE SourceRegistry_proofs ------------------------
(***************************************************************************)
(* The registry of sources, for any names, tenants and number of requests  *)
(* in flight.  What the gate and the settled states need is not inductive: *)
(* it is added what a request that waits for a backend has left behind,    *)
(* and that no configuration object is ever found under two names.         *)
(***************************************************************************)
EXTENDS SourceRegistry, TLAPS

Kinds == {"create", "update", "toggle", "metrics", "delete"}
Live == {s \in Sources : s.enabled}
LiveConnectors == {c \in Connectors : c.source.enabled}

\* What a request in flight keeps while it waits.
Connecting ==
    [at : {"connecting"}, kind : Kinds, old : Names, new : Names,
     source : Live, connection : 1 .. MaxConnects]
Disconnecting ==
    [at : {"disconnecting"}, kind : Kinds, old : Names, new : Names,
     source : Sources \cup {None}, connector : LiveConnectors]

RTyped ==
    /\ sourceConfigs \in [Names -> Sources \cup {None}]
    /\ listed \in [Names -> Sources \cup {None}]
    /\ saved = listed
    /\ connectors \in [Names -> LiveConnectors \cup {None}]
    /\ open \subseteq LiveConnectors
    /\ request \in [Requests -> {Idle} \cup Connecting \cup Disconnecting]
    /\ objects \in 0 .. MaxObjects /\ connects \in 0 .. MaxConnects /\ restarts \in 0 .. MaxRestarts
    /\ overlapped \in BOOLEAN /\ clobbered \in BOOLEAN

\* A configuration object of a name, wherever it is kept.
Holds(n, s) ==
    /\ s # None
    /\ \/ s = sourceConfigs[n] \/ s = listed[n]
       \/ connectors[n] # None /\ s = connectors[n].source
       \/ \E p \in Requests : ~Free(p) /\ request[p].new = n /\ s = request[p].source

\* An object is made for one name, and stays there.
OneName ==
    /\ \A n \in Names : \A s \in Sources : Holds(n, s) => s.id <= objects
    /\ \A n, m \in Names : \A s, t \in Sources : Holds(n, s) /\ Holds(m, t) /\ s.id = t.id => n = m

\* Requests in flight are on names of their own.
OwnNames == ~overlapped => \A p, q \in Requests : p # q => Touched(p) \cap Touched(q) = {}

\* The list and the registry differ only on the names of requests in flight, and a change
\* of metrics puts back what both have.
Filed ==
    ~overlapped =>
        /\ \A n \in Names : (\A p \in Requests : n \notin Touched(p)) => listed[n] = sourceConfigs[n]
        /\ \A p \in Requests : ~Free(p) /\ request[p].kind = "metrics" =>
              /\ request[p].old = request[p].new /\ request[p].source # None
              /\ listed[request[p].old] = request[p].source
              /\ sourceConfigs[request[p].old] = request[p].source

\* Where a request waits: the old connector is still registered, or both names are free of
\* connectors and the new one has its configuration.
Waits(p) ==
    LET r == request[p] IN
    /\ r.at = "disconnecting" =>
          /\ connectors[r.old] = r.connector
          /\ r.new # r.old => connectors[r.new] = None
    /\ r.at = "connecting" =>
          /\ connectors[r.old] = None /\ connectors[r.new] = None
          /\ sourceConfigs[r.new] = r.source

Linked ==
    ~overlapped /\ ~clobbered =>
        /\ \A n \in Names : connectors[n] # None => sourceConfigs[n] = connectors[n].source
        /\ open = {connectors[n] : n \in Names} \ {None}
        /\ \A p \in Requests : Waits(p)

RegistryIInv == RTyped /\ OneName /\ OwnNames /\ Filed /\ Linked

USE RegistryAssumption
-----------------------------------------------------------------------------
\* What a request in flight is, and what it touches.
LEMMA RequestTypes ==
    ASSUME RTyped, NEW p \in Requests
    PROVE  /\ Free(p) => Touched(p) = {}
           /\ ~Free(p) => /\ request[p] \in Connecting \cup Disconnecting
                          /\ request[p].kind \in Kinds
                          /\ request[p].old \in Names /\ request[p].new \in Names
                          /\ request[p].source \in Sources \cup {None}
                          /\ Touched(p) = {request[p].old, request[p].new}
           /\ request[p].at = "connecting" => ~Free(p) /\ request[p] \in Connecting
           /\ request[p].at = "disconnecting" => ~Free(p) /\ request[p] \in Disconnecting
BY DEF RTyped, Free, Touched, Idle, Connecting, Disconnecting, Live

\* What addSource leaves behind, on the configurations without the old name's.
Lands(p, kind, old, new, source) ==
    /\ sourceConfigs' \in [Names -> Sources \cup {None}]
    /\ \A n \in Names : sourceConfigs'[n] =
          IF n = new /\ source # None THEN source ELSE IF n = old THEN None ELSE sourceConfigs[n]
    /\ saved' = listed' /\ connects' \in 0 .. MaxConnects
    /\ listed' \in [Names -> Sources \cup {None}]
    /\ \/ /\ request' = [request EXCEPT ![p] = Idle]
          /\ listed' = IF kind = "metrics" THEN listed ELSE sourceConfigs'
       \/ /\ source \in Live /\ listed' = listed
          /\ \E c \in 1 .. MaxConnects :
                request' = [request EXCEPT ![p] =
                   [at |-> "connecting", kind |-> kind, old |-> old, new |-> new,
                    source |-> source, connection |-> c]]

LEMMA AddLands ==
    ASSUME RTyped, NEW p \in Requests, NEW kind \in Kinds, NEW old \in Names, NEW new \in Names,
           NEW source \in Sources \cup {None},
           Add(p, kind, old, new, source, [sourceConfigs EXCEPT ![old] = None])
    PROVE  Lands(p, kind, old, new, source)
<1>1. CASE source = None
  BY <1>1 DEF Add, Finish, RTyped, Lands
<1>2. CASE source # None /\ source.enabled
  <2>1. /\ sourceConfigs' = [[sourceConfigs EXCEPT ![old] = None] EXCEPT ![new] = source]
        /\ connects < MaxConnects /\ connects' = connects + 1
        /\ request' = [request EXCEPT ![p] = [at |-> "connecting", kind |-> kind, old |-> old, new |-> new,
                                              source |-> source, connection |-> connects']]
        /\ listed' = listed /\ saved' = saved
    BY <1>2 DEF Add
  <2>2. connects' \in 1 .. MaxConnects /\ connects' \in 0 .. MaxConnects /\ source \in Live
    BY <1>2, <2>1 DEF RTyped, Live
  <2>3. /\ sourceConfigs' \in [Names -> Sources \cup {None}]
        /\ \A n \in Names : sourceConfigs'[n] =
              IF n = new /\ source # None THEN source ELSE IF n = old THEN None ELSE sourceConfigs[n]
    BY <1>2, <2>1 DEF RTyped
  <2>4. saved' = listed' /\ listed' \in [Names -> Sources \cup {None}]
    BY <2>1 DEF RTyped
  <2>5. \E c \in 1 .. MaxConnects :
           request' = [request EXCEPT ![p] = [at |-> "connecting", kind |-> kind, old |-> old, new |-> new,
                                              source |-> source, connection |-> c]]
    BY <2>1, <2>2
  <2> QED
    BY <2>1, <2>2, <2>3, <2>4, <2>5 DEF Lands
<1>3. CASE source # None /\ ~source.enabled
  BY <1>3 DEF Add, Finish, RTyped, Lands
<1> QED
  BY <1>1, <1>2, <1>3

\* Connectors of different names are different: their configurations are.
LEMMA NoConnectorTwice ==
    ASSUME RTyped, OneName, NEW n \in Names, NEW m \in Names, connectors[n] # None,
           connectors[n] = connectors[m]
    PROVE  n = m
<1>1. connectors[n].source \in Sources /\ connectors[n].source # None
  BY DEF RTyped, LiveConnectors, Connectors
<1>2. Holds(n, connectors[n].source) /\ Holds(m, connectors[n].source)
  BY <1>1 DEF Holds
<1> QED
  BY <1>1, <1>2 DEF OneName

\* addSource on the way to an invariant state: from a route that has just begun, or from one
\* whose old connection was closed in the same step.
LEMMA AddPreserves ==
    ASSUME RegistryIInv, NEW p \in Requests, NEW kind \in Kinds, NEW old \in Names, NEW new \in Names,
           NEW source \in Sources \cup {None},
           Add(p, kind, old, new, source, [sourceConfigs EXCEPT ![old] = None]),
           connectors' \in [Names -> LiveConnectors \cup {None}],
           \A n \in Names : connectors'[n] \in {None, connectors[n]},
           open' \subseteq open,
           objects' \in 0 .. MaxObjects, objects <= objects', restarts' = restarts,
           overlapped' \in BOOLEAN, clobbered' \in BOOLEAN,
           source # None => Holds(new, source) \/ (source.id = objects' /\ objects' = objects + 1),
           ~overlapped' => /\ ~overlapped
                           /\ \A q \in Requests \ {p} : Touched(q) \cap {old, new} = {},
           ~overlapped' /\ kind = "metrics" =>
              /\ old = new /\ source # None
              /\ listed[old] = source /\ sourceConfigs[old] = source,
           ~overlapped' /\ ~Free(p) =>
              kind = request[p].kind /\ Touched(p) \subseteq {old, new},
           ~overlapped' /\ ~clobbered' =>
              /\ ~clobbered
              /\ connectors' = [connectors EXCEPT ![old] = None] /\ open' = open \ {connectors[old]}
              /\ new # old => connectors[new] = None
    PROVE  RegistryIInv'
<1>1. RTyped /\ OneName /\ OwnNames /\ Filed /\ Linked
  BY DEF RegistryIInv
<1>0. Lands(p, kind, old, new, source)
  BY <1>1, AddLands
<1>2. /\ sourceConfigs' \in [Names -> Sources \cup {None}]
      /\ \A n \in Names : sourceConfigs'[n] =
            IF n = new /\ source # None THEN source ELSE IF n = old THEN None ELSE sourceConfigs[n]
      /\ saved' = listed' /\ connects' \in 0 .. MaxConnects
      /\ listed' \in [Names -> Sources \cup {None}]
  BY <1>0 DEF Lands
<1>3. CASE /\ request' = [request EXCEPT ![p] = Idle]
           /\ listed' = IF kind = "metrics" THEN listed ELSE sourceConfigs'
  <2>1. RTyped'
    BY <1>1, <1>2, <1>3 DEF RTyped
  <2>2. \A q \in Requests : /\ q # p => request'[q] = request[q] /\ Free(q)' = Free(q) /\ Touched(q)' = Touched(q)
                            /\ q = p => Free(q)' /\ Touched(q)' = {}
    BY <1>1, <1>3 DEF RTyped, Free, Touched
  <2>3. ASSUME NEW n \in Names, NEW s \in Sources, Holds(n, s)'
        PROVE  Holds(n, s) \/ (n = new /\ s = source)
    BY <1>1, <1>2, <1>3, <2>2, <2>3 DEF Holds
  <2>4. OneName'
    BY <1>1, <2>3 DEF OneName, RTyped, Sources
  <2>5. OwnNames'
    BY <1>1, <2>2 DEF OwnNames
  <2>6. Filed'
    <3> SUFFICES ASSUME ~overlapped'
                 PROVE  /\ \A n \in Names : (\A q \in Requests : n \notin Touched(q)') => listed'[n] = sourceConfigs'[n]
                        /\ \A q \in Requests : ~Free(q)' /\ request'[q].kind = "metrics" =>
                              /\ request'[q].old = request'[q].new /\ request'[q].source # None
                              /\ listed'[request'[q].old] = request'[q].source
                              /\ sourceConfigs'[request'[q].old] = request'[q].source
      BY DEF Filed
    <3>1. ASSUME NEW n \in Names, \A q \in Requests : n \notin Touched(q)'
          PROVE  listed'[n] = sourceConfigs'[n]
      <4>1. CASE kind # "metrics"
        BY <1>3, <4>1
      <4>2. CASE kind = "metrics" /\ n = new
        BY <1>2, <1>3, <4>2
      <4>3. CASE kind = "metrics" /\ n # new
        <5>1. \A q \in Requests : n \notin Touched(q)
          BY <1>1, <2>2, <3>1, <4>3, RequestTypes
        <5> QED
          BY <1>1, <1>2, <1>3, <4>3, <5>1 DEF Filed
      <4> QED
        BY <4>1, <4>2, <4>3
    <3>2. ASSUME NEW q \in Requests, ~Free(q)', request'[q].kind = "metrics"
          PROVE  /\ request'[q].old = request'[q].new /\ request'[q].source # None
                 /\ listed'[request'[q].old] = request'[q].source
                 /\ sourceConfigs'[request'[q].old] = request'[q].source
      <4>1. q # p /\ request'[q] = request[q] /\ ~Free(q)
        BY <2>2, <3>2
      <4>2. request[q].old \in Names /\ request[q].old \notin {old, new}
        BY <1>1, <4>1, RequestTypes
      <4> QED
        BY <1>1, <1>2, <1>3, <3>2, <4>1, <4>2 DEF Filed
    <3> QED
      BY <3>1, <3>2
  <2>7. Linked'
    <3> SUFFICES ASSUME ~overlapped', ~clobbered'
                 PROVE  /\ \A n \in Names : connectors'[n] # None => sourceConfigs'[n] = connectors'[n].source
                        /\ open' = {connectors'[n] : n \in Names} \ {None}
                        /\ \A q \in Requests : Waits(q)'
      BY DEF Linked
    <3>1. /\ \A n \in Names : connectors[n] # None => sourceConfigs[n] = connectors[n].source
          /\ open = {connectors[n] : n \in Names} \ {None}
          /\ \A q \in Requests : Waits(q)
          /\ connectors' = [connectors EXCEPT ![old] = None] /\ open' = open \ {connectors[old]}
          /\ new # old => connectors[new] = None
      BY <1>1 DEF Linked
    <3>2. ASSUME NEW n \in Names, connectors'[n] # None
          PROVE  sourceConfigs'[n] = connectors'[n].source
      BY <1>1, <1>2, <3>1, <3>2 DEF RTyped
    <3>3. open' = {connectors'[n] : n \in Names} \ {None}
      BY <1>1, <3>1, NoConnectorTwice DEF RTyped
    <3>4. ASSUME NEW q \in Requests
          PROVE  Waits(q)'
      <4>1. CASE q = p
        BY <1>1, <1>3, <4>1 DEF Waits, RTyped, Idle
      <4>2. CASE q # p
        <5>1. request'[q] = request[q]
          BY <2>2, <4>2
        <5>2. ~Free(q) => request[q].old \notin {old, new} /\ request[q].new \notin {old, new}
          BY <1>1, <4>2, RequestTypes
        <5> QED
          BY <1>1, <1>2, <3>1, <5>1, <5>2, RequestTypes DEF Waits, RTyped
      <4> QED
        BY <4>1, <4>2
    <3> QED
      BY <3>2, <3>3, <3>4
  <2> QED
    BY <2>1, <2>4, <2>5, <2>6, <2>7 DEF RegistryIInv
<1>4. ASSUME NEW c \in 1 .. MaxConnects, source \in Live, listed' = listed,
             request' = [request EXCEPT ![p] = [at |-> "connecting", kind |-> kind, old |-> old, new |-> new,
                                                source |-> source, connection |-> c]]
      PROVE  RegistryIInv'
  <2>1. RTyped'
    BY <1>1, <1>2, <1>4 DEF RTyped, Connecting
  <2>2. \A q \in Requests : /\ q # p => request'[q] = request[q] /\ Free(q)' = Free(q) /\ Touched(q)' = Touched(q)
                            /\ q = p => ~Free(q)' /\ Touched(q)' = {old, new}
    BY <1>1, <1>4 DEF RTyped, Free, Touched, Idle
  <2>3. ASSUME NEW n \in Names, NEW s \in Sources, Holds(n, s)'
        PROVE  Holds(n, s) \/ (n = new /\ s = source)
    BY <1>1, <1>2, <1>4, <2>2, <2>3 DEF Holds, RTyped
  <2>4. OneName'
    BY <1>1, <2>3 DEF OneName, RTyped, Sources
  <2>5. OwnNames'
    BY <1>1, <2>2 DEF OwnNames
  <2>6. Filed'
    <3> SUFFICES ASSUME ~overlapped'
                 PROVE  /\ \A n \in Names : (\A q \in Requests : n \notin Touched(q)') => listed'[n] = sourceConfigs'[n]
                        /\ \A q \in Requests : ~Free(q)' /\ request'[q].kind = "metrics" =>
                              /\ request'[q].old = request'[q].new /\ request'[q].source # None
                              /\ listed'[request'[q].old] = request'[q].source
                              /\ sourceConfigs'[request'[q].old] = request'[q].source
      BY DEF Filed
    <3>1. ASSUME NEW n \in Names, \A q \in Requests : n \notin Touched(q)'
          PROVE  listed'[n] = sourceConfigs'[n]
      <4>1. n \notin {old, new} /\ \A q \in Requests : n \notin Touched(q)
        BY <1>1, <2>2, <3>1, RequestTypes
      <4> QED
        BY <1>1, <1>2, <1>4, <4>1 DEF Filed
    <3>2. ASSUME NEW q \in Requests, ~Free(q)', request'[q].kind = "metrics"
          PROVE  /\ request'[q].old = request'[q].new /\ request'[q].source # None
                 /\ listed'[request'[q].old] = request'[q].source
                 /\ sourceConfigs'[request'[q].old] = request'[q].source
      <4>1. CASE q = p
        BY <1>1, <1>2, <1>4, <3>2, <4>1 DEF RTyped
      <4>2. CASE q # p
        <5>1. request'[q] = request[q] /\ ~Free(q)
          BY <2>2, <3>2, <4>2
        <5>2. request[q].old \in Names /\ request[q].old \notin {old, new}
          BY <1>1, <4>2, <5>1, RequestTypes
        <5> QED
          BY <1>1, <1>2, <1>4, <3>2, <5>1, <5>2 DEF Filed
      <4> QED
        BY <4>1, <4>2
    <3> QED
      BY <3>1, <3>2
  <2>7. Linked'
    <3> SUFFICES ASSUME ~overlapped', ~clobbered'
                 PROVE  /\ \A n \in Names : connectors'[n] # None => sourceConfigs'[n] = connectors'[n].source
                        /\ open' = {connectors'[n] : n \in Names} \ {None}
                        /\ \A q \in Requests : Waits(q)'
      BY DEF Linked
    <3>1. /\ \A n \in Names : connectors[n] # None => sourceConfigs[n] = connectors[n].source
          /\ open = {connectors[n] : n \in Names} \ {None}
          /\ \A q \in Requests : Waits(q)
          /\ connectors' = [connectors EXCEPT ![old] = None] /\ open' = open \ {connectors[old]}
          /\ new # old => connectors[new] = None
      BY <1>1 DEF Linked
    <3>2. ASSUME NEW n \in Names, connectors'[n] # None
          PROVE  sourceConfigs'[n] = connectors'[n].source
      BY <1>1, <1>2, <3>1, <3>2 DEF RTyped
    <3>3. open' = {connectors'[n] : n \in Names} \ {None}
      BY <1>1, <3>1, NoConnectorTwice DEF RTyped
    <3>4. ASSUME NEW q \in Requests
          PROVE  Waits(q)'
      <4>1. CASE q = p
        BY <1>1, <1>2, <1>4, <3>1, <4>1 DEF Waits, RTyped, Live
      <4>2. CASE q # p
        <5>1. request'[q] = request[q]
          BY <2>2, <4>2
        <5>2. ~Free(q) => request[q].old \notin {old, new} /\ request[q].new \notin {old, new}
          BY <1>1, <4>2, RequestTypes
        <5> QED
          BY <1>1, <1>2, <3>1, <5>1, <5>2, RequestTypes DEF Waits, RTyped
      <4> QED
        BY <4>1, <4>2
    <3> QED
      BY <3>2, <3>3, <3>4
  <2> QED
    BY <2>1, <2>4, <2>5, <2>6, <2>7 DEF RegistryIInv
<1> QED
  BY <1>0, <1>3, <1>4 DEF Lands

\* A route that replaces a source disconnects the old one first, if it is connected.
LEMMA ReplacePreserves ==
    ASSUME RegistryIInv, NEW p \in Requests, NEW kind \in Kinds, NEW old \in Names, NEW new \in Names,
           NEW source \in Sources \cup {None},
           Arrive(p, {old, new}), Replace(p, kind, old, new, source),
           objects' \in 0 .. MaxObjects, objects <= objects', clobbered' \in BOOLEAN,
           source # None => Holds(new, source) \/ (source.id = objects' /\ objects' = objects + 1),
           kind = "metrics" => old = new /\ source # None /\ source = listed[old],
           ~clobbered' => ~clobbered /\ (new # old => connectors[new] = None)
    PROVE  RegistryIInv'
<1>1. RTyped /\ OneName /\ OwnNames /\ Filed /\ Linked
  BY DEF RegistryIInv
<1>2. /\ Free(p) /\ Touched(p) = {}
      /\ UNCHANGED <<connectors, open, restarts>>
      /\ overlapped' \in BOOLEAN
      /\ ~overlapped' => ~overlapped /\ \A q \in Requests : Touched(q) \cap {old, new} = {}
  BY <1>1 DEF Arrive, RTyped, Touched
<1>3. ~overlapped' /\ kind = "metrics" =>
          old = new /\ source # None /\ listed[old] = source /\ sourceConfigs[old] = source
  BY <1>1, <1>2 DEF Filed
<1>4. CASE connectors[old] = None
  <2>1. Add(p, kind, old, new, source, [sourceConfigs EXCEPT ![old] = None])
    BY <1>4 DEF Replace
  <2>2. /\ connectors' = [connectors EXCEPT ![old] = None]
        /\ connectors' \in [Names -> LiveConnectors \cup {None}]
        /\ \A n \in Names : connectors'[n] \in {None, connectors[n]}
    BY <1>1, <1>2, <1>4 DEF RTyped
  <2>3. open' \subseteq open /\ open' = open \ {connectors[old]}
    BY <1>1, <1>2, <1>4 DEF RTyped, LiveConnectors
  <2> QED
    BY <1>2, <1>3, <2>1, <2>2, <2>3, AddPreserves
<1>5. CASE connectors[old] # None
  <2> DEFINE r == [at |-> "disconnecting", kind |-> kind, old |-> old, new |-> new,
                   source |-> source, connector |-> connectors[old]]
  <2>1. request' = [request EXCEPT ![p] = r] /\ UNCHANGED <<sourceConfigs, listed, saved, connects>>
    BY <1>5 DEF Replace
  <2>2. r \in Disconnecting
    BY <1>1, <1>5 DEF RTyped, Disconnecting
  <2>3. \A q \in Requests : /\ q # p => request'[q] = request[q] /\ Free(q)' = Free(q) /\ Touched(q)' = Touched(q)
                            /\ q = p => ~Free(q)' /\ Touched(q)' = {old, new}
    BY <1>1, <2>1 DEF RTyped, Free, Touched, Idle
  <2>4. RTyped'
    BY <1>1, <1>2, <2>1, <2>2 DEF RTyped
  <2>5. ASSUME NEW n \in Names, NEW s \in Sources, Holds(n, s)'
        PROVE  Holds(n, s) \/ (n = new /\ s = source)
    BY <1>1, <1>2, <2>1, <2>3, <2>5 DEF Holds, RTyped
  <2>6. OneName'
    BY <1>1, <2>5 DEF OneName, RTyped, Sources
  <2>7. OwnNames'
    BY <1>1, <1>2, <2>3 DEF OwnNames
  <2>8. Filed'
    BY <1>1, <1>2, <1>3, <2>1, <2>3 DEF Filed, RTyped
  <2>9. Linked'
    <3> SUFFICES ASSUME ~overlapped', ~clobbered'
                 PROVE  \A q \in Requests : Waits(q)'
      BY <1>1, <1>2, <2>1 DEF Linked
    <3>1. \A q \in Requests : Waits(q)
      BY <1>1, <1>2 DEF Linked
    <3> QED
      BY <1>1, <1>2, <2>1, <2>3, <3>1 DEF Waits, RTyped
  <2> QED
    BY <2>4, <2>6, <2>7, <2>8, <2>9 DEF RegistryIInv
<1> QED
  BY <1>4, <1>5

\* A new configuration object, as the routes make it.
LEMMA NewObjectTyped ==
    ASSUME RTyped, NEW t \in Tenants \cup {Global}, NEW e \in BOOLEAN,
           objects < MaxObjects, objects' = objects + 1
    PROVE  /\ NewObject(t, e) \in Sources
           /\ NewObject(t, e).id = objects' /\ objects' \in 0 .. MaxObjects /\ objects <= objects'
BY DEF RTyped, NewObject, Sources

LEMMA CreatePreserves ==
    ASSUME RegistryIInv, NEW p \in Requests, NEW caller, NEW n \in Names,
           NEW t \in Tenants \cup {Global}, NEW e \in BOOLEAN, Create(p, caller, n, t, e)
    PROVE  RegistryIInv'
<1>1. RTyped /\ OneName /\ OwnNames /\ Filed /\ Linked
  BY DEF RegistryIInv
<1>2. /\ Free(p) /\ Touched(p) = {}
      /\ UNCHANGED <<connectors, open, restarts, clobbered>>
      /\ overlapped' \in BOOLEAN
      /\ ~overlapped' => ~overlapped /\ \A q \in Requests : Touched(q) \cap {n, n} = {}
  BY <1>1 DEF Create, Arrive, RTyped, Touched
<1>3. /\ NewObject(t, e) \in Sources
      /\ NewObject(t, e).id = objects' /\ objects' = objects + 1
      /\ objects' \in 0 .. MaxObjects /\ objects <= objects'
  BY <1>1, NewObjectTyped DEF Create
<1>4. sourceConfigs = [sourceConfigs EXCEPT ![n] = None]
  BY <1>1 DEF Create, RTyped
<1>5. Add(p, "create", n, n, NewObject(t, e), [sourceConfigs EXCEPT ![n] = None])
  BY <1>4 DEF Create
<1>6. /\ connectors' \in [Names -> LiveConnectors \cup {None}] /\ clobbered' \in BOOLEAN
      /\ \A m \in Names : connectors'[m] \in {None, connectors[m]}
      /\ open' \subseteq open
  BY <1>1, <1>2 DEF RTyped
<1>7. ~overlapped' /\ ~clobbered' =>
          ~clobbered /\ connectors' = [connectors EXCEPT ![n] = None] /\ open' = open \ {connectors[n]}
  <2> SUFFICES ASSUME ~overlapped', ~clobbered'
               PROVE  connectors' = [connectors EXCEPT ![n] = None] /\ open' = open \ {connectors[n]}
    BY <1>2
  <2>1. sourceConfigs[n] = None
    BY DEF Create
  <2>2. connectors[n] = None
    BY <1>1, <1>2, <2>1 DEF Linked, RTyped, LiveConnectors, Connectors
  <2> QED
    BY <1>1, <1>2, <2>2 DEF RTyped, LiveConnectors
<1>8. "create" \in Kinds
  BY DEF Kinds
<1> QED
  BY <1>2, <1>3, <1>5, <1>6, <1>7, <1>8, AddPreserves

LEMMA UpdatePreserves ==
    ASSUME RegistryIInv, NEW p \in Requests, NEW caller, NEW old \in Names, NEW new \in Names,
           NEW t \in Tenants \cup {Global}, NEW e \in BOOLEAN, Update(p, caller, old, new, t, e)
    PROVE  RegistryIInv'
<1>1. RTyped
  BY DEF RegistryIInv
<1>2. /\ NewObject(t, e) \in Sources
      /\ NewObject(t, e).id = objects' /\ objects' = objects + 1
      /\ objects' \in 0 .. MaxObjects /\ objects <= objects'
  BY <1>1, NewObjectTyped DEF Update
<1>3. /\ Arrive(p, {old, new}) /\ Replace(p, "update", old, new, NewObject(t, e))
      /\ clobbered' \in BOOLEAN
      /\ ~clobbered' => ~clobbered /\ (new # old => connectors[new] = None)
  BY <1>1 DEF Update, RTyped
<1> QED
  BY <1>2, <1>3, ReplacePreserves DEF Kinds

LEMMA TogglePreserves ==
    ASSUME RegistryIInv, NEW p \in Requests, NEW caller, NEW n \in Names, Toggle(p, caller, n)
    PROVE  RegistryIInv'
<1> DEFINE t == sourceConfigs[n].tenant
           e == ~sourceConfigs[n].enabled
<1>1. RTyped
  BY DEF RegistryIInv
<1>2. t \in Tenants \cup {Global} /\ e \in BOOLEAN
  BY <1>1 DEF Toggle, MayTouch, RTyped, Sources
<1>3. /\ Arrive(p, {n, n}) /\ Replace(p, "toggle", n, n, NewObject(t, e))
      /\ objects < MaxObjects /\ objects' = objects + 1
      /\ clobbered' \in BOOLEAN /\ clobbered' = clobbered
  <2>1. {n} = {n, n}
    OBVIOUS
  <2> QED
    BY <1>1, <2>1 DEF Toggle, RTyped
<1> HIDE DEF t, e
<1>4. /\ NewObject(t, e) \in Sources
      /\ NewObject(t, e).id = objects' /\ objects' \in 0 .. MaxObjects /\ objects <= objects'
  BY <1>1, <1>2, <1>3, NewObjectTyped
<1> QED
  BY <1>3, <1>4, ReplacePreserves DEF Kinds

LEMMA RemeasurePreserves ==
    ASSUME RegistryIInv, NEW p \in Requests, NEW caller, NEW n \in Names, Remeasure(p, caller, n)
    PROVE  RegistryIInv'
<1>1. RTyped
  BY DEF RegistryIInv
<1>2. {n} = {n, n}
  OBVIOUS
<1>3. /\ Arrive(p, {n, n}) /\ Replace(p, "metrics", n, n, listed[n])
      /\ listed[n] \in Sources /\ listed[n] # None
      /\ objects' = objects /\ objects' \in 0 .. MaxObjects /\ objects <= objects'
      /\ clobbered' = clobbered /\ clobbered' \in BOOLEAN
  BY <1>1, <1>2 DEF Remeasure, MayTouch, RTyped
<1>4. Holds(n, listed[n])
  BY <1>3 DEF Holds
<1> QED
  BY <1>3, <1>4, ReplacePreserves DEF Kinds

LEMMA DeletePreserves ==
    ASSUME RegistryIInv, NEW p \in Requests, NEW caller, NEW n \in Names, Delete(p, caller, n)
    PROVE  RegistryIInv'
<1>1. RTyped
  BY DEF RegistryIInv
<1>2. {n} = {n, n}
  OBVIOUS
<1>3. /\ Arrive(p, {n, n}) /\ Replace(p, "delete", n, n, None)
      /\ objects' = objects /\ objects' \in 0 .. MaxObjects /\ objects <= objects'
      /\ clobbered' = clobbered /\ clobbered' \in BOOLEAN
  <2>1. Arrive(p, {n, n})
    BY <1>2 DEF Delete
  <2> QED
    BY <1>1, <2>1 DEF Delete, RTyped
<1> QED
  BY <1>3, ReplacePreserves DEF Kinds

LEMMA DisconnectedPreserves ==
    ASSUME RegistryIInv, NEW p \in Requests, Disconnected(p)
    PROVE  RegistryIInv'
<1> DEFINE r == request[p]
           kind == r.kind
           old == r.old
           new == r.new
           source == r.source
<1>1. RTyped /\ OneName /\ OwnNames /\ Filed /\ Linked
  BY DEF RegistryIInv
<1>2. /\ r.at = "disconnecting" /\ ~Free(p) /\ r \in Disconnecting
      /\ Touched(p) = {old, new}
  BY <1>1, RequestTypes DEF Disconnected
<1>3. kind \in Kinds /\ old \in Names /\ new \in Names /\ source \in Sources \cup {None}
  BY <1>2 DEF Disconnecting
<1>4. /\ connectors' = [connectors EXCEPT ![old] = None] /\ open' = open \ {r.connector}
      /\ Add(p, kind, old, new, source, [sourceConfigs EXCEPT ![old] = None])
      /\ UNCHANGED <<objects, restarts, overlapped, clobbered>>
  BY DEF Disconnected
<1>5. source # None => Holds(new, source)
  BY <1>2 DEF Holds
<1>6. ~overlapped' => \A q \in Requests \ {p} : Touched(q) \cap {old, new} = {}
  BY <1>1, <1>2, <1>4 DEF OwnNames
<1>7. ~overlapped' /\ kind = "metrics" =>
          old = new /\ source # None /\ listed[old] = source /\ sourceConfigs[old] = source
  BY <1>1, <1>2, <1>4 DEF Filed
<1>8. ~overlapped' /\ ~clobbered' =>
          r.connector = connectors[old] /\ (new # old => connectors[new] = None)
  BY <1>1, <1>2, <1>4 DEF Linked, Waits
<1> HIDE DEF kind, old, new, source
<1>9. /\ connectors' \in [Names -> LiveConnectors \cup {None}]
      /\ \A n \in Names : connectors'[n] \in {None, connectors[n]}
      /\ open' \subseteq open
      /\ objects' \in 0 .. MaxObjects /\ objects <= objects'
      /\ overlapped' \in BOOLEAN /\ clobbered' \in BOOLEAN
  BY <1>1, <1>3, <1>4 DEF RTyped
<1>10. kind = request[p].kind
  BY DEF kind
<1> QED
  BY <1>2, <1>3, <1>4, <1>5, <1>6, <1>7, <1>8, <1>9, <1>10, AddPreserves

LEMMA ConnectedPreserves ==
    ASSUME RegistryIInv, NEW p \in Requests, NEW ok \in BOOLEAN, Connected(p, ok)
    PROVE  RegistryIInv'
<1> DEFINE r == request[p]
           connector == [source |-> r.source, id |-> r.connection]
<1>1. RTyped /\ OneName /\ OwnNames /\ Filed /\ Linked
  BY DEF RegistryIInv
<1>2. r.at = "connecting" /\ ~Free(p) /\ r \in Connecting /\ Touched(p) = {r.old, r.new}
  BY <1>1, RequestTypes DEF Connected
<1>3. /\ connector \in LiveConnectors /\ connector.source = r.source /\ connector # None
      /\ r.new \in Names /\ r.old \in Names /\ r.source \in Sources /\ r.source # None
  BY <1>2 DEF Connecting, Live, LiveConnectors, Connectors
<1>4. /\ connectors' = IF ok THEN [connectors EXCEPT ![r.new] = connector] ELSE connectors
      /\ open' = IF ok THEN open \cup {connector} ELSE open
      /\ sourceConfigs' = sourceConfigs
      /\ request' = [request EXCEPT ![p] = Idle]
      /\ listed' = IF r.kind = "metrics" THEN listed ELSE sourceConfigs
      /\ saved' = listed'
      /\ UNCHANGED <<objects, connects, restarts, overlapped, clobbered>>
  BY DEF Connected, Finish, counters
<1> HIDE DEF connector
<1>5. RTyped'
  BY <1>1, <1>3, <1>4 DEF RTyped
<1>6. \A q \in Requests : /\ q # p => request'[q] = request[q] /\ Free(q)' = Free(q) /\ Touched(q)' = Touched(q)
                          /\ q = p => Free(q)' /\ Touched(q)' = {}
  BY <1>1, <1>4 DEF RTyped, Free, Touched
<1>7. ASSUME NEW n \in Names, NEW s \in Sources, Holds(n, s)'
      PROVE  Holds(n, s)
  BY <1>1, <1>2, <1>3, <1>4, <1>6, <1>7 DEF Holds, RTyped
<1>8. OneName'
  BY <1>1, <1>4, <1>7 DEF OneName
<1>9. OwnNames'
  BY <1>1, <1>4, <1>6 DEF OwnNames
<1>10. Filed'
  BY <1>1, <1>2, <1>4, <1>6 DEF Filed
<1>11. Linked'
  <2> SUFFICES ASSUME ~overlapped, ~clobbered
               PROVE  /\ \A n \in Names : connectors'[n] # None => sourceConfigs[n] = connectors'[n].source
                      /\ open' = {connectors'[n] : n \in Names} \ {None}
                      /\ \A q \in Requests : Waits(q)'
    BY <1>4 DEF Linked
  <2>1. /\ \A n \in Names : connectors[n] # None => sourceConfigs[n] = connectors[n].source
        /\ open = {connectors[n] : n \in Names} \ {None}
        /\ \A q \in Requests : Waits(q)
        /\ connectors[r.new] = None /\ sourceConfigs[r.new] = r.source
    BY <1>1, <1>2 DEF Linked, Waits
  <2>2. \A n \in Names : connectors'[n] # None => sourceConfigs[n] = connectors'[n].source
    BY <1>1, <1>3, <1>4, <2>1 DEF RTyped
  <2>3. open' = {connectors'[n] : n \in Names} \ {None}
    BY <1>1, <1>3, <1>4, <2>1 DEF RTyped
  <2>4. ASSUME NEW q \in Requests
        PROVE  Waits(q)'
    <3>1. CASE q = p
      BY <1>1, <1>4, <3>1 DEF Waits, RTyped, Idle
    <3>2. CASE q # p
      <4>1. ~Free(q) => request[q].old # r.new /\ request[q].new # r.new
        BY <1>1, <1>2, <3>2, RequestTypes DEF OwnNames
      <4> QED
        BY <1>1, <1>4, <1>6, <2>1, <3>2, <4>1, RequestTypes DEF Waits, RTyped
    <3> QED
      BY <3>1, <3>2
  <2> QED
    BY <2>2, <2>3, <2>4
<1> QED
  BY <1>5, <1>8, <1>9, <1>10, <1>11 DEF RegistryIInv

\* The next process starts from the file, whatever the last one left half done.
LEMMA RestartPreserves ==
    ASSUME RegistryIInv, NEW answering \in SUBSET Names, Restart(answering)
    PROVE  RegistryIInv'
<1>1. RTyped /\ OneName
  BY DEF RegistryIInv
<1>2. /\ sourceConfigs' = listed /\ listed' = listed /\ saved' = listed
      /\ connectors' = [n \in Names |->
             IF listed[n] # None /\ listed[n].enabled /\ n \in answering
             THEN [source |-> listed[n], id |-> 0] ELSE None]
      /\ open' = {connectors'[n] : n \in Names} \ {None}
      /\ request' = [q \in Requests |-> Idle]
      /\ restarts < MaxRestarts /\ restarts' = restarts + 1
      /\ overlapped' = FALSE /\ clobbered' = FALSE
      /\ UNCHANGED <<objects, connects>>
  BY <1>1 DEF Restart, RTyped
<1>3. \A n \in Names : listed[n] \in Sources /\ listed[n].enabled =>
          [source |-> listed[n], id |-> 0] \in LiveConnectors
  BY DEF LiveConnectors, Connectors, Sources
<1>4. connectors' \in [Names -> LiveConnectors \cup {None}]
  BY <1>1, <1>2, <1>3 DEF RTyped
<1>5. RTyped'
  <2>1. restarts' \in 0 .. MaxRestarts
    BY <1>1, <1>2 DEF RTyped
  <2>2. open' \subseteq LiveConnectors
    BY <1>2, <1>4
  <2> QED
    BY <1>1, <1>2, <1>4, <2>1, <2>2 DEF RTyped
<1>6. \A q \in Requests : Free(q)' /\ Touched(q)' = {}
  BY <1>2 DEF Free, Touched
<1>7. ASSUME NEW n \in Names, NEW s \in Sources, Holds(n, s)'
      PROVE  Holds(n, s)
  BY <1>1, <1>2, <1>6, <1>7 DEF Holds, RTyped
<1>8. OneName'
  BY <1>1, <1>2, <1>7 DEF OneName
<1>9. OwnNames' /\ Filed'
  BY <1>2, <1>6 DEF OwnNames, Filed
<1>10. Linked'
  BY <1>1, <1>2, <1>3 DEF Linked, Waits, RTyped, Idle
<1> QED
  BY <1>5, <1>8, <1>9, <1>10 DEF RegistryIInv

LEMMA InitHolds == Init => RegistryIInv
<1> SUFFICES ASSUME Init
             PROVE  RegistryIInv
  OBVIOUS
<1>1. \A p \in Requests : Free(p) /\ Touched(p) = {}
  BY DEF Init, Free, Touched
<1>2. RTyped
  <2>1. objects \in 0 .. MaxObjects /\ connects \in 0 .. MaxConnects /\ restarts \in 0 .. MaxRestarts
    BY DEF Init
  <2> QED
    BY <2>1 DEF Init, RTyped
<1>3. OneName
  BY <1>1 DEF Init, OneName, Holds
<1>4. OwnNames /\ Filed
  BY <1>1 DEF Init, OwnNames, Filed
<1>5. Linked
  BY DEF Init, Linked, Waits, Idle
<1> QED
  BY <1>2, <1>3, <1>4, <1>5 DEF RegistryIInv

LEMMA StepPreserves == RegistryIInv /\ [Next]_vars => RegistryIInv'
<1> SUFFICES ASSUME RegistryIInv, [Next]_vars
             PROVE  RegistryIInv'
  OBVIOUS
<1>1. ASSUME NEW p \in Requests, NEW caller \in Tenants \cup {Admin}, NEW n \in Names,
             NEW t \in Tenants \cup {Global}, NEW e \in BOOLEAN, Create(p, caller, n, t, e)
      PROVE  RegistryIInv'
  BY <1>1, CreatePreserves
<1>2. ASSUME NEW p \in Requests, NEW caller \in Tenants \cup {Admin}, NEW n \in Names, NEW m \in Names,
             NEW t \in Tenants \cup {Global}, NEW e \in BOOLEAN, Update(p, caller, n, m, t, e)
      PROVE  RegistryIInv'
  BY <1>2, UpdatePreserves
<1>3. ASSUME NEW p \in Requests, NEW caller \in Tenants \cup {Admin}, NEW n \in Names,
             Toggle(p, caller, n) \/ Remeasure(p, caller, n) \/ Delete(p, caller, n)
      PROVE  RegistryIInv'
  BY <1>3, TogglePreserves, RemeasurePreserves, DeletePreserves
<1>4. ASSUME NEW p \in Requests, Disconnected(p) \/ \E ok \in BOOLEAN : Connected(p, ok)
      PROVE  RegistryIInv'
  BY <1>4, DisconnectedPreserves, ConnectedPreserves
<1>5. ASSUME NEW answering \in SUBSET Names, Restart(answering)
      PROVE  RegistryIInv'
  BY <1>5, RestartPreserves
<1>6. CASE UNCHANGED vars
  <2>1. UNCHANGED <<sourceConfigs, connectors, listed, saved, request, open, objects, connects, restarts,
                    overlapped, clobbered>>
    BY <1>6 DEF vars, registry, counters
  <2>2. RTyped' = RTyped
    BY <2>1 DEF RTyped
  <2>3. OneName' = OneName
    BY <2>1 DEF OneName, Holds, Free
  <2>4. OwnNames' = OwnNames /\ Filed' = Filed
    BY <2>1 DEF OwnNames, Filed, Touched, Free
  <2>5. Linked' = Linked
    BY <2>1 DEF Linked, Waits
  <2> QED
    BY <2>2, <2>3, <2>4, <2>5 DEF RegistryIInv
<1> QED
  BY <1>1, <1>2, <1>3, <1>4, <1>5, <1>6 DEF Next

LEMMA RegistrySafe == Spec => []RegistryIInv
BY InitHolds, StepPreserves, PTL DEF Spec
-----------------------------------------------------------------------------
\* Outside any overlap of requests on one name, a tenant resolves a name only to a connector
\* of its own or of a global source, in the middle of any update, rename or restart
\* (getByNameForTenant of connectors/registry.ts).
THEOREM GateApart == Spec => []GateHoldsApart
<1>1. RegistryIInv => GateHoldsApart
  BY DEF RegistryIInv, RTyped, Linked, GateHoldsApart, Visible, LiveConnectors, Connectors
<1> QED
  BY <1>1, RegistrySafe, PTL

\* States are of their types, and once the requests are through the connections, the file,
\* the settings' list and the registry agree (connectors/registry.ts, saveConfig).
THEOREM SettledStatesAgree == Spec => []SettledAgree
<1>1. RegistryIInv => TypeOK
  <2> SUFFICES ASSUME RegistryIInv
               PROVE  TypeOK
    OBVIOUS
  <2>1. \A p \in Requests : Free(p) \/ request[p].at \in {"connecting", "disconnecting"}
    BY DEF RegistryIInv, RTyped, Free, Connecting, Disconnecting
  <2> QED
    BY <2>1 DEF RegistryIInv, RTyped, TypeOK, LiveConnectors
<1>2. RegistryIInv => SettledConnections
  BY DEF RegistryIInv, Linked, SettledConnections
<1>3. RegistryIInv => SettledFile
  <2> SUFFICES ASSUME RegistryIInv, Settled, ~overlapped
               PROVE  saved = sourceConfigs /\ listed = sourceConfigs
    BY DEF SettledFile
  <2>1. \A n \in Names : listed[n] = sourceConfigs[n]
    BY DEF RegistryIInv, Filed, Settled, Touched
  <2> QED
    BY <2>1 DEF RegistryIInv, RTyped
<1> QED
  BY <1>1, <1>2, <1>3, RegistrySafe, PTL DEF SettledAgree
=============================================================================
