------------------------------ MODULE Topology ------------------------------
(***************************************************************************)
(* The infrastructure graph: a Kubernetes connector that keeps a cache of  *)
(* one cluster by five watches (connectors/kubernetes.ts and               *)
(* kubernetes-graph.ts), a subscriber of its changes, and the two tools    *)
(* that merge that cache with the snapshot of a second provider            *)
(* (topology/merge.ts, tools/topology.ts).                                 *)
(*                                                                         *)
(* A resource is [id, kind, source, app], app being its canonical name or  *)
(* None; an edge is [from, to, rel].  Ids of a Kubernetes connector name   *)
(* the object and not the source, so another cluster may use the same id.  *)
(* Ids and sources are numbers, so that they have the order the collapse   *)
(* needs; wording, labels and attributes are left out.                     *)
(***************************************************************************)
EXTENDS Integers, Sequences, FiniteSets, FiniteSetsExt

CONSTANTS Objects,      \* the objects the cluster may hold: [id, kind, app, node, owner]
          Others,       \* what the second provider may report: [resources, edges]
          None,         \* "no such value"
          MaxChanges,   \* bound: changes of the cluster
          MaxBreaks     \* bound: watches that end with an error

Source == 1             \* the Kubernetes connector; the second provider is 2
MaxOwners == 16         \* ownershipRoot's limit on the walk

VARIABLES cluster,      \* the objects that exist in the cluster
          watches,      \* kind -> the watch's events not yet handled
          broken,       \* the kinds whose watch has ended with an error
          store,        \* the TopologyStore: resources, edges by owner, rev
          replica,      \* a subscriber's copy: None before its resync
          resync,       \* the resync microtask of watchTopology is queued
          other,        \* the second provider's snapshot, None if it fails
          changes

vars == <<cluster, watches, broken, store, replica, resync, other, changes>>

Kinds == {o.kind : o \in Objects}
NoStore == [resources |-> {}, edges |-> {}, rev |-> 0]

-----------------------------------------------------------------------------
(* The builders and the store *)

ResourceOf(o) == [id |-> o.id, kind |-> o.kind, source |-> Source, app |-> o.app]

EdgesOf(o) ==
  {[from |-> o.id, to |-> o.node, rel |-> "RUNS_ON"] : n \in {o.node} \ {None}}
    \cup {[from |-> o.id, to |-> o.owner, rel |-> "OWNED_BY"] : n \in {o.owner} \ {None}}

Outgoing(g, id) == {e \in g.edges : e.from = id}

(* What one upsert or removal emits: the resource itself, and the edges that
   came and went. *)
Stale(g, o) == Outgoing(g, o.id) \ EdgesOf(o)
StaleKept(g, o) == {}             \* slip: an update announces new edges only
StaleEdges(g, o) == Stale(g, o)

Upserted(g, o) ==
  [id |-> o.id, resource |-> {ResourceOf(o)}, added |-> EdgesOf(o) \ g.edges, removed |-> StaleEdges(g, o)]
Removed(g, o) ==
  [id |-> o.id, resource |-> {}, added |-> {}, removed |-> Outgoing(g, o.id)]

(* upsertResource and removeResource replace the edges the object owns; every
   event emitted bumps the revision. *)
Stored(g, o, d) ==
  [resources |-> {r \in g.resources : r.id # d.id} \cup d.resource,
   edges     |-> (g.edges \ Outgoing(g, d.id)) \cup (IF d.resource = {} THEN {} ELSE EdgesOf(o)),
   rev       |-> g.rev + 1 + Cardinality(d.added) + Cardinality(d.removed)]

(* A subscriber applies the events one after another. *)
Followed(g, d) ==
  [resources |-> {r \in g.resources : r.id # d.id} \cup d.resource,
   edges     |-> (g.edges \ d.removed) \cup d.added,
   rev       |-> g.rev + 1 + Cardinality(d.added) + Cardinality(d.removed)]

-----------------------------------------------------------------------------
(* topology/merge.ts *)

CanonicalNameFor(r) == r.app

KindsMergeable(a, b) ==
  a = b \/ {a, b} \in {{"deployment", "cloud_service"}, {"deployment", "trace_service"},
                       {"cloud_service", "trace_service"}, {"pod", "container"}}

(* The resources grouped under r's canonical name; kinds that do not all
   agree pairwise keep the whole group apart. *)
Bucket(rs, r) == {q \in rs : CanonicalNameFor(q) = CanonicalNameFor(r)}

Collapses(rs, r) ==
  /\ CanonicalNameFor(r) # None
  /\ \A p, q \in Bucket(rs, r) : KindsMergeable(p.kind, q.kind)

Primary(bucket) ==
  CHOOSE p \in bucket : \A q \in bucket :
    p.source < q.source \/ (p.source = q.source /\ p.id <= q.id)

(* The idMap is keyed by id alone: an id of a collapsed resource is
   rewritten wherever it occurs. *)
IdMap(rs, id) ==
  LET moved == {Primary(Bucket(rs, r)).id : r \in {q \in rs : q.id = id /\ Collapses(rs, q)}}
  IN  IF moved \ {id} = {} THEN id ELSE CHOOSE i \in moved \ {id} : TRUE

(* The collapsed resource takes the most specific kind of its group. *)
KindPriority == <<"cloud_service", "deployment", "pod", "trace_service", "container">>

Collapsed(bucket) ==
  LET kinds == {p.kind : p \in bucket}
      known == {i \in DOMAIN KindPriority : KindPriority[i] \in kinds}
  IN  IF known = {} THEN Primary(bucket)
      ELSE [Primary(bucket) EXCEPT !.kind = KindPriority[Min(known)]]

MergedResources(rs) ==
  {IF Collapses(rs, r) THEN Collapsed(Bucket(rs, r)) ELSE r : r \in rs}

FromOnly(rs, e) == [e EXCEPT !.from = IdMap(rs, @)]    \* slip: targets are left as they were
BothEnds(rs, e) == [e EXCEPT !.from = IdMap(rs, @), !.to = IdMap(rs, @)]

Rewritten(rs, e) == BothEnds(rs, e)

MergedEdges(rs, es) ==
  {Rewritten(rs, e) : e \in {d \in es : IdMap(rs, d.from) # IdMap(rs, d.to)}}

(* aggregateTopology: one snapshot is passed through, two are merged. *)
Resources == store.resources \cup (IF other = None THEN {} ELSE other.resources)
Edges     == store.edges \cup (IF other = None THEN {} ELSE other.edges)

Aggregate ==
  IF other = None
  THEN [resources |-> store.resources, edges |-> store.edges]
  ELSE [resources |-> MergedResources(Resources), edges |-> MergedEdges(Resources, Edges)]

-----------------------------------------------------------------------------
(* get_blast_radius over an aggregated graph *)

ChildrenOf(g, host) == {e.from : e \in {d \in g.edges : d.rel = "RUNS_ON" /\ d.to = host}}
HostsOf(g, id) == {e.to : e \in {d \in g.edges : d.rel = "RUNS_ON" /\ d.from = id}}

(* The hosts an answer names: the resource if it is one, else one it runs on
   (the index keeps the last edge of a child). *)
Hosts(g, id) ==
  IF ChildrenOf(g, id) # {} THEN {{id}}
  ELSE IF HostsOf(g, id) = {} THEN {{}} ELSE {{h} : h \in HostsOf(g, id)}

(* The walk to the owner at the top takes the first OWNED_BY edge of each
   resource and gives up after MaxOwners steps. *)
OwnerOf(g, id) == {e.to : e \in {d \in g.edges : d.rel = "OWNED_BY" /\ d.from = id}} \ {id}

OwnershipRoot(g, id) ==
  LET walk[n \in 0..MaxOwners] ==
        IF n = 0 THEN id
        ELSE LET at == walk[n - 1]
                 up == OwnerOf(g, at)
             IN  IF up = {} THEN at ELSE CHOOSE o \in up : TRUE
  IN  walk[MaxOwners]

Known(g) == {r.id : r \in g.resources}

CoTenants(g, host) ==
  {[root |-> OwnershipRoot(g, c), member |-> c] : c \in ChildrenOf(g, host) \cap Known(g)}

BlastRadius(g, id) ==
  {UNION {CoTenants(g, h) : h \in hs \cap Known(g)} : hs \in Hosts(g, id)}

-----------------------------------------------------------------------------
Init ==
  /\ cluster = {}
  /\ watches = [k \in Kinds |-> <<>>]
  /\ broken = {}
  /\ store = NoStore
  /\ replica = None
  /\ resync = FALSE
  /\ other \in Others \cup {None}
  /\ changes = 0

(* The cluster changes: an object appears, is replaced by a new version of
   itself, or goes; its kind's watch reports it, unless that watch ended. *)
Change(o, event) ==
  /\ changes < MaxChanges
  /\ changes' = changes + 1
  /\ watches' = IF o.kind \in broken THEN watches
                ELSE [watches EXCEPT ![o.kind] = Append(@, [type |-> event, obj |-> o])]
  /\ UNCHANGED <<broken, store, replica, resync, other>>

Apply(o) ==
  /\ o \notin cluster
  /\ cluster' = {c \in cluster : c.id # o.id} \cup {o}
  /\ Change(o, "apply")

Delete(o) ==
  /\ o \in cluster
  /\ cluster' = cluster \ {o}
  /\ Change(o, "delete")

(* The API server ends the watch of a kind: the connector only logs it. *)
Break(k) ==
  /\ k \notin broken
  /\ Cardinality(broken) < MaxBreaks
  /\ broken' = broken \cup {k}
  /\ watches' = [watches EXCEPT ![k] = <<>>]
  /\ UNCHANGED <<cluster, store, replica, resync, other, changes>>

(* A watch event reaches its handler: the store changes and every event is
   handed to the subscriber at once; one that still waits for its resync
   gets the new state with it. *)
Handle(k) ==
  /\ watches[k] # <<>>
  /\ ~resync                          \* the resync is a microtask: it runs first
  /\ LET e == Head(watches[k])
         known == \E r \in store.resources : r.id = e.obj.id
         d == IF e.type = "apply" THEN Upserted(store, e.obj) ELSE Removed(store, e.obj)
     IN  IF e.type = "delete" /\ ~known THEN UNCHANGED <<store, replica>>
         ELSE /\ store' = Stored(store, e.obj, d)
              /\ replica' = IF replica = None THEN None ELSE Followed(replica, d)
  /\ watches' = [watches EXCEPT ![k] = Tail(@)]
  /\ UNCHANGED <<cluster, broken, resync, other, changes>>

WatchTopology ==
  /\ replica = None /\ ~resync
  /\ resync' = TRUE
  /\ UNCHANGED <<cluster, watches, broken, store, replica, other, changes>>

Resync ==
  /\ resync
  /\ resync' = FALSE
  /\ replica' = store
  /\ UNCHANGED <<cluster, watches, broken, store, other, changes>>

Done == changes = MaxChanges /\ (\A k \in Kinds : watches[k] = <<>>) /\ UNCHANGED vars

Next ==
  \/ \E o \in Objects : Apply(o) \/ Delete(o)
  \/ \E k \in Kinds : Break(k) \/ Handle(k)
  \/ WatchTopology
  \/ Resync
  \/ Done

Spec == Init /\ [][Next]_vars

-----------------------------------------------------------------------------
(* A subscriber that took the resync and applied every later event holds
   the store's graph at the store's revision; and once the watches are quiet
   that graph is the cluster's, for every kind still watched. *)
WatcherAgrees ==
  /\ replica # None => replica = store
  /\ \A k \in Kinds \ broken :
       watches[k] = <<>> =>
         LET objs == {o \in cluster : o.kind = k}
         IN  /\ {r \in store.resources : r.kind = k} = {ResourceOf(o) : o \in objs}
             /\ \A o \in objs : {e \in store.edges : e.from = o.id} = EdgesOf(o)

(* Whoever a provider says runs on a host is named by get_blast_radius of
   that host, each under the id the merge gave it and under the owner at the
   top of its chain, however the two snapshots overlap (merge.ts:140-152,
   tools/topology.ts:259-330): the merge leaves nobody on a host that is gone. *)
MergedId(id) == IF other = None THEN id ELSE IdMap(Resources, id)

TenantsAreNamed ==
  LET g == Aggregate
      known == {r.id : r \in Resources}
  IN \A e \in {d \in Edges : d.rel = "RUNS_ON" /\ {d.from, d.to} \subseteq known} :
       LET host == MergedId(e.to)
           member == MergedId(e.from)
       IN host # member =>
            \A answer \in BlastRadius(g, host) :
              \E c \in answer : c.member = member /\ c.root = OwnershipRoot(g, member)
=============================================================================
