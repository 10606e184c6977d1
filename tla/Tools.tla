--------------------------------- MODULE Tools ---------------------------------
(***************************************************************************)
(* What a request of an MCP client passes through, from its session to its *)
(* answer, McpSessions, ToolCall and EnterpriseGate, and what the tools    *)
(* look at: Topology, Detection, Prometheus, SignalTools, IpEnrichment and *)
(* Correlator.  Each keeps its own state, so a behaviour is one of them,   *)
(* and leaves the others at rest.                                          *)
(***************************************************************************)
EXTENDS McpSessions, Integers, Sequences, FiniteSets

CONSTANTS
    Callers, Invocations, ProductTools, Plugins, RingCap, BootMode, Entitled, Redaction,    \* ToolCall
    MaxCalls, MaxReviews,
    Askers, Tokens, Skew, Modules, StartFiles, GatedCalls, Edits, AdminCap, Star, Garbage,  \* EnterpriseGate
    MaxBuilds, MaxOps, MaxRestarts, MaxGateTime,
    Objects, Others, MaxObjectChanges, MaxBreaks,                                           \* Topology
    Values, MetricKinds, MinSamples, RecentWindow, Dwell, Threshold,                        \* Detection
    Period, PhaseTolerance, MinPhaseSamples, MaxLength,
    Queries, Labels, Candidates, Exposures, CacheTtl, MaxSeriesTime, MaxAsked,              \* Prometheus
    Metrics, Logs, Traces, LogLabels, LogContents, Services,                                \* SignalTools
    Batches, Lists, Rows, Ips, FoundTtl, NegTtl, RdapTimeout, MaxPause, MaxRetries,         \* IpEnrichment
    MaxCache, MaxRdapTime,
    Members, Graphs, Onsets, SevWeight, Markers, Depth, MaxMarkers,                         \* Correlator
    MaxFailures, MaxChanges, None                                                           \* several

VARIABLES which,
          \* ToolCall
          mode, rules, cFile, ring, calls, audited, cStarted, reviews, cFailures,
          \* EnterpriseGate
          gFile, token, gNow, builds, memo, ops, answered, log, entries, gStarted, gFailures, restarts,
          \* Topology
          cluster, watches, broken, store, replica, resync, other, tChanges,
          \* Detection
          dSeries, kind,
          \* Prometheus
          pNow, backend, pSince, settled, labelCache, candidateCache, query, pChanges, pAsked,
          \* SignalTools
          sSeries, lines, answer,
          \* IpEnrichment
          iNow, holds, iSince, iCache, batch, iChanges,
          \* Correlator
          edges, anomalies, kChanges

call       == <<mode, rules, cFile, ring, calls, audited, cStarted, reviews, cFailures>>
gate       == <<gFile, token, gNow, builds, memo, ops, answered, log, entries, gStarted, gFailures, restarts>>
topology   == <<cluster, watches, broken, store, replica, resync, other, tChanges>>
detection  == <<dSeries, kind>>
prometheus == <<pNow, backend, pSince, settled, labelCache, candidateCache, query, pChanges, pAsked>>
signals    == <<sSeries, lines, answer>>
enrichment == <<iNow, holds, iSince, iCache, batch, iChanges>>
ranking    == <<edges, anomalies, kChanges>>

-----------------------------------------------------------------------------
Call == INSTANCE ToolCall WITH
  Slots <- Callers, Requests <- Invocations, file <- cFile, started <- cStarted, failures <- cFailures

Gate == INSTANCE EnterpriseGate WITH
  Slots <- Askers, Calls <- GatedCalls, MaxTime <- MaxGateTime,
  file <- gFile, now <- gNow, started <- gStarted, failures <- gFailures

Graph == INSTANCE Topology WITH MaxChanges <- MaxObjectChanges, changes <- tChanges

Anomalies == INSTANCE Detection WITH Kinds <- MetricKinds, series <- dSeries

Series == INSTANCE Prometheus WITH
  MaxTime <- MaxSeriesTime,
  now <- pNow, since <- pSince, changes <- pChanges, asked <- pAsked

Signals == INSTANCE SignalTools WITH series <- sSeries

Registry == INSTANCE IpEnrichment WITH
  Ttl <- FoundTtl, Timeout <- RdapTimeout, MaxTime <- MaxRdapTime,
  now <- iNow, since <- iSince, cache <- iCache, changes <- iChanges

Causes == INSTANCE Correlator WITH Services <- Members, changes <- kChanges

-----------------------------------------------------------------------------
\* The times a cached answer and a request may take.
ASSUME TimesAssumption == {CacheTtl, FoundTtl, NegTtl, RdapTimeout} \subseteq Nat

\* Prometheus: a metric with one candidate is not probed.  What stands for "nothing" is none
\* of the values it is told from, here and below.
LabelAnswers == [has : BOOLEAN, until : Nat]
SeriesAnswers == [series : Series!SeriesNames, until : Nat]
ASSUME SeriesAssumption ==
    /\ Labels \in Seq(Series!LabelNames) /\ Len(Labels) > 0 /\ Candidates \in Seq(Series!SeriesNames) /\ Len(Candidates) > 1
    /\ \A e \in Exposures : e.named \subseteq Series!LabelNames /\ e.exposes \subseteq e.named \X Series!SeriesNames
    /\ None \notin LabelAnswers \cup SeriesAnswers

\* IpEnrichment: a call names at least one address, and the cache holds at least one answer.
Asked == UNION {{list[i] : i \in DOMAIN list} : list \in Lists}
ASSUME EnrichmentAssumption ==
    /\ \A list \in Lists : list \in Seq(Asked) /\ list # <<>>
    /\ MaxCache \in Nat \ {0} /\ MaxRetries \in Nat /\ MaxPause \in Nat

\* ToolCall: the hooks of plugins have a priority and allow, refuse or throw; None is no text.
ASSUME InspectionAssumption ==
    /\ Plugins \in Seq({Plugins[i] : i \in DOMAIN Plugins})
    /\ \A i \in DOMAIN Plugins : Plugins[i].priority \in Int /\ Plugins[i].does \in {"allow", "deny", "throw"}
    /\ None # "raw"

\* EnterpriseGate: a PUT is of one of the two files, and its body is something.
LogOrNot == [run : Nat, len : Nat]
ASSUME GateAssumption ==
    /\ \A e \in Edits : e.target \in Gate!Targets /\ e.body # None
    /\ None \notin Nat \cup LogOrNot

\* Topology: an id names its object, kind included, whatever the object's version.
Apps == {o.app : o \in Objects} \cup UNION {{r.app : r \in t.resources} : t \in Others}
GraphResources == [id : Nat, kind : STRING, source : Nat, app : Apps]
Relations == {"RUNS_ON", "OWNED_BY"} \cup UNION {{e.rel : e \in t.edges} : t \in Others}
GraphEdges == [from : Nat, to : Nat, rel : Relations]
ASSUME TopologyAssumption ==
    /\ \A o \in Objects : o.id \in Nat /\ o.kind \in STRING /\ {o.node, o.owner} \subseteq Nat \cup {None}
    /\ \A o, p \in Objects : o.id = p.id => o.kind = p.kind
    /\ \A t \in Others : t.resources \subseteq GraphResources /\ t.edges \subseteq GraphEdges

\* Detection: whole samples, a threshold, and windows with something in them.
ASSUME DetectionAssumption ==
    /\ Values \subseteq Int
    /\ MinSamples \in Nat /\ {RecentWindow, Threshold, MinPhaseSamples} \subseteq Nat \ {0}

\* SignalTools: a number of log sources, which hold streams, by their labels and names; the
\* newest 200 lines of a stream are among its newest 500.
ASSUME SignalsAssumption ==
    /\ Logs \in Nat /\ LogLabels \in Seq(Signals!LabelNames) /\ Len(LogLabels) > 0
    /\ \A c \in LogContents, label \in Signals!LabelNames :
         \A s \in DOMAIN c[label] : c[label][s] \in Signals!Streams /\ c[label][s].recent \subseteq c[label][s].held

\* Correlator: a graph over the services, and the code's weights.
ASSUME RankingAssumption ==
    IsFiniteSet(Members) /\ Graphs \subseteq SUBSET (Members \X Members) /\ SevWeight \subseteq 1 .. 3

-----------------------------------------------------------------------------
JointVars ==
  <<which, vars, call, gate, topology, detection, prometheus, signals, enrichment, ranking>>

Parts ==
  {"sessions", "call", "gate", "topology", "detection", "prometheus", "signals", "enrichment", "ranking"}

\* A part that is not looked at starts in one of its initial states.
JointInit ==
  /\ which \in Parts
  /\ Init /\ Call!Init
  /\ Gate!Init /\ (which # "gate" => /\ token = CHOOSE t \in Tokens : TRUE
                                     /\ \A t \in Gate!Targets : gFile[t].body = (CHOOSE at \in StartFiles : TRUE)[t])
  /\ Graph!Init /\ (which # "topology" => other = None)
  /\ Anomalies!Init /\ (which # "detection" => kind = CHOOSE k \in MetricKinds : TRUE)
  /\ Series!Init /\ (which # "prometheus" => backend = CHOOSE up \in Series!Backends : up.up)
  /\ Registry!Init /\ (which # "enrichment" => holds = {})
  /\ Causes!Init /\ (which # "ranking" => edges = CHOOSE g \in Graphs : TRUE)
  /\ Signals!Init
  /\ (which # "signals" => /\ \A m \in Signals!M, s \in Services : sSeries[m][s] = None
                           /\ \A l \in Signals!L : lines[l] = CHOOSE c \in LogContents : TRUE)

JointNext ==
  /\ UNCHANGED which
  /\ \/ which = "sessions" /\ Next
        /\ UNCHANGED <<call, gate, topology, detection, prometheus, signals, enrichment, ranking>>
     \/ which = "call" /\ Call!Next
        /\ UNCHANGED <<vars, gate, topology, detection, prometheus, signals, enrichment, ranking>>
     \/ which = "gate" /\ Gate!Next
        /\ UNCHANGED <<vars, call, topology, detection, prometheus, signals, enrichment, ranking>>
     \/ which = "topology" /\ Graph!Next
        /\ UNCHANGED <<vars, call, gate, detection, prometheus, signals, enrichment, ranking>>
     \/ which = "detection" /\ Anomalies!Next
        /\ UNCHANGED <<vars, call, gate, topology, prometheus, signals, enrichment, ranking>>
     \/ which = "prometheus" /\ Series!Next
        /\ UNCHANGED <<vars, call, gate, topology, detection, signals, enrichment, ranking>>
     \/ which = "signals" /\ Signals!Next
        /\ UNCHANGED <<vars, call, gate, topology, detection, prometheus, enrichment, ranking>>
     \/ which = "enrichment" /\ Registry!Next
        /\ UNCHANGED <<vars, call, gate, topology, detection, prometheus, signals, ranking>>
     \/ which = "ranking" /\ Causes!Next
        /\ UNCHANGED <<vars, call, gate, topology, detection, prometheus, signals, enrichment>>

Joint == JointInit /\ [][JointNext]_JointVars

-----------------------------------------------------------------------------
(* A call is observed once and no raw text leaves without its audit entry; a   *)
(* profile that was learned from calls lets the same calls through             *)
(* (inspect/profile.ts, recorder.ts, enforcer.ts, index.ts).                   *)
InspectionHolds ==
  which = "call" => Call!LearnedPasses /\ Call!OneObservation /\ Call!RawIsAudited

(* A call is decided by every edit answered before it came; an edit leaves an  *)
(* administrator, and rebuilding the gate does not restart the audit chain     *)
(* (enterprise-gate.ts).                                                       *)
GateHolds ==
  which = "gate" => Gate!AnsweredEditsHold /\ Gate!SomeoneAdministers /\ Gate!GateResetsKeepChain

(* A subscriber's copy is the store's graph, and the store's the cluster's     *)
(* (connectors/kubernetes-graph.ts).                                           *)
WatcherAgrees == which = "topology" => Graph!WatcherAgrees

(* Whoever a provider says runs on a host is named by get_blast_radius of it   *)
(* (topology/merge.ts, tools/topology.ts).                                     *)
TenantsAreNamed == which = "topology" => Graph!TenantsAreNamed

(* A metric that came back is not an anomaly (analysis/anomaly.ts).            *)
RecoveryIsQuiet == which = "detection" => Anomalies!RecoveryIsQuiet

(* "No data" is told of a service that can be found only within a cache time   *)
(* of a change or a failure, or of what a query begun before it last kept      *)
(* (connectors/prometheus.ts).                                                 *)
AbsenceIsRecent == which = "prometheus" => Series!AbsenceIsRecent

(* With no metrics a service's health is decided by its logs, and a scan       *)
(* reports the critical ones of the five most frequent errors of every log     *)
(* source that answered and lost no lookup (tools/get-service-health.ts,       *)
(* detect-anomalies.ts, connectors/loki.ts).                                   *)
LogsAreHeard == which = "signals" => Signals!LogsAloneDecide /\ Signals!LogOnlySeen

(* A critical warning is not silently dropped, says detect-anomalies.ts:170-171; *)
(* but patterns are those of lines at the level of an error.                   *)
WarnLevelSeen == which = "signals" => Signals!WarnLevelSeen

(* An address is answered as registered, or not, only if it was within the     *)
(* life of a cached answer (enrich/rdap.ts).                                   *)
AnswersAreRecent == Registry!AnswersAreRecent

(* A service that is only loud because of one it depends on does not outrank   *)
(* it (analysis/correlator.ts).                                                *)
LoudVictimsFollow == which = "ranking" => Causes!LoudVictimsFollow
=============================================================================
