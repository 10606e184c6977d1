------------------------------ MODULE Correlator ------------------------------
(***************************************************************************)
(* rankRootCause (analysis/correlator.ts): which of the services that are  *)
(* anomalous together is the cause.  An incident unfolds over an acyclic   *)
(* graph of calls: anomalies break out, one after the other, and changes   *)
(* are deployed.  Scores are counted in quarters; times are minutes.       *)
(***************************************************************************)
EXTENDS Integers, Sequences, FiniteSets, FiniteSetsExt

CONSTANTS Services,
          Graphs,       \* the possible sets of calls <<from, to>>
          SevWeight,    \* the severities' weights: 1 low to 3 high
          Onsets,       \* when an anomaly may have begun
          Markers,      \* the changes that may be known: [service, ts]
          None,         \* "onset not known"
          Depth,        \* bound: anomalies of one service
          MaxMarkers    \* bound: changes

VARIABLES edges,
          anomalies,    \* in the order reported: [service, severity, onset]
          changes

vars == <<edges, anomalies, changes>>

Window == 15            \* a change this long before the onset is a hint

-----------------------------------------------------------------------------
\* The places of a service's anomalies in the report.
Of(svc) == {i \in DOMAIN anomalies : anomalies[i].service = svc}
Anomalous == {anomalies[i].service : i \in DOMAIN anomalies}

(* Who can be reached over calls, by way of each service in turn. *)
Closure ==
  FoldSet(LAMBDA mid, r : r \cup ({e[1] : e \in {c \in r : c[2] = mid}} \X {e[2] : e \in {c \in r : c[1] = mid}}),
          edges, Services)

Direct == edges         \* slip: the calls of calls are not followed
DependsOn == Closure

Dependents(svc) == LET d == DependsOn IN {o \in Anomalous \ {svc} : <<o, svc>> \in d}
Upstream(svc) == LET d == DependsOn IN {o \in Anomalous \ {svc} : <<svc, o>> \in d}

Began(places) == {anomalies[i].onset : i \in places} \ {None}

(* 4 for the first to begin, 1 within a minute of it; the first onset of a
   service is what counts here, ... *)
Ordering(svc) ==
  IF Began(Of(svc)) = {} THEN 0
  ELSE LET lag == Min(Began(Of(svc))) - Min(Began(DOMAIN anomalies))
       IN  IF lag <= 0 THEN 4 ELSE IF lag <= 1 THEN 1 ELSE 0

(* ... and the onset of its first anomaly in the list here. *)
Marked(svc) ==
  LET timed == {i \in Of(svc) : anomalies[i].onset # None}
      onset == anomalies[Min(timed)].onset
  IN \E c \in changes : c.service = svc /\ (timed # {} => c.ts <= onset /\ onset - c.ts <= Window)

Breadth(svc) == FoldSet(LAMBDA i, sum : anomalies[i].severity + sum, 0, Of(svc))

(* Four times the score. *)
Score(svc) ==
  20 * Cardinality(Dependents(svc)) - 12 * Cardinality(Upstream(svc))
    + 4 * Ordering(svc) + (IF Marked(svc) THEN 16 ELSE 0) + Breadth(svc)

(* Where a service ends up in the list: by score; services with the same score stay in the order
   in which they were first reported. *)
FirstOf(svc) == Min(Of(svc))

RankRootCause ==
  LET score == [svc \in Anomalous |-> Score(svc)]
      before(s, t) == score[s] > score[t] \/ (score[s] = score[t] /\ FirstOf(s) < FirstOf(t))
  IN  [svc \in Anomalous |-> 1 + Cardinality({s \in Anomalous : before(s, svc)})]

-----------------------------------------------------------------------------
Init == edges \in Graphs /\ anomalies = <<>> /\ changes = {}

Breach(svc, severity, onset) ==
  /\ Cardinality(Of(svc)) < Depth
  /\ anomalies' = Append(anomalies, [service |-> svc, severity |-> severity, onset |-> onset])
  /\ UNCHANGED <<edges, changes>>

Deploy(c) ==
  /\ c \notin changes /\ Cardinality(changes) < MaxMarkers
  /\ changes' = changes \cup {c}
  /\ UNCHANGED <<edges, anomalies>>

Next ==
  \/ \E svc \in Services, severity \in SevWeight, onset \in Onsets \cup {None} : Breach(svc, severity, onset)
  \/ \E c \in Markers : Deploy(c)
  \/ (\A svc \in Services : Cardinality(Of(svc)) = Depth) /\ UNCHANGED vars

Spec == Init /\ [][Next]_vars

-----------------------------------------------------------------------------
(* "a loud downstream symptom must not outrank a quiet upstream root cause"
   (correlator.ts:58-59): a service whose own dependencies are sound is ranked
   before all that depend on it, near or far, unless the hints of time and
   change speak against it or the victim has more than ten anomalies.  (Eleven
   high ones on the victim and one low on the cause would outweigh it.) *)
LoudVictimsFollow ==
  LET rank == RankRootCause
  IN \A root \in Anomalous : Upstream(root) = {} => \A victim \in Dependents(root) :
       /\ Ordering(root) >= Ordering(victim) /\ (Marked(victim) => Marked(root))
       /\ Cardinality(Of(victim)) <= 10
       => rank[root] < rank[victim]
=============================================================================
