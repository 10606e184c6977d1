---------------------------- MODULE SignalTools ----------------------------
(***************************************************************************)
(* The query tools of one tenant (tools/*.ts, analysis/health.ts, the log  *)
(* side of connectors/loki.ts): each call asks the connectors in turn, one *)
(* request at a time, and answers from what came back.  A connector may    *)
(* hold nothing of a service, and any request may fail.                    *)
(*                                                                         *)
(* A call keeps no state, and what the sources hold does not move during   *)
(* it nor in the minute before, for which a Loki's lookups are cached: so  *)
(* it is one step that chooses which of its requests fail and which        *)
(* lookups are of no use.  A metrics source holds a service's four series, *)
(* all calm or all past crit; a log source holds streams, by label and     *)
(* name, of kinds of lines, each kind about as often as the others, in a   *)
(* few wordings or in many.                                                *)
(***************************************************************************)
EXTENDS Integers, Sequences, FiniteSets, FiniteSetsExt

CONSTANTS Metrics, Logs, Traces,      \* how many connectors of each kind
          LogLabels,      \* a Loki's serviceLabels, in the order of preference
          LogContents,    \* what a Loki may hold: label -> name -> stream
          Services, None

Line(level, critical) == [level |-> level, critical |-> critical]
Lines == {Line("error", FALSE), Line("error", TRUE), Line("warn", TRUE), Line("info", FALSE)}
LabelNames == {LogLabels[i] : i \in DOMAIN LogLabels}

(* A stream: the kinds among its newest 200 lines, which is what the health
   of a service is judged by, and among its newest 500, which is what a scan
   looks at; and those with a wording among the five most frequent of its
   errors. *)
Streams == [recent : SUBSET Lines, held : SUBSET Lines, frequent : SUBSET Lines]
Silence == [recent |-> {}, held |-> {}, frequent |-> {}]

(* The connectors, in the order of the registry. *)
M == 1..Metrics
L == 1..Logs
T == 1..Traces

VARIABLES series,         \* metrics source -> service -> None, "calm" or "crit"
          lines,          \* log source -> what it holds
          answer          \* the last call's, None before

vars == <<series, lines, answer>>

Init ==
  /\ series \in [M -> [Services -> {None, "calm", "crit"}]]
  /\ lines \in [L -> LogContents]
  /\ answer = None

(* One call per behaviour. *)
Answers(a) == answer = None /\ answer' = a /\ UNCHANGED <<series, lines>>

-----------------------------------------------------------------------------
(* getLabelValues of a Loki connector: a label whose lookup is lost, because
   it failed or did so less than a minute ago, has no values. *)
LabelValues(l, label, lost) == IF label \in lost THEN {} ELSE DOMAIN lines[l][label]

(* The first of some labels, and the first of all when there are none. *)
First(labels) ==
  LET places == {i \in DOMAIN LogLabels : LogLabels[i] \in labels}
  IN IF places = {} THEN LogLabels[1] ELSE LogLabels[Min(places)]

(* resolveServiceSelector: the first label that has the service among its
   values, the first of all when none has; a label without the service
   selects nothing, and that is a successful answer. *)
Stream(l, label, s) == IF s \in DOMAIN lines[l][label] THEN lines[l][label][s] ELSE Silence
Resolved(l, s, lost) == First({label \in LabelNames : s \in LabelValues(l, label, lost)})
Said(l, s, lost) == Stream(l, Resolved(l, s, lost), s)

(* What queryLogs makes of the lines it got.  The patterns are the messages
   of the most frequent error lines. *)
Summary(kinds, frequent) ==
  [total  |-> Cardinality(kinds),
   errors |-> Cardinality({k \in kinds : k.level = "error"}),
   warns  |-> Cardinality({k \in kinds : k.level = "warn"}),
   top    |-> {k \in kinds \cap frequent : k.level = "error"}]

(* queryMetrics has a summary only when there are points. *)
HasSeries(m, s) == series[m][s] # None

(* listServices: of a Prometheus connector, which throws when it fails, and
   of a Loki connector, which never does: it lists the values of the first
   label that has any. *)
Named(m, failed) == IF m \in failed THEN {} ELSE {s \in Services : HasSeries(m, s)}
Logged(l, lost) == LabelValues(l, First({label \in LabelNames : LabelValues(l, label, lost) # {}}), lost)

ListServices ==
  \E downM \in SUBSET M, lost \in [L -> SUBSET LabelNames] :
    LET down == Cardinality(downM)
        all  == Cardinality(M) + Cardinality(L)
        services == UNION ({Named(m, downM) : m \in M} \cup {Logged(l, lost[l]) : l \in L})
    IN Answers([tool |-> "list", services |-> services,
                partial |-> down > 0 /\ down < all,
                note |-> CASE all = 0 -> "no backends" [] down = all -> "all failed"
                           [] services = {} /\ down < all -> "none discovered" [] OTHER -> "none"])

(* The queries that ask every connector of a kind: the results of those that
   answered, an error only if none did. *)
FanOut(over) ==
  \E valid \in BOOLEAN, failed \in SUBSET over :
    Answers([tool |-> "query",
             says |-> CASE ~valid -> "invalid" [] valid /\ over = {} -> "no backends"
                        [] valid /\ over # {} /\ failed = over -> "failed"
                        [] OTHER -> "results"])

QueryMetrics == FanOut(M)
QueryLogs    == FanOut(L)             \* aggregated or not
QueryTraces  == FanOut(T)

-----------------------------------------------------------------------------
(* get_service_health.  A metrics source is asked for four series in one try:
   done[m] were answered before a failure, 4 if there was none.  What a
   source holds replaces what the ones before it said; so does a log source
   that answers, whatever it holds, and one whose lookups were lost answers
   that there are no lines. *)
Order == <<"cpu", "memory", "errorRate", "latency">>
Weight == [cpu |-> 20, errorRate |-> 35, latency |-> 25]
LogWeight == 20

Reading(k, s, done) ==
  LET saying == {m \in M : HasSeries(m, s) /\ \E i \in 1..done[m] : Order[i] = k}
  IN IF saying = {} THEN "calm" ELSE series[Max(saying)][s]      \* absent is 0

Judged(l, s, lost) == Summary(Said(l, s, lost).recent, Said(l, s, lost).frequent)

LogReading(s, failed, lost) ==
  LET answered == L \ failed
      last     == Max(answered)
  IN IF answered # {} /\ Judged(last, s, lost[last]).errors > 0 THEN "crit" ELSE "calm"

(* scoreFromThreshold at its ends: 100 up to good, 20 at crit. *)
Score(reading) == IF reading = "crit" THEN 20 ELSE 100

(* calculateHealthScore over the families that had data. *)
EveryFamily(hasMetrics, hasLogs) == {"metrics", "logs"}      \* slip: coverage ignored
Families(hasMetrics, hasLogs) ==
  {f \in {"metrics", "logs"} : IF f = "metrics" THEN hasMetrics ELSE hasLogs}

MetricsScore(s, done) == MapThenSumSet(LAMBDA k : Weight[k] * Score(Reading(k, s, done)), DOMAIN Weight)

Status(s, done, errors, families) ==
  LET logs    == LogWeight * Score(errors)
      sum     == (IF "metrics" \in families THEN MetricsScore(s, done) ELSE 0) + (IF "logs" \in families THEN logs ELSE 0)
      weight  == (IF "metrics" \in families THEN 80 ELSE 0) + (IF "logs" \in families THEN LogWeight ELSE 0)
  IN CASE sum > 80 * weight -> "healthy"
       [] sum > 50 * weight /\ sum <= 80 * weight -> "degraded"
       [] OTHER -> "critical"

ServiceHealth(s) ==
  \E done \in [M -> 0..4], failed \in SUBSET L, lost \in [L -> SUBSET LabelNames] :
    LET hasMetrics == \E m \in M : done[m] > 0 /\ HasSeries(m, s)
        hasLogs    == \E l \in L \ failed : Judged(l, s, lost[l]).total > 0
    IN Answers([tool |-> "health", service |-> s, heard |-> L \ failed,
                misled |-> {l \in L : lost[l] # {}}, metrics |-> hasMetrics,
                status |-> IF ~hasMetrics /\ ~hasLogs THEN "unknown"
                           ELSE Status(s, done, LogReading(s, failed, lost), Families(hasMetrics, hasLogs))])

-----------------------------------------------------------------------------
(* detect_anomalies: the services some connector lists, or the one asked for;
   each is looked for on every connector.  Of the names listed, those in
   Services are followed. *)
Discovered(downM, lost) ==
  Services \cap UNION ({Named(m, downM) : m \in M} \cup {Logged(l, lost[l]) : l \in L})

(* Critical patterns, whatever the error ratio. *)
Scanned(l, s, lost) == Summary(Said(l, s, lost).held, Said(l, s, lost).frequent)
Critical(summary) == \E p \in summary.top : p.critical
Ratio(summary) == summary.errors > 0

Reported(scanned, failed, lost) ==
  LET heard == (scanned \X L) \ failed
      Anomaly(x, metric) == [service |-> x[1], source |-> x[2], metric |-> metric]
  IN  {Anomaly(x, "log_critical_pattern") : x \in {y \in heard : Critical(Scanned(y[2], y[1], lost[y]))}}
        \cup {Anomaly(x, "log_error_rate") : x \in {y \in heard : Ratio(Scanned(y[2], y[1], lost[y]))}}

DetectAnomalies(asked) ==
  \E downM \in SUBSET M, unlisted \in [L -> SUBSET LabelNames] :
    LET scanned == IF asked = {} THEN Discovered(downM, unlisted) ELSE asked
    IN \E failed \in SUBSET (scanned \X L), lost \in [scanned \X L -> SUBSET LabelNames] :
         Answers([tool |-> "detect", asked |-> asked, listed |-> {l \in L : unlisted[l] = {}},
                  unheard |-> failed \cup {x \in scanned \X L : lost[x] # {}},
                  anomalies |-> Reported(scanned, failed, lost)])

Next ==
  \/ ListServices \/ QueryMetrics \/ QueryLogs \/ QueryTraces
  \/ \E s \in Services : ServiceHealth(s) \/ DetectAnomalies({s})
  \/ DetectAnomalies({})
  \/ answer # None /\ UNCHANGED vars

Spec == Init /\ [][Next]_vars

-----------------------------------------------------------------------------
Tool(t) == answer # None /\ answer.tool = t
Found(s, l) == [service |-> s, source |-> l, metric |-> "log_critical_pattern"] \in answer.anomalies

(* What a scan is to hear of a service at a log source, which it asks because
   the service was asked for or is listed there. *)
Asks(l, s) == IF answer.asked = {} THEN l \in answer.listed /\ s \in Logged(l, {}) ELSE s \in answer.asked
Hears(l, s) == Asks(l, s) /\ <<s, l>> \notin answer.unheard

(* A fleet scan misses no service that only its logs betray: a critical
   pattern among the five most frequent errors of the stream a source keeps
   for the service is reported whenever that source answered and lost no
   lookup, whatever the metrics sources know or fail at
   (detect-anomalies.ts:76-82). *)
LogOnlySeen ==
  Tool("detect") =>
    \A l \in L, s \in Services :
      Hears(l, s) /\ Line("error", TRUE) \in Scanned(l, s, {}).top => Found(s, l)

(* A service known by its logs alone is judged by them: its missing metrics
   weigh nothing (health.ts:19-23).  Where no lookup was lost, errors in
   every source that answered are critical, and a source with any line makes
   the health known; where no source that answered has a line of it, under
   any label, the health is unknown. *)
LogsAloneDecide ==
  Tool("health") /\ ~answer.metrics =>
    LET clear == answer.heard \ answer.misled
        s     == answer.service
    IN  /\ (clear # {} /\ clear = answer.heard /\ \A l \in clear : Judged(l, s, {}).errors > 0)
             => answer.status = "critical"
        /\ (\E l \in clear : Judged(l, s, {}).total > 0) => answer.status # "unknown"
        /\ (\A l \in answer.heard, label \in LabelNames : Stream(l, label, s).recent = {})
             => answer.status = "unknown"

(* "Critical-pattern scan - independent of the error-ratio gate, so a
   warn-level OOM/leak signal is not silently dropped" (detect-anomalies.ts:
   170-171). *)
WarnLevelSeen ==
  Tool("detect") =>
    \A l \in L, s \in Services :
      Hears(l, s) /\ Line("warn", TRUE) \in Said(l, s, {}).held => Found(s, l)
=============================================================================
