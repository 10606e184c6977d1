----------------------------- MODULE Prometheus -----------------------------
(***************************************************************************)
(* The Prometheus connector's query path (connectors/prometheus.ts): it    *)
(* finds out which label names the service and which of a metric's         *)
(* candidate series the service has, caches both answers for a minute,     *)
(* failures included, and queries with what it found.  Queries of several  *)
(* sessions share the caches and run interleaved; the backend changes, a   *)
(* request fails, and an answer comes as late as it likes: apiGet stops    *)
(* its timer once it has the headers and returns the body un-awaited.      *)
(*                                                                         *)
(* One service and one metric of the catalogue; time is in ticks.          *)
(***************************************************************************)
EXTENDS Integers, Sequences

CONSTANTS Queries,        \* concurrent queries
          Labels,         \* serviceLabels, in the order they are probed
          Candidates,     \* the metric's candidate series, by preference
          Exposures,      \* how a service may be exposed: see Backends
          CacheTtl,       \* LABEL_CACHE_TTL_MS
          None,
          MaxTime, MaxChanges, MaxAsked   \* bounds

VARIABLES now,
          backend,        \* how the service is exposed, and whether the backend is up
          since,          \* when the backend last changed or failed a request
          settled,        \* when that, or an answer to a query that began before, was last kept
          labelCache,     \* label -> [has, until] or None
          candidateCache, \* label -> [series, until] or None
          query,          \* query -> its program counter and what it found
          changes, asked

vars == <<now, backend, since, settled, labelCache, candidateCache, query, changes, asked>>

SeriesNames == {Candidates[i] : i \in DOMAIN Candidates}
LabelNames  == {Labels[i] : i \in DOMAIN Labels}

(* "named": the labels that have the service's name among their values, in
   any series of the source; "exposes": the candidates the service has, each
   with a label that names the service in it. *)
Backends == {[named |-> e.named, exposes |-> e.exposes, up |-> up] : e \in Exposures, up \in BOOLEAN}

Rest == [at |-> "idle"]
Cached(c) == c # None /\ c.until > now
CachedForGood(c) == c # None          \* slip: an entry never expires
Hit(c) == Cached(c)

Init ==
  /\ now = 0 /\ since = 0 /\ settled = 0 /\ changes = 0 /\ asked = 0
  /\ backend \in {b \in Backends : b.up}
  /\ labelCache = [l \in LabelNames |-> None]
  /\ candidateCache = [l \in LabelNames |-> None]
  /\ query = [q \in Queries |-> Rest]

Goes(q, step) == query' = [query EXCEPT ![q] = step]

Still   == UNCHANGED <<now, backend, since, changes>>
Unmoved == Still /\ UNCHANGED settled

(* What is kept on behalf of a query that began before the backend changed
   may be of the backend as it was. *)
Keeps(q) == Still /\ settled' = IF query[q].began <= since THEN now ELSE settled

-----------------------------------------------------------------------------
(* queryMetrics begins; i is the label it is about to look at. *)
Ask(q) ==
  /\ query[q].at = "idle" /\ asked < MaxAsked
  /\ asked' = asked + 1
  /\ Goes(q, [at |-> "label", i |-> 1, began |-> now])
  /\ Unmoved /\ UNCHANGED <<labelCache, candidateCache>>

(* resolveServiceLabel: the first label whose values hold the service, the
   first label when none does. *)
Labelled(q, l) == Goes(q, [at |-> "series", i |-> 1, label |-> l, began |-> query[q].began])

LabelFromCache(q) ==
  /\ query[q].at = "label" /\ query[q].i <= Len(Labels)
  /\ Hit(labelCache[Labels[query[q].i]])
  /\ IF labelCache[Labels[query[q].i]].has THEN Labelled(q, Labels[query[q].i])
     ELSE Goes(q, [query[q] EXCEPT !.i = @ + 1])
  /\ Unmoved /\ UNCHANGED <<labelCache, candidateCache, asked>>

NoLabel(q) ==
  /\ query[q].at = "label" /\ query[q].i > Len(Labels)
  /\ Labelled(q, Labels[1])
  /\ Unmoved /\ UNCHANGED <<labelCache, candidateCache, asked>>

(* A request leaves: what the backend will say is what it is when it handles
   the request; the answer arrives at a later step, at any time after.
   "from" is where the query goes on. *)
Sends(q, answer) ==
  Goes(q, [at |-> "wait", from |-> query[q], says |-> answer, began |-> query[q].began])

ProbeLabel(q) ==
  /\ query[q].at = "label" /\ query[q].i <= Len(Labels)
  /\ ~Hit(labelCache[Labels[query[q].i]])
  /\ Sends(q, backend.up /\ Labels[query[q].i] \in backend.named)
  /\ Unmoved /\ UNCHANGED <<labelCache, candidateCache, asked>>

(* getLabelValues caches what it heard, an empty list when it heard nothing. *)
LabelAnswered(q) ==
  /\ query[q].at = "wait" /\ query[q].from.at = "label"
  /\ LET l == Labels[query[q].from.i]
     IN  /\ labelCache' = [labelCache EXCEPT ![l] = [has |-> query[q].says, until |-> now + CacheTtl]]
         /\ IF query[q].says THEN Labelled(q, l) ELSE Goes(q, [query[q].from EXCEPT !.i = @ + 1])
  /\ Keeps(q) /\ UNCHANGED <<candidateCache, asked>>

(* pickMetricCandidate *)
Chosen(q, l, s) == Goes(q, [at |-> "range", label |-> l, series |-> s, began |-> query[q].began])

CandidateFromCache(q) ==
  /\ query[q].at = "series" /\ query[q].i = 1
  /\ Hit(candidateCache[query[q].label])
  /\ Chosen(q, query[q].label, candidateCache[query[q].label].series)
  /\ Unmoved /\ UNCHANGED <<labelCache, candidateCache, asked>>

ProbeSeries(q) ==
  /\ query[q].at = "series" /\ query[q].i <= Len(Candidates)
  /\ query[q].i = 1 => ~Hit(candidateCache[query[q].label])
  /\ Sends(q, backend.up /\ <<query[q].label, Candidates[query[q].i]>> \in backend.exposes)
  /\ Unmoved /\ UNCHANGED <<labelCache, candidateCache, asked>>

(* A candidate that exists is cached, and so is the first one when none
   seems to: the next minute does not probe again. *)
SeriesAnswered(q) ==
  /\ query[q].at = "wait" /\ query[q].from.at = "series"
  /\ LET l == query[q].from.label
         i == query[q].from.i
         s == IF query[q].says THEN Candidates[i] ELSE Candidates[1]
     IN  IF query[q].says \/ i = Len(Candidates)
         THEN /\ candidateCache' = [candidateCache EXCEPT ![l] = [series |-> s, until |-> now + CacheTtl]]
              /\ Chosen(q, l, s) /\ Keeps(q)
         ELSE /\ Goes(q, [query[q].from EXCEPT !.i = @ + 1])
              /\ UNCHANGED candidateCache /\ Unmoved
  /\ UNCHANGED <<labelCache, asked>>

(* query_range: the answer is data, nothing, or an error the tool reports. *)
QueryRange(q) ==
  /\ query[q].at = "range"
  /\ Goes(q, [at |-> "answered", began |-> query[q].began,
              says |-> IF ~backend.up THEN "error"
                       ELSE IF <<query[q].label, query[q].series>> \in backend.exposes
                       THEN "data" ELSE "nothing"])
  /\ Unmoved /\ UNCHANGED <<labelCache, candidateCache, asked>>

Read(q) ==
  /\ query[q].at = "answered"
  /\ Goes(q, Rest)
  /\ Unmoved /\ UNCHANGED <<labelCache, candidateCache, asked>>

-----------------------------------------------------------------------------
(* The service is exposed differently, or the backend goes away or returns. *)
Change(b) ==
  /\ changes < MaxChanges /\ b # backend
  /\ backend' = b /\ since' = now /\ settled' = now /\ changes' = changes + 1
  /\ UNCHANGED <<now, labelCache, candidateCache, query, asked>>

(* A request times out, is refused, or its body is cut short: the query hears
   nothing. *)
Fails(q) ==
  /\ changes < MaxChanges
  /\ query[q].at = "wait" /\ query[q].says
  /\ Goes(q, [query[q] EXCEPT !.says = FALSE])
  /\ since' = now /\ settled' = now /\ changes' = changes + 1
  /\ UNCHANGED <<now, backend, labelCache, candidateCache, asked>>

(* Between two requests a query does not pause. *)
Tick ==
  /\ now < MaxTime
  /\ \A q \in Queries : query[q].at \in {"idle", "wait"}
  /\ now' = now + 1
  /\ UNCHANGED <<backend, since, settled, labelCache, candidateCache, query, changes, asked>>

Next ==
  \/ \E q \in Queries :
       \/ Ask(q) \/ LabelFromCache(q) \/ NoLabel(q) \/ ProbeLabel(q) \/ LabelAnswered(q)
       \/ CandidateFromCache(q) \/ ProbeSeries(q) \/ SeriesAnswered(q) \/ QueryRange(q) \/ Read(q)
       \/ Fails(q)
  \/ \E b \in Backends : Change(b)
  \/ Tick
  \/ now = MaxTime /\ UNCHANGED vars

Spec == Init /\ [][Next]_vars

-----------------------------------------------------------------------------
(* What resolveServiceLabel can find: the first label that names the service
   is a label of one of the metric's series for it. *)
Leads(i) == Labels[i] \in backend.named /\ \A j \in 1 .. i - 1 : Labels[j] \notin backend.named

Visible == \E i \in DOMAIN Labels : Leads(i) /\ \E s \in SeriesNames : <<Labels[i], s>> \in backend.exposes

(* "absent is not zero" (prometheus.ts:305-308): a query is told that a
   service which can be found has no data only within a cache lifetime of the
   backend last changing or failing, or of an answer kept since for a query
   that began before; no query that began later keeps another wrong, whichever
   labels and candidates they probe meanwhile. *)
AbsenceIsRecent ==
  \A q \in Queries :
    query[q].at = "answered" /\ query[q].says = "nothing" /\ Visible =>
      query[q].began <= settled + CacheTtl
=============================================================================
