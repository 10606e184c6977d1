----------------------------- MODULE Tools_proofs -----------------------------
(***************************************************************************)
(* What is proved of the parts of Tools, for every value of its constants. *)
(***************************************************************************)
EXTENDS Tools, FoldLemmas, FiniteSetTheorems

----------------------------------------------------------------------------
\* Prometheus.  What is kept or under way is true of the backend as it is, unless the query it
\* was asked for began before the last change, or it is kept no longer than a cache time from
\* when such an answer was last kept.

LEMMA LengthFacts ==
    /\ Len(Candidates) \in Nat /\ Len(Candidates) >= 2 /\ Len(Labels) \in Nat /\ CacheTtl \in Nat
    /\ DOMAIN Candidates = 1 .. Len(Candidates) /\ DOMAIN Labels = 1 .. Len(Labels)
BY SeriesAssumption, TimesAssumption

\* The states of a query.
Seeking  == [at : {"label"}, i : 1 .. Len(Labels) + 1, began : Nat]
Scanning == [at : {"series"}, i : 1 .. Len(Candidates), label : Series!LabelNames, began : Nat]
Waiting  == [at : {"wait"}, from : Seeking \cup Scanning, says : BOOLEAN, began : Nat]
Ranging  == [at : {"range"}, label : Series!LabelNames, series : Series!SeriesNames, began : Nat]
Told     == [at : {"answered"}, began : Nat, says : {"error", "data", "nothing"}]

\* A query that began before the last change, and one that may still meet what such a query kept.
Old(r)   == r.began <= pSince
Early(r) == r.began <= settled + CacheTtl

\* What resolveServiceLabel and pickMetricCandidate answer when they are not misled.
Resolves(l) ==
    backend.named = {} \/ \E i \in DOMAIN Labels : Labels[i] = l /\ Series!Leads(i)

Rightly(l, s) ==
    <<l, s>> \in backend.exposes \/ \A j \in DOMAIN Candidates : <<l, Candidates[j]>> \notin backend.exposes

Sought(r)   == Early(r) \/ (backend.up => \A j \in 1 .. r.i - 1 : Labels[j] \notin backend.named)
Labelled(r) == Early(r) \/ (backend.up => Resolves(r.label))
Scanned(r)  == Old(r) \/ (backend.up => \A j \in 1 .. r.i - 1 : <<r.label, Candidates[j]>> \notin backend.exposes)
Picked(r)   == Early(r) \/ (backend.up => Rightly(r.label, r.series))

HeardLabel(r) ==
    Old(r) \/ (backend.up => (r.says = TRUE <=> Labels[r.from.i] \in backend.named))

HeardSeries(r) ==
    Old(r) \/ (backend.up => (r.says = TRUE <=> <<r.from.label, Candidates[r.from.i]>> \in backend.exposes))

SeekHolds(r)  == r \in Seeking /\ r.began <= pNow /\ Sought(r)
ScanHolds(r)  == r \in Scanning /\ r.began <= pNow /\ Labelled(r) /\ Scanned(r)
RangeHolds(r) == r \in Ranging /\ r.began <= pNow /\ Labelled(r) /\ Picked(r)

WaitHolds(r) ==
    /\ r \in Waiting /\ r.from.began = r.began /\ r.began <= pNow
    /\ r.from.at = "label" => r.from.i <= Len(Labels) /\ SeekHolds(r.from) /\ HeardLabel(r)
    /\ r.from.at = "series" => ScanHolds(r.from) /\ HeardSeries(r)

ToldHolds(r) == r \in Told /\ r.began <= pNow /\ (r.says = "nothing" => Early(r) \/ ~Series!Visible)

QueryHolds(r) ==
    /\ r.at \in {"idle", "label", "series", "wait", "range", "answered"}
    /\ r.at = "label" => SeekHolds(r)
    /\ r.at = "series" => ScanHolds(r)
    /\ r.at = "wait" => WaitHolds(r)
    /\ r.at = "range" => RangeHolds(r)
    /\ r.at = "answered" => ToldHolds(r)

\* What a cache keeps.
Fades(c) == c.until <= settled + CacheTtl

LabelKept(l, c) ==
    /\ c \in LabelAnswers /\ c.until <= pNow + CacheTtl
    /\ Fades(c) \/ (backend.up => (c.has = TRUE <=> l \in backend.named))

SeriesKept(l, c) ==
    /\ c \in SeriesAnswers /\ c.until <= pNow + CacheTtl
    /\ Fades(c) \/ (backend.up => Rightly(l, c.series))

CachesHold ==
    /\ labelCache = [l \in Series!LabelNames |-> labelCache[l]]
    /\ candidateCache = [l \in Series!LabelNames |-> candidateCache[l]]
    /\ \A l \in Series!LabelNames : labelCache[l] # None => LabelKept(l, labelCache[l])
    /\ \A l \in Series!LabelNames : candidateCache[l] # None => SeriesKept(l, candidateCache[l])

BackendTyped ==
    /\ pNow \in Nat /\ pSince \in Nat /\ settled \in Nat /\ pSince <= settled /\ settled <= pNow
    /\ backend.named \subseteq Series!LabelNames /\ backend.up \in BOOLEAN
    /\ backend.exposes \subseteq backend.named \X Series!SeriesNames

QueriesHold == query = [q \in Queries |-> query[q]] /\ \A q \in Queries : QueryHolds(query[q])

SeriesIInv == BackendTyped /\ CachesHold /\ QueriesHold

LEMMA BackendFacts ==
    ASSUME NEW b \in Series!Backends
    PROVE  /\ b.named \subseteq Series!LabelNames /\ b.up \in BOOLEAN
           /\ b.exposes \subseteq b.named \X Series!SeriesNames
<1>1. PICK e \in Exposures, up \in BOOLEAN : b = [named |-> e.named, exposes |-> e.exposes, up |-> up]
  BY DEF Series!Backends
<1>2. e.named \subseteq Series!LabelNames /\ e.exposes \subseteq e.named \X Series!SeriesNames
  BY SeriesAssumption
<1> QED
  BY <1>1, <1>2

LEMMA SeriesInit == Series!Init => SeriesIInv
<1> SUFFICES ASSUME Series!Init
             PROVE  SeriesIInv
  OBVIOUS
<1>1. BackendTyped
  BY BackendFacts DEF Series!Init, BackendTyped
<1>2. CachesHold
  BY DEF Series!Init, CachesHold
<1>3. QueriesHold
  BY DEF Series!Init, QueriesHold, QueryHolds, Series!Rest
<1> QED
  BY <1>1, <1>2, <1>3 DEF SeriesIInv

LEMMA OldIsEarly ==
    ASSUME BackendTyped, NEW r, r.began \in Nat, Old(r)
    PROVE  Early(r)
BY LengthFacts DEF BackendTyped, Old, Early

\* While the backend stands still, what held of a query holds; a change, which settles
\* everything anew, makes every query an old one.
Forward == pNow' \in Nat /\ settled' \in Nat /\ pNow <= pNow' /\ settled <= settled' /\ settled' <= pNow'

Onward == Forward /\ pSince' = pSince /\ backend' = backend

Afresh == Forward /\ pSince' = pNow /\ settled' = pNow /\ pNow' = pNow

LEMMA EarlyStays ==
    ASSUME BackendTyped, Forward, NEW r, r.began \in Nat
    PROVE  (Early(r) => Early(r)') /\ (r.began <= pNow => r.began <= pNow')
BY LengthFacts DEF BackendTyped, Forward, Early

LEMMA OthersStand ==
    ASSUME BackendTyped, Onward, NEW r, QueryHolds(r)
    PROVE  QueryHolds(r)'
<1>1. Forward /\ pSince' = pSince /\ backend' = backend
  BY DEF Onward
<1>2. ASSUME NEW x, SeekHolds(x)
      PROVE  SeekHolds(x)'
  BY <1>1, <1>2, EarlyStays DEF SeekHolds, Seeking, Sought
<1>3. ASSUME NEW x, ScanHolds(x)
      PROVE  ScanHolds(x)'
  <2>1. x \in Scanning /\ x.began \in Nat /\ x.began <= pNow
    BY <1>3 DEF ScanHolds, Scanning
  <2> QED
    BY <1>1, <1>3, <2>1, EarlyStays DEF ScanHolds, Labelled, Scanned, Old, Resolves, Series!Leads
<1>4. CASE r.at = "wait"
  <2>1. WaitHolds(r) /\ r.began \in Nat
    BY <1>4 DEF QueryHolds, WaitHolds, Waiting
  <2>2. WaitHolds(r)'
    BY <1>1, <1>2, <1>3, <2>1, EarlyStays DEF WaitHolds, HeardLabel, HeardSeries, Old
  <2> QED
    BY <1>4, <2>2 DEF QueryHolds
<1>5. CASE r.at = "range"
  <2>1. RangeHolds(r) /\ r.began \in Nat
    BY <1>5 DEF QueryHolds, RangeHolds, Ranging
  <2>2. RangeHolds(r)'
    BY <1>1, <2>1, EarlyStays DEF RangeHolds, Labelled, Picked, Resolves, Rightly, Series!Leads
  <2> QED
    BY <1>5, <2>2 DEF QueryHolds
<1>6. CASE r.at = "answered"
  <2>1. ToldHolds(r) /\ r.began \in Nat
    BY <1>6 DEF QueryHolds, ToldHolds, Told
  <2>2. ToldHolds(r)'
    BY <1>1, <2>1, EarlyStays DEF ToldHolds, Series!Visible, Series!Leads
  <2> QED
    BY <1>6, <2>2 DEF QueryHolds
<1> QED
  BY <1>2, <1>3, <1>4, <1>5, <1>6 DEF QueryHolds

LEMMA ChangeKeeps ==
    ASSUME BackendTyped, Afresh, NEW r, QueryHolds(r)
    PROVE  QueryHolds(r)'
<1>1. ASSUME NEW x, x.began \in Nat, x.began <= pNow
      PROVE  Early(x)' /\ Old(x)' /\ x.began <= pNow'
  BY <1>1, LengthFacts DEF BackendTyped, Afresh, Forward, Early, Old
<1>2. ASSUME NEW x, SeekHolds(x)
      PROVE  SeekHolds(x)'
  BY <1>1, <1>2 DEF SeekHolds, Seeking, Sought
<1>3. ASSUME NEW x, ScanHolds(x)
      PROVE  ScanHolds(x)'
  BY <1>1, <1>3 DEF ScanHolds, Scanning, Labelled, Scanned
<1>4. CASE r.at = "wait"
  <2>1. WaitHolds(r) /\ r.began \in Nat
    BY <1>4 DEF QueryHolds, WaitHolds, Waiting
  <2>2. WaitHolds(r)'
    BY <1>1, <1>2, <1>3, <2>1 DEF WaitHolds, HeardLabel, HeardSeries
  <2> QED
    BY <1>4, <2>2 DEF QueryHolds
<1>5. CASE r.at = "range"
  <2>1. RangeHolds(r)'
    BY <1>1, <1>5 DEF QueryHolds, RangeHolds, Ranging, Labelled, Picked
  <2> QED
    BY <1>5, <2>1 DEF QueryHolds
<1>6. CASE r.at = "answered"
  <2>1. ToldHolds(r)'
    BY <1>1, <1>6 DEF QueryHolds, ToldHolds, Told
  <2> QED
    BY <1>6, <2>1 DEF QueryHolds
<1> QED
  BY <1>2, <1>3, <1>4, <1>5, <1>6 DEF QueryHolds

LEMMA OnlyQuery ==
    ASSUME BackendTyped, QueriesHold, NEW q \in Queries, NEW step, QueryHolds(step), Series!Goes(q, step), Onward
    PROVE  QueriesHold'
<1>1. query' = [query EXCEPT ![q] = step] /\ query = [p \in Queries |-> query[p]]
  BY DEF Series!Goes, QueriesHold
<1>2. query' = [p \in Queries |-> query'[p]] /\ query'[q] = step /\ \A p \in Queries : p # q => query'[p] = query[p]
  BY <1>1
<1>3. ASSUME NEW p \in Queries
      PROVE  QueryHolds(query[p])' 
  <2>1. PICK r : r = query'[p] /\ QueryHolds(r)
    BY <1>2 DEF QueriesHold
  <2>2. QueryHolds(r)'
    BY <2>1, OthersStand
  <2> QED
    BY <2>1, <2>2
<1> QED
  BY <1>2, <1>3 DEF QueriesHold

\* An entry holds until its time is over.
LEMMA KeptStays ==
    ASSUME BackendTyped, Onward, NEW l, NEW c
    PROVE  (LabelKept(l, c) => LabelKept(l, c)') /\ (SeriesKept(l, c) => SeriesKept(l, c)')
<1>1. Forward /\ backend' = backend
  BY DEF Onward
<1>2. ASSUME c.until \in Nat, c.until <= pNow + CacheTtl
      PROVE  c.until <= pNow' + CacheTtl /\ (Fades(c) => Fades(c)')
  BY <1>1, <1>2, LengthFacts DEF Forward, BackendTyped, Fades
<1>3. LabelKept(l, c) => LabelKept(l, c)'
  BY <1>1, <1>2 DEF LabelKept, LabelAnswers
<1>4. SeriesKept(l, c) => SeriesKept(l, c)'
  BY <1>1, <1>2 DEF SeriesKept, SeriesAnswers, Rightly
<1> QED
  BY <1>3, <1>4

LEMMA CachesStand ==
    ASSUME BackendTyped, CachesHold, Onward, UNCHANGED <<labelCache, candidateCache>>
    PROVE  CachesHold'
BY KeptStays DEF CachesHold

\* A query goes a step on and keeps nothing.
LEMMA QueryMoves ==
    ASSUME SeriesIInv, NEW q \in Queries, NEW step, QueryHolds(step), Series!Goes(q, step), Series!Unmoved,
           UNCHANGED <<labelCache, candidateCache>>
    PROVE  SeriesIInv'
<1>1. BackendTyped /\ CachesHold /\ QueriesHold
  BY DEF SeriesIInv
<1>2. BackendTyped' /\ Onward
  BY <1>1 DEF Series!Unmoved, Series!Still, BackendTyped, Onward, Forward
<1> QED
  BY <1>1, <1>2, OnlyQuery, CachesStand DEF SeriesIInv

LEMMA AskPreserves ==
    ASSUME SeriesIInv, NEW q \in Queries, Series!Ask(q)
    PROVE  SeriesIInv'
<1>1. PICK step : step = [at |-> "label", i |-> 1, began |-> pNow]
  OBVIOUS
<1>2. Series!Goes(q, step) /\ Series!Unmoved /\ UNCHANGED <<labelCache, candidateCache>>
  BY <1>1 DEF Series!Ask
<1>3. QueryHolds(step)
  <2>1. Len(Labels) \in Nat /\ pNow \in Nat
    BY SeriesAssumption DEF SeriesIInv, BackendTyped
  <2>2. step \in Seeking
    BY <1>1, <2>1 DEF Seeking
  <2>3. Sought(step)
    BY <1>1 DEF Sought
  <2> QED
    BY <1>1, <2>1, <2>2, <2>3 DEF QueryHolds, SeekHolds
<1> QED
  BY <1>2, <1>3, QueryMoves

\* A search for the label goes on with the one found, or with the next.
LEMMA LabelFound ==
    ASSUME SeriesIInv, NEW r, r.began \in Nat, r.began <= pNow, NEW l \in Series!LabelNames,
           Early(r) \/ (backend.up => Resolves(l))
    PROVE  QueryHolds([at |-> "series", i |-> 1, label |-> l, began |-> r.began])
<1>1. PICK step : step = [at |-> "series", i |-> 1, label |-> l, began |-> r.began]
  OBVIOUS
<1>2. step.at = "series" /\ step.i = 1 /\ step.label = l /\ step.began = r.began
  BY <1>1
<1>3. step \in Scanning
  BY <1>1, LengthFacts DEF Scanning
<1>4. Labelled(step) /\ Scanned(step)
  BY <1>2 DEF Labelled, Scanned, Early
<1> QED
  BY <1>1, <1>2, <1>3, <1>4 DEF QueryHolds, ScanHolds

\* What a search hears of a label: it is the one, or the next is looked at.
LEMMA LabelHeard ==
    ASSUME SeriesIInv, NEW r, SeekHolds(r), r.i <= Len(Labels), NEW says \in BOOLEAN,
           Early(r) \/ (backend.up => (says = TRUE <=> Labels[r.i] \in backend.named))
    PROVE  /\ Labels[r.i] \in Series!LabelNames
           /\ says = TRUE => QueryHolds([at |-> "series", i |-> 1, label |-> Labels[r.i], began |-> r.began])
           /\ says = FALSE => QueryHolds([r EXCEPT !.i = @ + 1])
<1>1. r \in Seeking /\ r.i \in 1 .. Len(Labels) /\ r.at = "label" /\ r.began \in Nat /\ r.began <= pNow /\ Sought(r)
  BY LengthFacts DEF SeekHolds, Seeking
<1>2. Labels[r.i] \in Series!LabelNames /\ r.i \in DOMAIN Labels
  BY <1>1, LengthFacts DEF Series!LabelNames
<1>3. ASSUME says = TRUE
      PROVE  QueryHolds([at |-> "series", i |-> 1, label |-> Labels[r.i], began |-> r.began])
  <2>1. Early(r) \/ (backend.up => Resolves(Labels[r.i]))
    BY <1>1, <1>2, <1>3 DEF Sought, Resolves, Series!Leads
  <2> QED
    BY <1>1, <1>2, <2>1, LabelFound
<1>4. ASSUME says = FALSE
      PROVE  QueryHolds([r EXCEPT !.i = @ + 1])
  <2>1. PICK step : step = [r EXCEPT !.i = @ + 1]
    OBVIOUS
  <2>2. step.at = "label" /\ step.i = r.i + 1 /\ step.began = r.began
    BY <1>1, <2>1 DEF Seeking
  <2>3. step \in Seeking
    BY <1>1, <2>1, LengthFacts DEF Seeking
  <2>4. Sought(step)
    <3>1. Early(step) <=> Early(r)
      BY <2>2 DEF Early
    <3>2. \A j \in 1 .. step.i - 1 : j \in 1 .. r.i - 1 \/ j = r.i
      BY <1>1, <2>2
    <3> QED
      BY <1>1, <1>4, <3>1, <3>2 DEF Sought
  <2> QED
    BY <1>1, <2>1, <2>2, <2>3, <2>4 DEF QueryHolds, SeekHolds
<1> QED
  BY <1>2, <1>3, <1>4

LEMMA LabelFromCachePreserves ==
    ASSUME SeriesIInv, NEW q \in Queries, Series!LabelFromCache(q)
    PROVE  SeriesIInv'
<1>1. PICK r : r = query[q]
  OBVIOUS
<1>2. r.at = "label" /\ r.i <= Len(Labels) /\ SeekHolds(r)
  BY <1>1 DEF Series!LabelFromCache, SeriesIInv, QueriesHold, QueryHolds
<1>3. r.i \in 1 .. Len(Labels) /\ r.began \in Nat /\ r.began <= pNow /\ Labels[r.i] \in Series!LabelNames
  BY <1>2, LengthFacts DEF SeekHolds, Seeking, Series!LabelNames
<1>4. PICK l \in Series!LabelNames : l = Labels[r.i]
  BY <1>3
<1>5. PICK c : c = labelCache[l]
  OBVIOUS
<1>6. /\ c # None /\ c.until > pNow /\ Series!Unmoved /\ UNCHANGED <<labelCache, candidateCache>>
      /\ IF c.has THEN Series!Goes(q, [at |-> "series", i |-> 1, label |-> l, began |-> r.began])
         ELSE Series!Goes(q, [r EXCEPT !.i = @ + 1])
  BY <1>1, <1>4, <1>5 DEF Series!LabelFromCache, Series!Hit, Series!Cached, Series!Labelled
<1>7. LabelKept(l, c)
  BY <1>5, <1>6 DEF SeriesIInv, CachesHold
<1>8. c.has \in BOOLEAN /\ c.until \in Nat
  BY <1>7 DEF LabelKept, LabelAnswers
<1>9. Early(r) \/ (backend.up => (c.has = TRUE <=> l \in backend.named))
  <2>1. Fades(c) => Early(r)
    BY <1>3, <1>6, <1>8, LengthFacts DEF Fades, Early, SeriesIInv, BackendTyped
  <2> QED
    BY <1>7, <2>1 DEF LabelKept
<1>10. /\ c.has = TRUE => QueryHolds([at |-> "series", i |-> 1, label |-> l, began |-> r.began])
       /\ c.has = FALSE => QueryHolds([r EXCEPT !.i = @ + 1])
  BY <1>2, <1>4, <1>8, <1>9, LabelHeard
<1> QED
  BY <1>6, <1>8, <1>10, QueryMoves

LEMMA NoLabelPreserves ==
    ASSUME SeriesIInv, NEW q \in Queries, Series!NoLabel(q)
    PROVE  SeriesIInv'
<1>1. PICK r : r = query[q]
  OBVIOUS
<1>2. r.at = "label" /\ r.i > Len(Labels) /\ SeekHolds(r)
  BY <1>1 DEF Series!NoLabel, SeriesIInv, QueriesHold, QueryHolds
<1>3. r.i = Len(Labels) + 1 /\ r.began \in Nat /\ r.began <= pNow /\ Sought(r)
  BY <1>2, LengthFacts DEF SeekHolds, Seeking
<1>4. Labels[1] \in Series!LabelNames /\ Series!Goes(q, [at |-> "series", i |-> 1, label |-> Labels[1], began |-> r.began])
  <2>1. 1 \in DOMAIN Labels
    BY SeriesAssumption
  <2> QED
    BY <1>1, <2>1 DEF Series!NoLabel, Series!Labelled, Series!LabelNames
<1>5. Early(r) \/ (backend.up => Resolves(Labels[1]))
  <2>1. Early(r) \/ (backend.up => \A j \in DOMAIN Labels : Labels[j] \notin backend.named)
    BY <1>3, LengthFacts DEF Sought
  <2>2. \A l \in backend.named : \E j \in DOMAIN Labels : l = Labels[j]
    BY DEF SeriesIInv, BackendTyped, Series!LabelNames
  <2> QED
    BY <2>1, <2>2 DEF Resolves
<1>6. QueryHolds([at |-> "series", i |-> 1, label |-> Labels[1], began |-> r.began])
  BY <1>3, <1>4, <1>5, LabelFound
<1>7. Series!Unmoved /\ UNCHANGED <<labelCache, candidateCache>>
  BY DEF Series!NoLabel
<1> QED
  BY <1>4, <1>6, <1>7, QueryMoves

\* A request that leaves now is answered by the backend as it is.
LEMMA ProbeLabelPreserves ==
    ASSUME SeriesIInv, NEW q \in Queries, Series!ProbeLabel(q)
    PROVE  SeriesIInv'
<1>1. PICK r : r = query[q]
  OBVIOUS
<1>2. r.at = "label" /\ r.i <= Len(Labels) /\ SeekHolds(r)
  BY <1>1 DEF Series!ProbeLabel, SeriesIInv, QueriesHold, QueryHolds
<1>3. PICK says \in BOOLEAN : says = (backend.up /\ Labels[r.i] \in backend.named)
  OBVIOUS
<1>4. PICK step : step = [at |-> "wait", from |-> r, says |-> says, began |-> r.began]
  OBVIOUS
<1>5. Series!Goes(q, step) /\ Series!Unmoved /\ UNCHANGED <<labelCache, candidateCache>>
  BY <1>1, <1>3, <1>4 DEF Series!ProbeLabel, Series!Sends
<1>6. step.at = "wait" /\ step.from = r /\ step.says = says /\ step.began = r.began
  BY <1>4
<1>7. r \in Seeking /\ r.began \in Nat /\ r.began <= pNow
  BY <1>2 DEF SeekHolds, Seeking
<1>8. step \in Waiting
  BY <1>4, <1>7 DEF Waiting
<1>9. HeardLabel(step)
  BY <1>3, <1>6 DEF HeardLabel
<1>10. WaitHolds(step)
  BY <1>2, <1>6, <1>7, <1>8, <1>9 DEF WaitHolds
<1> QED
  BY <1>5, <1>6, <1>10, QueryMoves DEF QueryHolds

LEMMA ProbeSeriesPreserves ==
    ASSUME SeriesIInv, NEW q \in Queries, Series!ProbeSeries(q)
    PROVE  SeriesIInv'
<1>1. PICK r : r = query[q]
  OBVIOUS
<1>2. r.at = "series" /\ ScanHolds(r)
  BY <1>1 DEF Series!ProbeSeries, SeriesIInv, QueriesHold, QueryHolds
<1>3. PICK says \in BOOLEAN : says = (backend.up /\ <<r.label, Candidates[r.i]>> \in backend.exposes)
  OBVIOUS
<1>4. PICK step : step = [at |-> "wait", from |-> r, says |-> says, began |-> r.began]
  OBVIOUS
<1>5. Series!Goes(q, step) /\ Series!Unmoved /\ UNCHANGED <<labelCache, candidateCache>>
  BY <1>1, <1>3, <1>4 DEF Series!ProbeSeries, Series!Sends
<1>6. step.at = "wait" /\ step.from = r /\ step.says = says /\ step.began = r.began
  BY <1>4
<1>7. r \in Scanning /\ r.began \in Nat /\ r.began <= pNow
  BY <1>2 DEF ScanHolds, Scanning
<1>8. step \in Waiting
  BY <1>4, <1>7 DEF Waiting
<1>9. HeardSeries(step)
  BY <1>3, <1>6 DEF HeardSeries
<1>10. WaitHolds(step)
  BY <1>2, <1>6, <1>7, <1>8, <1>9 DEF WaitHolds
<1> QED
  BY <1>5, <1>6, <1>10, QueryMoves DEF QueryHolds

\* What an old query keeps is kept a cache time from now.
LEMMA KeepsFacts ==
    ASSUME SeriesIInv, NEW q \in Queries, query[q].began \in Nat, Series!Keeps(q)
    PROVE  /\ BackendTyped' /\ Onward
           /\ Old(query[q]) => settled' = pNow
<1>1. BackendTyped /\ UNCHANGED <<pNow, backend, pSince>>
  BY DEF SeriesIInv, Series!Keeps, Series!Still
<1>2. settled' = IF Old(query[q]) THEN pNow ELSE settled
  BY DEF Series!Keeps, Old
<1>3. settled' \in Nat /\ settled <= settled' /\ settled' <= pNow /\ pSince <= settled'
  <2>1. CASE Old(query[q])
    BY <1>1, <1>2, <2>1 DEF BackendTyped
  <2>2. CASE ~Old(query[q])
    BY <1>1, <1>2, <2>2 DEF BackendTyped
  <2> QED
    BY <2>1, <2>2
<1> QED
  BY <1>1, <1>2, <1>3 DEF BackendTyped, Onward, Forward

\* A cache takes an entry that holds.
LEMMA LabelCacheTakes ==
    ASSUME BackendTyped, CachesHold, Onward, UNCHANGED candidateCache,
           NEW l \in Series!LabelNames, NEW c, LabelKept(l, c)', labelCache' = [labelCache EXCEPT ![l] = c]
    PROVE  CachesHold'
<1>1. /\ labelCache' = [k \in Series!LabelNames |-> labelCache'[k]] /\ labelCache'[l] = c
      /\ \A k \in Series!LabelNames : k # l => labelCache'[k] = labelCache[k]
  BY DEF CachesHold
<1>2. ASSUME NEW k \in Series!LabelNames, labelCache'[k] # None
      PROVE  LabelKept(k, labelCache[k])'
  <2>1. CASE k = l
    BY <1>1, <2>1
  <2>2. CASE k # l
    BY <1>1, <1>2, <2>2, KeptStays DEF CachesHold
  <2> QED
    BY <2>1, <2>2
<1>3. ASSUME NEW k \in Series!LabelNames, candidateCache'[k] # None
      PROVE  SeriesKept(k, candidateCache[k])'
  BY <1>3, KeptStays DEF CachesHold
<1> QED
  BY <1>1, <1>2, <1>3 DEF CachesHold

LEMMA SeriesCacheTakes ==
    ASSUME BackendTyped, CachesHold, Onward, UNCHANGED labelCache,
           NEW l \in Series!LabelNames, NEW c, SeriesKept(l, c)', candidateCache' = [candidateCache EXCEPT ![l] = c]
    PROVE  CachesHold'
<1>1. /\ candidateCache' = [k \in Series!LabelNames |-> candidateCache'[k]] /\ candidateCache'[l] = c
      /\ \A k \in Series!LabelNames : k # l => candidateCache'[k] = candidateCache[k]
  BY DEF CachesHold
<1>2. ASSUME NEW k \in Series!LabelNames, candidateCache'[k] # None
      PROVE  SeriesKept(k, candidateCache[k])'
  <2>1. CASE k = l
    BY <1>1, <2>1
  <2>2. CASE k # l
    BY <1>1, <1>2, <2>2, KeptStays DEF CachesHold
  <2> QED
    BY <2>1, <2>2
<1>3. ASSUME NEW k \in Series!LabelNames, labelCache'[k] # None
      PROVE  LabelKept(k, labelCache[k])'
  BY <1>3, KeptStays DEF CachesHold
<1> QED
  BY <1>1, <1>2, <1>3 DEF CachesHold

LEMMA LabelAnsweredPreserves ==
    ASSUME SeriesIInv, NEW q \in Queries, Series!LabelAnswered(q)
    PROVE  SeriesIInv'
<1>1. PICK w : w = query[q]
  OBVIOUS
<1>2. w.at = "wait" /\ w.from.at = "label" /\ WaitHolds(w)
  BY <1>1 DEF Series!LabelAnswered, SeriesIInv, QueriesHold, QueryHolds
<1>3. PICK r : r = w.from
  OBVIOUS
<1>4. /\ r.i <= Len(Labels) /\ SeekHolds(r) /\ HeardLabel(w) /\ r.began = w.began
      /\ w.says \in BOOLEAN /\ w.began \in Nat /\ pNow \in Nat
  BY <1>2, <1>3 DEF WaitHolds, Waiting, SeriesIInv, BackendTyped
<1>5. Old(w) => Early(r)
  BY <1>4, OldIsEarly DEF Old, SeriesIInv
<1>6. Early(r) \/ (backend.up => (w.says = TRUE <=> Labels[r.i] \in backend.named))
  BY <1>3, <1>4, <1>5 DEF HeardLabel
<1>7. PICK l \in Series!LabelNames : l = Labels[r.i]
  BY <1>4, <1>6, LabelHeard
<1>8. /\ w.says = TRUE => QueryHolds([at |-> "series", i |-> 1, label |-> l, began |-> w.began])
      /\ w.says = FALSE => QueryHolds([r EXCEPT !.i = @ + 1])
  BY <1>4, <1>6, <1>7, LabelHeard
<1>9. PICK c : c = [has |-> w.says, until |-> pNow + CacheTtl]
  OBVIOUS
<1>10. /\ labelCache' = [labelCache EXCEPT ![l] = c] /\ Series!Keeps(q) /\ UNCHANGED candidateCache
       /\ IF w.says THEN Series!Goes(q, [at |-> "series", i |-> 1, label |-> l, began |-> w.began])
          ELSE Series!Goes(q, [r EXCEPT !.i = @ + 1])
  BY <1>1, <1>3, <1>7, <1>9 DEF Series!LabelAnswered, Series!Labelled
<1>11. BackendTyped' /\ Onward /\ (Old(w) => settled' = pNow) /\ UNCHANGED <<backend, pNow>>
  BY <1>1, <1>4, <1>10, KeepsFacts DEF Series!Keeps, Series!Still
<1>12. LabelKept(l, c)'
  <2>1. c \in LabelAnswers /\ c.has = w.says /\ c.until = pNow + CacheTtl /\ c.until <= pNow' + CacheTtl
    BY <1>4, <1>9, <1>11, LengthFacts DEF LabelAnswers
  <2>2. Old(w) => Fades(c)'
    BY <1>11, <2>1 DEF Fades
  <2>3. Old(w) \/ (backend.up => (c.has = TRUE <=> l \in backend.named))
    BY <1>3, <1>4, <1>7, <2>1 DEF HeardLabel
  <2> QED
    BY <1>11, <2>1, <2>2, <2>3 DEF LabelKept
<1>13. CachesHold'
  BY <1>10, <1>11, <1>12, LabelCacheTakes DEF SeriesIInv
<1>14. QueriesHold'
  BY <1>4, <1>8, <1>10, <1>11, OnlyQuery DEF SeriesIInv
<1> QED
  BY <1>11, <1>13, <1>14 DEF SeriesIInv

\* The candidate is chosen.
LEMMA ChosenHolds ==
    ASSUME SeriesIInv, NEW r, ScanHolds(r), NEW s \in Series!SeriesNames,
           Early(r) \/ (backend.up => Rightly(r.label, s))
    PROVE  QueryHolds([at |-> "range", label |-> r.label, series |-> s, began |-> r.began])
<1>1. PICK step : step = [at |-> "range", label |-> r.label, series |-> s, began |-> r.began]
  OBVIOUS
<1>2. step.at = "range" /\ step.label = r.label /\ step.series = s /\ step.began = r.began
  BY <1>1
<1>3. r.label \in Series!LabelNames /\ r.began \in Nat /\ r.began <= pNow /\ Labelled(r)
  BY DEF ScanHolds, Scanning
<1>4. step \in Ranging
  BY <1>1, <1>3 DEF Ranging
<1>5. Labelled(step) /\ Picked(step)
  BY <1>2, <1>3 DEF Labelled, Picked, Early
<1> QED
  BY <1>1, <1>2, <1>3, <1>4, <1>5 DEF QueryHolds, RangeHolds

LEMMA CandidateFromCachePreserves ==
    ASSUME SeriesIInv, NEW q \in Queries, Series!CandidateFromCache(q)
    PROVE  SeriesIInv'
<1>1. PICK r : r = query[q]
  OBVIOUS
<1>2. r.at = "series" /\ ScanHolds(r)
  BY <1>1 DEF Series!CandidateFromCache, SeriesIInv, QueriesHold, QueryHolds
<1>3. r.label \in Series!LabelNames /\ r.began \in Nat /\ r.began <= pNow
  BY <1>2 DEF ScanHolds, Scanning
<1>4. PICK c : c = candidateCache[r.label]
  OBVIOUS
<1>5. /\ c # None /\ c.until > pNow /\ Series!Unmoved /\ UNCHANGED <<labelCache, candidateCache>>
      /\ Series!Goes(q, [at |-> "range", label |-> r.label, series |-> c.series, began |-> r.began])
  BY <1>1, <1>4 DEF Series!CandidateFromCache, Series!Hit, Series!Cached, Series!Chosen
<1>6. SeriesKept(r.label, c)
  BY <1>3, <1>4, <1>5 DEF SeriesIInv, CachesHold
<1>7. c.series \in Series!SeriesNames /\ c.until \in Nat
  BY <1>6 DEF SeriesKept, SeriesAnswers
<1>8. Fades(c) => Early(r)
  BY <1>3, <1>5, <1>7, LengthFacts DEF Fades, Early, SeriesIInv, BackendTyped
<1>9. QueryHolds([at |-> "range", label |-> r.label, series |-> c.series, began |-> r.began])
  BY <1>2, <1>6, <1>7, <1>8, ChosenHolds DEF SeriesKept
<1> QED
  BY <1>5, <1>9, QueryMoves

\* A scan without the candidate it has heard of, and what the last answer says of its choice.
LEMMA ScannedMore ==
    ASSUME SeriesIInv, NEW w, w.at = "wait", w.from.at = "series", WaitHolds(w), w.says = FALSE
    PROVE  \/ Old(w)
           \/ backend.up => \A j \in 1 .. w.from.i : <<w.from.label, Candidates[j]>> \notin backend.exposes
<1>1. PICK r : r = w.from
  OBVIOUS
<1>2. r \in Scanning /\ Scanned(r) /\ HeardSeries(w) /\ r.began = w.began
  BY <1>1 DEF WaitHolds, ScanHolds
<1>3. r.i \in Nat
  BY <1>2, LengthFacts DEF Scanning
<1>4. \A j \in 1 .. r.i : j \in 1 .. r.i - 1 \/ j = r.i
  BY <1>3
<1> QED
  BY <1>1, <1>2, <1>4 DEF Scanned, HeardSeries, Old

LEMMA LastChosen ==
    ASSUME SeriesIInv, NEW w, w.at = "wait", w.from.at = "series", WaitHolds(w),
           w.says = TRUE \/ w.from.i = Len(Candidates),
           NEW s, s = IF w.says THEN Candidates[w.from.i] ELSE Candidates[1]
    PROVE  s \in Series!SeriesNames /\ (Old(w) \/ (backend.up => Rightly(w.from.label, s)))
<1>1. PICK r : r = w.from
  OBVIOUS
<1>2. r \in Scanning /\ HeardSeries(w) /\ w.says \in BOOLEAN
  BY <1>1 DEF WaitHolds, ScanHolds, Waiting
<1>3. r.i \in DOMAIN Candidates /\ 1 \in DOMAIN Candidates
  BY <1>2, LengthFacts DEF Scanning
<1>4. s \in Series!SeriesNames
  BY <1>1, <1>3 DEF Series!SeriesNames
<1>5. CASE w.says = TRUE
  BY <1>1, <1>2, <1>4, <1>5 DEF HeardSeries, Rightly
<1>6. CASE w.says = FALSE
  <2>1. w.from.i = Len(Candidates)
    BY <1>6
  <2>2. Old(w) \/ (backend.up => \A j \in DOMAIN Candidates : <<w.from.label, Candidates[j]>> \notin backend.exposes)
    BY <1>6, <2>1, ScannedMore, LengthFacts
  <2> QED
    BY <1>4, <2>2 DEF Rightly
<1> QED
  BY <1>2, <1>5, <1>6

LEMMA ScanGoesOn ==
    ASSUME SeriesIInv, NEW w, w.at = "wait", w.from.at = "series", WaitHolds(w),
           w.says = FALSE, w.from.i # Len(Candidates)
    PROVE  QueryHolds([w.from EXCEPT !.i = @ + 1])
<1>1. PICK r : r = w.from
  OBVIOUS
<1>2. r \in Scanning /\ Labelled(r) /\ r.began <= pNow /\ r.began = w.began
  BY <1>1 DEF WaitHolds, ScanHolds
<1>3. r.i \in 1 .. Len(Candidates) /\ r.i + 1 \in 1 .. Len(Candidates) /\ r.began \in Nat /\ r.label \in Series!LabelNames
  BY <1>1, <1>2, LengthFacts DEF Scanning
<1>4. PICK step : step = [r EXCEPT !.i = @ + 1]
  OBVIOUS
<1>5. step = [at |-> "series", i |-> r.i + 1, label |-> r.label, began |-> r.began]
  <2>1. r = [at |-> "series", i |-> r.i, label |-> r.label, began |-> r.began]
    BY <1>2 DEF Scanning
  <2> QED
    BY <1>4, <2>1
<1>6. step \in Scanning
  BY <1>3, <1>5 DEF Scanning
<1>7. step.at = "series" /\ step.i = r.i + 1 /\ step.label = r.label /\ step.began = r.began
  BY <1>5
<1>8. step.i - 1 = r.i
  BY <1>3, <1>7
<1>9. Labelled(step) /\ Scanned(step)
  <2>1. Old(w) \/ (backend.up => \A j \in 1 .. r.i : <<r.label, Candidates[j]>> \notin backend.exposes)
    BY <1>1, ScannedMore
  <2> QED
    BY <1>2, <1>7, <1>8, <2>1 DEF Labelled, Scanned, Early, Old
<1> QED
  BY <1>1, <1>2, <1>4, <1>6, <1>7, <1>9 DEF QueryHolds, ScanHolds

LEMMA SeriesAnsweredPreserves ==
    ASSUME SeriesIInv, NEW q \in Queries, Series!SeriesAnswered(q)
    PROVE  SeriesIInv'
<1>1. PICK w : w = query[q]
  OBVIOUS
<1>2. w.at = "wait" /\ w.from.at = "series" /\ WaitHolds(w)
  BY <1>1 DEF Series!SeriesAnswered, SeriesIInv, QueriesHold, QueryHolds
<1>3. PICK r : r = w.from
  OBVIOUS
<1>4. /\ ScanHolds(r) /\ r.label \in Series!LabelNames /\ r.began = w.began
      /\ w.says \in BOOLEAN /\ w.began \in Nat /\ pNow \in Nat
  BY <1>2, <1>3 DEF WaitHolds, ScanHolds, Waiting, Scanning, SeriesIInv, BackendTyped
<1>5. CASE w.says = TRUE \/ r.i = Len(Candidates)
  <2>1. PICK s : s = IF w.says THEN Candidates[r.i] ELSE Candidates[1]
    OBVIOUS
  <2>2. PICK c : c = [series |-> s, until |-> pNow + CacheTtl]
    OBVIOUS
  <2>3. /\ candidateCache' = [candidateCache EXCEPT ![r.label] = c] /\ Series!Keeps(q) /\ UNCHANGED labelCache
        /\ Series!Goes(q, [at |-> "range", label |-> r.label, series |-> s, began |-> r.began])
    BY <1>1, <1>3, <1>4, <1>5, <2>1, <2>2 DEF Series!SeriesAnswered, Series!Chosen
  <2>4. s \in Series!SeriesNames /\ (Old(w) \/ (backend.up => Rightly(r.label, s)))
    BY <1>2, <1>3, <1>5, <2>1, LastChosen
  <2>5. BackendTyped' /\ Onward /\ (Old(w) => settled' = pNow) /\ UNCHANGED <<backend, pNow>>
    BY <1>1, <1>4, <2>3, KeepsFacts DEF Series!Keeps, Series!Still
  <2>6. SeriesKept(r.label, c)'
    <3>1. c \in SeriesAnswers /\ c.series = s /\ c.until = pNow + CacheTtl /\ c.until <= pNow' + CacheTtl
      BY <1>4, <2>2, <2>4, <2>5, LengthFacts DEF SeriesAnswers
    <3>2. Old(w) => Fades(c)'
      BY <2>5, <3>1 DEF Fades
    <3> QED
      BY <2>4, <2>5, <3>1, <3>2 DEF SeriesKept, Rightly
  <2>7. CachesHold'
    BY <1>4, <2>3, <2>5, <2>6, SeriesCacheTakes DEF SeriesIInv
  <2>8. Old(w) => Early(r)
    BY <1>4, OldIsEarly DEF Old, SeriesIInv
  <2>9. QueryHolds([at |-> "range", label |-> r.label, series |-> s, began |-> r.began])
    BY <1>4, <2>4, <2>8, ChosenHolds
  <2>10. QueriesHold'
    BY <2>3, <2>5, <2>9, OnlyQuery DEF SeriesIInv
  <2> QED
    BY <2>5, <2>7, <2>10 DEF SeriesIInv
<1>6. CASE w.says = FALSE /\ r.i # Len(Candidates)
  <2>1. /\ Series!Goes(q, [r EXCEPT !.i = @ + 1]) /\ Series!Unmoved
        /\ UNCHANGED <<labelCache, candidateCache>>
    BY <1>1, <1>3, <1>6 DEF Series!SeriesAnswered
  <2>2. QueryHolds([r EXCEPT !.i = @ + 1])
    BY <1>2, <1>3, <1>6, ScanGoesOn
  <2> QED
    BY <2>1, <2>2, QueryMoves
<1> QED
  BY <1>4, <1>5, <1>6

\* With the right label and the right candidate, a service that can be found has data.
LEMMA FoundHasData ==
    ASSUME BackendTyped, NEW l, NEW s, Resolves(l), Rightly(l, s), Series!Visible
    PROVE  <<l, s>> \in backend.exposes
<1>1. PICK i \in DOMAIN Labels, t \in Series!SeriesNames : Series!Leads(i) /\ <<Labels[i], t>> \in backend.exposes
  BY DEF Series!Visible
<1>2. PICK j \in DOMAIN Labels : Labels[j] = l /\ Series!Leads(j)
  BY <1>1 DEF Resolves, Series!Leads
<1>3. i = j
  <2>1. i \in Nat /\ j \in Nat /\ i >= 1 /\ j >= 1
    BY LengthFacts
  <2>2. i < j => i \in 1 .. j - 1
    BY <2>1
  <2>3. j < i => j \in 1 .. i - 1
    BY <2>1
  <2> QED
    BY <1>1, <1>2, <2>1, <2>2, <2>3 DEF Series!Leads
<1>4. PICK k \in DOMAIN Candidates : t = Candidates[k]
  BY DEF Series!SeriesNames
<1> QED
  BY <1>1, <1>2, <1>3, <1>4 DEF Rightly

LEMMA QueryRangePreserves ==
    ASSUME SeriesIInv, NEW q \in Queries, Series!QueryRange(q)
    PROVE  SeriesIInv'
<1>1. PICK r : r = query[q]
  OBVIOUS
<1>2. r.at = "range" /\ RangeHolds(r)
  BY <1>1 DEF Series!QueryRange, SeriesIInv, QueriesHold, QueryHolds
<1>3. r.began \in Nat /\ r.began <= pNow /\ Labelled(r) /\ Picked(r)
  BY <1>2 DEF RangeHolds, Ranging
<1>4. PICK says : says = IF ~backend.up THEN "error"
                         ELSE IF <<r.label, r.series>> \in backend.exposes THEN "data" ELSE "nothing"
  OBVIOUS
<1>5. PICK step : step = [at |-> "answered", began |-> r.began, says |-> says]
  OBVIOUS
<1>6. Series!Goes(q, step) /\ Series!Unmoved /\ UNCHANGED <<labelCache, candidateCache>>
  BY <1>1, <1>4, <1>5 DEF Series!QueryRange
<1>7. step.at = "answered" /\ step.began = r.began /\ step.says = says
  BY <1>5
<1>8. says \in {"error", "data", "nothing"} /\ (says = "nothing" => Early(r) \/ ~Series!Visible)
  <2>1. Early(r) \/ (backend.up /\ Series!Visible => <<r.label, r.series>> \in backend.exposes)
    BY <1>3, FoundHasData DEF Labelled, Picked, SeriesIInv
  <2> QED
    BY <1>4, <2>1
<1>9. step \in Told
  BY <1>3, <1>5, <1>8 DEF Told
<1>10. ToldHolds(step)
  BY <1>3, <1>7, <1>8, <1>9 DEF ToldHolds, Early
<1> QED
  BY <1>6, <1>7, <1>10, QueryMoves DEF QueryHolds

LEMMA ReadPreserves ==
    ASSUME SeriesIInv, NEW q \in Queries, Series!Read(q)
    PROVE  SeriesIInv'
<1>1. PICK step : step = Series!Rest
  OBVIOUS
<1>2. Series!Goes(q, step) /\ Series!Unmoved /\ UNCHANGED <<labelCache, candidateCache>>
  BY <1>1 DEF Series!Read
<1>3. QueryHolds(step)
  BY <1>1 DEF QueryHolds, Series!Rest
<1> QED
  BY <1>2, <1>3, QueryMoves

\* A change, or a request that fails: everything kept or under way is old.
LEMMA CachesAfresh ==
    ASSUME BackendTyped, CachesHold, Afresh, UNCHANGED <<labelCache, candidateCache>>
    PROVE  CachesHold'
<1>1. pNow \in Nat /\ settled' = pNow /\ pNow' = pNow
  BY DEF BackendTyped, Afresh
<1>2. ASSUME NEW c, c.until <= pNow + CacheTtl
      PROVE  Fades(c)' /\ c.until <= pNow' + CacheTtl
  BY <1>1, <1>2 DEF Fades
<1>3. ASSUME NEW l, NEW c
      PROVE  (LabelKept(l, c) => LabelKept(l, c)') /\ (SeriesKept(l, c) => SeriesKept(l, c)')
  BY <1>2 DEF LabelKept, SeriesKept
<1> QED
  BY <1>3 DEF CachesHold

LEMMA ChangePreserves ==
    ASSUME SeriesIInv, NEW b \in Series!Backends, Series!Change(b)
    PROVE  SeriesIInv'
<1>1. BackendTyped /\ CachesHold /\ QueriesHold
  BY DEF SeriesIInv
<1>2. /\ pSince' = pNow /\ settled' = pNow /\ pNow' = pNow /\ backend' = b
      /\ UNCHANGED <<labelCache, candidateCache, query>>
  BY DEF Series!Change
<1>3. BackendTyped' /\ Afresh
  BY <1>1, <1>2, BackendFacts DEF BackendTyped, Afresh, Forward
<1> QED
  BY <1>1, <1>2, <1>3, ChangeKeeps, CachesAfresh DEF SeriesIInv, QueriesHold

LEMMA FailsPreserves ==
    ASSUME SeriesIInv, NEW q \in Queries, Series!Fails(q)
    PROVE  SeriesIInv'
<1>1. BackendTyped /\ CachesHold /\ QueriesHold
  BY DEF SeriesIInv
<1>2. /\ pSince' = pNow /\ settled' = pNow /\ UNCHANGED <<pNow, backend, labelCache, candidateCache>>
      /\ query' = [query EXCEPT ![q] = [query[q] EXCEPT !.says = FALSE]] /\ query[q].at = "wait"
  BY DEF Series!Fails, Series!Goes
<1>3. BackendTyped' /\ Afresh
  BY <1>1, <1>2 DEF BackendTyped, Afresh, Forward
<1>4. PICK w : w = query[q] /\ WaitHolds(w)'
  BY <1>1, <1>2, <1>3, ChangeKeeps DEF QueriesHold, QueryHolds
<1>5. PICK v : v = [w EXCEPT !.says = FALSE]
  OBVIOUS
<1>6. WaitHolds(v)' /\ v.at = "wait"
  <2>1. w \in Waiting
    BY <1>4 DEF WaitHolds
  <2>2. v.at = "wait" /\ v.from = w.from /\ v.began = w.began /\ v \in Waiting
    BY <1>5, <2>1 DEF Waiting
  <2>3. Old(v)'
    BY <1>2, <1>4, <2>2 DEF WaitHolds, Old
  <2> QED
    BY <1>4, <2>2, <2>3 DEF WaitHolds, HeardLabel, HeardSeries
<1>7. query' = [p \in Queries |-> query'[p]] /\ query'[q] = v /\ \A p \in Queries : p # q => query'[p] = query[p]
  BY <1>1, <1>2, <1>4, <1>5 DEF QueriesHold
<1>8. QueriesHold'
  BY <1>1, <1>3, <1>6, <1>7, ChangeKeeps DEF QueriesHold, QueryHolds
<1> QED
  BY <1>1, <1>2, <1>3, <1>8, CachesAfresh DEF SeriesIInv

\* Time passes, or nothing happens.
LEMMA SeriesPasses ==
    ASSUME SeriesIInv, pNow' \in Nat, pNow <= pNow',
           UNCHANGED <<backend, pSince, settled, labelCache, candidateCache, query>>
    PROVE  SeriesIInv'
<1>1. BackendTyped /\ CachesHold /\ QueriesHold
  BY DEF SeriesIInv
<1>2. BackendTyped' /\ Onward
  BY <1>1 DEF BackendTyped, Onward, Forward
<1> QED
  BY <1>1, <1>2, OthersStand, CachesStand DEF SeriesIInv, QueriesHold

LEMMA SeriesUnchanged ==
    ASSUME SeriesIInv, UNCHANGED prometheus
    PROVE  SeriesIInv'
<1>1. pNow' \in Nat /\ pNow <= pNow' /\ UNCHANGED <<backend, pSince, settled, labelCache, candidateCache, query>>
  BY DEF prometheus, SeriesIInv, BackendTyped
<1> QED
  BY <1>1, SeriesPasses

LEMMA TickPreserves ==
    ASSUME SeriesIInv, Series!Tick
    PROVE  SeriesIInv'
<1>1. pNow' \in Nat /\ pNow <= pNow' /\ UNCHANGED <<backend, pSince, settled, labelCache, candidateCache, query>>
  BY DEF Series!Tick, SeriesIInv, BackendTyped
<1> QED
  BY <1>1, SeriesPasses

LEMMA SeriesStep ==
    ASSUME SeriesIInv, Series!Next
    PROVE  SeriesIInv'
<1>1. ASSUME NEW q \in Queries,
             \/ Series!Ask(q) \/ Series!LabelFromCache(q) \/ Series!NoLabel(q) \/ Series!ProbeLabel(q)
             \/ Series!LabelAnswered(q) \/ Series!CandidateFromCache(q) \/ Series!ProbeSeries(q)
             \/ Series!SeriesAnswered(q) \/ Series!QueryRange(q) \/ Series!Read(q) \/ Series!Fails(q)
      PROVE  SeriesIInv'
  BY <1>1, AskPreserves, LabelFromCachePreserves, NoLabelPreserves, ProbeLabelPreserves,
     LabelAnsweredPreserves, CandidateFromCachePreserves, ProbeSeriesPreserves, SeriesAnsweredPreserves,
     QueryRangePreserves, ReadPreserves, FailsPreserves
<1>2. UNCHANGED Series!vars => UNCHANGED prometheus
  BY DEF Series!vars, prometheus
<1> QED
  BY <1>1, <1>2, ChangePreserves, TickPreserves, SeriesUnchanged DEF Series!Next

LEMMA SeriesInductive ==
    /\ JointInit => SeriesIInv
    /\ SeriesIInv /\ [JointNext]_JointVars => SeriesIInv'
<1>1. JointInit => SeriesIInv
  BY SeriesInit DEF JointInit
<1>2. ASSUME SeriesIInv, JointNext
      PROVE  SeriesIInv'
  BY <1>2, SeriesStep, SeriesUnchanged DEF JointNext
<1>3. ASSUME SeriesIInv, UNCHANGED JointVars
      PROVE  SeriesIInv'
  BY <1>3, SeriesUnchanged DEF JointVars
<1> QED
  BY <1>1, <1>2, <1>3

\* "No data" is told of a service that can be found only within a cache time of the backend
\* last changing or failing, or of an old query last keeping an answer: whatever the number of
\* labels, candidates and queries, and however late answers come.
THEOREM AbsenceIsTold == Joint => []AbsenceIsRecent
<1>1. SeriesIInv => AbsenceIsRecent
  BY DEF SeriesIInv, QueriesHold, QueryHolds, ToldHolds, Early, AbsenceIsRecent, Series!AbsenceIsRecent
<1> QED
  BY SeriesInductive, <1>1, PTL DEF Joint

----------------------------------------------------------------------------
\* IpEnrichment.  A kept answer and one under way are what the registries say, or the address
\* changed since they said it.

Life(found) == IF found = TRUE THEN FoundTtl ELSE NegTtl

Replies == [ip : Ips, found : BOOLEAN, until : Nat]
KeptReplies ==
    {c \in Replies : /\ c.until <= iNow + Life(c.found)
                     /\ \/ c.found = TRUE <=> c.ip \in holds
                        \/ c.until <= iSince[c.ip] + Life(c.found) + RdapTimeout}

Remaining == {list \in Seq(Asked) : list # <<>>}

LookupHolds(r) ==
    /\ r.todo \in Remaining /\ Head(r.todo) \in Ips /\ r.finds \in BOOLEAN
    /\ r.from \in Nat /\ r.from <= iNow /\ iNow <= r.from + RdapTimeout
    /\ \/ r.finds = TRUE <=> Head(r.todo) \in holds
       \/ r.from <= iSince[Head(r.todo)]

BatchHolds(r) ==
    /\ r.at \in {"idle", "next", "wait", "pause"}
    /\ r.at = "next" => r.todo \in Remaining
    /\ r.at = "wait" => LookupHolds(r)
    /\ r.at = "pause" => r.todo \in Remaining /\ Head(r.todo) \in Ips

RegistryTyped ==
    /\ iNow \in Nat /\ holds \in SUBSET Ips
    /\ iSince = [ip \in Ips |-> iSince[ip]] /\ \A ip \in Ips : iSince[ip] \in Nat /\ iSince[ip] <= iNow

BatchesHold == batch = [b \in Batches |-> batch[b]] /\ \A b \in Batches : BatchHolds(batch[b])

RegistryIInv == RegistryTyped /\ iCache \in Seq(KeptReplies) /\ BatchesHold

\* What a step may tell.
Recent ==
  \A b \in Batches :
    batch'[b] # batch[b] /\ "told" \in DOMAIN batch'[b] =>
      LET ip == batch'[b].told.ip
          says == batch'[b].told.says
      IN /\ says = "no" => ip \notin holds \/ iNow <= iSince[ip] + NegTtl + RdapTimeout
         /\ says = "yes" => Registry!Covered(ip) \/ ip \in holds \/ iNow <= iSince[ip] + FoundTtl + RdapTimeout

LEMMA LifeFacts == RdapTimeout \in Nat /\ \A found : Life(found) \in Nat
BY TimesAssumption DEF Life

LEMMA RegistryInit == Registry!Init => RegistryIInv
<1> SUFFICES ASSUME Registry!Init
             PROVE  RegistryIInv
  OBVIOUS
<1>1. RegistryTyped
  BY DEF Registry!Init, RegistryTyped
<1>2. iCache \in Seq(KeptReplies)
  BY DEF Registry!Init
<1>3. BatchesHold
  BY DEF Registry!Init, BatchesHold, BatchHolds, Registry!Rest
<1> QED
  BY <1>1, <1>2, <1>3 DEF RegistryIInv

\* An answer that holds is put among those that do.
LEMMA PutKeeps ==
    ASSUME NEW E, iCache \in Seq(E), NEW c \in E
    PROVE  Registry!Put(c) \in Seq(E)
<1>1. PICK kept : kept = IF Len(iCache) >= MaxCache THEN Tail(iCache) ELSE iCache
  OBVIOUS
<1>2. kept \in Seq(E)
  BY <1>1, EnrichmentAssumption
<1>3. Append(kept, c) \in Seq(E)
  BY <1>2
<1>4. [i \in DOMAIN kept |-> IF kept[i].ip = c.ip THEN c ELSE kept[i]] \in Seq(E)
  BY <1>2
<1>5. Registry!Put(c) = IF \E i \in DOMAIN kept : kept[i].ip = c.ip
                        THEN [i \in DOMAIN kept |-> IF kept[i].ip = c.ip THEN c ELSE kept[i]]
                        ELSE Append(kept, c)
  BY <1>1 DEF Registry!Put
<1> QED
  BY <1>3, <1>4, <1>5

LEMMA OnlyBatch ==
    ASSUME BatchesHold, UNCHANGED <<iNow, holds, iSince>>, NEW b \in Batches,
           NEW step, BatchHolds(step), batch' = [batch EXCEPT ![b] = step]
    PROVE  /\ BatchesHold' /\ batch'[b] = step
           /\ \A p \in Batches : p # b => batch'[p] = batch[p]
<1>1. /\ batch' = [p \in Batches |-> batch'[p]] /\ batch'[b] = step
      /\ \A p \in Batches : p # b => batch'[p] = batch[p]
  BY DEF BatchesHold
<1>2. ASSUME NEW p \in Batches
      PROVE  BatchHolds(batch[p])'
  <2>1. PICK r : r = batch'[p] /\ BatchHolds(r)
    BY <1>1 DEF BatchesHold
  <2>2. BatchHolds(r)'
    BY <2>1 DEF BatchHolds, LookupHolds
  <2> QED
    BY <2>1, <2>2
<1> QED
  BY <1>1, <1>2 DEF BatchesHold

LEMMA OnlyBatchRecent ==
    ASSUME NEW b \in Batches, \A p \in Batches : p # b => batch'[p] = batch[p],
           \/ "told" \notin DOMAIN batch'[b]
           \/ LET ip == batch'[b].told.ip
                  says == batch'[b].told.says
              IN /\ says = "no" => ip \notin holds \/ iNow <= iSince[ip] + NegTtl + RdapTimeout
                 /\ says = "yes" => Registry!Covered(ip) \/ ip \in holds \/ iNow <= iSince[ip] + FoundTtl + RdapTimeout
    PROVE  Recent
BY DEF Recent

\* A batch that settles an address goes on with the next.
LEMMA Settles ==
    ASSUME BatchesHold, UNCHANGED <<iNow, holds, iSince>>, NEW b \in Batches, batch[b].todo \in Remaining,
           NEW ip, ip = Head(batch[b].todo), NEW says, Registry!Settle(b, says),
           says = "no" => ip \notin holds \/ iNow <= iSince[ip] + NegTtl + RdapTimeout,
           says = "yes" => Registry!Covered(ip) \/ ip \in holds \/ iNow <= iSince[ip] + FoundTtl + RdapTimeout
    PROVE  BatchesHold' /\ Recent
<1>1. PICK r : r = batch[b]
  OBVIOUS
<1>2. PICK told : told = [ip |-> ip, says |-> says]
  OBVIOUS
<1>3. PICK step : step = [at |-> IF Len(r.todo) = 1 THEN "idle" ELSE "next", todo |-> Tail(r.todo), told |-> told]
  OBVIOUS
<1>4. batch' = [batch EXCEPT ![b] = step]
  BY <1>1, <1>2, <1>3 DEF Registry!Settle, BatchesHold
<1>5. step.at = (IF Len(r.todo) = 1 THEN "idle" ELSE "next") /\ step.todo = Tail(r.todo) /\ step.told = told
  BY <1>3
<1>6. step.at = "next" => step.todo \in Remaining
  <2>1. r.todo \in Seq(Asked) /\ r.todo # <<>>
    BY <1>1 DEF Remaining
  <2>2. Tail(r.todo) \in Seq(Asked) /\ (Len(r.todo) # 1 => Tail(r.todo) # <<>>)
    <3>1. PICK list \in Seq(Asked) : list = r.todo /\ list # <<>>
      BY <2>1
    <3>2. Tail(list) \in Seq(Asked) /\ Len(Tail(list)) = Len(list) - 1 /\ Len(list) \in Nat
      BY <3>1
    <3>3. Tail(list) = <<>> => Len(list) - 1 = 0
      BY <3>2
    <3> QED
      BY <3>1, <3>2, <3>3
  <2> QED
    BY <1>5, <2>2 DEF Remaining
<1>7. BatchHolds(step)
  BY <1>5, <1>6 DEF BatchHolds
<1>8. BatchesHold' /\ batch'[b] = step /\ \A p \in Batches : p # b => batch'[p] = batch[p]
  BY <1>4, <1>7, OnlyBatch
<1>9. told.ip = ip /\ told.says = says
  BY <1>2
<1> QED
  BY <1>5, <1>8, <1>9, OnlyBatchRecent

LEMMA CallBatchPreserves ==
    ASSUME RegistryIInv, NEW b \in Batches, NEW list \in Lists, Registry!Call(b, list)
    PROVE  RegistryIInv' /\ Recent
<1>1. PICK step : step = [at |-> "next", todo |-> list]
  OBVIOUS
<1>2. batch' = [batch EXCEPT ![b] = step] /\ UNCHANGED <<iNow, holds, iSince, iCache>>
  BY <1>1 DEF Registry!Call, Registry!Elsewhere
<1>3. step.at = "next" /\ step.todo \in Remaining /\ "told" \notin DOMAIN step
  BY <1>1, EnrichmentAssumption DEF Remaining
<1>4. BatchHolds(step)
  BY <1>3 DEF BatchHolds
<1>5. BatchesHold' /\ batch'[b] = step /\ \A p \in Batches : p # b => batch'[p] = batch[p]
  BY <1>2, <1>4, OnlyBatch DEF RegistryIInv
<1>6. KeptReplies' = KeptReplies
  BY <1>2 DEF KeptReplies
<1> QED
  BY <1>2, <1>3, <1>5, <1>6, OnlyBatchRecent DEF RegistryIInv, RegistryTyped

LEMMA FromHandPreserves ==
    ASSUME RegistryIInv, NEW b \in Batches, Registry!FromHand(b)
    PROVE  RegistryIInv' /\ Recent
<1>1. UNCHANGED <<iNow, holds, iSince, iCache>>
  BY DEF Registry!FromHand, Registry!Elsewhere
<1>2. PICK ip : ip = Head(batch[b].todo)
  OBVIOUS
<1>3. batch[b].todo \in Remaining
  BY DEF Registry!FromHand, RegistryIInv, BatchesHold, BatchHolds
<1>4. \/ ip \notin Ips /\ Registry!Settle(b, "invalid")
      \/ ip \in Ips /\ Registry!Covered(ip) /\ Registry!Settle(b, "yes")
      \/ \E c \in Registry!Entry(ip) : ~Registry!Covered(ip) /\ Registry!Settle(b, IF c.found THEN "yes" ELSE "no")
  BY <1>2 DEF Registry!FromHand
<1>5. ASSUME ip \notin Ips, Registry!Settle(b, "invalid")
      PROVE  BatchesHold' /\ Recent
  <2>1. PICK says : says = "invalid" /\ Registry!Settle(b, says)
    BY <1>5
  <2>2. says # "no" /\ says # "yes"
    BY <2>1
  <2> QED
    BY <1>1, <1>2, <1>3, <2>1, <2>2, Settles DEF RegistryIInv
<1>6. ASSUME ip \in Ips, Registry!Covered(ip), Registry!Settle(b, "yes")
      PROVE  BatchesHold' /\ Recent
  <2>1. PICK says : says = "yes" /\ Registry!Settle(b, says)
    BY <1>6
  <2>2. says # "no" /\ Registry!Covered(ip)
    BY <1>6, <2>1
  <2> QED
    BY <1>1, <1>2, <1>3, <2>1, <2>2, Settles DEF RegistryIInv
<1>7. ASSUME NEW c \in Registry!Entry(ip), Registry!Settle(b, IF c.found THEN "yes" ELSE "no")
      PROVE  BatchesHold' /\ Recent
  <2>1. c.ip = ip /\ c.until > iNow /\ c \in KeptReplies
    BY DEF Registry!Entry, Registry!ToSet, Registry!Fresh, RegistryIInv
  <2>2. /\ c \in Replies /\ c.found \in BOOLEAN /\ c.until \in Nat /\ ip \in Ips
        /\ (c.found = TRUE <=> ip \in holds) \/ c.until <= iSince[ip] + Life(c.found) + RdapTimeout
    BY <2>1 DEF KeptReplies, Replies
  <2>3. iSince[ip] \in Nat /\ iNow \in Nat
    BY <2>2 DEF RegistryIInv, RegistryTyped
  <2>4. (c.found = TRUE <=> ip \in holds) \/ iNow <= iSince[ip] + Life(c.found) + RdapTimeout
    BY <2>1, <2>2, <2>3, LifeFacts
  <2>5. CASE c.found = TRUE
    <3>1. Registry!Settle(b, "yes") /\ (ip \in holds \/ iNow <= iSince[ip] + FoundTtl + RdapTimeout)
      BY <1>7, <2>4, <2>5 DEF Life
    <3> QED
      BY <1>1, <1>2, <1>3, <3>1, Settles DEF RegistryIInv
  <2>6. CASE c.found = FALSE
    <3>1. Registry!Settle(b, "no") /\ (ip \notin holds \/ iNow <= iSince[ip] + NegTtl + RdapTimeout)
      BY <1>7, <2>4, <2>6 DEF Life
    <3> QED
      BY <1>1, <1>2, <1>3, <3>1, Settles DEF RegistryIInv
  <2> QED
    BY <2>2, <2>5, <2>6
<1>8. KeptReplies' = KeptReplies
  BY <1>1 DEF KeptReplies
<1> QED
  BY <1>1, <1>4, <1>5, <1>6, <1>7, <1>8 DEF RegistryIInv, RegistryTyped

LEMMA MembershipIsBoolean ==
    ASSUME NEW S, NEW x
    PROVE  (x \in S) \in BOOLEAN /\ ((x \in S) = TRUE <=> x \in S)
OBVIOUS

\* A request that leaves now is answered by what the registries know now.
LEMMA Sends ==
    ASSUME RegistryIInv, NEW b \in Batches, NEW attempt, Registry!Sent(b, attempt),
           batch[b].todo \in Remaining, Head(batch[b].todo) \in Ips,
           UNCHANGED <<iNow, holds, iSince, iCache>>
    PROVE  RegistryIInv' /\ Recent
<1>0. PICK todo : todo = batch[b].todo
  OBVIOUS
<1>1. todo \in Remaining /\ todo = batch[b].todo /\ Head(todo) \in Ips
  BY <1>0, Zenon
<1>2. PICK finds : finds = (Head(todo) \in holds)
  OBVIOUS
<1>3. PICK step : step = [at |-> "wait", todo |-> todo, attempt |-> attempt, from |-> iNow, finds |-> finds]
  OBVIOUS
<1>4. batch' = [batch EXCEPT ![b] = step]
  BY <1>1, <1>2, <1>3 DEF Registry!Sent, RegistryIInv, BatchesHold
<1>5. /\ step.at = "wait" /\ step.todo = todo /\ step.from = iNow /\ step.finds = finds
      /\ "told" \notin DOMAIN step
  BY <1>3
<1>6. iNow \in Nat /\ RdapTimeout \in Nat
  BY LifeFacts DEF RegistryIInv, RegistryTyped
<1>7. LookupHolds(step)
  <2>1. iNow <= iNow /\ iNow <= iNow + RdapTimeout
    BY <1>6
  <2>2. (step.finds = TRUE <=> Head(step.todo) \in holds) /\ step.finds \in BOOLEAN
    <3>1. (finds = TRUE <=> Head(todo) \in holds) /\ finds \in BOOLEAN
      BY <1>2, MembershipIsBoolean, Zenon
    <3> QED
      BY <1>5, <3>1
  <2>3. step.todo \in Remaining /\ Head(step.todo) \in Ips
    BY <1>1, <1>5, Zenon
  <2> QED
    BY <1>5, <1>6, <2>1, <2>2, <2>3, Zenon DEF LookupHolds
<1>8. BatchHolds(step)
  BY <1>5, <1>7 DEF BatchHolds
<1>9. BatchesHold' /\ batch'[b] = step /\ \A p \in Batches : p # b => batch'[p] = batch[p]
  BY <1>4, <1>8, OnlyBatch DEF RegistryIInv
<1>10. KeptReplies' = KeptReplies
  BY DEF KeptReplies
<1> QED
  BY <1>5, <1>9, <1>10, OnlyBatchRecent DEF RegistryIInv, RegistryTyped

LEMMA RequestPreserves ==
    ASSUME RegistryIInv, NEW b \in Batches, Registry!Request(b)
    PROVE  RegistryIInv' /\ Recent
<1>1. batch[b].todo \in Remaining /\ Head(batch[b].todo) \in Ips
  BY DEF Registry!Request, RegistryIInv, BatchesHold, BatchHolds
<1> QED
  BY <1>1, Sends DEF Registry!Request, Registry!Elsewhere

LEMMA RetryPreserves ==
    ASSUME RegistryIInv, NEW b \in Batches, Registry!Retry(b)
    PROVE  RegistryIInv' /\ Recent
<1>1. batch[b].todo \in Remaining /\ Head(batch[b].todo) \in Ips
  BY DEF Registry!Retry, RegistryIInv, BatchesHold, BatchHolds
<1> QED
  BY <1>1, Sends DEF Registry!Retry, Registry!Elsewhere

LEMMA AnsweredPreserves ==
    ASSUME RegistryIInv, NEW b \in Batches, Registry!Answered(b)
    PROVE  RegistryIInv' /\ Recent
<1>1. PICK r : r = batch[b] /\ LookupHolds(r)
  BY DEF Registry!Answered, RegistryIInv, BatchesHold, BatchHolds
<1>2. PICK ip \in Ips : ip = Head(r.todo)
  BY <1>1 DEF LookupHolds
<1>3. PICK found \in BOOLEAN : found = r.finds
  BY <1>1 DEF LookupHolds
<1>4. PICK c : c = [ip |-> ip, found |-> found, until |-> iNow + Life(found)]
  OBVIOUS
<1>5. UNCHANGED <<iNow, holds, iSince>> /\ Registry!Settle(b, IF found THEN "yes" ELSE "no")
      /\ iCache' = Registry!Put(c)
  BY <1>1, <1>2, <1>3, <1>4 DEF Registry!Answered, Registry!Elsewhere, Registry!Known, Life
<1>6. /\ iNow \in Nat /\ iSince[ip] \in Nat /\ r.from \in Nat /\ iNow <= r.from + RdapTimeout
      /\ (found = TRUE <=> ip \in holds) \/ r.from <= iSince[ip]
  BY <1>1, <1>2, <1>3 DEF LookupHolds, RegistryIInv, RegistryTyped
<1>7. (found = TRUE <=> ip \in holds) \/ iNow + Life(found) <= iSince[ip] + Life(found) + RdapTimeout
  BY <1>6, LifeFacts
<1>8. (found = TRUE <=> ip \in holds) \/ iNow <= iSince[ip] + Life(found) + RdapTimeout
  BY <1>6, LifeFacts
<1>9. c \in KeptReplies
  <2>1. c \in Replies
    BY <1>4, <1>6, LifeFacts DEF Replies
  <2>2. c.ip = ip /\ c.found = found /\ c.until = iNow + Life(found) /\ iNow + Life(found) <= iNow + Life(found)
    BY <1>4, <1>6, LifeFacts
  <2> QED
    BY <1>7, <2>1, <2>2 DEF KeptReplies
<1>10. iCache' \in Seq(KeptReplies) /\ KeptReplies' = KeptReplies
  BY <1>5, <1>9, PutKeeps DEF RegistryIInv, KeptReplies
<1>11. batch[b].todo \in Remaining /\ ip = Head(batch[b].todo)
  BY <1>1, <1>2 DEF LookupHolds
<1>12. CASE found = TRUE
  <2>1. Registry!Settle(b, "yes") /\ (ip \in holds \/ iNow <= iSince[ip] + FoundTtl + RdapTimeout)
    BY <1>5, <1>8, <1>12 DEF Life
  <2>2. BatchesHold' /\ Recent
    BY <1>5, <1>11, <2>1, Settles DEF RegistryIInv
  <2> QED
    BY <1>5, <1>10, <2>2 DEF RegistryIInv, RegistryTyped
<1>13. CASE found = FALSE
  <2>1. Registry!Settle(b, "no") /\ (ip \notin holds \/ iNow <= iSince[ip] + NegTtl + RdapTimeout)
    BY <1>5, <1>8, <1>13 DEF Life
  <2>2. BatchesHold' /\ Recent
    BY <1>5, <1>11, <2>1, Settles DEF RegistryIInv
  <2> QED
    BY <1>5, <1>10, <2>2 DEF RegistryIInv, RegistryTyped
<1> QED
  BY <1>3, <1>12, <1>13

LEMMA TransientPreserves ==
    ASSUME RegistryIInv, NEW b \in Batches, Registry!Transient(b)
    PROVE  RegistryIInv' /\ Recent
<1>1. PICK r : r = batch[b] /\ LookupHolds(r)
  BY DEF Registry!Transient, RegistryIInv, BatchesHold, BatchHolds
<1>2. UNCHANGED <<iNow, holds, iSince, iCache>> /\ KeptReplies' = KeptReplies
  BY DEF Registry!Transient, Registry!Elsewhere, Registry!NotCached, KeptReplies
<1>3. r.todo \in Remaining /\ Head(r.todo) \in Ips
  BY <1>1 DEF LookupHolds
<1>4. CASE Registry!Settle(b, "transient")
  <2>1. BatchesHold' /\ Recent
    BY <1>1, <1>2, <1>3, <1>4, Settles DEF RegistryIInv
  <2> QED
    BY <1>2, <2>1 DEF RegistryIInv, RegistryTyped
<1>5. ASSUME NEW p \in 0 .. MaxPause,
             batch' = [batch EXCEPT ![b] = [at |-> "pause", todo |-> @.todo, attempt |-> @.attempt + 1, until |-> iNow + p]]
      PROVE  RegistryIInv' /\ Recent
  <2>1. PICK step : step = [at |-> "pause", todo |-> r.todo, attempt |-> r.attempt + 1, until |-> iNow + p]
    OBVIOUS
  <2>2. batch' = [batch EXCEPT ![b] = step]
    BY <1>1, <1>5, <2>1 DEF RegistryIInv, BatchesHold
  <2>3. step.at = "pause" /\ step.todo = r.todo /\ "told" \notin DOMAIN step
    BY <2>1
  <2>4. BatchHolds(step)
    BY <1>3, <2>3 DEF BatchHolds
  <2>5. BatchesHold' /\ batch'[b] = step /\ \A q \in Batches : q # b => batch'[q] = batch[q]
    BY <1>2, <2>2, <2>4, OnlyBatch DEF RegistryIInv
  <2> QED
    BY <1>2, <2>3, <2>5, OnlyBatchRecent DEF RegistryIInv, RegistryTyped
<1> QED
  BY <1>4, <1>5 DEF Registry!Transient

LEMMA RegistryChangePreserves ==
    ASSUME RegistryIInv, NEW ip \in Ips, Registry!Change(ip)
    PROVE  RegistryIInv' /\ Recent
<1>1. /\ holds' = (holds \ {ip}) \cup ({ip} \ holds) /\ iSince' = [iSince EXCEPT ![ip] = iNow]
      /\ UNCHANGED <<iNow, iCache, batch>>
  BY DEF Registry!Change
<1>2. /\ iSince' = [p \in Ips |-> iSince'[p]] /\ iSince'[ip] = iNow
      /\ \A p \in Ips : p # ip => iSince'[p] = iSince[p] /\ (p \in holds' <=> p \in holds)
  BY <1>1 DEF RegistryIInv, RegistryTyped
<1>3. RegistryTyped'
  <2>1. iNow \in Nat /\ iNow' = iNow /\ iNow <= iNow /\ holds' \in SUBSET Ips
    BY <1>1 DEF RegistryIInv, RegistryTyped
  <2> QED
    BY <1>2, <2>1 DEF RegistryIInv, RegistryTyped
<1>4. ASSUME NEW c \in KeptReplies
      PROVE  c \in KeptReplies'
  <2>1. c \in Replies /\ c.ip \in Ips /\ c.until \in Nat /\ c.until <= iNow + Life(c.found) /\ iNow \in Nat
    BY DEF KeptReplies, Replies, RegistryIInv, RegistryTyped
  <2>2. CASE c.ip = ip
    <3>1. c.until <= iNow + Life(c.found) + RdapTimeout
      BY <2>1, LifeFacts
    <3>2. iSince'[c.ip] = iNow /\ iNow' = iNow
      BY <1>1, <1>2, <2>2
    <3> QED
      BY <2>1, <3>1, <3>2 DEF KeptReplies, Life
  <2>3. CASE c.ip # ip
    BY <1>1, <1>2, <2>1, <2>3 DEF KeptReplies, Life
  <2> QED
    BY <2>2, <2>3
<1>5. iCache' \in Seq(KeptReplies')
  <2>1. iCache \in Seq(KeptReplies) /\ iCache' = iCache
    BY <1>1 DEF RegistryIInv
  <2> QED
    BY <1>4, <2>1
<1>6. ASSUME NEW b \in Batches
      PROVE  BatchHolds(batch[b])'
  <2>1. PICK r : r = batch[b] /\ BatchHolds(r)
    BY DEF RegistryIInv, BatchesHold
  <2>2. LookupHolds(r) => LookupHolds(r)'
    BY <1>1, <1>2 DEF LookupHolds
  <2>3. BatchHolds(r)'
    BY <2>1, <2>2 DEF BatchHolds
  <2> QED
    BY <1>1, <2>1, <2>3
<1>7. BatchesHold'
  BY <1>1, <1>6 DEF RegistryIInv, BatchesHold
<1>8. Recent
  BY <1>1 DEF Recent
<1> QED
  BY <1>3, <1>5, <1>7, <1>8 DEF RegistryIInv

LEMMA RegistryTickPreserves ==
    ASSUME RegistryIInv, Registry!Tick
    PROVE  RegistryIInv' /\ Recent
<1>1. iNow' = iNow + 1 /\ UNCHANGED <<holds, iSince, iCache, batch>>
  BY DEF Registry!Tick
<1>2. iNow \in Nat /\ iNow + 1 \in Nat /\ RegistryTyped'
  BY <1>1 DEF RegistryIInv, RegistryTyped
<1>3. ASSUME NEW c \in KeptReplies
      PROVE  c \in KeptReplies'
  <2>1. c \in Replies /\ c.until \in Nat /\ c.until <= iNow + Life(c.found)
    BY DEF KeptReplies, Replies
  <2>2. c.until <= iNow + 1 + Life(c.found)
    BY <1>2, <2>1, LifeFacts
  <2> QED
    BY <1>1, <2>1, <2>2 DEF KeptReplies, Life
<1>4. iCache' \in Seq(KeptReplies')
  <2>1. iCache \in Seq(KeptReplies) /\ iCache' = iCache
    BY <1>1 DEF RegistryIInv
  <2> QED
    BY <1>3, <2>1
<1>5. ASSUME NEW b \in Batches
      PROVE  BatchHolds(batch[b])'
  <2>1. PICK r : r = batch[b] /\ BatchHolds(r) /\ (r.at = "wait" => iNow < r.from + RdapTimeout)
    BY DEF RegistryIInv, BatchesHold, Registry!Tick
  <2>2. r.at = "wait" => LookupHolds(r)'
    BY <1>1, <1>2, <2>1, LifeFacts DEF BatchHolds, LookupHolds
  <2>3. BatchHolds(r)'
    BY <2>1, <2>2 DEF BatchHolds
  <2> QED
    BY <1>1, <2>1, <2>3
<1>6. BatchesHold'
  BY <1>1, <1>5 DEF RegistryIInv, BatchesHold
<1>7. Recent
  BY <1>1 DEF Recent
<1> QED
  BY <1>2, <1>4, <1>6, <1>7 DEF RegistryIInv

LEMMA RegistryUnchanged ==
    ASSUME RegistryIInv, UNCHANGED enrichment
    PROVE  RegistryIInv' /\ Recent
<1>1. UNCHANGED <<iNow, holds, iSince, iCache, batch>>
  BY DEF enrichment
<1>2. BatchesHold'
  BY <1>1 DEF RegistryIInv, BatchesHold, BatchHolds, LookupHolds
<1>3. KeptReplies' = KeptReplies /\ RegistryTyped'
  BY <1>1 DEF KeptReplies, RegistryIInv, RegistryTyped
<1> QED
  BY <1>1, <1>2, <1>3 DEF RegistryIInv, Recent

LEMMA RegistryInductive ==
    /\ JointInit => RegistryIInv
    /\ RegistryIInv /\ [JointNext]_JointVars => RegistryIInv' /\ Recent
<1>1. JointInit => RegistryIInv
  BY RegistryInit DEF JointInit
<1>2. UNCHANGED Registry!vars => UNCHANGED enrichment
  BY DEF Registry!vars, enrichment
<1>3. ASSUME RegistryIInv, Registry!Next
      PROVE  RegistryIInv' /\ Recent
  BY <1>2, <1>3, CallBatchPreserves, FromHandPreserves, RequestPreserves, AnsweredPreserves, TransientPreserves,
     RetryPreserves, RegistryChangePreserves, RegistryTickPreserves, RegistryUnchanged DEF Registry!Next
<1>4. ASSUME RegistryIInv, JointNext
      PROVE  RegistryIInv' /\ Recent
  BY <1>3, <1>4, RegistryUnchanged DEF JointNext
<1>5. ASSUME RegistryIInv, UNCHANGED JointVars
      PROVE  RegistryIInv' /\ Recent
  BY <1>5, RegistryUnchanged DEF JointVars
<1> QED
  BY <1>1, <1>4, <1>5

\* An address is told "no" only if the registries did not know it a negative entry's life and a
\* request ago, "yes" likewise, whatever other batches were throttled or answered meanwhile.
THEOREM LookupsAreRecent == Joint => AnswersAreRecent
<1>1. RegistryIInv /\ [JointNext]_JointVars => RegistryIInv'
  BY RegistryInductive
<1>2. RegistryIInv /\ [JointNext]_JointVars => [Recent]_(Registry!vars)
  BY RegistryInductive
<1>3. JointInit => RegistryIInv
  BY RegistryInductive
<1>4. Joint => [][Recent]_(Registry!vars)
  BY <1>1, <1>2, <1>3, PTL DEF Joint
<1> QED
  BY <1>4 DEF AnswersAreRecent, Registry!AnswersAreRecent, Recent

----------------------------------------------------------------------------
\* Topology.  Of an object's versions the cluster holds the one its watch last reported, and the
\* store the one it last handled.

Version(i) == {c \in cluster : c.id = i}
StoredAs(g, i) == {r \in g.resources : r.id = i}

Agrees(i) ==
    /\ StoredAs(store, i) = {Graph!ResourceOf(o) : o \in Version(i)}
    /\ Graph!Outgoing(store, i) = UNION {Graph!EdgesOf(o) : o \in Version(i)}

Reported(e) == IF e.type = "apply" THEN {e.obj} ELSE {}

WatchEvents(k) == [type : {"apply", "delete"}, obj : {o \in Objects : o.kind = k}]

\* The last event a watch holds of an object is true of the cluster; what it holds no event of
\* is stored as it is.
LastHolds(w) ==
    \A n \in DOMAIN w :
        (\A m \in DOMAIN w : m > n => w[m].obj.id # w[n].obj.id) => Version(w[n].obj.id) = Reported(w[n])

LastEventHolds(k) == LastHolds(watches[k])

RestAgrees(k) ==
    \A o \in Objects : o.kind = k /\ (\A n \in DOMAIN watches[k] : watches[k][n].obj.id # o.id) => Agrees(o.id)

StoreTyped ==
    /\ store.resources \subseteq {Graph!ResourceOf(o) : o \in Objects}
    /\ store.edges \subseteq UNION {Graph!EdgesOf(o) : o \in Objects}
    /\ \A e \in store.edges : \E r \in store.resources : r.id = e.from

ClusterTyped ==
    /\ cluster \subseteq Objects /\ \A p, q \in cluster : p.id = q.id => p = q
    /\ other \in Others \cup {None}

WatchesTyped ==
    /\ watches = [k \in Graph!Kinds |-> watches[k]]
    /\ \A k \in Graph!Kinds : watches[k] \in Seq(WatchEvents(k))

GraphIInv ==
    /\ ClusterTyped /\ WatchesTyped /\ StoreTyped
    /\ replica # None => replica = store
    /\ \A k \in Graph!Kinds \ broken : LastEventHolds(k) /\ RestAgrees(k)

LEMMA BuiltFacts ==
    ASSUME NEW o \in Objects
    PROVE  /\ Graph!ResourceOf(o) \in GraphResources
           /\ Graph!ResourceOf(o).id = o.id /\ Graph!ResourceOf(o).kind = o.kind
           /\ \A e \in Graph!EdgesOf(o) : e \in GraphEdges /\ e.from = o.id
<1>1. o.id \in Nat /\ o.kind \in STRING /\ o.node \in Nat \cup {None} /\ o.owner \in Nat \cup {None} /\ o.app \in Apps
  BY TopologyAssumption DEF Apps
<1>2. Graph!ResourceOf(o) \in GraphResources /\ Graph!ResourceOf(o).id = o.id /\ Graph!ResourceOf(o).kind = o.kind
  BY <1>1 DEF Graph!ResourceOf, Graph!Source, GraphResources
<1>3. ASSUME NEW e \in Graph!EdgesOf(o)
      PROVE  e \in GraphEdges /\ e.from = o.id
  <2>1. \/ o.node # None /\ e = [from |-> o.id, to |-> o.node, rel |-> "RUNS_ON"]
        \/ o.owner # None /\ e = [from |-> o.id, to |-> o.owner, rel |-> "OWNED_BY"]
    BY DEF Graph!EdgesOf
  <2>2. ASSUME NEW i \in Nat, NEW j \in Nat, NEW rel \in Relations, e = [from |-> i, to |-> j, rel |-> rel]
        PROVE  e \in GraphEdges /\ e.from = i
    BY <2>2 DEF GraphEdges
  <2>3. "RUNS_ON" \in Relations /\ "OWNED_BY" \in Relations
    BY DEF Relations
  <2> QED
    BY <1>1, <2>1, <2>2, <2>3
<1> QED
  BY <1>2, <1>3

LEMMA GraphInit == Graph!Init => GraphIInv
<1> SUFFICES ASSUME Graph!Init
             PROVE  GraphIInv
  OBVIOUS
<1>1. ClusterTyped /\ WatchesTyped
  BY DEF Graph!Init, ClusterTyped, WatchesTyped
<1>2. store.resources = {} /\ store.edges = {}
  BY DEF Graph!Init, Graph!NoStore
<1>3. StoreTyped
  BY <1>2 DEF StoreTyped
<1>4. ASSUME NEW k \in Graph!Kinds
      PROVE  LastEventHolds(k) /\ RestAgrees(k)
  <2>1. watches[k] = <<>> /\ \A i : Version(i) = {}
    BY DEF Graph!Init, Version
  <2>2. LastEventHolds(k)
    BY <2>1 DEF LastEventHolds, LastHolds
  <2>3. \A i : Agrees(i)
    BY <1>2, <2>1 DEF Agrees, StoredAs, Graph!Outgoing
  <2> QED
    BY <2>2, <2>3 DEF RestAgrees
<1>5. replica = None
  BY DEF Graph!Init
<1> QED
  BY <1>1, <1>3, <1>4, <1>5 DEF GraphIInv

\* The cluster changes at one id, and the watch of its kind reports it or has ended.
LEMMA Reports ==
    ASSUME GraphIInv, NEW o \in Objects, NEW event \in {"apply", "delete"}, NEW e, e = [type |-> event, obj |-> o],
           UNCHANGED <<broken, store, replica, other>>,
           watches' = IF o.kind \in broken THEN watches ELSE [watches EXCEPT ![o.kind] = Append(@, e)],
           ClusterTyped', Version(o.id)' = Reported(e), \A i : i # o.id => Version(i)' = Version(i)
    PROVE  GraphIInv'
<1>1. e.type = event /\ e.obj = o /\ e \in WatchEvents(o.kind) /\ o.kind \in Graph!Kinds
  BY DEF WatchEvents, Graph!Kinds
<1>2. WatchesTyped'
  <2>1. CASE o.kind \in broken
    BY <2>1 DEF GraphIInv, WatchesTyped
  <2>2. CASE o.kind \notin broken
    <3>1. PICK w \in Seq(WatchEvents(o.kind)) : w = watches[o.kind]
      BY <1>1 DEF GraphIInv, WatchesTyped
    <3>2. PICK x \in Seq(WatchEvents(o.kind)) : x = Append(w, e)
      <4>1. ASSUME NEW S, NEW v \in Seq(S), NEW y \in S
            PROVE  Append(v, y) \in Seq(S)
        OBVIOUS
      <4>2. Append(w, e) \in Seq(WatchEvents(o.kind))
        BY <1>1, <4>1, Zenon
      <4> QED
        BY <4>2
    <3>3. watches' = [watches EXCEPT ![o.kind] = x]
      BY <1>1, <2>2, <3>1, <3>2 DEF GraphIInv, WatchesTyped
    <3> QED
      BY <3>2, <3>3 DEF GraphIInv, WatchesTyped
  <2> QED
    BY <2>1, <2>2
<1>3. StoreTyped' /\ (replica' # None => replica' = store')
  BY DEF GraphIInv, StoreTyped
<1>4. \A i : i # o.id => (Agrees(i) => Agrees(i)')
  BY DEF Agrees
<1>5. ASSUME NEW k \in Graph!Kinds \ broken, k # o.kind
      PROVE  LastEventHolds(k)' /\ RestAgrees(k)'
  <2>1. watches'[k] = watches[k] /\ watches[k] \in Seq(WatchEvents(k)) /\ LastEventHolds(k) /\ RestAgrees(k)
    BY <1>5 DEF GraphIInv, WatchesTyped
  <2>2. \A p \in Objects : p.kind = k => p.id # o.id
    BY <1>5, TopologyAssumption
  <2>3. ASSUME NEW n \in DOMAIN watches[k]
        PROVE  watches[k][n].obj.id # o.id
    <3>1. PICK w \in Seq(WatchEvents(k)) : w = watches[k]
      BY <2>1
    <3>2. w[n] \in WatchEvents(k)
      BY <3>1
    <3> QED
      BY <2>2, <3>1, <3>2 DEF WatchEvents
  <2>4. LastEventHolds(k)'
    <3>1. PICK w : w = watches[k] /\ w = watches'[k]
      BY <2>1
    <3>2. \A n \in DOMAIN w : Version(w[n].obj.id)' = Version(w[n].obj.id)
      BY <2>3, <3>1
    <3>3. LastHolds(w)'
      BY <2>1, <3>1, <3>2 DEF LastEventHolds, LastHolds, Reported
    <3> QED
      BY <3>1, <3>3 DEF LastEventHolds
  <2> QED
    BY <1>4, <2>1, <2>2, <2>4 DEF RestAgrees
<1>6. ASSUME o.kind \notin broken
      PROVE  LastEventHolds(o.kind)' /\ RestAgrees(o.kind)'
  <2>1. PICK w \in Seq(WatchEvents(o.kind)) : w = watches[o.kind]
    BY <1>1 DEF GraphIInv, WatchesTyped
  <2>2. PICK x : x = Append(w, e)
    OBVIOUS
  <2>3. watches'[o.kind] = x
    BY <1>1, <1>6, <2>1, <2>2 DEF GraphIInv, WatchesTyped
  <2>4. /\ Len(w) \in Nat /\ DOMAIN w = 1 .. Len(w) /\ DOMAIN x = 1 .. Len(w) + 1
        /\ x[Len(w) + 1] = e /\ \A n \in DOMAIN w : x[n] = w[n] /\ n \in DOMAIN x /\ n < Len(w) + 1
    BY <1>1, <2>1, <2>2
  <2>5. Len(w) + 1 \in DOMAIN x /\ \A n \in DOMAIN x : n \in DOMAIN w \/ n = Len(w) + 1
    BY <2>4
  <2>6. ASSUME NEW n \in DOMAIN x, \A m \in DOMAIN x : m > n => x[m].obj.id # x[n].obj.id
        PROVE  Version(x[n].obj.id)' = Reported(x[n])
    <3>1. CASE n = Len(w) + 1
      BY <1>1, <2>4, <3>1
    <3>2. CASE n \in DOMAIN w
      <4>1. x[n] = w[n] /\ w[n].obj.id # o.id
        BY <1>1, <2>4, <2>5, <2>6, <3>2
      <4>2. \A m \in DOMAIN w : m > n => w[m].obj.id # w[n].obj.id
        BY <2>4, <2>6, <3>2
      <4>3. Version(w[n].obj.id) = Reported(w[n])
        BY <1>1, <1>6, <2>1, <3>2, <4>2 DEF GraphIInv, LastEventHolds, LastHolds
      <4> QED
        BY <4>1, <4>3
    <3> QED
      BY <2>5, <3>1, <3>2
  <2>7. LastEventHolds(o.kind)'
    <3>1. LastHolds(x)'
      BY <2>6 DEF LastHolds, Reported
    <3> QED
      BY <2>3, <3>1 DEF LastEventHolds
  <2>8. ASSUME NEW p \in Objects, p.kind = o.kind, \A n \in DOMAIN x : x[n].obj.id # p.id
        PROVE  Agrees(p.id)'
    <3>1. p.id # o.id
      BY <1>1, <2>4, <2>5, <2>8
    <3>2. \A n \in DOMAIN w : w[n].obj.id # p.id
      BY <2>4, <2>8
    <3>3. Agrees(p.id)
      BY <1>1, <1>6, <2>1, <2>8, <3>2 DEF GraphIInv, RestAgrees
    <3> QED
      BY <1>4, <3>1, <3>3
  <2> QED
    BY <2>3, <2>7, <2>8 DEF RestAgrees
<1>7. \A k \in Graph!Kinds \ broken' : LastEventHolds(k)' /\ RestAgrees(k)'
  BY <1>5, <1>6
<1> QED
  BY <1>2, <1>3, <1>7 DEF GraphIInv

LEMMA ApplyPreserves ==
    ASSUME GraphIInv, NEW o \in Objects, Graph!Apply(o)
    PROVE  GraphIInv'
<1>1. PICK e : e = [type |-> "apply", obj |-> o]
  OBVIOUS
<1>2. /\ cluster' = {c \in cluster : c.id # o.id} \cup {o} /\ UNCHANGED <<broken, store, replica, other>>
      /\ watches' = IF o.kind \in broken THEN watches ELSE [watches EXCEPT ![o.kind] = Append(@, e)]
  BY <1>1 DEF Graph!Apply, Graph!Change
<1>3. ClusterTyped'
  BY <1>2 DEF GraphIInv, ClusterTyped
<1>4. Version(o.id)' = Reported(e)
  BY <1>1, <1>2 DEF Version, Reported
<1>5. \A i : i # o.id => Version(i)' = Version(i)
  BY <1>2 DEF Version
<1> QED
  BY <1>1, <1>2, <1>3, <1>4, <1>5, Reports

LEMMA DeletePreserves ==
    ASSUME GraphIInv, NEW o \in Objects, Graph!Delete(o)
    PROVE  GraphIInv'
<1>1. PICK e : e = [type |-> "delete", obj |-> o]
  OBVIOUS
<1>2. /\ cluster' = cluster \ {o} /\ o \in cluster /\ UNCHANGED <<broken, store, replica, other>>
      /\ watches' = IF o.kind \in broken THEN watches ELSE [watches EXCEPT ![o.kind] = Append(@, e)]
  BY <1>1 DEF Graph!Delete, Graph!Change
<1>3. ClusterTyped'
  BY <1>2 DEF GraphIInv, ClusterTyped
<1>4. Version(o.id)' = Reported(e)
  BY <1>1, <1>2 DEF Version, Reported, GraphIInv, ClusterTyped
<1>5. \A i : i # o.id => Version(i)' = Version(i)
  BY <1>2 DEF Version
<1> QED
  BY <1>1, <1>2, <1>3, <1>4, <1>5, Reports

LEMMA BreakPreserves ==
    ASSUME GraphIInv, NEW b \in Graph!Kinds, Graph!Break(b)
    PROVE  GraphIInv'
<1>1. /\ broken' = broken \cup {b} /\ watches' = [watches EXCEPT ![b] = <<>>]
      /\ UNCHANGED <<cluster, store, replica, other>>
  BY DEF Graph!Break
<1>2. ClusterTyped' /\ StoreTyped' /\ (replica' # None => replica' = store')
  BY <1>1 DEF GraphIInv, ClusterTyped, StoreTyped
<1>3. WatchesTyped'
  BY <1>1 DEF GraphIInv, WatchesTyped
<1>4. ASSUME NEW k \in Graph!Kinds \ broken'
      PROVE  LastEventHolds(k)' /\ RestAgrees(k)'
  <2>1. k # b /\ watches'[k] = watches[k] /\ LastEventHolds(k) /\ RestAgrees(k)
    BY <1>1 DEF GraphIInv, WatchesTyped
  <2>2. \A i : Version(i)' = Version(i) /\ (Agrees(i) => Agrees(i)')
    BY <1>1 DEF Version, Agrees
  <2> QED
    BY <2>1, <2>2 DEF LastEventHolds, LastHolds, Reported, RestAgrees
<1> QED
  BY <1>2, <1>3, <1>4 DEF GraphIInv

\* What the store holds of an id, given all it holds.
Stores(rs, es, i, objs) ==
    /\ {r \in rs : r.id = i} = {Graph!ResourceOf(o) : o \in objs}
    /\ {e \in es : e.from = i} = UNION {Graph!EdgesOf(o) : o \in objs}

StoreHolds(rs, es) ==
    /\ rs \subseteq {Graph!ResourceOf(o) : o \in Objects}
    /\ es \subseteq UNION {Graph!EdgesOf(o) : o \in Objects}
    /\ \A e \in es : \E r \in rs : r.id = e.from

Elsewhere(rs, es, qs, ds, i) ==
    \A j : j # i => {r \in qs : r.id = j} = {r \in rs : r.id = j} /\ {e \in ds : e.from = j} = {e \in es : e.from = j}

LEMMA Upserts ==
    ASSUME StoreTyped, NEW o \in Objects, NEW d, d = Graph!Upserted(store, o), NEW g, g = Graph!Stored(store, o, d)
    PROVE  /\ StoreHolds(g.resources, g.edges) /\ Stores(g.resources, g.edges, o.id, {o})
           /\ Elsewhere(store.resources, store.edges, g.resources, g.edges, o.id)
           /\ g = Graph!Followed(store, d)
<1>1. PICK rs, es : rs = store.resources /\ es = store.edges /\ StoreHolds(rs, es)
  BY DEF StoreTyped, StoreHolds
<1>2. PICK r, new : r = Graph!ResourceOf(o) /\ new = Graph!EdgesOf(o)
  OBVIOUS
<1>3. r.id = o.id /\ \A e \in new : e.from = o.id
  BY <1>2, BuiltFacts
<1>4. PICK out : out = {e \in es : e.from = o.id}
  OBVIOUS
<1>5. d = [id |-> o.id, resource |-> {r}, added |-> new \ es, removed |-> out \ new]
  BY <1>1, <1>2, <1>4 DEF Graph!Upserted, Graph!StaleEdges, Graph!Stale, Graph!Outgoing
<1>6. d.id = o.id /\ d.resource = {r} /\ d.added = new \ es /\ d.removed = out \ new
  BY <1>5
<1>7. PICK qs, ds : qs = {q \in rs : q.id # o.id} \cup {r} /\ ds = (es \ out) \cup new
  OBVIOUS
<1>8. PICK rev : rev = store.rev + 1 + Graph!Cardinality(d.added) + Graph!Cardinality(d.removed)
  OBVIOUS
<1>9. g = [resources |-> qs, edges |-> ds, rev |-> rev]
  BY <1>1, <1>2, <1>4, <1>6, <1>7, <1>8 DEF Graph!Stored, Graph!Outgoing
<1>10. Graph!Followed(store, d) = [resources |-> qs, edges |-> ds, rev |-> rev]
  <2>1. (es \ d.removed) \cup d.added = ds
    BY <1>4, <1>6, <1>7
  <2> QED
    BY <1>1, <1>6, <1>7, <1>8, <2>1 DEF Graph!Followed
<1>11. g.resources = qs /\ g.edges = ds
  BY <1>9
<1>12. StoreHolds(qs, ds)
  <2>1. qs \subseteq {Graph!ResourceOf(p) : p \in Objects} /\ ds \subseteq UNION {Graph!EdgesOf(p) : p \in Objects}
    BY <1>1, <1>2, <1>7 DEF StoreHolds
  <2>2. \A e \in ds : \E q \in qs : q.id = e.from
    BY <1>1, <1>3, <1>4, <1>7 DEF StoreHolds
  <2> QED
    BY <2>1, <2>2 DEF StoreHolds
<1>13. Stores(qs, ds, o.id, {o})
  <2>1. {q \in qs : q.id = o.id} = {r} /\ {e \in ds : e.from = o.id} = new
    BY <1>3, <1>4, <1>7
  <2> QED
    BY <1>2, <2>1 DEF Stores
<1>14. Elsewhere(rs, es, qs, ds, o.id)
  BY <1>3, <1>4, <1>7 DEF Elsewhere
<1> QED
  BY <1>1, <1>9, <1>10, <1>11, <1>12, <1>13, <1>14

LEMMA Removes ==
    ASSUME StoreTyped, NEW o \in Objects, NEW d, d = Graph!Removed(store, o), NEW g, g = Graph!Stored(store, o, d)
    PROVE  /\ StoreHolds(g.resources, g.edges) /\ Stores(g.resources, g.edges, o.id, {})
           /\ Elsewhere(store.resources, store.edges, g.resources, g.edges, o.id)
           /\ g = Graph!Followed(store, d)
<1>1. PICK rs, es : rs = store.resources /\ es = store.edges /\ StoreHolds(rs, es)
  BY DEF StoreTyped, StoreHolds
<1>2. PICK out : out = {e \in es : e.from = o.id}
  OBVIOUS
<1>3. d = [id |-> o.id, resource |-> {}, added |-> {}, removed |-> out]
  BY <1>1, <1>2 DEF Graph!Removed, Graph!Outgoing
<1>4. d.id = o.id /\ d.resource = {} /\ d.added = {} /\ d.removed = out
  BY <1>3
<1>5. PICK qs, ds : qs = {q \in rs : q.id # o.id} /\ ds = es \ out
  OBVIOUS
<1>6. PICK rev : rev = store.rev + 1 + Graph!Cardinality(d.added) + Graph!Cardinality(d.removed)
  OBVIOUS
<1>7. g = [resources |-> qs, edges |-> ds, rev |-> rev]
  <2>1. qs \cup {} = qs /\ ds \cup {} = ds
    OBVIOUS
  <2> QED
    BY <1>1, <1>2, <1>4, <1>5, <1>6, <2>1 DEF Graph!Stored, Graph!Outgoing
<1>8. Graph!Followed(store, d) = [resources |-> qs, edges |-> ds, rev |-> rev]
  <2>1. qs \cup {} = qs /\ ds \cup {} = ds
    OBVIOUS
  <2> QED
    BY <1>1, <1>4, <1>5, <1>6, <2>1 DEF Graph!Followed
<1>9. g.resources = qs /\ g.edges = ds
  BY <1>7
<1>10. StoreHolds(qs, ds)
  <2>1. qs \subseteq {Graph!ResourceOf(p) : p \in Objects} /\ ds \subseteq UNION {Graph!EdgesOf(p) : p \in Objects}
    BY <1>1, <1>5 DEF StoreHolds
  <2>2. \A e \in ds : \E q \in qs : q.id = e.from
    BY <1>1, <1>2, <1>5 DEF StoreHolds
  <2> QED
    BY <2>1, <2>2 DEF StoreHolds
<1>11. Stores(qs, ds, o.id, {})
  <2>1. {q \in qs : q.id = o.id} = {} /\ {e \in ds : e.from = o.id} = {}
    BY <1>2, <1>5
  <2> QED
    BY <2>1 DEF Stores
<1>12. Elsewhere(rs, es, qs, ds, o.id)
  BY <1>2, <1>5 DEF Elsewhere
<1> QED
  BY <1>1, <1>7, <1>8, <1>9, <1>10, <1>11, <1>12

LEMMA HandlePreserves ==
    ASSUME GraphIInv, NEW k \in Graph!Kinds, Graph!Handle(k)
    PROVE  GraphIInv'
<1>1. PICK w \in Seq(WatchEvents(k)) : w = watches[k] /\ w # <<>>
  BY DEF Graph!Handle, GraphIInv, WatchesTyped
<1>2. PICK e : e = Head(w)
  OBVIOUS
<1>3. PICK t \in Seq(WatchEvents(k)) : t = Tail(w)
  BY <1>1, TailFacts
<1>4. /\ e \in WatchEvents(k) /\ e = w[1] /\ 1 \in DOMAIN w
      /\ \A n \in DOMAIN t : t[n] = w[n + 1] /\ n \in Nat /\ n >= 1 /\ n + 1 \in DOMAIN w
      /\ \A n \in DOMAIN w : n = 1 \/ (n - 1 \in DOMAIN t /\ t[n - 1] = w[n])
  <2>1. /\ Head(w) = w[1] /\ Head(w) \in WatchEvents(k) /\ 1 \in DOMAIN w /\ DOMAIN w = 1 .. Len(w) /\ Len(w) \in Nat
        /\ DOMAIN Tail(w) = 1 .. (Len(w) - 1) /\ \A n \in 1 .. (Len(w) - 1) : Tail(w)[n] = w[n + 1]
    BY <1>1
  <2>2. \A n \in DOMAIN t : t[n] = w[n + 1] /\ n \in Nat /\ n >= 1 /\ n + 1 \in DOMAIN w
    BY <1>3, <2>1
  <2>3. ASSUME NEW n \in DOMAIN w, n # 1
        PROVE  n - 1 \in DOMAIN t /\ t[n - 1] = w[n]
    <3>1. n - 1 \in 1 .. (Len(w) - 1) /\ (n - 1) + 1 = n
      BY <2>1, <2>3
    <3> QED
      BY <1>3, <2>1, <3>1
  <2> QED
    BY <1>2, <2>1, <2>2, <2>3
<1>5. PICK o \in Objects : o = e.obj /\ o.kind = k /\ e.type \in {"apply", "delete"}
  BY <1>4 DEF WatchEvents
<1>6. watches' = [watches EXCEPT ![k] = t] /\ UNCHANGED <<cluster, broken, other>>
  BY <1>1, <1>3 DEF Graph!Handle, GraphIInv, WatchesTyped
<1>7. /\ StoreHolds(store'.resources, store'.edges) /\ Stores(store'.resources, store'.edges, o.id, Reported(e))
      /\ Elsewhere(store.resources, store.edges, store'.resources, store'.edges, o.id)
      /\ replica' # None => replica' = store'
  <2>1. CASE e.type = "apply"
    <3>1. PICK d : d = Graph!Upserted(store, o)
      OBVIOUS
    <3>2. store' = Graph!Stored(store, o, d) /\ replica' = IF replica = None THEN None ELSE Graph!Followed(replica, d)
      BY <1>1, <1>2, <1>5, <2>1, <3>1 DEF Graph!Handle
    <3>3. Reported(e) = {o}
      BY <1>5, <2>1 DEF Reported
    <3> QED
      BY <3>1, <3>2, <3>3, Upserts DEF GraphIInv
  <2>2. CASE e.type = "delete" /\ \E r \in store.resources : r.id = o.id
    <3>1. PICK d : d = Graph!Removed(store, o)
      OBVIOUS
    <3>2. store' = Graph!Stored(store, o, d) /\ replica' = IF replica = None THEN None ELSE Graph!Followed(replica, d)
      BY <1>1, <1>2, <1>5, <2>2, <3>1 DEF Graph!Handle
    <3>3. Reported(e) = {}
      BY <2>2 DEF Reported
    <3> QED
      BY <3>1, <3>2, <3>3, Removes DEF GraphIInv
  <2>3. CASE e.type = "delete" /\ ~\E r \in store.resources : r.id = o.id
    <3>1. store' = store /\ replica' = replica
      BY <1>1, <1>2, <1>5, <2>3 DEF Graph!Handle
    <3>2. Reported(e) = {}
      BY <2>3 DEF Reported
    <3>3. PICK rs, es : rs = store.resources /\ es = store.edges /\ StoreHolds(rs, es)
      BY DEF GraphIInv, StoreTyped, StoreHolds
    <3>4. Stores(rs, es, o.id, {}) /\ Elsewhere(rs, es, rs, es, o.id)
      BY <2>3, <3>3 DEF Stores, StoreHolds, Elsewhere
    <3> QED
      BY <3>1, <3>2, <3>3, <3>4 DEF GraphIInv
  <2> QED
    BY <1>5, <2>1, <2>2, <2>3
<1>8. ClusterTyped' /\ StoreTyped' /\ \A i : Version(i)' = Version(i)
  BY <1>6, <1>7 DEF GraphIInv, ClusterTyped, StoreTyped, StoreHolds, Version
<1>9. WatchesTyped'
  BY <1>6 DEF GraphIInv, WatchesTyped
<1>10. ASSUME NEW i, i # o.id, Agrees(i)
       PROVE  Agrees(i)'
  BY <1>7, <1>8, <1>10 DEF Agrees, StoredAs, Graph!Outgoing, Elsewhere
<1>11. Version(o.id) = Reported(e) => Agrees(o.id)'
  BY <1>7, <1>8 DEF Agrees, StoredAs, Graph!Outgoing, Stores
<1>12. ASSUME NEW j \in Graph!Kinds \ broken', j # k
       PROVE  LastEventHolds(j)' /\ RestAgrees(j)'
  <2>1. watches'[j] = watches[j] /\ LastEventHolds(j) /\ RestAgrees(j)
    BY <1>6, <1>12 DEF GraphIInv, WatchesTyped
  <2>2. PICK v : v = watches[j] /\ v = watches'[j]
    BY <2>1
  <2>3. LastHolds(v)'
    BY <1>8, <2>1, <2>2 DEF LastEventHolds, LastHolds, Reported
  <2>4. \A p \in Objects : p.kind = j => p.id # o.id
    BY <1>5, <1>12, TopologyAssumption
  <2> QED
    BY <1>10, <2>1, <2>2, <2>3, <2>4 DEF LastEventHolds, RestAgrees
<1>13. ASSUME k \notin broken'
       PROVE  LastEventHolds(k)' /\ RestAgrees(k)'
  <2>1. LastHolds(w) /\ RestAgrees(k) /\ watches'[k] = t
    BY <1>1, <1>6, <1>13 DEF GraphIInv, WatchesTyped, LastEventHolds
  <2>2. LastHolds(t)'
    <3>1. ASSUME NEW n \in DOMAIN t, \A m \in DOMAIN t : m > n => t[m].obj.id # t[n].obj.id
          PROVE  Version(t[n].obj.id) = Reported(t[n])
      <4>1. t[n] = w[n + 1] /\ n \in Nat /\ n >= 1 /\ n + 1 \in DOMAIN w
        BY <1>4
      <4>2. ASSUME NEW m \in DOMAIN w, m > n + 1
            PROVE  w[m].obj.id # w[n + 1].obj.id
        <5>1. m \in Nat /\ m # 1
          BY <1>1, <4>1, <4>2
        <5>2. m - 1 \in DOMAIN t /\ t[m - 1] = w[m] /\ m - 1 > n
          BY <1>4, <4>1, <4>2, <5>1
        <5> QED
          BY <3>1, <4>1, <5>2
      <4> QED
        BY <2>1, <4>1, <4>2 DEF LastHolds
    <3> QED
      BY <1>8, <3>1 DEF LastHolds, Reported
  <2>3. ASSUME NEW p \in Objects, p.kind = k, \A n \in DOMAIN t : t[n].obj.id # p.id
        PROVE  Agrees(p.id)'
    <3>1. CASE p.id = o.id
      <4>1. ASSUME NEW m \in DOMAIN w, m > 1
            PROVE  w[m].obj.id # w[1].obj.id
        <5>1. m # 1
          BY <1>1, <4>1
        <5> QED
          BY <1>4, <1>5, <2>3, <3>1, <5>1
      <4>2. Version(o.id) = Reported(e)
        BY <1>4, <1>5, <2>1, <4>1 DEF LastHolds
      <4> QED
        BY <1>11, <3>1, <4>2
    <3>2. CASE p.id # o.id
      <4>1. \A n \in DOMAIN w : w[n].obj.id # p.id
        BY <1>4, <1>5, <2>3, <3>2
      <4>2. Agrees(p.id)
        BY <1>1, <2>1, <2>3, <4>1 DEF RestAgrees
      <4> QED
        BY <1>10, <3>2, <4>2
    <3> QED
      BY <3>1, <3>2
  <2> QED
    BY <2>1, <2>2, <2>3 DEF LastEventHolds, RestAgrees
<1> QED
  BY <1>7, <1>8, <1>9, <1>12, <1>13 DEF GraphIInv

LEMMA GraphUnchanged ==
    ASSUME GraphIInv, UNCHANGED <<cluster, watches, broken, store, replica, other>>
    PROVE  GraphIInv'
<1>1. ClusterTyped' /\ WatchesTyped' /\ StoreTyped'
  BY DEF GraphIInv, ClusterTyped, WatchesTyped, StoreTyped
<1>2. ASSUME NEW k \in Graph!Kinds \ broken
      PROVE  LastEventHolds(k)' /\ RestAgrees(k)'
  <2>1. LastEventHolds(k) /\ RestAgrees(k) /\ \A i : Version(i)' = Version(i) /\ (Agrees(i) => Agrees(i)')
    BY DEF GraphIInv, Version, Agrees
  <2> QED
    BY <2>1 DEF LastEventHolds, LastHolds, Reported, RestAgrees
<1> QED
  BY <1>1, <1>2 DEF GraphIInv

LEMMA SubscriberPreserves ==
    ASSUME GraphIInv, Graph!WatchTopology \/ Graph!Resync
    PROVE  GraphIInv'
<1>1. UNCHANGED <<cluster, watches, broken, store, other>> /\ (replica' # None => replica' = store)
  BY DEF Graph!WatchTopology, Graph!Resync, GraphIInv
<1>2. ClusterTyped' /\ WatchesTyped' /\ StoreTyped'
  BY <1>1 DEF GraphIInv, ClusterTyped, WatchesTyped, StoreTyped
<1>3. ASSUME NEW k \in Graph!Kinds \ broken
      PROVE  LastEventHolds(k)' /\ RestAgrees(k)'
  <2>1. LastEventHolds(k) /\ RestAgrees(k) /\ \A i : Version(i)' = Version(i) /\ (Agrees(i) => Agrees(i)')
    BY <1>1 DEF GraphIInv, Version, Agrees
  <2> QED
    BY <1>1, <2>1 DEF LastEventHolds, LastHolds, Reported, RestAgrees
<1> QED
  BY <1>1, <1>2, <1>3 DEF GraphIInv

LEMMA GraphInductive ==
    /\ JointInit => GraphIInv
    /\ GraphIInv /\ [JointNext]_JointVars => GraphIInv'
<1>1. JointInit => GraphIInv
  BY GraphInit DEF JointInit
<1>2. UNCHANGED topology => UNCHANGED <<cluster, watches, broken, store, replica, other>>
  BY DEF topology
<1>3. ASSUME GraphIInv, Graph!Next
      PROVE  GraphIInv'
  <2>1. Graph!Done => UNCHANGED <<cluster, watches, broken, store, replica, other>>
    BY DEF Graph!Done, Graph!vars
  <2> QED
    BY <1>3, <2>1, ApplyPreserves, DeletePreserves, BreakPreserves, HandlePreserves, SubscriberPreserves, GraphUnchanged
       DEF Graph!Next
<1>4. ASSUME GraphIInv, JointNext
      PROVE  GraphIInv'
  BY <1>2, <1>3, <1>4, GraphUnchanged DEF JointNext
<1>5. ASSUME GraphIInv, UNCHANGED JointVars
      PROVE  GraphIInv'
  BY <1>2, <1>5, GraphUnchanged DEF JointVars
<1> QED
  BY <1>1, <1>4, <1>5

LEMMA QuietAgrees ==
    ASSUME GraphIInv
    PROVE  Graph!WatcherAgrees
<1>1. ASSUME NEW k \in Graph!Kinds \ broken, watches[k] = <<>>,
             NEW objs, objs = {o \in cluster : o.kind = k}
      PROVE  /\ {r \in store.resources : r.kind = k} = {Graph!ResourceOf(o) : o \in objs}
             /\ \A o \in objs : {e \in store.edges : e.from = o.id} = Graph!EdgesOf(o)
  <2>1. cluster \subseteq Objects /\ \A p, q \in cluster : p.id = q.id => p = q
    BY DEF GraphIInv, ClusterTyped
  <2>2. \A o \in Objects : o.kind = k => Agrees(o.id)
    BY <1>1 DEF GraphIInv, RestAgrees
  <2>3. ASSUME NEW r \in store.resources, r.kind = k
        PROVE  \E o \in objs : r = Graph!ResourceOf(o)
    <3>1. PICK p \in Objects : r = Graph!ResourceOf(p)
      BY DEF GraphIInv, StoreTyped
    <3>2. p.kind = k /\ r.id = p.id
      BY <2>3, <3>1, BuiltFacts
    <3>3. Agrees(p.id)
      BY <2>2, <3>2
    <3>4. PICK o \in Version(p.id) : r = Graph!ResourceOf(o)
      BY <3>2, <3>3 DEF Agrees, StoredAs
    <3>5. o \in cluster /\ o.kind = p.kind
      BY <2>1, <3>4, TopologyAssumption DEF Version
    <3> QED
      BY <1>1, <3>2, <3>4, <3>5
  <2>4. ASSUME NEW o \in objs
        PROVE  /\ Graph!ResourceOf(o) \in store.resources /\ Graph!ResourceOf(o).kind = k
               /\ {e \in store.edges : e.from = o.id} = Graph!EdgesOf(o)
    <3>1. o \in Objects /\ o \in cluster /\ o.kind = k /\ Agrees(o.id) /\ Version(o.id) = {o}
      BY <1>1, <2>1, <2>2 DEF Version
    <3>2. Graph!ResourceOf(o) \in store.resources
      BY <3>1 DEF Agrees, StoredAs
    <3>3. {e \in store.edges : e.from = o.id} = Graph!EdgesOf(o)
      BY <3>1 DEF Agrees, Graph!Outgoing
    <3> QED
      BY <3>1, <3>2, <3>3, BuiltFacts
  <2> QED
    BY <2>3, <2>4
<1> QED
  BY <1>1 DEF Graph!WatcherAgrees, GraphIInv

\* A subscriber's copy is the store's graph at its revision, and a kind's part of the store is the
\* cluster's whenever its watch is quiet and unbroken, for any objects and versions of them.
THEOREM WatchersAgree == Joint => []WatcherAgrees
<1>1. GraphIInv => WatcherAgrees
  BY QuietAgrees DEF WatcherAgrees
<1> QED
  BY GraphInductive, <1>1, PTL DEF Joint

----------------------------------------------------------------------------
\* The merge of two snapshots.

LEMMA PrimaryFacts ==
    ASSUME NEW bucket, bucket \subseteq GraphResources, bucket # {}
    PROVE  Graph!Primary(bucket) \in bucket
<1>1. PICK s \in {p.source : p \in bucket} : \A t \in {p.source : p \in bucket} : s <= t
  <2>1. {p.source : p \in bucket} \in SUBSET Nat /\ {p.source : p \in bucket} # {}
    BY DEF GraphResources
  <2> QED
    BY <2>1, LeastNatural
<1>2. PICK first : first = {p \in bucket : p.source = s}
  OBVIOUS
<1>3. PICK i \in {p.id : p \in first} : \A j \in {p.id : p \in first} : i <= j
  <2>1. {p.id : p \in first} \in SUBSET Nat /\ {p.id : p \in first} # {}
    BY <1>1, <1>2 DEF GraphResources
  <2> QED
    BY <2>1, LeastNatural
<1>4. PICK p \in first : p.id = i
  BY <1>3
<1>5. ASSUME NEW q \in bucket
      PROVE  p.source < q.source \/ (p.source = q.source /\ p.id <= q.id)
  <2>1. p \in bucket /\ p.source = s /\ s <= q.source /\ s \in Nat /\ q.source \in Nat
    BY <1>1, <1>2, <1>4 DEF GraphResources
  <2>2. CASE q.source = s
    <3>1. q \in first
      BY <1>2, <2>2
    <3> QED
      BY <1>3, <1>4, <2>1, <2>2, <3>1
  <2>3. CASE q.source # s
    BY <2>1, <2>3
  <2> QED
    BY <2>2, <2>3
<1>6. p \in bucket
  BY <1>2
<1> QED
  BY <1>5, <1>6 DEF Graph!Primary

\* The resource a group becomes has the id of its first.
LEMMA CollapsedFacts ==
    ASSUME NEW bucket, bucket \subseteq GraphResources, bucket # {}
    PROVE  Graph!Collapsed(bucket).id = Graph!Primary(bucket).id
<1>1. PICK p \in GraphResources : p = Graph!Primary(bucket)
  BY PrimaryFacts
<1>2. ASSUME NEW x
      PROVE  [p EXCEPT !.kind = x].id = p.id
  BY <1>1 DEF GraphResources
<1>3. PICK known : known = {i \in DOMAIN Graph!KindPriority : Graph!KindPriority[i] \in {q.kind : q \in bucket}}
  OBVIOUS
<1>4. Graph!Collapsed(bucket) = IF known = {} THEN p ELSE [p EXCEPT !.kind = Graph!KindPriority[Graph!Min(known)]]
  BY <1>1, <1>3, Zenon DEF Graph!Collapsed
<1> QED
  BY <1>1, <1>2, <1>4

\* What an id becomes is an id the merged graph knows.
LEMMA MergedIsKnown ==
    ASSUME NEW rs, rs \subseteq GraphResources, NEW r \in rs
    PROVE  \E q \in Graph!MergedResources(rs) : q.id = Graph!IdMap(rs, r.id)
<1>1. PICK moved : moved = {Graph!Primary(Graph!Bucket(rs, q)).id : q \in {p \in rs : p.id = r.id /\ Graph!Collapses(rs, p)}}
  OBVIOUS
<1>2. Graph!IdMap(rs, r.id) = IF moved \ {r.id} = {} THEN r.id ELSE CHOOSE i \in moved \ {r.id} : TRUE
  BY <1>1, Zenon DEF Graph!IdMap
<1>3. ASSUME NEW q \in rs, Graph!Collapses(rs, q)
      PROVE  \E m \in Graph!MergedResources(rs) : m.id = Graph!Primary(Graph!Bucket(rs, q)).id
  <2>1. Graph!Bucket(rs, q) \subseteq GraphResources /\ Graph!Bucket(rs, q) # {}
    BY DEF Graph!Bucket
  <2>2. Graph!Collapsed(Graph!Bucket(rs, q)) \in Graph!MergedResources(rs)
    BY <1>3 DEF Graph!MergedResources
  <2> QED
    BY <2>1, <2>2, CollapsedFacts
<1>4. CASE moved \ {r.id} = {}
  <2>1. CASE Graph!Collapses(rs, r)
    <3>1. Graph!Primary(Graph!Bucket(rs, r)).id \in moved
      BY <1>1, <2>1
    <3> QED
      BY <1>2, <1>3, <1>4, <2>1, <3>1
  <2>2. CASE ~Graph!Collapses(rs, r)
    <3>1. r \in Graph!MergedResources(rs)
      BY <2>2 DEF Graph!MergedResources
    <3> QED
      BY <1>2, <1>4, <3>1
  <2> QED
    BY <2>1, <2>2
<1>5. CASE moved \ {r.id} # {}
  <2>1. Graph!IdMap(rs, r.id) \in moved
    BY <1>2, <1>5
  <2>2. PICK q \in rs : Graph!Collapses(rs, q) /\ Graph!IdMap(rs, r.id) = Graph!Primary(Graph!Bucket(rs, q)).id
    BY <1>1, <2>1
  <2> QED
    BY <1>3, <2>2
<1> QED
  BY <1>4, <1>5

\* Who runs on a host that is known is named, if it is known itself.
LEMMA Named ==
    ASSUME NEW g, NEW host, NEW member, NEW e \in g.edges, e.rel = "RUNS_ON", e.from = member, e.to = host,
           host \in Graph!Known(g), member \in Graph!Known(g), NEW told \in Graph!BlastRadius(g, host)
    PROVE  \E c \in told : c.member = member /\ c.root = Graph!OwnershipRoot(g, member)
<1>1. member \in Graph!ChildrenOf(g, host)
  BY DEF Graph!ChildrenOf
<1>2. Graph!Hosts(g, host) = {{host}}
  BY <1>1 DEF Graph!Hosts
<1>3. told = UNION {Graph!CoTenants(g, h) : h \in {host} \cap Graph!Known(g)}
  BY <1>2 DEF Graph!BlastRadius
<1>4. PICK c : c = [root |-> Graph!OwnershipRoot(g, member), member |-> member]
  OBVIOUS
<1>5. c \in Graph!CoTenants(g, host)
  BY <1>1, <1>4 DEF Graph!CoTenants
<1>6. c \in told
  BY <1>3, <1>5
<1> QED
  BY <1>4, <1>6

LEMMA TenantsNamed ==
    ASSUME GraphIInv
    PROVE  Graph!TenantsAreNamed
<1>1. store.resources \subseteq GraphResources /\ store.edges \subseteq GraphEdges
  BY BuiltFacts DEF GraphIInv, StoreTyped
<1>2. PICK rs, es : rs = Graph!Resources /\ es = Graph!Edges
  OBVIOUS
<1>3. rs \subseteq GraphResources /\ es \subseteq GraphEdges
  BY <1>1, <1>2, TopologyAssumption DEF Graph!Resources, Graph!Edges, GraphIInv, ClusterTyped
<1>4. ASSUME NEW e \in es, e.rel = "RUNS_ON", NEW p \in rs, p.id = e.from, NEW q \in rs, q.id = e.to,
             NEW host, host = Graph!MergedId(e.to), NEW member, member = Graph!MergedId(e.from), host # member,
             NEW g, g = Graph!Aggregate, NEW told \in Graph!BlastRadius(g, host)
      PROVE  \E c \in told : c.member = member /\ c.root = Graph!OwnershipRoot(g, member)
  <2>1. CASE other = None
    <3>1. rs = store.resources /\ es = store.edges
      BY <1>2, <2>1 DEF Graph!Resources, Graph!Edges
    <3>2. g = [resources |-> rs, edges |-> es] /\ host = e.to /\ member = e.from
      BY <1>4, <2>1, <3>1 DEF Graph!Aggregate, Graph!MergedId
    <3>3. g.resources = rs /\ g.edges = es
      BY <3>2
    <3>4. host \in Graph!Known(g) /\ member \in Graph!Known(g)
      BY <1>4, <3>2, <3>3 DEF Graph!Known
    <3> QED
      BY <1>4, <3>2, <3>3, <3>4, Named
  <2>2. CASE other # None
    <3>1. g = [resources |-> Graph!MergedResources(rs), edges |-> Graph!MergedEdges(rs, es)]
      BY <1>2, <1>4, <2>2 DEF Graph!Aggregate
    <3>2. g.resources = Graph!MergedResources(rs) /\ g.edges = Graph!MergedEdges(rs, es)
      BY <3>1
    <3>3. host = Graph!IdMap(rs, e.to) /\ member = Graph!IdMap(rs, e.from)
      BY <1>2, <1>4, <2>2 DEF Graph!MergedId
    <3>4. PICK d : d = Graph!Rewritten(rs, e)
      OBVIOUS
    <3>5. d.rel = "RUNS_ON" /\ d.from = member /\ d.to = host
      <4>1. e \in [from : Nat, to : Nat, rel : Relations]
        BY <1>3, <1>4 DEF GraphEdges
      <4>2. d = [e EXCEPT !.from = Graph!IdMap(rs, @), !.to = Graph!IdMap(rs, @)]
        BY <3>4 DEF Graph!Rewritten, Graph!BothEnds
      <4>3. d = [e EXCEPT !.from = member, !.to = host]
        BY <3>3, <4>1, <4>2
      <4> QED
        BY <1>4, <4>1, <4>3
    <3>6. d \in g.edges
      BY <1>4, <3>2, <3>3, <3>4 DEF Graph!MergedEdges
    <3>7. host \in Graph!Known(g) /\ member \in Graph!Known(g)
      BY <1>3, <1>4, <3>2, <3>3, MergedIsKnown DEF Graph!Known
    <3> QED
      BY <1>4, <3>5, <3>6, <3>7, Named
  <2> QED
    BY <2>1, <2>2
<1>5. PICK g : g = Graph!Aggregate
  OBVIOUS
<1>6. ASSUME NEW e \in {d \in Graph!Edges : d.rel = "RUNS_ON" /\ {d.from, d.to} \subseteq {r.id : r \in Graph!Resources}},
             Graph!MergedId(e.to) # Graph!MergedId(e.from), NEW told \in Graph!BlastRadius(g, Graph!MergedId(e.to))
      PROVE  \E c \in told : c.member = Graph!MergedId(e.from)
                               /\ c.root = Graph!OwnershipRoot(g, Graph!MergedId(e.from))
  <2>1. e \in es /\ e.rel = "RUNS_ON" /\ e.from \in {r.id : r \in rs} /\ e.to \in {r.id : r \in rs}
    BY <1>2
  <2>2. PICK p \in rs : p.id = e.from
    BY <2>1
  <2>3. PICK q \in rs : q.id = e.to
    BY <2>1
  <2> QED
    BY <1>4, <1>5, <1>6, <2>1, <2>2, <2>3
<1> QED
  BY <1>5, <1>6 DEF Graph!TenantsAreNamed

\* Whoever either snapshot says runs on a host is named by that host's blast radius, under the
\* ids and owners of the merged graph, for any two snapshots.
THEOREM TenantsStayNamed == Joint => []TenantsAreNamed
<1>1. GraphIInv => TenantsAreNamed
  BY TenantsNamed DEF TenantsAreNamed
<1> QED
  BY GraphInductive, <1>1, PTL DEF Joint

----------------------------------------------------------------------------
\* SignalTools.  A call is one step, so what is shown is of the answer it gives.

SignalsIInv == lines \in [Signals!L -> LogContents] /\ Signals!LogsAloneDecide /\ Signals!LogOnlySeen

LEMMA SignalsCardinality == \A S : Signals!Cardinality(S) = Cardinality(S)
BY DEF Signals!Cardinality, Cardinality, Signals!IsFiniteSet, IsFiniteSet

LEMMA SignalsMax == \A S : Signals!Max(S) = Max(S)
BY DEF Signals!Max, Max

LEMMA LinesFinite ==
    ASSUME NEW held \in SUBSET Signals!Lines
    PROVE  IsFiniteSet(held)
<1>1. ASSUME NEW w, NEW x, NEW y, NEW z
      PROVE  IsFiniteSet({w, x, y, z})
  <2>1. IsFiniteSet({})
    BY FS_EmptySet
  <2>2. IsFiniteSet({} \cup {w}) /\ {} \cup {w} = {w}
    BY <2>1, FS_AddElement
  <2>3. IsFiniteSet({w} \cup {x}) /\ {w} \cup {x} = {w, x}
    BY <2>2, FS_AddElement
  <2>4. IsFiniteSet({w, x} \cup {y}) /\ {w, x} \cup {y} = {w, x, y}
    BY <2>3, FS_AddElement
  <2>5. IsFiniteSet({w, x, y} \cup {z}) /\ {w, x, y} \cup {z} = {w, x, y, z}
    BY <2>4, FS_AddElement
  <2> QED
    BY <2>5
<1>2. IsFiniteSet(Signals!Lines)
  BY <1>1, Zenon DEF Signals!Lines
<1> QED
  BY <1>2, FS_Subset

\* Lines that are errors are lines.
LEMMA SummaryFacts ==
    ASSUME NEW kinds \in SUBSET Signals!Lines, NEW frequent
    PROVE  /\ Signals!Summary(kinds, frequent).errors > 0 => Signals!Summary(kinds, frequent).total > 0
           /\ kinds = {} => ~(Signals!Summary(kinds, frequent).total > 0)
<1>1. PICK errors : errors = {k \in kinds : k.level = "error"}
  OBVIOUS
<1>2. /\ Signals!Summary(kinds, frequent).errors = Cardinality(errors)
      /\ Signals!Summary(kinds, frequent).total = Cardinality(kinds)
  BY <1>1, SignalsCardinality DEF Signals!Summary
<1>3. IsFiniteSet(kinds) /\ errors \subseteq kinds
  BY <1>1, LinesFinite
<1>4. Cardinality(errors) <= Cardinality(kinds) /\ Cardinality(errors) \in Nat /\ Cardinality(kinds) \in Nat
  BY <1>3, FS_Subset, FS_CardinalityType
<1>5. kinds = {} => Cardinality(kinds) = 0
  BY FS_EmptySet
<1> QED
  BY <1>2, <1>4, <1>5

\* A label that is looked for is one of the source's.
LEMMA FirstFacts ==
    ASSUME NEW labels
    PROVE  Signals!First(labels) \in Signals!LabelNames
<1>1. PICK places : places = {i \in DOMAIN LogLabels : LogLabels[i] \in labels}
  OBVIOUS
<1>2. DOMAIN LogLabels = 1 .. Len(LogLabels) /\ Len(LogLabels) \in Nat /\ Len(LogLabels) >= 1
  BY SignalsAssumption
<1>3. \A i \in DOMAIN LogLabels : LogLabels[i] \in Signals!LabelNames
  BY DEF Signals!LabelNames
<1>4. CASE places = {}
  BY <1>1, <1>2, <1>3, <1>4 DEF Signals!First
<1>5. CASE places # {}
  <2>1. places \in SUBSET Nat
    BY <1>1, <1>2
  <2>2. \E i \in places : \A j \in places : i <= j
    BY <1>5, <2>1, LeastNatural
  <2>3. Signals!Min(places) \in places
    BY <2>2 DEF Signals!Min
  <2> QED
    BY <1>1, <1>3, <1>5, <2>3 DEF Signals!First
<1> QED
  BY <1>4, <1>5

LEMMA StreamFacts ==
    ASSUME lines \in [Signals!L -> LogContents], NEW l \in Signals!L, NEW label \in Signals!LabelNames, NEW s
    PROVE  Signals!Stream(l, label, s).recent \in SUBSET Signals!Lines
<1>1. CASE s \in DOMAIN lines[l][label]
  <2>1. lines[l] \in LogContents
    OBVIOUS
  <2>2. lines[l][label][s] \in Signals!Streams
    BY <1>1, <2>1, SignalsAssumption
  <2> QED
    BY <1>1, <2>2 DEF Signals!Stream, Signals!Streams
<1>2. CASE s \notin DOMAIN lines[l][label]
  BY <1>2 DEF Signals!Stream, Signals!Silence
<1> QED
  BY <1>1, <1>2

\* What a source is judged by: one of its streams, and the one it keeps if no lookup is lost.
LEMMA JudgedFacts ==
    ASSUME lines \in [Signals!L -> LogContents], NEW l \in Signals!L, NEW s, NEW lost
    PROVE  /\ Signals!Judged(l, s, lost).errors > 0 => Signals!Judged(l, s, lost).total > 0
           /\ (\A label \in Signals!LabelNames : Signals!Stream(l, label, s).recent = {})
                => ~(Signals!Judged(l, s, lost).total > 0)
<1>1. PICK label \in Signals!LabelNames : label = Signals!Resolved(l, s, lost)
  BY FirstFacts DEF Signals!Resolved
<1>2. PICK st : st = Signals!Stream(l, label, s) /\ st.recent \in SUBSET Signals!Lines
  BY StreamFacts
<1>3. Signals!Judged(l, s, lost) = Signals!Summary(st.recent, st.frequent)
  BY <1>1, <1>2 DEF Signals!Judged, Signals!Said
<1> QED
  BY <1>2, <1>3, SummaryFacts

LEMMA HealthAnswers ==
    ASSUME SignalsIInv, NEW s \in Services, Signals!ServiceHealth(s)
    PROVE  SignalsIInv'
<1>1. PICK done \in [Signals!M -> 0 .. 4], failed \in SUBSET Signals!L,
           lost \in [Signals!L -> SUBSET Signals!LabelNames] :
        LET hasMetrics == \E m \in Signals!M : done[m] > 0 /\ Signals!HasSeries(m, s)
            hasLogs    == \E l \in Signals!L \ failed : Signals!Judged(l, s, lost[l]).total > 0
        IN Signals!Answers([tool |-> "health", service |-> s, heard |-> Signals!L \ failed,
                misled |-> {l \in Signals!L : lost[l] # {}}, metrics |-> hasMetrics,
                status |-> IF ~hasMetrics /\ ~hasLogs THEN "unknown"
                           ELSE Signals!Status(s, done, Signals!LogReading(s, failed, lost),
                                               Signals!Families(hasMetrics, hasLogs))])
  BY DEF Signals!ServiceHealth
<1>2. PICK metrics : metrics = (\E m \in Signals!M : done[m] > 0 /\ Signals!HasSeries(m, s))
  OBVIOUS
<1>3. PICK logs : logs = (\E l \in Signals!L \ failed : Signals!Judged(l, s, lost[l]).total > 0)
  OBVIOUS
<1>4. PICK heard, misled : heard = Signals!L \ failed /\ misled = {l \in Signals!L : lost[l] # {}}
  OBVIOUS
<1>5. PICK status : status = IF ~metrics /\ ~logs THEN "unknown"
                             ELSE Signals!Status(s, done, Signals!LogReading(s, failed, lost),
                                                 Signals!Families(metrics, logs))
  OBVIOUS
<1>6. PICK a : a = [tool |-> "health", service |-> s, heard |-> heard, misled |-> misled, metrics |-> metrics,
                    status |-> status]
  OBVIOUS
<1>7. answer' = a /\ UNCHANGED lines
  BY <1>1, <1>2, <1>3, <1>4, <1>5, <1>6, Zenon DEF Signals!Answers
<1>8. /\ a.tool = "health" /\ a.service = s /\ a.heard = heard /\ a.misled = misled /\ a.metrics = metrics
      /\ a.status = status
  BY <1>6
<1>9. lines \in [Signals!L -> LogContents]
  BY DEF SignalsIInv
<1>10. PICK clear : clear = heard \ misled
  OBVIOUS
<1>11. \A l \in clear : l \in Signals!L /\ lost[l] = {}
  BY <1>4, <1>10
<1>12. ASSUME \E l \in clear : Signals!Judged(l, s, {}).total > 0
       PROVE  logs
  <2>1. PICK l \in clear : Signals!Judged(l, s, {}).total > 0
    BY <1>12
  <2> QED
    BY <1>3, <1>4, <1>10, <1>11, <2>1
<1>13. ASSUME ~metrics, clear # {}, clear = heard, \A l \in clear : Signals!Judged(l, s, {}).errors > 0
       PROVE  status = "critical"
  <2>1. PICK n \in Nat : n = Logs
    BY SignalsAssumption
  <2>2. heard \in SUBSET (1 .. n)
    BY <1>4, <2>1 DEF Signals!L
  <2>3. Signals!Max(heard) \in heard
    BY <1>13, <2>2, MaxOf, SignalsMax
  <2>4. PICK last \in heard : last = Signals!Max(heard)
    BY <2>3
  <2>5. Signals!Judged(last, s, lost[last]).errors > 0
    BY <1>11, <1>13
  <2>6. Signals!LogReading(s, failed, lost) = "crit"
    BY <1>4, <1>13, <2>4, <2>5 DEF Signals!LogReading
  <2>7. logs
    <3>1. Signals!Judged(last, s, {}).total > 0
      BY <1>9, <1>11, <1>13, JudgedFacts
    <3> QED
      BY <1>12, <1>13, <3>1
  <2>8. PICK families : families = Signals!Families(metrics, logs)
    OBVIOUS
  <2>9. "metrics" \notin families /\ "logs" \in families
    BY <1>13, <2>7, <2>8 DEF Signals!Families
  <2>10. PICK reading : reading = Signals!LogReading(s, failed, lost)
    OBVIOUS
  <2>11. Signals!Score(reading) = 20
    BY <2>6, <2>10 DEF Signals!Score
  <2>12. Signals!Status(s, done, reading, families) = "critical"
    <3>1. Signals!LogWeight * 20 = 400 /\ Signals!LogWeight = 20
      BY DEF Signals!LogWeight
    <3> QED
      BY <2>9, <2>11, <3>1 DEF Signals!Status
  <2> QED
    BY <1>5, <2>7, <2>8, <2>10, <2>12
<1>14. ASSUME \E l \in clear : Signals!Judged(l, s, {}).total > 0
       PROVE  status # "unknown"
  <2>1. logs
    BY <1>12, <1>14
  <2>2. \A reading, families : Signals!Status(s, done, reading, families) \in {"healthy", "degraded", "critical"}
    BY Zenon DEF Signals!Status
  <2> QED
    BY <1>5, <2>1, <2>2
<1>15. ASSUME ~metrics, \A l \in heard, label \in Signals!LabelNames : Signals!Stream(l, label, s).recent = {}
       PROVE  status = "unknown"
  <2>1. ~logs
    BY <1>3, <1>4, <1>9, <1>15, JudgedFacts
  <2> QED
    BY <1>5, <1>15, <2>1
<1>16. Signals!LogsAloneDecide'
  <2>1. ASSUME NEW x, NEW l, NEW y
        PROVE  (Signals!Judged(l, x, y) = Signals!Judged(l, x, y)') /\ (Signals!Stream(l, y, x) = Signals!Stream(l, y, x)')
    BY <1>7 DEF Signals!Judged, Signals!Said, Signals!Resolved, Signals!LabelValues, Signals!Stream
  <2> QED
    BY <1>7, <1>8, <1>10, <1>13, <1>14, <1>15, <2>1 DEF Signals!LogsAloneDecide, Signals!Tool
<1>17. Signals!LogOnlySeen'
  BY <1>7, <1>8 DEF Signals!LogOnlySeen, Signals!Tool
<1> QED
  BY <1>7, <1>9, <1>16, <1>17 DEF SignalsIInv

LEMMA DetectAnswers ==
    ASSUME SignalsIInv, NEW asked, Signals!DetectAnomalies(asked)
    PROVE  SignalsIInv'
<1>1. PICK downM \in SUBSET Signals!M, unlisted \in [Signals!L -> SUBSET Signals!LabelNames] :
        LET scanned == IF asked = {} THEN Signals!Discovered(downM, unlisted) ELSE asked
        IN \E failed \in SUBSET (scanned \X Signals!L), lost \in [scanned \X Signals!L -> SUBSET Signals!LabelNames] :
             Signals!Answers([tool |-> "detect", asked |-> asked, listed |-> {l \in Signals!L : unlisted[l] = {}},
                              unheard |-> failed \cup {x \in scanned \X Signals!L : lost[x] # {}},
                              anomalies |-> Signals!Reported(scanned, failed, lost)])
  BY DEF Signals!DetectAnomalies
<1>2. PICK scanned : scanned = IF asked = {} THEN Signals!Discovered(downM, unlisted) ELSE asked
  OBVIOUS
<1>3. PICK failed \in SUBSET (scanned \X Signals!L), lost \in [scanned \X Signals!L -> SUBSET Signals!LabelNames] :
        Signals!Answers([tool |-> "detect", asked |-> asked, listed |-> {l \in Signals!L : unlisted[l] = {}},
                         unheard |-> failed \cup {x \in scanned \X Signals!L : lost[x] # {}},
                         anomalies |-> Signals!Reported(scanned, failed, lost)])
  BY <1>1, <1>2, Zenon
<1>4. PICK found, listed, unheard :
        /\ found = Signals!Reported(scanned, failed, lost) /\ listed = {l \in Signals!L : unlisted[l] = {}}
        /\ unheard = failed \cup {x \in scanned \X Signals!L : lost[x] # {}}
  OBVIOUS
<1>5. PICK a : a = [tool |-> "detect", asked |-> asked, listed |-> listed, unheard |-> unheard, anomalies |-> found]
  OBVIOUS
<1>6. answer' = a /\ UNCHANGED lines
  BY <1>3, <1>4, <1>5, Zenon DEF Signals!Answers
<1>7. a.tool = "detect" /\ a.asked = asked /\ a.listed = listed /\ a.unheard = unheard /\ a.anomalies = found
  BY <1>5
<1>8. ASSUME NEW l \in Signals!L, NEW s \in Services, <<s, l>> \notin unheard,
             IF asked = {} THEN l \in listed /\ s \in Signals!Logged(l, {}) ELSE s \in asked,
             Signals!Line("error", TRUE) \in Signals!Scanned(l, s, {}).top
      PROVE  [service |-> s, source |-> l, metric |-> "log_critical_pattern"] \in found
  <2>1. s \in scanned
    <3>1. CASE asked = {}
      <4>1. unlisted[l] = {} /\ s \in Signals!Logged(l, unlisted[l])
        BY <1>4, <1>8, <3>1
      <4> QED
        BY <1>2, <3>1, <4>1 DEF Signals!Discovered
    <3>2. CASE asked # {}
      BY <1>2, <1>8, <3>2
    <3> QED
      BY <3>1, <3>2
  <2>2. PICK x : x = <<s, l>>
    OBVIOUS
  <2>3. x \in (scanned \X Signals!L) \ failed /\ x[1] = s /\ x[2] = l /\ lost[x] = {}
    BY <1>4, <1>8, <2>1, <2>2
  <2>4. Signals!Critical(Signals!Scanned(l, s, {}))
    <3>1. PICK line : line = Signals!Line("error", TRUE)
      OBVIOUS
    <3>2. line.critical
      BY <3>1 DEF Signals!Line
    <3> QED
      BY <1>8, <3>1, <3>2 DEF Signals!Critical
  <2>5. x \in {y \in (scanned \X Signals!L) \ failed : Signals!Critical(Signals!Scanned(y[2], y[1], lost[y]))}
    BY <2>3, <2>4
  <2>6. [service |-> x[1], source |-> x[2], metric |-> "log_critical_pattern"] \in found
    BY <1>4, <2>5 DEF Signals!Reported
  <2> QED
    BY <2>3, <2>6
<1>9. Signals!LogOnlySeen'
  <2>1. ASSUME NEW l, NEW s
        PROVE  (Signals!Scanned(l, s, {}) = Signals!Scanned(l, s, {})') /\ (Signals!Logged(l, {}) = Signals!Logged(l, {})')
    BY <1>6 DEF Signals!Scanned, Signals!Said, Signals!Resolved, Signals!LabelValues, Signals!Stream, Signals!Logged
  <2>2. \A l, s : Signals!Hears(l, s)' <=> /\ <<s, l>> \notin unheard
                                          /\ IF asked = {} THEN l \in listed /\ s \in Signals!Logged(l, {}) ELSE s \in asked
    BY <1>6, <1>7, <2>1 DEF Signals!Hears, Signals!Asks
  <2> QED
    BY <1>6, <1>7, <1>8, <2>1, <2>2 DEF Signals!LogOnlySeen, Signals!Tool, Signals!Found, Signals!Line
<1>10. Signals!LogsAloneDecide'
  BY <1>6, <1>7 DEF Signals!LogsAloneDecide, Signals!Tool
<1> QED
  BY <1>6, <1>9, <1>10 DEF SignalsIInv

LEMMA SignalsStand ==
    ASSUME SignalsIInv, UNCHANGED <<lines, answer>>
    PROVE  SignalsIInv'
<1>1. ASSUME NEW l, NEW s, NEW lost
      PROVE  (Signals!Said(l, s, lost) = Signals!Said(l, s, lost)') /\ (Signals!Logged(l, lost) = Signals!Logged(l, lost)')
  BY DEF Signals!Said, Signals!Resolved, Signals!LabelValues, Signals!Stream, Signals!Logged
<1>2. Signals!LogOnlySeen'
  BY <1>1 DEF SignalsIInv, Signals!LogOnlySeen, Signals!Tool, Signals!Found, Signals!Hears, Signals!Asks,
              Signals!Scanned
<1>3. Signals!LogsAloneDecide'
  BY <1>1 DEF SignalsIInv, Signals!LogsAloneDecide, Signals!Tool, Signals!Judged, Signals!Stream
<1> QED
  BY <1>2, <1>3 DEF SignalsIInv

LEMMA SignalsStep ==
    ASSUME SignalsIInv, Signals!Next
    PROVE  SignalsIInv'
<1>1. ASSUME NEW a, a.tool \in {"list", "query"}, Signals!Answers(a)
      PROVE  SignalsIInv'
  BY <1>1 DEF SignalsIInv, Signals!Answers, Signals!LogsAloneDecide, Signals!LogOnlySeen, Signals!Tool
<1>2. CASE Signals!ListServices
  <2>1. \E a : a.tool = "list" /\ Signals!Answers(a)
    BY <1>2 DEF Signals!ListServices
  <2> QED
    BY <1>1, <2>1
<1>3. ASSUME NEW over, Signals!FanOut(over)
      PROVE  SignalsIInv'
  <2>1. \E a : a.tool = "query" /\ Signals!Answers(a)
    BY <1>3 DEF Signals!FanOut
  <2> QED
    BY <1>1, <2>1
<1>4. UNCHANGED Signals!vars => SignalsIInv'
  BY SignalsStand DEF Signals!vars
<1>5. CASE Signals!QueryMetrics \/ Signals!QueryLogs \/ Signals!QueryTraces
  BY <1>3, <1>5 DEF Signals!QueryMetrics, Signals!QueryLogs, Signals!QueryTraces
<1> QED
  BY <1>2, <1>4, <1>5, HealthAnswers, DetectAnswers DEF Signals!Next

\* A service known by its logs alone is judged by them: where every log source that answered lost
\* no lookup, errors in all of them are critical, and a line in one makes the health known.  A scan
\* reports a critical pattern among the five most frequent errors of the stream a log source keeps
\* for a service, if that source answered and lost no lookup, whatever fails beside it.
THEOREM LogsStayHeard == Joint => []LogsAreHeard
<1>1. JointInit => SignalsIInv
  BY DEF JointInit, SignalsIInv, Signals!Init, Signals!LogsAloneDecide, Signals!LogOnlySeen, Signals!Tool
<1>2. ASSUME SignalsIInv, UNCHANGED signals
      PROVE  SignalsIInv'
  BY <1>2, SignalsStand DEF signals
<1>3. SignalsIInv /\ [JointNext]_JointVars => SignalsIInv'
  BY <1>2, SignalsStep DEF JointNext, JointVars
<1>4. SignalsIInv => LogsAreHeard
  BY DEF SignalsIInv, LogsAreHeard
<1> QED
  BY <1>1, <1>3, <1>4, PTL DEF Joint

----------------------------------------------------------------------------
\* EnterpriseGate.  What a build has read, and what it still has to read when it does, is at least
\* as new as every edit that was answered before a request came to wait for it.

Bodies == {at[t] : at \in StartFiles, t \in Gate!Targets} \cup {e.body : e \in Edits} \cup {None}
Versions == [v : Nat, body : Bodies]
Builds == [at : {"import", "read", "done", "rejected"}, mode : {"off", "fail-closed", "active"},
           todo : Seq(Gate!Targets), read : [Gate!Targets -> Versions], run : Nat \cup {None}]

Todo(g) == {g.todo[i] : i \in DOMAIN g.todo}

Covers(g, since) ==
    \A t \in Gate!Targets :
        Gate!Configured(t) /\ g.mode = "active" /\ t \notin Todo(g) => since[t] <= g.read[t].v

GoodBuilds ==
    {g \in Builds : /\ g.at = "import" => g.mode # "active"
                    /\ g.at = "done" => g.todo = <<>>
                    /\ g.at = "read" => g.todo # <<>>
                    /\ g.mode = "off" => \A t \in Gate!Targets : ~Gate!Configured(t)
                    /\ g.run # None => log # None /\ (restarts = 0 => g.run = 0)}

Requests == [kind : {"call", "put"}, q : GatedCalls \cup Edits, at : {"decide", "authorize", "write", "audit", "ended"},
             build : Nat, status : Nat \cup {None}, since : [Gate!Targets -> Nat], made : Nat]

OpHolds(r) ==
    /\ r \in Requests /\ r.build \in DOMAIN builds
    /\ \A t \in Gate!Targets : r.since[t] <= answered[t]
    /\ Covers(builds[r.build], r.since)
    /\ r.at # "ended" => r.status = None
    /\ r.at = "decide" => r.kind = "call"
    /\ r.at \in {"authorize", "write", "audit"} => r.kind = "put" /\ r.q \in Edits
    /\ r.at = "write" => r.q.who # None
    /\ r.at = "audit" => r.made <= gFile[r.q.target].v
    /\ r.kind = "call" /\ r.status = 200 =>
         builds[r.build].at = "done" /\ builds[r.build].mode \in {"off", "active"}

FilesTyped ==
    /\ gFile = [t \in Gate!Targets |-> gFile[t]] /\ \A t \in Gate!Targets : gFile[t] \in Versions /\ gFile[t].v >= 1
    /\ answered \in [Gate!Targets -> Nat] /\ \A t \in Gate!Targets : answered[t] <= gFile[t].v
    /\ restarts \in Nat /\ gFailures \in Nat

BuildsHold ==
    /\ builds \in Seq(GoodBuilds) /\ memo \in Nat
    /\ memo # 0 => memo \in DOMAIN builds /\ Covers(builds[memo], answered)

OpsHold == ops = [s \in Askers |-> ops[s]] /\ \A s \in Askers : ops[s] # None => OpHolds(ops[s])

ChainHolds ==
    /\ entries \in Seq([run : Nat, n : Nat]) /\ log \in LogOrNot \cup {None}
    /\ restarts = 0 /\ log # None => log.run = 0
    /\ restarts = 0 /\ gFailures = 0 =>
         /\ log = None => entries = <<>>
         /\ log # None => log.len = Len(entries)
         /\ \A i \in DOMAIN entries : entries[i].n = i - 1 /\ entries[i].run = 0

GateIInv == FilesTyped /\ BuildsHold /\ OpsHold /\ ChainHolds /\ Gate!SomeoneAdministers

LEMMA GateInit == Gate!Init => GateIInv
<1> SUFFICES ASSUME Gate!Init
             PROVE  GateIInv
  OBVIOUS
<1>1. PICK at \in StartFiles : gFile = [t \in Gate!Targets |-> [v |-> 1, body |-> at[t]]]
  BY DEF Gate!Init
<1>2. /\ gFile = [t \in Gate!Targets |-> gFile[t]]
      /\ \A t \in Gate!Targets : gFile[t] = [v |-> 1, body |-> at[t]] /\ at[t] \in Bodies
  BY <1>1 DEF Bodies
<1>3. ASSUME NEW t \in Gate!Targets
      PROVE  gFile[t] \in Versions /\ gFile[t].v = 1
  BY <1>2 DEF Versions
<1>4. FilesTyped
  BY <1>2, <1>3 DEF FilesTyped, Gate!Init
<1>5. BuildsHold /\ OpsHold
  BY DEF Gate!Init, BuildsHold, OpsHold
<1>6. ChainHolds
  BY DEF Gate!Init, ChainHolds
<1>7. Gate!SomeoneAdministers
  BY <1>3 DEF Gate!SomeoneAdministers, Gate!Targets
<1> QED
  BY <1>4, <1>5, <1>6, <1>7 DEF GateIInv

\* A promise that is new has read nothing and is not active.
LEMMA FreshFacts ==
    ASSUME NEW g \in {Gate!Inactive, Gate!Fresh}
    PROVE  g \in GoodBuilds /\ g.mode # "active"
<1>1. PICK m \in {"off", "fail-closed"} :
        /\ m = IF Gate!ControlsConfigured THEN "fail-closed" ELSE "off"
        /\ m = "off" => \A t \in Gate!Targets : ~Gate!Configured(t)
  BY DEF Gate!ControlsConfigured
<1>2. PICK read \in [Gate!Targets -> Versions] : read = [t \in Gate!Targets |-> [v |-> 0, body |-> None]]
  <2>1. PICK x \in Versions : x = [v |-> 0, body |-> None]
    <3>1. None \in Bodies /\ 0 \in Nat
      BY DEF Bodies
    <3>2. [v |-> 0, body |-> None] \in [v : Nat, body : Bodies]
      BY <3>1
    <3> QED
      BY <3>2 DEF Versions
  <2>2. PICK f : f = [t \in Gate!Targets |-> x]
    OBVIOUS
  <2>3. f \in [Gate!Targets -> Versions] /\ f = [t \in Gate!Targets |-> [v |-> 0, body |-> None]]
    BY <2>1, <2>2
  <2> QED
    BY <2>3
<1>3. PICK at \in {"done", "import"} :
        g = [at |-> at, mode |-> m, todo |-> <<>>, read |-> read, run |-> None]
  BY <1>1, <1>2 DEF Gate!Inactive, Gate!Fresh
<1>4. g \in Builds /\ g.at = at /\ g.mode = m /\ g.todo = <<>> /\ g.run = None
  BY <1>3 DEF Builds
<1> QED
  BY <1>1, <1>4 DEF GoodBuilds

\* The promise a request comes to wait for covers every edit answered before.
LEMMA AwaitsFacts ==
    ASSUME BuildsHold, Gate!Awaits, NEW bs, bs = builds', NEW b, b = Gate!Awaited
    PROVE  /\ bs \in Seq(GoodBuilds) /\ memo' = b /\ b \in DOMAIN bs /\ b \in Nat /\ Covers(bs[b], answered)
           /\ \A c \in DOMAIN builds : c \in DOMAIN bs /\ bs[c] = builds[c]
<1>1. CASE memo # 0
  BY <1>1 DEF BuildsHold, Gate!Awaits, Gate!Awaited
<1>2. CASE memo = 0
  <2>1. PICK v \in Seq(GoodBuilds) : v = builds
    BY DEF BuildsHold
  <2>2. PICK g \in GoodBuilds : g = Gate!Fresh /\ g.mode # "active"
    BY FreshFacts
  <2>3. bs = Append(v, g) /\ memo' = Len(v) + 1 /\ b = Len(v) + 1
    BY <1>2, <2>1, <2>2 DEF Gate!Awaits, Gate!Awaited
  <2>4. /\ bs \in Seq(GoodBuilds) /\ Len(v) + 1 \in DOMAIN bs /\ Len(v) + 1 \in Nat /\ bs[Len(v) + 1] = g
        /\ \A c \in DOMAIN v : c \in DOMAIN bs /\ bs[c] = v[c]
    BY <2>1, <2>3
  <2>5. Covers(bs[b], answered)
    BY <2>2, <2>3, <2>4 DEF Covers
  <2> QED
    BY <2>1, <2>3, <2>4, <2>5
<1> QED
  BY <1>1, <1>2

\* What covers newer edits covers older ones.
LEMMA CoversLess ==
    ASSUME FilesTyped, NEW g \in Builds, Covers(g, answered), NEW since \in [Gate!Targets -> Nat],
           \A t \in Gate!Targets : since[t] <= answered[t]
    PROVE  Covers(g, since)
<1>1. ASSUME NEW t \in Gate!Targets, answered[t] <= g.read[t].v
      PROVE  since[t] <= g.read[t].v
  <2>1. g.read[t].v \in Nat /\ since[t] \in Nat /\ answered[t] \in Nat
    BY DEF FilesTyped, Builds, Versions
  <2> QED
    BY <1>1, <2>1
<1> QED
  BY <1>1 DEF Covers

\* Requests that stand still keep what held of them while files, answers and builds only grow.
Grows ==
    /\ \A t \in Gate!Targets : gFile[t].v <= gFile'[t].v /\ answered[t] <= answered'[t]
                               /\ gFile'[t].v \in Nat /\ answered'[t] \in Nat
                               /\ (Gate!Configured(t)' <=> Gate!Configured(t))
    /\ \A b \in DOMAIN builds :
         /\ b \in DOMAIN builds'
         /\ \/ builds'[b] = builds[b]
            \/ /\ builds[b].at # "done"
               /\ \A since \in [Gate!Targets -> Nat] :
                    Covers(builds[b], since) /\ (\A t \in Gate!Targets : since[t] <= answered[t])
                       => Covers(builds'[b], since)

LEMMA OpStands ==
    ASSUME FilesTyped, Grows, NEW r, OpHolds(r)
    PROVE  OpHolds(r)'
<1>1. /\ r \in Requests /\ r.since \in [Gate!Targets -> Nat] /\ r.build \in DOMAIN builds /\ r.made \in Nat
      /\ \A t \in Gate!Targets : r.since[t] <= answered[t] /\ r.since[t] \in Nat /\ answered[t] \in Nat
      /\ Covers(builds[r.build], r.since)
  BY DEF OpHolds, Requests, FilesTyped
<1>2. \A t \in Gate!Targets : r.since[t] <= answered'[t]
  BY <1>1 DEF Grows
<1>3. PICK g, h : g = builds[r.build] /\ h = builds'[r.build] /\ r.build \in DOMAIN builds'
  BY <1>1 DEF Grows
<1>4. (g.at = "done" => h = g) /\ Covers(h, r.since)
  BY <1>1, <1>3 DEF Grows
<1>5. Covers(h, r.since)'
  BY <1>4 DEF Covers, Grows
<1>6. ASSUME r.at = "audit"
      PROVE  r.made <= gFile'[r.q.target].v
  <2>1. r.q.target \in Gate!Targets /\ r.made <= gFile[r.q.target].v
    BY <1>6, GateAssumption DEF OpHolds
  <2>2. gFile[r.q.target].v \in Nat /\ gFile'[r.q.target].v \in Nat /\ gFile[r.q.target].v <= gFile'[r.q.target].v
    BY <2>1 DEF FilesTyped, Versions, Grows
  <2> QED
    BY <1>1, <2>1, <2>2
<1>7. r.kind = "call" /\ r.status = 200 => h.at = "done" /\ h.mode \in {"off", "active"}
  BY <1>3, <1>4 DEF OpHolds
<1> QED
  BY <1>1, <1>2, <1>3, <1>5, <1>6, <1>7 DEF OpHolds

LEMMA OnlyOp ==
    ASSUME FilesTyped, OpsHold, Grows, NEW s \in Askers, NEW step, ops' = [ops EXCEPT ![s] = step], OpHolds(step)'
    PROVE  OpsHold'
<1>1. /\ ops' = [p \in Askers |-> ops'[p]] /\ ops'[s] = step
      /\ \A p \in Askers : p # s => ops'[p] = ops[p]
  BY DEF OpsHold
<1>2. ASSUME NEW p \in Askers, ops'[p] # None
      PROVE  OpHolds(ops[p])'
  <2>1. CASE p = s
    BY <1>1, <2>1
  <2>2. CASE p # s
    <3>1. PICK r : r = ops[p] /\ r = ops'[p] /\ OpHolds(r)
      BY <1>1, <1>2, <2>2 DEF OpsHold
    <3>2. OpHolds(r)'
      BY <3>1, OpStands
    <3> QED
      BY <3>1, <3>2
  <2> QED
    BY <2>1, <2>2
<1> QED
  BY <1>1, <1>2 DEF OpsHold

LEMMA OpsStand ==
    ASSUME FilesTyped, OpsHold, Grows, UNCHANGED ops
    PROVE  OpsHold'
<1>1. ASSUME NEW p \in Askers, ops[p] # None
      PROVE  OpHolds(ops[p])'
  <2>1. PICK r : r = ops[p] /\ r = ops'[p] /\ OpHolds(r)
    BY <1>1 DEF OpsHold
  <2>2. OpHolds(r)'
    BY <2>1, OpStands
  <2> QED
    BY <2>1, <2>2
<1> QED
  BY <1>1 DEF OpsHold

\* Which files are configured decides what builds are good; a log that is there stays.
LEMMA GoodStays ==
    ASSUME \A t \in Gate!Targets : Gate!Configured(t)' <=> Gate!Configured(t),
           log # None => log' # None, restarts' = restarts
    PROVE  GoodBuilds \subseteq GoodBuilds'
BY DEF GoodBuilds

LEMMA FilesStand ==
    ASSUME FilesTyped, UNCHANGED <<gFile, answered, restarts>>, gFailures' \in Nat
    PROVE  /\ FilesTyped'
           /\ \A t \in Gate!Targets : Gate!Configured(t)' <=> Gate!Configured(t)
           /\ \A t \in Gate!Targets : gFile[t].v <= gFile'[t].v /\ answered[t] <= answered'[t]
                                      /\ gFile'[t].v \in Nat /\ answered'[t] \in Nat
<1>1. \A t \in Gate!Targets : gFile[t].v \in Nat /\ answered[t] \in Nat
  BY DEF FilesTyped, Versions
<1>2. FilesTyped'
  BY DEF FilesTyped
<1> QED
  BY <1>1, <1>2 DEF Gate!Configured

LEMMA BuildsStand ==
    ASSUME FilesTyped, BuildsHold, UNCHANGED <<gFile, answered, restarts, builds, memo>>, log # None => log' # None
    PROVE  BuildsHold' /\ Grows
<1>1. /\ \A t \in Gate!Targets : Gate!Configured(t)' <=> Gate!Configured(t)
      /\ \A t \in Gate!Targets : gFile[t].v <= gFile'[t].v /\ answered[t] <= answered'[t]
                                      /\ gFile'[t].v \in Nat /\ answered'[t] \in Nat
  <2>1. \A t \in Gate!Targets : gFile[t].v \in Nat /\ answered[t] \in Nat
    BY DEF FilesTyped, Versions
  <2> QED
    BY <2>1 DEF Gate!Configured
<1>2. Grows
  BY <1>1 DEF Grows
<1>3. builds' \in Seq(GoodBuilds')
  <2>1. GoodBuilds \subseteq GoodBuilds' /\ builds' = builds /\ builds \in Seq(GoodBuilds)
    BY <1>1, GoodStays DEF BuildsHold
  <2> QED
    BY <2>1
<1>4. memo' # 0 => memo' \in DOMAIN builds' /\ Covers(builds[memo], answered)'
  BY <1>1 DEF BuildsHold, Covers
<1> QED
  BY <1>2, <1>3, <1>4 DEF BuildsHold

LEMMA AwaitsHold ==
    ASSUME FilesTyped, BuildsHold, Gate!Awaits, UNCHANGED <<answered, restarts, log>>,
           \A t \in Gate!Targets : (Gate!Configured(t)' <=> Gate!Configured(t)) /\ gFile[t].v <= gFile'[t].v
                                   /\ gFile'[t].v \in Nat
    PROVE  BuildsHold' /\ Grows
<1>1. PICK bs : bs = builds'
  OBVIOUS
<1>2. PICK b : b = Gate!Awaited
  OBVIOUS
<1>3. /\ bs \in Seq(GoodBuilds) /\ memo' = b /\ b \in DOMAIN bs /\ b \in Nat /\ Covers(bs[b], answered)
      /\ \A c \in DOMAIN builds : c \in DOMAIN bs /\ bs[c] = builds[c]
  BY <1>1, <1>2, AwaitsFacts
<1>4. Grows
  <2>1. \A t \in Gate!Targets : answered[t] \in Nat /\ answered[t] <= answered'[t] /\ answered'[t] \in Nat
    BY DEF FilesTyped
  <2> QED
    BY <1>1, <1>3, <2>1 DEF Grows
<1>5. bs \in Seq(GoodBuilds')
  <2>1. GoodBuilds \subseteq GoodBuilds'
    BY GoodStays
  <2> QED
    BY <1>3, <2>1
<1>6. Covers(bs[b], answered)'
  BY <1>3 DEF Covers
<1> QED
  BY <1>1, <1>3, <1>4, <1>5, <1>6 DEF BuildsHold

LEMMA BeginPreserves ==
    ASSUME GateIInv, NEW s \in Askers, NEW k \in {"call", "put"}, NEW q,
           k = "call" => q \in GatedCalls, k = "put" => q \in Edits, Gate!Begin(s, k, q)
    PROVE  GateIInv'
<1>1. /\ Gate!Awaits /\ UNCHANGED <<gFile, token, gNow, answered, log, entries, gFailures, restarts>>
      /\ FilesTyped /\ BuildsHold /\ OpsHold /\ ChainHolds /\ Gate!SomeoneAdministers
  BY DEF Gate!Begin, GateIInv
<1>2. PICK b : b = Gate!Awaited
  OBVIOUS
<1>3. PICK since \in [Gate!Targets -> Nat] : since = answered
  BY <1>1 DEF FilesTyped
<1>4. PICK bs : bs = builds'
  OBVIOUS
<1>5. bs \in Seq(GoodBuilds) /\ b \in DOMAIN bs /\ b \in Nat /\ Covers(bs[b], since)
  BY <1>1, <1>2, <1>3, <1>4, AwaitsFacts
<1>6. FilesTyped' /\ \A t \in Gate!Targets : Gate!Configured(t)' <=> Gate!Configured(t)
  BY <1>1, FilesStand DEF FilesTyped
<1>7. BuildsHold' /\ Grows
  BY <1>1, <1>6, AwaitsHold, FilesStand DEF FilesTyped
<1>8. PICK at \in {"decide", "authorize"} : at = IF k = "call" THEN "decide" ELSE "authorize"
  OBVIOUS
<1>9. PICK step : step = [kind |-> k, q |-> q, at |-> at, build |-> b, status |-> None, since |-> since, made |-> 0]
  OBVIOUS
<1>10. ops' = [ops EXCEPT ![s] = step]
  BY <1>2, <1>3, <1>8, <1>9 DEF Gate!Begin
<1>11. /\ step.kind = k /\ step.q = q /\ step.at = at /\ step.build = b /\ step.status = None /\ step.since = since
       /\ step \in Requests
  BY <1>5, <1>9 DEF Requests
<1>12. \A t \in Gate!Targets : since[t] <= answered'[t]
  BY <1>1, <1>3
<1>13. Covers(bs[b], since)'
  BY <1>5, <1>6 DEF Covers
<1>14. step.status # 200
  BY <1>11, GateAssumption
<1>15. OpHolds(step)'
  <2>1. at # "write" /\ at # "audit" /\ at # "ended" /\ (at = "decide" => k = "call") /\ (at = "authorize" => k = "put")
    BY <1>8
  <2> QED
    BY <1>4, <1>5, <1>11, <1>12, <1>13, <1>14, <2>1 DEF OpHolds
<1>16. OpsHold'
  BY <1>1, <1>7, <1>10, <1>15, OnlyOp
<1>17. ChainHolds' /\ Gate!SomeoneAdministers'
  BY <1>1 DEF ChainHolds, Gate!SomeoneAdministers
<1> QED
  BY <1>6, <1>7, <1>16, <1>17 DEF GateIInv

\* A record of the log takes the next number of the chain, on disk unless the append fails.
LEMMA AuditsHold ==
    ASSUME FilesTyped, ChainHolds, NEW g \in GoodBuilds, Gate!Audits(g), UNCHANGED restarts
    PROVE  ChainHolds' /\ (log # None => log' # None) /\ gFailures' \in Nat
<1>1. CASE UNCHANGED <<log, entries, gFailures>>
  BY <1>1 DEF ChainHolds, FilesTyped
<1>2. CASE g.run # None /\ log' = [log EXCEPT !.len = @ + 1]
           /\ \/ entries' = Append(entries, [run |-> g.run, n |-> log.len]) /\ UNCHANGED gFailures
              \/ gFailures < MaxFailures /\ gFailures' = gFailures + 1 /\ UNCHANGED entries
  <2>1. /\ log # None /\ log \in LogOrNot /\ g.run \in Nat /\ (restarts = 0 => g.run = 0)
        /\ gFailures \in Nat /\ restarts \in Nat
    BY <1>2 DEF ChainHolds, GoodBuilds, Builds, FilesTyped
  <2>2. PICK k : k = log
    OBVIOUS
  <2>3. PICK run \in Nat, len \in Nat : k = [run |-> run, len |-> len]
    BY <2>1, <2>2, GateAssumption DEF LogOrNot
  <2>4. log' = [run |-> run, len |-> len + 1]
    BY <1>2, <2>2, <2>3
  <2>5. log' \in LogOrNot /\ log' # None /\ log'.run = run /\ log'.len = len + 1
    BY <2>3, <2>4, GateAssumption DEF LogOrNot
  <2>6. k.run = run /\ k.len = len
    BY <2>3
  <2>7. CASE entries' = Append(entries, [run |-> g.run, n |-> log.len]) /\ UNCHANGED gFailures
    <3>1. PICK e : e = [run |-> g.run, n |-> len]
      OBVIOUS
    <3>2. PICK es \in Seq([run : Nat, n : Nat]) : es = entries
      BY DEF ChainHolds
    <3>3. log.len = len
      BY <2>2, <2>6
    <3>6. entries' = Append(es, e)
      BY <2>7, <3>1, <3>2, <3>3
    <3>7. e \in [run : Nat, n : Nat] /\ e.run = g.run /\ e.n = len
      BY <2>1, <2>3, <3>1
    <3>8. PICK fs : fs = Append(es, e)
      OBVIOUS
    <3>4. /\ fs \in Seq([run : Nat, n : Nat]) /\ Len(fs) = Len(es) + 1 /\ fs[Len(es) + 1] = e /\ Len(es) \in Nat
          /\ DOMAIN fs = 1..(Len(es) + 1) /\ DOMAIN es = 1..Len(es)
          /\ \A i \in DOMAIN fs : i = Len(es) + 1 \/ (i \in DOMAIN es /\ fs[i] = es[i])
      BY <3>2, <3>7, <3>8
    <3>5. ASSUME restarts' = 0, gFailures' = 0
          PROVE  /\ len + 1 = Len(fs)
                 /\ \A i \in DOMAIN fs : fs[i].n = i - 1 /\ fs[i].run = 0
      <4>1. restarts = 0 /\ gFailures = 0
        BY <2>7, <3>5
      <4>2. len = Len(es) /\ \A i \in DOMAIN es : es[i].n = i - 1 /\ es[i].run = 0
        BY <2>1, <2>2, <2>6, <3>2, <4>1 DEF ChainHolds
      <4>3. e.run = 0 /\ e.n = Len(es)
        BY <2>1, <3>7, <4>1, <4>2
      <4>4. ASSUME NEW i \in DOMAIN fs
            PROVE  fs[i].n = i - 1 /\ fs[i].run = 0
        <5>1. CASE i = Len(es) + 1
          <6>1. i - 1 = Len(es) /\ fs[i] = e
            BY <3>4, <5>1
          <6> QED
            BY <4>3, <6>1
        <5>2. CASE i \in DOMAIN es /\ fs[i] = es[i]
          BY <4>2, <5>2
        <5> QED
          BY <3>4, <5>1, <5>2
      <4> QED
        BY <3>4, <4>2, <4>4
    <3>9. restarts = 0 => log'.run = 0
      BY <2>1, <2>2, <2>5, <2>6 DEF ChainHolds
    <3>10. log' \in LogOrNot /\ log' # None /\ log'.len = len + 1 /\ restarts' = restarts /\ fs = entries'
      BY <2>5, <3>6, <3>8
    <3>11. entries' \in Seq([run : Nat, n : Nat]) /\ log' \in LogOrNot \cup {None} /\ (restarts' = 0 /\ log' # None => log'.run = 0)
      BY <3>4, <3>9, <3>10
    <3>12. restarts' = 0 /\ gFailures' = 0 => log'.len = Len(fs)
      BY <3>5, <3>10
    <3>13. restarts' = 0 /\ gFailures' = 0 => \A i \in DOMAIN fs : fs[i].n = i - 1 /\ fs[i].run = 0
      BY <3>5
    <3>14. restarts' = 0 /\ gFailures' = 0 =>
             log'.len = Len(entries') /\ \A i \in DOMAIN entries' : entries'[i].n = i - 1 /\ entries'[i].run = 0
      BY <3>10, <3>12, <3>13, Zenon
    <3>15. (log' = None) = FALSE
      BY <3>10
    <3>16. ChainHolds'
      BY <3>11, <3>14, <3>15, Zenon DEF ChainHolds
    <3> QED
      BY <2>1, <2>7, <3>10, <3>16
  <2>8. CASE gFailures' = gFailures + 1 /\ UNCHANGED entries
    BY <2>1, <2>2, <2>5, <2>6, <2>8 DEF ChainHolds
  <2> QED
    BY <1>2, <2>1, <2>5, <2>7, <2>8
<1> QED
  BY <1>1, <1>2 DEF Gate!Audits

\* A request that is over keeps what it was answered with.
LEMMA Settled ==
    ASSUME NEW r, OpHolds(r), NEW x \in Nat \cup {None},
           r.kind = "call" /\ x = 200 => builds[r.build].at = "done" /\ builds[r.build].mode \in {"off", "active"}
    PROVE  OpHolds([r EXCEPT !.at = "ended", !.status = x])
<1>1. r \in Requests
  BY DEF OpHolds
<1>2. PICK e : e = [r EXCEPT !.at = "ended", !.status = x]
  OBVIOUS
<1>3. /\ e \in Requests /\ e.kind = r.kind /\ e.at = "ended" /\ e.build = r.build /\ e.status = x
      /\ e.since = r.since
  BY <1>1, <1>2 DEF Requests
<1>4. OpHolds(e)
  BY <1>3 DEF OpHolds
<1> QED
  BY <1>2, <1>4

\* A build that moves on leaves everything else as it was.
LEMMA BuildMoves ==
    ASSUME GateIInv, NEW b \in DOMAIN builds, NEW g, g \in GoodBuilds', builds' = [builds EXCEPT ![b] = g],
           builds[b].at # "done",
           \A since \in [Gate!Targets -> Nat] :
              Covers(builds[b], since) /\ (\A t \in Gate!Targets : since[t] <= answered[t]) => Covers(g, since),
           UNCHANGED <<gFile, memo, ops, answered, entries, gFailures, restarts>>,
           ChainHolds', log # None => log' # None
    PROVE  GateIInv'
<1>1. FilesTyped /\ BuildsHold /\ OpsHold /\ ChainHolds /\ Gate!SomeoneAdministers
  BY DEF GateIInv
<1>2. /\ FilesTyped'
      /\ \A t \in Gate!Targets : Gate!Configured(t)' <=> Gate!Configured(t)
      /\ \A t \in Gate!Targets : gFile[t].v <= gFile'[t].v /\ answered[t] <= answered'[t]
                                 /\ gFile'[t].v \in Nat /\ answered'[t] \in Nat
  BY <1>1, FilesStand DEF FilesTyped
<1>3. PICK bs : bs = builds'
  OBVIOUS
<1>4. /\ bs \in Seq(GoodBuilds') /\ DOMAIN bs = DOMAIN builds /\ bs[b] = g
      /\ \A c \in DOMAIN builds : c # b => bs[c] = builds[c]
  <2>1. PICK v \in Seq(GoodBuilds) : v = builds
    BY <1>1 DEF BuildsHold
  <2>2. v \in Seq(GoodBuilds')
    BY <1>2, <2>1, GoodStays
  <2>3. bs = [v EXCEPT ![b] = g]
    BY <1>3, <2>1
  <2> QED
    BY <2>1, <2>2, <2>3
<1>5. Grows
  BY <1>2, <1>3, <1>4 DEF Grows
<1>6. ASSUME memo # 0
      PROVE  memo \in DOMAIN bs /\ Covers(bs[memo], answered)'
  <2>1. memo \in DOMAIN builds /\ Covers(builds[memo], answered) /\ answered \in [Gate!Targets -> Nat]
    BY <1>1, <1>6 DEF BuildsHold, FilesTyped
  <2>2. PICK since \in [Gate!Targets -> Nat] : since = answered /\ \A t \in Gate!Targets : since[t] <= answered[t]
    BY <2>1
  <2>3. Covers(bs[memo], since)
    <3>1. CASE memo = b
      BY <1>4, <2>1, <2>2, <3>1
    <3>2. CASE memo # b
      BY <1>4, <2>1, <2>2, <3>2
    <3> QED
      BY <3>1, <3>2
  <2>4. Covers(bs[memo], since)' /\ answered' = since
    BY <1>2, <2>2, <2>3 DEF Covers
  <2> QED
    BY <1>4, <2>1, <2>4
<1>7. BuildsHold'
  BY <1>1, <1>3, <1>4, <1>6 DEF BuildsHold
<1>8. OpsHold'
  BY <1>1, <1>5, OpsStand
<1>9. Gate!SomeoneAdministers'
  BY <1>1 DEF Gate!SomeoneAdministers
<1> QED
  BY <1>2, <1>7, <1>8, <1>9 DEF GateIInv

\* Two sequences, one after the other.
LEMMA Joined ==
    ASSUME NEW S, NEW p \in Seq(S), NEW c \in Seq(S)
    PROVE  /\ p \o c \in Seq(S)
           /\ \A i \in DOMAIN p : i \in DOMAIN (p \o c) /\ (p \o c)[i] = p[i]
           /\ \A i \in DOMAIN c : Len(p) + i \in DOMAIN (p \o c) /\ (p \o c)[Len(p) + i] = c[i]
OBVIOUS

\* Whatever a build does after its import, it has read nothing yet: what it will read, it reads
\* later than any answer before.
LEMMA VerifyPreserves ==
    ASSUME GateIInv, NEW b \in DOMAIN builds, Gate!Verify(b)
    PROVE  GateIInv'
<1>1. /\ FilesTyped /\ BuildsHold /\ OpsHold /\ ChainHolds /\ builds[b].at = "import"
      /\ UNCHANGED <<gFile, token, gNow, memo, ops, answered, entries, gFailures, restarts>>
  BY DEF GateIInv, Gate!Verify
<1>2. PICK o \in GoodBuilds : o = builds[b] /\ o \in Builds /\ o.at = "import"
  BY <1>1 DEF BuildsHold, GoodBuilds
<1>3. PICK own \in LogOrNot : own = Gate!OwnLog /\ own # None /\ own.run \in Nat /\ (restarts = 0 => own.run = 0)
                              /\ (log # None => own = log) /\ (log = None => own.len = 0)
  <2>1. restarts \in Nat /\ [run |-> restarts, len |-> 0] \in LogOrNot
    BY <1>1 DEF FilesTyped, LogOrNot
  <2>2. PICK l \in LogOrNot : l = [run |-> restarts, len |-> 0] /\ l.run = restarts /\ l.len = 0
    BY <2>1
  <2>3. CASE log # None
    BY <1>1, <2>3, GateAssumption DEF ChainHolds, Gate!OwnLog, LogOrNot
  <2>4. CASE log = None
    BY <2>1, <2>2, <2>4, GateAssumption DEF Gate!OwnLog
  <2> QED
    BY <2>3, <2>4
<1>4. PICK todo \in Seq(Gate!Targets) :
        /\ todo = (IF Gate!Configured("policy") THEN <<"policy">> ELSE <<>>)
                     \o (IF Gate!Configured("catalog") THEN <<"catalog">> ELSE <<>>)
        /\ \A t \in Gate!Targets : Gate!Configured(t) => \E i \in DOMAIN todo : todo[i] = t
  <2>0. /\ <<>> \in Seq(Gate!Targets) /\ <<"policy">> \in Seq(Gate!Targets) /\ <<"catalog">> \in Seq(Gate!Targets)
        /\ 1 \in DOMAIN <<"policy">> /\ <<"policy">>[1] = "policy"
        /\ 1 \in DOMAIN <<"catalog">> /\ <<"catalog">>[1] = "catalog"
    BY DEF Gate!Targets
  <2>1. PICK p : p = IF Gate!Configured("policy") THEN <<"policy">> ELSE <<>>
    OBVIOUS
  <2>2. PICK c : c = IF Gate!Configured("catalog") THEN <<"catalog">> ELSE <<>>
    OBVIOUS
  <2>3. p \in Seq(Gate!Targets) /\ (Gate!Configured("policy") => 1 \in DOMAIN p /\ p[1] = "policy")
    BY <2>0, <2>1, Zenon
  <2>4. c \in Seq(Gate!Targets) /\ (Gate!Configured("catalog") => 1 \in DOMAIN c /\ c[1] = "catalog")
    BY <2>0, <2>2, Zenon
  <2>5. PICK todo : todo = p \o c
    OBVIOUS
  <2>8. /\ todo \in Seq(Gate!Targets)
        /\ \A i \in DOMAIN p : i \in DOMAIN todo /\ todo[i] = p[i]
        /\ \A i \in DOMAIN c : Len(p) + i \in DOMAIN todo /\ todo[Len(p) + i] = c[i]
    BY <2>3, <2>4, <2>5, Joined
  <2>6. Gate!Configured("policy") => \E i \in DOMAIN todo : todo[i] = "policy"
    BY <2>3, <2>8
  <2>7. Gate!Configured("catalog") => \E i \in DOMAIN todo : todo[i] = "catalog"
    BY <2>4, <2>8
  <2> QED
    BY <2>1, <2>2, <2>5, <2>6, <2>7, <2>8 DEF Gate!Targets
<1>5. PICK ok \in BOOLEAN : ok = (Modules /\ Gate!Verified)
  OBVIOUS
<1>6. PICK logs \in BOOLEAN : logs = Gate!Has("audit")
  BY DEF Gate!Has
<1>7. PICK at \in {"done", "read"}, run \in Nat \cup {None} :
        /\ at = (IF todo = <<>> THEN "done" ELSE "read")
        /\ run = (IF logs THEN own.run ELSE None)
  BY <1>3
<1>8. PICK g : g = [o EXCEPT !.at = at, !.mode = "active", !.todo = todo, !.run = run]
  OBVIOUS
<1>9. /\ builds' = [builds EXCEPT ![b] = IF ok THEN g ELSE Gate!Inactive]
      /\ log' = IF ok /\ logs THEN own ELSE log
  BY <1>2, <1>3, <1>4, <1>5, <1>6, <1>7, <1>8, Zenon DEF Gate!Verify
<1>10. ChainHolds'
  <2>1. CASE log' = log
    BY <1>1, <2>1 DEF ChainHolds
  <2>2. CASE log' = own /\ log = None
    BY <1>1, <1>3, <2>2 DEF ChainHolds
  <2> QED
    BY <1>3, <1>9, <2>1, <2>2
<1>11. log # None => log' # None
  BY <1>3, <1>9
<1>12. GoodBuilds \subseteq GoodBuilds'
  BY <1>1, <1>11, GoodStays DEF Gate!Configured
<1>13. CASE ok
  <2>1. g \in Builds /\ g.at = at /\ g.mode = "active" /\ g.todo = todo /\ g.run = run
    BY <1>2, <1>8 DEF Builds
  <2>2. g.run # None => log' # None /\ (restarts' = 0 => g.run = 0)
    BY <1>1, <1>3, <1>7, <1>9, <1>13, <2>1
  <2>3. g \in GoodBuilds'
    BY <1>7, <2>1, <2>2 DEF GoodBuilds
  <2>4. \A since : Covers(g, since)
    BY <1>4, <2>1 DEF Covers, Todo
  <2> QED
    BY <1>1, <1>2, <1>9, <1>10, <1>11, <1>13, <2>3, <2>4, BuildMoves
<1>14. CASE ~ok
  <2>1. PICK h : h = Gate!Inactive /\ h \in GoodBuilds /\ h.mode # "active"
    BY FreshFacts
  <2>2. h \in GoodBuilds' /\ \A since : Covers(h, since)
    BY <1>12, <2>1 DEF Covers
  <2>3. builds' = [builds EXCEPT ![b] = h]
    BY <1>9, <1>14, <2>1
  <2> QED
    BY <1>1, <1>2, <1>10, <1>11, <2>2, <2>3, BuildMoves
<1> QED
  BY <1>13, <1>14

\* What is read is the file as it is then: at least as new as every answer so far.
LEMMA ReadFilePreserves ==
    ASSUME GateIInv, NEW b \in DOMAIN builds, Gate!ReadFile(b)
    PROVE  GateIInv'
<1>1. /\ FilesTyped /\ BuildsHold /\ OpsHold /\ ChainHolds /\ builds[b].at = "read"
      /\ UNCHANGED <<gFile, token, gNow, memo, ops, answered, log, entries, gFailures, restarts>>
  BY Zenon DEF GateIInv, Gate!ReadFile
<1>2. PICK o \in GoodBuilds : o = builds[b] /\ o \in Builds /\ o.at = "read"
  BY <1>1 DEF BuildsHold, GoodBuilds
<1>3. PICK todo \in Seq(Gate!Targets) : todo = o.todo /\ todo # <<>>
  BY <1>2 DEF GoodBuilds, Builds
<1>4. PICK t \in Gate!Targets : t = Head(todo)
  BY <1>3
<1>5. PICK f \in Versions : f = gFile[t] /\ answered[t] <= f.v
  BY <1>1 DEF FilesTyped
<1>6. PICK rest \in Seq(Gate!Targets) :
        /\ rest = Tail(todo) /\ (rest = <<>> <=> Len(todo) = 1)
        /\ \A i \in DOMAIN todo : todo[i] = t \/ \E j \in DOMAIN rest : rest[j] = todo[i]
  <2>1. /\ Tail(todo) \in Seq(Gate!Targets) /\ Len(Tail(todo)) = Len(todo) - 1 /\ Len(todo) \in Nat /\ Len(todo) # 0
        /\ \A i \in 1..Len(Tail(todo)) : Tail(todo)[i] = todo[i + 1]
        /\ DOMAIN Tail(todo) = 1..Len(Tail(todo)) /\ DOMAIN todo = 1..Len(todo)
    BY <1>3
  <2>2. ASSUME NEW i \in DOMAIN todo, i # 1
        PROVE  i - 1 \in DOMAIN Tail(todo) /\ Tail(todo)[i - 1] = todo[i]
    BY <2>1, <2>2
  <2>3. Tail(todo) = <<>> <=> Len(todo) = 1
    BY <2>1
  <2>4. PICK rest : rest = Tail(todo)
    OBVIOUS
  <2>5. ASSUME NEW i \in DOMAIN todo
        PROVE  todo[i] = t \/ \E j \in DOMAIN rest : rest[j] = todo[i]
    <3>1. CASE i = 1
      BY <1>3, <1>4, <3>1
    <3>2. CASE i # 1
      BY <2>2, <2>4, <3>2
    <3> QED
      BY <3>1, <3>2
  <2> QED
    BY <2>1, <2>3, <2>4, <2>5
<1>7. PICK at \in {"done", "read"} : at = IF Len(todo) = 1 THEN "done" ELSE "read"
  OBVIOUS
<1>8. PICK g : g = [o EXCEPT !.read[t] = f, !.todo = rest, !.at = at]
  OBVIOUS
<1>9. PICK h : h = [o EXCEPT !.at = "rejected"]
  OBVIOUS
<1>10. builds' = [builds EXCEPT ![b] = g] \/ builds' = [builds EXCEPT ![b] = h]
  <2>1. builds' = [builds EXCEPT ![b] = IF f.body = Garbage THEN h ELSE g]
    BY <1>2, <1>3, <1>4, <1>5, <1>6, <1>7, <1>8, <1>9, Zenon DEF Gate!ReadFile
  <2> QED
    BY <2>1
<1>11. GoodBuilds \subseteq GoodBuilds' /\ ChainHolds'
  BY <1>1, GoodStays DEF Gate!Configured, ChainHolds
<1>12. /\ g \in Builds /\ g.at = at /\ g.mode = o.mode /\ g.todo = rest /\ g.run = o.run
       /\ g.read = [o.read EXCEPT ![t] = f]
  BY <1>2, <1>8 DEF Builds
<1>13. g \in GoodBuilds
  <2>1. (at = "done" => rest = <<>>) /\ (at = "read" => rest # <<>>) /\ at # "import"
    BY <1>6, <1>7
  <2> QED
    BY <1>2, <1>12, <2>1 DEF GoodBuilds
<1>14. ASSUME NEW since \in [Gate!Targets -> Nat], Covers(o, since), \A u \in Gate!Targets : since[u] <= answered[u]
       PROVE  Covers(g, since)
  <2>1. ASSUME NEW u \in Gate!Targets, Gate!Configured(u), g.mode = "active", u \notin Todo(g)
        PROVE  since[u] <= g.read[u].v
    <3>1. CASE u = t
      <4>1. g.read[u] = f /\ since[u] <= answered[t] /\ answered[t] <= f.v
        BY <1>2, <1>5, <1>12, <1>14, <3>1 DEF Builds
      <4>2. since[u] \in Nat /\ answered[t] \in Nat /\ f.v \in Nat
        BY <1>1, <1>5 DEF FilesTyped, Versions
      <4> QED
        BY <4>1, <4>2
    <3>2. CASE u # t
      <4>1. ASSUME u \in Todo(o)
            PROVE  FALSE
        <5>1. PICK i \in DOMAIN todo : todo[i] = u
          BY <1>3, <4>1 DEF Todo
        <5>2. PICK j \in DOMAIN rest : rest[j] = u
          BY <1>6, <3>2, <5>1
        <5> QED
          BY <1>12, <2>1, <5>2 DEF Todo
      <4>2. g.read[u] = o.read[u]
        BY <1>2, <1>12, <3>2 DEF Builds
      <4> QED
        BY <1>12, <1>14, <2>1, <4>1, <4>2 DEF Covers
    <3> QED
      BY <3>1, <3>2
  <2> QED
    BY <2>1 DEF Covers
<1>15. /\ h \in Builds /\ h.at = "rejected" /\ h.mode = o.mode /\ h.todo = o.todo /\ h.run = o.run
       /\ h.read = o.read
  BY <1>2, <1>9 DEF Builds
<1>16. h \in GoodBuilds
  BY <1>2, <1>15 DEF GoodBuilds
<1>17. \A since : Covers(o, since) => Covers(h, since)
  BY <1>15 DEF Covers, Todo
<1>18. CASE builds' = [builds EXCEPT ![b] = g]
  BY <1>1, <1>2, <1>11, <1>13, <1>14, <1>18, BuildMoves
<1>19. CASE builds' = [builds EXCEPT ![b] = h]
  BY <1>1, <1>2, <1>11, <1>16, <1>17, <1>19, BuildMoves
<1> QED
  BY <1>10, <1>18, <1>19

\* A request is answered: nothing else of it changes.
LEMMA SettleHolds ==
    ASSUME FilesTyped, OpsHold, Grows, NEW s \in Askers, ops[s] # None, NEW x \in Nat \cup {None}, Gate!Settles(s, x),
           ops[s].kind = "call" /\ x = 200 => Gate!Gate(s).at = "done" /\ Gate!Gate(s).mode \in {"off", "active"}
    PROVE  OpsHold'
<1>1. PICK r : r = ops[s] /\ OpHolds(r)
  BY DEF OpsHold
<1>2. PICK step : step = [r EXCEPT !.at = "ended", !.status = x]
  OBVIOUS
<1>3. OpHolds(step)
  BY <1>1, <1>2, Settled DEF Gate!Gate
<1>4. OpHolds(step)'
  BY <1>3, OpStands
<1>5. ops' = [ops EXCEPT ![s] = step]
  BY <1>1, <1>2 DEF Gate!Settles, OpsHold
<1> QED
  BY <1>4, <1>5, OnlyOp

\* The files stand, so do the policy and what it grants.
LEMMA AnswersPreserve ==
    ASSUME GateIInv, NEW s \in Askers, ops[s] # None, OpsHold', ChainHolds', log # None => log' # None,
           gFailures' \in Nat, UNCHANGED <<gFile, answered, restarts, builds, memo>>
    PROVE  GateIInv'
<1>1. FilesTyped' /\ BuildsHold'
  BY FilesStand, BuildsStand DEF GateIInv
<1>2. Gate!SomeoneAdministers'
  BY DEF GateIInv, Gate!SomeoneAdministers
<1> QED
  BY <1>1, <1>2 DEF GateIInv

LEMMA DecidePreserves ==
    ASSUME GateIInv, NEW s \in Askers, Gate!Decide(s)
    PROVE  GateIInv'
<1>1. /\ FilesTyped /\ BuildsHold /\ OpsHold /\ ChainHolds /\ ops[s] # None
      /\ UNCHANGED <<gFile, token, gNow, builds, memo, answered, gStarted, restarts>>
  BY Zenon DEF GateIInv, Gate!Decide, Gate!Ready
<1>2. PICK g \in GoodBuilds : g = Gate!Gate(s)
  <2>1. OpHolds(ops[s])
    BY <1>1 DEF OpsHold
  <2> QED
    BY <1>1, <2>1 DEF OpHolds, Gate!Gate, BuildsHold
<1>3. PICK allowed \in BOOLEAN :
        allowed = (g.at = "done" /\ (g.mode = "off" \/ (g.mode = "active" /\ Gate!Decides(g, ops[s].q))))
  OBVIOUS
<1>4. Gate!Settles(s, IF allowed THEN 200 ELSE 403) /\ Gate!Audits(g)
  BY <1>2, <1>3, Zenon DEF Gate!Decide
<1>5. PICK x \in Nat \cup {None} : x = IF allowed THEN 200 ELSE 403
  OBVIOUS
<1>6. ChainHolds' /\ (log # None => log' # None) /\ gFailures' \in Nat
  BY <1>1, <1>4, AuditsHold
<1>7. Grows
  BY <1>1, <1>6, BuildsStand
<1>8. OpsHold'
  <2>1. allowed => g.at = "done" /\ g.mode \in {"off", "active"}
    BY <1>3, Zenon
  <2>2. x = 200 => allowed
    BY <1>5
  <2> QED
    BY <1>1, <1>2, <1>4, <1>5, <1>7, <2>1, <2>2, SettleHolds
<1> QED
  BY <1>1, <1>6, <1>8, AnswersPreserve

\* Only a principal with a name gets to write.
LEMMA AuthorizePreserves ==
    ASSUME GateIInv, NEW s \in Askers, Gate!Authorize(s)
    PROVE  GateIInv'
<1>1. /\ FilesTyped /\ BuildsHold /\ OpsHold /\ ChainHolds /\ ops[s] # None /\ ops[s].at = "authorize"
      /\ builds[ops[s].build].at \in {"done", "rejected"}
      /\ UNCHANGED <<gFile, token, gNow, builds, memo, answered, log, entries, gStarted, gFailures, restarts>>
  BY Zenon DEF GateIInv, Gate!Authorize, Gate!Ready
<1>2. PICK r : r = ops[s] /\ OpHolds(r)
  BY <1>1 DEF OpsHold
<1>3. r.kind = "put" /\ r.q \in Edits /\ r \in Requests
  BY <1>1, <1>2 DEF OpHolds
<1>4. \/ \E x \in {401, 403, 409, 500} : Gate!Settles(s, x)
      \/ ops' = [ops EXCEPT ![s].at = "write"] /\ r.q.who # None
  <2>1. CASE Gate!Gate(s).at = "rejected"
    BY <2>1 DEF Gate!Authorize
  <2>2. CASE Gate!Gate(s).at = "done" /\ (Gate!Gate(s).mode # "active" \/ gFile["policy"].body = None)
    <3>1. Gate!Settles(s, 409)
      BY <2>2, Zenon DEF Gate!Authorize
    <3> QED
      BY <3>1
  <2>3. CASE Gate!Gate(s).at = "done" /\ Gate!Gate(s).mode = "active" /\ gFile["policy"].body # None
    <3>1. CASE r.q.who = None
      <4>1. Gate!Settles(s, 401)
        BY <1>2, <2>3, <3>1, Zenon DEF Gate!Authorize
      <4> QED
        BY <4>1
    <3>2. CASE r.q.who # None /\ gFile["policy"].body = Garbage
      <4>1. Gate!Settles(s, 500)
        BY <1>2, <2>3, <3>2, Zenon DEF Gate!Authorize
      <4> QED
        BY <4>1
    <3>3. CASE r.q.who # None /\ gFile["policy"].body # Garbage
      <4>1. Gate!Settles(s, 403) \/ ops' = [ops EXCEPT ![s].at = "write"]
        BY <1>2, <2>3, <3>3, Zenon DEF Gate!Authorize
      <4> QED
        BY <3>3, <4>1
    <3> QED
      BY <3>1, <3>2, <3>3
  <2> QED
    BY <1>1, <2>1, <2>2, <2>3 DEF Gate!Gate
<1>5. Grows
  BY <1>1, BuildsStand
<1>6. OpsHold'
  <2>1. ASSUME NEW x \in {401, 403, 409, 500}, Gate!Settles(s, x)
        PROVE  OpsHold'
    <3>1. x \in Nat \cup {None} /\ ops[s].kind # "call"
      BY <1>2, <1>3
    <3> QED
      BY <1>1, <1>5, <2>1, <3>1, SettleHolds
  <2>2. CASE ops' = [ops EXCEPT ![s].at = "write"] /\ r.q.who # None
    <3>1. PICK step : step = [r EXCEPT !.at = "write"]
      OBVIOUS
    <3>2. /\ step \in Requests /\ step.kind = r.kind /\ step.q = r.q /\ step.at = "write" /\ step.build = r.build
          /\ step.status = r.status /\ step.since = r.since /\ step.made = r.made
      BY <1>3, <3>1 DEF Requests
    <3>3. OpHolds(step)
      BY <1>1, <1>2, <1>3, <2>2, <3>2 DEF OpHolds
    <3>4. OpHolds(step)'
      BY <1>1, <1>5, <3>3, OpStands
    <3>5. ops' = [ops EXCEPT ![s] = step]
      BY <1>2, <2>2, <3>1
    <3> QED
      BY <1>1, <1>5, <3>4, <3>5, OnlyOp
  <2> QED
    BY <1>4, <2>1, <2>2
<1>7. ChainHolds' /\ gFailures' \in Nat
  BY <1>1 DEF ChainHolds, FilesTyped
<1> QED
  BY <1>1, <1>6, <1>7, AnswersPreserve

\* A file is replaced: by what parses, by an administrator under the new policy itself; and the
\* request goes on to wait for a promise that covers whatever was answered before it came.
LEMMA WritePreserves ==
    ASSUME GateIInv, NEW s \in Askers, Gate!Write(s)
    PROVE  GateIInv'
<1>1. /\ FilesTyped /\ BuildsHold /\ OpsHold /\ ChainHolds /\ Gate!SomeoneAdministers
      /\ ops[s] # None /\ ops[s].at = "write"
      /\ UNCHANGED <<token, gNow, answered, log, entries, gStarted, restarts>>
  BY Zenon DEF GateIInv, Gate!Write
<1>2. PICK r : r = ops[s] /\ OpHolds(r)
  BY <1>1 DEF OpsHold
<1>3. PICK e \in Edits : e = r.q /\ r.kind = "put" /\ e.who # None /\ r \in Requests
  BY <1>1, <1>2 DEF OpHolds
<1>4. PICK t \in Gate!Targets : t = e.target
  BY GateAssumption
<1>5. \/ /\ \E x \in {400, 409, 500} : Gate!Settles(s, x)
         /\ UNCHANGED <<gFile, builds, memo>>
         /\ (UNCHANGED gFailures \/ gFailures' = gFailures + 1)
      \/ /\ Gate!Configured(t) /\ Gate!Accepts(e) /\ Gate!Awaits /\ UNCHANGED gFailures
         /\ gFile' = [gFile EXCEPT ![t] = [v |-> gFile[t].v + 1, body |-> e.body]]
         /\ ops' = [ops EXCEPT ![s].at = "audit", ![s].build = Gate!Awaited, ![s].made = gFile[t].v + 1]
  BY <1>2, <1>3, <1>4 DEF Gate!Write
<1>6. CASE /\ \E x \in {400, 409, 500} : Gate!Settles(s, x)
           /\ UNCHANGED <<gFile, builds, memo>>
           /\ (UNCHANGED gFailures \/ gFailures' = gFailures + 1)
  <2>1. PICK x \in {400, 409, 500} : Gate!Settles(s, x)
    BY <1>6
  <2>2. Grows
    BY <1>1, <1>6, BuildsStand
  <2>3. OpsHold'
    <3>1. x \in Nat \cup {None} /\ ops[s].kind # "call"
      BY <1>2, <1>3
    <3> QED
      BY <1>1, <2>1, <2>2, <3>1, SettleHolds
  <2>4. gFailures \in Nat /\ gFailures' \in Nat
    BY <1>1, <1>6 DEF FilesTyped
  <2>5. ChainHolds'
    <3>1. gFailures' = 0 => gFailures = 0
      BY <1>6, <2>4
    <3> QED
      BY <1>1, <3>1 DEF ChainHolds
  <2> QED
    BY <1>1, <1>6, <2>3, <2>4, <2>5, AnswersPreserve
<1>7. CASE /\ Gate!Configured(t) /\ Gate!Accepts(e) /\ Gate!Awaits /\ UNCHANGED gFailures
           /\ gFile' = [gFile EXCEPT ![t] = [v |-> gFile[t].v + 1, body |-> e.body]]
           /\ ops' = [ops EXCEPT ![s].at = "audit", ![s].build = Gate!Awaited, ![s].made = gFile[t].v + 1]
  <2>1. PICK v \in Nat : v = gFile[t].v /\ v >= 1
    BY <1>1 DEF FilesTyped, Versions
  <2>2. PICK f : f = [v |-> v + 1, body |-> e.body]
    OBVIOUS
  <2>24. f.v = v + 1 /\ f.body = e.body
    BY <2>2
  <2>3. f \in Versions /\ f.body # None
    <3>1. e.body \in Bodies /\ v + 1 \in Nat
      BY <2>1 DEF Bodies
    <3> QED
      BY <2>2, <2>24, <3>1, GateAssumption DEF Versions
  <2>4. /\ gFile' = [u \in Gate!Targets |-> gFile'[u]] /\ gFile'[t] = f
        /\ \A u \in Gate!Targets : u # t => gFile'[u] = gFile[u]
    <3>1. gFile' = [gFile EXCEPT ![t] = f]
      BY <1>7, <2>1, <2>2
    <3> QED
      BY <1>1, <3>1 DEF FilesTyped
  <2>5. \A u \in Gate!Targets : gFile[u].v \in Nat /\ gFile[u].v >= 1 /\ gFile[u] \in Versions
                                /\ answered[u] \in Nat /\ answered[u] <= gFile[u].v
    BY <1>1 DEF FilesTyped, Versions
  <2>6. \A u \in Gate!Targets : /\ gFile'[u] \in Versions /\ gFile'[u].v >= 1 /\ gFile'[u].v \in Nat
                                /\ gFile[u].v <= gFile'[u].v /\ answered[u] <= gFile'[u].v
    <3>1. /\ f.v \in Nat /\ f.v >= 1 /\ gFile[t].v <= f.v /\ answered[t] <= f.v
      BY <2>1, <2>24, <2>5
    <3> QED
      BY <2>3, <2>4, <2>5, <3>1
  <2>7. \A u \in Gate!Targets : Gate!Configured(u)' <=> Gate!Configured(u)
    BY <1>7, <2>3, <2>4 DEF Gate!Configured
  <2>8. FilesTyped'
    BY <1>1, <1>7, <2>4, <2>6 DEF FilesTyped
  <2>9. BuildsHold' /\ Grows
    BY <1>1, <1>7, <2>6, <2>7, AwaitsHold
  <2>10. PICK b : b = Gate!Awaited
    OBVIOUS
  <2>11. PICK bs : bs = builds'
    OBVIOUS
  <2>12. bs \in Seq(GoodBuilds) /\ b \in DOMAIN bs /\ b \in Nat /\ Covers(bs[b], answered)
    BY <1>1, <1>7, <2>10, <2>11, AwaitsFacts
  <2>13. PICK step : step = [r EXCEPT !.at = "audit", !.build = b, !.made = v + 1]
    OBVIOUS
  <2>14. ops' = [ops EXCEPT ![s] = step]
    BY <1>1, <1>2, <1>7, <2>1, <2>10, <2>13 DEF OpsHold
  <2>15. /\ step \in Requests /\ step.kind = r.kind /\ step.q = e /\ step.at = "audit" /\ step.build = b
         /\ step.status = r.status /\ step.since = r.since /\ step.made = v + 1
    <3>1. PICK m \in Nat : m = v + 1
      BY <2>1
    <3>2. step = [r EXCEPT !.at = "audit", !.build = b, !.made = m]
      BY <2>13, <3>1
    <3>3. step \in Requests
      BY <1>3, <2>12, <3>2 DEF Requests
    <3>4. /\ step.kind = r.kind /\ step.q = r.q /\ step.at = "audit" /\ step.build = b
          /\ step.status = r.status /\ step.since = r.since /\ step.made = m
      BY <1>3, <3>2 DEF Requests
    <3> QED
      BY <1>3, <3>1, <3>3, <3>4
  <2>16. \A u \in Gate!Targets : r.since[u] <= answered'[u]
    BY <1>1, <1>2 DEF OpHolds
  <2>17. Covers(bs[b], r.since)'
    <3>1. r.since \in [Gate!Targets -> Nat] /\ \A u \in Gate!Targets : r.since[u] <= answered[u]
      BY <1>2 DEF OpHolds, Requests
    <3>2. bs[b] \in Builds
      BY <2>12 DEF GoodBuilds
    <3>3. Covers(bs[b], r.since)
      BY <1>1, <2>12, <3>1, <3>2, CoversLess
    <3> QED
      BY <2>7, <3>3 DEF Covers
  <2>18. step.made <= gFile'[step.q.target].v
    BY <1>4, <2>1, <2>24, <2>4, <2>15
  <2>19. step.status = None
    BY <1>1, <1>2, <2>15 DEF OpHolds
  <2>20. OpHolds(step)'
    BY <1>3, <2>11, <2>12, <2>15, <2>16, <2>17, <2>18, <2>19 DEF OpHolds
  <2>21. OpsHold'
    BY <1>1, <2>9, <2>14, <2>20, OnlyOp
  <2>22. ChainHolds'
    BY <1>1, <1>7 DEF ChainHolds
  <2>23. Gate!SomeoneAdministers'
    <3>1. CASE t = "policy"
      <4>1. e.body # Garbage /\ Gate!GrantsAdmin(e.body, e.who)
        BY <1>4, <1>7, <3>1 DEF Gate!Accepts
      <4>2. gFile'["policy"].body = e.body
        BY <2>24, <2>4, <3>1
      <4> QED
        BY <1>3, <4>1, <4>2 DEF Gate!SomeoneAdministers
    <3>2. CASE t # "policy"
      <4>1. "policy" \in Gate!Targets
        BY DEF Gate!Targets
      <4>2. gFile'["policy"] = gFile["policy"]
        BY <2>4, <3>2, <4>1
      <4> QED
        BY <1>1, <4>2 DEF Gate!SomeoneAdministers
    <3> QED
      BY <3>1, <3>2
  <2> QED
    BY <2>8, <2>9, <2>21, <2>22, <2>23 DEF GateIInv
<1> QED
  BY <1>5, <1>6, <1>7

\* An edit is answered once the promise is dropped: whoever comes now waits for a new one.
LEMMA AnswerPreserves ==
    ASSUME GateIInv, NEW s \in Askers, Gate!Answer(s)
    PROVE  GateIInv'
<1>1. /\ FilesTyped /\ BuildsHold /\ OpsHold /\ ChainHolds /\ ops[s] # None /\ ops[s].at = "audit"
      /\ Gate!Audits(Gate!Gate(s)) /\ memo' = 0 /\ Gate!Settles(s, 200)
      /\ UNCHANGED <<gFile, token, gNow, builds, gStarted, restarts>>
  BY Zenon DEF GateIInv, Gate!Answer, Gate!Ready, Gate!KeptGate
<1>2. PICK r : r = ops[s] /\ OpHolds(r)
  BY <1>1 DEF OpsHold
<1>3. PICK g \in GoodBuilds : g = Gate!Gate(s)
  BY <1>1, <1>2 DEF OpHolds, Gate!Gate, BuildsHold
<1>4. PICK t \in Gate!Targets : t = r.q.target
  BY <1>1, <1>2, GateAssumption DEF OpHolds
<1>5. PICK made \in Nat : made = r.made /\ made <= gFile[t].v /\ r.kind = "put"
  BY <1>1, <1>2, <1>4 DEF OpHolds, Requests
<1>6. ChainHolds' /\ (log # None => log' # None) /\ gFailures' \in Nat
  BY <1>1, <1>3, AuditsHold
<1>7. answered' = [answered EXCEPT ![t] = IF made > answered[t] THEN made ELSE answered[t]]
  BY <1>2, <1>4, <1>5 DEF Gate!Answer
<1>8. PICK n \in Nat : n = (IF made > answered[t] THEN made ELSE answered[t]) /\ answered[t] <= n /\ n <= gFile[t].v
  BY <1>1, <1>5 DEF FilesTyped, Versions
<1>9. /\ answered' \in [Gate!Targets -> Nat] /\ answered'[t] = n
      /\ \A u \in Gate!Targets : u # t => answered'[u] = answered[u]
  BY <1>1, <1>7, <1>8 DEF FilesTyped
<1>10. \A u \in Gate!Targets : answered[u] <= answered'[u] /\ answered'[u] <= gFile[u].v
                               /\ answered'[u] \in Nat /\ gFile[u].v \in Nat
  BY <1>1, <1>8, <1>9 DEF FilesTyped, Versions
<1>11. FilesTyped'
  BY <1>1, <1>6, <1>9, <1>10 DEF FilesTyped
<1>12. Grows
  BY <1>1, <1>10 DEF Grows, Gate!Configured
<1>13. BuildsHold'
  <2>1. GoodBuilds \subseteq GoodBuilds'
    BY <1>1, <1>6, GoodStays DEF Gate!Configured
  <2>2. builds' \in Seq(GoodBuilds')
    BY <1>1, <2>1 DEF BuildsHold
  <2> QED
    BY <1>1, <2>2 DEF BuildsHold
<1>14. OpsHold'
  <2>1. 200 \in Nat \cup {None} /\ ops[s].kind # "call"
    BY <1>2, <1>5
  <2> QED
    BY <1>1, <1>12, <2>1, SettleHolds
<1>15. Gate!SomeoneAdministers'
  BY <1>1 DEF GateIInv, Gate!SomeoneAdministers
<1> QED
  BY <1>6, <1>11, <1>13, <1>14, <1>15 DEF GateIInv

\* A new process has no builds, no requests and no log.
LEMMA RestartPreserves ==
    ASSUME GateIInv, Gate!Restart
    PROVE  GateIInv'
<1>1. /\ FilesTyped /\ ChainHolds /\ Gate!SomeoneAdministers /\ restarts' = restarts + 1
      /\ builds' = <<>> /\ memo' = 0 /\ ops' = [s \in Askers |-> None] /\ log' = None
      /\ UNCHANGED <<gFile, token, gNow, answered, entries, gStarted, gFailures>>
  BY DEF GateIInv, Gate!Restart
<1>2. restarts \in Nat /\ restarts' \in Nat /\ restarts' # 0
  BY <1>1 DEF FilesTyped
<1>3. FilesTyped' /\ ChainHolds' /\ Gate!SomeoneAdministers'
  BY <1>1, <1>2 DEF FilesTyped, ChainHolds, Gate!SomeoneAdministers
<1>4. BuildsHold' /\ OpsHold'
  BY <1>1 DEF BuildsHold, OpsHold
<1> QED
  BY <1>3, <1>4 DEF GateIInv

LEMMA GateStands ==
    ASSUME GateIInv, UNCHANGED <<gFile, builds, memo, ops, answered, log, entries, gFailures, restarts>>
    PROVE  GateIInv'
<1>1. FilesTyped /\ BuildsHold /\ OpsHold /\ ChainHolds /\ Gate!SomeoneAdministers
  BY DEF GateIInv
<1>2. FilesTyped' /\ BuildsHold' /\ Grows
  BY <1>1, FilesStand, BuildsStand DEF FilesTyped
<1>3. OpsHold'
  BY <1>1, <1>2, OpsStand
<1>4. ChainHolds' /\ Gate!SomeoneAdministers'
  BY <1>1 DEF ChainHolds, Gate!SomeoneAdministers
<1> QED
  BY <1>2, <1>3, <1>4 DEF GateIInv

LEMMA GateStep == GateIInv /\ Gate!Next => GateIInv'
<1> SUFFICES ASSUME GateIInv, Gate!Next
             PROVE  GateIInv'
  OBVIOUS
<1>1. ASSUME NEW b \in DOMAIN builds, Gate!Verify(b) \/ Gate!ReadFile(b)
      PROVE  GateIInv'
  BY <1>1, VerifyPreserves, ReadFilePreserves
<1>2. ASSUME NEW s \in Askers, \/ \E q \in GatedCalls : Gate!Begin(s, "call", q)
                               \/ \E e \in Edits : Gate!Begin(s, "put", e)
      PROVE  GateIInv'
  BY <1>2, BeginPreserves
<1>3. ASSUME NEW s \in Askers, Gate!Decide(s) \/ Gate!Authorize(s) \/ Gate!Write(s) \/ Gate!Answer(s)
      PROVE  GateIInv'
  BY <1>3, DecidePreserves, AuthorizePreserves, WritePreserves, AnswerPreserves
<1>4. CASE Gate!Tick
  BY <1>4, GateStands DEF Gate!Tick
<1>5. CASE Gate!Restart
  BY <1>5, RestartPreserves
<1> QED
  BY <1>1, <1>2, <1>3, <1>4, <1>5 DEF Gate!Next

\* The gate keeps its word: an answered edit holds for every call that comes after it, whatever
\* builds were under way; the PUTs leave an administrator; and only a lost append or a new process
\* breaks the chain of the log.
THEOREM GateStaysHeld == Joint => []GateHolds
<1>1. JointInit => GateIInv
  BY GateInit DEF JointInit
<1>2. ASSUME GateIInv, UNCHANGED gate
      PROVE  GateIInv'
  BY <1>2, GateStands DEF gate
<1>3. GateIInv /\ [JointNext]_JointVars => GateIInv'
  BY <1>2, GateStep DEF JointNext, JointVars
<1>4. GateIInv => GateHolds
  <2> SUFFICES ASSUME GateIInv
               PROVE  GateHolds
    OBVIOUS
  <2>1. FilesTyped /\ BuildsHold /\ OpsHold /\ ChainHolds /\ Gate!SomeoneAdministers
    BY DEF GateIInv
  <2>2. ASSUME NEW s \in Askers, ops[s] # None, ops[s].kind = "call", ops[s].status = 200,
               NEW t \in Gate!Targets, Gate!Configured(t)
        PROVE  Gate!Gate(s).mode = "active" /\ Gate!Gate(s).read[t].v >= ops[s].since[t]
    <3>1. PICK r : r = ops[s] /\ OpHolds(r)
      BY <2>1, <2>2 DEF OpsHold
    <3>2. PICK g \in GoodBuilds : g = Gate!Gate(s) /\ g = builds[r.build]
      BY <2>1, <3>1 DEF OpHolds, BuildsHold, Gate!Gate
    <3>3. g.at = "done" /\ g.mode \in {"off", "active"} /\ Covers(g, r.since)
      BY <2>2, <3>1, <3>2 DEF OpHolds
    <3>4. g.mode = "active" /\ t \notin Todo(g)
      BY <2>2, <3>3 DEF GoodBuilds, Todo
    <3> QED
      BY <2>2, <3>1, <3>2, <3>3, <3>4 DEF Covers
  <2>3. Gate!AnsweredEditsHold
    BY <2>2 DEF Gate!AnsweredEditsHold
  <2>4. Gate!GateResetsKeepChain
    <3>1. ASSUME restarts = 0, gFailures = 0, NEW i \in DOMAIN entries
          PROVE  entries[i].n = i - 1 /\ entries[i].run = entries[1].run
      <4>1. 1 \in DOMAIN entries
        BY <2>1, <3>1 DEF ChainHolds
      <4> QED
        BY <2>1, <3>1, <4>1 DEF ChainHolds
    <3> QED
      BY <3>1 DEF Gate!GateResetsKeepChain, Gate!ChainVerifies
  <2> QED
    BY <2>1, <2>3, <2>4 DEF GateHolds
<1> QED
  BY <1>1, <1>3, <1>4, PTL DEF Joint
----------------------------------------------------------------------------
\* ToolCall.  A rule covers every signature it was learned from, of its own tool; so the first
\* accepted rule for a tool lets through what it learned, and only an earlier one can refuse it.

Sigs       == {Call!Signature(q) : q \in Invocations}
Subjects   == {s.subject : s \in Sigs} \cup {"*", "else"}
ToolNames  == {s.tool : s \in Sigs}
Resources  == {s.res : s \in Sigs}
Shapes     == {s.shape : s \in Sigs}
Statuses   == {"suggested", "accepted", "rejected"}
RuleRecords ==
    [id : Subjects \X ToolNames, subject : Subjects, tool : ToolNames, status : Statuses,
     res : SUBSET Resources, shapes : SUBSET Shapes, from : SUBSET Sigs]

Learns(r, s) == s.tool = r.tool /\ (s.res = None \/ s.res \in r.res) /\ (s.shape = None \/ s.shape \in r.shapes)

GoodRules == {r \in RuleRecords : r.id[2] = r.tool /\ \A s \in r.from : Learns(r, s)}

LEMMA SigFacts ==
    ASSUME NEW s \in Sigs
    PROVE  /\ s.subject \in Subjects /\ s.tool \in ToolNames /\ s.res \in Resources /\ s.shape \in Shapes
           /\ <<s.subject, s.tool>> \in Subjects \X ToolNames
<1>1. s.subject \in Subjects /\ s.tool \in ToolNames /\ s.res \in Resources /\ s.shape \in Shapes
  BY DEF Subjects, ToolNames, Resources, Shapes
<1> QED
  BY <1>1

\* What constraintsFrom makes of a group covers the group.
LEMMA RuleIsGood ==
    ASSUME NEW subject \in Subjects, NEW tool \in ToolNames, NEW group \in SUBSET Sigs,
           \A s \in group : s.tool = tool, NEW status \in Statuses
    PROVE  Call!Rule(subject, tool, group, status) \in GoodRules
<1>1. PICK res \in SUBSET Resources : res = {s.res : s \in group} \ {None}
  BY SigFacts
<1>2. PICK shapes \in SUBSET Shapes : shapes = {s.shape : s \in group} \ {None}
  BY SigFacts
<1>8. <<subject, tool>> \in Subjects \X ToolNames /\ <<subject, tool>>[2] = tool
  OBVIOUS
<1>3. PICK id \in Subjects \X ToolNames : id = <<subject, tool>> /\ id[2] = tool
  BY <1>8, Zenon
<1>4. PICK r : r = [id |-> id, subject |-> subject, tool |-> tool, status |-> status,
                    res |-> res, shapes |-> shapes, from |-> group]
  OBVIOUS
<1>5. Call!Rule(subject, tool, group, status) = r
  BY <1>1, <1>2, <1>3, <1>4 DEF Call!Rule
<1>6. r \in RuleRecords /\ r.id = id /\ r.tool = tool /\ r.res = res /\ r.shapes = shapes /\ r.from = group
  BY <1>3, <1>4 DEF RuleRecords
<1>7. \A s \in group : Learns(r, s)
  BY <1>1, <1>2, <1>6 DEF Learns
<1> QED
  BY <1>3, <1>5, <1>6, <1>7 DEF GoodRules

LEMMA CallCardinality == \A S : Call!Cardinality(S) = Cardinality(S)
BY DEF Call!Cardinality, Cardinality

LEMMA SetAsSequence ==
    ASSUME NEW S, IsFiniteSet(S)
    PROVE  Call!SetToSeq(S) \in Seq(S)
<1>1. PICK n \in Nat : n = Cardinality(S)
  BY FS_CardinalityType
<1>2. PICK g \in Bijection(1 .. n, S) : TRUE
  BY <1>1, FS_CardinalityType DEF ExistsBijection
<1>3. g \in [1 .. n -> S] /\ Call!IsInjective(g)
  BY <1>2 DEF Bijection, Injection, IsInjective, Call!IsInjective
<1>4. Call!SetToSeq(S) \in [1 .. n -> S]
  BY <1>1, <1>3, CallCardinality, Zenon DEF Call!SetToSeq
<1> QED
  BY <1>4

LEMMA DeriveHolds ==
    ASSUME NEW rs \in Seq(GoodRules), NEW observed \in SUBSET Sigs, IsFiniteSet(observed)
    PROVE  Call!DeriveProfile(rs, observed) \in Seq(GoodRules)
<1>1. PICK ids \in SUBSET (Subjects \X ToolNames) : ids = {<<s.subject, s.tool>> : s \in observed}
  BY SigFacts
<1> DEFINE Group(id) == {s \in observed : <<s.subject, s.tool>> = id}
           New(id) == Call!Rule(id[1], id[2], Group(id), "suggested")
           unknown == {id \in ids : Call!IndexOf(rs, id) = {}}
           fresh == Call!SetToSeq(unknown)
<1>2. \A id \in Subjects \X ToolNames : New(id) \in GoodRules
  <2> SUFFICES ASSUME NEW id \in Subjects \X ToolNames
               PROVE  New(id) \in GoodRules
    OBVIOUS
  <2>1. id[1] \in Subjects /\ id[2] \in ToolNames /\ Group(id) \in SUBSET Sigs /\ "suggested" \in Statuses
    BY DEF Statuses
  <2>2. \A s \in Group(id) : s.tool = id[2]
    OBVIOUS
  <2> QED
    BY <2>1, <2>2, RuleIsGood
<1>3. IsFiniteSet(unknown)
  <2>1. PICK f : f = [s \in observed |-> <<s.subject, s.tool>>]
    OBVIOUS
  <2>2. f \in Surjection(observed, ids)
    BY <1>1, <2>1 DEF Surjection
  <2>3. IsFiniteSet(ids)
    BY <2>2, FS_Surjection
  <2> QED
    BY <2>3, FS_Subset
<1>4. fresh \in Seq(unknown) /\ unknown \subseteq Subjects \X ToolNames
  BY <1>1, <1>3, SetAsSequence
<1>5. Call!DeriveProfile(rs, observed)
        = [i \in DOMAIN rs |-> IF rs[i].id \in ids /\ rs[i].status = "suggested" THEN New(rs[i].id) ELSE rs[i]]
          \o [i \in DOMAIN fresh |-> New(fresh[i])]
  BY <1>1, Zenon DEF Call!DeriveProfile
<1> HIDE DEF New, fresh, unknown
<1>6. PICK p : p = [i \in DOMAIN rs |-> IF rs[i].id \in ids /\ rs[i].status = "suggested" THEN New(rs[i].id) ELSE rs[i]]
  OBVIOUS
<1>7. PICK f : f = [i \in DOMAIN fresh |-> New(fresh[i])]
  OBVIOUS
<1>8. p \in Seq(GoodRules)
  <2>1. \A i \in DOMAIN rs : rs[i] \in GoodRules /\ rs[i].id \in Subjects \X ToolNames
    BY DEF GoodRules, RuleRecords
  <2>2. \A i \in DOMAIN rs : (IF rs[i].id \in ids /\ rs[i].status = "suggested" THEN New(rs[i].id) ELSE rs[i]) \in GoodRules
    BY <1>2, <2>1
  <2>3. DOMAIN rs = 1 .. Len(rs) /\ Len(rs) \in Nat
    OBVIOUS
  <2> QED
    BY <1>6, <2>2, <2>3
<1>9. f \in Seq(GoodRules)
  <2>1. DOMAIN fresh = 1 .. Len(fresh) /\ Len(fresh) \in Nat /\ \A i \in DOMAIN fresh : New(fresh[i]) \in GoodRules
    BY <1>2, <1>4
  <2> QED
    BY <1>7, <2>1
<1>10. Call!DeriveProfile(rs, observed) = p \o f
  BY <1>5, <1>6, <1>7
<1> QED
  BY <1>8, <1>9, <1>10


\* absorb: the rule keeps its tool and takes the signature in.
LEMMA AbsorbHolds ==
    ASSUME NEW rs \in Seq(GoodRules), NEW s \in Sigs
    PROVE  Call!AbsorbInto(rs, s) \in Seq(GoodRules)
<1> DEFINE Widened(r) == [r EXCEPT !.status = "accepted", !.res = r.res \cup ({s.res} \ {None}),
                                   !.shapes = r.shapes \cup ({s.shape} \ {None}), !.from = r.from \cup {s}]
<1>1. PICK at : at = Call!IndexOf(rs, <<s.subject, s.tool>>)
  OBVIOUS
<1>2. Call!AbsorbInto(rs, s) = IF at = {} THEN Append(rs, Call!Rule(s.subject, s.tool, {s}, "accepted"))
                               ELSE [rs EXCEPT ![Call!Min(at)] = Widened(rs[Call!Min(at)])]
  BY <1>1, Zenon DEF Call!AbsorbInto
<1> HIDE DEF Widened
<1>3. CASE at = {}
  <2>1. Call!Rule(s.subject, s.tool, {s}, "accepted") \in GoodRules
    <3>1. {s} \in SUBSET Sigs /\ "accepted" \in Statuses /\ \A x \in {s} : x.tool = s.tool
      BY DEF Statuses
    <3> QED
      BY <3>1, SigFacts, RuleIsGood
  <2> QED
    BY <1>2, <1>3, <2>1
<1>4. CASE at # {}
  <2>1. at \subseteq DOMAIN rs /\ DOMAIN rs \subseteq Nat /\ \A i \in at : rs[i].id = <<s.subject, s.tool>>
    BY <1>1 DEF Call!IndexOf
  <2>2. PICK n \in at : n = Call!Min(at)
    BY <1>4, <2>1, LeastNatural DEF Call!Min
  <2>3. PICK r \in GoodRules : r = rs[n] /\ r.id = <<s.subject, s.tool>>
    BY <2>1
  <2>4. r.tool = s.tool /\ r \in RuleRecords /\ \A x \in r.from : Learns(r, x)
    <3>1. r.id[2] = s.tool
      BY <2>3
    <3> QED
      BY <3>1 DEF GoodRules
  <2>5. PICK res \in SUBSET Resources : res = r.res \cup ({s.res} \ {None})
    BY <2>4, SigFacts DEF RuleRecords
  <2>6. PICK shapes \in SUBSET Shapes : shapes = r.shapes \cup ({s.shape} \ {None})
    BY <2>4, SigFacts DEF RuleRecords
  <2>7. PICK from \in SUBSET Sigs : from = r.from \cup {s}
    BY <2>4 DEF RuleRecords
  <2>8. PICK w : w = [r EXCEPT !.status = "accepted", !.res = res, !.shapes = shapes, !.from = from]
    OBVIOUS
  <2>9. /\ w \in RuleRecords /\ w.id = r.id /\ w.tool = r.tool /\ w.res = res /\ w.shapes = shapes /\ w.from = from
    BY <2>4, <2>8 DEF RuleRecords, Statuses
  <2>10. w \in GoodRules
    <3>1. r.id[2] = r.tool
      BY DEF GoodRules
    <3>2. ASSUME NEW x \in from
          PROVE  Learns(w, x)
      <4>1. CASE x \in r.from
        BY <2>4, <2>5, <2>6, <2>9, <4>1 DEF Learns
      <4>2. CASE x = s
        BY <2>4, <2>5, <2>6, <2>9, <4>2 DEF Learns
      <4> QED
        BY <2>7, <4>1, <4>2
    <3> QED
      BY <2>9, <3>1, <3>2 DEF GoodRules
  <2>11. Widened(r) = w
    BY <2>5, <2>6, <2>7, <2>8 DEF Widened
  <2>12. Call!AbsorbInto(rs, s) = [rs EXCEPT ![n] = w]
    BY <1>2, <1>4, <2>2, <2>3, <2>11
  <2> QED
    BY <2>1, <2>10, <2>12
<1> QED
  BY <1>3, <1>4

LEMMA AroundOne ==
    ASSUME NEW S, NEW q \in Seq(S), NEW i \in DOMAIN q
    PROVE  SubSeq(q, 1, i - 1) \in Seq(S) /\ SubSeq(q, i + 1, Len(q)) \in Seq(S)
<1>1. i \in 1 .. Len(q)
  OBVIOUS
<1>2. SubSeq(q, 1, i - 1) \in Seq(S) /\ Len(SubSeq(q, 1, i - 1)) = i - 1
  BY <1>1
<1>3. SubSeq(q, i + 1, Len(q)) \in Seq(S) /\ Len(SubSeq(q, i + 1, Len(q))) = Len(q) - i
  BY <1>1
<1> QED
  BY <1>2, <1>3

LEMMA DecideRule ==
    ASSUME NEW rs \in Seq(GoodRules), NEW i \in DOMAIN rs, NEW status \in Statuses, NEW subject \in {"*", "else"}
    PROVE  /\ [rs EXCEPT ![i].status = status] \in Seq(GoodRules)
           /\ [rs EXCEPT ![i].subject = subject] \in Seq(GoodRules)
           /\ Call!RemoveAt(rs, i) \in Seq(GoodRules)
<1>1. PICK r \in GoodRules : r = rs[i]
  OBVIOUS
<1>2. PICK u : u = [r EXCEPT !.status = status]
  OBVIOUS
<1>3. PICK v : v = [r EXCEPT !.subject = subject]
  OBVIOUS
<1>4. r \in RuleRecords /\ subject \in Subjects
  BY DEF GoodRules, Subjects
<1>5. u \in RuleRecords /\ u.id = r.id /\ u.tool = r.tool /\ u.res = r.res /\ u.shapes = r.shapes /\ u.from = r.from
  BY <1>2, <1>4 DEF RuleRecords
<1>6. v \in RuleRecords /\ v.id = r.id /\ v.tool = r.tool /\ v.res = r.res /\ v.shapes = r.shapes /\ v.from = r.from
  BY <1>3, <1>4 DEF RuleRecords
<1>7. u \in GoodRules /\ v \in GoodRules
  BY <1>5, <1>6 DEF GoodRules, Learns
<1>8. [rs EXCEPT ![i].status = status] = [rs EXCEPT ![i] = u] /\ [rs EXCEPT ![i].subject = subject] = [rs EXCEPT ![i] = v]
  BY <1>1, <1>2, <1>3
<1>9. [rs EXCEPT ![i] = u] \in Seq(GoodRules) /\ [rs EXCEPT ![i] = v] \in Seq(GoodRules)
  BY <1>7
<1>10. Call!RemoveAt(rs, i) \in Seq(GoodRules)
  <2>1. PICK p \in Seq(GoodRules) : p = SubSeq(rs, 1, i - 1)
    BY AroundOne
  <2>2. PICK c \in Seq(GoodRules) : c = SubSeq(rs, i + 1, Len(rs))
    BY AroundOne
  <2> QED
    BY <2>1, <2>2, Joined DEF Call!RemoveAt
<1> QED
  BY <1>8, <1>9, <1>10

\* What a rule learned passes, unless an accepted rule before it speaks for the tool.
LEMMA LearnedPass ==
    ASSUME NEW rs, rs = rules, rs \in Seq(GoodRules)
    PROVE  Call!LearnedPasses
<1> SUFFICES ASSUME NEW i \in DOMAIN rs, rs[i].status = "accepted", NEW s \in rs[i].from,
                    rs[i].subject \in {s.subject, "*"}, Call!Evaluate(s, rs) # "allow"
             PROVE  \E j \in 1 .. i - 1 : /\ rs[j].status = "accepted" /\ rs[j].tool = s.tool
                                          /\ rs[j].subject \in {s.subject, "*"}
  BY DEF Call!LearnedPasses
<1>1. rs[i].tool = s.tool /\ Learns(rs[i], s)
  BY DEF GoodRules, Learns
<1>2. PICK mine : mine = {k \in DOMAIN rs : rs[k].status = "accepted" /\ rs[k].subject \in {s.subject, "*"}}
  OBVIOUS
<1>3. PICK fits : fits = {k \in mine : rs[k].tool = s.tool}
  OBVIOUS
<1>4. i \in mine /\ i \in fits /\ fits \subseteq DOMAIN rs /\ DOMAIN rs \subseteq Nat /\ DOMAIN rs = 1 .. Len(rs)
  BY <1>1, <1>2, <1>3
<1>5. PICK n \in fits : n = Call!Min(fits) /\ n <= i
  <2>1. PICK n \in fits : \A m \in fits : n <= m
    BY <1>4, LeastNatural
  <2>2. Call!Min(fits) \in fits /\ \A m \in fits : Call!Min(fits) <= m
    BY <2>1 DEF Call!Min
  <2> QED
    BY <1>4, <2>2
<1>6. CASE n = i
  <2>1. Call!Evaluate(s, rs) = "allow"
    <3>1. mine # {} /\ fits # {}
      BY <1>4
    <3>2. s.res = None \/ s.res \in rs[n].res
      BY <1>1, <1>6 DEF Learns
    <3>3. s.shape = None \/ s.shape \in rs[n].shapes
      BY <1>1, <1>6 DEF Learns
    <3> QED
      BY <1>2, <1>3, <1>5, <3>1, <3>2, <3>3 DEF Call!Evaluate
  <2> QED
    BY <2>1
<1>7. CASE n # i
  <2>1. n \in 1 .. i - 1
    BY <1>4, <1>5, <1>7
  <2> QED
    BY <1>2, <1>3, <2>1
<1> QED
  BY <1>6, <1>7

\* The hooks of a kind, in the order of their priorities: there is such an order, and each is in
\* it once.
Hooks == {Call!Registered[i] : i \in DOMAIN Call!Registered}

LEMMA RegisteredFacts ==
    /\ DOMAIN Call!Registered = 1 .. Len(Plugins) + 2 /\ Len(Plugins) \in Nat
    /\ Call!Registered[Len(Plugins) + 1] = Call!Recorder /\ Call!Registered[Len(Plugins) + 2] = Call!Enforcer
    /\ \A i \in DOMAIN Call!Registered : i <= Len(Plugins) => i \in DOMAIN Plugins /\ Call!Registered[i] = Plugins[i]
    /\ \A i \in DOMAIN Call!Registered : Call!Registered[i].priority \in Int
<1>1. PICK P \in Seq({Plugins[i] : i \in DOMAIN Plugins}) : P = Plugins
  BY InspectionAssumption
<1>2. PICK r : r = Call!Recorder
  OBVIOUS
<1>3. PICK e : e = Call!Enforcer
  OBVIOUS
<1> DEFINE S == {Plugins[i] : i \in DOMAIN Plugins} \cup {r, e}
<1>4. P \in Seq(S) /\ <<r, e>> \in Seq(S)
  BY <1>1
<1> HIDE DEF S
<1>5. PICK all : all = P \o <<r, e>>
  OBVIOUS
<1>6. /\ DOMAIN all = 1 .. Len(P) + 2 /\ Len(P) \in Nat /\ DOMAIN P = 1 .. Len(P)
      /\ all[Len(P) + 1] = r /\ all[Len(P) + 2] = e
      /\ \A i \in DOMAIN all : i <= Len(P) => i \in DOMAIN P /\ all[i] = P[i]
  BY <1>4, <1>5
<1>7. Call!Registered = all
  BY <1>1, <1>2, <1>3, <1>5 DEF Call!Registered
<1>8. r.priority \in Int /\ e.priority \in Int
  BY <1>2, <1>3 DEF Call!Recorder, Call!Enforcer
<1>9. ASSUME NEW i \in DOMAIN all
      PROVE  all[i].priority \in Int
  <2>1. CASE i <= Len(P)
    BY <1>1, <1>6, <2>1, InspectionAssumption
  <2>2. CASE i > Len(P)
    <3>1. i = Len(P) + 1 \/ i = Len(P) + 2
      BY <1>6, <2>2
    <3> QED
      BY <1>6, <1>8, <3>1
  <2> QED
    BY <1>6, <2>1, <2>2
<1> QED
  BY <1>1, <1>2, <1>3, <1>6, <1>7, <1>9

LEMMA ComesFacts ==
    ASSUME NEW i \in DOMAIN Call!Registered, NEW j \in DOMAIN Call!Registered
    PROVE  /\ i # j => Call!Comes(i, j) \/ Call!Comes(j, i)
           /\ \A k \in DOMAIN Call!Registered : Call!Comes(i, j) /\ Call!Comes(j, k) => Call!Comes(i, k)
<1>1. i \in Int /\ j \in Int /\ \A k \in DOMAIN Call!Registered : k \in Int /\ Call!Registered[k].priority \in Int
  BY RegisteredFacts
<1> QED
  BY <1>1 DEF Call!Comes

LEMMA LastHook ==
    ASSUME NEW R \in SUBSET DOMAIN Call!Registered, R # {}
    PROVE  \E m \in R : \A j \in R \ {m} : Call!Comes(j, m)
<1>1. PICK top \in Nat : DOMAIN Call!Registered = 1 .. top
  BY RegisteredFacts
<1> DEFINE EndsIn(S) == \E m \in S : \A j \in S \ {m} : Call!Comes(j, m)
           T == {n \in Nat : \A S \in SUBSET DOMAIN Call!Registered : S # {} /\ S \subseteq 1 .. n => EndsIn(S)}
<1>2. 0 \in T
  OBVIOUS
<1>3. ASSUME NEW n \in T
      PROVE  n + 1 \in T
  <2> SUFFICES ASSUME NEW S \in SUBSET DOMAIN Call!Registered, S # {}, S \subseteq 1 .. n + 1
               PROVE  EndsIn(S)
    OBVIOUS
  <2>1. CASE n + 1 \notin S
    <3>1. S \subseteq 1 .. n
      BY <2>1
    <3> QED
      BY <3>1
  <2>2. CASE n + 1 \in S
    <3>1. CASE S \ {n + 1} = {}
      <4>1. \A j \in S \ {n + 1} : Call!Comes(j, n + 1)
        BY <3>1
      <4> QED
        BY <2>2, <4>1
    <3>2. CASE S \ {n + 1} # {}
      <4>1. S \ {n + 1} \in SUBSET DOMAIN Call!Registered /\ S \ {n + 1} \subseteq 1 .. n
        OBVIOUS
      <4>2. PICK m \in S \ {n + 1} : \A j \in (S \ {n + 1}) \ {m} : Call!Comes(j, m)
        BY <3>2, <4>1
      <4>3. CASE Call!Comes(m, n + 1)
        <5>1. \A j \in S \ {n + 1} : Call!Comes(j, n + 1)
          BY <2>2, <4>2, <4>3, ComesFacts
        <5> QED
          BY <2>2, <5>1
      <4>4. CASE Call!Comes(n + 1, m)
        <5>1. \A j \in S \ {m} : Call!Comes(j, m)
          BY <4>2, <4>4
        <5> QED
          BY <4>2, <5>1
      <4> QED
        BY <2>2, <4>2, <4>3, <4>4, ComesFacts
    <3> QED
      BY <3>1, <3>2
  <2> QED
    BY <2>1, <2>2
<1>4. T \in SUBSET Nat
  OBVIOUS
<1> HIDE DEF T
<1>5. top \in T
  BY <1>2, <1>3, <1>4, Induction
<1> QED
  BY <1>1, <1>5 DEF T

Ordered(f, n) ==
    \A k, m \in 1 .. n : /\ k # m => f[k] # f[m]
                         /\ k < m => Call!Comes(f[k], f[m])

LEMMA OrderExists ==
    ASSUME NEW R \in SUBSET DOMAIN Call!Registered
    PROVE  /\ IsFiniteSet(R)
           /\ \E f \in [1 .. Cardinality(R) -> R] : Ordered(f, Cardinality(R))
<1>1. \A S \in SUBSET DOMAIN Call!Registered : IsFiniteSet(S)
  <2>1. IsFiniteSet(1 .. Len(Plugins) + 2)
    BY RegisteredFacts, FS_Interval
  <2> QED
    BY <2>1, RegisteredFacts, FS_Subset
<1> DEFINE T == {n \in Nat : \A S \in SUBSET DOMAIN Call!Registered :
                               Cardinality(S) = n => \E f \in [1 .. n -> S] : Ordered(f, n)}
<1>2. 0 \in T
  <2>1. ASSUME NEW S \in SUBSET DOMAIN Call!Registered
        PROVE  \E f \in [1 .. 0 -> S] : Ordered(f, 0)
    <3>1. 1 .. 0 = {}
      OBVIOUS
    <3>2. [k \in {} |-> k] \in [{} -> S]
      OBVIOUS
    <3>3. \A f : Ordered(f, 0)
      BY <3>1 DEF Ordered
    <3> QED
      BY <3>1, <3>2, <3>3
  <2> QED
    BY <2>1
<1>3. ASSUME NEW n \in T
      PROVE  n + 1 \in T
  <2> SUFFICES ASSUME NEW S \in SUBSET DOMAIN Call!Registered, Cardinality(S) = n + 1
               PROVE  \E f \in [1 .. n + 1 -> S] : Ordered(f, n + 1)
    OBVIOUS
  <2>1. S # {} /\ IsFiniteSet(S)
    BY <1>1, FS_EmptySet
  <2>2. PICK m \in S : \A j \in S \ {m} : Call!Comes(j, m)
    BY <2>1, LastHook
  <2>3. Cardinality(S \ {m}) = n
    BY <2>1, FS_RemoveElement
  <2>4. PICK f \in [1 .. n -> S \ {m}] : Ordered(f, n)
    BY <2>3
  <2>5. PICK g : g = [k \in 1 .. n + 1 |-> IF k <= n THEN f[k] ELSE m]
    OBVIOUS
  <2>6. g \in [1 .. n + 1 -> S] /\ g[n + 1] = m /\ \A k \in 1 .. n : g[k] = f[k] /\ f[k] \in S \ {m}
    BY <2>5
  <2>7. ASSUME NEW k \in 1 .. n + 1, NEW l \in 1 .. n + 1
        PROVE  (k # l => g[k] # g[l]) /\ (k < l => Call!Comes(g[k], g[l]))
    <3>1. CASE k \in 1 .. n /\ l \in 1 .. n
      BY <2>4, <2>6, <3>1 DEF Ordered
    <3>2. CASE k = n + 1 /\ l \in 1 .. n
      BY <2>6, <3>2
    <3>3. CASE k \in 1 .. n /\ l = n + 1
      BY <2>2, <2>6, <3>3
    <3>4. CASE k = n + 1 /\ l = n + 1
      BY <3>4
    <3> QED
      BY <3>1, <3>2, <3>3, <3>4
  <2>8. Ordered(g, n + 1)
    BY <2>7 DEF Ordered
  <2> QED
    BY <2>6, <2>8
<1>4. T \in SUBSET Nat
  OBVIOUS
<1> HIDE DEF T
<1>5. Cardinality(R) \in T
  <2>1. Cardinality(R) \in Nat /\ \A n \in Nat : n \in T
    BY <1>1, <1>2, <1>3, <1>4, Induction, FS_CardinalityType
  <2> QED
    BY <2>1
<1> QED
  BY <1>1, <1>5 DEF T

LEMMA HookListFacts ==
    ASSUME NEW k
    PROVE  /\ Call!HookList(k) \in Seq(Hooks)
           /\ \A i \in DOMAIN Call!HookList(k) : Call!HookList(k)[i].kind = k
           /\ k = <<"tool", "post">> =>
                \E i \in DOMAIN Call!HookList(k) :
                   /\ Call!HookList(k)[i].does = "record"
                   /\ \A j \in DOMAIN Call!HookList(k) : Call!HookList(k)[j].does = "record" => j = i
<1>1. PICK due \in SUBSET DOMAIN Call!Registered : due = Call!Due(k)
  BY DEF Call!Due
<1>2. PICK n \in Nat : n = Cardinality(due)
  BY OrderExists, FS_CardinalityType
<1>3. PICK order : order = CHOOSE s \in Call!SetToSeqs(due) : Call!Sorted(s)
  OBVIOUS
<1>4. order \in [1 .. n -> due] /\ \A i, j \in 1 .. n : i # j => order[i] # order[j]
  <2>1. PICK f \in [1 .. n -> due] : Ordered(f, n)
    BY <1>2, OrderExists
  <2>2. Call!SetToSeqs(due) = {g \in [1 .. n -> due] : \A i, j \in 1 .. n : i # j => g[i] # g[j]}
    BY <1>2, CallCardinality, Zenon DEF Call!SetToSeqs
  <2>3. f \in Call!SetToSeqs(due) /\ Call!Sorted(f)
    BY <2>1, <2>2 DEF Ordered, Call!Sorted
  <2>4. order \in Call!SetToSeqs(due)
    BY <1>3, <2>3, Zenon
  <2> QED
    BY <2>2, <2>4
<1>5. \A d \in due : \E i \in 1 .. n : order[i] = d
  <2>1. order \in Injection(1 .. n, due)
    BY <1>4 DEF Injection, IsInjective
  <2>2. IsFiniteSet(due) /\ Cardinality(1 .. n) = n
    BY OrderExists, FS_Interval
  <2>3. order \in Surjection(1 .. n, due)
    BY <1>2, <2>1, <2>2, FS_Injection
  <2> QED
    BY <2>3 DEF Surjection
<1>6. PICK list : list = [i \in 1 .. n |-> Call!Registered[order[i]]]
  OBVIOUS
<1>7. Call!HookList(k) = list
  <2>1. DOMAIN order = 1 .. n
    BY <1>4
  <2>2. order = CHOOSE s \in Call!SetToSeqs(Call!Due(k)) : Call!Sorted(s)
    BY <1>1, <1>3, Zenon
  <2>3. Call!HookList(k) = Call!InOrder(order)
    BY <2>2, Zenon DEF Call!HookList
  <2> QED
    BY <1>6, <2>1, <2>3 DEF Call!InOrder
<1>8. list \in Seq(Hooks) /\ DOMAIN list = 1 .. n /\ \A i \in 1 .. n : list[i] = Call!Registered[order[i]] /\ order[i] \in due
  <2>1. \A i \in 1 .. n : order[i] \in due /\ Call!Registered[order[i]] \in Hooks
    BY <1>4 DEF Hooks
  <2> QED
    BY <1>6, <2>1
<1>9. \A d \in due : Call!Registered[d].kind = k
  BY <1>1 DEF Call!Due
<1>10. ASSUME k = <<"tool", "post">>
       PROVE  \E i \in 1 .. n : /\ list[i].does = "record"
                                /\ \A j \in 1 .. n : list[j].does = "record" => j = i
  <2>1. PICK own \in DOMAIN Call!Registered :
          own = Len(Plugins) + 1 /\ Call!Registered[own] = Call!Recorder
    BY RegisteredFacts
  <2>2. own \in due
    BY <1>1, <1>10, <2>1 DEF Call!Due, Call!Recorder
  <2>3. PICK i \in 1 .. n : order[i] = own
    BY <1>5, <2>2
  <2>4. list[i].does = "record"
    BY <1>8, <2>1, <2>3 DEF Call!Recorder
  <2>5. ASSUME NEW j \in 1 .. n, list[j].does = "record"
        PROVE  j = i
    <3>1. PICK d \in due : d = order[j] /\ Call!Registered[d].does = "record"
      BY <1>8, <2>5
    <3>2. d = own
      <4>1. CASE d <= Len(Plugins)
        BY <3>1, <4>1, RegisteredFacts, InspectionAssumption
      <4>2. CASE d = Len(Plugins) + 2
        BY <3>1, <4>2, RegisteredFacts DEF Call!Enforcer
      <4> QED
        BY <2>1, <4>1, <4>2, RegisteredFacts
    <3> QED
      BY <1>4, <2>3, <3>1, <3>2
  <2> QED
    BY <2>4, <2>5
<1> QED
  BY <1>7, <1>8, <1>9, <1>10

\* A call has the hooks of its surface left, those before its handler or those after it; the
\* recorder is among the latter once, until it has seen the call or was off while it ran.
Decisions    == {"blocked", "would-block", "allow"}
Observations == [sig : Sigs, decision : Decisions]
AuditEntries == [actor : {q.cred.name : q \in Invocations}, status : {200, 403}]
Texts == {None, "raw", "redacted", "over budget"}
Ends  == {"blocked", "denied", "threw", "answered"}
CallStates ==
    [q : Invocations, at : {"pre", "post", "ended"}, hooks : Seq(Hooks), text : Texts, end : {None} \cup Ends,
     seen : Nat, unwatched : BOOLEAN]

Silent(hooks) == \A i \in DOMAIN hooks : hooks[i].does # "record"

Recorded(r) ==
    r.q.surface = "tool" =>
        /\ r.at = "pre" => r.seen = 0
        /\ r.at = "post" =>
             \/ /\ r.seen = 0
                /\ \E i \in DOMAIN r.hooks : r.hooks[i].does = "record"
                                             /\ \A j \in DOMAIN r.hooks : r.hooks[j].does = "record" => j = i
             \/ Silent(r.hooks) /\ (r.seen = 1 \/ (r.seen = 0 /\ r.unwatched))
        /\ r.at = "ended" =>
             /\ r.seen <= 1
             /\ r.end = "blocked" \/ (r.end = "answered" /\ ~r.unwatched) => r.seen = 1

RawTold(r) ==
    r.text = "raw" /\ Redaction /\ r.q.tool \in Call!Redacting =>
        r.q.cred.bypass /\ \E k \in DOMAIN audited : audited[k].actor = r.q.cred.name /\ audited[k].status = 200

CallHolds(r) ==
    /\ r \in CallStates
    /\ r.at # "ended" => \A i \in DOMAIN r.hooks : r.hooks[i].kind = <<r.q.surface, r.at>>
    /\ Recorded(r)
    /\ RawTold(r)
    /\ mode = "off" /\ r.at # "ended" => r.unwatched

RulesHold == rules \in Seq(GoodRules) /\ cFile \in Seq(GoodRules)
LogsHold  == ring \in Seq(Observations) /\ audited \in Seq(AuditEntries)
CallsHold == calls = [c \in Callers |-> calls[c]] /\ \A c \in Callers : calls[c] # None => CallHolds(calls[c])
CallIInv  == RulesHold /\ LogsHold /\ CallsHold

LEMMA CallInit == Call!Init => CallIInv
BY DEF Call!Init, CallIInv, RulesHold, LogsHold, CallsHold

LEMMA HookKinds ==
    ASSUME NEW h \in Hooks
    PROVE  (h.does = "record" => h.kind = <<"tool", "post">>) /\ (h.does = "enforce" => h.kind = <<"tool", "pre">>)
<1>1. PICK i \in DOMAIN Call!Registered : h = Call!Registered[i]
  BY DEF Hooks
<1>2. CASE i <= Len(Plugins)
  BY <1>1, <1>2, RegisteredFacts, InspectionAssumption
<1>3. CASE i = Len(Plugins) + 1
  BY <1>1, <1>3, RegisteredFacts DEF Call!Recorder
<1>4. CASE i = Len(Plugins) + 2
  BY <1>1, <1>4, RegisteredFacts DEF Call!Enforcer
<1> QED
  BY <1>1, <1>2, <1>3, <1>4, RegisteredFacts

\* What is audited stays; so a call that stands keeps what held of it.
AuditGrows == \A k \in DOMAIN audited : k \in DOMAIN audited' /\ audited'[k] = audited[k]

LEMMA CallStands ==
    ASSUME AuditGrows, UNCHANGED mode, NEW r, CallHolds(r)
    PROVE  CallHolds(r)'
<1>1. RawTold(r)'
  BY DEF CallHolds, RawTold, AuditGrows
<1> QED
  BY <1>1 DEF CallHolds

LEMMA OnlyCall ==
    ASSUME AuditGrows, UNCHANGED mode, CallsHold, NEW c \in Callers, NEW step, Call!Goes(c, step), CallHolds(step)'
    PROVE  CallsHold'
<1>1. /\ calls' = [p \in Callers |-> calls'[p]] /\ calls'[c] = step
      /\ \A p \in Callers : p # c => calls'[p] = calls[p]
  BY DEF CallsHold, Call!Goes
<1>2. ASSUME NEW p \in Callers, calls'[p] # None
      PROVE  CallHolds(calls[p])'
  <2>1. CASE p = c
    BY <1>1, <2>1
  <2>2. CASE p # c
    <3>1. PICK r : r = calls[p] /\ r = calls'[p] /\ CallHolds(r)
      BY <1>1, <1>2, <2>2 DEF CallsHold
    <3>2. CallHolds(r)'
      BY <3>1, CallStands
    <3> QED
      BY <3>1, <3>2
  <2> QED
    BY <2>1, <2>2
<1> QED
  BY <1>1, <1>2 DEF CallsHold

LEMMA CallsStand ==
    ASSUME CallsHold, UNCHANGED <<mode, audited, calls>>
    PROVE  CallsHold'
<1>1. ASSUME NEW p \in Callers, calls[p] # None
      PROVE  CallHolds(calls[p])'
  <2>1. PICK r : r = calls[p] /\ r = calls'[p] /\ CallHolds(r)
    BY <1>1 DEF CallsHold
  <2>2. CallHolds(r)'
    BY <2>1, CallStands DEF AuditGrows
  <2> QED
    BY <2>1, <2>2
<1> QED
  BY <1>1 DEF CallsHold

\* A hook is done with.
LEMMA PastFacts ==
    ASSUME NEW r, CallHolds(r), r.hooks # <<>>, NEW p, p = [r EXCEPT !.hooks = Tail(r.hooks)]
    PROVE  /\ p \in CallStates /\ p.q = r.q /\ p.at = r.at /\ p.text = r.text /\ p.end = r.end /\ p.seen = r.seen
           /\ p.unwatched = r.unwatched
           /\ r.hooks \in Seq(Hooks) /\ Head(r.hooks) = r.hooks[1] /\ Head(r.hooks) \in Hooks /\ 1 \in DOMAIN r.hooks
           /\ p.hooks \in Seq(Hooks) /\ \A i \in DOMAIN p.hooks : i \in Nat /\ i >= 1 /\ i + 1 \in DOMAIN r.hooks
                                                                  /\ p.hooks[i] = r.hooks[i + 1]
           /\ \A i \in DOMAIN r.hooks : i \in Nat /\ i >= 1 /\ (i # 1 => i - 1 \in DOMAIN p.hooks)
<1>1. r \in CallStates /\ r.hooks \in Seq(Hooks)
  BY DEF CallHolds, CallStates
<1>2. PICK hs \in Seq(Hooks) : hs = r.hooks
  BY <1>1
<1>3. PICK t \in Seq(Hooks) : t = Tail(hs)
  <2>1. hs # <<>>
    BY <1>2
  <2>2. Tail(hs) \in Seq(Hooks)
    BY <2>1
  <2> QED
    BY <2>2
<1>4. p = [r EXCEPT !.hooks = t]
  BY <1>2, <1>3
<1>5. /\ p \in CallStates /\ p.q = r.q /\ p.at = r.at /\ p.text = r.text /\ p.end = r.end /\ p.seen = r.seen
      /\ p.unwatched = r.unwatched /\ p.hooks = t
  BY <1>1, <1>4 DEF CallStates
<1>6. /\ Head(hs) = hs[1] /\ Head(hs) \in Hooks /\ 1 \in DOMAIN hs
      /\ \A i \in DOMAIN t : t[i] = hs[i + 1] /\ i \in Nat /\ i >= 1 /\ i + 1 \in DOMAIN hs
  BY <1>2, <1>3, TailFacts
<1>7. \A i \in DOMAIN hs : i \in Nat /\ i >= 1 /\ (i # 1 => i - 1 \in DOMAIN t)
  BY <1>2, <1>3
<1> QED
  BY <1>2, <1>3, <1>5, <1>6, <1>7

LEMMA Longer ==
    ASSUME NEW S, NEW s \in Seq(S), NEW x \in S
    PROVE  Append(s, x) \in Seq(S) /\ Tail(Append(s, x)) \in Seq(S)
<1>1. Append(s, x) \in Seq(S) /\ Len(Append(s, x)) = Len(s) + 1
  OBVIOUS
<1>0. Len(s) \in Nat
  OBVIOUS
<1>2. PICK u \in Seq(S) : u = Append(s, x) /\ Len(u) = Len(s) + 1
  BY <1>1
<1>3. u # <<>>
  BY <1>0, <1>2
<1>4. Tail(u) \in Seq(S)
  BY <1>3
<1> QED
  BY <1>1, <1>2, <1>4

\* An observation goes into the ring, whatever it pushes out.
LEMMA RingGrows ==
    ASSUME LogsHold, UNCHANGED audited, NEW c, NEW r, r = calls[c], r.q \in Invocations,
           NEW d \in Decisions, Call!Observe(c, d)
    PROVE  LogsHold'
<1>1. PICK o : o = [sig |-> Call!Signature(calls[c].q), decision |-> d]
  OBVIOUS
<1>2. Call!Signature(r.q) \in Sigs
  BY DEF Sigs
<1>3. o \in Observations
  BY <1>1, <1>2 DEF Observations
<1>4. PICK past \in Seq(Observations) : past = ring
  BY DEF LogsHold
<1>5. PICK all \in Seq(Observations) : all = Append(past, o)
  <2>1. Append(past, o) \in Seq(Observations)
    BY <1>3, <1>4, Longer
  <2> QED
    BY <2>1
<1>6. ring' = IF Len(all) > RingCap THEN Tail(all) ELSE all
  BY <1>1, <1>4, <1>5, Zenon DEF Call!Observe
<1>7. Tail(all) \in Seq(Observations)
  BY <1>3, <1>4, <1>5, Longer
<1> QED
  BY <1>5, <1>6, <1>7 DEF LogsHold

LEMMA StartKeeps ==
    ASSUME CallIInv, NEW c \in Callers, NEW q \in Invocations, Call!Start(c, q)
    PROVE  CallIInv'
<1>1. RulesHold /\ LogsHold /\ CallsHold
  BY DEF CallIInv
<1>2. PICK list \in Seq(Hooks) : /\ list = Call!HookList(<<q.surface, "pre">>)
                                 /\ \A i \in DOMAIN list : list[i].kind = <<q.surface, "pre">>
  BY HookListFacts
<1>3. PICK step : step = [q |-> q, at |-> "pre", hooks |-> list, text |-> None,
                          end |-> None, seen |-> 0, unwatched |-> ~Call!Recording]
  OBVIOUS
<1>4. /\ Call!Goes(c, step) /\ UNCHANGED <<mode, rules, cFile, ring, audited>>
  BY <1>2, <1>3, Zenon DEF Call!Start
<1>5. /\ step.q = q /\ step.at = "pre" /\ step.hooks = list /\ step.text = None /\ step.end = None /\ step.seen = 0
      /\ step.unwatched = (~Call!Recording)
  BY <1>3
<1>6. step \in CallStates
  BY <1>2, <1>3 DEF CallStates, Call!Recording, Texts
<1>7. Recorded(step)
  BY <1>5 DEF Recorded
<1>8. RawTold(step)
  BY <1>5, InspectionAssumption DEF RawTold
<1>9. mode = "off" => step.unwatched
  BY <1>5 DEF Call!Recording
<1>10. CallHolds(step)
  BY <1>2, <1>5, <1>6, <1>7, <1>8, <1>9 DEF CallHolds
<1>11. AuditGrows /\ UNCHANGED mode
  BY <1>4 DEF AuditGrows
<1>12. CallsHold'
  BY <1>1, <1>4, <1>10, <1>11, CallStands, OnlyCall
<1> QED
  BY <1>1, <1>4, <1>12 DEF CallIInv, RulesHold, LogsHold

\* A call that runs, and what it has left.
LEMMA RunningFacts ==
    ASSUME CallsHold, NEW c \in Callers, Call!Running(c)
    PROVE  \E r : r = calls[c] /\ CallHolds(r) /\ r.at \in {"pre", "post"} /\ r.q \in Invocations /\ r.hooks \in Seq(Hooks)
<1>1. PICK r : r = calls[c]
  OBVIOUS
<1>2. CallHolds(r) /\ r.at # "ended"
  BY <1>1 DEF CallsHold, Call!Running
<1> QED
  BY <1>1, <1>2 DEF CallHolds, CallStates

\* A call ends: what holds of an ended one is about how often it was observed.
Closed(r, e, n)  == [r EXCEPT !.at = "ended", !.end = e, !.seen = n]
MayEnd(r, e, n) ==
    r.q.surface = "tool" => n <= 1 /\ (e = "blocked" \/ (e = "answered" /\ ~r.unwatched) => n = 1)

LEMMA EndFacts ==
    ASSUME NEW r, CallHolds(r), NEW e \in Ends, NEW n \in Nat, MayEnd(r, e, n)
    PROVE  CallHolds(Closed(r, e, n))
<1> DEFINE p == Closed(r, e, n)
<1>1. r \in CallStates
  BY DEF CallHolds
<1>2. /\ p \in CallStates /\ p.q = r.q /\ p.at = "ended" /\ p.text = r.text /\ p.end = e /\ p.seen = n
      /\ p.unwatched = r.unwatched
  BY <1>1 DEF CallStates, Closed
<1> HIDE DEF p
<1>3. Recorded(p)
  BY <1>2 DEF Recorded, MayEnd
<1>4. RawTold(p)
  BY <1>2 DEF CallHolds, RawTold
<1>5. CallHolds(p)
  BY <1>2, <1>3, <1>4 DEF CallHolds
<1> QED
  BY <1>5 DEF p

\* A hook that does not record is done with, and the call goes on.
LEMMA PastHolds ==
    ASSUME NEW r, CallHolds(r), r.at \in {"pre", "post"}, r.hooks # <<>>, Head(r.hooks).does # "record",
           NEW p, p = [r EXCEPT !.hooks = Tail(r.hooks)]
    PROVE  CallHolds(p)
<1>1. /\ p \in CallStates /\ p.q = r.q /\ p.at = r.at /\ p.text = r.text /\ p.end = r.end /\ p.seen = r.seen
      /\ p.unwatched = r.unwatched
      /\ r.hooks \in Seq(Hooks) /\ Head(r.hooks) = r.hooks[1] /\ Head(r.hooks) \in Hooks /\ 1 \in DOMAIN r.hooks
  BY PastFacts
<1>2. \A i \in DOMAIN p.hooks : i \in Nat /\ i >= 1 /\ i + 1 \in DOMAIN r.hooks /\ p.hooks[i] = r.hooks[i + 1]
  BY PastFacts
<1>3. \A i \in DOMAIN r.hooks : i \in Nat /\ i >= 1 /\ (i # 1 => i - 1 \in DOMAIN p.hooks)
  BY PastFacts
<1>4. RawTold(p)
  BY <1>1 DEF CallHolds, RawTold
<1>5. \A i \in DOMAIN p.hooks : p.hooks[i].kind = <<r.q.surface, r.at>>
  BY <1>1, <1>2 DEF CallHolds
<1>6. Recorded(p)
  <2> SUFFICES ASSUME r.q.surface = "tool"
               PROVE  Recorded(p)
    BY <1>1 DEF Recorded
  <2>1. CASE r.at = "pre"
    BY <1>1, <2>1 DEF CallHolds, Recorded
  <2>2. ASSUME r.at = "post", r.seen = 0, NEW i \in DOMAIN r.hooks, r.hooks[i].does = "record",
               \A j \in DOMAIN r.hooks : r.hooks[j].does = "record" => j = i
        PROVE  Recorded(p)
    <3>1. i # 1 /\ i \in Nat
      BY <1>1, <1>3, <2>2
    <3>2. PICK k \in DOMAIN p.hooks : k = i - 1
      BY <1>3, <3>1
    <3>3. k + 1 = i /\ p.hooks[k].does = "record"
      BY <1>2, <2>2, <3>1, <3>2
    <3>4. ASSUME NEW j \in DOMAIN p.hooks, p.hooks[j].does = "record"
          PROVE  j = k
      <4>1. j + 1 = i /\ j \in Nat
        BY <1>2, <2>2, <3>4
      <4> QED
        BY <3>1, <3>2, <4>1
    <3> QED
      BY <1>1, <2>2, <3>3, <3>4 DEF Recorded
  <2>3. ASSUME r.at = "post", Silent(r.hooks), r.seen = 1 \/ (r.seen = 0 /\ r.unwatched)
        PROVE  Recorded(p)
    <3>1. Silent(p.hooks)
      BY <1>2, <2>3 DEF Silent
    <3> QED
      BY <1>1, <2>3, <3>1 DEF Recorded
  <2> QED
    BY <2>1, <2>2, <2>3 DEF CallHolds, Recorded
<1>7. mode = "off" => p.unwatched
  BY <1>1 DEF CallHolds
<1> QED
  BY <1>1, <1>4, <1>5, <1>6, <1>7 DEF CallHolds

LEMMA ClosedFacts ==
    ASSUME NEW r \in CallStates, NEW e
    PROVE  /\ [r EXCEPT !.at = "ended", !.end = e] = Closed(r, e, r.seen)
           /\ [[r EXCEPT !.at = "ended", !.end = e] EXCEPT !.seen = @ + 1] = Closed(r, e, r.seen + 1)
<1>1. PICK p : p = [r EXCEPT !.at = "ended", !.end = e]
  OBVIOUS
<1>2. p.seen = r.seen
  BY <1>1 DEF CallStates
<1>3. [p EXCEPT !.seen = r.seen + 1] = Closed(r, e, r.seen + 1)
  BY <1>1 DEF CallStates, Closed
<1>4. p = Closed(r, e, r.seen)
  BY <1>1 DEF CallStates, Closed
<1> QED
  BY <1>1, <1>2, <1>3, <1>4

LEMMA EnforceKeeps ==
    ASSUME CallIInv, NEW c \in Callers, Call!Enforce(c)
    PROVE  CallIInv'
<1>1. RulesHold /\ LogsHold /\ CallsHold /\ Call!Running(c) /\ UNCHANGED <<mode, rules, cFile, audited>>
  BY DEF CallIInv, Call!Enforce
<1>2. PICK r : /\ r = calls[c] /\ CallHolds(r) /\ r.at \in {"pre", "post"} /\ r.q \in Invocations
               /\ r.hooks \in Seq(Hooks)
  BY <1>1, RunningFacts
<1>3. r.hooks # <<>> /\ Head(r.hooks).does = "enforce"
  BY <1>2 DEF Call!Enforce
<1>4. PICK p : p = [r EXCEPT !.hooks = Tail(r.hooks)]
  OBVIOUS
<1>5. r.q.surface = "tool" /\ r.at = "pre" /\ r.seen = 0
  <2>1. Head(r.hooks) = r.hooks[1] /\ Head(r.hooks) \in Hooks /\ 1 \in DOMAIN r.hooks
    BY <1>2, <1>3, <1>4, PastFacts
  <2>2. r.hooks[1].kind = <<r.q.surface, r.at>> /\ r.hooks[1].kind = <<"tool", "pre">>
    BY <1>2, <1>3, <2>1, HookKinds DEF CallHolds
  <2>3. r.q.surface = "tool" /\ r.at = "pre"
    BY <2>2
  <2> QED
    BY <1>2, <2>3 DEF CallHolds, Recorded
<1>6. AuditGrows
  BY <1>1 DEF AuditGrows
<1>7. CASE mode = "enforce" /\ Entitled /\ Call!Evaluate(Call!Signature(calls[c].q), rules) # "allow"
  <2>1. Call!Observe(c, "blocked") /\ Call!Goes(c, [Call!Ended(c, "blocked") EXCEPT !.seen = @ + 1])
    BY <1>7, Zenon DEF Call!Enforce
  <2>2. PICK step : step = Closed(r, "blocked", 1)
    OBVIOUS
  <2>3. [Call!Ended(c, "blocked") EXCEPT !.seen = @ + 1] = step
    <3>1. r \in CallStates /\ r.seen + 1 = 1
      BY <1>2, <1>5 DEF CallHolds
    <3>2. [Call!Ended(c, "blocked") EXCEPT !.seen = @ + 1] = Closed(r, "blocked", r.seen + 1)
      BY <1>2, <3>1, ClosedFacts DEF Call!Ended
    <3> QED
      BY <2>2, <3>1, <3>2
  <2>4. CallHolds(step)
    <3>1. MayEnd(r, "blocked", 1) /\ "blocked" \in Ends
      BY DEF MayEnd, Ends
    <3> QED
      BY <1>2, <2>2, <3>1, EndFacts
  <2>5. CallsHold'
    BY <1>1, <1>6, <2>1, <2>3, <2>4, CallStands, OnlyCall
  <2>6. LogsHold'
    BY <1>1, <1>2, <2>1, RingGrows DEF Decisions
  <2> QED
    BY <1>1, <2>5, <2>6 DEF CallIInv, RulesHold
<1>8. CASE ~(mode = "enforce" /\ Entitled /\ Call!Evaluate(Call!Signature(calls[c].q), rules) # "allow")
  <2>1. Call!Goes(c, Call!Past(c)) /\ UNCHANGED ring
    BY <1>8, Zenon DEF Call!Enforce
  <2>2. Call!Past(c) = p
    BY <1>2, <1>4 DEF Call!Past
  <2>3. CallHolds(p)
    BY <1>2, <1>3, <1>4, PastHolds
  <2>4. CallsHold'
    BY <1>1, <1>6, <2>1, <2>2, <2>3, CallStands, OnlyCall
  <2> QED
    BY <1>1, <2>1, <2>4 DEF CallIInv, RulesHold, LogsHold
<1> QED
  BY <1>7, <1>8

\* A call that is refused, that threw or that is answered with no hook left.
LEMMA EndedHolds ==
    ASSUME NEW c \in Callers, NEW r, r = calls[c], CallHolds(r), r.at \in {"pre", "post"}, NEW e \in {"denied", "threw", "answered"},
           e = "answered" => r.at = "post" /\ r.hooks = <<>>
    PROVE  CallHolds(Call!Ended(c, e))
<1>1. r \in CallStates /\ r.seen \in Nat /\ e \in Ends
  BY DEF CallHolds, CallStates, Ends
<1>2. Call!Ended(c, e) = Closed(r, e, r.seen)
  BY <1>1, ClosedFacts DEF Call!Ended
<1>3. MayEnd(r, e, r.seen)
  <2> SUFFICES ASSUME r.q.surface = "tool"
               PROVE  r.seen <= 1 /\ (e = "answered" /\ ~r.unwatched => r.seen = 1)
    BY DEF MayEnd
  <2>1. r.seen <= 1
    BY DEF CallHolds, Recorded
  <2>2. ASSUME e = "answered", ~r.unwatched
        PROVE  r.seen = 1
    <3>1. r.at = "post" /\ r.hooks = <<>>
      BY <2>2
    <3>2. DOMAIN r.hooks = {}
      BY <3>1
    <3> QED
      BY <2>2, <3>1, <3>2 DEF CallHolds, Recorded
  <2> QED
    BY <2>1, <2>2
<1> QED
  BY <1>1, <1>2, <1>3, EndFacts

\* The recorder is done with: it has seen the call, unless the inspector is off.
LEMMA SeenHolds ==
    ASSUME NEW r, CallHolds(r), r.at \in {"pre", "post"}, r.hooks # <<>>, Head(r.hooks).does = "record",
           NEW p, p = [r EXCEPT !.hooks = Tail(r.hooks)], NEW n \in {0, 1}, n = 1 \/ r.unwatched
    PROVE  r.seen = 0 /\ CallHolds([p EXCEPT !.seen = n])
<1>1. /\ p \in CallStates /\ p.q = r.q /\ p.at = r.at /\ p.text = r.text /\ p.end = r.end /\ p.seen = r.seen
      /\ p.unwatched = r.unwatched
      /\ r.hooks \in Seq(Hooks) /\ Head(r.hooks) = r.hooks[1] /\ Head(r.hooks) \in Hooks /\ 1 \in DOMAIN r.hooks
  BY PastFacts
<1>2. \A i \in DOMAIN p.hooks : i \in Nat /\ i >= 1 /\ i + 1 \in DOMAIN r.hooks /\ p.hooks[i] = r.hooks[i + 1]
  BY PastFacts
<1>3. PICK step : step = [p EXCEPT !.seen = n]
  OBVIOUS
<1>4. /\ step \in CallStates /\ step.q = r.q /\ step.at = r.at /\ step.hooks = p.hooks /\ step.text = r.text
      /\ step.end = r.end /\ step.seen = n /\ step.unwatched = r.unwatched
  <2>1. n \in Nat
    OBVIOUS
  <2>2. step \in CallStates
    BY <1>1, <1>3, <2>1, Zenon DEF CallStates
  <2>3. /\ step.q = p.q /\ step.at = p.at /\ step.hooks = p.hooks /\ step.text = p.text
        /\ step.end = p.end /\ step.seen = n /\ step.unwatched = p.unwatched
    BY <1>1, <1>3, Zenon DEF CallStates
  <2> QED
    BY <1>1, <2>2, <2>3
<1>5. r.q.surface = "tool" /\ r.at = "post"
  <2>1. r.hooks[1].kind = <<r.q.surface, r.at>> /\ r.hooks[1].kind = <<"tool", "post">>
    BY <1>1, HookKinds DEF CallHolds
  <2> QED
    BY <2>1
<1>6. r.seen = 0 /\ \A j \in DOMAIN r.hooks : r.hooks[j].does = "record" => j = 1
  <2>1. ~Silent(r.hooks)
    BY <1>1 DEF Silent
  <2> QED
    BY <1>1, <1>5, <2>1 DEF CallHolds, Recorded
<1>7. Silent(p.hooks)
  <2>1. ASSUME NEW j \in DOMAIN p.hooks, p.hooks[j].does = "record"
        PROVE  FALSE
    <3>1. j + 1 = 1 /\ j \in Nat /\ j >= 1
      BY <1>2, <1>6, <2>1
    <3> QED
      BY <3>1
  <2> QED
    BY <2>1 DEF Silent
<1>8. Recorded(step)
  BY <1>4, <1>5, <1>7 DEF Recorded
<1>9. RawTold(step)
  BY <1>4 DEF CallHolds, RawTold
<1>10. \A i \in DOMAIN step.hooks : step.hooks[i].kind = <<r.q.surface, r.at>>
  BY <1>1, <1>2, <1>4 DEF CallHolds
<1>11. mode = "off" => step.unwatched
  BY <1>1, <1>4 DEF CallHolds
<1>12. CallHolds(step)
  BY <1>4, <1>8, <1>9, <1>10, <1>11 DEF CallHolds
<1> QED
  BY <1>3, <1>6, <1>12

LEMMA RecordKeeps ==
    ASSUME CallIInv, NEW c \in Callers, Call!Record(c)
    PROVE  CallIInv'
<1>1. RulesHold /\ LogsHold /\ CallsHold /\ Call!Running(c) /\ UNCHANGED <<mode, rules, cFile, audited>>
  BY DEF CallIInv, Call!Record
<1>2. PICK r : /\ r = calls[c] /\ CallHolds(r) /\ r.at \in {"pre", "post"} /\ r.q \in Invocations
               /\ r.hooks \in Seq(Hooks)
  BY <1>1, RunningFacts
<1>3. r.hooks # <<>> /\ Head(r.hooks).does = "record"
  BY <1>2 DEF Call!Record
<1>4. PICK p : p = [r EXCEPT !.hooks = Tail(r.hooks)]
  OBVIOUS
<1>5. p = Call!Past(c) /\ p \in CallStates /\ p.seen = r.seen
  BY <1>2, <1>3, <1>4, PastFacts DEF Call!Past
<1>6. AuditGrows
  BY <1>1 DEF AuditGrows
<1>7. CASE Call!Recording
  <2>1. PICK d : d = IF mode # "observe" /\ Call!Evaluate(Call!Signature(calls[c].q), rules) # "allow"
                     THEN "would-block" ELSE "allow"
    OBVIOUS
  <2>2. d \in Decisions
    BY <2>1, Zenon DEF Decisions
  <2>3. Call!Observe(c, d) /\ Call!Goes(c, [Call!Past(c) EXCEPT !.seen = @ + 1])
    BY <1>7, <2>1, Zenon DEF Call!Record
  <2>4. r.seen = 0 /\ CallHolds([p EXCEPT !.seen = 1])
    BY <1>2, <1>3, <1>4, SeenHolds
  <2>5. [Call!Past(c) EXCEPT !.seen = @ + 1] = [p EXCEPT !.seen = 1]
    BY <1>5, <2>4
  <2>6. CallsHold'
    BY <1>1, <1>6, <2>3, <2>4, <2>5, CallStands, OnlyCall
  <2>7. LogsHold'
    BY <1>1, <1>2, <2>2, <2>3, RingGrows
  <2> QED
    BY <1>1, <2>6, <2>7 DEF CallIInv, RulesHold
<1>8. CASE ~Call!Recording
  <2>1. Call!Goes(c, Call!Past(c)) /\ UNCHANGED ring
    BY <1>8, Zenon DEF Call!Record
  <2>2. r.unwatched
    BY <1>2, <1>8 DEF CallHolds, Call!Recording
  <2>3. r.seen = 0 /\ CallHolds([p EXCEPT !.seen = 0])
    BY <1>2, <1>3, <1>4, <2>2, SeenHolds
  <2>4. [p EXCEPT !.seen = 0] = Call!Past(c)
    BY <1>5, <2>3 DEF CallStates
  <2>5. CallsHold'
    BY <1>1, <1>6, <2>1, <2>3, <2>4, CallStands, OnlyCall
  <2> QED
    BY <1>1, <2>1, <2>5 DEF CallIInv, RulesHold, LogsHold
<1> QED
  BY <1>7, <1>8

LEMMA FireKeeps ==
    ASSUME CallIInv, NEW c \in Callers, Call!Fire(c)
    PROVE  CallIInv'
<1>1. RulesHold /\ LogsHold /\ CallsHold /\ Call!Running(c) /\ UNCHANGED <<mode, rules, cFile, ring, audited>>
  BY DEF CallIInv, Call!Fire
<1>2. PICK r : /\ r = calls[c] /\ CallHolds(r) /\ r.at \in {"pre", "post"} /\ r.q \in Invocations
               /\ r.hooks \in Seq(Hooks)
  BY <1>1, RunningFacts
<1>3. r.hooks # <<>> /\ Head(r.hooks).does \in {"allow", "deny", "throw"}
  BY <1>2 DEF Call!Fire
<1>4. Call!Goes(c, Call!Ended(c, "denied")) \/ Call!Goes(c, Call!Past(c))
  BY DEF Call!Fire
<1>5. AuditGrows
  BY <1>1 DEF AuditGrows
<1>6. CallHolds(Call!Past(c))
  <2>1. PICK p : p = [r EXCEPT !.hooks = Tail(r.hooks)]
    OBVIOUS
  <2>2. CallHolds(p)
    BY <1>2, <1>3, <2>1, PastHolds
  <2>3. Call!Past(c) = p
    BY <1>2, <2>1 DEF Call!Past
  <2> QED
    BY <2>2, <2>3
<1>7. CallHolds(Call!Ended(c, "denied"))
  BY <1>2, EndedHolds
<1>8. CallsHold'
  BY <1>1, <1>4, <1>5, <1>6, <1>7, CallStands, OnlyCall
<1> QED
  BY <1>1, <1>8 DEF CallIInv, RulesHold, LogsHold

\* What the handler of query_logs leaves in the audit log.
LEMMA AuditFacts ==
    ASSUME LogsHold, NEW q \in Invocations, Call!Audit(q)
    PROVE  /\ AuditGrows /\ audited' \in Seq(AuditEntries)
           /\ q.tool \in Call!Redacting /\ q.bypass /\ q.cred.bypass =>
                \E k \in DOMAIN audited' : audited'[k].actor = q.cred.name /\ audited'[k].status = 200
<1>1. PICK past \in Seq(AuditEntries) : past = audited
  BY DEF LogsHold
<1>2. CASE q.tool \in Call!Redacting /\ q.bypass
  <2>1. PICK s : s = IF q.cred.bypass THEN 200 ELSE 403
    OBVIOUS
  <2>2. s \in {200, 403} /\ (q.cred.bypass => s = 200)
    BY <2>1, Zenon
  <2>3. PICK e : e = [actor |-> q.cred.name, status |-> s]
    OBVIOUS
  <2>4. e \in AuditEntries /\ e.actor = q.cred.name /\ e.status = s
    BY <2>2, <2>3 DEF AuditEntries
  <2>5. audited' = Append(past, e)
    BY <1>1, <1>2, <2>1, <2>3, Zenon DEF Call!Audit
  <2>6. Append(past, e) = past \o <<e>> /\ <<e>> \in Seq(AuditEntries)
    BY <2>4
  <2>7. /\ Append(past, e) \in Seq(AuditEntries)
        /\ \A i \in DOMAIN past : i \in DOMAIN Append(past, e) /\ Append(past, e)[i] = past[i]
        /\ Len(past) + 1 \in DOMAIN Append(past, e) /\ Append(past, e)[Len(past) + 1] = e
    BY <2>4
  <2>8. AuditGrows
    BY <1>1, <2>5, <2>7 DEF AuditGrows
  <2> QED
    BY <2>2, <2>4, <2>5, <2>7, <2>8
<1>3. CASE ~(q.tool \in Call!Redacting /\ q.bypass)
  <2>1. audited' = audited
    BY <1>3, Zenon DEF Call!Audit
  <2> QED
    BY <1>1, <1>3, <2>1 DEF AuditGrows
<1> QED
  BY <1>2, <1>3

LEMMA TextFacts ==
    ASSUME NEW q, NEW over, NEW t, t = Call!Charge(q, Call!Text(q), over)
    PROVE  t \in Texts /\ (t = "raw" /\ Redaction /\ q.tool \in Call!Redacting => q.bypass /\ q.cred.bypass)
<1>1. PICK u : u = Call!Text(q)
  OBVIOUS
<1>2. u \in {"redacted", "raw"} /\ (u = "raw" /\ Redaction /\ q.tool \in Call!Redacting => q.bypass /\ q.cred.bypass)
  BY <1>1, Zenon DEF Call!Text
<1>3. t = "over budget" \/ t = u
  BY <1>1, Zenon DEF Call!Charge
<1>4. "over budget" # "raw" /\ "over budget" \in Texts
  BY Zenon DEF Texts
<1>5. u \in Texts
  BY <1>2, Zenon DEF Texts
<1> QED
  BY <1>2, <1>3, <1>4, <1>5, Zenon

LEMMA HandleKeeps ==
    ASSUME CallIInv, NEW c \in Callers, NEW over, Call!Handle(c, over)
    PROVE  CallIInv'
<1>1. RulesHold /\ LogsHold /\ CallsHold /\ Call!Running(c) /\ UNCHANGED <<mode, rules, cFile, ring>>
  BY DEF CallIInv, Call!Handle
<1>2. PICK r : /\ r = calls[c] /\ CallHolds(r) /\ r.at \in {"pre", "post"} /\ r.q \in Invocations
               /\ r.hooks \in Seq(Hooks)
  BY <1>1, RunningFacts
<1>3. r.at = "pre"
  BY <1>2 DEF Call!Handle
<1>4. PICK list \in Seq(Hooks) :
         /\ list = Call!HookList(<<r.q.surface, "post">>)
         /\ \A i \in DOMAIN list : list[i].kind = <<r.q.surface, "post">>
         /\ <<r.q.surface, "post">> = <<"tool", "post">> =>
              \E i \in DOMAIN list : list[i].does = "record" /\ \A j \in DOMAIN list : list[j].does = "record" => j = i
  BY HookListFacts
<1>5. PICK t : t = Call!Charge(r.q, Call!Text(r.q), over)
  OBVIOUS
<1>6. PICK step : step = [r EXCEPT !.at = "post", !.hooks = list, !.text = t]
  OBVIOUS
<1>7. Call!Goes(c, step) /\ Call!Audit(r.q)
  BY <1>2, <1>4, <1>5, <1>6, Zenon DEF Call!Handle
<1>8. t \in Texts /\ (t = "raw" /\ Redaction /\ r.q.tool \in Call!Redacting => r.q.bypass /\ r.q.cred.bypass)
  BY <1>5, TextFacts
<1>9. /\ step \in CallStates /\ step.q = r.q /\ step.at = "post" /\ step.hooks = list /\ step.text = t
      /\ step.seen = r.seen /\ step.unwatched = r.unwatched
  <2>1. r \in CallStates
    BY <1>2 DEF CallHolds
  <2> QED
    BY <1>4, <1>6, <1>8, <2>1 DEF CallStates
<1>10. Recorded(step)
  <2> SUFFICES ASSUME r.q.surface = "tool"
               PROVE  Recorded(step)
    BY <1>9 DEF Recorded
  <2>1. r.seen = 0
    BY <1>2, <1>3 DEF CallHolds, Recorded
  <2>2. \E i \in DOMAIN list : list[i].does = "record" /\ \A j \in DOMAIN list : list[j].does = "record" => j = i
    BY <1>4
  <2> QED
    BY <1>9, <2>1, <2>2 DEF Recorded
<1>11. /\ AuditGrows /\ audited' \in Seq(AuditEntries)
       /\ r.q.tool \in Call!Redacting /\ r.q.bypass /\ r.q.cred.bypass =>
            \E k \in DOMAIN audited' : audited'[k].actor = r.q.cred.name /\ audited'[k].status = 200
  BY <1>1, <1>2, <1>7, AuditFacts
<1>12. RawTold(step)'
  BY <1>8, <1>9, <1>11 DEF RawTold
<1>13. \A i \in DOMAIN step.hooks : step.hooks[i].kind = <<r.q.surface, "post">>
  BY <1>4, <1>9
<1>14. mode = "off" => step.unwatched
  BY <1>2, <1>9 DEF CallHolds
<1>15. CallHolds(step)'
  BY <1>1, <1>9, <1>10, <1>12, <1>13, <1>14 DEF CallHolds
<1>16. CallsHold'
  BY <1>1, <1>7, <1>11, <1>15, OnlyCall
<1> QED
  BY <1>1, <1>11, <1>16 DEF CallIInv, RulesHold, LogsHold

LEMMA ThrowsOrAnswerKeeps ==
    ASSUME CallIInv, NEW c \in Callers, Call!Throws(c) \/ Call!Answer(c)
    PROVE  CallIInv'
<1>1. /\ RulesHold /\ LogsHold /\ CallsHold /\ Call!Running(c) /\ UNCHANGED <<mode, rules, cFile, ring, audited>>
      /\ calls[c].hooks = <<>>
  BY DEF CallIInv, Call!Throws, Call!Answer
<1>2. PICK r : /\ r = calls[c] /\ CallHolds(r) /\ r.at \in {"pre", "post"} /\ r.q \in Invocations
               /\ r.hooks \in Seq(Hooks)
  BY <1>1, RunningFacts
<1>3. \/ Call!Goes(c, Call!Ended(c, "threw"))
      \/ r.at = "post" /\ Call!Goes(c, Call!Ended(c, "answered"))
  BY <1>2 DEF Call!Throws, Call!Answer
<1>4. PICK e \in {"threw", "answered"} : Call!Goes(c, Call!Ended(c, e)) /\ (e = "answered" => r.at = "post")
  BY <1>3
<1>5. CallHolds(Call!Ended(c, e))
  BY <1>1, <1>2, <1>4, EndedHolds
<1>6. AuditGrows
  BY <1>1 DEF AuditGrows
<1>7. CallsHold'
  BY <1>1, <1>4, <1>5, <1>6, CallStands, OnlyCall
<1> QED
  BY <1>1, <1>7 DEF CallIInv, RulesHold, LogsHold

\* A review of the profile: what is written, in memory and perhaps to the file, are good rules.
LEMMA PersistKeeps ==
    ASSUME CallIInv, NEW rs \in Seq(GoodRules), Call!Persist(rs)
    PROVE  CallIInv'
<1>1. RulesHold /\ LogsHold /\ CallsHold
  BY DEF CallIInv
<1>2. rules' = rs /\ (cFile' = rs \/ cFile' = cFile) /\ UNCHANGED <<mode, ring, calls, audited>>
  BY DEF Call!Persist
<1>3. CallsHold'
  BY <1>1, <1>2, CallsStand
<1>4. RulesHold'
  BY <1>1, <1>2 DEF RulesHold
<1> QED
  BY <1>1, <1>2, <1>3, <1>4 DEF CallIInv, LogsHold

LEMMA DeriveKeeps == CallIInv /\ Call!Derive => CallIInv'
<1> SUFFICES ASSUME CallIInv, Call!Derive
             PROVE  CallIInv'
  OBVIOUS
<1>1. RulesHold /\ LogsHold
  BY DEF CallIInv
<1>2. PICK seen \in Seq(Observations) : seen = ring
  BY <1>1 DEF LogsHold
<1>3. PICK rs \in Seq(GoodRules) : rs = rules
  BY <1>1 DEF RulesHold
<1>4. PICK k \in DOMAIN seen : Call!Persist(Call!DeriveProfile(rs, {seen[i].sig : i \in k .. Len(seen)}))
  BY <1>2, <1>3, Zenon DEF Call!Derive
<1>5. PICK observed : observed = {seen[i].sig : i \in k .. Len(seen)}
  OBVIOUS
<1>6. observed \in SUBSET Sigs
  <2>1. \A o \in Observations : o.sig \in Sigs
    BY DEF Observations
  <2>2. \A i \in k .. Len(seen) : seen[i] \in Observations
    OBVIOUS
  <2> QED
    BY <1>5, <2>1, <2>2
<1>7. IsFiniteSet(observed)
  <2>1. PICK f : f = [i \in k .. Len(seen) |-> seen[i].sig]
    OBVIOUS
  <2>2. f \in Surjection(k .. Len(seen), observed)
    BY <1>5, <2>1 DEF Surjection
  <2>3. k \in Int /\ Len(seen) \in Int
    OBVIOUS
  <2>4. IsFiniteSet(k .. Len(seen))
    BY <2>3, FS_Interval
  <2> QED
    BY <2>2, <2>4, FS_Surjection
<1>8. Call!DeriveProfile(rs, observed) \in Seq(GoodRules)
  BY <1>6, <1>7, DeriveHolds
<1> QED
  BY <1>4, <1>5, <1>8, PersistKeeps

LEMMA ReviewKeeps ==
    ASSUME CallIInv,
           \/ \E i \in DOMAIN rules : \/ Call!Discard(i) \/ (\E subject \in {"*", "else"} : Call!Rename(i, subject))
                                      \/ \E st \in {"accepted", "rejected"} : Call!SetStatus(i, st)
           \/ \E k \in DOMAIN ring : Call!Absorb(k)
    PROVE  CallIInv'
<1>1. RulesHold /\ LogsHold
  BY DEF CallIInv
<1>2. PICK rs \in Seq(GoodRules) : rs = rules
  BY <1>1 DEF RulesHold
<1>3. ASSUME NEW i \in DOMAIN rs, Call!Discard(i)
      PROVE  CallIInv'
  <2>1. Call!RemoveAt(rs, i) \in Seq(GoodRules)
    BY DecideRule DEF Statuses
  <2> QED
    BY <1>2, <1>3, <2>1, PersistKeeps DEF Call!Discard
<1>4. ASSUME NEW i \in DOMAIN rs, NEW subject \in {"*", "else"}, Call!Rename(i, subject)
      PROVE  CallIInv'
  <2>1. [rs EXCEPT ![i].subject = subject] \in Seq(GoodRules)
    BY DecideRule DEF Statuses
  <2> QED
    BY <1>2, <1>4, <2>1, PersistKeeps DEF Call!Rename
<1>5. ASSUME NEW i \in DOMAIN rs, NEW st \in {"accepted", "rejected"}, Call!SetStatus(i, st)
      PROVE  CallIInv'
  <2>1. [rs EXCEPT ![i].status = st] \in Seq(GoodRules)
    BY DecideRule DEF Statuses
  <2> QED
    BY <1>2, <1>5, <2>1, PersistKeeps DEF Call!SetStatus
<1>6. ASSUME NEW k \in DOMAIN ring, Call!Absorb(k)
      PROVE  CallIInv'
  <2>1. ring[k].sig \in Sigs
    <3>1. ring[k] \in Observations
      BY <1>1 DEF LogsHold
    <3>2. \A o \in Observations : o.sig \in Sigs
      BY DEF Observations
    <3> QED
      BY <3>1, <3>2
  <2>2. Call!AbsorbInto(rs, ring[k].sig) \in Seq(GoodRules)
    BY <2>1, AbsorbHolds
  <2> QED
    BY <1>2, <1>6, <2>2, PersistKeeps DEF Call!Absorb
<1> QED
  BY <1>2, <1>3, <1>4, <1>5, <1>6

\* The mode changes under the calls that run: what is switched off has not watched them.
LEMMA SetModeKeeps ==
    ASSUME CallIInv, NEW m, Call!SetMode(m)
    PROVE  CallIInv'
<1>1. RulesHold /\ LogsHold /\ CallsHold
  BY DEF CallIInv
<1>2. /\ mode' = m /\ UNCHANGED <<rules, cFile, ring, audited>>
      /\ calls' = [c \in Callers |-> IF m = "off" /\ Call!Running(c) THEN [calls[c] EXCEPT !.unwatched = TRUE] ELSE calls[c]]
  BY DEF Call!SetMode
<1>3. ASSUME NEW c \in Callers, calls'[c] # None
      PROVE  \E r : r = calls'[c] /\ CallHolds(r)'
  <2>1. CASE m = "off" /\ Call!Running(c)
    <3>1. PICK r : r = calls[c] /\ CallHolds(r)
      BY <1>1, <2>1, RunningFacts
    <3>2. PICK step : step = [r EXCEPT !.unwatched = TRUE]
      OBVIOUS
    <3>3. calls'[c] = step
      BY <1>2, <2>1, <3>1, <3>2
    <3>4. /\ step \in CallStates /\ step.q = r.q /\ step.at = r.at /\ step.hooks = r.hooks /\ step.text = r.text
          /\ step.end = r.end /\ step.seen = r.seen /\ step.unwatched = TRUE
      <4>1. r \in CallStates
        BY <3>1 DEF CallHolds
      <4> QED
        BY <3>2, <4>1 DEF CallStates
    <3>5. r.at # "ended"
      BY <2>1, <3>1 DEF Call!Running
    <3>6. Recorded(step)
      BY <3>1, <3>4, <3>5 DEF CallHolds, Recorded
    <3>7. RawTold(step)'
      BY <1>2, <3>1, <3>4 DEF CallHolds, RawTold
    <3>8. CallHolds(step)'
      BY <3>1, <3>4, <3>6, <3>7 DEF CallHolds
    <3> QED
      BY <3>3, <3>8
  <2>2. CASE ~(m = "off" /\ Call!Running(c))
    <3>1. calls'[c] = calls[c]
      BY <1>2, <2>2, Zenon
    <3>2. PICK r : r = calls[c] /\ r = calls'[c] /\ CallHolds(r)
      BY <1>1, <1>3, <3>1 DEF CallsHold
    <3>3. mode' = "off" => r.at = "ended"
      BY <1>2, <1>3, <2>2, <3>2 DEF Call!Running
    <3>4. RawTold(r)'
      BY <1>2, <3>2 DEF CallHolds, RawTold
    <3>5. CallHolds(r)'
      BY <3>2, <3>3, <3>4 DEF CallHolds
    <3> QED
      BY <3>2, <3>5
  <2> QED
    BY <2>1, <2>2
<1>4. calls' = [c \in Callers |-> calls'[c]]
  BY <1>2
<1>5. CallsHold'
  BY <1>3, <1>4 DEF CallsHold
<1> QED
  BY <1>1, <1>2, <1>5 DEF CallIInv, RulesHold, LogsHold

LEMMA RestartKeeps == CallIInv /\ Call!Restart => CallIInv'
<1> SUFFICES ASSUME CallIInv, Call!Restart
             PROVE  CallIInv'
  OBVIOUS
<1>1. RulesHold /\ LogsHold
  BY DEF CallIInv
<1>2. rules' = cFile /\ ring' = <<>> /\ calls' = [c \in Callers |-> None] /\ UNCHANGED <<cFile, audited>>
  BY DEF Call!Restart
<1>3. RulesHold' /\ LogsHold'
  BY <1>1, <1>2 DEF RulesHold, LogsHold
<1>4. CallsHold'
  BY <1>2 DEF CallsHold
<1> QED
  BY <1>3, <1>4 DEF CallIInv

LEMMA CallStep == CallIInv /\ Call!Next => CallIInv'
<1> SUFFICES ASSUME CallIInv, Call!Next
             PROVE  CallIInv'
  OBVIOUS
<1>1. ASSUME NEW c \in Callers, \/ \E q \in Invocations : Call!Start(c, q)
                                \/ Call!Enforce(c) \/ Call!Record(c) \/ Call!Fire(c) \/ Call!Throws(c) \/ Call!Answer(c)
                                \/ \E over \in BOOLEAN : Call!Handle(c, over)
      PROVE  CallIInv'
  BY <1>1, StartKeeps, EnforceKeeps, RecordKeeps, FireKeeps, ThrowsOrAnswerKeeps, HandleKeeps
<1>2. ASSUME NEW m, Call!SetMode(m)
      PROVE  CallIInv'
  BY <1>2, SetModeKeeps
<1>3. CASE Call!Derive \/ Call!Restart
  BY <1>3, DeriveKeeps, RestartKeeps
<1>4. CASE \/ \E i \in DOMAIN rules : \/ Call!Discard(i) \/ (\E subject \in {"*", "else"} : Call!Rename(i, subject))
                                      \/ \E st \in {"accepted", "rejected"} : Call!SetStatus(i, st)
           \/ \E k \in DOMAIN ring : Call!Absorb(k)
  BY <1>4, ReviewKeeps
<1> QED
  BY <1>1, <1>2, <1>3, <1>4, Zenon DEF Call!Next

\* What the inspector learned passes; a call is observed once, whoever blocks, throws or switches
\* the mode between its hooks; and raw log text leaves only to whom it may, and on record.
THEOREM InspectionStaysTrue == Joint => []InspectionHolds
<1>1. JointInit => CallIInv
  BY CallInit DEF JointInit
<1>2. ASSUME CallIInv, UNCHANGED call
      PROVE  CallIInv'
  <2>1. RulesHold /\ LogsHold /\ CallsHold /\ UNCHANGED <<mode, rules, cFile, ring, calls, audited>>
    BY <1>2 DEF CallIInv, call
  <2>2. CallsHold'
    BY <2>1, CallsStand
  <2> QED
    BY <2>1, <2>2 DEF CallIInv, RulesHold, LogsHold
<1>3. CallIInv /\ [JointNext]_JointVars => CallIInv'
  BY <1>2, CallStep DEF JointNext, JointVars
<1>4. CallIInv => InspectionHolds
  <2> SUFFICES ASSUME CallIInv
               PROVE  InspectionHolds
    OBVIOUS
  <2>1. RulesHold /\ CallsHold
    BY DEF CallIInv
  <2>2. Call!LearnedPasses
    BY <2>1, LearnedPass DEF RulesHold
  <2>3. Call!OneObservation
    <3>1. ASSUME NEW c \in Callers, calls[c] # None, calls[c].at = "ended", calls[c].q.surface = "tool"
          PROVE  /\ calls[c].seen <= 1
                 /\ calls[c].end = "blocked" \/ (calls[c].end = "answered" /\ ~calls[c].unwatched) => calls[c].seen = 1
      <4>1. PICK r : r = calls[c] /\ CallHolds(r)
        BY <2>1, <3>1 DEF CallsHold
      <4> QED
        BY <3>1, <4>1 DEF CallHolds, Recorded
    <3> QED
      BY <3>1 DEF Call!OneObservation
  <2>4. Call!RawIsAudited
    <3>1. ASSUME NEW c \in Callers, calls[c] # None, calls[c].q.tool \in Call!Redacting, calls[c].text = "raw", Redaction
          PROVE  /\ calls[c].q.cred.bypass
                 /\ \E k \in DOMAIN audited : audited[k].actor = calls[c].q.cred.name /\ audited[k].status = 200
      <4>1. PICK r : r = calls[c] /\ CallHolds(r)
        BY <2>1, <3>1 DEF CallsHold
      <4> QED
        BY <3>1, <4>1 DEF CallHolds, RawTold
    <3> QED
      BY <3>1 DEF Call!RawIsAudited
  <2> QED
    BY <2>2, <2>3, <2>4 DEF InspectionHolds
<1> QED
  BY <1>1, <1>3, <1>4, PTL DEF Joint

----------------------------------------------------------------------------
\* Detection.  A median is the mean of two samples, so one of recent samples that are no higher
\* than any sample before them is no higher than one of those.

\* A finite set of numbers has a least and a greatest.
LEMMA Extremes ==
    ASSUME NEW R \in SUBSET Int, IsFiniteSet(R), R # {}
    PROVE  (\E x \in R : \A y \in R : x <= y) /\ (\E x \in R : \A y \in R : y <= x)
<1> DEFINE Has(S) == (\E x \in S : \A y \in S : x <= y) /\ (\E x \in S : \A y \in S : y <= x)
           T == {n \in Nat : \A S \in SUBSET Int : IsFiniteSet(S) /\ Cardinality(S) = n /\ S # {} => Has(S)}
<1>1. 0 \in T
  BY FS_EmptySet
<1>2. ASSUME NEW n \in T
      PROVE  n + 1 \in T
  <2> SUFFICES ASSUME NEW S \in SUBSET Int, IsFiniteSet(S), Cardinality(S) = n + 1, S # {}
               PROVE  Has(S)
    OBVIOUS
  <2>1. PICK m \in S : TRUE
    OBVIOUS
  <2>2. IsFiniteSet(S \ {m}) /\ Cardinality(S \ {m}) = n
    <3>1. n \in Nat
      BY Zenon
    <3>2. IsFiniteSet(S \ {m}) /\ Cardinality(S \ {m}) = Cardinality(S) - 1
      BY <2>1, FS_RemoveElement, Zenon
    <3> QED
      BY <3>1, <3>2
  <2>3. CASE S \ {m} = {}
    BY <2>1, <2>3
  <2>4. CASE S \ {m} # {}
    <3>1. Has(S \ {m})
      BY <2>2, <2>4
    <3>2. PICK x \in S \ {m} : \A y \in S \ {m} : x <= y
      BY <3>1
    <3>3. PICK z \in S \ {m} : \A y \in S \ {m} : y <= z
      BY <3>1
    <3>4. \E l \in {x, m} : \A y \in S : l <= y
      BY <2>1, <3>2
    <3>5. \E g \in {z, m} : \A y \in S : y <= g
      BY <2>1, <3>3
    <3> QED
      BY <2>1, <3>2, <3>3, <3>4, <3>5
  <2> QED
    BY <2>3, <2>4
<1>3. T \in SUBSET Nat
  OBVIOUS
<1> HIDE DEF T
<1>4. Cardinality(R) \in T
  <2>1. Cardinality(R) \in Nat /\ \A n \in Nat : n \in T
    BY <1>1, <1>2, <1>3, Induction, FS_CardinalityType
  <2> QED
    BY <2>1
<1> QED
  BY <1>4 DEF T

LEMMA CountedSamples == \A S : Anomalies!Cardinality(S) = Cardinality(S)
BY DEF Anomalies!Cardinality, Cardinality

\* The k-th smallest sample is one of the samples.
LEMMA KthFacts ==
    ASSUME NEW D, IsFiniteSet(D), NEW f \in [D -> Int], NEW k \in Nat \ {0}, k <= Cardinality(D)
    PROVE  \E d \in D : Anomalies!Kth(f, k) = f[d]
<1> DEFINE under(x) == {i \in D : f[i] < x}
           upto(x)  == {i \in D : f[i] <= x}
           R == {f[i] : i \in D}
           T == {x \in R : Cardinality(upto(x)) >= k}
<1>1. \A S \in SUBSET D : IsFiniteSet(S) /\ Cardinality(S) \in Nat
  BY FS_Subset, FS_CardinalityType
<1>2. R \in SUBSET Int /\ IsFiniteSet(R)
  <2>1. f \in Surjection(D, R)
    BY DEF Surjection
  <2> QED
    BY <2>1, FS_Surjection
<1>3. D # {}
  BY FS_EmptySet, FS_CardinalityType
<1>4. T # {}
  <2>1. R # {}
    BY <1>3
  <2>2. PICK x \in R : \A y \in R : y <= x
    BY <1>2, <2>1, Extremes
  <2>3. upto(x) = D
    BY <2>2
  <2>4. Cardinality(upto(x)) >= k
    BY <2>3
  <2> QED
    BY <2>2, <2>4
<1>5. PICK m \in T : \A y \in T : m <= y
  <2>1. T \in SUBSET Int /\ IsFiniteSet(T)
    BY <1>2, FS_Subset
  <2> HIDE DEF T
  <2> QED
    BY <1>4, <2>1, Extremes
<1>6. Cardinality(under(m)) < k
  <2> SUFFICES ASSUME Cardinality(under(m)) >= k
               PROVE  FALSE
    BY <1>1
  <2> DEFINE L == {y \in R : y < m}
  <2>1. under(m) # {}
    BY FS_EmptySet
  <2>2. L # {}
    BY <2>1
  <2>3. L \in SUBSET Int /\ IsFiniteSet(L)
    BY <1>2, FS_Subset
  <2>4. PICK g \in L : \A y \in L : y <= g
    <3> HIDE DEF L
    <3> QED
      BY <2>2, <2>3, Extremes
  <2>5. upto(g) = under(m)
    BY <1>2, <2>4
  <2>6. g \in T
    BY <2>4, <2>5
  <2> QED
    BY <1>2, <1>5, <2>4, <2>6
<1>7. m \in R /\ Cardinality(upto(m)) >= k
  BY <1>5
<1>8. DOMAIN f = D /\ Anomalies!ToSet(f) = R
  BY DEF Anomalies!ToSet
<1> DEFINE fits(x) == Cardinality(under(x)) < k /\ Cardinality(upto(x)) >= k
<1>9. Anomalies!Kth(f, k) = CHOOSE x \in R : fits(x)
  BY <1>8, CountedSamples, Zenon DEF Anomalies!Kth
<1>10. fits(m)
  BY <1>6, <1>7
<1> HIDE DEF fits, under, upto, T
<1>11. Anomalies!Kth(f, k) \in R
  BY <1>7, <1>9, <1>10
<1> QED
  BY <1>11

LEMMA MedianFacts ==
    ASSUME NEW D, IsFiniteSet(D), D # {}, NEW f \in [D -> Int]
    PROVE  \E d, e \in D : Anomalies!TwiceMedian(f) = f[d] + f[e]
<1>1. PICK n \in Nat : n = Cardinality(D)
  BY FS_CardinalityType
<1>2. n # 0
  BY <1>1, FS_EmptySet
<1>3. PICK mid \in Nat : mid = n \div 2
  BY <1>1
<1>4. Anomalies!TwiceMedian(f) =
        IF n % 2 = 0 THEN Anomalies!Kth(f, mid) + Anomalies!Kth(f, mid + 1) ELSE 2 * Anomalies!Kth(f, mid + 1)
  <2>1. DOMAIN f = D
    OBVIOUS
  <2> QED
    BY <1>1, <1>3, <2>1, CountedSamples, Zenon DEF Anomalies!TwiceMedian
<1>5. mid + 1 \in Nat \ {0} /\ mid + 1 <= n
  BY <1>1, <1>2, <1>3
<1>6. PICK e \in D : Anomalies!Kth(f, mid + 1) = f[e]
  BY <1>1, <1>5, KthFacts
<1>7. CASE n % 2 = 0
  <2>1. mid \in Nat \ {0} /\ mid <= n
    BY <1>1, <1>2, <1>3, <1>7
  <2>2. PICK d \in D : Anomalies!Kth(f, mid) = f[d]
    BY <1>1, <2>1, KthFacts
  <2> QED
    BY <1>4, <1>6, <1>7, <2>2
<1>8. CASE n % 2 # 0
  <2>1. f[e] \in Int /\ 2 * f[e] = f[e] + f[e]
    OBVIOUS
  <2> QED
    BY <1>4, <1>6, <1>8, <2>1
<1> QED
  BY <1>7, <1>8

\* Samples none of which is above any of others have no greater median.
NotHigher(g, E, f, D) == \A d \in D : \A e \in E : g[e] <= f[d]

LEMMA LowerMedian ==
    ASSUME NEW D, IsFiniteSet(D), D # {}, NEW f \in [D -> Int],
           NEW E, IsFiniteSet(E), E # {}, NEW g \in [E -> Int],
           NotHigher(g, E, f, D)
    PROVE  /\ Anomalies!TwiceMedian(f) \in Int /\ Anomalies!TwiceMedian(g) \in Int
           /\ Anomalies!TwiceMedian(g) - Anomalies!TwiceMedian(f) <= 0
<1>1. PICK d1, d2 \in D : Anomalies!TwiceMedian(f) = f[d1] + f[d2]
  BY MedianFacts
<1>2. PICK e1, e2 \in E : Anomalies!TwiceMedian(g) = g[e1] + g[e2]
  BY MedianFacts
<1>3. {f[d1], f[d2], g[e1], g[e2]} \subseteq Int /\ g[e1] <= f[d1] /\ g[e2] <= f[d2]
  BY DEF NotHigher
<1> QED
  BY <1>1, <1>2, <1>3

LEMMA MadIsNumber ==
    ASSUME NEW D, IsFiniteSet(D), D # {}, NEW f \in [D -> Int], NEW center \in Int
    PROVE  Anomalies!FourMad(f, center) \in Int
<1>1. PICK away : away = [i \in D |-> Anomalies!Abs(2 * f[i] - center)]
  OBVIOUS
<1>2. \A i \in D : Anomalies!Abs(2 * f[i] - center) \in Int
  BY DEF Anomalies!Abs
<1>3. away \in [D -> Int]
  BY <1>1, <1>2
<1>4. PICK d, e \in D : Anomalies!TwiceMedian(away) = away[d] + away[e]
  BY <1>3, MedianFacts
<1>5. Anomalies!FourMad(f, center) = Anomalies!TwiceMedian(away)
  <2>1. DOMAIN f = D
    OBVIOUS
  <2> QED
    BY <1>1, <2>1, Zenon DEF Anomalies!FourMad
<1> QED
  BY <1>3, <1>4, <1>5

\* What did not rise is not above any threshold.
LEMMA NotAbove ==
    ASSUME NEW diff \in Int, diff <= 0, NEW center \in Int, NEW spread \in Int, NEW t \in Nat \ {0}
    PROVE  ~Anomalies!Above(diff, center, spread, t)
<1>1. CASE spread > 0
  <2>1. t * 14826 > 0 /\ t * 14826 \in Nat
    OBVIOUS
  <2>2. PICK u \in Nat : u = t * 14826 /\ u > 0
    BY <2>1
  <2>3. u * spread > 0
    BY <1>1, <2>2
  <2>4. ~(200000 * diff >= u * spread)
    BY <2>3
  <2> QED
    BY <1>1, <2>2, <2>4 DEF Anomalies!Above
<1>2. CASE ~(spread > 0) /\ center # 0
  <2>1. PICK u \in Nat : u = Anomalies!Abs(center) /\ u > 0
    BY <1>2 DEF Anomalies!Abs
  <2>2. t * u > 0
    BY <2>1
  <2>3. ~(10000 * diff >= t * u)
    BY <2>2
  <2> QED
    BY <1>2, <2>1, <2>3 DEF Anomalies!Above
<1>3. CASE ~(spread > 0) /\ center = 0
  BY <1>3 DEF Anomalies!Above
<1> QED
  BY <1>1, <1>2, <1>3

\* A metric that recovered: its recent samples are no higher than any of its history.
Recovered(s) ==
    /\ Len(s) > RecentWindow
    /\ \A i \in 1 .. Len(s) - RecentWindow : \A j \in 1 .. RecentWindow : s[Len(s) - RecentWindow + j] <= s[i]

LEMMA RecentFacts ==
    ASSUME NEW s \in Seq(Int), Len(s) > RecentWindow
    PROVE  LET late == Anomalies!Recent(s, RecentWindow) IN
           /\ late \in [1 .. RecentWindow -> Int] /\ 1 .. RecentWindow # {} /\ IsFiniteSet(1 .. RecentWindow)
           /\ \A j \in 1 .. RecentWindow : late[j] = s[Len(s) - RecentWindow + j]
           /\ DOMAIN Anomalies!History(s) = 1 .. Len(s) - RecentWindow
<1>1. RecentWindow \in Nat \ {0} /\ Len(s) \in Nat
  BY DetectionAssumption
<1>2. PICK late : late = SubSeq(s, Len(s) - RecentWindow + 1, Len(s))
  OBVIOUS
<1>3. /\ late \in Seq(Int) /\ Len(late) = RecentWindow
      /\ \A j \in 1 .. RecentWindow : late[j] = s[Len(s) - RecentWindow + j]
  <2>1. PICK m \in Nat : m = Len(s) - RecentWindow
    BY <1>1
  <2>2. m + 1 \in 1 .. Len(s) /\ Len(s) \in Nat /\ Len(s) - (m + 1) + 1 = RecentWindow /\ m + RecentWindow = Len(s)
    BY <1>1, <2>1
  <2>3. late = SubSeq(s, m + 1, Len(s))
    BY <1>2, <2>1
  <2>4. \A j \in m + 1 .. Len(s) : s[j] \in Int
    BY <2>2
  <2>5. /\ late \in Seq(Int) /\ Len(late) = IF m + 1 <= Len(s) THEN Len(s) - (m + 1) + 1 ELSE 0
        /\ \A j \in 1 .. Len(s) - (m + 1) + 1 : late[j] = s[m + 1 + j - 1]
    BY <2>2, <2>3, <2>4
  <2>6. Len(late) = RecentWindow
    BY <2>2, <2>5
  <2>7. ASSUME NEW j \in 1 .. RecentWindow
        PROVE  late[j] = s[Len(s) - RecentWindow + j]
    <3>1. j \in Nat /\ late[j] = s[m + 1 + j - 1] /\ m + 1 + j - 1 = m + j
      BY <2>2, <2>5, <2>7
    <3> QED
      BY <2>1, <3>1
  <2> QED
    BY <2>5, <2>6, <2>7
<1>4. Anomalies!Recent(s, RecentWindow) = late
  BY <1>2 DEF Anomalies!Recent
<1>5. 1 .. RecentWindow # {} /\ IsFiniteSet(1 .. RecentWindow)
  <2>1. 1 \in Int /\ RecentWindow \in Int /\ 1 \in 1 .. RecentWindow
    BY <1>1
  <2> QED
    BY <2>1, FS_Interval
<1>6. DOMAIN Anomalies!History(s) = 1 .. Len(s) - RecentWindow
  BY <1>1 DEF Anomalies!History
<1> QED
  BY <1>3, <1>4, <1>5, <1>6

\* Against any of its history, a recovered metric has not risen.
LEMMA NoShift ==
    ASSUME NEW s \in Seq(Int), Recovered(s), NEW D \in SUBSET (1 .. Len(s) - RecentWindow), D # {},
           NEW f, f = [i \in D |-> s[i]], NEW late, late = Anomalies!Recent(s, RecentWindow)
    PROVE  /\ f \in [D -> Int] /\ IsFiniteSet(D) /\ Anomalies!TwiceMedian(f) \in Int
           /\ Anomalies!TwiceMedian(late) - Anomalies!TwiceMedian(f) \in Int
           /\ Anomalies!TwiceMedian(late) - Anomalies!TwiceMedian(f) <= 0
           /\ Anomalies!FourMad(f, Anomalies!TwiceMedian(f)) \in Int
<1>1. RecentWindow \in Nat \ {0} /\ Len(s) \in Nat /\ Len(s) - RecentWindow \in Nat
  BY DetectionAssumption DEF Recovered
<1>2. f \in [D -> Int]
  BY <1>1
<1>3. IsFiniteSet(D)
  <2>1. 1 \in Int /\ Len(s) - RecentWindow \in Int
    BY <1>1
  <2>2. IsFiniteSet(1 .. (Len(s) - RecentWindow))
    BY <2>1, FS_Interval
  <2> QED
    BY <2>2, FS_Subset
<1>4. /\ late \in [1 .. RecentWindow -> Int] /\ 1 .. RecentWindow # {} /\ IsFiniteSet(1 .. RecentWindow)
      /\ \A j \in 1 .. RecentWindow : late[j] = s[Len(s) - RecentWindow + j]
  BY RecentFacts DEF Recovered
<1>5. \A d \in D : \A e \in 1 .. RecentWindow : late[e] <= f[d]
  BY <1>4 DEF Recovered
<1>6. /\ Anomalies!TwiceMedian(f) \in Int /\ Anomalies!TwiceMedian(late) \in Int
      /\ Anomalies!TwiceMedian(late) - Anomalies!TwiceMedian(f) <= 0
  <2>1. PICK E : E = 1 .. RecentWindow
    OBVIOUS
  <2>2. late \in [E -> Int] /\ E # {} /\ IsFiniteSet(E) /\ NotHigher(late, E, f, D)
    BY <1>4, <1>5, <2>1 DEF NotHigher
  <2> QED
    BY <1>2, <1>3, <2>2, LowerMedian
<1>7. Anomalies!FourMad(f, Anomalies!TwiceMedian(f)) \in Int
  BY <1>2, <1>3, <1>6, MadIsNumber
<1> QED
  BY <1>2, <1>3, <1>6, <1>7

LEMMA SeasonalIsQuiet ==
    ASSUME NEW s \in Seq(Int), Recovered(s), Anomalies!OneSidedUp(kind), Anomalies!Seasonal(s)
    PROVE  ~Anomalies!SeasonalAnomaly(kind, s)
<1>1. PICK D \in SUBSET (1 .. Len(s) - RecentWindow) :
         D = {i \in DOMAIN Anomalies!History(s) : Anomalies!InPhase(i, Len(s))}
  BY RecentFacts DEF Recovered
<1>2. PICK f : f = [i \in D |-> s[i]]
  OBVIOUS
<1>3. f = Anomalies!SamePhase(s) /\ DOMAIN f = D
  BY <1>1, <1>2 DEF Anomalies!SamePhase
<1>4. D # {}
  <2>1. Cardinality(D) >= MinPhaseSamples
    BY <1>3, CountedSamples DEF Anomalies!Seasonal
  <2>2. MinPhaseSamples \in Nat \ {0}
    BY DetectionAssumption
  <2>3. ~(0 >= MinPhaseSamples)
    BY <2>2
  <2> QED
    BY <2>1, <2>3, FS_EmptySet
<1>5. PICK late : late = Anomalies!Recent(s, RecentWindow)
  OBVIOUS
<1>6. PICK c : c = Anomalies!TwiceMedian(f)
  OBVIOUS
<1>7. /\ c \in Int /\ Anomalies!TwiceMedian(late) - c \in Int /\ Anomalies!TwiceMedian(late) - c <= 0
      /\ Anomalies!FourMad(f, c) \in Int
  BY <1>2, <1>4, <1>5, <1>6, NoShift
<1>8. ~Anomalies!Above(Anomalies!TwiceMedian(late) - c, c, Anomalies!FourMad(f, c), Threshold)
  BY <1>7, NotAbove, DetectionAssumption
<1>9. ~Anomalies!Breaches(kind, Anomalies!TwiceMedian(late) - c, c, Anomalies!FourMad(f, c))
  BY <1>8, Zenon DEF Anomalies!Breaches
<1> QED
  BY <1>3, <1>5, <1>6, <1>9, Zenon DEF Anomalies!SeasonalAnomaly

LEMMA RobustIsQuiet ==
    ASSUME NEW s \in Seq(Int), Recovered(s), Anomalies!OneSidedUp(kind)
    PROVE  ~Anomalies!RobustAnomaly(kind, s)
<1> SUFFICES ASSUME Anomalies!Warm(s), Len(Anomalies!Baseline(s)) >= 3
             PROVE  ~Anomalies!RobustAnomaly(kind, s)
  BY DEF Anomalies!RobustAnomaly
<1>1. RecentWindow \in Nat \ {0} /\ Len(s) \in Nat /\ MinSamples \in Nat
  BY DetectionAssumption
<1>2. Len(s) >= 3 * RecentWindow
  BY <1>1 DEF Anomalies!Warm
<1>3. PICK end \in Nat : end = Anomalies!BaselineEnd(s) /\ end <= Len(s) - RecentWindow
  <2>1. PICK half \in Nat : half = Len(s) \div 2 /\ half <= Len(s) - RecentWindow
    BY <1>1, <1>2
  <2>4. Len(s) - 3 * RecentWindow \in Nat /\ Len(s) - 3 * RecentWindow <= Len(s) - RecentWindow
    BY <1>1, <1>2
  <2>2. PICK margin \in Nat : margin = Len(s) - 3 * RecentWindow /\ margin <= Len(s) - RecentWindow
    BY <2>4
  <2>3. Anomalies!BaselineEnd(s) = IF half > margin THEN half ELSE margin
    BY <2>1, <2>2 DEF Anomalies!BaselineEnd
  <2> QED
    BY <2>1, <2>2, <2>3
<1>4. PICK f : f = [i \in 1 .. end |-> s[i]]
  OBVIOUS
<1>5. f = Anomalies!Baseline(s) /\ 1 .. end # {} /\ 1 .. end \in SUBSET (1 .. Len(s) - RecentWindow)
  <2>1. PICK base \in Seq(Int) : base = SubSeq(s, 1, end) /\ Len(base) = end /\ \A i \in 1 .. end : base[i] = s[i]
    <3>1. end <= Len(s)
      BY <1>1, <1>3
    <3>2. \A i \in 1 .. end : s[i] \in Int
      BY <1>1, <3>1
    <3>3. SubSeq(s, 1, end) = [i \in 1 .. end |-> s[i]]
      BY <1>3, <3>1
    <3>4. [i \in 1 .. end |-> s[i]] \in Seq(Int) /\ Len([i \in 1 .. end |-> s[i]]) = end
      BY <1>3, <3>2
    <3> QED
      BY <3>3, <3>4
  <2>2. base = f
    BY <1>4, <2>1
  <2>3. base = Anomalies!Baseline(s)
    BY <1>3, <2>1 DEF Anomalies!Baseline
  <2> QED
    BY <1>1, <1>3, <2>1, <2>2, <2>3
<1>6. PICK late : late = Anomalies!Recent(s, RecentWindow)
  OBVIOUS
<1>7. PICK c : c = Anomalies!TwiceMedian(f)
  OBVIOUS
<1>8. /\ c \in Int /\ Anomalies!TwiceMedian(late) - c \in Int /\ Anomalies!TwiceMedian(late) - c <= 0
      /\ Anomalies!FourMad(f, c) \in Int
  BY <1>4, <1>5, <1>6, <1>7, NoShift
<1>9. \A t \in Nat \ {0} : ~Anomalies!Above(Anomalies!TwiceMedian(late) - c, c, Anomalies!FourMad(f, c), t)
  BY <1>8, NotAbove
<1>10. Threshold \in Nat \ {0} /\ 20 \in Nat \ {0}
  BY DetectionAssumption
<1>11. ~Anomalies!Breaches(kind, Anomalies!TwiceMedian(late) - c, c, Anomalies!FourMad(f, c))
  BY <1>9, <1>10, Zenon DEF Anomalies!Breaches
<1> QED
  BY <1>5, <1>6, <1>7, <1>9, <1>10, <1>11, Zenon DEF Anomalies!RobustAnomaly

\* A metric that came back is not an anomaly, whichever detector judges it and whatever the
\* samples, the windows and the thresholds are.
THEOREM RecoveryStaysQuiet == Joint => []RecoveryIsQuiet
<1> DEFINE Whole == dSeries \in Seq(Int)
<1>1. JointInit => Whole
  BY DEF JointInit, Anomalies!Init
<1>2. Whole /\ [JointNext]_JointVars => Whole'
  <2>1. ASSUME Whole, NEW v \in Values, Anomalies!Sample(v)
        PROVE  Whole'
    BY <2>1, DetectionAssumption DEF Anomalies!Sample
  <2> QED
    BY <2>1 DEF JointNext, JointVars, detection, Anomalies!Next, Anomalies!vars
<1>3. Whole => RecoveryIsQuiet
  <2> SUFFICES ASSUME Whole, Anomalies!OneSidedUp(kind), Len(dSeries) > RecentWindow,
                      \A i \in DOMAIN Anomalies!History(dSeries) :
                        \A j \in DOMAIN Anomalies!Recent(dSeries, RecentWindow) :
                          Anomalies!Recent(dSeries, RecentWindow)[j] <= dSeries[i]
               PROVE  ~Anomalies!IsAnomaly(kind, dSeries)
    BY Zenon DEF RecoveryIsQuiet, Anomalies!RecoveryIsQuiet
  <2>1. PICK s \in Seq(Int) : s = dSeries
    OBVIOUS
  <2>2. PICK late \in [1 .. RecentWindow -> Int] :
           /\ late = Anomalies!Recent(s, RecentWindow) /\ DOMAIN Anomalies!History(s) = 1 .. Len(s) - RecentWindow
           /\ \A j \in 1 .. RecentWindow : late[j] = s[Len(s) - RecentWindow + j]
    BY <2>1, RecentFacts
  <2>3. Recovered(s)
    BY <2>1, <2>2 DEF Recovered
  <2> QED
    BY <2>1, <2>3, SeasonalIsQuiet, RobustIsQuiet DEF Anomalies!IsAnomaly
<1> QED
  BY <1>1, <1>2, <1>3, PTL DEF Joint

----------------------------------------------------------------------------
\* Correlator.  Reachability is transitive, so whoever depends on a victim depends on its cause;
\* the victim counts for one more there, and has one thing upstream.

\* Folds over sets are defined: h has for every set of elements what the step at the one that is
\* chosen from it makes of the others.
Chosen(t) == CHOOSE x \in t : TRUE
ChosenFolds(S, step, base, n, h) ==
    /\ h[{}] = base
    /\ \A t \in SUBSET S : t # {} /\ Cardinality(t) <= n => h[t] = step[Chosen(t)][h[t \ {Chosen(t)}]]

LEMMA WithoutChosen ==
    ASSUME NEW S, IsFiniteSet(S), NEW t \in SUBSET S, t # {}
    PROVE  /\ Chosen(t) \in t /\ t \ {Chosen(t)} \in SUBSET S
           /\ Cardinality(t) \in Nat \ {0} /\ Cardinality(t \ {Chosen(t)}) = Cardinality(t) - 1
<1>1. Chosen(t) \in t
  BY DEF Chosen
<1>2. IsFiniteSet(t)
  BY FS_Subset
<1>3. Cardinality(t) \in Nat /\ Cardinality(t) # 0
  BY <1>2, FS_CardinalityType, FS_EmptySet
<1>4. Cardinality(t \ {Chosen(t)}) = Cardinality(t) - 1
  BY <1>1, <1>2, FS_RemoveElement, Zenon
<1> QED
  BY <1>1, <1>3, <1>4

LEMMA ChosenFoldDefined ==
    ASSUME NEW S, IsFiniteSet(S), NEW V, NEW base \in V, NEW step \in [S -> [V -> V]]
    PROVE  \E h \in [SUBSET S -> V] : ChosenFolds(S, step, base, Cardinality(S), h)
<1> DEFINE T == {n \in Nat : \E h \in [SUBSET S -> V] : ChosenFolds(S, step, base, n, h)}
<1>1. 0 \in T
  <2>1. PICK h \in [SUBSET S -> V] : h = [t \in SUBSET S |-> base]
    OBVIOUS
  <2>2. h[{}] = base
    BY <2>1
  <2>3. ASSUME NEW t \in SUBSET S, t # {}
        PROVE  ~(Cardinality(t) <= 0)
    <3>1. Cardinality(t) \in Nat \ {0}
      BY <2>3, WithoutChosen
    <3> QED
      BY <3>1
  <2>4. ChosenFolds(S, step, base, 0, h)
    BY <2>2, <2>3 DEF ChosenFolds
  <2> QED
    BY <2>4
<1>2. ASSUME NEW n \in T
      PROVE  n + 1 \in T
  <2>1. n \in Nat
    BY Zenon
  <2>2. PICK g \in [SUBSET S -> V] : ChosenFolds(S, step, base, n, g)
    BY Zenon
  <2>3. ASSUME NEW t \in SUBSET S, t # {}
        PROVE  step[Chosen(t)][g[t \ {Chosen(t)}]] \in V
    <3>1. Chosen(t) \in S /\ t \ {Chosen(t)} \in SUBSET S
      BY <2>3, WithoutChosen
    <3> QED
      BY <3>1
  <2>4. PICK h : h = [t \in SUBSET S |-> IF t # {} /\ Cardinality(t) = n + 1 THEN step[Chosen(t)][g[t \ {Chosen(t)}]]
                                         ELSE g[t]]
    OBVIOUS
  <2>5. \A t \in SUBSET S : h[t] = (IF t # {} /\ Cardinality(t) = n + 1 THEN step[Chosen(t)][g[t \ {Chosen(t)}]] ELSE g[t])
    BY <2>4
  <2>6. h \in [SUBSET S -> V]
    <3>1. \A t \in SUBSET S :
             (IF t # {} /\ Cardinality(t) = n + 1 THEN step[Chosen(t)][g[t \ {Chosen(t)}]] ELSE g[t]) \in V
      BY <2>3
    <3> QED
      BY <2>4, <3>1, Zenon
  <2>7. ASSUME NEW t \in SUBSET S, t # {}, Cardinality(t) <= n + 1
        PROVE  h[t] = step[Chosen(t)][h[t \ {Chosen(t)}]]
    <3>1. /\ Chosen(t) \in t /\ t \ {Chosen(t)} \in SUBSET S
          /\ Cardinality(t) \in Nat /\ Cardinality(t \ {Chosen(t)}) = Cardinality(t) - 1
      BY <2>7, WithoutChosen
    <3>2. Cardinality(t \ {Chosen(t)}) # n + 1
      BY <2>1, <2>7, <3>1
    <3>3. h[t \ {Chosen(t)}] = g[t \ {Chosen(t)}]
      BY <2>5, <3>1, <3>2
    <3>4. CASE Cardinality(t) = n + 1
      BY <2>5, <2>7, <3>3, <3>4
    <3>5. CASE Cardinality(t) # n + 1
      <4>1. Cardinality(t) <= n
        BY <2>1, <2>7, <3>1, <3>5
      <4>2. g[t] = step[Chosen(t)][g[t \ {Chosen(t)}]]
        BY <2>2, <2>7, <4>1 DEF ChosenFolds
      <4> QED
        BY <2>5, <3>3, <3>5, <4>2
    <3> QED
      BY <3>4, <3>5
  <2>8. h[{}] = base
    BY <2>2, <2>5 DEF ChosenFolds
  <2>9. ChosenFolds(S, step, base, n + 1, h)
    BY <2>7, <2>8 DEF ChosenFolds
  <2> QED
    BY <2>1, <2>6, <2>9
<1>3. T \in SUBSET Nat
  OBVIOUS
<1> HIDE DEF T
<1>4. Cardinality(S) \in T
  <2>1. Cardinality(S) \in Nat /\ \A n \in Nat : n \in T
    BY <1>1, <1>2, <1>3, Induction, FS_CardinalityType
  <2> QED
    BY <2>1
<1> QED
  BY <1>4 DEF T

\* Who calls whom by way of a service.
Pairs == SUBSET (Members \X Members)
Through(mid, r) == r \cup ({e[1] : e \in {x \in r : x[2] = mid}} \X {e[2] : e \in {x \in r : x[1] = mid}})
By(r, via) == \A p, q \in Members : \A m \in via : <<p, m>> \in r /\ <<m, q>> \in r => <<p, q>> \in r

LEMMA ThroughFacts ==
    ASSUME NEW r \in Pairs, NEW mid \in Members, NEW via \in SUBSET Members, By(r, via)
    PROVE  /\ Through(mid, r) \in Pairs /\ r \subseteq Through(mid, r)
           /\ By(Through(mid, r), via \cup {mid})
<1>1. PICK c : c = Through(mid, r)
  OBVIOUS
<1>2. \A p, q \in Members : <<p, q>> \in c <=> <<p, q>> \in r \/ (<<p, mid>> \in r /\ <<mid, q>> \in r)
  <2> SUFFICES ASSUME NEW p \in Members, NEW q \in Members
               PROVE  <<p, q>> \in c <=> <<p, q>> \in r \/ (<<p, mid>> \in r /\ <<mid, q>> \in r)
    OBVIOUS
  <2>1. p \in {e[1] : e \in {x \in r : x[2] = mid}} <=> <<p, mid>> \in r
    BY DEF Pairs
  <2>2. q \in {e[2] : e \in {x \in r : x[1] = mid}} <=> <<mid, q>> \in r
    BY DEF Pairs
  <2> QED
    BY <1>1, <2>1, <2>2 DEF Through
<1>3. c \in Pairs /\ r \subseteq c
  BY <1>1 DEF Through, Pairs
<1>4. ASSUME NEW p \in Members, NEW q \in Members, NEW m \in via \cup {mid}, <<p, m>> \in c, <<m, q>> \in c
      PROVE  <<p, q>> \in c
  <2>1. m \in Members
    OBVIOUS
  <2>2. /\ <<p, m>> \in r \/ (<<p, mid>> \in r /\ <<mid, m>> \in r)
        /\ <<m, q>> \in r \/ (<<m, mid>> \in r /\ <<mid, q>> \in r)
    BY <1>2, <1>4, <2>1
  <2>3. CASE m = mid
    BY <1>2, <2>2, <2>3
  <2>4. CASE m \in via
    <3>1. \A s, t \in Members : <<s, m>> \in r /\ <<m, t>> \in r => <<s, t>> \in r
      BY <2>4 DEF By
    <3> QED
      BY <1>2, <2>1, <2>2, <3>1
  <2> QED
    BY <2>3, <2>4
<1>5. By(c, via \cup {mid})
  BY <1>4 DEF By
<1> QED
  BY <1>1, <1>3, <1>5

\* The calls of calls, through every service: calls on the way of calls are calls.
LEMMA ClosureFacts ==
    ASSUME edges \in Pairs
    PROVE  Causes!Closure \in Pairs /\ By(Causes!Closure, Members)
<1>1. IsFiniteSet(Members)
  BY RankingAssumption
<1> DEFINE made(h) == [t \in SUBSET Members |-> IF t = {} THEN edges ELSE Through(Chosen(t), h[t \ {Chosen(t)}])]
<1>2. \E h : h = made(h)
  <2>1. PICK step : step = [mid \in Members |-> [r \in Pairs |-> Through(mid, r)]]
    OBVIOUS
  <2>2. \A mid \in Members : \A r \in Pairs : Through(mid, r) \in Pairs
    BY DEF Through, Pairs
  <2>3. step \in [Members -> [Pairs -> Pairs]]
    BY <2>1, <2>2
  <2>4. PICK h \in [SUBSET Members -> Pairs] : ChosenFolds(Members, step, edges, Cardinality(Members), h)
    BY <1>1, <2>3, ChosenFoldDefined
  <2>5. ASSUME NEW t \in SUBSET Members
        PROVE  h[t] = IF t = {} THEN edges ELSE Through(Chosen(t), h[t \ {Chosen(t)}])
    <3>1. CASE t = {}
      BY <2>4, <3>1 DEF ChosenFolds
    <3>2. CASE t # {}
      <4>1. Cardinality(t) <= Cardinality(Members)
        BY <1>1, FS_Subset
      <4>2. h[t] = step[Chosen(t)][h[t \ {Chosen(t)}]]
        BY <2>4, <3>2, <4>1 DEF ChosenFolds
      <4>3. Chosen(t) \in Members /\ h[t \ {Chosen(t)}] \in Pairs
        <5>1. Chosen(t) \in t /\ t \ {Chosen(t)} \in SUBSET Members
          BY <3>2 DEF Chosen
        <5> QED
          BY <2>4, <5>1
      <4> QED
        BY <2>1, <3>2, <4>2, <4>3
    <3> QED
      BY <3>1, <3>2
  <2>6. h = [t \in SUBSET Members |-> h[t]]
    BY <2>4
  <2>7. h = made(h)
    BY <2>5, <2>6, Zenon
  <2> QED
    BY <2>7
<1> DEFINE h == CHOOSE h : h = made(h)
<1>3. h = made(h)
  BY <1>2
<1>4. Causes!Closure = h[Members]
  BY DEF Causes!Closure, Causes!FoldSet, Causes!MapThenFoldSet, Through, Chosen
<1> HIDE DEF h
<1>5. \A t \in SUBSET Members : h[t] = IF t = {} THEN edges ELSE Through(Chosen(t), h[t \ {Chosen(t)}])
  BY <1>3, Zenon
<1> HIDE DEF made
<1> DEFINE T == {n \in Nat : \A t \in SUBSET Members : Cardinality(t) = n => h[t] \in Pairs /\ By(h[t], t)}
<1>6. 0 \in T
  <2>1. ASSUME NEW t \in SUBSET Members, Cardinality(t) = 0
        PROVE  h[t] \in Pairs /\ By(h[t], t)
    <3>1. t = {}
      BY <1>1, <2>1, FS_Subset, FS_EmptySet
    <3> QED
      BY <1>5, <3>1 DEF By
  <2> QED
    BY <2>1
<1>7. ASSUME NEW n \in T
      PROVE  n + 1 \in T
  <2>1. n \in Nat
    BY Zenon
  <2>2. ASSUME NEW t \in SUBSET Members, Cardinality(t) = n + 1
        PROVE  h[t] \in Pairs /\ By(h[t], t)
    <3>1. t # {}
      BY <2>1, <2>2, FS_EmptySet
    <3>2. PICK x : x = Chosen(t)
      OBVIOUS
    <3>3. x \in t /\ t \ {x} \in SUBSET Members /\ Cardinality(t \ {x}) = n
      <4>1. x \in t /\ t \ {x} \in SUBSET Members /\ Cardinality(t \ {x}) = Cardinality(t) - 1
        BY <1>1, <3>1, <3>2, WithoutChosen
      <4> QED
        BY <2>1, <2>2, <4>1
    <3>4. h[t \ {x}] \in Pairs /\ By(h[t \ {x}], t \ {x})
      BY <3>3
    <3>5. h[t] = Through(x, h[t \ {x}]) /\ (t \ {x}) \cup {x} = t
      BY <1>5, <3>1, <3>2, <3>3
    <3>6. PICK r, via : r = h[t \ {x}] /\ via = t \ {x}
      OBVIOUS
    <3>7. r \in Pairs /\ via \in SUBSET Members /\ By(r, via) /\ x \in Members
      BY <3>3, <3>4, <3>6
    <3>8. Through(x, r) \in Pairs /\ By(Through(x, r), via \cup {x})
      BY <3>7, ThroughFacts
    <3>9. h[t] = Through(x, r) /\ via \cup {x} = t
      BY <3>5, <3>6
    <3> QED
      BY <3>8, <3>9
  <2> QED
    BY <2>1, <2>2
<1>8. T \in SUBSET Nat
  OBVIOUS
<1>9. Cardinality(Members) \in T
  <2> HIDE DEF T
  <2>1. Cardinality(Members) \in Nat /\ \A n \in Nat : n \in T
    BY <1>1, <1>6, <1>7, <1>8, Induction, FS_CardinalityType
  <2> QED
    BY <2>1
<1> QED
  BY <1>4, <1>9

\* The weights of some anomalies, added up.
Weights == [service : Members, severity : SevWeight, onset : Onsets \cup {None}]

LEMMA OneWeightMore ==
    ASSUME NEW n \in Nat, NEW v \in Nat, NEW w \in 1 .. 3, v >= n, v <= 3 * n
    PROVE  w + v \in Nat /\ w + v >= n + 1 /\ w + v <= 3 * (n + 1)
<1>1. w \in Nat /\ w >= 1 /\ w <= 3
  OBVIOUS
<1>2. 3 * (n + 1) = 3 * n + 3
  OBVIOUS
<1> QED
  BY <1>1, <1>2

LEMMA BreadthFacts ==
    ASSUME NEW svc, anomalies \in Seq(Weights), NEW S, S = Causes!Of(svc)
    PROVE  /\ IsFiniteSet(S) /\ S \in SUBSET (DOMAIN anomalies) /\ Causes!Breadth(svc) \in Nat
           /\ Causes!Breadth(svc) >= Cardinality(S) /\ Causes!Breadth(svc) <= 3 * Cardinality(S)
<1>1. IsFiniteSet(S) /\ S \in SUBSET (DOMAIN anomalies)
  <2>1. DOMAIN anomalies = 1 .. Len(anomalies) /\ 1 \in Int /\ Len(anomalies) \in Int
    OBVIOUS
  <2>2. S \in SUBSET (DOMAIN anomalies)
    BY DEF Causes!Of
  <2> QED
    BY <2>1, <2>2, FS_Interval, FS_Subset
<1>2. \A i \in S : anomalies[i].severity \in 1 .. 3
  <2>1. \A a \in Weights : a.severity \in 1 .. 3
    BY RankingAssumption DEF Weights
  <2> QED
    BY <1>1, <2>1
<1> DEFINE made(h) == [t \in SUBSET S |-> IF t = {} THEN 0 ELSE anomalies[Chosen(t)].severity + h[t \ {Chosen(t)}]]
<1>3. \E h : h = made(h)
  <2>1. PICK step : step = [i \in S |-> [v \in Nat |-> anomalies[i].severity + v]]
    OBVIOUS
  <2>2. \A i \in S : \A v \in Nat : anomalies[i].severity + v \in Nat
    BY <1>2
  <2>3. step \in [S -> [Nat -> Nat]]
    BY <2>1, <2>2
  <2>4. PICK h \in [SUBSET S -> Nat] : ChosenFolds(S, step, 0, Cardinality(S), h)
    BY <1>1, <2>3, ChosenFoldDefined
  <2>5. ASSUME NEW t \in SUBSET S
        PROVE  h[t] = IF t = {} THEN 0 ELSE anomalies[Chosen(t)].severity + h[t \ {Chosen(t)}]
    <3>1. CASE t = {}
      BY <2>4, <3>1 DEF ChosenFolds
    <3>2. CASE t # {}
      <4>1. Cardinality(t) <= Cardinality(S)
        BY <1>1, FS_Subset
      <4>2. h[t] = step[Chosen(t)][h[t \ {Chosen(t)}]]
        BY <2>4, <3>2, <4>1 DEF ChosenFolds
      <4>3. Chosen(t) \in S /\ h[t \ {Chosen(t)}] \in Nat
        <5>1. Chosen(t) \in t /\ t \ {Chosen(t)} \in SUBSET S
          BY <3>2 DEF Chosen
        <5> QED
          BY <2>4, <5>1
      <4> QED
        BY <2>1, <3>2, <4>2, <4>3
    <3> QED
      BY <3>1, <3>2
  <2>6. h = [t \in SUBSET S |-> h[t]]
    BY <2>4
  <2>7. h = made(h)
    BY <2>5, <2>6, Zenon
  <2> QED
    BY <2>7
<1> DEFINE h == CHOOSE h : h = made(h)
<1>4. h = made(h)
  BY <1>3
<1>5. Causes!Breadth(svc) = h[S]
  BY DEF Causes!Breadth, Causes!FoldSet, Causes!MapThenFoldSet, Chosen
<1> HIDE DEF h
<1>6. \A t \in SUBSET S : h[t] = IF t = {} THEN 0 ELSE anomalies[Chosen(t)].severity + h[t \ {Chosen(t)}]
  BY <1>4, Zenon
<1> HIDE DEF made
<1> DEFINE T == {n \in Nat : \A t \in SUBSET S : Cardinality(t) = n => h[t] \in Nat /\ h[t] >= n /\ h[t] <= 3 * n}
<1>7. 0 \in T
  <2>1. ASSUME NEW t \in SUBSET S, Cardinality(t) = 0
        PROVE  h[t] \in Nat /\ h[t] >= 0 /\ h[t] <= 3 * 0
    <3>1. t = {}
      BY <1>1, <2>1, FS_Subset, FS_EmptySet
    <3>2. h[t] = 0
      BY <1>6, <3>1
    <3> QED
      BY <3>2
  <2> QED
    BY <2>1
<1>8. ASSUME NEW n \in T
      PROVE  n + 1 \in T
  <2>1. n \in Nat /\ n + 1 # 0
    <3>1. n \in Nat
      BY Zenon
    <3> QED
      BY <3>1
  <2>3. \A t \in SUBSET S : Cardinality(t) = n => h[t] \in Nat /\ h[t] >= n /\ h[t] <= 3 * n
    BY Zenon
  <2>2. ASSUME NEW t \in SUBSET S, Cardinality(t) = n + 1
        PROVE  h[t] \in Nat /\ h[t] >= n + 1 /\ h[t] <= 3 * (n + 1)
    <3> HIDE DEF T
    <3>1. t # {}
      BY <2>1, <2>2, FS_EmptySet
    <3>2. PICK x : x = Chosen(t)
      OBVIOUS
    <3>3. x \in t /\ t \ {x} \in SUBSET S /\ Cardinality(t \ {x}) = n
      <4>1. x \in t /\ t \ {x} \in SUBSET S /\ Cardinality(t \ {x}) = Cardinality(t) - 1
        BY <1>1, <3>1, <3>2, WithoutChosen
      <4> QED
        BY <2>1, <2>2, <4>1
    <3>4. PICK v \in Nat : v = h[t \ {x}] /\ v >= n /\ v <= 3 * n
      BY <2>3, <3>3
    <3>5. PICK w \in 1 .. 3 : w = anomalies[x].severity
      BY <1>2, <3>3
    <3>6. h[t] = w + v
      BY <1>6, <3>1, <3>2, <3>4, <3>5
    <3>7. w + v \in Nat /\ w + v >= n + 1 /\ w + v <= 3 * (n + 1)
      BY <2>1, <3>4, <3>5, OneWeightMore
    <3> QED
      BY <3>6, <3>7
  <2> QED
    BY <2>1, <2>2
<1>9. T \in SUBSET Nat
  OBVIOUS
<1>10. Cardinality(S) \in T
  <2> HIDE DEF T
  <2>1. Cardinality(S) \in Nat /\ \A n \in Nat : n \in T
    BY <1>1, <1>7, <1>8, <1>9, Induction, FS_CardinalityType
  <2> QED
    BY <2>1
<1>11. h[S] \in Nat /\ h[S] >= Cardinality(S) /\ h[S] <= 3 * Cardinality(S)
  BY <1>10
<1> QED
  BY <1>1, <1>5, <1>11

LEMMA CountedServices == \A S : Causes!Cardinality(S) = Cardinality(S)
BY DEF Causes!Cardinality, Cardinality

\* Services and calls as they are reported.
Known == edges \in Pairs /\ anomalies \in Seq(Weights)

LEMMA RankFacts ==
    ASSUME Known
    PROVE  /\ Causes!Anomalous \in SUBSET Members /\ IsFiniteSet(Causes!Anomalous)
           /\ \A svc \in Causes!Anomalous : /\ Causes!Of(svc) # {} /\ Causes!Ordering(svc) \in {0, 1, 4}
                                            /\ Causes!Score(svc) \in Int /\ Causes!FirstOf(svc) \in Nat
<1>1. anomalies \in Seq(Weights) /\ edges \in Pairs
  BY DEF Known
<1>2. Causes!Anomalous \in SUBSET Members
  <2>1. \A a \in Weights : a.service \in Members
    BY DEF Weights
  <2>2. \A i \in DOMAIN anomalies : anomalies[i] \in Weights
    BY <1>1
  <2> QED
    BY <2>1, <2>2 DEF Causes!Anomalous
<1>3. IsFiniteSet(Causes!Anomalous)
  BY <1>2, FS_Subset, RankingAssumption
<1>4. ASSUME NEW svc \in Causes!Anomalous
      PROVE  /\ Causes!Of(svc) # {} /\ Causes!Ordering(svc) \in {0, 1, 4}
             /\ Causes!Score(svc) \in Int /\ Causes!FirstOf(svc) \in Nat
  <2>1. Causes!Of(svc) # {}
    BY DEF Causes!Anomalous, Causes!Of
  <2>2. Causes!Ordering(svc) \in {0, 1, 4}
    BY Zenon DEF Causes!Ordering
  <2>3. PICK p \in SUBSET Causes!Anomalous : p = Causes!Dependents(svc)
    BY DEF Causes!Dependents
  <2>4. PICK u \in SUBSET Causes!Anomalous : u = Causes!Upstream(svc)
    BY DEF Causes!Upstream
  <2>5. Causes!Cardinality(p) \in Nat /\ Causes!Cardinality(u) \in Nat
    <3>1. IsFiniteSet(p) /\ IsFiniteSet(u)
      BY <1>3, FS_Subset
    <3> QED
      BY <3>1, FS_CardinalityType, CountedServices
  <2>6. Causes!Breadth(svc) \in Nat
    BY <1>1, BreadthFacts
  <2>7. Causes!Score(svc) \in Int
    <3>1. PICK o \in Nat : o = Causes!Ordering(svc)
      BY <2>2
    <3>2. PICK m \in {0, 16} : m = IF Causes!Marked(svc) THEN 16 ELSE 0
      OBVIOUS
    <3>3. Causes!Score(svc) = 20 * Causes!Cardinality(p) - 12 * Causes!Cardinality(u) + 4 * o + m + Causes!Breadth(svc)
      BY <2>3, <2>4, <3>1, <3>2 DEF Causes!Score
    <3> QED
      BY <2>5, <2>6, <3>1, <3>2, <3>3
  <2>8. Causes!FirstOf(svc) \in Nat
    <3>1. PICK S : S = Causes!Of(svc)
      OBVIOUS
    <3>2. IsFiniteSet(S) /\ S \in SUBSET Nat /\ S # {}
      <4>1. IsFiniteSet(S) /\ S \in SUBSET (DOMAIN anomalies)
        BY <1>1, <3>1, BreadthFacts
      <4> QED
        BY <1>1, <2>1, <3>1, <4>1
    <3>3. PICK x \in S : \A y \in S : x <= y
      BY <3>2, Extremes
    <3>4. Causes!Min(S) \in S
      BY <3>3 DEF Causes!Min
    <3> QED
      BY <3>1, <3>2, <3>4 DEF Causes!FirstOf
  <2> QED
    BY <2>1, <2>2, <2>7, <2>8
<1> QED
  BY <1>2, <1>3, <1>4

\* Whoever scores more comes before.
LEMMA RankedBefore ==
    ASSUME Known, NEW r \in Causes!Anomalous, NEW v \in Causes!Anomalous, Causes!Score(r) > Causes!Score(v)
    PROVE  Causes!RankRootCause[r] < Causes!RankRootCause[v]
<1> DEFINE before(s, t) == Causes!Score(s) > Causes!Score(t)
                           \/ (Causes!Score(s) = Causes!Score(t) /\ Causes!FirstOf(s) < Causes!FirstOf(t))
<1>1. \A svc \in Causes!Anomalous : Causes!Score(svc) \in Int /\ Causes!FirstOf(svc) \in Nat
  BY RankFacts
<1>2. PICK R \in SUBSET Causes!Anomalous : R = {s \in Causes!Anomalous : before(s, r)}
  OBVIOUS
<1>3. PICK V \in SUBSET Causes!Anomalous : V = {s \in Causes!Anomalous : before(s, v)}
  OBVIOUS
<1>4. R \subseteq V
  BY <1>1, <1>2, <1>3
<1>5. r \in V /\ r \notin R
  BY <1>1, <1>2, <1>3
<1>6. IsFiniteSet(R) /\ IsFiniteSet(V) /\ Cardinality(R) \in Nat /\ Cardinality(V) \in Nat
  BY RankFacts, FS_Subset, FS_CardinalityType
<1>7. Cardinality(R) < Cardinality(V)
  <2>1. R # V
    BY <1>5
  <2> QED
    BY <1>4, <1>6, <2>1, FS_Subset
<1>8. Causes!RankRootCause[r] = 1 + Cardinality(R) /\ Causes!RankRootCause[v] = 1 + Cardinality(V)
  <2>1. PICK score : score = [svc \in Causes!Anomalous |-> Causes!Score(svc)]
    OBVIOUS
  <2>2. \A svc \in Causes!Anomalous : score[svc] = Causes!Score(svc)
    BY <2>1
  <2>3. Causes!RankRootCause = [svc \in Causes!Anomalous |-> 1 + Causes!Cardinality(
           {s \in Causes!Anomalous : score[s] > score[svc] \/ (score[s] = score[svc] /\ Causes!FirstOf(s) < Causes!FirstOf(svc))})]
    BY <2>1, Zenon DEF Causes!RankRootCause
  <2>4. ASSUME NEW svc \in Causes!Anomalous
        PROVE  {s \in Causes!Anomalous : score[s] > score[svc] \/ (score[s] = score[svc] /\ Causes!FirstOf(s) < Causes!FirstOf(svc))}
                 = {s \in Causes!Anomalous : before(s, svc)}
    BY <2>2
  <2> HIDE DEF before
  <2>5. \A svc \in Causes!Anomalous : Causes!RankRootCause[svc] = 1 + Causes!Cardinality({s \in Causes!Anomalous : before(s, svc)})
    BY <2>3, <2>4
  <2> QED
    BY <1>2, <1>3, <2>5, CountedServices
<1> QED
  BY <1>6, <1>7, <1>8

\* The cause is ahead of its victim by what the victim's anomalies can weigh and more.
LEMMA CauseScoresMore ==
    ASSUME Known, NEW r \in Causes!Anomalous, Causes!Upstream(r) = {}, NEW v \in Causes!Dependents(r),
           Causes!Ordering(r) >= Causes!Ordering(v), Causes!Marked(v) => Causes!Marked(r),
           Causes!Cardinality(Causes!Of(v)) <= 10
    PROVE  v \in Causes!Anomalous /\ Causes!Score(r) > Causes!Score(v)
<1>1. PICK d \in Pairs : d = Causes!Closure /\ By(d, Members)
  BY ClosureFacts DEF Known
<1>2. /\ v \in Causes!Anomalous /\ v # r /\ <<v, r>> \in d
      /\ Causes!Anomalous \in SUBSET Members /\ IsFiniteSet(Causes!Anomalous)
  BY <1>1, RankFacts DEF Causes!Dependents, Causes!DependsOn
<1>19. \A s : Causes!Dependents(s) = {o \in Causes!Anomalous \ {s} : <<o, s>> \in d}
  BY <1>1, Zenon DEF Causes!Dependents, Causes!DependsOn
<1>3. PICK pr \in SUBSET Causes!Anomalous :
         pr = Causes!Dependents(r) /\ \A o \in Causes!Anomalous \ {r} : o \in pr <=> <<o, r>> \in d
  <2>1. PICK pr : pr = {o \in Causes!Anomalous \ {r} : <<o, r>> \in d}
    OBVIOUS
  <2>2. pr \in SUBSET Causes!Anomalous /\ \A o \in Causes!Anomalous \ {r} : o \in pr <=> <<o, r>> \in d
    BY <2>1
  <2> QED
    BY <1>19, <2>1, <2>2, Zenon
<1>4. PICK pv \in SUBSET Causes!Anomalous :
         pv = Causes!Dependents(v) /\ v \notin pv /\ \A o \in pv : <<o, v>> \in d
  <2>1. PICK pv : pv = {o \in Causes!Anomalous \ {v} : <<o, v>> \in d}
    OBVIOUS
  <2>2. pv \in SUBSET Causes!Anomalous /\ v \notin pv /\ \A o \in pv : <<o, v>> \in d
    BY <2>1
  <2> QED
    BY <1>19, <2>1, <2>2, Zenon
<1>5. PICK uv \in SUBSET Causes!Anomalous : uv = Causes!Upstream(v) /\ r \in uv
  BY <1>1, <1>2 DEF Causes!Upstream, Causes!DependsOn
<1>6. <<r, v>> \notin d
  BY <1>1, <1>2 DEF Causes!Upstream, Causes!DependsOn
<1>7. pv \cup {v} \subseteq pr
  <2>1. ASSUME NEW o \in pv
        PROVE  o \in pr
    <3>1. <<o, v>> \in d /\ o \in Members /\ v \in Members /\ r \in Members
      BY <1>2, <1>4
    <3>2. <<o, r>> \in d
      BY <1>1, <1>2, <3>1 DEF By
    <3>3. o # r
      BY <1>6, <3>1
    <3> QED
      BY <1>3, <3>2, <3>3
  <2> QED
    BY <1>2, <1>3, <2>1
<1>8. IsFiniteSet(pr) /\ IsFiniteSet(pv) /\ IsFiniteSet(uv)
  BY <1>2, FS_Subset
<1>9. PICK a \in Nat, b \in Nat, u \in Nat : a = Cardinality(pr) /\ b = Cardinality(pv) /\ u = Cardinality(uv)
  BY <1>8, FS_CardinalityType
<1>10. a >= b + 1
  <2>1. IsFiniteSet(pv \cup {v}) /\ Cardinality(pv \cup {v}) = b + 1
    BY <1>4, <1>8, <1>9, FS_AddElement
  <2>2. Cardinality(pv \cup {v}) <= Cardinality(pr)
    BY <1>7, <1>8, FS_Subset
  <2> QED
    BY <1>9, <2>1, <2>2
<1>11. u >= 1
  <2>1. u # 0
    BY <1>5, <1>8, <1>9, FS_EmptySet
  <2> QED
    BY <1>9, <2>1
<1>12. PICK wr \in Nat : wr = Causes!Breadth(r) /\ wr >= 1
  <2>1. PICK S : S = Causes!Of(r) /\ S # {}
    BY RankFacts
  <2>2. /\ IsFiniteSet(S) /\ Causes!Breadth(r) \in Nat /\ Causes!Breadth(r) >= Cardinality(S)
    BY <2>1, BreadthFacts DEF Known
  <2>3. Cardinality(S) \in Nat /\ Cardinality(S) # 0
    BY <2>1, <2>2, FS_CardinalityType, FS_EmptySet
  <2> QED
    BY <2>2, <2>3
<1>13. PICK wv \in Nat : wv = Causes!Breadth(v) /\ wv <= 30
  <2>1. PICK S : S = Causes!Of(v)
    OBVIOUS
  <2>2. /\ IsFiniteSet(S) /\ Causes!Breadth(v) \in Nat /\ Causes!Breadth(v) <= 3 * Cardinality(S)
    BY <2>1, BreadthFacts DEF Known
  <2>3. Cardinality(S) \in Nat /\ Cardinality(S) <= 10
    BY <2>1, <2>2, FS_CardinalityType, CountedServices
  <2>4. Causes!Breadth(v) <= 30
    BY <2>2, <2>3
  <2> QED
    BY <2>2, <2>4
<1>14. PICK or \in Nat, ov \in Nat : or = Causes!Ordering(r) /\ ov = Causes!Ordering(v) /\ or >= ov
  <2>1. Causes!Ordering(r) \in {0, 1, 4} /\ Causes!Ordering(v) \in {0, 1, 4}
    BY <1>2, RankFacts
  <2> QED
    BY <2>1
<1>15. PICK mr \in {0, 16}, mv \in {0, 16} :
          /\ mr = IF Causes!Marked(r) THEN 16 ELSE 0
          /\ mv = IF Causes!Marked(v) THEN 16 ELSE 0
          /\ mr >= mv
  OBVIOUS
<1>16. Causes!Score(r) = 20 * a - 12 * 0 + 4 * or + mr + wr
  <2>1. Causes!Cardinality(Causes!Dependents(r)) = a /\ Causes!Cardinality(Causes!Upstream(r)) = 0
    BY <1>3, <1>9, CountedServices, FS_EmptySet
  <2> QED
    BY <1>12, <1>14, <1>15, <2>1 DEF Causes!Score
<1>17. Causes!Score(v) = 20 * b - 12 * u + 4 * ov + mv + wv
  <2>1. Causes!Cardinality(Causes!Dependents(v)) = b /\ Causes!Cardinality(Causes!Upstream(v)) = u
    BY <1>4, <1>5, <1>9, CountedServices
  <2> QED
    BY <1>13, <1>14, <1>15, <2>1 DEF Causes!Score
<1>18. 20 * a - 12 * 0 + 4 * or + mr + wr > 20 * b - 12 * u + 4 * ov + mv + wv
  BY <1>9, <1>10, <1>11, <1>12, <1>13, <1>14, <1>15
<1> QED
  BY <1>2, <1>16, <1>17, <1>18

\* A service that is only loud because of one it depends on does not outrank it: for every graph,
\* with cycles or without, every order of the reports, and all hints of time and change that do
\* not favour the victim.
THEOREM LoudVictimsStayBehind == Joint => []LoudVictimsFollow
<1>1. JointInit => Known
  BY RankingAssumption DEF JointInit, Causes!Init, Known, Pairs
<1>2. Known /\ [JointNext]_JointVars => Known'
  <2> SUFFICES ASSUME Known, [JointNext]_JointVars
               PROVE  Known'
    OBVIOUS
  <2>1. CASE UNCHANGED <<edges, anomalies>>
    BY <2>1 DEF Known
  <2>2. ASSUME NEW svc \in Members, NEW severity \in SevWeight, NEW onset \in Onsets \cup {None},
               Causes!Breach(svc, severity, onset)
        PROVE  Known'
    <3>1. PICK a : a = [service |-> svc, severity |-> severity, onset |-> onset]
      OBVIOUS
    <3>2. a \in Weights
      BY <3>1 DEF Weights
    <3>3. anomalies' = Append(anomalies, a) /\ edges' = edges
      BY <2>2, <3>1 DEF Causes!Breach
    <3> QED
      BY <3>2, <3>3 DEF Known
  <2>3. ASSUME NEW c, Causes!Deploy(c)
        PROVE  Known'
    BY <2>1, <2>3 DEF Causes!Deploy
  <2>4. CASE Causes!Next
    BY <2>1, <2>2, <2>3, <2>4 DEF Causes!Next, Causes!vars
  <2> QED
    BY <2>1, <2>4 DEF JointNext, JointVars, ranking
<1>3. Known => LoudVictimsFollow
  <2> SUFFICES ASSUME Known, NEW r \in Causes!Anomalous, Causes!Upstream(r) = {}, NEW v \in Causes!Dependents(r),
                      Causes!Ordering(r) >= Causes!Ordering(v), Causes!Marked(v) => Causes!Marked(r),
                      Causes!Cardinality(Causes!Of(v)) <= 10
               PROVE  Causes!RankRootCause[r] < Causes!RankRootCause[v]
    BY Zenon DEF LoudVictimsFollow, Causes!LoudVictimsFollow
  <2> QED
    BY CauseScoresMore, RankedBefore
<1> QED
  BY <1>1, <1>2, <1>3, PTL DEF Joint

----------------------------------------------------------------------------
\* McpSessions, for any sets of session ids, products and requests in flight.  The inductive
\* invariant adds to the two properties what links a request to the session it works on.

\* What the handlers rely on: types, the surface of a request against the surface its
\* session was minted on, and that the POSTs left on a deleted session were under way then.
Typed ==
    /\ product \in [Sids -> Surfaces]
    /\ slot \in [Slots -> Request \cup {Idle}]
    /\ minted \in [Sids -> Surfaces \cup {Idle}]
    /\ removed \subseteq Sids
    /\ trailing \subseteq Slots

Issued ==
    /\ transports \subseteq Sids /\ \A sid \in transports : minted[sid] # Idle
    /\ \A s \in Slots : slot[s] # Idle => minted[slot[s].sid] # Idle

PostsLeftTrail == \A sid \in removed : minted[sid] # Idle /\ Posts(sid) \subseteq trailing

SessionIInv == Typed /\ Issued /\ BoundToProduct /\ DeletedStaysDeleted /\ PostsLeftTrail

USE SessionAssumption

\* A slot that is not idle holds a request.
LEMMA SlotHoldsRequest ==
    ASSUME Typed, NEW s \in Slots, slot[s] # Idle
    PROVE  /\ slot[s] \in Request
           /\ slot[s].sid \in Sids /\ slot[s].on \in Surfaces
BY DEF Typed, Request

LEMMA InitHolds == Init => SessionIInv
BY DEF Init, SessionIInv, Typed, Issued, BoundToProduct, DeletedStaysDeleted, PostsLeftTrail, Surfaces

LEMMA PostNewPreserves ==
    ASSUME SessionIInv, NEW s \in Slots, NEW sid \in Sids, NEW on \in Surfaces, PostNew(s, sid, on)
    PROVE  SessionIInv'
<1> DEFINE request == [step |-> "post", sid |-> sid, on |-> on]
<1>1. /\ minted[sid] = Idle /\ minted' = [minted EXCEPT ![sid] = on]
      /\ slot[s] = Idle /\ slot' = [slot EXCEPT ![s] = request]
      /\ UNCHANGED <<transports, product, removed, trailing>>
  BY DEF PostNew, Begin, maps
<1>2. request \in Request
  BY DEF Request
<1>3. Typed'
  BY <1>1, <1>2 DEF SessionIInv, Typed
<1>4. BoundToProduct'
  <2>1. Idle \notin Surfaces
    BY DEF Surfaces
  <2>2. ASSUME NEW r \in Slots, slot'[r] # Idle, slot'[r].on # Root
        PROVE  minted'[slot'[r].sid] = slot'[r].on
    <3>1. CASE r = s
      BY <1>1, <3>1 DEF SessionIInv, Typed
    <3>2. CASE r # s
      <4>1. slot'[r] = slot[r] /\ slot[r].sid \in Sids /\ slot[r].on \in Surfaces
        BY <1>1, <2>2, <3>2, SlotHoldsRequest DEF SessionIInv, Typed
      <4>2. minted[slot[r].sid] = slot[r].on
        BY <2>2, <4>1 DEF SessionIInv, BoundToProduct
      <4> QED
        BY <1>1, <2>1, <4>1, <4>2 DEF SessionIInv, Typed
    <3> QED
      BY <3>1, <3>2
  <2>3. ASSUME NEW id \in Sids
        PROVE  product'[id] \in {Root, minted'[id]}
    BY <1>1, <2>1 DEF SessionIInv, Typed, BoundToProduct
  <2> QED
    BY <2>2, <2>3 DEF BoundToProduct
<1>5. DeletedStaysDeleted'
  BY <1>1 DEF SessionIInv, DeletedStaysDeleted
<1>6. PostsLeftTrail'
  BY <1>1 DEF SessionIInv, Typed, PostsLeftTrail, Posts
<1>9. Issued'
  BY <1>1, SlotHoldsRequest DEF SessionIInv, Typed, Issued, Surfaces
<1> QED
  BY <1>3, <1>4, <1>5, <1>6, <1>9 DEF SessionIInv

LEMMA PostKnownPreserves ==
    ASSUME SessionIInv, NEW s \in Slots, NEW sid \in Sids, NEW on \in Surfaces, PostKnown(s, sid, on)
    PROVE  SessionIInv'
<1> DEFINE request == [step |-> "post", sid |-> sid, on |-> on]
<1>1. /\ sid \in transports /\ (on = Root \/ product[sid] = on)
      /\ slot[s] = Idle /\ slot' = [slot EXCEPT ![s] = request]
      /\ UNCHANGED <<transports, product, minted, removed, trailing>>
  BY DEF PostKnown, Begin, Finds, maps
<1>2. request \in Request
  BY DEF Request
<1>3. on # Root => minted[sid] = on
  BY <1>1 DEF SessionIInv, BoundToProduct
<1>4. sid \notin removed
  BY <1>1 DEF SessionIInv, DeletedStaysDeleted
<1>5. Typed'
  BY <1>1, <1>2 DEF SessionIInv, Typed
<1>6. BoundToProduct'
  BY <1>1, <1>3 DEF SessionIInv, Typed, BoundToProduct
<1>7. DeletedStaysDeleted' /\ PostsLeftTrail'
  BY <1>1, <1>4 DEF SessionIInv, Typed, DeletedStaysDeleted, PostsLeftTrail, Posts
<1>9. Issued'
  BY <1>1 DEF SessionIInv, Typed, Issued
<1> QED
  BY <1>5, <1>6, <1>7, <1>9 DEF SessionIInv

LEMMA DeleteSessionPreserves ==
    ASSUME SessionIInv, NEW s \in Slots, NEW sid \in Sids, NEW on \in Surfaces, Delete(s, sid, on)
    PROVE  SessionIInv'
<1> DEFINE request == [step |-> "delete", sid |-> sid, on |-> on]
<1>1. /\ sid \in transports /\ (on = Root \/ product[sid] = on)
      /\ slot[s] = Idle /\ slot' = [slot EXCEPT ![s] = request]
      /\ UNCHANGED <<transports, product, minted, removed, trailing>>
  BY DEF Delete, Begin, Finds, maps
<1>2. request \in Request
  BY DEF Request
<1>3. on # Root => minted[sid] = on
  BY <1>1 DEF SessionIInv, BoundToProduct
<1>4. Typed'
  BY <1>1, <1>2 DEF SessionIInv, Typed
<1>5. BoundToProduct'
  BY <1>1, <1>3 DEF SessionIInv, Typed, BoundToProduct
<1>6. DeletedStaysDeleted' /\ PostsLeftTrail'
  BY <1>1 DEF SessionIInv, Typed, DeletedStaysDeleted, PostsLeftTrail, Posts
<1>9. Issued'
  BY <1>1 DEF SessionIInv, Typed, Issued
<1> QED
  BY <1>4, <1>5, <1>6, <1>9 DEF SessionIInv

\* The tail may put a session back, but only one with a POST in flight; a tag it writes is
\* the surface the request came in on, which is where the session was minted.
LEMMA PostEndsPreserves ==
    ASSUME SessionIInv, NEW s \in Slots, PostEnds(s)
    PROVE  SessionIInv'
<1> DEFINE sid == slot[s].sid
           on == slot[s].on
<1>1. /\ slot[s] # Idle /\ slot[s].step = "post"
      /\ transports' = transports \cup {sid}
      /\ product' = IF sid \in transports \/ on = Root THEN product ELSE [product EXCEPT ![sid] = on]
      /\ slot' = [slot EXCEPT ![s] = Idle]
      /\ removed' = IF s \in trailing THEN removed \ {sid} ELSE removed
      /\ trailing' = trailing \ {s}
      /\ UNCHANGED minted
  BY DEF PostEnds, End
<1>2. sid \in Sids /\ on \in Surfaces
  BY <1>1, SlotHoldsRequest DEF SessionIInv
<1>3. on # Root => minted[sid] = on
  BY <1>1 DEF SessionIInv, BoundToProduct
<1>4. sid \notin removed' /\ removed' \subseteq removed
  BY <1>1 DEF SessionIInv, PostsLeftTrail, Posts
<1>8. minted[sid] # Idle
  BY <1>1 DEF SessionIInv, Issued
<1> HIDE DEF sid, on
<1>5. Typed'
  BY <1>1, <1>2 DEF SessionIInv, Typed
<1>6. BoundToProduct'
  BY <1>1, <1>2, <1>3 DEF SessionIInv, Typed, BoundToProduct
<1>7. DeletedStaysDeleted' /\ PostsLeftTrail'
  BY <1>1, <1>4 DEF SessionIInv, Typed, DeletedStaysDeleted, PostsLeftTrail, Posts
<1>9. Issued'
  BY <1>1, <1>2, <1>8 DEF SessionIInv, Typed, Issued
<1> QED
  BY <1>5, <1>6, <1>7, <1>9 DEF SessionIInv

LEMMA PostEndsUnnamedPreserves ==
    ASSUME SessionIInv, NEW s \in Slots, PostEndsUnnamed(s)
    PROVE  SessionIInv'
<1>1. slot' = [slot EXCEPT ![s] = Idle] /\ trailing' = trailing \ {s} /\ UNCHANGED <<transports, product, minted, removed>>
  BY DEF PostEndsUnnamed, End, maps
<1> QED
  BY <1>1 DEF SessionIInv, Typed, Issued, BoundToProduct, DeletedStaysDeleted, PostsLeftTrail, Posts

LEMMA ClosesPreserves ==
    ASSUME SessionIInv, NEW s \in Slots, Closes(s)
    PROVE  SessionIInv'
<1> DEFINE sid == slot[s].sid
<1>1. /\ slot[s] # Idle /\ slot[s].step = "delete"
      /\ transports' = transports \ {sid}
      /\ product' = IF sid \in transports /\ minted[sid] # Root
                    THEN [product EXCEPT ![sid] = Root] ELSE product
      /\ slot' = [slot EXCEPT ![s].step = "closed"]
      /\ UNCHANGED <<minted, removed, trailing>>
  BY DEF Closes
<1>2. sid \in Sids /\ slot[s] \in Request
  BY <1>1, SlotHoldsRequest DEF SessionIInv
<1>3. /\ slot' = [slot EXCEPT ![s] = [slot[s] EXCEPT !.step = "closed"]]
      /\ [slot[s] EXCEPT !.step = "closed"] \in Request
      /\ [slot[s] EXCEPT !.step = "closed"].sid = slot[s].sid
      /\ [slot[s] EXCEPT !.step = "closed"].on = slot[s].on
      /\ [slot[s] EXCEPT !.step = "closed"].step = "closed"
  BY <1>1, <1>2 DEF Request
<1>4. Typed'
  BY <1>1, <1>3 DEF SessionIInv, Typed, Surfaces
<1>5. BoundToProduct'
  BY <1>1, <1>2, <1>3 DEF SessionIInv, Typed, BoundToProduct
<1>6. DeletedStaysDeleted' /\ PostsLeftTrail'
  BY <1>1, <1>3 DEF SessionIInv, Typed, DeletedStaysDeleted, PostsLeftTrail, Posts
<1>9. Issued'
  BY <1>1, <1>2, <1>3 DEF SessionIInv, Typed, Issued
<1> QED
  BY <1>4, <1>5, <1>6, <1>9 DEF SessionIInv

\* Whatever POSTs are left on the id are trailing from here on.
LEMMA DeleteEndsPreserves ==
    ASSUME SessionIInv, NEW s \in Slots, DeleteEnds(s)
    PROVE  SessionIInv'
<1> DEFINE sid == slot[s].sid
<1>1. /\ slot[s] # Idle /\ slot[s].step = "closed"
      /\ transports' = transports \ {sid}
      /\ product' = [product EXCEPT ![sid] = Root]
      /\ removed' = removed \cup {sid}
      /\ trailing' = trailing \cup Posts(sid)
      /\ slot' = [slot EXCEPT ![s] = Idle]
      /\ UNCHANGED minted
  BY DEF DeleteEnds, End
<1>2. sid \in Sids
  BY <1>1, SlotHoldsRequest DEF SessionIInv
<1>3. minted[sid] # Idle
  BY <1>1 DEF SessionIInv, Issued
<1>4. \A r \in Slots : slot'[r] # Idle => slot'[r] = slot[r] /\ r # s
  BY <1>1 DEF SessionIInv, Typed
<1>5. \A id \in Sids : Posts(id)' \subseteq Posts(id)
  BY <1>4 DEF Posts
<1> HIDE DEF sid
<1>6. Typed' /\ Issued'
  BY <1>1, <1>2, <1>4 DEF SessionIInv, Typed, Issued, Surfaces, Posts
<1>7. BoundToProduct'
  BY <1>1, <1>2, <1>4 DEF SessionIInv, Typed, BoundToProduct
<1>8. DeletedStaysDeleted'
  BY <1>1 DEF SessionIInv, DeletedStaysDeleted
<1>9. PostsLeftTrail'
  <2> SUFFICES ASSUME NEW gone \in removed'
               PROVE  minted'[gone] # Idle /\ Posts(gone)' \subseteq trailing'
    BY DEF PostsLeftTrail
  <2>1. CASE gone \in removed
    BY <1>1, <1>5, <2>1 DEF SessionIInv, Typed, PostsLeftTrail
  <2>2. CASE gone \notin removed
    <3>1. gone = sid
      BY <1>1, <2>2
    <3> QED
      BY <1>1, <1>2, <1>3, <1>5, <3>1
  <2> QED
    BY <2>1, <2>2
<1> QED
  BY <1>6, <1>7, <1>8, <1>9 DEF SessionIInv

LEMMA SweepPreserves ==
    ASSUME SessionIInv, Sweep
    PROVE  SessionIInv'
<1>1. /\ transports' \subseteq transports
      /\ product' = [sid \in Sids |-> IF sid \in Expired THEN Root ELSE product[sid]]
      /\ UNCHANGED <<slot, minted, removed, trailing>>
  BY DEF Sweep
<1>2. product' \in [Sids -> Surfaces] /\ \A sid \in Sids : product'[sid] \in {Root, product[sid]}
  BY <1>1 DEF SessionIInv, Typed, Surfaces
<1> QED
  BY <1>1, <1>2 DEF SessionIInv, Typed, Issued, BoundToProduct, DeletedStaysDeleted, PostsLeftTrail, Posts

LEMMA QuietStepPreserves ==
    ASSUME SessionIInv, UNCHANGED <<transports, product, slot, minted, removed, trailing>>
    PROVE  SessionIInv'
BY DEF SessionIInv, Typed, Issued, BoundToProduct, DeletedStaysDeleted, PostsLeftTrail, Posts

LEMMA StepPreserves ==
    ASSUME SessionIInv, [Next]_vars
    PROVE  SessionIInv'
<1>1. ASSUME NEW s \in Slots, NEW sid \in Sids, NEW on \in Surfaces,
             PostNew(s, sid, on) \/ PostKnown(s, sid, on) \/ Delete(s, sid, on)
      PROVE  SessionIInv'
  BY <1>1, PostNewPreserves, PostKnownPreserves, DeleteSessionPreserves
<1>2. ASSUME NEW s \in Slots, PostEnds(s) \/ PostEndsUnnamed(s) \/ Closes(s) \/ DeleteEnds(s)
      PROVE  SessionIInv'
  BY <1>2, PostEndsPreserves, PostEndsUnnamedPreserves, ClosesPreserves, DeleteEndsPreserves
<1>3. CASE Sweep
  BY <1>3, SweepPreserves
<1>4. CASE Tick
  BY <1>4, QuietStepPreserves DEF Tick
<1>5. CASE UNCHANGED vars
  BY <1>5, QuietStepPreserves DEF vars, maps
<1> QED
  BY <1>1, <1>2, <1>3, <1>4, <1>5 DEF Next

\* The composite's sessions take the steps McpSessions lets them, whichever part is chosen.
LEMMA SessionsOfJoint == Joint => Init /\ [][Next]_vars
<1>1. JointInit => Init
  BY DEF JointInit
<1>2. [JointNext]_JointVars => [Next]_vars
  <2>1. JointNext => Next \/ UNCHANGED vars
    BY DEF JointNext
  <2>2. UNCHANGED JointVars => UNCHANGED vars
    BY DEF JointVars
  <2> QED
    BY <2>1, <2>2
<1> QED
  BY <1>1, <1>2, PTL DEF Joint

\* The inductive invariant holds of the composite.
THEOREM SessionInvariant == Joint => []SessionIInv
<1>1. SessionIInv /\ [Next]_vars => SessionIInv'
  BY StepPreserves
<1> QED
  BY <1>1, InitHolds, SessionsOfJoint, PTL

\* The ages and the count, beside what SessionIInv says of the rest: a POST's tail sets an
\* age only for a session that was issued.
Aged ==
    /\ lastActive \in [Sids -> 0 .. Ttl + 1 \cup {Idle}]
    /\ requests \in 0 .. MaxRequests
    /\ \A sid \in Sids : lastActive[sid] # Idle => minted[sid] # Idle

LEMMA AgedPreserved ==
    ASSUME SessionIInv, Aged, [Next]_vars
    PROVE  Aged'
<1>1. ASSUME NEW s \in Slots, NEW sid \in Sids, NEW on \in Surfaces, PostNew(s, sid, on)
      PROVE  Aged'
  <2>1. minted' = [minted EXCEPT ![sid] = on] /\ UNCHANGED <<lastActive, requests>> /\ on # Idle
    BY <1>1 DEF PostNew, maps, Surfaces
  <2> QED
    BY <2>1 DEF Aged, SessionIInv, Typed
<1>2. ASSUME NEW s \in Slots, NEW sid \in Sids, NEW on \in Surfaces,
             PostKnown(s, sid, on) \/ Delete(s, sid, on)
      PROVE  Aged'
  <2>1. requests < MaxRequests /\ requests' = requests + 1 /\ UNCHANGED <<lastActive, minted>>
    BY <1>2 DEF PostKnown, Delete, maps
  <2> QED
    BY <2>1 DEF Aged
<1>3. ASSUME NEW s \in Slots, PostEnds(s)
      PROVE  Aged'
  <2> DEFINE sid == slot[s].sid
  <2>1. sid \in Sids /\ minted[sid] # Idle
    BY <1>3, SlotHoldsRequest DEF PostEnds, SessionIInv, Issued
  <2>2. lastActive' = [lastActive EXCEPT ![sid] = 0] /\ UNCHANGED <<minted, requests>>
    BY <1>3 DEF PostEnds
  <2> HIDE DEF sid
  <2> QED
    BY <2>1, <2>2 DEF Aged
<1>4. ASSUME NEW s \in Slots, PostEndsUnnamed(s) \/ Closes(s)
      PROVE  Aged'
  BY <1>4 DEF PostEndsUnnamed, Closes, maps, Aged
<1>5. ASSUME NEW s \in Slots, DeleteEnds(s)
      PROVE  Aged'
  <2>1. lastActive' = [lastActive EXCEPT ![slot[s].sid] = Idle] /\ UNCHANGED <<minted, requests>>
    BY <1>5 DEF DeleteEnds
  <2> QED
    BY <2>1 DEF Aged
<1>6. CASE Sweep
  <2>1. /\ lastActive' = [sid \in Sids |-> IF sid \in Expired THEN Idle ELSE lastActive[sid]]
        /\ UNCHANGED <<minted, requests>>
    BY <1>6 DEF Sweep
  <2> QED
    BY <2>1 DEF Aged
<1>7. CASE Tick
  <2>1. /\ lastActive' = [sid \in Sids |-> IF lastActive[sid] # Idle /\ lastActive[sid] <= Ttl
                                            THEN lastActive[sid] + 1 ELSE lastActive[sid]]
        /\ UNCHANGED <<minted, requests>>
    BY <1>7 DEF Tick
  <2>2. \A sid \in Sids : lastActive[sid] # Idle => lastActive[sid] \in 0 .. Ttl + 1
    BY DEF Aged
  <2>3. lastActive' \in [Sids -> 0 .. Ttl + 1 \cup {Idle}]
    BY <2>1, <2>2
  <2>4. \A sid \in Sids : lastActive'[sid] # Idle => minted'[sid] # Idle
    BY <2>1 DEF Aged
  <2> QED
    BY <2>1, <2>3, <2>4 DEF Aged
<1>8. CASE UNCHANGED vars
  BY <1>8 DEF vars, maps, Aged
<1> QED
  BY <1>1, <1>2, <1>3, <1>4, <1>5, <1>6, <1>7, <1>8 DEF Next

\* Every variable keeps its type, and an age is kept for no id that was never issued.
THEOREM SessionTypes == Joint => []TypeOK
<1>1. Init => Aged
  BY DEF Init, Aged
<1>2. SessionIInv /\ Aged => TypeOK
  BY DEF SessionIInv, Typed, Issued, Aged, TypeOK
<1> QED
  BY <1>1, <1>2, SessionsOfJoint, SessionInvariant, AgedPreserved, PTL

\* A request on a virtual server is handled by a session that was minted there.
THEOREM ProductBinding == Joint => []BoundToProduct
<1>1. SessionIInv => BoundToProduct
  BY DEF SessionIInv
<1> QED
  BY <1>1, SessionInvariant, PTL

\* A session deleted while no POST on it was in flight is not in the map again.
THEOREM DeletionIsFinal == Joint => []DeletedStaysDeleted
<1>1. SessionIInv => DeletedStaysDeleted
  BY DEF SessionIInv
<1> QED
  BY <1>1, SessionInvariant, PTL
=============================================================================
