-------------------------- MODULE StoresLogs_proofs --------------------------
(***************************************************************************)
(* What is proved of the two append-only logs of Stores, the post-mortems  *)
(* and the management audit log, for every value of its constants.         *)
(***************************************************************************)
EXTENDS Stores, FoldLemmas, FiniteSetTheorems, SequenceTheorems

----------------------------------------------------------------------------
\* The post-mortems.  What a boot would make of the file's lines.
WholeIds(lines) == {lines[i].id : i \in {k \in DOMAIN lines : lines[k].how = "whole"}}
Stored == mAcked \ (excused \cup mDropped)
Forgotten == gone \ excused
Fetching(w) == post[w].at = "fetching"

ReportTypes ==
    /\ live \in Seq(Lines) /\ gen \in Nat /\ entries \in Seq(1 .. MaxReports)
    /\ report \in [1 .. MaxReports -> [got : SUBSET Kinds, had : SUBSET Kinds]]
    /\ post \in [Writers -> Posts \cup {Reports!Idle}]
    /\ del \in Deletions \cup {Reports!Idle}
    /\ mMade \in 0 .. MaxReports /\ mCrashes \in Nat
    /\ mAcked \cup mDropped \cup excused \subseteq 1 .. mMade
    /\ gone \subseteq mDropped

\* No id is given twice.
ReportsFresh ==
    /\ WholeIds(live) \cup Reports!IdsOf(entries) \subseteq 1 .. mMade
    /\ del.at = "written" => WholeIds(del.body) \subseteq 1 .. mMade
    /\ \A w \in Writers : post[w] # Reports!Idle => post[w].id <= mMade
    /\ \A w \in Writers : Fetching(w) => post[w].id \notin Reports!IdsOf(entries) \cup mDropped
    /\ \A v, w \in Writers : Fetching(v) /\ Fetching(w) /\ post[v].id = post[w].id => v = w

\* What a deletion may still take from an append is excused.
ReportsInFlight ==
    /\ del # Reports!Idle => Reports!InFlight \subseteq excused
    /\ \A w \in Writers : post[w].at = "opened" /\ post[w].gen # gen => post[w].id \in excused
    /\ Reports!InFlight \subseteq Reports!IdsOf(entries) \cup excused \cup mDropped
    /\ Reports!InFlight \cap gone \subseteq excused

\* What was answered is in memory, in the file and in the one that will take its place.
ReportsKept ==
    /\ Stored \subseteq WholeIds(live) /\ Stored \subseteq Reports!IdsOf(entries)
    /\ del.at = "written" => Stored \subseteq WholeIds(del.body)

\* What was deleted is in none of them.
ReportsGone ==
    /\ Forgotten \cap WholeIds(live) = {} /\ Forgotten \cap Reports!IdsOf(entries) = {}
    /\ del # Reports!Idle => del.id \in mDropped \ Reports!IdsOf(entries)
    /\ del.at = "written" => (Forgotten \cup {del.id}) \cap WholeIds(del.body) = {}

ReportsIInv == ReportTypes /\ ReportsFresh /\ ReportsInFlight /\ ReportsKept /\ ReportsGone

LEMMA ReportsKeep ==
    ASSUME NEW s, NEW wanted
    PROVE  Reports!Kept(s, wanted) = Filtered(s, wanted)
  BY Zenon DEF Reports!Kept, Reports!FoldLeft, Reports!MapThenFoldSet, Reports!Max, Filtered, FoldLeft, MapThenFoldSet, Max

\* What a boot loads are the ids of the whole lines.
LEMMA LoadedFacts ==
    ASSUME NEW lines \in Seq(Lines)
    PROVE  Reports!Loaded(lines) \in Seq(1 .. MaxReports) /\ Reports!IdsOf(Reports!Loaded(lines)) = WholeIds(lines)
<1> DEFINE ok == Filtered(lines, Reports!Whole)
<1>1. /\ ok \in Seq(Lines)
      /\ \A i \in DOMAIN ok : \E j \in DOMAIN lines : ok[i] = lines[j] /\ lines[j] \in Reports!Whole
      /\ \A j \in DOMAIN lines : lines[j] \in Reports!Whole => \E i \in DOMAIN ok : ok[i] = lines[j]
  BY FilteredRange
<1>2. Reports!Loaded(lines) = [i \in DOMAIN ok |-> ok[i].id]
  BY ReportsKeep, Zenon DEF Reports!Loaded
<1> HIDE DEF ok
<1>3. \A i \in DOMAIN lines : lines[i] \in Reports!Whole <=> lines[i].how = "whole"
  <2>1. \A i \in DOMAIN lines : lines[i] \in Lines
    OBVIOUS
  <2>2. \A l \in Lines : l \in Reports!Whole <=> l.how = "whole"
    BY DEF Lines, Reports!Whole, Reports!Ids
  <2> QED
    BY <2>1, <2>2
<1>4. \A i \in DOMAIN ok : ok[i].id \in 1 .. MaxReports
  <2>1. \A i \in DOMAIN ok : ok[i] \in Lines
    BY <1>1
  <2> QED
    BY <2>1 DEF Lines
<1>5. Reports!Loaded(lines) \in Seq(1 .. MaxReports)
  <2>1. DOMAIN ok = 1 .. Len(ok) /\ Len(ok) \in Nat
    BY <1>1
  <2> DEFINE ids == [i \in 1 .. Len(ok) |-> ok[i].id]
  <2>2. ids \in [1 .. Len(ok) -> 1 .. MaxReports]
    BY <1>4, <2>1
  <2>3. ids \in Seq(1 .. MaxReports)
    BY <2>1, <2>2
  <2> QED
    BY <1>2, <2>1, <2>3
<1>6. Reports!IdsOf(Reports!Loaded(lines)) = {ok[i].id : i \in DOMAIN ok}
  BY <1>2 DEF Reports!IdsOf
<1>7. {ok[i].id : i \in DOMAIN ok} = WholeIds(lines)
  BY <1>1, <1>3 DEF WholeIds
<1> QED
  BY <1>5, <1>6, <1>7

\* A deletion takes one id from the memory.
LEMMA DroppedFacts ==
    ASSUME entries \in Seq(1 .. MaxReports), NEW id
    PROVE  LET rest == Reports!Kept(entries, Reports!Ids \ {id})
           IN  rest \in Seq(1 .. MaxReports) /\ Reports!IdsOf(rest) = Reports!IdsOf(entries) \ {id}
<1> DEFINE wanted == Reports!Ids \ {id}
           rest == Filtered(entries, wanted)
<1>1. /\ rest \in Seq(1 .. MaxReports)
      /\ \A i \in DOMAIN rest : \E j \in DOMAIN entries : rest[i] = entries[j] /\ entries[j] \in wanted
      /\ \A j \in DOMAIN entries : entries[j] \in wanted => \E i \in DOMAIN rest : rest[i] = entries[j]
  <2> HIDE DEF wanted
  <2> QED
    BY FilteredRange
<1>2. Reports!Kept(entries, wanted) = rest
  BY ReportsKeep
<1> HIDE DEF rest
<1>3. \A j \in DOMAIN entries : entries[j] \in wanted <=> entries[j] # id
  <2>1. \A j \in DOMAIN entries : entries[j] \in 1 .. MaxReports
    <3> DEFINE S == 1 .. MaxReports
    <3>1. entries \in Seq(S)
      OBVIOUS
    <3> HIDE DEF S
    <3>2. \A j \in DOMAIN entries : entries[j] \in S
      BY <3>1
    <3> QED
      BY <3>2 DEF S
  <2> QED
    BY <2>1 DEF Reports!Ids
<1>4. Reports!IdsOf(rest) = Reports!IdsOf(entries) \ {id}
  <2>1. \A x \in Reports!IdsOf(rest) : x \in Reports!IdsOf(entries) \ {id}
    BY <1>1, <1>3 DEF Reports!IdsOf
  <2>2. \A x \in Reports!IdsOf(entries) \ {id} : x \in Reports!IdsOf(rest)
    BY <1>1, <1>3 DEF Reports!IdsOf
  <2> QED
    BY <2>1, <2>2
<1> QED
  BY <1>1, <1>2, <1>4

LEMMA LineAdded ==
    ASSUME NEW lines \in Seq(Lines), NEW l \in Lines
    PROVE  /\ Append(lines, l) \in Seq(Lines)
           /\ WholeIds(Append(lines, l)) = IF l.how = "whole" THEN WholeIds(lines) \cup {l.id} ELSE WholeIds(lines)
<1> DEFINE longer == Append(lines, l)
<1>1. /\ longer \in Seq(Lines) /\ Len(lines) \in Nat /\ DOMAIN lines = 1 .. Len(lines)
      /\ DOMAIN longer = (1 .. Len(lines)) \cup {Len(lines) + 1}
      /\ longer[Len(lines) + 1] = l /\ \A i \in 1 .. Len(lines) : longer[i] = lines[i]
  OBVIOUS
<1> HIDE DEF longer
<1>2. \A x : x \in WholeIds(longer) <=> \E i \in DOMAIN longer : longer[i].how = "whole" /\ x = longer[i].id
  BY DEF WholeIds
<1>3. \A x : x \in WholeIds(lines) <=> \E i \in DOMAIN lines : lines[i].how = "whole" /\ x = lines[i].id
  BY DEF WholeIds
<1>4. \A x : x \in WholeIds(longer) <=> x \in WholeIds(lines) \/ (l.how = "whole" /\ x = l.id)
  BY <1>1, <1>2, <1>3
<1>5. WholeIds(longer) = IF l.how = "whole" THEN WholeIds(lines) \cup {l.id} ELSE WholeIds(lines)
  BY <1>4
<1> QED
  BY <1>1, <1>5 DEF longer

LEMMA AppendedFacts ==
    ASSUME NEW lines \in Seq(Lines), NEW id \in 1 .. MaxReports
    PROVE  /\ Reports!Appended(lines, id) \in Seq(Lines)
           /\ WholeIds(Reports!Appended(lines, id)) \subseteq WholeIds(lines) \cup {id}
           /\ WholeIds(lines) \subseteq WholeIds(Reports!Appended(lines, id))
           /\ ~Reports!Joins(lines) => id \in WholeIds(Reports!Appended(lines, id))
<1>1. CASE Reports!Joins(lines)
  <2> DEFINE n == Len(lines)
             longer == [lines EXCEPT ![n].how = "broken"]
  <2>1. n \in Nat /\ DOMAIN lines = 1 .. n /\ lines # <<>> /\ lines[n].how = "open"
    BY <1>1 DEF Reports!Joins
  <2>2. n \in DOMAIN lines
    BY <2>1
  <2>3. \A i \in DOMAIN lines : lines[i] \in Lines
    OBVIOUS
  <2>4. /\ DOMAIN longer = DOMAIN lines
        /\ \A i \in DOMAIN lines : longer[i] = IF i = n THEN [lines[i] EXCEPT !.how = "broken"] ELSE lines[i]
    BY <2>2
  <2>5. \A i \in DOMAIN lines : longer[i] \in Lines /\ longer[i].id = lines[i].id
                                /\ (longer[i].how = "whole" <=> lines[i].how = "whole")
    BY <2>1, <2>3, <2>4 DEF Lines
  <2>6. longer \in Seq(Lines)
    BY <2>1, <2>4, <2>5
  <2>7. WholeIds(longer) = WholeIds(lines)
    <3> HIDE DEF longer
    <3> QED
      BY <2>4, <2>5 DEF WholeIds
  <2> QED
    BY <1>1, <2>6, <2>7 DEF Reports!Appended
<1>2. CASE ~Reports!Joins(lines)
  <2>1. [id |-> id, how |-> "whole"] \in Lines
    BY DEF Lines
  <2>2. Reports!Appended(lines, id) = Append(lines, [id |-> id, how |-> "whole"])
    BY <1>2 DEF Reports!Appended
  <2> QED
    BY <2>1, <2>2, LineAdded
<1> QED
  BY <1>1, <1>2

\* The body of a rewrite holds the memory.
LEMMA BodyFacts ==
    ASSUME entries \in Seq(1 .. MaxReports)
    PROVE  LET body == [i \in DOMAIN entries |-> [id |-> entries[i], how |-> "whole"]]
           IN  body \in Seq(Lines) /\ WholeIds(body) = Reports!IdsOf(entries)
<1> DEFINE body == [i \in DOMAIN entries |-> [id |-> entries[i], how |-> "whole"]]
           S == 1 .. MaxReports
<1>1. \A i \in DOMAIN entries : entries[i] \in 1 .. MaxReports
  <2>1. entries \in Seq(S)
    OBVIOUS
  <2> HIDE DEF S
  <2>2. \A i \in DOMAIN entries : entries[i] \in S
    BY <2>1
  <2> QED
    BY <2>2 DEF S
<1>2. DOMAIN entries = 1 .. Len(entries) /\ Len(entries) \in Nat
  OBVIOUS
<1>3. body \in [1 .. Len(entries) -> Lines]
  BY <1>1, <1>2 DEF Lines
<1>4. body \in Seq(Lines)
  BY <1>2, <1>3
<1>5. WholeIds(body) = Reports!IdsOf(entries)
  BY DEF WholeIds, Reports!IdsOf
<1> QED
  BY <1>4, <1>5

LEMMA EntryAdded ==
    ASSUME entries \in Seq(1 .. MaxReports), NEW id \in 1 .. MaxReports
    PROVE  /\ Append(entries, id) \in Seq(1 .. MaxReports)
           /\ Reports!IdsOf(Append(entries, id)) = Reports!IdsOf(entries) \cup {id}
<1> DEFINE longer == Append(entries, id)
<1>1. /\ longer \in Seq(1 .. MaxReports) /\ Len(entries) \in Nat /\ DOMAIN entries = 1 .. Len(entries)
      /\ DOMAIN longer = (1 .. Len(entries)) \cup {Len(entries) + 1}
      /\ longer[Len(entries) + 1] = id /\ \A i \in 1 .. Len(entries) : longer[i] = entries[i]
  OBVIOUS
<1> HIDE DEF longer
<1>2. \A x : x \in Reports!IdsOf(longer) <=> \E i \in DOMAIN longer : x = longer[i]
  BY DEF Reports!IdsOf
<1>3. \A x : x \in Reports!IdsOf(entries) <=> \E i \in DOMAIN entries : x = entries[i]
  BY DEF Reports!IdsOf
<1>4. \A x : x \in Reports!IdsOf(longer) <=> x \in Reports!IdsOf(entries) \/ x = id
  BY <1>1, <1>2, <1>3
<1>5. Reports!IdsOf(longer) = Reports!IdsOf(entries) \cup {id}
  BY <1>4
<1> QED
  BY <1>1, <1>5 DEF longer

LEMMA PostFacts ==
    ASSUME ReportsIInv, NEW w \in Writers
    PROVE  /\ post[w] # Reports!Idle <=> post[w].at # "idle"
           /\ post[w] # Reports!Idle => post[w].id \in 1 .. MaxReports /\ post[w].id <= mMade /\ post[w].id \in Nat
           /\ Fetching(w) => post[w] \in [at : {"fetching"}, id : 1 .. MaxReports, left : SUBSET Kinds,
                                          got : SUBSET Kinds, had : SUBSET Kinds]
           /\ mMade \in Nat /\ mMade <= MaxReports
<1>1. post[w] \in Posts \cup {Reports!Idle} /\ mMade \in 0 .. MaxReports
  BY DEF ReportsIInv, ReportTypes
<1>2. post[w] # Reports!Idle => post[w] \in Posts
  BY <1>1
<1>3. post[w] # Reports!Idle => post[w].id \in 1 .. MaxReports /\ post[w].at # "idle" /\ post[w].id <= mMade
  BY <1>2 DEF Posts, ReportsIInv, ReportsFresh
<1>4. post[w] = Reports!Idle => post[w].at = "idle"
  BY DEF Reports!Idle
<1>5. Fetching(w) => post[w] \in [at : {"fetching"}, id : 1 .. MaxReports, left : SUBSET Kinds,
                                  got : SUBSET Kinds, had : SUBSET Kinds]
  BY <1>2, <1>4 DEF Posts, Fetching
<1> QED
  BY <1>1, <1>3, <1>4, <1>5, ReportsAssumption

LEMMA RegenerateStays ==
    ASSUME ReportsIInv, NEW w \in Writers, Reports!Regenerate(w)
    PROVE  ReportsIInv'
<1> DEFINE new == [at |-> "fetching", id |-> mMade + 1, left |-> Kinds, got |-> {}, had |-> {}]
<1>1. /\ post[w].at = "idle" /\ mMade < MaxReports /\ mMade' = mMade + 1
      /\ post' = [post EXCEPT ![w] = new]
      /\ UNCHANGED <<live, gen, entries, report, del, mCrashes, mAcked, mDropped, gone, excused>>
  BY DEF Reports!Regenerate, Reports!file, Reports!told
<1>2. ReportTypes /\ ReportsFresh /\ ReportsInFlight /\ ReportsKept /\ ReportsGone
  BY DEF ReportsIInv
<1>3. mMade \in Nat /\ mMade + 1 \in 1 .. MaxReports
  BY <1>1, <1>2, ReportsAssumption DEF ReportTypes
<1>4. new \in Posts /\ new.at = "fetching" /\ new.id = mMade + 1 /\ new # Reports!Idle
  BY <1>3 DEF Posts, Reports!Idle
<1> HIDE DEF new
<1>5. post' \in [Writers -> Posts \cup {Reports!Idle}] /\ \A v \in Writers : post'[v] = IF v = w THEN new ELSE post[v]
  BY <1>1, <1>2, <1>4 DEF ReportTypes
<1>6. ReportTypes'
  BY <1>1, <1>2, <1>3, <1>5 DEF ReportTypes
<1>7. \A v \in Writers : post[v] # Reports!Idle => post[v].id <= mMade /\ post[v].id \in Nat
  BY PostFacts
<1>8. \A v \in Writers : Fetching(v) => post[v] # Reports!Idle
  BY DEF Fetching, Reports!Idle
<1>9. ReportsFresh'
  <2>1. (WholeIds(live) \cup Reports!IdsOf(entries) \subseteq 1 .. mMade)'
    BY <1>1, <1>2, <1>3 DEF ReportsFresh, WholeIds, Reports!IdsOf
  <2>2. del'.at = "written" => WholeIds(del'.body) \subseteq 1 .. mMade'
    <3>1. 1 .. mMade \subseteq 1 .. mMade'
      BY <1>1, <1>3
    <3> QED
      BY <1>1, <1>2, <3>1 DEF ReportsFresh
  <2>3. \A v \in Writers : post'[v] # Reports!Idle => post'[v].id <= mMade'
    BY <1>1, <1>3, <1>4, <1>5, <1>7
  <2>4. mMade + 1 \notin Reports!IdsOf(entries) \cup mDropped
    BY <1>2, <1>3 DEF ReportsFresh, ReportTypes
  <2>5. \A v \in Writers : post'[v].at = "fetching" => post'[v].id \notin Reports!IdsOf(entries) \cup mDropped
    BY <1>2, <1>4, <1>5, <2>4 DEF ReportsFresh, Fetching
  <2>6. \A v \in Writers : Fetching(v) => post[v].id # mMade + 1
    BY <1>3, <1>7, <1>8
  <2>7. \A v, u \in Writers : post'[v].at = "fetching" /\ post'[u].at = "fetching" /\ post'[v].id = post'[u].id => v = u
    BY <1>2, <1>4, <1>5, <2>6 DEF ReportsFresh, Fetching
  <2>8. Reports!IdsOf(entries)' = Reports!IdsOf(entries)
    BY <1>1 DEF Reports!IdsOf
  <2> QED
    BY <1>1, <2>1, <2>2, <2>3, <2>5, <2>7, <2>8 DEF ReportsFresh, Fetching, Reports!Idle
<1>10. Reports!InFlight' = Reports!InFlight
  BY <1>1, <1>4, <1>5 DEF Reports!InFlight
<1>11. ReportsInFlight'
  BY <1>1, <1>2, <1>4, <1>5, <1>10 DEF ReportsInFlight, Reports!IdsOf, Reports!Idle
<1>12. ReportsKept'
  BY <1>1, <1>2 DEF ReportsKept, Stored, WholeIds, Reports!IdsOf
<1>13. ReportsGone'
  BY <1>1, <1>2 DEF ReportsGone, Forgotten, WholeIds, Reports!IdsOf, Reports!Idle
<1> QED
  BY <1>6, <1>9, <1>11, <1>12, <1>13 DEF ReportsIInv

\* A request goes on without anything else being changed.
LEMMA ReportGoesOn ==
    ASSUME ReportsIInv, NEW w \in Writers, NEW new \in Posts,
           post[w].at # "idle", new.id = post[w].id,
           new.at = "fetching" <=> Fetching(w), new.at = "opened" => new.gen = gen,
           post' = [post EXCEPT ![w] = new],
           UNCHANGED <<live, gen, entries, report, del, mMade, mCrashes, mAcked, mDropped, gone, excused>>
    PROVE  ReportsIInv'
<1>1. ReportTypes /\ ReportsFresh /\ ReportsInFlight /\ ReportsKept /\ ReportsGone
  BY DEF ReportsIInv
<1>2. new # Reports!Idle /\ new.at \in {"fetching", "pushed", "opened"} /\ post[w].at \in {"fetching", "pushed", "opened"}
  <2>1. \A p \in Posts : p.at \in {"fetching", "pushed", "opened"}
    BY DEF Posts
  <2>2. post[w] \in Posts
    BY <1>1 DEF ReportTypes, Reports!Idle
  <2> QED
    BY <2>1, <2>2 DEF Reports!Idle
<1>3. post' \in [Writers -> Posts \cup {Reports!Idle}] /\ \A v \in Writers : post'[v] = IF v = w THEN new ELSE post[v]
  BY <1>1 DEF ReportTypes
<1>4. ReportTypes'
  BY <1>1, <1>3 DEF ReportTypes
<1>5. Reports!InFlight' = Reports!InFlight
  BY <1>2, <1>3 DEF Reports!InFlight, Fetching
<1>6. /\ WholeIds(live)' = WholeIds(live) /\ Reports!IdsOf(entries)' = Reports!IdsOf(entries)
      /\ Stored' = Stored /\ Forgotten' = Forgotten /\ Reports!Idle' = Reports!Idle
  BY DEF WholeIds, Reports!IdsOf, Stored, Forgotten, Reports!Idle
<1>7. ReportsFresh'
  <2>1. \A v \in Writers : post'[v] # Reports!Idle => post'[v].id <= mMade
    BY <1>1, <1>2, <1>3, PostFacts DEF ReportsFresh
  <2>2. \A v \in Writers : Fetching(v)' <=> Fetching(v)
    BY <1>3 DEF Fetching
  <2>3. \A v \in Writers : Fetching(v)' => post'[v].id = post[v].id
    BY <1>3
  <2>4. WholeIds(del'.body) = WholeIds(del.body)
    OBVIOUS
  <2> QED
    BY <1>1, <1>6, <2>1, <2>2, <2>3, <2>4 DEF ReportsFresh
<1>8. ReportsInFlight'
  <2>1. \A v \in Writers : post'[v].at = "opened" /\ post'[v].gen # gen => post'[v].id \in excused
    BY <1>1, <1>3 DEF ReportsInFlight
  <2> QED
    BY <1>1, <1>5, <1>6, <2>1 DEF ReportsInFlight
<1>9. ReportsKept'
  BY <1>1, <1>6 DEF ReportsKept
<1>10. ReportsGone'
  BY <1>1, <1>6 DEF ReportsGone
<1> QED
  BY <1>4, <1>7, <1>8, <1>9, <1>10 DEF ReportsIInv

LEMMA FetchStays ==
    ASSUME ReportsIInv, NEW w \in Writers, NEW k, Reports!Fetch(w, k)
    PROVE  ReportsIInv'
<1>1. PICK answers \in BOOLEAN :
         post' = [post EXCEPT ![w].left = @ \ {k},
                              ![w].got = @ \cup {x \in {k} : answers /\ Reports!Finds(k)},
                              ![w].had = @ \cup {x \in {k} : answers /\ k \in holds}]
  BY Zenon DEF Reports!Fetch
<1>2. Fetching(w) /\ k \in post[w].left
  BY DEF Reports!Fetch, Fetching
<1> DEFINE new == [post[w] EXCEPT !.left = @ \ {k},
                                  !.got = @ \cup {x \in {k} : answers /\ Reports!Finds(k)},
                                  !.had = @ \cup {x \in {k} : answers /\ k \in holds}]
<1>3. post \in [Writers -> Posts \cup {Reports!Idle}]
  BY DEF ReportsIInv, ReportTypes
<1>4. post' = [post EXCEPT ![w] = new]
  BY <1>1, <1>3
<1>5. post[w] \in [at : {"fetching"}, id : 1 .. MaxReports, left : SUBSET Kinds, got : SUBSET Kinds, had : SUBSET Kinds]
  BY <1>2, PostFacts
<1>6. k \in Kinds
  BY <1>2, <1>5
<1>7. /\ {x \in {k} : answers /\ Reports!Finds(k)} \subseteq Kinds
      /\ {x \in {k} : answers /\ k \in holds} \subseteq Kinds
  BY <1>6
<1>8. new \in [at : {"fetching"}, id : 1 .. MaxReports, left : SUBSET Kinds, got : SUBSET Kinds, had : SUBSET Kinds]
      /\ new.id = post[w].id
  BY <1>5, <1>7
<1> HIDE DEF new
<1>9. new \in Posts /\ new.at = "fetching" /\ new.id = post[w].id /\ post[w].at # "idle"
  BY <1>2, <1>8 DEF Posts, Fetching
<1>10. UNCHANGED <<live, gen, entries, report, del, mMade, mCrashes, mAcked, mDropped, gone, excused>>
  BY DEF Reports!Fetch, Reports!file, Reports!told
<1> QED
  BY <1>2, <1>4, <1>9, <1>10, ReportGoesOn

LEMMA OpenStays ==
    ASSUME ReportsIInv, NEW w \in Writers, Reports!Open(w)
    PROVE  ReportsIInv'
<1> DEFINE new == [at |-> "opened", id |-> post[w].id, gen |-> gen]
<1>1. post' = [post EXCEPT ![w] = new] /\ post[w].at = "pushed"
      /\ UNCHANGED <<live, gen, entries, report, del, mMade, mCrashes, mAcked, mDropped, gone, excused>>
  BY DEF Reports!Open, Reports!file, Reports!told
<1>2. post[w].id \in 1 .. MaxReports /\ gen \in Nat
  BY <1>1, PostFacts DEF ReportsIInv, ReportTypes, Reports!Idle
<1>3. new \in Posts /\ new.at = "opened" /\ new.id = post[w].id /\ new.gen = gen
  BY <1>2 DEF Posts
<1> HIDE DEF new
<1>4. ~Fetching(w)
  BY <1>1 DEF Fetching
<1> QED
  BY <1>1, <1>3, <1>4, ReportGoesOn

LEMMA PushStays ==
    ASSUME ReportsIInv, NEW w \in Writers, Reports!Push(w)
    PROVE  ReportsIInv'
<1> DEFINE id == post[w].id
           new == [at |-> "pushed", id |-> id]
<1>1. ReportTypes /\ ReportsFresh /\ ReportsInFlight /\ ReportsKept /\ ReportsGone
  BY DEF ReportsIInv
<1>2. /\ Fetching(w) /\ post' = [post EXCEPT ![w] = new]
      /\ report' = [report EXCEPT ![post[w].id] = [got |-> post[w].got, had |-> post[w].had]]
      /\ entries' = Append(entries, post[w].id)
      /\ excused' = excused \cup {x \in {post[w].id} : del # Reports!Idle}
      /\ UNCHANGED <<live, gen, del, mMade, mCrashes, mAcked, mDropped, gone>>
  BY DEF Reports!Push, Reports!file, Reports!told, Fetching
<1>3. PICK n \in 1 .. MaxReports : n = post[w].id
  BY <1>2, PostFacts DEF Fetching, Reports!Idle
<1>4. n \in 1 .. mMade /\ n \notin Reports!IdsOf(entries) \cup mDropped
  BY <1>1, <1>2, <1>3, PostFacts DEF ReportsFresh, Fetching
<1>5. new \in Posts /\ new.at = "pushed" /\ new.id = n /\ new # Reports!Idle
  BY <1>3 DEF Posts, Reports!Idle
<1>6. post' \in [Writers -> Posts \cup {Reports!Idle}] /\ \A v \in Writers : post'[v] = IF v = w THEN new ELSE post[v]
  BY <1>1, <1>2, <1>5 DEF ReportTypes
<1> HIDE DEF new, id
<1>7. entries' \in Seq(1 .. MaxReports) /\ Reports!IdsOf(entries)' = Reports!IdsOf(entries) \cup {n}
  <2>1. entries \in Seq(1 .. MaxReports)
    BY <1>1 DEF ReportTypes
  <2>2. /\ Append(entries, n) \in Seq(1 .. MaxReports)
        /\ Reports!IdsOf(Append(entries, n)) = Reports!IdsOf(entries) \cup {n}
    BY <2>1, EntryAdded
  <2> QED
    BY <1>2, <1>3, <2>2
<1>8. excused' = excused \cup {x \in {n} : del # Reports!Idle}
  BY <1>2, <1>3
<1>9. ReportTypes'
  <2>1. report' \in [1 .. MaxReports -> [got : SUBSET Kinds, had : SUBSET Kinds]]
    BY <1>1, <1>2, PostFacts DEF ReportTypes
  <2> QED
    BY <1>1, <1>2, <1>4, <1>6, <1>7, <1>8, <2>1 DEF ReportTypes
<1>10. \A x : x \in Reports!InFlight' <=> x \in Reports!InFlight \/ x = n
  BY <1>2, <1>3, <1>5, <1>6 DEF Reports!InFlight, Fetching
<1>11. WholeIds(live)' = WholeIds(live) /\ WholeIds(del'.body) = WholeIds(del.body) /\ Reports!Idle' = Reports!Idle
  BY <1>2 DEF WholeIds, Reports!Idle
<1>12. ReportsFresh'
  <2>1. \A v \in Writers : post'[v] # Reports!Idle => post'[v].id <= mMade
    BY <1>1, <1>4, <1>5, <1>6, PostFacts DEF ReportsFresh
  <2>2. \A v \in Writers : Fetching(v)' => v # w /\ Fetching(v) /\ post'[v] = post[v]
    BY <1>5, <1>6 DEF Fetching
  <2>3. \A v \in Writers : Fetching(v)' => post'[v].id \notin Reports!IdsOf(entries)' \cup mDropped
    BY <1>1, <1>2, <1>3, <1>7, <2>2 DEF ReportsFresh
  <2>4. \A v, u \in Writers : Fetching(v)' /\ Fetching(u)' /\ post'[v].id = post'[u].id => v = u
    BY <1>1, <2>2 DEF ReportsFresh
  <2> QED
    BY <1>1, <1>2, <1>4, <1>7, <1>11, <2>1, <2>3, <2>4 DEF ReportsFresh
<1>13. ReportsInFlight'
  <2>1. del' # Reports!Idle => Reports!InFlight' \subseteq excused'
    BY <1>1, <1>2, <1>8, <1>10 DEF ReportsInFlight
  <2>2. \A v \in Writers : post'[v].at = "opened" /\ post'[v].gen # gen => post'[v].id \in excused'
    BY <1>1, <1>5, <1>6, <1>8 DEF ReportsInFlight
  <2>3. Reports!InFlight' \subseteq Reports!IdsOf(entries)' \cup excused' \cup mDropped
    BY <1>1, <1>7, <1>8, <1>10 DEF ReportsInFlight
  <2>4. Reports!InFlight' \cap gone \subseteq excused'
    BY <1>1, <1>4, <1>8, <1>10 DEF ReportsInFlight, ReportTypes
  <2> QED
    BY <1>2, <1>11, <2>1, <2>2, <2>3, <2>4 DEF ReportsInFlight
<1>14. Stored' \subseteq Stored /\ Forgotten' \subseteq Forgotten
  BY <1>2, <1>8 DEF Stored, Forgotten
<1>15. ReportsKept'
  BY <1>1, <1>2, <1>7, <1>11, <1>14 DEF ReportsKept
<1>16. ReportsGone'
  <2>1. n \notin gone
    BY <1>1, <1>4 DEF ReportTypes
  <2>2. Forgotten' \cap Reports!IdsOf(entries)' = {}
    BY <1>1, <1>7, <1>14, <2>1 DEF ReportsGone, Forgotten
  <2>3. del # Reports!Idle => del.id # n
    BY <1>1, <1>4 DEF ReportsGone
  <2> QED
    BY <1>1, <1>2, <1>7, <1>11, <1>14, <2>2, <2>3 DEF ReportsGone
<1> QED
  BY <1>9, <1>12, <1>13, <1>15, <1>16 DEF ReportsIInv

\* A request ends: what it had in flight is not any more.
LEMMA ReportEnds ==
    ASSUME ReportsIInv, NEW w \in Writers, post' = [post EXCEPT ![w] = Reports!Idle]
    PROVE  /\ post' \in [Writers -> Posts \cup {Reports!Idle}]
           /\ \A v \in Writers : post'[v] # Reports!Idle => v # w /\ post'[v] = post[v]
           /\ \A v \in Writers : Fetching(v)' => v # w /\ Fetching(v) /\ post'[v] = post[v]
           /\ \A v \in Writers : post'[v].at = "opened" => v # w /\ post'[v] = post[v]
           /\ Reports!InFlight' \subseteq Reports!InFlight
<1>1. post \in [Writers -> Posts \cup {Reports!Idle}]
  BY DEF ReportsIInv, ReportTypes
<1>2. post' \in [Writers -> Posts \cup {Reports!Idle}]
  BY <1>1
<1>3. \A v \in Writers : post'[v] = IF v = w THEN Reports!Idle ELSE post[v]
  BY <1>1
<1>4. Reports!Idle.at = "idle"
  BY DEF Reports!Idle
<1>5. \A v \in Writers : Fetching(v)' => v # w /\ Fetching(v) /\ post'[v] = post[v]
  BY <1>3, <1>4 DEF Fetching
<1>6. \A v \in Writers : post'[v].at = "opened" => v # w /\ post'[v] = post[v]
  BY <1>3, <1>4
<1>7. Reports!InFlight' \subseteq Reports!InFlight
  BY <1>3, <1>4 DEF Reports!InFlight
<1> QED
  BY <1>2, <1>3, <1>5, <1>6, <1>7

\* The beginning of a line holds no report.
LEMMA CutShortFacts ==
    ASSUME ReportsIInv, NEW w \in Writers, post[w].at = "opened", Reports!CutShort(w)
    PROVE  live' \in Seq(Lines) /\ WholeIds(live') = WholeIds(live)
<1>1. live \in Seq(Lines) /\ live' = Append(live, [id |-> post[w].id, how |-> "open"])
  BY DEF ReportsIInv, ReportTypes, Reports!CutShort
<1>2. post[w].id \in 1 .. MaxReports
  BY PostFacts
<1>3. PICK l \in Lines : l = [id |-> post[w].id, how |-> "open"]
  BY <1>2 DEF Lines
<1>4. live' = Append(live, l) /\ l.how = "open"
  BY <1>1, <1>3
<1> QED
  BY <1>1, <1>4, LineAdded

LEMMA WriteFailsStays ==
    ASSUME ReportsIInv, NEW w \in Writers, Reports!WriteFails(w)
    PROVE  ReportsIInv'
<1>1. ReportTypes /\ ReportsFresh /\ ReportsInFlight /\ ReportsKept /\ ReportsGone
  BY DEF ReportsIInv
<1>2. /\ post' = [post EXCEPT ![w] = Reports!Idle]
      /\ UNCHANGED <<gen, entries, report, del, mMade, mCrashes, mAcked, mDropped, gone, excused>>
  BY DEF Reports!WriteFails, Reports!told
<1>10. live' \in Seq(Lines) /\ WholeIds(live') = WholeIds(live)
  <2>1. live \in Seq(Lines) /\ post[w].at = "opened" /\ (live' = live \/ Reports!CutShort(w))
    BY <1>1 DEF ReportTypes, Reports!WriteFails
  <2> QED
    BY <2>1, CutShortFacts
<1>3. /\ post' \in [Writers -> Posts \cup {Reports!Idle}]
      /\ \A v \in Writers : post'[v] # Reports!Idle => v # w /\ post'[v] = post[v]
      /\ \A v \in Writers : Fetching(v)' => v # w /\ Fetching(v) /\ post'[v] = post[v]
      /\ \A v \in Writers : post'[v].at = "opened" => v # w /\ post'[v] = post[v]
      /\ Reports!InFlight' \subseteq Reports!InFlight
  BY <1>2, ReportEnds
<1>4. /\ WholeIds(live)' = WholeIds(live) /\ Reports!IdsOf(entries)' = Reports!IdsOf(entries)
      /\ WholeIds(del'.body) = WholeIds(del.body)
      /\ Stored' = Stored /\ Forgotten' = Forgotten /\ Reports!Idle' = Reports!Idle
  BY <1>2, <1>10 DEF Reports!IdsOf, Stored, Forgotten, Reports!Idle
<1>5. ReportTypes'
  BY <1>1, <1>2, <1>3, <1>10 DEF ReportTypes
<1>6. ReportsFresh'
  BY <1>1, <1>2, <1>3, <1>4 DEF ReportsFresh
<1>7. ReportsInFlight'
  BY <1>1, <1>2, <1>3, <1>4 DEF ReportsInFlight
<1>8. ReportsKept'
  BY <1>1, <1>2, <1>4 DEF ReportsKept
<1>9. ReportsGone'
  BY <1>1, <1>2, <1>4 DEF ReportsGone
<1> QED
  BY <1>5, <1>6, <1>7, <1>8, <1>9 DEF ReportsIInv

LEMMA WriteStays ==
    ASSUME ReportsIInv, NEW w \in Writers, Reports!Write(w)
    PROVE  ReportsIInv'
<1>1. ReportTypes /\ ReportsFresh /\ ReportsInFlight /\ ReportsKept /\ ReportsGone
  BY DEF ReportsIInv
<1>2. /\ post[w].at = "opened" /\ post' = [post EXCEPT ![w] = Reports!Idle]
      /\ live' = IF post[w].gen = gen THEN Reports!Appended(live, post[w].id) ELSE live
      /\ excused' = excused \cup {x \in {post[w].id} : Reports!Joins(live)}
      /\ mAcked' = mAcked \cup {post[w].id}
      /\ UNCHANGED <<gen, entries, report, del, mMade, mCrashes, mDropped, gone>>
  BY DEF Reports!Write
<1>3. /\ post' \in [Writers -> Posts \cup {Reports!Idle}]
      /\ \A v \in Writers : post'[v] # Reports!Idle => v # w /\ post'[v] = post[v]
      /\ \A v \in Writers : Fetching(v)' => v # w /\ Fetching(v) /\ post'[v] = post[v]
      /\ \A v \in Writers : post'[v].at = "opened" => v # w /\ post'[v] = post[v]
      /\ Reports!InFlight' \subseteq Reports!InFlight
  BY <1>2, ReportEnds
<1>4. PICK n \in 1 .. MaxReports : n = post[w].id
  BY <1>2, PostFacts
<1>5. n \in 1 .. mMade /\ n \in Reports!InFlight
  <2>1. n \in Nat /\ n >= 1 /\ n <= mMade
    BY <1>2, <1>4, PostFacts
  <2>2. n \in Reports!InFlight
    BY <1>2, <1>4 DEF Reports!InFlight
  <2> QED
    BY <1>1, <2>1, <2>2 DEF ReportTypes
<1>6. /\ live' \in Seq(Lines) /\ WholeIds(live') \subseteq WholeIds(live) \cup {n}
      /\ WholeIds(live) \subseteq WholeIds(live')
      /\ n \in WholeIds(live') \cup excused'
  <2>1. live \in Seq(Lines)
    BY <1>1 DEF ReportTypes
  <2>2. CASE post[w].gen = gen
    BY <1>2, <1>4, <2>1, <2>2, AppendedFacts
  <2>3. CASE post[w].gen # gen
    <3>1. n \in excused /\ live' = live
      BY <1>1, <1>2, <1>4, <2>3 DEF ReportsInFlight
    <3> QED
      BY <1>2, <2>1, <3>1
  <2> QED
    BY <2>2, <2>3
<1>7. /\ excused \subseteq excused' /\ excused' \subseteq excused \cup {n} /\ mAcked' = mAcked \cup {n}
      /\ Reports!IdsOf(entries)' = Reports!IdsOf(entries) /\ WholeIds(live)' = WholeIds(live')
      /\ WholeIds(del'.body) = WholeIds(del.body) /\ Reports!Idle' = Reports!Idle
  BY <1>2, <1>4 DEF Reports!IdsOf, WholeIds, Reports!Idle
<1>8. ReportTypes'
  BY <1>1, <1>2, <1>3, <1>5, <1>6, <1>7 DEF ReportTypes
<1>9. ReportsFresh'
  <2>1. WholeIds(live') \cup Reports!IdsOf(entries) \subseteq 1 .. mMade
    BY <1>1, <1>5, <1>6 DEF ReportsFresh
  <2> QED
    BY <1>1, <1>2, <1>3, <1>7, <2>1 DEF ReportsFresh
<1>10. ReportsInFlight'
  BY <1>1, <1>2, <1>3, <1>7 DEF ReportsInFlight
<1>11. Stored' \subseteq Stored \cup ({n} \ (excused' \cup mDropped)) /\ Forgotten' \subseteq Forgotten
  BY <1>2, <1>7 DEF Stored, Forgotten
<1>12. ReportsKept'
  <2>1. Stored' \subseteq WholeIds(live')
    BY <1>1, <1>6, <1>11 DEF ReportsKept
  <2>2. n \in Reports!IdsOf(entries) \cup excused' \cup mDropped
    BY <1>1, <1>5, <1>7 DEF ReportsInFlight
  <2>3. Stored' \subseteq Reports!IdsOf(entries)
    BY <1>1, <1>11, <2>2 DEF ReportsKept
  <2>4. del # Reports!Idle => Stored' \subseteq Stored
    BY <1>1, <1>5, <1>7, <1>11 DEF ReportsInFlight
  <2>5. del.at = "written" => del # Reports!Idle
    BY DEF Reports!Idle
  <2> QED
    BY <1>1, <1>2, <1>7, <2>1, <2>3, <2>4, <2>5 DEF ReportsKept
<1>13. ReportsGone'
  <2>1. n \notin Forgotten
    BY <1>1, <1>5 DEF ReportsInFlight, Forgotten
  <2>2. Forgotten' \cap WholeIds(live') = {}
    BY <1>1, <1>6, <1>11, <2>1 DEF ReportsGone
  <2> QED
    BY <1>1, <1>2, <1>7, <1>11, <2>2 DEF ReportsGone
<1> QED
  BY <1>8, <1>9, <1>10, <1>12, <1>13 DEF ReportsIInv

\* A deletion stands at one of its two places.
LEMMA DeletionFacts ==
    ASSUME ReportsIInv
    PROVE  /\ del # Reports!Idle => del \in Deletions
           /\ del.at = "filtered" => del # Reports!Idle /\ del.id \in 1 .. MaxReports
           /\ del.at = "written" => /\ del # Reports!Idle /\ del.id \in 1 .. MaxReports
                                    /\ del.body \in Seq(Lines)
<1>1. del \in Deletions \cup {Reports!Idle}
  BY DEF ReportsIInv, ReportTypes
<1>2. Reports!Idle.at = "idle"
  BY DEF Reports!Idle
<1>3. \A d \in Deletions : /\ d.id \in 1 .. MaxReports /\ d.at \in {"filtered", "written"}
                           /\ d.at = "written" => d.body \in Seq(Lines)
  BY DEF Deletions
<1> QED
  BY <1>1, <1>2, <1>3

LEMMA DeleteStays ==
    ASSUME ReportsIInv, NEW id \in Reports!Ids, Reports!Delete(id)
    PROVE  ReportsIInv'
<1>1. ReportTypes /\ ReportsFresh /\ ReportsInFlight /\ ReportsKept /\ ReportsGone
  BY DEF ReportsIInv
<1>2. /\ del = Reports!Idle /\ id \in Reports!IdsOf(entries)
      /\ entries' = Reports!Kept(entries, Reports!Ids \ {id})
      /\ del' = [at |-> "filtered", id |-> id]
      /\ mDropped' = mDropped \cup {id} /\ excused' = excused \cup Reports!InFlight
      /\ UNCHANGED <<live, gen, report, post, mMade, mCrashes, mAcked, gone>>
  BY DEF Reports!Delete, Reports!file
<1>3. id \in 1 .. MaxReports /\ id \in 1 .. mMade
  BY <1>1, <1>2 DEF Reports!Ids, ReportsFresh
<1>4. entries' \in Seq(1 .. MaxReports) /\ Reports!IdsOf(entries)' = Reports!IdsOf(entries) \ {id}
  <2>1. entries \in Seq(1 .. MaxReports)
    BY <1>1 DEF ReportTypes
  <2> QED
    BY <1>2, <2>1, DroppedFacts
<1>5. del' \in Deletions /\ del'.at = "filtered" /\ del'.id = id
  BY <1>2, <1>3 DEF Deletions
<1>6. Reports!InFlight \subseteq 1 .. mMade
  <2>1. \A v \in Writers : post[v].at \in {"pushed", "opened"} => post[v].id \in 1 .. mMade
    BY <1>1, PostFacts DEF ReportTypes
  <2> QED
    BY <2>1 DEF Reports!InFlight
<1>7. ReportTypes'
  BY <1>1, <1>2, <1>3, <1>4, <1>5, <1>6 DEF ReportTypes
<1>8. /\ Reports!InFlight' = Reports!InFlight /\ WholeIds(live)' = WholeIds(live) /\ Reports!Idle' = Reports!Idle
      /\ \A v \in Writers : Fetching(v)' <=> Fetching(v)
  BY <1>2 DEF Reports!InFlight, WholeIds, Reports!Idle, Fetching
<1>9. ReportsFresh'
  <2>1. \A v \in Writers : Fetching(v) => post[v].id \notin Reports!IdsOf(entries)' \cup mDropped'
    BY <1>1, <1>2, <1>4 DEF ReportsFresh
  <2> QED
    BY <1>1, <1>2, <1>4, <1>5, <1>8, <2>1 DEF ReportsFresh
<1>10. ReportsInFlight'
  BY <1>1, <1>2, <1>4, <1>8 DEF ReportsInFlight
<1>11. Stored' \subseteq Stored \ {id} /\ Forgotten' \subseteq Forgotten
  BY <1>2 DEF Stored, Forgotten
<1>12. ReportsKept'
  BY <1>1, <1>4, <1>5, <1>8, <1>11 DEF ReportsKept
<1>13. ReportsGone'
  BY <1>1, <1>2, <1>4, <1>5, <1>8, <1>11 DEF ReportsGone
<1> QED
  BY <1>7, <1>9, <1>10, <1>12, <1>13 DEF ReportsIInv

LEMMA WriteBodyStays ==
    ASSUME ReportsIInv, Reports!WriteBody
    PROVE  ReportsIInv'
<1> DEFINE body == [i \in DOMAIN entries |-> [id |-> entries[i], how |-> "whole"]]
<1>1. ReportTypes /\ ReportsFresh /\ ReportsInFlight /\ ReportsKept /\ ReportsGone
  BY DEF ReportsIInv
<1>2. /\ del.at = "filtered" /\ del' = [at |-> "written", id |-> del.id, body |-> body]
      /\ UNCHANGED <<live, gen, entries, report, post, mMade, mCrashes, mAcked, mDropped, gone, excused>>
  BY DEF Reports!WriteBody, Reports!told, Reports!Beside
<1>3. body \in Seq(Lines) /\ WholeIds(body) = Reports!IdsOf(entries)
  <2>1. entries \in Seq(1 .. MaxReports)
    BY <1>1 DEF ReportTypes
  <2> QED
    BY <2>1, BodyFacts
<1> HIDE DEF body
<1>4. del # Reports!Idle /\ del.id \in 1 .. MaxReports
  BY <1>2, DeletionFacts
<1>5. del' \in Deletions /\ del'.at = "written" /\ del'.id = del.id /\ del'.body = body
  BY <1>2, <1>3, <1>4 DEF Deletions
<1>6. ReportTypes'
  BY <1>1, <1>2, <1>5 DEF ReportTypes
<1>7. /\ Reports!InFlight' = Reports!InFlight /\ WholeIds(live)' = WholeIds(live) /\ Reports!Idle' = Reports!Idle
      /\ Reports!IdsOf(entries)' = Reports!IdsOf(entries) /\ Stored' = Stored /\ Forgotten' = Forgotten
      /\ WholeIds(del'.body) = Reports!IdsOf(entries)
      /\ \A v \in Writers : Fetching(v)' <=> Fetching(v)
  BY <1>2, <1>3, <1>5 DEF Reports!InFlight, WholeIds, Reports!Idle, Reports!IdsOf, Stored, Forgotten, Fetching
<1>8. ReportsFresh'
  BY <1>1, <1>2, <1>7 DEF ReportsFresh
<1>9. ReportsInFlight'
  BY <1>1, <1>2, <1>4, <1>7 DEF ReportsInFlight
<1>10. ReportsKept'
  BY <1>1, <1>2, <1>7 DEF ReportsKept
<1>11. ReportsGone'
  BY <1>1, <1>2, <1>4, <1>5, <1>7 DEF ReportsGone
<1> QED
  BY <1>6, <1>8, <1>9, <1>10, <1>11 DEF ReportsIInv

LEMMA RenameStays ==
    ASSUME ReportsIInv, Reports!Rename
    PROVE  ReportsIInv'
<1>1. ReportTypes /\ ReportsFresh /\ ReportsInFlight /\ ReportsKept /\ ReportsGone
  BY DEF ReportsIInv
<1>2. /\ del.at = "written" /\ live' = del.body /\ gen' = gen + 1
      /\ gone' = gone \cup {del.id} /\ del' = Reports!Idle
      /\ UNCHANGED <<entries, report, post, mMade, mCrashes, mAcked, mDropped, excused>>
  BY DEF Reports!Rename
<1>3. del # Reports!Idle /\ del.body \in Seq(Lines)
  BY <1>2, DeletionFacts
<1>4. Reports!InFlight \subseteq excused /\ del.id \in mDropped \ Reports!IdsOf(entries)
  BY <1>1, <1>3 DEF ReportsInFlight, ReportsGone
<1>5. ReportTypes'
  BY <1>1, <1>2, <1>3, <1>4 DEF ReportTypes
<1>6. /\ Reports!InFlight' = Reports!InFlight /\ WholeIds(live)' = WholeIds(del.body) /\ Reports!Idle' = Reports!Idle
      /\ Reports!IdsOf(entries)' = Reports!IdsOf(entries) /\ Stored' = Stored
      /\ Forgotten' \subseteq Forgotten \cup {del.id}
      /\ \A v \in Writers : Fetching(v)' <=> Fetching(v)
  BY <1>2 DEF Reports!InFlight, WholeIds, Reports!Idle, Reports!IdsOf, Stored, Forgotten, Fetching
<1>7. del'.at = "idle" /\ del' = Reports!Idle'
  BY <1>2 DEF Reports!Idle
<1>8. ReportsFresh'
  BY <1>1, <1>2, <1>6, <1>7 DEF ReportsFresh
<1>9. ReportsInFlight'
  <2>1. \A v \in Writers : post[v].at = "opened" => post[v].id \in Reports!InFlight
    BY DEF Reports!InFlight
  <2> QED
    BY <1>1, <1>2, <1>4, <1>6, <1>7, <2>1 DEF ReportsInFlight
<1>10. ReportsKept'
  BY <1>1, <1>2, <1>6, <1>7 DEF ReportsKept
<1>11. ReportsGone'
  BY <1>1, <1>2, <1>4, <1>6, <1>7 DEF ReportsGone
<1> QED
  BY <1>5, <1>8, <1>9, <1>10, <1>11 DEF ReportsIInv

LEMMA DeleteFailsStays ==
    ASSUME ReportsIInv, Reports!DeleteFails
    PROVE  ReportsIInv'
<1>1. ReportTypes /\ ReportsFresh /\ ReportsInFlight /\ ReportsKept /\ ReportsGone
  BY DEF ReportsIInv
<1>2. /\ del' = Reports!Idle
      /\ UNCHANGED <<live, gen, entries, report, post, mMade, mCrashes, mAcked, mDropped, gone, excused>>
  BY DEF Reports!DeleteFails, Reports!file, Reports!told
<1>3. /\ Reports!InFlight' = Reports!InFlight /\ WholeIds(live)' = WholeIds(live) /\ Reports!Idle' = Reports!Idle
      /\ Reports!IdsOf(entries)' = Reports!IdsOf(entries) /\ Stored' = Stored /\ Forgotten' = Forgotten
      /\ \A v \in Writers : Fetching(v)' <=> Fetching(v)
  BY <1>2 DEF Reports!InFlight, WholeIds, Reports!Idle, Reports!IdsOf, Stored, Forgotten, Fetching
<1>4. del'.at = "idle" /\ del' = Reports!Idle'
  BY <1>2 DEF Reports!Idle
<1>5. ReportTypes'
  BY <1>1, <1>2 DEF ReportTypes
<1>6. ReportsFresh'
  BY <1>1, <1>2, <1>3, <1>4 DEF ReportsFresh
<1>7. ReportsInFlight'
  BY <1>1, <1>2, <1>3, <1>4 DEF ReportsInFlight
<1>8. ReportsKept'
  BY <1>1, <1>2, <1>3, <1>4 DEF ReportsKept
<1>9. ReportsGone'
  BY <1>1, <1>2, <1>3, <1>4 DEF ReportsGone
<1> QED
  BY <1>5, <1>6, <1>7, <1>8, <1>9 DEF ReportsIInv

LEMMA ReportsRestartStays ==
    ASSUME ReportsIInv, Reports!Restart
    PROVE  ReportsIInv'
<1>1. ReportTypes /\ ReportsFresh /\ ReportsInFlight /\ ReportsKept /\ ReportsGone
  BY DEF ReportsIInv
<1>2. /\ mCrashes' = mCrashes + 1 /\ entries' = Reports!Loaded(live')
      /\ post' = [w \in Writers |-> Reports!Idle] /\ del' = Reports!Idle
      /\ UNCHANGED <<gen, report, mMade, mAcked, mDropped, gone, excused>>
  BY DEF Reports!Restart, Reports!told
<1>3. live' \in Seq(Lines) /\ WholeIds(live') = WholeIds(live)
  <2>1. live \in Seq(Lines)
    BY <1>1 DEF ReportTypes
  <2>2. CASE live' = live
    BY <2>1, <2>2
  <2>3. live' = live \/ \E w \in Writers : post[w].at = "opened" /\ Reports!CutShort(w)
    BY DEF Reports!Restart
  <2> QED
    BY <2>2, <2>3, CutShortFacts
<1>4. entries' \in Seq(1 .. MaxReports) /\ Reports!IdsOf(entries)' = WholeIds(live)
  BY <1>2, <1>3, LoadedFacts
<1>5. \A v \in Writers : post'[v] = Reports!Idle /\ post'[v].at = "idle"
  BY <1>2 DEF Reports!Idle
<1>6. del'.at = "idle" /\ del' = Reports!Idle' /\ Reports!Idle' = Reports!Idle
      /\ WholeIds(live)' = WholeIds(live) /\ Stored' = Stored /\ Forgotten' = Forgotten
  BY <1>2, <1>3 DEF Reports!Idle, Stored, Forgotten
<1>7. Reports!InFlight' = {}
  BY <1>5 DEF Reports!InFlight
<1>8. ReportTypes'
  BY <1>1, <1>2, <1>3, <1>4 DEF ReportTypes
<1>9. ReportsFresh'
  BY <1>1, <1>2, <1>4, <1>5, <1>6 DEF ReportsFresh, Fetching
<1>10. ReportsInFlight'
  BY <1>5, <1>6, <1>7 DEF ReportsInFlight
<1>11. ReportsKept'
  BY <1>1, <1>4, <1>6 DEF ReportsKept
<1>12. ReportsGone'
  BY <1>1, <1>4, <1>6 DEF ReportsGone
<1> QED
  BY <1>8, <1>9, <1>10, <1>11, <1>12 DEF ReportsIInv

LEMMA ReportsStart == Reports!Init => ReportsIInv
<1> SUFFICES ASSUME Reports!Init
             PROVE  ReportsIInv
  OBVIOUS
<1>1. /\ live = <<>> /\ gen = 0 /\ entries = <<>> /\ mMade = 0 /\ mCrashes = 0
      /\ report = [id \in Reports!Ids |-> [got |-> {}, had |-> {}]]
      /\ post = [w \in Writers |-> Reports!Idle] /\ del = Reports!Idle
      /\ mAcked = {} /\ mDropped = {} /\ gone = {} /\ excused = {}
  BY DEF Reports!Init
<1>2. WholeIds(live) = {} /\ Reports!IdsOf(entries) = {}
  BY <1>1 DEF WholeIds, Reports!IdsOf
<1>3. \A w \in Writers : post[w] = Reports!Idle /\ post[w].at = "idle"
  BY <1>1 DEF Reports!Idle
<1>4. Reports!InFlight = {} /\ del.at = "idle"
  BY <1>1, <1>3 DEF Reports!InFlight, Reports!Idle
<1>5. ReportTypes
  <2>1. report \in [1 .. MaxReports -> [got : SUBSET Kinds, had : SUBSET Kinds]]
    BY <1>1 DEF Reports!Ids
  <2> QED
    BY <1>1, <2>1, ReportsAssumption DEF ReportTypes
<1> QED
  BY <1>1, <1>2, <1>3, <1>4, <1>5
  DEF ReportsIInv, ReportsFresh, ReportsInFlight, ReportsKept, ReportsGone, Stored, Forgotten, Fetching

LEMMA ReportsRest == ReportsIInv /\ UNCHANGED postmortems => ReportsIInv'
<1> SUFFICES ASSUME ReportsIInv, UNCHANGED postmortems
             PROVE  ReportsIInv'
  OBVIOUS
<1>1. UNCHANGED <<live, gen, entries, report, post, del, mMade, mCrashes, mAcked, mDropped, gone, excused>>
  BY DEF postmortems
<1>2. ReportTypes'
  BY <1>1 DEF ReportsIInv, ReportTypes, Reports!Idle
<1>3. ReportsFresh'
  BY <1>1 DEF ReportsIInv, ReportsFresh, Reports!Idle, Reports!IdsOf, WholeIds, Fetching
<1>4. ReportsInFlight'
  BY <1>1 DEF ReportsIInv, ReportsInFlight, Reports!Idle, Reports!IdsOf, Reports!InFlight
<1>5. ReportsKept'
  BY <1>1 DEF ReportsIInv, ReportsKept, Reports!IdsOf, WholeIds, Stored
<1>6. ReportsGone'
  BY <1>1 DEF ReportsIInv, ReportsGone, Reports!Idle, Reports!IdsOf, WholeIds, Forgotten
<1> QED
  BY <1>2, <1>3, <1>4, <1>5, <1>6 DEF ReportsIInv

LEMMA ReportsStep == ReportsIInv /\ Reports!Next => ReportsIInv'
<1> SUFFICES ASSUME ReportsIInv, Reports!Next
             PROVE  ReportsIInv'
  OBVIOUS
<1>1. ASSUME NEW w \in Writers, \/ Reports!Regenerate(w) \/ Reports!Push(w) \/ Reports!Open(w)
                                \/ Reports!Write(w) \/ Reports!WriteFails(w)
                                \/ \E k \in Kinds : Reports!Fetch(w, k)
      PROVE  ReportsIInv'
  BY <1>1, RegenerateStays, PushStays, OpenStays, WriteStays, WriteFailsStays, FetchStays
<1>2. ASSUME NEW id \in Reports!Ids, Reports!Delete(id)
      PROVE  ReportsIInv'
  BY <1>2, DeleteStays
<1>3. ASSUME UNCHANGED Reports!vars
      PROVE  ReportsIInv'
  BY <1>3, ReportsRest DEF Reports!vars, Reports!file, postmortems
<1> QED
  BY <1>1, <1>2, <1>3, WriteBodyStays, RenameStays, DeleteFailsStays, ReportsRestartStays DEF Reports!Next

(* The next boot loads every report that was answered 201 and none whose       *)
(* deletion was answered 204, for any number of requests, deletions, failures  *)
(* and crashes, but for an append beside a rewrite and one behind half a line  *)
(* (postmortem/store.ts).                                                      *)
THEOREM ReportsOutlive == Joint => []LossesHaveCauses
<1> DEFINE Inv == which = "postmortems" => ReportsIInv
<1>1. JointInit => Inv
  BY ReportsStart DEF JointInit
<1>2. Inv /\ [JointNext]_JointVars => Inv'
  <2>1. ASSUME Inv, JointNext
        PROVE  Inv'
    BY <2>1, ReportsStep, ReportsRest DEF JointNext
  <2>2. ASSUME Inv, UNCHANGED JointVars
        PROVE  Inv'
    BY <2>2, ReportsRest DEF JointVars
  <2> QED
    BY <2>1, <2>2
<1>3. ReportsIInv => Reports!LossesHaveCauses
  <2> SUFFICES ASSUME ReportsIInv
               PROVE  Reports!LossesHaveCauses
    OBVIOUS
  <2>1. Reports!IdsOf(Reports!Loaded(live)) = WholeIds(live)
    BY LoadedFacts DEF ReportsIInv, ReportTypes
  <2>2. Stored \subseteq WholeIds(live) /\ Forgotten \cap WholeIds(live) = {}
    BY DEF ReportsIInv, ReportsKept, ReportsGone
  <2> QED
    BY <2>1, <2>2 DEF Reports!LossesHaveCauses, Stored, Forgotten
<1>4. Inv => LossesHaveCauses
  BY <1>3 DEF LossesHaveCauses
<1> QED
  BY <1>1, <1>2, <1>4, PTL DEF Joint

----------------------------------------------------------------------------
\* The management audit log.  The hash of the last of some entries, the one the next append
\* follows on, and whether it will not be the one in the file.
Tip(es) == IF es = <<>> THEN Genesis ELSE es[Len(es)].hash
From == IF appends = <<>> THEN lastHash ELSE appends[1].prevHash
Gap == torn \/ (Running /\ From # Tip(Readable))

AuditTypes ==
    /\ LifeTypeOK
    /\ seq \in Nat /\ lastHash \in 0 .. MaxRecords
    /\ ring \in Seq(Entries) /\ Len(ring) <= Cap
    /\ appends \in Seq(Entries) /\ posts \in Seq(Entries) /\ received \in Seq(Entries)
    /\ file \in Seq(LogLines) /\ torn \in BOOLEAN
    /\ attempt \in 1 .. MaxAttempts + 1
    /\ {deadLetters, dropped, pledged} \subseteq SUBSET (1 .. MaxRecords)
    /\ flush \in [waits : {"none", "appends", "posts", "nothing"}, left : Nat]
    /\ made \in 0 .. MaxRecords /\ faults \in Nat
    /\ phase = "down" => appends = <<>> /\ posts = <<>> /\ flush.waits = "none"

\* What is recorded is numbered as it is recorded; what waits for the file follows on.
AuditRecorded ==
    /\ seq <= made
    /\ \A i \in DOMAIN appends : appends[i].seq <= made
    /\ \A i \in DOMAIN Readable : Readable[i].seq <= made
    /\ \A i \in DOMAIN posts : posts[i].hash <= made
    /\ \A i \in DOMAIN received : received[i].hash <= made
    /\ \A i \in DOMAIN appends : i > 1 => appends[i].prevHash = appends[i - 1].hash
    /\ appends # <<>> => lastHash = appends[Len(appends)].hash

\* The receiver is ahead of nothing that waits, and what it has of the head of the queue are
\* the last things that reached it.
AuditDelivery ==
    /\ DeliveredInOrder
    /\ \A i, j \in DOMAIN posts : i < j => posts[i].hash < posts[j].hash
    /\ \A i \in DOMAIN received, j \in DOMAIN posts :
          /\ received[i].hash <= posts[j].hash
          /\ received[i].hash = posts[j].hash => i > Len(received) - (attempt - 1)

\* What the shutdown was begun with is settled, or among what its hook waits for.
Handed == Hashes(received) \cup deadLetters \cup dropped
FirstOf(es, n) == {es[i].hash : i \in {j \in DOMAIN es : j <= n}}
AuditFlush ==
    /\ flush.waits = "appends" => flush.left \in 1 .. Len(appends)
    /\ flush.waits = "posts" => flush.left \in 1 .. Len(posts)
    /\ pledged \subseteq Handed \cup (CASE flush.waits = "appends" -> Hashes(posts)
                                        [] flush.waits = "posts"   -> FirstOf(posts, flush.left)
                                        [] OTHER                   -> {})
    /\ faults = 0 => pledged \subseteq Hashes(Readable) \cup
                        (IF flush.waits = "appends" THEN FirstOf(appends, flush.left) ELSE {})

\* Every break in the file, and the one the next append would make, has its fault.
AuditChain == Cardinality(Breaks(Readable)) + (IF Gap THEN 1 ELSE 0) <= faults

\* Without a fault nothing is missing.
AuditExact == faults = 0 =>
    /\ \A i \in DOMAIN Readable : Readable[i].seq = i
    /\ \A i \in DOMAIN appends : appends[i].seq = Len(Readable) + i
    /\ Running => /\ seq = Len(Readable) + Len(appends) /\ ring = LastOf(Readable \o appends)
                  /\ Hashes(posts) \subseteq Hashes(Readable) \cup Hashes(appends)

AuditIInv == AuditTypes /\ AuditRecorded /\ AuditDelivery /\ AuditFlush /\ AuditChain /\ AuditExact

LEMMA EntryFacts ==
    ASSUME NEW e \in Entries
    PROVE  /\ e.seq \in Nat /\ e.seq \in 1 .. MaxRecords
           /\ e.hash \in Nat \ {0} /\ e.hash \in 1 .. MaxRecords
           /\ e.prevHash \in Nat /\ e.prevHash \in 0 .. MaxRecords
  BY AuditAssumption DEF Entries

\* What the lines of the file are, and what a longer file is.
LEMMA AuditKeep ==
    ASSUME NEW s, NEW wanted
    PROVE  Kept(s, wanted) = Filtered(s, wanted)
  BY Zenon DEF Kept, Filtered

LEMMA LineFacts ==
    ASSUME NEW l \in LogLines
    PROVE  l.entry \in Entries /\ l.whole \in BOOLEAN /\ (l \in [entry : Entries, whole : {TRUE}] <=> l.whole)
<1>1. PICK e \in Entries, w \in BOOLEAN : l = [entry |-> e, whole |-> w]
  BY DEF LogLines
<1>2. l.entry = e /\ l.whole = w
  BY <1>1
<1>3. CASE w = TRUE
  BY <1>1, <1>2, <1>3
<1>4. CASE w = FALSE
  BY <1>1, <1>2, <1>4
<1> QED
  BY <1>3, <1>4

LEMMA AppendFacts ==
    ASSUME NEW S, NEW q \in Seq(S), NEW x \in S
    PROVE  /\ Append(q, x) \in Seq(S) /\ Len(q) \in Nat /\ Len(Append(q, x)) = Len(q) + 1
           /\ Append(q, x)[Len(q) + 1] = x
           /\ \A i \in 1 .. Len(q) : Append(q, x)[i] = q[i]
  OBVIOUS

\* The entries of the whole lines among some.
EntriesOf(lines) ==
    LET whole == Filtered(lines, [entry : Entries, whole : {TRUE}])
    IN  [i \in DOMAIN whole |-> whole[i].entry]

LEMMA EntriesOfLines ==
    ASSUME NEW lines \in Seq(LogLines)
    PROVE  EntriesOf(lines) \in Seq(Entries)
<1> DEFINE wanted == [entry : Entries, whole : {TRUE}]
           whole == Filtered(lines, wanted)
<1>1. whole \in Seq(LogLines)
  <2> HIDE DEF wanted
  <2> QED
    BY FilteredRange
<1>2. EntriesOf(lines) = [i \in DOMAIN whole |-> whole[i].entry]
  BY Zenon DEF EntriesOf
<1> HIDE DEF whole
<1>3. DOMAIN whole = 1 .. Len(whole) /\ Len(whole) \in Nat /\ \A i \in DOMAIN whole : whole[i] \in LogLines
  BY <1>1
<1>4. \A i \in DOMAIN whole : whole[i].entry \in Entries
  BY <1>3, LineFacts
<1> DEFINE es == [i \in 1 .. Len(whole) |-> whole[i].entry]
<1>5. es \in Seq(Entries)
  BY <1>3, <1>4
<1> QED
  BY <1>2, <1>3, <1>5

LEMMA EntriesOfMore ==
    ASSUME NEW lines \in Seq(LogLines), NEW e \in Entries, NEW w \in BOOLEAN
    PROVE  /\ Append(lines, [entry |-> e, whole |-> w]) \in Seq(LogLines)
           /\ EntriesOf(Append(lines, [entry |-> e, whole |-> w]))
                = IF w THEN Append(EntriesOf(lines), e) ELSE EntriesOf(lines)
<1> DEFINE wanted == [entry : Entries, whole : {TRUE}]
           old == Filtered(lines, wanted)
           more == Append(lines, [entry |-> e, whole |-> w])
           now == Filtered(more, wanted)
<1>1. PICK l \in LogLines : l = [entry |-> e, whole |-> w] /\ l.entry = e /\ l.whole = w
  <2>1. [entry |-> e, whole |-> w] \in LogLines
    BY DEF LogLines
  <2> QED
    BY <2>1
<1>2. more = Append(lines, l) /\ more \in Seq(LogLines)
  BY <1>1
<1>3. l \in wanted <=> w
  BY <1>1, LineFacts
<1> HIDE DEF more
<1>4. EntriesOf(lines) = [i \in DOMAIN old |-> old[i].entry] /\ EntriesOf(more) = [i \in DOMAIN now |-> now[i].entry]
  BY Zenon DEF EntriesOf
<1>5. old \in Seq(LogLines) /\ now = IF l \in wanted THEN Append(old, l) ELSE old
  <2> HIDE DEF wanted
  <2>1. old \in Seq(LogLines)
    BY FilteredRange
  <2>2. Filtered(Append(lines, l), wanted) = IF l \in wanted THEN Append(Filtered(lines, wanted), l) ELSE Filtered(lines, wanted)
    BY FilteredAppend
  <2> QED
    BY <1>2, <2>1, <2>2, Zenon
<1> HIDE DEF wanted, old, now
<1>6. CASE w
  <2>1. now = Append(old, l)
    BY <1>3, <1>5, <1>6
  <2>2. /\ Len(old) \in Nat /\ DOMAIN old = 1 .. Len(old)
        /\ DOMAIN now = 1 .. (Len(old) + 1) /\ now[Len(old) + 1] = l
        /\ \A i \in 1 .. Len(old) : now[i] = old[i]
    BY <1>5, <2>1
  <2>3. PICK a \in Seq(Entries) : a = EntriesOf(lines)
    BY EntriesOfLines
  <2>4. PICK b \in Seq(Entries) : b = EntriesOf(more)
    BY <1>2, EntriesOfLines
  <2>5. DOMAIN a = 1 .. Len(old) /\ \A i \in 1 .. Len(old) : a[i] = old[i].entry
    BY <1>4, <2>2, <2>3
  <2>6. DOMAIN b = 1 .. (Len(old) + 1) /\ \A i \in 1 .. (Len(old) + 1) : b[i] = now[i].entry
    BY <1>4, <2>2, <2>4
  <2>7. Len(a) = Len(old) /\ Len(b) = Len(old) + 1
    BY <2>2, <2>5, <2>6
  <2>8. PICK c \in Seq(Entries) : /\ c = Append(a, e) /\ Len(c) = Len(a) + 1
                                  /\ c[Len(a) + 1] = e /\ \A i \in 1 .. Len(a) : c[i] = a[i]
    <3> DEFINE c == Append(a, e)
    <3>1. /\ c \in Seq(Entries) /\ Len(c) = Len(a) + 1
          /\ c[Len(a) + 1] = e /\ \A i \in 1 .. Len(a) : c[i] = a[i]
      BY AppendFacts
    <3> HIDE DEF c
    <3> QED
      BY <3>1 DEF c
  <2>9. Len(c) = Len(old) + 1 /\ c[Len(old) + 1] = e /\ \A i \in 1 .. Len(old) : c[i] = a[i]
    BY <2>7, <2>8
  <2>10. Len(b) = Len(c) /\ \A i \in 1 .. Len(b) : b[i] = c[i]
    <3>1. ASSUME NEW i \in 1 .. (Len(old) + 1)
          PROVE  b[i] = c[i]
      <4>1. CASE i = Len(old) + 1
        BY <1>1, <2>2, <2>6, <2>9, <4>1
      <4>2. CASE i # Len(old) + 1
        <5>1. i \in 1 .. Len(old)
          BY <2>2, <4>2
        <5> QED
          BY <2>2, <2>5, <2>6, <2>9, <5>1
      <4> QED
        BY <4>1, <4>2
    <3> QED
      BY <2>7, <2>9, <3>1
  <2>11. b = c
    BY <2>10, SameSequence, Zenon
  <2> QED
    BY <1>2, <1>6, <2>3, <2>4, <2>8, <2>11 DEF more
<1>7. CASE ~w
  <2>1. EntriesOf(more) = EntriesOf(lines)
    BY <1>3, <1>4, <1>5, <1>7
  <2> QED
    BY <1>2, <1>7, <2>1 DEF more
<1> QED
  BY <1>6, <1>7

LEMMA ReadableEntries == Readable = EntriesOf(file) /\ Readable' = EntriesOf(file')
  BY AuditKeep, Zenon DEF Readable, EntriesOf

\* The end of some entries, and of more of them.
LEMMA LastOfFacts ==
    ASSUME NEW c \in Seq(Entries)
    PROVE  /\ LastOf(c) \in Seq(Entries) /\ Len(LastOf(c)) <= Cap
           /\ Len(LastOf(c)) = IF Len(c) > Cap THEN Cap ELSE Len(c)
           /\ \A i \in 1 .. Len(LastOf(c)) : LastOf(c)[i] = c[Len(c) - Len(LastOf(c)) + i]
<1>1. Cap \in Nat \ {0} /\ Len(c) \in Nat
  BY AuditAssumption
<1>2. PICK m \in Nat : m = IF Len(c) > Cap THEN Len(c) - Cap + 1 ELSE 1
  BY <1>1
<1>3. m \in Int /\ Len(c) \in Int /\ m >= 1 /\ m <= Len(c) + 1 /\ LastOf(c) = SubSeq(c, m, Len(c))
  BY <1>1, <1>2 DEF LastOf
<1>4. \A i \in m .. Len(c) : c[i] \in Entries
  BY <1>3
<1>5. PICK n \in Nat : n = Len(c)
  BY <1>1
<1>6. /\ SubSeq(c, m, n) \in Seq(Entries)
      /\ Len(SubSeq(c, m, n)) = IF m <= n THEN n - m + 1 ELSE 0
      /\ \A i \in 1 .. n - m + 1 : SubSeq(c, m, n)[i] = c[m + i - 1]
  BY <1>3, <1>4, <1>5, SubSeqProperties
<1>7. PICK s \in Seq(Entries) : s = SubSeq(c, m, n)
  BY <1>6
<1>8. /\ Len(s) = IF m <= n THEN n - m + 1 ELSE 0
      /\ \A i \in 1 .. n - m + 1 : s[i] = c[m + i - 1]
  BY <1>6, <1>7
<1>9. n \in Nat /\ Cap \in Nat /\ Cap # 0 /\ m = IF n > Cap THEN n - Cap + 1 ELSE 1
  BY <1>1, <1>2, <1>5
<1>10. Len(s) = n - m + 1 /\ Len(s) = IF n > Cap THEN Cap ELSE n
  <2>1. m <= n \/ n = 0
    BY <1>9
  <2>2. Len(s) = n - m + 1
    BY <1>8, <1>9, <2>1
  <2> QED
    BY <1>9, <2>2
<1>11. \A i \in 1 .. Len(s) : s[i] = c[n - Len(s) + i]
  <2> SUFFICES ASSUME NEW i \in 1 .. Len(s)
               PROVE  s[i] = c[n - Len(s) + i]
    OBVIOUS
  <2>1. i \in 1 .. n - m + 1 /\ m + i - 1 = n - Len(s) + i
    BY <1>9, <1>10
  <2> QED
    BY <1>8, <2>1
<1>12. LastOf(c) = s /\ Len(s) <= Cap
  BY <1>3, <1>5, <1>7, <1>9, <1>10
<1> QED
  BY <1>5, <1>10, <1>11, <1>12, Zenon

LEMMA LastOfAppend ==
    ASSUME NEW c \in Seq(Entries), NEW e \in Entries
    PROVE  LastOf(Append(LastOf(c), e)) = LastOf(Append(c, e))
<1> DEFINE r == LastOf(c)
           s == Append(r, e)
           t == Append(c, e)
<1>1. /\ Cap \in Nat \ {0} /\ Len(c) \in Nat
      /\ r \in Seq(Entries) /\ Len(r) \in Nat
      /\ Len(r) = IF Len(c) > Cap THEN Cap ELSE Len(c)
      /\ \A i \in 1 .. Len(r) : r[i] = c[Len(c) - Len(r) + i]
  BY AuditAssumption, LastOfFacts
<1> HIDE DEF r
<1>2. /\ s \in Seq(Entries) /\ t \in Seq(Entries)
      /\ Len(s) = Len(r) + 1 /\ Len(t) = Len(c) + 1
      /\ s[Len(r) + 1] = e /\ t[Len(c) + 1] = e
      /\ \A i \in 1 .. Len(r) : s[i] = r[i]
      /\ \A i \in 1 .. Len(c) : t[i] = c[i]
  BY <1>1
<1> HIDE DEF s, t
<1>3. /\ LastOf(s) \in Seq(Entries) /\ LastOf(t) \in Seq(Entries)
      /\ Len(LastOf(s)) = IF Len(s) > Cap THEN Cap ELSE Len(s)
      /\ Len(LastOf(t)) = IF Len(t) > Cap THEN Cap ELSE Len(t)
      /\ \A i \in 1 .. Len(LastOf(s)) : LastOf(s)[i] = s[Len(s) - Len(LastOf(s)) + i]
      /\ \A i \in 1 .. Len(LastOf(t)) : LastOf(t)[i] = t[Len(t) - Len(LastOf(t)) + i]
  BY <1>2, LastOfFacts
<1>4. Len(LastOf(s)) = Len(LastOf(t))
  BY <1>1, <1>2, <1>3
<1>5. ASSUME NEW i \in 1 .. Len(LastOf(s))
      PROVE  LastOf(s)[i] = LastOf(t)[i]
  <2>1. LastOf(s)[i] = s[Len(s) - Len(LastOf(s)) + i] /\ LastOf(t)[i] = t[Len(t) - Len(LastOf(t)) + i]
    BY <1>3, <1>4
  <2>2. PICK l \in Nat : l = Len(LastOf(s)) /\ l = Len(LastOf(t))
    BY <1>3, <1>4
  <2>3. PICK x \in Nat, y \in Nat : x = Len(r) /\ y = Len(c)
    BY <1>1
  <2>4. /\ Len(s) = x + 1 /\ Len(t) = y + 1 /\ x = (IF y > Cap THEN Cap ELSE y) /\ Cap \in Nat /\ Cap # 0
        /\ l = IF x + 1 > Cap THEN Cap ELSE x + 1
    BY <1>1, <1>2, <1>3, <2>2, <2>3
  <2>5. PICK j \in 1 .. x + 1, k \in 1 .. y + 1 : j = x + 1 - l + i /\ k = y + 1 - l + i /\ k = y - x + j
    <3>1. i \in 1 .. l
      BY <2>2
    <3> DEFINE j == x + 1 - l + i
               k == y + 1 - l + i
    <3>2. j \in 1 .. x + 1 /\ k \in 1 .. y + 1 /\ k = y - x + j
      BY <2>4, <3>1
    <3> QED
      BY <3>2, Zenon
  <2>6. LastOf(s)[i] = s[j] /\ LastOf(t)[i] = t[k]
    BY <2>1, <2>2, <2>4, <2>5
  <2>7. CASE j = x + 1
    <3>1. k = y + 1
      BY <2>5, <2>7
    <3> QED
      BY <1>2, <2>3, <2>6, <2>7, <3>1
  <2>8. CASE j # x + 1
    <3>1. j \in 1 .. x /\ k \in 1 .. y
      BY <2>4, <2>5, <2>8
    <3>2. s[j] = r[j] /\ t[k] = c[k] /\ r[j] = c[y - x + j]
      BY <1>1, <1>2, <2>3, <3>1
    <3> QED
      BY <2>5, <2>6, <3>2
  <2> QED
    BY <2>7, <2>8
<1>6. LastOf(s) = LastOf(t)
  BY <1>3, <1>4, <1>5, SameSequence, Zenon
<1> QED
  BY <1>6 DEF r, s, t

LEMMA ConcatFacts ==
    ASSUME NEW S, NEW r \in Seq(S), NEW q \in Seq(S)
    PROVE  /\ r \o q \in Seq(S) /\ Len(r \o q) = Len(r) + Len(q)
           /\ \A i \in 1 .. Len(r) + Len(q) : (r \o q)[i] = IF i <= Len(r) THEN r[i] ELSE q[i - Len(r)]
  OBVIOUS

\* The head of the queue goes to the end of the file.
LEMMA MoveHead ==
    ASSUME NEW r \in Seq(Entries), NEW q \in Seq(Entries), q # <<>>
    PROVE  Append(r, Head(q)) \o Tail(q) = r \o q
<1> DEFINE s == Append(r, Head(q)) \o Tail(q)
           t == r \o q
<1>1. Len(q) \in Nat \ {0} /\ Head(q) = q[1] /\ Head(q) \in Entries /\ Len(r) \in Nat
  OBVIOUS
<1>2. Tail(q) \in Seq(Entries) /\ Len(Tail(q)) = Len(q) - 1 /\ \A i \in 1 .. Len(q) - 1 : Tail(q)[i] = q[i + 1]
  OBVIOUS
<1> DEFINE a == Append(r, Head(q))
           rest == Tail(q)
<1>3. /\ a \in Seq(Entries) /\ Len(a) = Len(r) + 1 /\ a[Len(r) + 1] = q[1]
      /\ \A i \in 1 .. Len(r) : a[i] = r[i]
  BY <1>1
<1> HIDE DEF a, rest
<1>4. /\ a \o rest \in Seq(Entries) /\ Len(a \o rest) = Len(a) + Len(rest)
      /\ \A i \in 1 .. Len(a) + Len(rest) : (a \o rest)[i] = IF i <= Len(a) THEN a[i] ELSE rest[i - Len(a)]
  <2>1. a \in Seq(Entries) /\ rest \in Seq(Entries)
    BY <1>2, <1>3 DEF rest
  <2> QED
    BY <2>1, ConcatFacts, Zenon
<1>5. /\ t \in Seq(Entries) /\ Len(t) = Len(r) + Len(q)
      /\ \A i \in 1 .. Len(r) + Len(q) : t[i] = IF i <= Len(r) THEN r[i] ELSE q[i - Len(r)]
  BY ConcatFacts, Zenon
<1>6. Len(rest) = Len(q) - 1 /\ \A i \in 1 .. Len(q) - 1 : rest[i] = q[i + 1]
  BY <1>2 DEF rest
<1> DEFINE u == a \o rest
<1>7. /\ u \in Seq(Entries) /\ Len(u) = Len(a) + Len(rest)
      /\ \A i \in 1 .. Len(a) + Len(rest) : u[i] = IF i <= Len(a) THEN a[i] ELSE rest[i - Len(a)]
  BY <1>4
<1> HIDE DEF t, u
<1>8. PICK x \in Nat, y \in Nat : x = Len(r) /\ y = Len(q) /\ y # 0
  BY <1>1
<1>9. Len(a) = x + 1 /\ Len(rest) = y - 1 /\ Len(t) = x + y /\ Len(u) = x + y
  BY <1>3, <1>5, <1>6, <1>7, <1>8
<1>10. ASSUME NEW i \in 1 .. x + y
       PROVE  u[i] = t[i]
  <2>1. u[i] = (IF i <= x + 1 THEN a[i] ELSE rest[i - (x + 1)]) /\ t[i] = IF i <= x THEN r[i] ELSE q[i - x]
    BY <1>5, <1>7, <1>8, <1>9
  <2>2. CASE i <= x
    <3>1. i \in 1 .. x /\ i <= x + 1
      BY <1>8, <2>2
    <3> QED
      BY <1>3, <1>8, <2>1, <2>2, <3>1
  <2>3. CASE i = x + 1
    <3>1. ~(i <= x) /\ i <= x + 1 /\ i - x = 1
      BY <1>8, <2>3
    <3> QED
      BY <1>3, <1>8, <2>1, <2>3, <3>1
  <2>4. CASE i > x + 1
    <3>1. ~(i <= x) /\ ~(i <= x + 1) /\ i - (x + 1) \in 1 .. y - 1 /\ i - (x + 1) + 1 = i - x
      BY <1>8, <2>4
    <3> QED
      BY <1>6, <1>8, <2>1, <3>1
  <2> QED
    BY <1>8, <2>2, <2>3, <2>4
<1>11. Len(u) = Len(t) /\ \A i \in 1 .. Len(u) : u[i] = t[i]
  BY <1>9, <1>10
<1>12. u = t
  BY <1>5, <1>7, <1>11, SameSequence, Zenon
<1> QED
  BY <1>12 DEF u, t, a, rest

LEMMA AppendToBoth ==
    ASSUME NEW r \in Seq(Entries), NEW q \in Seq(Entries), NEW e \in Entries
    PROVE  r \o Append(q, e) = Append(r \o q, e)
  OBVIOUS

\* A new entry in the file breaks the chain when it does not follow on the last.
LEMMA BreakAdded ==
    ASSUME NEW r \in Seq(Entries), NEW e \in Entries
    PROVE  /\ Cardinality(Breaks(r)) \in Nat
           /\ Cardinality(Breaks(Append(r, e)))
                = Cardinality(Breaks(r)) + (IF e.prevHash # Tip(r) THEN 1 ELSE 0)
<1> DEFINE n == Len(r)
           t == Append(r, e)
<1>1. /\ n \in Nat /\ DOMAIN r = 1 .. n /\ t \in Seq(Entries) /\ DOMAIN t = 1 .. (n + 1)
      /\ t[n + 1] = e /\ \A i \in 1 .. n : t[i] = r[i]
  OBVIOUS
<1>2. Tip(r) = IF n = 0 THEN Genesis ELSE r[n].hash
  BY <1>1 DEF Tip
<1> HIDE DEF t, n
<1>3. Breaks(r) = {i \in 1 .. n : r[i].prevHash # IF i = 1 THEN Genesis ELSE r[i - 1].hash}
  BY <1>1 DEF Breaks
<1>4. Breaks(t) = {i \in 1 .. (n + 1) : t[i].prevHash # IF i = 1 THEN Genesis ELSE t[i - 1].hash}
  BY <1>1 DEF Breaks
<1>5. IsFiniteSet(Breaks(r)) /\ Cardinality(Breaks(r)) \in Nat /\ n + 1 \notin Breaks(r)
  <2>1. IsFiniteSet(1 .. n) /\ Breaks(r) \subseteq 1 .. n
    BY <1>1, <1>3, FS_Interval
  <2>2. IsFiniteSet(Breaks(r))
    BY <2>1, FS_Subset
  <2> QED
    BY <1>1, <2>1, <2>2, FS_CardinalityType
<1>6. \A i \in 1 .. n : i \in Breaks(t) <=> i \in Breaks(r)
  <2> SUFFICES ASSUME NEW i \in 1 .. n
               PROVE  i \in Breaks(t) <=> i \in Breaks(r)
    OBVIOUS
  <2>1. i \in 1 .. (n + 1) /\ t[i] = r[i] /\ (i # 1 => t[i - 1] = r[i - 1])
    BY <1>1
  <2> QED
    BY <1>3, <1>4, <2>1
<1>7. n + 1 \in Breaks(t) <=> e.prevHash # Tip(r)
  <2>1. n + 1 \in 1 .. (n + 1) /\ t[n + 1] = e /\ (n # 0 => t[(n + 1) - 1] = r[n]) /\ (n + 1 = 1 <=> n = 0)
    BY <1>1
  <2> QED
    BY <1>2, <1>4, <2>1
<1>8. Breaks(t) \subseteq 1 .. (n + 1) /\ Breaks(r) \subseteq 1 .. n /\ 1 .. (n + 1) = (1 .. n) \cup {n + 1}
  BY <1>1, <1>3, <1>4
<1>9. CASE e.prevHash # Tip(r)
  <2>1. Breaks(t) = Breaks(r) \cup {n + 1}
    BY <1>6, <1>7, <1>8, <1>9
  <2> QED
    BY <1>5, <1>9, <2>1, FS_AddElement DEF t
<1>10. CASE e.prevHash = Tip(r)
  <2>1. Breaks(t) = Breaks(r)
    BY <1>6, <1>7, <1>8, <1>10
  <2> QED
    BY <1>5, <1>10, <2>1 DEF t
<1> QED
  BY <1>9, <1>10

\* The hashes of a queue that grows, or whose head leaves it.
LEMMA QueueGrows ==
    ASSUME NEW q \in Seq(Entries), NEW e \in Entries
    PROVE  /\ Hashes(Append(q, e)) = Hashes(q) \cup {e.hash}
           /\ \A n \in 0 .. Len(q) : FirstOf(Append(q, e), n) = FirstOf(q, n)
<1> DEFINE longer == Append(q, e)
<1>1. /\ Len(q) \in Nat /\ DOMAIN q = 1 .. Len(q) /\ DOMAIN longer = 1 .. (Len(q) + 1)
      /\ longer[Len(q) + 1] = e /\ \A i \in 1 .. Len(q) : longer[i] = q[i]
  OBVIOUS
<1> HIDE DEF longer
<1>2. Hashes(longer) = Hashes(q) \cup {e.hash}
  <2>1. 1 .. (Len(q) + 1) = (1 .. Len(q)) \cup {Len(q) + 1}
    BY <1>1
  <2> QED
    BY <1>1, <2>1 DEF Hashes
<1>3. ASSUME NEW n \in 0 .. Len(q)
      PROVE  FirstOf(longer, n) = FirstOf(q, n)
  <2>1. {j \in DOMAIN longer : j <= n} = {j \in DOMAIN q : j <= n}
    BY <1>1
  <2>2. \A i \in {j \in DOMAIN q : j <= n} : longer[i] = q[i]
    BY <1>1
  <2> QED
    BY <2>1, <2>2 DEF FirstOf
<1> QED
  BY <1>2, <1>3 DEF longer

LEMMA QueueShrinks ==
    ASSUME NEW q \in Seq(Entries), q # <<>>
    PROVE  /\ Hashes(q) = {Head(q).hash} \cup Hashes(Tail(q))
           /\ \A n \in Nat : n >= 1 => FirstOf(q, n) \subseteq {Head(q).hash} \cup FirstOf(Tail(q), n - 1)
           /\ FirstOf(Tail(q), 0) = {}
<1> DEFINE rest == Tail(q)
<1>1. /\ Len(q) \in Nat \ {0} /\ Head(q) = q[1] /\ DOMAIN q = 1 .. Len(q)
      /\ DOMAIN rest = 1 .. (Len(q) - 1) /\ \A i \in 1 .. (Len(q) - 1) : rest[i] = q[i + 1]
  OBVIOUS
<1> HIDE DEF rest
<1>2. Hashes(q) = {q[1].hash} \cup Hashes(rest)
  <2>1. \A i \in 1 .. Len(q) : i = 1 \/ (i - 1 \in 1 .. (Len(q) - 1) /\ (i - 1) + 1 = i)
    BY <1>1
  <2>2. \A i \in 1 .. (Len(q) - 1) : i + 1 \in 1 .. Len(q)
    BY <1>1
  <2>3. Hashes(q) \subseteq {q[1].hash} \cup Hashes(rest)
    <3> SUFFICES ASSUME NEW i \in 1 .. Len(q)
                 PROVE  q[i].hash \in {q[1].hash} \cup {rest[j].hash : j \in 1 .. (Len(q) - 1)}
      BY <1>1 DEF Hashes
    <3>1. CASE i = 1
      BY <3>1
    <3>2. CASE i # 1
      <4>1. PICK k \in 1 .. (Len(q) - 1) : k + 1 = i
        BY <2>1, <3>2
      <4>2. rest[k] = q[i]
        BY <1>1, <4>1
      <4> QED
        BY <4>2
    <3> QED
      BY <3>1, <3>2
  <2>4. q[1].hash \in Hashes(q) /\ Hashes(rest) \subseteq Hashes(q)
    <3>1. 1 \in 1 .. Len(q)
      BY <1>1
    <3> QED
      BY <1>1, <2>2, <3>1 DEF Hashes
  <2> QED
    BY <2>3, <2>4
<1>3. ASSUME NEW n \in Nat, n >= 1
      PROVE  FirstOf(q, n) \subseteq {q[1].hash} \cup FirstOf(rest, n - 1)
  <2>1. \A i \in 1 .. Len(q) : i = 1 \/ (i - 1 \in 1 .. (Len(q) - 1) /\ (i - 1) + 1 = i /\ (i <= n => i - 1 <= n - 1))
    BY <1>1
  <2>2. \A i \in 1 .. Len(q) : i <= n =>
           q[i].hash \in {q[1].hash} \cup {rest[j].hash : j \in {j \in 1 .. (Len(q) - 1) : j <= n - 1}}
    <3> SUFFICES ASSUME NEW i \in 1 .. Len(q), i <= n, i # 1
                 PROVE  q[i].hash \in {rest[j].hash : j \in {j \in 1 .. (Len(q) - 1) : j <= n - 1}}
      OBVIOUS
    <3>1. PICK k \in 1 .. (Len(q) - 1) : k + 1 = i /\ k <= n - 1
      BY <2>1
    <3>2. rest[k] = q[i]
      BY <1>1, <3>1
    <3> QED
      BY <3>1, <3>2
  <2> QED
    BY <1>1, <2>2 DEF FirstOf
<1>4. FirstOf(rest, 0) = {}
  BY <1>1 DEF FirstOf
<1> QED
  BY <1>1, <1>2, <1>3, <1>4 DEF rest

LEMMA QueueWhole ==
    ASSUME NEW q \in Seq(Entries)
    PROVE  FirstOf(q, Len(q)) = Hashes(q) /\ (q = <<>> => Hashes(q) = {}) /\ Hashes(q) \subseteq 1 .. MaxRecords
<1>1. DOMAIN q = 1 .. Len(q) /\ Len(q) \in Nat
  OBVIOUS
<1>2. {j \in DOMAIN q : j <= Len(q)} = DOMAIN q
  BY <1>1
<1>3. \A i \in DOMAIN q : q[i].hash \in 1 .. MaxRecords
  BY EntryFacts
<1>4. FirstOf(q, Len(q)) = Hashes(q)
  BY <1>2 DEF FirstOf, Hashes
<1>5. Hashes(q) \subseteq 1 .. MaxRecords
  BY <1>3 DEF Hashes
<1>6. q = <<>> => Hashes(q) = {}
  BY <1>1 DEF Hashes
<1> QED
  BY <1>4, <1>5, <1>6

\* What the shutdown waits for, as one more of a queue is done.
LEMMA WaitedFacts ==
    ASSUME AuditTypes, NEW line \in {"appends", "posts"}, Waited(line)
    PROVE  /\ flush' \in [waits : {"none", "appends", "posts", "nothing"}, left : Nat]
           /\ flush.waits # line => flush' = flush
           /\ flush.waits = line /\ flush.left > 1 => flush'.waits = line /\ flush'.left = flush.left - 1
           /\ flush.waits = line /\ ~(flush.left > 1) =>
                 \/ line = "appends" /\ Len(posts) > 0 /\ flush'.waits = "posts" /\ flush'.left = Len(posts)
                 \/ (line = "appends" => ~(Len(posts) > 0)) /\ flush'.waits = "nothing"
<1>1. flush \in [waits : {"none", "appends", "posts", "nothing"}, left : Nat] /\ Len(posts) \in Nat
  BY DEF AuditTypes
<1>2. flush.left \in Nat
  BY <1>1
<1>3. CASE flush.waits # line
  BY <1>1, <1>3 DEF Waited
<1>4. CASE flush.waits = line /\ flush.left > 1
  <2>1. flush' = [flush EXCEPT !.left = flush.left - 1]
    BY <1>1, <1>4 DEF Waited
  <2>2. flush.left - 1 \in Nat
    BY <1>2, <1>4
  <2> QED
    BY <1>1, <1>4, <2>1, <2>2
<1>5. CASE flush.waits = line /\ ~(flush.left > 1) /\ line = "appends" /\ Len(posts) > 0
  <2>1. flush' = [waits |-> "posts", left |-> Len(posts)]
    BY <1>5 DEF Waited
  <2> QED
    BY <1>1, <1>5, <2>1
<1>6. CASE flush.waits = line /\ ~(flush.left > 1) /\ ~(line = "appends" /\ Len(posts) > 0)
  <2>1. flush' = [waits |-> "nothing", left |-> 0]
    BY <1>6 DEF Waited
  <2> QED
    BY <1>1, <1>6, <2>1
<1> QED
  BY <1>3, <1>4, <1>5, <1>6

LEMMA RecordStays ==
    ASSUME AuditIInv, Record
    PROVE  AuditIInv'
<1>1. AuditTypes /\ AuditRecorded /\ AuditDelivery /\ AuditFlush /\ AuditChain /\ AuditExact
  BY DEF AuditIInv
<1>2. /\ Running /\ made < MaxRecords /\ made' = made + 1 /\ made \in Nat /\ seq \in Nat /\ seq <= made
      /\ lastHash \in 0 .. MaxRecords /\ MaxRecords \in Nat
      /\ UNCHANGED <<file, torn, attempt, received, deadLetters, dropped, flush, pledged, faults, lifeVars>>
  BY <1>1, AuditAssumption DEF Record, AuditTypes, AuditRecorded
<1>3. PICK e \in Entries : /\ e = [seq |-> seq + 1, prevHash |-> lastHash, hash |-> made']
                           /\ e.seq = seq + 1 /\ e.prevHash = lastHash /\ e.hash = made + 1
  <2>1. [seq |-> seq + 1, prevHash |-> lastHash, hash |-> made'] \in Entries
    BY <1>2 DEF Entries
  <2> QED
    BY <1>2, <2>1
<1>4. /\ seq' = e.seq /\ lastHash' = e.hash /\ ring' = LastOf(Append(ring, e))
      /\ appends' = Append(appends, e) /\ posts' = Append(posts, e)
  BY <1>3 DEF Record
<1>5. PICK a \in Seq(Entries) : a = appends
  BY <1>1 DEF AuditTypes
<1>6. PICK p \in Seq(Entries) : p = posts
  BY <1>1 DEF AuditTypes
<1>7. PICK r \in Seq(Entries) : r = Readable /\ r = Readable'
  BY <1>1, <1>2, ReadableEntries, EntriesOfLines DEF AuditTypes
<1>8. PICK b \in Seq(Entries) : /\ b = Append(a, e) /\ Len(a) \in Nat /\ Len(b) = Len(a) + 1
                                /\ b[Len(a) + 1] = e /\ \A i \in 1 .. Len(a) : b[i] = a[i]
  <2> DEFINE b == Append(a, e)
  <2>1. /\ b \in Seq(Entries) /\ Len(a) \in Nat /\ Len(b) = Len(a) + 1
        /\ b[Len(a) + 1] = e /\ \A i \in 1 .. Len(a) : b[i] = a[i]
    BY AppendFacts
  <2> HIDE DEF b
  <2> QED
    BY <2>1 DEF b
<1>9. PICK o \in Seq(Entries) : /\ o = Append(p, e) /\ Len(p) \in Nat /\ Len(o) = Len(p) + 1
                                /\ o[Len(p) + 1] = e /\ \A i \in 1 .. Len(p) : o[i] = p[i]
  <2> DEFINE o == Append(p, e)
  <2>1. /\ o \in Seq(Entries) /\ Len(p) \in Nat /\ Len(o) = Len(p) + 1
        /\ o[Len(p) + 1] = e /\ \A i \in 1 .. Len(p) : o[i] = p[i]
    BY AppendFacts
  <2> HIDE DEF o
  <2> QED
    BY <2>1 DEF o
<1>10. appends' = b /\ posts' = o /\ phase' = phase /\ exits' = exits
  BY <1>2, <1>4, <1>5, <1>6, <1>8, <1>9 DEF lifeVars
<1>11. /\ DOMAIN a = 1 .. Len(a) /\ DOMAIN b = 1 .. (Len(a) + 1) /\ DOMAIN p = 1 .. Len(p) /\ DOMAIN o = 1 .. (Len(p) + 1)
       /\ b # <<>>
  BY <1>8, <1>9
<1>12. /\ Hashes(b) = Hashes(a) \cup {e.hash} /\ Hashes(o) = Hashes(p) \cup {e.hash}
       /\ \A n \in 0 .. Len(a) : FirstOf(b, n) = FirstOf(a, n)
       /\ \A n \in 0 .. Len(p) : FirstOf(o, n) = FirstOf(p, n)
  BY <1>8, <1>9, QueueGrows
<1>13. AuditTypes'
  <2>1. LastOf(Append(ring, e)) \in Seq(Entries) /\ Len(LastOf(Append(ring, e))) <= Cap
    <3>1. PICK c \in Seq(Entries) : c = ring
      BY <1>1 DEF AuditTypes
    <3>2. Append(c, e) \in Seq(Entries)
      BY AppendFacts
    <3> QED
      BY <3>1, <3>2, LastOfFacts
  <2>2. seq' \in Nat /\ lastHash' \in 0 .. MaxRecords /\ made' \in 0 .. MaxRecords
    BY <1>2, <1>3, <1>4
  <2>3. phase # "down"
    BY <1>2 DEF Running
  <2> QED
    BY <1>1, <1>2, <1>4, <1>10, <2>1, <2>2, <2>3 DEF AuditTypes, LifeTypeOK
<1>14. AuditRecorded'
  <2>1. seq' <= made'
    BY <1>2, <1>3, <1>4
  <2>2. \A i \in DOMAIN b : b[i].seq <= made'
    <3>1. \A i \in DOMAIN a : a[i].seq <= made /\ a[i].seq \in Nat
      BY <1>1, <1>5, EntryFacts DEF AuditRecorded
    <3> QED
      BY <1>2, <1>3, <1>8, <1>11, <3>1
  <2>3. \A i \in DOMAIN r : r[i].seq <= made'
    <3>1. \A i \in DOMAIN r : r[i].seq <= made /\ r[i].seq \in Nat
      BY <1>1, <1>7, EntryFacts DEF AuditRecorded
    <3> QED
      BY <1>2, <3>1
  <2>4. \A i \in DOMAIN o : o[i].hash <= made'
    <3>1. \A i \in DOMAIN p : p[i].hash <= made /\ p[i].hash \in Nat
      BY <1>1, <1>6, EntryFacts DEF AuditRecorded
    <3> QED
      BY <1>2, <1>3, <1>9, <1>11, <3>1
  <2>5. \A i \in DOMAIN received : received[i].hash <= made'
    <3>1. \A i \in DOMAIN received : received[i].hash <= made /\ received[i].hash \in Nat
      <4>1. PICK v \in Seq(Entries) : v = received
        BY <1>1 DEF AuditTypes
      <4>2. \A i \in DOMAIN v : v[i].hash \in Nat
        BY EntryFacts
      <4>3. \A i \in DOMAIN received : received[i].hash <= made
        BY <1>1 DEF AuditRecorded
      <4> QED
        BY <4>1, <4>2, <4>3
    <3> QED
      BY <1>2, <3>1
  <2>6. \A i \in DOMAIN b : i > 1 => b[i].prevHash = b[i - 1].hash
    <3> SUFFICES ASSUME NEW i \in 1 .. (Len(a) + 1), i > 1
                 PROVE  b[i].prevHash = b[i - 1].hash
      BY <1>11
    <3>1. CASE i = Len(a) + 1
      <4>1. a # <<>> /\ b[i] = e /\ i - 1 = Len(a) /\ Len(a) \in 1 .. Len(a)
        BY <1>8, <1>11, <3>1
      <4>2. lastHash = a[Len(a)].hash
        BY <1>1, <1>5, <4>1 DEF AuditRecorded
      <4> QED
        BY <1>3, <1>8, <4>1, <4>2
    <3>2. CASE i # Len(a) + 1
      <4>1. i \in 1 .. Len(a) /\ i - 1 \in 1 .. Len(a)
        BY <1>8, <3>2
      <4>2. a[i].prevHash = a[i - 1].hash
        BY <1>1, <1>5, <1>11, <4>1 DEF AuditRecorded
      <4> QED
        BY <1>8, <4>1, <4>2
    <3> QED
      BY <3>1, <3>2
  <2>7. lastHash' = b[Len(b)].hash
    BY <1>4, <1>8
  <2> QED
    BY <1>2, <1>7, <1>10, <2>1, <2>2, <2>3, <2>4, <2>5, <2>6, <2>7 DEF AuditRecorded
<1>15. AuditDelivery'
  <2>1. DeliveredInOrder'
    BY <1>1, <1>2 DEF AuditDelivery, DeliveredInOrder
  <2>2. \A i \in DOMAIN p : p[i].hash <= made /\ p[i].hash \in Nat
    BY <1>1, <1>6, EntryFacts DEF AuditRecorded
  <2>3. \A i, j \in DOMAIN o : i < j => o[i].hash < o[j].hash
    <3> SUFFICES ASSUME NEW i \in 1 .. (Len(p) + 1), NEW j \in 1 .. (Len(p) + 1), i < j
                 PROVE  o[i].hash < o[j].hash
      BY <1>11
    <3>1. i \in 1 .. Len(p) /\ o[i] = p[i]
      BY <1>9
    <3>2. CASE j = Len(p) + 1
      BY <1>2, <1>3, <1>9, <1>11, <2>2, <3>1, <3>2
    <3>3. CASE j # Len(p) + 1
      <4>1. j \in 1 .. Len(p) /\ o[j] = p[j]
        BY <1>9, <3>3
      <4> QED
        BY <1>1, <1>6, <1>11, <3>1, <4>1 DEF AuditDelivery
    <3> QED
      BY <3>2, <3>3
  <2>5. \A i \in DOMAIN received : received[i].hash <= made /\ received[i].hash \in Nat
    <3>1. PICK v \in Seq(Entries) : v = received
      BY <1>1 DEF AuditTypes
    <3>2. \A i \in DOMAIN v : v[i].hash \in Nat
      BY EntryFacts
    <3>3. \A i \in DOMAIN received : received[i].hash <= made
      BY <1>1 DEF AuditRecorded
    <3> QED
      BY <3>1, <3>2, <3>3
  <2>4. ASSUME NEW i \in DOMAIN received, NEW j \in DOMAIN o
        PROVE  /\ received[i].hash <= o[j].hash
               /\ received[i].hash = o[j].hash => i > Len(received) - (attempt - 1)
    <3>1. CASE j = Len(p) + 1
      <4>1. received[i].hash <= made /\ received[i].hash \in Nat
        BY <2>5
      <4>2. o[j].hash = made + 1
        <5>1. o[j] = e
          BY <1>9, <3>1
        <5> QED
          BY <1>3, <5>1
      <4> QED
        BY <1>2, <4>1, <4>2
    <3>2. CASE j # Len(p) + 1
      <4>1. j \in 1 .. Len(p) /\ o[j] = p[j]
        BY <1>9, <1>11, <3>2
      <4> QED
        BY <1>1, <1>6, <1>11, <4>1 DEF AuditDelivery
    <3> QED
      BY <3>1, <3>2
  <2> QED
    BY <1>2, <1>10, <2>1, <2>3, <2>4 DEF AuditDelivery
<1>16. AuditFlush'
  <2>1. Handed' = Handed
    BY <1>2 DEF Handed
  <2>2. flush.waits = "appends" => flush.left \in 1 .. Len(b) /\ flush.left \in 0 .. Len(a)
    BY <1>1, <1>5, <1>8 DEF AuditFlush
  <2>3. flush.waits = "posts" => flush.left \in 1 .. Len(o) /\ flush.left \in 0 .. Len(p)
    BY <1>1, <1>6, <1>9 DEF AuditFlush
  <2>4. pledged \subseteq Handed \cup (CASE flush.waits = "appends" -> Hashes(o)
                                         [] flush.waits = "posts"   -> FirstOf(o, flush.left)
                                         [] OTHER                   -> {})
    <3>1. pledged \subseteq Handed \cup (CASE flush.waits = "appends" -> Hashes(p)
                                           [] flush.waits = "posts"   -> FirstOf(p, flush.left)
                                           [] OTHER                   -> {})
      BY <1>1, <1>6 DEF AuditFlush
    <3> QED
      BY <1>12, <2>3, <3>1
  <2>5. faults = 0 => pledged \subseteq Hashes(r) \cup (IF flush.waits = "appends" THEN FirstOf(b, flush.left) ELSE {})
    <3>1. faults = 0 => pledged \subseteq Hashes(r) \cup (IF flush.waits = "appends" THEN FirstOf(a, flush.left) ELSE {})
      BY <1>1, <1>5, <1>7 DEF AuditFlush
    <3> QED
      BY <1>12, <2>2, <3>1
  <2> QED
    BY <1>2, <1>7, <1>10, <2>1, <2>2, <2>3, <2>4, <2>5 DEF AuditFlush
<1>17. AuditChain'
  <2>1. From' = From
    <3>1. CASE a = <<>>
      <4>1. Len(a) = 0
        BY <3>1
      <4>2. b[1] = e
        BY <1>8, <4>1
      <4> QED
        BY <1>3, <1>5, <1>10, <1>11, <3>1, <4>2 DEF From
    <3>2. CASE a # <<>>
      <4>1. Len(a) >= 1
        BY <3>2
      <4>2. b[1] = a[1]
        BY <1>8, <4>1
      <4> QED
        BY <1>5, <1>10, <1>11, <3>2, <4>2 DEF From
    <3> QED
      BY <3>1, <3>2
  <2>2. Gap' <=> Gap
    BY <1>2, <1>7, <1>10, <2>1 DEF Gap, Running
  <2> QED
    BY <1>1, <1>2, <1>7, <2>2 DEF AuditChain
<1>18. AuditExact'
  <2> SUFFICES ASSUME faults' = 0
               PROVE  /\ \A i \in DOMAIN r : r[i].seq = i
                      /\ \A i \in DOMAIN b : b[i].seq = Len(r) + i
                      /\ seq' = Len(r) + Len(b) /\ ring' = LastOf(r \o b)
                      /\ Hashes(o) \subseteq Hashes(r) \cup Hashes(b)
    BY <1>7, <1>10 DEF AuditExact
  <2>1. /\ \A i \in DOMAIN r : r[i].seq = i
        /\ \A i \in DOMAIN a : a[i].seq = Len(r) + i
        /\ seq = Len(r) + Len(a) /\ ring = LastOf(r \o a)
        /\ Hashes(p) \subseteq Hashes(r) \cup Hashes(a)
    BY <1>1, <1>2, <1>5, <1>6, <1>7 DEF AuditExact
  <2>2. Len(r) \in Nat
    OBVIOUS
  <2>3. \A i \in DOMAIN b : b[i].seq = Len(r) + i
    <3> SUFFICES ASSUME NEW i \in 1 .. (Len(a) + 1)
                 PROVE  b[i].seq = Len(r) + i
      BY <1>11
    <3>1. CASE i = Len(a) + 1
      <4>1. b[i].seq = seq + 1
        BY <1>3, <1>8, <3>1
      <4> QED
        BY <1>8, <2>1, <2>2, <3>1, <4>1
    <3>2. CASE i # Len(a) + 1
      <4>1. i \in 1 .. Len(a)
        BY <1>8, <3>2
      <4> QED
        BY <1>8, <1>11, <2>1, <4>1
    <3> QED
      BY <3>1, <3>2
  <2>4. seq' = Len(r) + Len(b)
    BY <1>3, <1>4, <1>8, <2>1, <2>2
  <2>5. ring' = LastOf(r \o b)
    <3>1. PICK c \in Seq(Entries) : c = r \o a
      BY ConcatFacts
    <3>2. r \o b = Append(c, e)
      BY <1>8, <3>1, AppendToBoth
    <3>3. ring' = LastOf(Append(LastOf(c), e))
      BY <1>4, <2>1, <3>1
    <3> QED
      BY <3>2, <3>3, LastOfAppend
  <2> QED
    BY <1>12, <2>1, <2>3, <2>4, <2>5
<1> QED
  BY <1>13, <1>14, <1>15, <1>16, <1>17, <1>18 DEF AuditIInv

\* An append is over: the entry is in the file, or a fault was counted.
LEMMA AppendEnds ==
    ASSUME AuditIInv, Running, appends # <<>>, appends' = Tail(appends), Waited("appends"),
           UNCHANGED <<memory, sink, made, pledged, lifeVars>>,
           file' \in Seq(LogLines), torn' \in BOOLEAN, faults' \in Nat,
           Readable' = Readable \/ Readable' = Append(Readable, Head(appends)),
           faults' = 0 => faults = 0 /\ Readable' = Append(Readable, Head(appends)),
           AuditChain'
    PROVE  AuditIInv'
<1>1. AuditTypes /\ AuditRecorded /\ AuditDelivery /\ AuditFlush /\ AuditChain /\ AuditExact
  BY DEF AuditIInv
<1>2. /\ UNCHANGED <<seq, lastHash, ring, posts, attempt, received, deadLetters, dropped, made, pledged>>
      /\ phase' = phase /\ exits' = exits
  BY DEF memory, sink, lifeVars
<1>3. PICK a \in Seq(Entries) : a = appends /\ a # <<>>
  BY <1>1 DEF AuditTypes
<1>4. PICK b \in Seq(Entries) :
        /\ b = Tail(a) /\ appends' = b /\ Len(a) \in Nat \ {0} /\ Len(b) = Len(a) - 1 /\ Head(a) = a[1]
        /\ DOMAIN a = 1 .. Len(a) /\ DOMAIN b = 1 .. (Len(a) - 1) /\ \A i \in 1 .. (Len(a) - 1) : b[i] = a[i + 1]
  <2> DEFINE b == Tail(a)
  <2>1. /\ b \in Seq(Entries) /\ Len(a) \in Nat \ {0} /\ Len(b) = Len(a) - 1 /\ Head(a) = a[1]
        /\ DOMAIN a = 1 .. Len(a) /\ DOMAIN b = 1 .. (Len(a) - 1) /\ \A i \in 1 .. (Len(a) - 1) : b[i] = a[i + 1]
    BY <1>3
  <2>2. appends' = b
    BY <1>3
  <2> HIDE DEF b
  <2> QED
    BY <2>1, <2>2 DEF b
<1>5. PICK e \in Entries : e = Head(a) /\ e = a[1]
  BY <1>3, <1>4
<1>6. PICK r \in Seq(Entries) : r = Readable
  BY <1>1, ReadableEntries, EntriesOfLines DEF AuditTypes
<1>7. PICK n \in Seq(Entries) : /\ n = Readable' /\ Len(r) \in Nat
                                /\ n = r \/ (n = Append(r, e) /\ Len(n) = Len(r) + 1 /\ n[Len(r) + 1] = e
                                             /\ \A i \in 1 .. Len(r) : n[i] = r[i])
  <2> DEFINE n == Append(r, e)
  <2>1. n \in Seq(Entries) /\ Len(r) \in Nat /\ Len(n) = Len(r) + 1 /\ n[Len(r) + 1] = e /\ \A i \in 1 .. Len(r) : n[i] = r[i]
    BY AppendFacts
  <2>2. Readable' = r \/ Readable' = n
    BY <1>3, <1>5, <1>6
  <2> HIDE DEF n
  <2> QED
    BY <2>1, <2>2 DEF n
<1>8. faults' = 0 => faults = 0 /\ n = Append(r, e)
  BY <1>3, <1>5, <1>6, <1>7
<1>9. /\ flush' \in [waits : {"none", "appends", "posts", "nothing"}, left : Nat]
      /\ flush.waits # "appends" => flush' = flush
      /\ flush.waits = "appends" /\ flush.left > 1 => flush'.waits = "appends" /\ flush'.left = flush.left - 1
      /\ flush.waits = "appends" /\ ~(flush.left > 1) =>
            \/ Len(posts) > 0 /\ flush'.waits = "posts" /\ flush'.left = Len(posts)
            \/ ~(Len(posts) > 0) /\ flush'.waits = "nothing"
  BY <1>1, WaitedFacts
<1>10. AuditTypes'
  <2>1. phase # "down"
    BY DEF Running
  <2> QED
    BY <1>1, <1>2, <1>4, <1>9, <2>1 DEF AuditTypes, LifeTypeOK
<1>11. AuditRecorded'
  <2>1. \A i \in DOMAIN a : a[i].seq <= made
    BY <1>1, <1>3 DEF AuditRecorded
  <2>2. \A i \in DOMAIN b : b[i].seq <= made
    <3> SUFFICES ASSUME NEW i \in 1 .. (Len(a) - 1)
                 PROVE  b[i].seq <= made
      BY <1>4
    <3>1. i + 1 \in 1 .. Len(a)
      BY <1>4
    <3> QED
      BY <1>4, <2>1, <3>1
  <2>3. \A i \in DOMAIN n : n[i].seq <= made
    <3>1. \A i \in 1 .. Len(r) : r[i].seq <= made
      BY <1>1, <1>6 DEF AuditRecorded
    <3>2. e.seq <= made
      <4>1. 1 \in DOMAIN a
        BY <1>4
      <4> QED
        BY <1>5, <2>1, <4>1
    <3> SUFFICES ASSUME NEW i \in 1 .. Len(n)
                 PROVE  n[i].seq <= made
      OBVIOUS
    <3>3. CASE n = r
      BY <3>1, <3>3
    <3>4. CASE n # r /\ i = Len(r) + 1
      BY <1>7, <3>2, <3>4
    <3>5. CASE n # r /\ i # Len(r) + 1
      <4>1. i \in 1 .. Len(r)
        BY <1>7, <3>5
      <4> QED
        BY <1>7, <3>1, <3>5, <4>1
    <3> QED
      BY <3>3, <3>4, <3>5
  <2>4. \A i \in DOMAIN a : i > 1 => a[i].prevHash = a[i - 1].hash
    BY <1>1, <1>3 DEF AuditRecorded
  <2>5. \A i \in DOMAIN b : i > 1 => b[i].prevHash = b[i - 1].hash
    <3> SUFFICES ASSUME NEW i \in 1 .. (Len(a) - 1), i > 1
                 PROVE  b[i].prevHash = b[i - 1].hash
      BY <1>4
    <3>1. i + 1 \in 1 .. Len(a) /\ i + 1 > 1 /\ i - 1 \in 1 .. (Len(a) - 1) /\ (i - 1) + 1 = i /\ (i + 1) - 1 = i
      BY <1>4
    <3>2. a[i + 1].prevHash = a[(i + 1) - 1].hash
      BY <1>4, <2>4, <3>1
    <3>3. b[i] = a[i + 1] /\ b[i - 1] = a[i]
      BY <1>4, <3>1
    <3> QED
      BY <3>1, <3>2, <3>3
  <2>6. b # <<>> => lastHash = b[Len(b)].hash
    <3> SUFFICES ASSUME b # <<>>
                 PROVE  lastHash = b[Len(b)].hash
      OBVIOUS
    <3>1. Len(b) \in 1 .. (Len(a) - 1) /\ Len(b) + 1 = Len(a)
      <4>1. Len(b) # 0 /\ Len(b) \in Nat
        OBVIOUS
      <4> QED
        BY <1>4, <4>1
    <3>2. b[Len(b)] = a[Len(a)]
      BY <1>4, <3>1
    <3> QED
      BY <1>1, <1>3, <3>2 DEF AuditRecorded
  <2> QED
    BY <1>1, <1>2, <1>4, <1>7, <2>2, <2>3, <2>5, <2>6 DEF AuditRecorded
<1>12. AuditDelivery'
  BY <1>1, <1>2 DEF AuditDelivery, DeliveredInOrder
<1>13. AuditFlush'
  <2>1. PICK p \in Seq(Entries) : p = posts /\ Len(p) \in Nat
    BY <1>1 DEF AuditTypes
  <2>2. /\ FirstOf(p, Len(p)) = Hashes(p) /\ (~(Len(p) > 0) => Hashes(p) = {})
    <3>1. ~(Len(p) > 0) => p = <<>>
      BY <2>1
    <3> QED
      BY <3>1, QueueWhole
  <2>3. /\ Hashes(a) = {e.hash} \cup Hashes(b)
        /\ \A k \in Nat : k >= 1 => FirstOf(a, k) \subseteq {e.hash} \cup FirstOf(b, k - 1)
        /\ FirstOf(b, 0) = {}
    BY <1>3, <1>4, <1>5, QueueShrinks
  <2>4. n = Append(r, e) => Hashes(n) = Hashes(r) \cup {e.hash}
    BY QueueGrows
  <2>5. Handed' = Handed
    BY <1>2 DEF Handed
  <2>6. /\ flush.waits = "appends" => flush.left \in 1 .. Len(a)
        /\ flush.waits = "posts" => flush.left \in 1 .. Len(p)
        /\ pledged \subseteq Handed \cup (CASE flush.waits = "appends" -> Hashes(p)
                                            [] flush.waits = "posts"   -> FirstOf(p, flush.left)
                                            [] OTHER                   -> {})
        /\ faults = 0 => pledged \subseteq Hashes(r) \cup
                            (IF flush.waits = "appends" THEN FirstOf(a, flush.left) ELSE {})
    BY <1>1, <1>3, <1>6, <2>1 DEF AuditFlush
  <2>7. /\ flush'.waits = "appends" => flush'.left \in 1 .. Len(b)
        /\ flush'.waits = "posts" => flush'.left \in 1 .. Len(p)
    BY <1>4, <1>9, <2>1, <2>6
  <2>8. pledged \subseteq Handed \cup (CASE flush'.waits = "appends" -> Hashes(p)
                                        [] flush'.waits = "posts"   -> FirstOf(p, flush'.left)
                                        [] OTHER                   -> {})
    <3>1. CASE flush.waits # "appends"
      BY <1>9, <2>6, <3>1
    <3>2. CASE flush.waits = "appends"
      <4>1. pledged \subseteq Handed \cup Hashes(p)
        BY <2>6, <3>2
      <4> QED
        BY <1>9, <2>1, <2>2, <3>2, <4>1
    <3> QED
      BY <3>1, <3>2
  <2>9. faults' = 0 => pledged \subseteq Hashes(n) \cup (IF flush'.waits = "appends" THEN FirstOf(b, flush'.left) ELSE {})
    <3> SUFFICES ASSUME faults' = 0
                 PROVE  pledged \subseteq Hashes(n) \cup (IF flush'.waits = "appends" THEN FirstOf(b, flush'.left) ELSE {})
      OBVIOUS
    <3>1. Hashes(n) = Hashes(r) \cup {e.hash} /\ faults = 0
      BY <1>8, <2>4
    <3>2. CASE flush.waits # "appends"
      BY <1>9, <2>6, <3>1, <3>2
    <3>3. CASE flush.waits = "appends" /\ flush.left > 1
      <4>1. flush'.waits = "appends" /\ flush'.left = flush.left - 1 /\ flush.left \in Nat /\ flush.left >= 1
        BY <1>4, <1>9, <2>6, <3>3
      <4>2. FirstOf(a, flush.left) \subseteq {e.hash} \cup FirstOf(b, flush'.left)
        BY <2>3, <4>1
      <4> QED
        BY <2>6, <3>1, <3>3, <4>1, <4>2
    <3>4. CASE flush.waits = "appends" /\ ~(flush.left > 1)
      <4>1. flush.left = 1
        BY <1>4, <2>6, <3>4
      <4>2. FirstOf(a, 1) \subseteq {e.hash} \cup FirstOf(b, 0)
        <5>1. 1 \in Nat /\ 1 >= 1 /\ 1 - 1 = 0
          OBVIOUS
        <5> QED
          BY <2>3, <5>1
      <4> QED
        BY <2>3, <2>6, <3>1, <3>4, <4>1, <4>2
    <3> QED
      BY <3>2, <3>3, <3>4
  <2> QED
    BY <1>2, <1>4, <1>7, <2>1, <2>5, <2>7, <2>8, <2>9 DEF AuditFlush
<1>14. AuditExact'
  <2> SUFFICES ASSUME faults' = 0
               PROVE  /\ \A i \in DOMAIN n : n[i].seq = i
                      /\ \A i \in DOMAIN b : b[i].seq = Len(n) + i
                      /\ seq = Len(n) + Len(b) /\ ring = LastOf(n \o b)
                      /\ Hashes(posts) \subseteq Hashes(n) \cup Hashes(b)
    BY <1>2, <1>4, <1>7 DEF AuditExact
  <2>1. n = Append(r, e) /\ faults = 0
    BY <1>8
  <2>2. Len(n) = Len(r) + 1 /\ n[Len(r) + 1] = e /\ (\A i \in 1 .. Len(r) : n[i] = r[i]) /\ DOMAIN n = 1 .. (Len(r) + 1)
    BY <2>1, AppendFacts
  <2>3. /\ \A i \in 1 .. Len(r) : r[i].seq = i
        /\ \A i \in 1 .. Len(a) : a[i].seq = Len(r) + i
        /\ seq = Len(r) + Len(a) /\ ring = LastOf(r \o a)
        /\ Hashes(posts) \subseteq Hashes(r) \cup Hashes(a)
    <3>1. DOMAIN r = 1 .. Len(r) /\ DOMAIN a = 1 .. Len(a)
      BY <1>4
    <3>2. AuditExact /\ faults = 0 /\ Running /\ r = Readable /\ a = appends
      BY <1>1, <1>3, <1>6, <2>1
    <3> QED
      BY <3>1, <3>2 DEF AuditExact
  <2>4. \A i \in DOMAIN n : n[i].seq = i
    <3> SUFFICES ASSUME NEW i \in 1 .. (Len(r) + 1)
                 PROVE  n[i].seq = i
      BY <2>2
    <3>1. CASE i = Len(r) + 1
      <4>1. a[1].seq = Len(r) + 1
        BY <1>4, <2>3
      <4> QED
        BY <1>5, <2>2, <3>1, <4>1
    <3>2. CASE i # Len(r) + 1
      <4>1. i \in 1 .. Len(r)
        BY <1>7, <3>2
      <4> QED
        BY <2>2, <2>3, <4>1
    <3> QED
      BY <3>1, <3>2
  <2>5. \A i \in DOMAIN b : b[i].seq = Len(n) + i
    <3> SUFFICES ASSUME NEW i \in 1 .. (Len(a) - 1)
                 PROVE  b[i].seq = Len(n) + i
      BY <1>4
    <3>1. i + 1 \in 1 .. Len(a) /\ b[i] = a[i + 1]
      BY <1>4
    <3>2. b[i].seq = Len(r) + (i + 1)
      BY <2>3, <3>1
    <3> QED
      BY <1>7, <2>2, <3>2
  <2>6. seq = Len(n) + Len(b)
    BY <1>4, <1>7, <2>2, <2>3
  <2>7. n \o b = r \o a
    BY <1>3, <1>4, <1>5, <2>1, MoveHead
  <2>8. Hashes(n) = Hashes(r) \cup {e.hash} /\ Hashes(a) = {e.hash} \cup Hashes(b)
    BY <1>3, <1>4, <1>5, <2>1, QueueGrows, QueueShrinks
  <2> QED
    BY <2>3, <2>4, <2>5, <2>6, <2>7, <2>8
<1> QED
  BY <1>10, <1>11, <1>12, <1>13, <1>14 DEF AuditIInv

\* What follows on as the head of the queue leaves it.
LEMMA NextFrom ==
    ASSUME AuditIInv, appends # <<>>, appends' = Tail(appends), lastHash' = lastHash
    PROVE  From' = Head(appends).hash /\ From = Head(appends).prevHash
<1>1. PICK a \in Seq(Entries) : a = appends /\ a # <<>>
  BY DEF AuditIInv, AuditTypes
<1>2. Len(a) \in Nat \ {0} /\ Head(a) = a[1] /\ DOMAIN a = 1 .. Len(a)
  BY <1>1
<1>3. /\ \A i \in DOMAIN a : i > 1 => a[i].prevHash = a[i - 1].hash
      /\ lastHash = a[Len(a)].hash
  BY <1>1 DEF AuditIInv, AuditRecorded
<1>4. From = Head(a).prevHash
  BY <1>1, <1>2 DEF From
<1>5. PICK b \in Seq(Entries) : b = Tail(a) /\ appends' = b
  BY <1>1
<1>6. Len(b) = Len(a) - 1 /\ \A i \in 1 .. Len(b) : b[i] = a[i + 1]
  BY <1>1, <1>5
<1>7. CASE b = <<>>
  <2>1. Len(a) = 1
    <3>1. Len(b) = 0
      BY <1>7
    <3>2. Len(a) \in Nat /\ Len(a) - 1 = 0
      BY <1>2, <1>6, <3>1
    <3> QED
      BY <3>2
  <2> QED
    BY <1>1, <1>2, <1>3, <1>4, <1>5, <1>7, <2>1 DEF From
<1>8. CASE b # <<>>
  <2>1. Len(b) >= 1 /\ 2 \in DOMAIN a /\ 2 > 1 /\ 2 - 1 = 1
    BY <1>2, <1>6, <1>8
  <2>2. b[1] = a[2]
    BY <1>6, <2>1
  <2>3. a[2].prevHash = a[1].hash
    BY <1>3, <2>1
  <2> QED
    BY <1>1, <1>2, <1>4, <1>5, <1>8, <2>2, <2>3 DEF From
<1> QED
  BY <1>7, <1>8

LEMMA AppendDoneStays ==
    ASSUME AuditIInv, AppendDone
    PROVE  AuditIInv'
<1>1. /\ Running /\ appends # <<>> /\ appends' = Tail(appends) /\ Waited("appends") /\ torn' = FALSE
      /\ file' = Append(file, [entry |-> Head(appends), whole |-> ~torn])
      /\ UNCHANGED <<memory, sink, made, pledged, lifeVars>> /\ faults' = faults
  BY DEF AppendDone
<1>2. AuditTypes /\ AuditChain /\ faults \in Nat /\ torn \in BOOLEAN
  BY DEF AuditIInv, AuditTypes
<1>3. PICK e \in Entries : e = Head(appends)
  <2>1. PICK a \in Seq(Entries) : a = appends /\ a # <<>>
    BY <1>1, <1>2 DEF AuditTypes
  <2> QED
    BY <2>1
<1>4. PICK l \in Seq(LogLines) : l = file
  BY <1>2 DEF AuditTypes
<1>5. PICK w \in BOOLEAN : w = ~torn
  OBVIOUS
<1>6. file' \in Seq(LogLines) /\ EntriesOf(file') = IF w THEN Append(EntriesOf(l), e) ELSE EntriesOf(l)
  BY <1>1, <1>3, <1>4, <1>5, EntriesOfMore
<1>7. PICK r \in Seq(Entries) : r = Readable /\ r = EntriesOf(l)
  BY <1>4, ReadableEntries, EntriesOfLines
<1>8. Readable' = IF torn THEN r ELSE Append(r, e)
  BY <1>5, <1>6, <1>7, ReadableEntries
<1>9. From' = e.hash /\ From = e.prevHash
  BY <1>1, <1>3, NextFrom DEF memory
<1>10. /\ Cardinality(Breaks(r)) \in Nat
       /\ Cardinality(Breaks(Append(r, e))) = Cardinality(Breaks(r)) + (IF e.prevHash # Tip(r) THEN 1 ELSE 0)
  BY BreakAdded
<1>11. Tip(Append(r, e)) = e.hash
  <2> DEFINE n == Append(r, e)
  <2>1. n # <<>> /\ n[Len(n)] = e
    OBVIOUS
  <2> HIDE DEF n
  <2>2. Tip(n) = e.hash
    BY <2>1 DEF Tip
  <2> QED
    BY <2>2 DEF n
<1>12. Cardinality(Breaks(r)) + (IF Gap THEN 1 ELSE 0) <= faults
  BY <1>2, <1>7 DEF AuditChain
<1>13. phase' = phase
  BY <1>1 DEF lifeVars
<1>14. torn => faults # 0
  BY <1>2, <1>10, <1>12 DEF Gap
<1>15. AuditChain'
  <2>1. CASE torn
    <3>1. Gap /\ Readable' = r
      BY <1>8, <2>1 DEF Gap
    <3> QED
      BY <1>1, <1>2, <1>10, <1>12, <3>1 DEF AuditChain
  <2>2. CASE ~torn
    <3>1. Readable' = Append(r, e) /\ (Gap <=> e.prevHash # Tip(r))
      BY <1>1, <1>7, <1>8, <1>9, <2>2 DEF Gap
    <3>2. ~Gap'
      BY <1>1, <1>9, <1>11, <3>1 DEF Gap
    <3> QED
      BY <1>1, <1>2, <1>10, <1>12, <3>1, <3>2 DEF AuditChain
  <2> QED
    BY <2>1, <2>2
<1> QED
  BY <1>1, <1>2, <1>3, <1>6, <1>7, <1>8, <1>14, <1>15, AppendEnds

LEMMA AppendFailsStays ==
    ASSUME AuditIInv, NEW short \in BOOLEAN, AppendFails(short)
    PROVE  AuditIInv'
<1>1. /\ Running /\ appends # <<>> /\ appends' = Tail(appends) /\ Waited("appends")
      /\ torn' = (torn \/ short) /\ faults' = faults + 1
      /\ UNCHANGED <<memory, file, sink, made, pledged, lifeVars>>
  BY DEF AppendFails
<1>2. AuditTypes /\ AuditChain /\ faults \in Nat /\ file \in Seq(LogLines)
  BY DEF AuditIInv, AuditTypes
<1>3. PICK r \in Seq(Entries) : r = Readable /\ Readable' = r
  BY <1>1, <1>2, ReadableEntries, EntriesOfLines
<1>4. Cardinality(Breaks(r)) \in Nat
  <2>1. PICK es \in Seq(Entries), e \in Entries : es = r
    <3>1. PICK a \in Seq(Entries) : a = appends /\ a # <<>>
      BY <1>1, <1>2 DEF AuditTypes
    <3>2. Head(a) \in Entries
      BY <3>1
    <3> QED
      BY <3>2
  <2> QED
    BY <2>1, BreakAdded
<1>5. AuditChain'
  BY <1>1, <1>2, <1>3, <1>4 DEF AuditChain
<1>6. faults' \in Nat /\ faults' # 0 /\ torn' \in BOOLEAN
  BY <1>1, <1>2
<1> QED
  BY <1>1, <1>2, <1>3, <1>5, <1>6, AppendEnds

\* What the receiver got is in order, and of no entry behind h; of h, the last k things.
Ordered(es) == \A i, j \in DOMAIN es : i < j =>
    /\ es[i].hash <= es[j].hash
    /\ es[i].hash = es[j].hash => j - i < MaxAttempts
Behind(es, h, k) == \A i \in DOMAIN es : es[i].hash <= h /\ (es[i].hash = h => i > Len(es) - k)

\* What waits is ahead of what arrived when its head is.
LEMMA HeadIsAhead ==
    ASSUME NEW es \in Seq(Entries), NEW q \in Seq(Entries), NEW k \in Nat,
           \A i, j \in DOMAIN q : i < j => q[i].hash < q[j].hash,
           q # <<>> => Behind(es, q[1].hash, k)
    PROVE  \A i \in DOMAIN es, j \in DOMAIN q :
              es[i].hash <= q[j].hash /\ (es[i].hash = q[j].hash => i > Len(es) - k)
<1> SUFFICES ASSUME NEW i \in DOMAIN es, NEW j \in DOMAIN q
             PROVE  es[i].hash <= q[j].hash /\ (es[i].hash = q[j].hash => i > Len(es) - k)
  OBVIOUS
<1>1. DOMAIN q = 1 .. Len(q) /\ Len(q) \in Nat /\ 1 \in DOMAIN q /\ q # <<>> /\ (j = 1 \/ 1 < j)
  <2>1. DOMAIN q = 1 .. Len(q) /\ Len(q) \in Nat
    OBVIOUS
  <2> QED
    BY <2>1
<1>2. q[1].hash \in Nat /\ q[j].hash \in Nat /\ es[i].hash \in Nat
  BY <1>1, EntryFacts
<1>3. es[i].hash <= q[1].hash /\ (es[i].hash = q[1].hash => i > Len(es) - k)
  BY <1>1 DEF Behind
<1>4. j = 1 \/ q[1].hash < q[j].hash
  BY <1>1
<1> QED
  BY <1>2, <1>3, <1>4

\* One more copy of the head arrives.
LEMMA CopyArrives ==
    ASSUME NEW es \in Seq(Entries), NEW e \in Entries, NEW k \in Nat, k < MaxAttempts,
           Ordered(es), Behind(es, e.hash, k)
    PROVE  Ordered(Append(es, e)) /\ Behind(Append(es, e), e.hash, k + 1)
<1>1. PICK n \in Seq(Entries) : /\ n = Append(es, e) /\ Len(es) \in Nat /\ Len(n) = Len(es) + 1
                                /\ n[Len(es) + 1] = e /\ \A i \in 1 .. Len(es) : n[i] = es[i]
  <2> DEFINE n == Append(es, e)
  <2>1. /\ n \in Seq(Entries) /\ Len(es) \in Nat /\ Len(n) = Len(es) + 1
        /\ n[Len(es) + 1] = e /\ \A i \in 1 .. Len(es) : n[i] = es[i]
    BY AppendFacts
  <2> HIDE DEF n
  <2> QED
    BY <2>1 DEF n
<1>2. DOMAIN es = 1 .. Len(es) /\ DOMAIN n = 1 .. (Len(es) + 1)
  BY <1>1
<1>3. e.hash \in Nat /\ MaxAttempts \in Nat \ {0}
  BY EntryFacts, AuditAssumption
<1>4. \A i \in 1 .. Len(es) : es[i].hash <= e.hash /\ (es[i].hash = e.hash => i > Len(es) - k)
  BY <1>2 DEF Behind
<1>5. Ordered(n)
  <2> SUFFICES ASSUME NEW i \in 1 .. (Len(es) + 1), NEW j \in 1 .. (Len(es) + 1), i < j
               PROVE  n[i].hash <= n[j].hash /\ (n[i].hash = n[j].hash => j - i < MaxAttempts)
    BY <1>2 DEF Ordered
  <2>1. i \in 1 .. Len(es) /\ n[i] = es[i]
    BY <1>1
  <2>2. CASE j = Len(es) + 1
    <3>1. n[j] = e
      BY <1>1, <2>2
    <3>2. es[i].hash = e.hash => i > Len(es) - k
      BY <1>4, <2>1
    <3>3. i > Len(es) - k => j - i < MaxAttempts
      BY <1>1, <1>3, <2>2
    <3> QED
      BY <1>4, <2>1, <3>1, <3>2, <3>3
  <2>3. CASE j # Len(es) + 1
    <3>1. j \in 1 .. Len(es) /\ n[j] = es[j]
      BY <1>1, <2>3
    <3> QED
      BY <1>2, <2>1, <3>1 DEF Ordered
  <2> QED
    BY <2>2, <2>3
<1>6. Behind(n, e.hash, k + 1)
  <2> SUFFICES ASSUME NEW i \in 1 .. (Len(es) + 1)
               PROVE  n[i].hash <= e.hash /\ (n[i].hash = e.hash => i > Len(n) - (k + 1))
    BY <1>2 DEF Behind
  <2>1. CASE i = Len(es) + 1
    <3>1. n[i] = e /\ i > Len(n) - (k + 1)
      BY <1>1, <2>1
    <3> QED
      BY <1>3, <3>1
  <2>2. CASE i # Len(es) + 1
    <3>1. i \in 1 .. Len(es) /\ n[i] = es[i]
      BY <1>1, <2>2
    <3>2. i > Len(es) - k => i > Len(n) - (k + 1)
      BY <1>1
    <3> QED
      BY <1>4, <3>1, <3>2
  <2> QED
    BY <2>1, <2>2
<1> QED
  BY <1>1, <1>5, <1>6

\* What the receiver has of the head of the queue, after one more attempt or none.
LEMMA AttemptFacts ==
    ASSUME AuditIInv, posts # <<>>,
           \/ received' = received
           \/ received' = Append(received, Head(posts)) /\ attempt <= MaxAttempts
    PROVE  /\ received' \in Seq(Entries) /\ Ordered(received') /\ attempt \in Nat /\ attempt >= 1
           /\ Behind(received', Head(posts).hash, attempt)
           /\ \A i \in DOMAIN received' : received'[i].hash <= made
           /\ Hashes(received) \subseteq Hashes(received')
           /\ received' # received => Head(posts).hash \in Hashes(received')
<1>1. AuditTypes /\ AuditRecorded /\ AuditDelivery
  BY DEF AuditIInv
<1>2. PICK p \in Seq(Entries) : p = posts /\ p # <<>>
  BY <1>1 DEF AuditTypes
<1>3. PICK e \in Entries : e = Head(posts) /\ e = p[1] /\ 1 \in DOMAIN p
  <2>1. Head(p) \in Entries /\ Head(p) = p[1] /\ 1 \in DOMAIN p
    BY <1>2, TailFacts
  <2> QED
    BY <1>2, <2>1
<1>4. PICK es \in Seq(Entries) : es = received
  BY <1>1 DEF AuditTypes
<1>5. PICK k \in Nat : k = attempt - 1 /\ attempt = k + 1
  <2>1. attempt \in 1 .. MaxAttempts + 1 /\ MaxAttempts \in Nat
    BY <1>1, AuditAssumption DEF AuditTypes
  <2>2. attempt - 1 \in Nat /\ attempt = (attempt - 1) + 1
    BY <2>1
  <2> QED
    BY <2>2
<1>6. Ordered(es) /\ Behind(es, e.hash, k)
  <2>1. Ordered(es)
    BY <1>1, <1>4 DEF AuditDelivery, DeliveredInOrder, Ordered
  <2>2. Behind(es, e.hash, k)
    BY <1>1, <1>2, <1>3, <1>4, <1>5 DEF AuditDelivery, Behind
  <2> QED
    BY <2>1, <2>2
<1>7. (\A i \in DOMAIN es : es[i].hash <= made) /\ e.hash <= made
  BY <1>1, <1>2, <1>3, <1>4 DEF AuditRecorded
<1>8. CASE received' = received
  <2>1. Behind(es, e.hash, k + 1)
    <3>1. Len(es) \in Nat /\ \A i \in DOMAIN es : i \in Nat
      OBVIOUS
    <3>2. \A i \in Nat : i > Len(es) - k => i > Len(es) - (k + 1)
      BY <3>1
    <3> QED
      BY <1>6, <3>1, <3>2 DEF Behind
  <2> QED
    BY <1>3, <1>4, <1>5, <1>6, <1>7, <1>8, <2>1
<1>9. CASE received' = Append(received, Head(posts)) /\ attempt <= MaxAttempts
  <2>1. k < MaxAttempts
    BY <1>5, <1>9, AuditAssumption
  <2>2. Ordered(Append(es, e)) /\ Behind(Append(es, e), e.hash, k + 1)
    BY <1>6, <2>1, CopyArrives
  <2>3. PICK n \in Seq(Entries) : n = Append(es, e) /\ received' = n
    <3>1. Append(es, e) \in Seq(Entries)
      BY AppendFacts
    <3> QED
      BY <1>3, <1>4, <1>9, <3>1
  <2>4. Hashes(n) = Hashes(es) \cup {e.hash}
    BY <2>3, QueueGrows
  <2>5. \A i \in DOMAIN n : n[i].hash <= made
    <3>1. \A i \in DOMAIN n : n[i].hash <= e.hash /\ n[i].hash \in Nat
      BY <2>2, <2>3, EntryFacts DEF Behind
    <3>2. made \in Nat /\ e.hash \in Nat
      BY <1>1, EntryFacts, AuditAssumption DEF AuditTypes
    <3> QED
      BY <1>7, <3>1, <3>2
  <2> QED
    BY <1>3, <1>4, <1>5, <2>2, <2>3, <2>4, <2>5
<1> QED
  BY <1>8, <1>9

\* Nothing of the file and of what waits for it changes.
LEMMA FileRests ==
    ASSUME AuditIInv, UNCHANGED <<disk, memory, made, faults, lifeVars>>
    PROVE  /\ Readable' = Readable /\ AuditChain'
           /\ /\ seq' <= made'
              /\ \A i \in DOMAIN appends' : appends'[i].seq <= made'
              /\ \A i \in DOMAIN Readable' : Readable'[i].seq <= made'
              /\ \A i \in DOMAIN appends' : i > 1 => appends'[i].prevHash = appends'[i - 1].hash
              /\ appends' # <<>> => lastHash' = appends'[Len(appends')].hash
           /\ ((posts' = Tail(posts) /\ posts # <<>>) \/ posts' = posts) => AuditExact'
<1>1. /\ UNCHANGED <<appends, file, torn, seq, lastHash, ring, made, faults>>
      /\ phase' = phase /\ exits' = exits
  BY DEF disk, memory, lifeVars
<1>2. AuditTypes /\ AuditRecorded /\ AuditChain /\ AuditExact
  BY DEF AuditIInv
<1>3. Readable' = Readable
  BY <1>1, ReadableEntries
<1>4. From' = From
  BY <1>1 DEF From
<1>5. Gap' <=> Gap
  BY <1>1, <1>3, <1>4 DEF Gap, Running
<1>6. AuditChain'
  BY <1>1, <1>2, <1>3, <1>5 DEF AuditChain
<1>7. ASSUME (posts' = Tail(posts) /\ posts # <<>>) \/ posts' = posts
      PROVE  AuditExact'
  <2>1. Hashes(posts') \subseteq Hashes(posts)
    <3>1. CASE posts' = posts
      BY <3>1
    <3>2. CASE posts' = Tail(posts) /\ posts # <<>>
      <4>1. PICK p \in Seq(Entries) : p = posts
        BY <1>2 DEF AuditTypes
      <4> QED
        BY <3>2, <4>1, QueueShrinks
    <3> QED
      BY <1>7, <3>1, <3>2
  <2> QED
    BY <1>1, <1>2, <1>3, <2>1 DEF AuditExact, Running
<1> QED
  BY <1>1, <1>2, <1>3, <1>6, <1>7 DEF AuditRecorded

\* The head of the queue is settled.
LEMMA PostEnds ==
    ASSUME AuditIInv, Running, posts # <<>>, posts' = Tail(posts), attempt' = 1, Waited("posts"),
           UNCHANGED <<memory, disk, made, pledged, faults, lifeVars>>,
           \/ received' = received
           \/ received' = Append(received, Head(posts)) /\ attempt <= MaxAttempts,
           deadLetters' \subseteq 1 .. MaxRecords, dropped' \subseteq 1 .. MaxRecords,
           Handed \cup {Head(posts).hash} \subseteq Handed'
    PROVE  AuditIInv'
<1>1. AuditTypes /\ AuditRecorded /\ AuditDelivery /\ AuditFlush /\ AuditChain /\ AuditExact
  BY DEF AuditIInv
<1>2. /\ UNCHANGED <<seq, lastHash, ring, appends, file, torn, made, pledged, faults>>
      /\ phase' = phase /\ exits' = exits
  BY DEF memory, disk, lifeVars
<1>3. PICK p \in Seq(Entries) : p = posts /\ p # <<>>
  BY <1>1 DEF AuditTypes
<1>4. PICK b \in Seq(Entries) :
        /\ b = Tail(p) /\ posts' = b /\ Len(p) \in Nat \ {0} /\ Len(b) = Len(p) - 1 /\ Head(p) = p[1]
        /\ DOMAIN p = 1 .. Len(p) /\ DOMAIN b = 1 .. (Len(p) - 1) /\ \A i \in 1 .. (Len(p) - 1) : b[i] = p[i + 1]
  <2> DEFINE b == Tail(p)
  <2>1. /\ b \in Seq(Entries) /\ Len(p) \in Nat \ {0} /\ Len(b) = Len(p) - 1 /\ Head(p) = p[1]
        /\ DOMAIN p = 1 .. Len(p) /\ DOMAIN b = 1 .. (Len(p) - 1) /\ \A i \in 1 .. (Len(p) - 1) : b[i] = p[i + 1]
    BY <1>3
  <2>2. posts' = b
    BY <1>3
  <2> HIDE DEF b
  <2> QED
    BY <2>1, <2>2 DEF b
<1>5. PICK e \in Entries : e = Head(posts) /\ e = p[1] /\ 1 \in DOMAIN p
  BY <1>3, <1>4
<1>6. PICK n \in Seq(Entries) : /\ n = received' /\ Ordered(n) /\ attempt \in Nat /\ Behind(n, e.hash, attempt)
                                /\ \A i \in DOMAIN n : n[i].hash <= made
  BY <1>5, AttemptFacts
<1>7. /\ flush' \in [waits : {"none", "appends", "posts", "nothing"}, left : Nat]
      /\ flush.waits # "posts" => flush' = flush
      /\ flush.waits = "posts" /\ flush.left > 1 => flush'.waits = "posts" /\ flush'.left = flush.left - 1
      /\ flush.waits = "posts" /\ ~(flush.left > 1) => flush'.waits = "nothing"
  BY <1>1, WaitedFacts
<1>8. AuditTypes'
  <2>1. phase # "down"
    BY DEF Running
  <2>2. attempt' \in 1 .. MaxAttempts + 1
    BY AuditAssumption
  <2> QED
    BY <1>1, <1>2, <1>4, <1>6, <1>7, <2>1, <2>2 DEF AuditTypes, LifeTypeOK
<1>9. \A i, j \in DOMAIN p : i < j => p[i].hash < p[j].hash
  BY <1>1, <1>3 DEF AuditDelivery
<1>10. AuditRecorded'
  <2>1. \A i \in DOMAIN b : b[i].hash <= made
    <3>1. \A i \in DOMAIN p : p[i].hash <= made
      BY <1>1, <1>3 DEF AuditRecorded
    <3> SUFFICES ASSUME NEW i \in 1 .. (Len(p) - 1)
                 PROVE  b[i].hash <= made
      BY <1>4
    <3>2. i + 1 \in 1 .. Len(p)
      BY <1>4
    <3> QED
      BY <1>4, <3>1, <3>2
  <2>2. UNCHANGED <<disk, memory, made, faults, lifeVars>>
    OBVIOUS
  <2> QED
    BY <1>2, <1>4, <1>6, <2>1, <2>2, FileRests DEF AuditRecorded
<1>11. AuditDelivery'
  <2>1. \A i, j \in DOMAIN b : i < j => b[i].hash < b[j].hash
    <3> SUFFICES ASSUME NEW i \in 1 .. (Len(p) - 1), NEW j \in 1 .. (Len(p) - 1), i < j
                 PROVE  b[i].hash < b[j].hash
      BY <1>4
    <3>1. i + 1 \in 1 .. Len(p) /\ j + 1 \in 1 .. Len(p) /\ i + 1 < j + 1
      BY <1>4
    <3> QED
      BY <1>4, <1>9, <3>1
  <2>2. b # <<>> => Behind(n, b[1].hash, 0)
    <3> SUFFICES ASSUME b # <<>>
                 PROVE  Behind(n, b[1].hash, 0)
      OBVIOUS
    <3>1. Len(p) - 1 >= 1
      BY <1>4
    <3>2. b[1] = p[2] /\ 2 \in DOMAIN p /\ 1 < 2
      BY <1>4, <3>1
    <3>3. e.hash < b[1].hash /\ b[1].hash \in Nat /\ e.hash \in Nat
      BY <1>5, <1>9, <3>2, EntryFacts
    <3>4. \A i \in DOMAIN n : n[i].hash \in Nat /\ n[i].hash <= e.hash
      BY <1>6, EntryFacts DEF Behind
    <3>5. \A i \in DOMAIN n : n[i].hash < b[1].hash
      BY <3>3, <3>4
    <3>6. \A i \in DOMAIN n : n[i].hash <= b[1].hash /\ n[i].hash # b[1].hash
      BY <3>3, <3>4, <3>5
    <3> QED
      BY <3>6 DEF Behind
  <2>3. \A i \in DOMAIN n, j \in DOMAIN b :
           n[i].hash <= b[j].hash /\ (n[i].hash = b[j].hash => i > Len(n) - 0)
    <3>1. 0 \in Nat
      OBVIOUS
    <3> QED
      BY <2>1, <2>2, <3>1, HeadIsAhead
  <2>4. DeliveredInOrder'
    BY <1>6 DEF DeliveredInOrder, Ordered
  <2>5. attempt' - 1 = 0
    OBVIOUS
  <2> QED
    BY <1>4, <1>6, <2>1, <2>3, <2>4, <2>5 DEF AuditDelivery
<1>12. UNCHANGED <<disk, memory, made, faults, lifeVars>>
  OBVIOUS
<1>13. AuditFlush'
  <2>1. /\ flush.waits = "appends" => flush.left \in 1 .. Len(appends)
        /\ flush.waits = "posts" => flush.left \in 1 .. Len(p)
        /\ pledged \subseteq Handed \cup (CASE flush.waits = "appends" -> Hashes(p)
                                            [] flush.waits = "posts"   -> FirstOf(p, flush.left)
                                            [] OTHER                   -> {})
        /\ faults = 0 => pledged \subseteq Hashes(Readable) \cup
                            (IF flush.waits = "appends" THEN FirstOf(appends, flush.left) ELSE {})
    BY <1>1, <1>3 DEF AuditFlush
  <2>2. /\ Hashes(p) = {e.hash} \cup Hashes(b)
        /\ \A k \in Nat : k >= 1 => FirstOf(p, k) \subseteq {e.hash} \cup FirstOf(b, k - 1)
        /\ FirstOf(b, 0) = {}
    BY <1>3, <1>4, <1>5, QueueShrinks
  <2>3. Handed \cup {e.hash} \subseteq Handed'
    BY <1>5
  <2>4. Readable' = Readable
    BY <1>12, FileRests
  <2>5. /\ flush'.waits = "appends" => flush'.left \in 1 .. Len(appends)
        /\ flush'.waits = "posts" => flush'.left \in 1 .. Len(b)
    BY <1>4, <1>7, <2>1
  <2>6. pledged \subseteq Handed' \cup (CASE flush'.waits = "appends" -> Hashes(b)
                                         [] flush'.waits = "posts"   -> FirstOf(b, flush'.left)
                                         [] OTHER                    -> {})
    <3>1. CASE flush.waits = "appends"
      <4>1. flush'.waits = "appends" /\ pledged \subseteq Handed \cup Hashes(p)
        BY <1>7, <2>1, <3>1
      <4> QED
        BY <2>2, <2>3, <4>1
    <3>2. CASE flush.waits # "appends" /\ flush.waits # "posts"
      <4>1. flush' = flush /\ pledged \subseteq Handed
        BY <1>7, <2>1, <3>2
      <4> QED
        BY <2>3, <4>1
    <3>3. CASE flush.waits = "posts" /\ flush.left > 1
      <4>1. flush'.waits = "posts" /\ flush'.left = flush.left - 1 /\ flush.left \in Nat /\ flush.left >= 1
        BY <1>4, <1>7, <2>1, <3>3
      <4>2. FirstOf(p, flush.left) \subseteq {e.hash} \cup FirstOf(b, flush'.left)
        BY <2>2, <4>1
      <4>3. pledged \subseteq Handed \cup FirstOf(p, flush.left)
        BY <2>1, <3>3
      <4> QED
        BY <2>3, <4>1, <4>2, <4>3
    <3>4. CASE flush.waits = "posts" /\ ~(flush.left > 1)
      <4>1. flush.left = 1 /\ flush'.waits = "nothing"
        BY <1>4, <1>7, <2>1, <3>4
      <4>2. FirstOf(p, 1) \subseteq {e.hash} \cup FirstOf(b, 0)
        <5>1. 1 \in Nat /\ 1 >= 1 /\ 1 - 1 = 0
          OBVIOUS
        <5> QED
          BY <2>2, <5>1
      <4>3. pledged \subseteq Handed \cup FirstOf(p, 1)
        BY <2>1, <3>4, <4>1
      <4> QED
        BY <2>2, <2>3, <4>1, <4>2, <4>3
    <3> QED
      BY <3>1, <3>2, <3>3, <3>4
  <2>7. faults = 0 => pledged \subseteq Hashes(Readable) \cup
                         (IF flush'.waits = "appends" THEN FirstOf(appends, flush'.left) ELSE {})
    BY <1>7, <2>1
  <2> QED
    BY <1>2, <1>4, <2>4, <2>5, <2>6, <2>7 DEF AuditFlush
<1>14. AuditChain' /\ AuditExact'
  BY <1>12, FileRests
<1> QED
  BY <1>8, <1>10, <1>11, <1>13, <1>14 DEF AuditIInv

LEMMA DeliveredStays ==
    ASSUME AuditIInv, Delivered
    PROVE  AuditIInv'
<1>1. /\ Running /\ posts # <<>> /\ attempt <= MaxAttempts /\ received' = Append(received, Head(posts))
      /\ posts' = Tail(posts) /\ attempt' = 1 /\ Waited("posts")
      /\ UNCHANGED <<memory, disk, deadLetters, dropped, made, pledged, faults, lifeVars>>
  BY DEF Delivered
<1>2. deadLetters \subseteq 1 .. MaxRecords /\ dropped \subseteq 1 .. MaxRecords
  BY DEF AuditIInv, AuditTypes
<1>3. PICK es \in Seq(Entries), e \in Entries : es = received /\ e = Head(posts)
  <2>1. PICK es \in Seq(Entries), p \in Seq(Entries) : es = received /\ p = posts /\ p # <<>>
    BY <1>1 DEF AuditIInv, AuditTypes
  <2>2. Head(p) \in Entries
    BY <2>1
  <2> QED
    BY <2>1, <2>2
<1>4. Hashes(received') = Hashes(received) \cup {Head(posts).hash}
  BY <1>1, <1>3, QueueGrows
<1>5. Handed \cup {Head(posts).hash} \subseteq Handed'
  BY <1>1, <1>4 DEF Handed
<1> QED
  BY <1>1, <1>2, <1>5, PostEnds

LEMMA DeadLetterStays ==
    ASSUME AuditIInv, NEW written \in BOOLEAN, DeadLetter(written)
    PROVE  AuditIInv'
<1>1. /\ Running /\ posts # <<>>
      /\ deadLetters' = (IF written THEN deadLetters \cup {Head(posts).hash} ELSE deadLetters)
      /\ dropped' = (IF written THEN dropped ELSE dropped \cup {Head(posts).hash})
      /\ posts' = Tail(posts) /\ attempt' = 1 /\ Waited("posts")
      /\ UNCHANGED <<memory, disk, received, made, pledged, faults, lifeVars>>
  BY DEF DeadLetter
<1>2. deadLetters \subseteq 1 .. MaxRecords /\ dropped \subseteq 1 .. MaxRecords
  BY DEF AuditIInv, AuditTypes
<1>3. Head(posts).hash \in 1 .. MaxRecords
  <2>1. PICK p \in Seq(Entries) : p = posts /\ p # <<>>
    BY <1>1 DEF AuditIInv, AuditTypes
  <2>2. Head(p) \in Entries
    BY <2>1
  <2> QED
    BY <2>1, <2>2, EntryFacts
<1>4. deadLetters' \subseteq 1 .. MaxRecords /\ dropped' \subseteq 1 .. MaxRecords
  BY <1>1, <1>2, <1>3
<1>5. Handed \cup {Head(posts).hash} \subseteq Handed'
  BY <1>1 DEF Handed
<1> QED
  BY <1>1, <1>4, <1>5, PostEnds

LEMMA PostFailsStays ==
    ASSUME AuditIInv, NEW arrived \in BOOLEAN, PostFails(arrived)
    PROVE  AuditIInv'
<1>1. /\ Running /\ posts # <<>> /\ attempt <= MaxAttempts /\ attempt' = attempt + 1 /\ posts' = posts
      /\ received' = received \/ received' = Append(received, Head(posts))
      /\ UNCHANGED <<memory, disk, deadLetters, dropped, flush, made, pledged, faults, lifeVars>>
  BY DEF PostFails
<1>2. AuditTypes /\ AuditRecorded /\ AuditDelivery /\ AuditFlush /\ AuditChain /\ AuditExact
  BY DEF AuditIInv
<1>3. /\ UNCHANGED <<seq, lastHash, ring, appends, file, torn, made, pledged, faults>>
      /\ phase' = phase /\ exits' = exits
  BY <1>1 DEF memory, disk, lifeVars
<1>4. UNCHANGED <<disk, memory, made, faults, lifeVars>>
  BY <1>1
<1>5. PICK p \in Seq(Entries) : p = posts /\ p # <<>>
  BY <1>1, <1>2 DEF AuditTypes
<1>6. PICK n \in Seq(Entries) : /\ n = received' /\ Ordered(n) /\ attempt \in Nat /\ attempt >= 1
                                /\ Behind(n, p[1].hash, attempt)
                                /\ \A i \in DOMAIN n : n[i].hash <= made
                                /\ Hashes(received) \subseteq Hashes(n)
  <2>1. Head(posts) = p[1]
    BY <1>5
  <2> QED
    BY <1>1, <2>1, AttemptFacts
<1>7. AuditTypes'
  <2>1. attempt' \in 1 .. MaxAttempts + 1
    BY <1>1, <1>6, AuditAssumption
  <2> QED
    BY <1>1, <1>2, <1>3, <1>6, <2>1 DEF AuditTypes, LifeTypeOK
<1>8. Readable' = Readable /\ AuditChain' /\ AuditExact'
  BY <1>1, <1>4, FileRests
<1>9. AuditRecorded'
  BY <1>1, <1>2, <1>3, <1>6, <1>8 DEF AuditRecorded
<1>10. AuditDelivery'
  <2>1. \A i, j \in DOMAIN p : i < j => p[i].hash < p[j].hash
    BY <1>2, <1>5 DEF AuditDelivery
  <2>2. \A i \in DOMAIN n, j \in DOMAIN p :
           n[i].hash <= p[j].hash /\ (n[i].hash = p[j].hash => i > Len(n) - attempt)
    BY <1>6, <2>1, HeadIsAhead
  <2>3. DeliveredInOrder'
    BY <1>6 DEF DeliveredInOrder, Ordered
  <2>4. attempt' - 1 = attempt
    BY <1>1, <1>6
  <2> QED
    BY <1>1, <1>5, <1>6, <2>1, <2>2, <2>3, <2>4 DEF AuditDelivery
<1>11. AuditFlush'
  <2>1. Handed \subseteq Handed'
    BY <1>1, <1>6 DEF Handed
  <2>2. /\ flush.waits = "appends" => flush.left \in 1 .. Len(appends)
        /\ flush.waits = "posts" => flush.left \in 1 .. Len(posts)
        /\ pledged \subseteq Handed \cup (CASE flush.waits = "appends" -> Hashes(posts)
                                            [] flush.waits = "posts"   -> FirstOf(posts, flush.left)
                                            [] OTHER                   -> {})
        /\ faults = 0 => pledged \subseteq Hashes(Readable) \cup
                            (IF flush.waits = "appends" THEN FirstOf(appends, flush.left) ELSE {})
    BY <1>2 DEF AuditFlush
  <2>3. pledged \subseteq Handed' \cup (CASE flush.waits = "appends" -> Hashes(posts)
                                          [] flush.waits = "posts"   -> FirstOf(posts, flush.left)
                                          [] OTHER                   -> {})
    BY <2>1, <2>2
  <2> QED
    BY <1>1, <1>3, <1>8, <2>2, <2>3 DEF AuditFlush
<1> QED
  BY <1>7, <1>8, <1>9, <1>10, <1>11 DEF AuditIInv

\* What every entry that waits for the file is besides: queued for the receiver, or settled.
AuditQueued == Hashes(appends) \subseteq Handed \cup Hashes(posts)

\* What a boot makes of the entries it reads.
LEMMA BootFacts ==
    ASSUME NEW es \in Seq(Entries), NEW top \in Nat, \A i \in DOMAIN es : es[i].seq <= top
    PROVE  /\ Max({0} \cup {e.seq : e \in Range(es)}) \in 0 .. top
           /\ (\A i \in DOMAIN es : es[i].seq = i) => Max({0} \cup {e.seq : e \in Range(es)}) = Len(es)
           /\ (IF es = <<>> THEN Genesis ELSE Last(es).hash) = Tip(es)
           /\ Tip(es) \in 0 .. MaxRecords
<1>1. Len(es) \in Nat /\ DOMAIN es = 1 .. Len(es) /\ Range(es) = {es[i] : i \in 1 .. Len(es)}
  BY DEF Range
<1>2. \A i \in 1 .. Len(es) : es[i] \in Entries /\ es[i].seq \in 0 .. top /\ es[i].hash \in 0 .. MaxRecords
  <2> SUFFICES ASSUME NEW i \in 1 .. Len(es)
               PROVE  es[i] \in Entries /\ es[i].seq \in 0 .. top /\ es[i].hash \in 0 .. MaxRecords
    OBVIOUS
  <2>1. es[i] \in Entries /\ es[i].seq <= top
    BY <1>1
  <2> QED
    BY <2>1, EntryFacts, AuditAssumption
<1> DEFINE T == {0} \cup {e.seq : e \in Range(es)}
<1>3. /\ T \in SUBSET (0 .. top) /\ 0 \in T
      /\ \A i \in 1 .. Len(es) : es[i].seq \in T
      /\ \A t \in T : t = 0 \/ \E i \in 1 .. Len(es) : t = es[i].seq
  <2> DEFINE U == {e.seq : e \in Range(es)}
  <2>1. \A i \in 1 .. Len(es) : es[i].seq \in U
    BY <1>1
  <2>2. \A t \in U : \E i \in 1 .. Len(es) : t = es[i].seq
    BY <1>1
  <2>3. T = {0} \cup U
    OBVIOUS
  <2> HIDE DEF U, T
  <2>4. U \subseteq 0 .. top
    BY <1>2, <2>2
  <2>5. 0 \in 0 .. top
    OBVIOUS
  <2>6. T \in SUBSET (0 .. top) /\ 0 \in T
    BY <2>3, <2>4, <2>5
  <2> QED
    BY <2>1, <2>2, <2>3, <2>6
<1> HIDE DEF T
<1>4. Max(T) \in T /\ \A y \in T : Max(T) >= y
  <2>1. T # {}
    BY <1>3
  <2> QED
    BY <1>3, <2>1, MaxOfNaturals
<1>5. PICK m \in 0 .. top : m = Max(T) /\ m \in T /\ \A y \in T : m >= y
  BY <1>3, <1>4
<1>6. ASSUME \A i \in DOMAIN es : es[i].seq = i
      PROVE  m = Len(es)
  <2>1. CASE Len(es) = 0
    BY <1>3, <1>5, <2>1
  <2>2. CASE Len(es) # 0
    <3>1. Len(es) \in 1 .. Len(es)
      BY <1>1, <2>2
    <3>2. Len(es) \in T /\ m >= Len(es)
      BY <1>1, <1>3, <1>5, <1>6, <3>1
    <3>3. m = 0 \/ m \in 1 .. Len(es)
      BY <1>1, <1>3, <1>5, <1>6
    <3> QED
      BY <1>1, <2>2, <3>2, <3>3
  <2> QED
    BY <2>1, <2>2
<1>7. (IF es = <<>> THEN Genesis ELSE Last(es).hash) = Tip(es)
  BY DEF Tip, Last
<1>8. Tip(es) \in 0 .. MaxRecords
  <2>1. CASE es = <<>>
    BY <2>1, AuditAssumption DEF Tip, Genesis
  <2>2. CASE es # <<>>
    <3>1. Len(es) \in 1 .. Len(es)
      BY <2>2
    <3> QED
      BY <1>2, <2>2, <3>1 DEF Tip
  <2> QED
    BY <2>1, <2>2
<1> QED
  BY <1>5, <1>6, <1>7, <1>8 DEF T

\* The breaks of a chain can be counted.
LEMMA BreaksCount ==
    ASSUME NEW r \in Seq(Entries)
    PROVE  IsFiniteSet(Breaks(r)) /\ Cardinality(Breaks(r)) \in Nat
<1>1. IsFiniteSet(1 .. Len(r)) /\ Breaks(r) \subseteq 1 .. Len(r)
  <2>1. Len(r) \in Nat /\ DOMAIN r = 1 .. Len(r)
    OBVIOUS
  <2> QED
    BY <2>1, FS_Interval DEF Breaks
<1> QED
  BY <1>1, FS_Subset, FS_CardinalityType

\* A shutdown begins, and its hooks.
LEMMA PhaseMoves ==
    ASSUME AuditIInv, Running, phase' \in Phases \ {"down"}, exits' \in 0 .. MaxExits,
           UNCHANGED <<memory, disk, sink, made, faults>>
    PROVE  /\ Readable' = Readable /\ Handed' = Handed /\ LifeTypeOK'
           /\ AuditRecorded' /\ AuditDelivery' /\ AuditChain' /\ AuditExact'
<1>1. AuditRecorded /\ AuditDelivery /\ AuditChain /\ AuditExact
  BY DEF AuditIInv
<1>2. UNCHANGED <<seq, lastHash, ring, appends, file, torn, posts, attempt, received, deadLetters, dropped, made, faults>>
  BY DEF memory, disk, sink
<1>3. Readable' = Readable
  BY <1>2, ReadableEntries
<1>4. Running'
  BY DEF Running, Phases
<1>5. From' = From /\ (Gap' <=> Gap)
  BY <1>2, <1>3, <1>4 DEF From, Gap
<1>6. Handed' = Handed /\ LifeTypeOK'
  BY <1>2 DEF Handed, LifeTypeOK
<1>7. AuditRecorded'
  BY <1>1, <1>2, <1>3 DEF AuditRecorded
<1>8. AuditDelivery'
  BY <1>1, <1>2 DEF AuditDelivery, DeliveredInOrder
<1>9. AuditChain'
  BY <1>1, <1>2, <1>3, <1>5 DEF AuditChain
<1>10. AuditExact'
  BY <1>1, <1>2, <1>3, <1>4 DEF AuditExact
<1> QED
  BY <1>3, <1>6, <1>7, <1>8, <1>9, <1>10

LEMMA TerminateStays ==
    ASSUME AuditIInv, Terminate
    PROVE  AuditIInv'
<1>1. AuditTypes /\ AuditFlush
  BY DEF AuditIInv
<1>2. /\ phase = "up" /\ phase' = "draining" /\ exits' = exits
      /\ UNCHANGED <<memory, disk, sink, flush, made, pledged, faults>>
  BY DEF Terminate, Signal
<1>3. Running /\ phase' \in Phases \ {"down"} /\ exits' \in 0 .. MaxExits
  BY <1>1, <1>2 DEF Running, Phases, AuditTypes, LifeTypeOK
<1>4. UNCHANGED <<memory, disk, sink, made, faults>>
  BY <1>2
<1>5. /\ Readable' = Readable /\ Handed' = Handed /\ LifeTypeOK'
      /\ AuditRecorded' /\ AuditDelivery' /\ AuditChain' /\ AuditExact'
  BY <1>3, <1>4, PhaseMoves
<1>6. UNCHANGED <<seq, lastHash, ring, appends, file, torn, posts, attempt, received, deadLetters, dropped, made, faults, flush, pledged>>
  BY <1>2 DEF memory, disk, sink
<1>7. AuditTypes'
  BY <1>1, <1>2, <1>5, <1>6 DEF AuditTypes
<1>8. AuditFlush'
  BY <1>1, <1>5, <1>6 DEF AuditFlush
<1> QED
  BY <1>5, <1>7, <1>8 DEF AuditIInv

LEMMA RunHooksStays ==
    ASSUME AuditIInv, AuditQueued, RunHooks
    PROVE  AuditIInv'
<1>1. AuditTypes /\ AuditFlush /\ AuditExact
  BY DEF AuditIInv
<1>2. /\ phase = "draining" /\ phase' = "flushing" /\ exits' = exits
      /\ pledged' = Hashes(appends) \cup Hashes(posts)
      /\ flush' = IF appends # <<>> THEN [waits |-> "appends", left |-> Len(appends)]
                  ELSE IF posts # <<>> THEN [waits |-> "posts", left |-> Len(posts)]
                  ELSE [waits |-> "nothing", left |-> 0]
      /\ UNCHANGED <<memory, disk, sink, made, faults>>
  BY DEF RunHooks, StartHooks
<1>3. Running /\ phase' \in Phases \ {"down"} /\ exits' \in 0 .. MaxExits
  BY <1>1, <1>2 DEF Running, Phases, AuditTypes, LifeTypeOK
<1>4. UNCHANGED <<memory, disk, sink, made, faults>>
  BY <1>2
<1>5. /\ Readable' = Readable /\ Handed' = Handed /\ LifeTypeOK'
      /\ AuditRecorded' /\ AuditDelivery' /\ AuditChain' /\ AuditExact'
  BY <1>3, <1>4, PhaseMoves
<1>6. UNCHANGED <<seq, lastHash, ring, appends, file, torn, posts, attempt, received, deadLetters, dropped, made, faults>>
  BY <1>2 DEF memory, disk, sink
<1>7. PICK a \in Seq(Entries), p \in Seq(Entries) : a = appends /\ p = posts
  BY <1>1 DEF AuditTypes
<1>8. /\ FirstOf(a, Len(a)) = Hashes(a) /\ (a = <<>> => Hashes(a) = {}) /\ Hashes(a) \subseteq 1 .. MaxRecords
      /\ FirstOf(p, Len(p)) = Hashes(p) /\ (p = <<>> => Hashes(p) = {}) /\ Hashes(p) \subseteq 1 .. MaxRecords
  BY QueueWhole
<1>9. Len(a) \in Nat /\ Len(p) \in Nat /\ (a # <<>> => Len(a) \in 1 .. Len(a)) /\ (p # <<>> => Len(p) \in 1 .. Len(p))
  OBVIOUS
<1>10. /\ flush' \in [waits : {"none", "appends", "posts", "nothing"}, left : Nat]
       /\ a # <<>> => flush'.waits = "appends" /\ flush'.left = Len(a)
       /\ a = <<>> /\ p # <<>> => flush'.waits = "posts" /\ flush'.left = Len(p)
       /\ a = <<>> /\ p = <<>> => flush'.waits = "nothing"
  <2>1. CASE a # <<>>
    BY <1>2, <1>7, <1>9, <2>1
  <2>2. CASE a = <<>> /\ p # <<>>
    BY <1>2, <1>7, <1>9, <2>2
  <2>3. CASE a = <<>> /\ p = <<>>
    BY <1>2, <1>7, <2>3
  <2> QED
    BY <2>1, <2>2, <2>3
<1>11. pledged' = Hashes(a) \cup Hashes(p) /\ Hashes(a) \subseteq Handed \cup Hashes(p)
  BY <1>2, <1>7 DEF AuditQueued
<1>12. AuditTypes'
  <2>1. pledged' \subseteq 1 .. MaxRecords
    BY <1>8, <1>11
  <2> QED
    BY <1>1, <1>2, <1>5, <1>6, <1>10, <2>1 DEF AuditTypes
<1>13. faults = 0 => Hashes(p) \subseteq Hashes(Readable) \cup Hashes(a)
  BY <1>1, <1>3, <1>7 DEF AuditExact
<1>14. AuditFlush'
  <2>1. /\ flush'.waits = "appends" => flush'.left \in 1 .. Len(a)
        /\ flush'.waits = "posts" => flush'.left \in 1 .. Len(p)
    BY <1>9, <1>10
  <2>2. pledged' \subseteq Handed \cup (CASE flush'.waits = "appends" -> Hashes(p)
                                          [] flush'.waits = "posts"   -> FirstOf(p, flush'.left)
                                          [] OTHER                    -> {})
    <3>1. CASE a # <<>>
      BY <1>10, <1>11, <3>1
    <3>2. CASE a = <<>> /\ p # <<>>
      BY <1>8, <1>10, <1>11, <3>2
    <3>3. CASE a = <<>> /\ p = <<>>
      BY <1>8, <1>10, <1>11, <3>3
    <3> QED
      BY <3>1, <3>2, <3>3
  <2>3. faults = 0 => pledged' \subseteq Hashes(Readable) \cup
                         (IF flush'.waits = "appends" THEN FirstOf(a, flush'.left) ELSE {})
    <3>1. CASE a # <<>>
      BY <1>8, <1>10, <1>11, <1>13, <3>1
    <3>2. CASE a = <<>>
      BY <1>8, <1>10, <1>11, <1>13, <3>2
    <3> QED
      BY <3>1, <3>2
  <2> QED
    BY <1>5, <1>6, <1>7, <2>1, <2>2, <2>3 DEF AuditFlush
<1> QED
  BY <1>5, <1>12, <1>14 DEF AuditIInv

\* The process ends.
LEMMA StopStays ==
    ASSUME AuditIInv, Running, Stop, phase' = "down", exits' \in 0 .. MaxExits,
           pledged' = {} \/ (pledged' = pledged /\ flush.waits = "nothing")
    PROVE  AuditIInv'
<1>1. AuditTypes /\ AuditRecorded /\ AuditDelivery /\ AuditFlush /\ AuditChain /\ AuditExact
  BY DEF AuditIInv
<1>2. /\ appends' = <<>> /\ posts' = <<>> /\ attempt' = 1 /\ ring' = <<>> /\ seq' = 0 /\ lastHash' = Genesis
      /\ flush' = [waits |-> "none", left |-> 0] /\ flush'.waits = "none"
      /\ UNCHANGED <<file, torn, received, deadLetters, dropped, made, faults>>
  BY DEF Stop
<1>3. Readable' = Readable /\ Handed' = Handed
  BY <1>2, ReadableEntries DEF Handed
<1>4. made \in Nat /\ MaxRecords \in Nat /\ MaxAttempts \in Nat \ {0} /\ Cap \in Nat \ {0}
  BY <1>1, AuditAssumption DEF AuditTypes
<1>5. DOMAIN appends' = {} /\ DOMAIN posts' = {} /\ Len(ring') = 0 /\ ring' \in Seq(Entries) /\ appends' \in Seq(Entries)
      /\ posts' \in Seq(Entries)
  BY <1>2
<1>6. AuditTypes'
  <2>1. LifeTypeOK'
    BY DEF LifeTypeOK, Phases
  <2>2. pledged' \subseteq 1 .. MaxRecords
    BY <1>1 DEF AuditTypes
  <2>3. flush' \in [waits : {"none", "appends", "posts", "nothing"}, left : Nat]
    BY <1>2
  <2>4. attempt' \in 1 .. MaxAttempts + 1 /\ lastHash' \in 0 .. MaxRecords
    BY <1>2, <1>4 DEF Genesis
  <2> QED
    BY <1>1, <1>2, <1>4, <1>5, <2>1, <2>2, <2>3, <2>4 DEF AuditTypes
<1>7. AuditRecorded'
  BY <1>1, <1>2, <1>3, <1>4, <1>5 DEF AuditRecorded
<1>8. AuditDelivery'
  BY <1>1, <1>2, <1>5 DEF AuditDelivery, DeliveredInOrder
<1>9. AuditFlush'
  <2>1. pledged' \subseteq Handed /\ (faults = 0 => pledged' \subseteq Hashes(Readable))
    BY <1>1 DEF AuditFlush
  <2> QED
    BY <1>2, <1>3, <2>1 DEF AuditFlush
<1>10. AuditChain'
  <2>1. Gap' <=> torn
    BY <1>2 DEF Gap, Running
  <2>2. Cardinality(Breaks(Readable)) \in Nat
    <3>1. PICK r \in Seq(Entries) : r = Readable
      BY <1>1, ReadableEntries, EntriesOfLines DEF AuditTypes
    <3> QED
      BY <3>1, BreaksCount
  <2>3. torn => Gap
    BY DEF Gap
  <2>4. faults \in Nat
    BY <1>1 DEF AuditTypes
  <2> QED
    BY <1>1, <1>2, <1>3, <2>1, <2>2, <2>3, <2>4 DEF AuditChain
<1>11. AuditExact'
  BY <1>1, <1>2, <1>3, <1>5 DEF AuditExact, Running
<1> QED
  BY <1>6, <1>7, <1>8, <1>9, <1>10, <1>11 DEF AuditIInv

\* No entries, and no lines.
LEMMA NoEntries ==
    /\ <<>> \in Seq(Entries) /\ <<>> \in Seq(LogLines) /\ Len(<<>>) = 0
    /\ Hashes(<<>>) = {} /\ Breaks(<<>>) = {}
<1>1. DOMAIN <<>> = {} /\ Len(<<>>) = 0
  OBVIOUS
<1>2. <<>> \in Seq(Entries) /\ <<>> \in Seq(LogLines)
  OBVIOUS
<1>3. Hashes(<<>>) = {} /\ Breaks(<<>>) = {}
  BY <1>1 DEF Hashes, Breaks
<1> QED
  BY <1>1, <1>2, <1>3

\* A process starts on the file it can read, or on none.
LEMMA StartStays ==
    ASSUME AuditIInv, NEW readable \in BOOLEAN, Start(readable)
    PROVE  AuditIInv'
<1>1. AuditTypes /\ AuditRecorded /\ AuditDelivery /\ AuditFlush /\ AuditChain /\ AuditExact
  BY DEF AuditIInv
<1>2. /\ phase = "down" /\ phase' = "up" /\ exits' = exits /\ pledged' = {}
      /\ faults' = (IF readable THEN faults ELSE faults + 1)
      /\ UNCHANGED <<disk, sink, flush, made>>
  BY DEF Start, Boot
<1>3. /\ UNCHANGED <<appends, file, torn, posts, attempt, received, deadLetters, dropped, flush, made>>
      /\ appends = <<>> /\ posts = <<>> /\ flush.waits = "none" /\ faults \in Nat /\ made \in Nat
  BY <1>1, <1>2 DEF disk, sink, AuditTypes
<1>4. PICK r \in Seq(Entries) : r = Readable /\ r = Readable'
  BY <1>1, <1>3, ReadableEntries, EntriesOfLines DEF AuditTypes
<1>5. PICK es \in Seq(Entries) : es = IF readable THEN r ELSE <<>>
  <2>1. CASE readable
    BY <1>4, <2>1
  <2>2. CASE ~readable
    BY NoEntries, <2>2
  <2> QED
    BY <2>1, <2>2
<1>6. Bootstrap(es)
  BY <1>4, <1>5 DEF Start
<1>7. \A i \in DOMAIN es : es[i].seq <= made
  <2>1. \A i \in DOMAIN r : r[i].seq <= made
    BY <1>1, <1>4 DEF AuditRecorded
  <2> QED
    BY <1>5, <2>1
<1>8. /\ seq' \in 0 .. made
      /\ (\A i \in DOMAIN es : es[i].seq = i) => seq' = Len(es)
      /\ lastHash' = Tip(es) /\ Tip(es) \in 0 .. MaxRecords
      /\ ring' = LastOf(es)
  <2>1. /\ Max({0} \cup {e.seq : e \in Range(es)}) \in 0 .. made
        /\ (\A i \in DOMAIN es : es[i].seq = i) => Max({0} \cup {e.seq : e \in Range(es)}) = Len(es)
        /\ (IF es = <<>> THEN Genesis ELSE Last(es).hash) = Tip(es)
        /\ Tip(es) \in 0 .. MaxRecords
    BY <1>3, <1>7, BootFacts
  <2> QED
    BY <1>6, <2>1 DEF Bootstrap
<1>9. Handed' = Handed
  BY <1>3 DEF Handed
<1>10. AuditTypes'
  <2>1. ring' \in Seq(Entries) /\ Len(ring') <= Cap
    BY <1>8, LastOfFacts
  <2>2. LifeTypeOK'
    BY <1>1, <1>2 DEF AuditTypes, LifeTypeOK, Phases
  <2>3. faults' \in Nat /\ pledged' \subseteq 1 .. MaxRecords /\ seq' \in Nat /\ phase' # "down"
    BY <1>2, <1>3, <1>8
  <2> QED
    BY <1>1, <1>3, <1>8, <2>1, <2>2, <2>3 DEF AuditTypes
<1>11. AuditRecorded'
  <2>1. seq' <= made
    BY <1>3, <1>8
  <2>2. DOMAIN appends = {}
    BY <1>3
  <2> QED
    BY <1>1, <1>3, <1>4, <2>1, <2>2 DEF AuditRecorded
<1>12. AuditDelivery'
  BY <1>1, <1>3 DEF AuditDelivery, DeliveredInOrder
<1>13. AuditFlush'
  BY <1>2, <1>3, <1>9 DEF AuditFlush
<1>14. From' = lastHash' /\ Running'
  BY <1>2, <1>3 DEF From, Running
<1>15. AuditChain'
  <2>1. Cardinality(Breaks(r)) \in Nat
    BY BreaksCount
  <2>2. Cardinality(Breaks(r)) + (IF Gap THEN 1 ELSE 0) <= faults
    BY <1>1, <1>4 DEF AuditChain
  <2>3. CASE readable
    <3>1. lastHash' = Tip(r)
      BY <1>5, <1>8, <2>3
    <3>2. Gap' <=> torn
      BY <1>3, <1>4, <1>14, <3>1 DEF Gap
    <3>3. torn => Gap
      BY DEF Gap
    <3> QED
      BY <1>2, <1>3, <1>4, <2>1, <2>2, <2>3, <3>2, <3>3 DEF AuditChain
  <2>4. CASE ~readable
    BY <1>2, <1>3, <1>4, <2>1, <2>2, <2>4 DEF AuditChain
  <2> QED
    BY <2>3, <2>4
<1>16. AuditExact'
  <2> SUFFICES ASSUME faults' = 0
               PROVE  /\ \A i \in DOMAIN r : r[i].seq = i
                      /\ \A i \in DOMAIN appends : appends[i].seq = Len(r) + i
                      /\ seq' = Len(r) + Len(appends) /\ ring' = LastOf(r \o appends)
                      /\ Hashes(posts) \subseteq Hashes(r) \cup Hashes(appends)
    BY <1>3, <1>4 DEF AuditExact
  <2>1. readable /\ faults = 0 /\ es = r
    BY <1>2, <1>3, <1>5
  <2>2. \A i \in DOMAIN r : r[i].seq = i
    BY <1>1, <1>4, <2>1 DEF AuditExact
  <2>3. DOMAIN appends = {} /\ Len(appends) = 0 /\ r \o appends = r /\ Len(r) \in Nat
    <3>1. r \o <<>> = r
      OBVIOUS
    <3> QED
      BY <1>3, <3>1
  <2>4. Hashes(posts) = {}
    BY <1>3 DEF Hashes
  <2> QED
    BY <1>8, <2>1, <2>2, <2>3, <2>4
<1> QED
  BY <1>10, <1>11, <1>12, <1>13, <1>15, <1>16 DEF AuditIInv

LEMMA AuditBegins == Init => AuditIInv /\ AuditQueued
<1> SUFFICES ASSUME Init
             PROVE  AuditIInv /\ AuditQueued
  OBVIOUS
<1>1. /\ phase = "up" /\ exits = 0
      /\ seq = 0 /\ lastHash = Genesis /\ ring = <<>> /\ appends = <<>> /\ file = <<>> /\ torn = FALSE
      /\ posts = <<>> /\ attempt = 1 /\ received = <<>> /\ deadLetters = {} /\ dropped = {}
      /\ flush = [waits |-> "none", left |-> 0] /\ flush.waits = "none"
      /\ made = 0 /\ pledged = {} /\ faults = 0
  BY DEF Init, LifeInit
<1>2. /\ MaxRecords \in Nat /\ MaxAttempts \in Nat \ {0} /\ Cap \in Nat \ {0} /\ MaxExits \in Nat
  BY AuditAssumption, LifecycleAssumption
<1>3. Readable = <<>>
  <2>1. PICK l \in Seq(LogLines) : l = file /\ Len(l) = 0
    BY <1>1, NoEntries
  <2>2. EntriesOf(l) \in Seq(Entries)
    BY EntriesOfLines
  <2>3. DOMAIN EntriesOf(l) = {}
    <3> DEFINE wanted == [entry : Entries, whole : {TRUE}]
               whole == Filtered(l, wanted)
    <3>1. EntriesOf(l) = [i \in DOMAIN whole |-> whole[i].entry]
      BY Zenon DEF EntriesOf
    <3>2. \A i \in DOMAIN whole : \E j \in DOMAIN l : whole[i] = l[j]
      <4> HIDE DEF wanted
      <4> QED
        BY FilteredRange
    <3>3. DOMAIN l = {}
      BY <2>1
    <3> HIDE DEF whole
    <3>4. DOMAIN whole = {}
      BY <3>2, <3>3
    <3> QED
      BY <3>1, <3>4
  <2> QED
    BY <2>1, <2>2, <2>3, ReadableEntries
<1>4. Breaks(Readable) = {} /\ Hashes(appends) = {} /\ Hashes(posts) = {} /\ Hashes(received) = {}
  BY <1>1, <1>3, NoEntries
<1>5. /\ ring \in Seq(Entries) /\ Len(ring) = 0 /\ appends \in Seq(Entries) /\ posts \in Seq(Entries)
      /\ received \in Seq(Entries) /\ file \in Seq(LogLines)
  BY <1>1, NoEntries
<1>6. DOMAIN Readable = {} /\ DOMAIN appends = {} /\ DOMAIN posts = {} /\ DOMAIN received = {}
  BY <1>1, <1>3
<1>7. AuditTypes
  <2>1. flush \in [waits : {"none", "appends", "posts", "nothing"}, left : Nat]
    BY <1>1
  <2>2. LifeTypeOK /\ lastHash \in 0 .. MaxRecords /\ made \in 0 .. MaxRecords
    BY <1>1, <1>2 DEF LifeTypeOK, Phases, Genesis
  <2>3. attempt \in 1 .. MaxAttempts + 1 /\ Len(ring) <= Cap
    BY <1>1, <1>2, <1>5
  <2>4. {deadLetters, dropped, pledged} \subseteq SUBSET (1 .. MaxRecords) /\ torn \in BOOLEAN
        /\ seq \in Nat /\ faults \in Nat /\ phase # "down"
    BY <1>1
  <2> QED
    BY <1>5, <2>1, <2>2, <2>3, <2>4 DEF AuditTypes
<1>8. AuditRecorded
  BY <1>1, <1>6 DEF AuditRecorded
<1>9. AuditDelivery
  BY <1>6 DEF AuditDelivery, DeliveredInOrder
<1>10. AuditFlush
  BY <1>1 DEF AuditFlush
<1>11. AuditChain
  <2>1. ~Gap
    BY <1>1, <1>3 DEF Gap, From, Tip
  <2>2. Cardinality(Breaks(Readable)) = 0
    BY <1>4, FS_EmptySet
  <2> QED
    BY <1>1, <2>1, <2>2 DEF AuditChain
<1>12. AuditExact
  <2>1. ring = LastOf(Readable \o appends)
    <3>1. PICK r \in Seq(Entries) : r = Readable /\ r = appends /\ Len(r) = 0
      BY <1>1, <1>3, NoEntries
    <3>2. r \o r \in Seq(Entries) /\ Len(r \o r) = 0
      BY <3>1, ConcatFacts
    <3>3. PICK c \in Seq(Entries) : c = r \o r /\ Len(c) = 0
      BY <3>2
    <3>4. LastOf(c) \in Seq(Entries) /\ Len(LastOf(c)) = 0
      <4>1. LastOf(c) \in Seq(Entries) /\ Len(LastOf(c)) = IF Len(c) > Cap THEN Cap ELSE Len(c)
        BY LastOfFacts, Zenon
      <4>2. ~(Len(c) > Cap)
        BY <1>2, <3>3
      <4> QED
        BY <3>3, <4>1, <4>2
    <3>5. PICK l \in Seq(Entries) : l = LastOf(c) /\ Len(l) = 0
      BY <3>4
    <3>6. l = <<>>
      BY <3>5
    <3> QED
      BY <1>1, <3>1, <3>3, <3>5, <3>6
  <2>2. seq = Len(Readable) + Len(appends)
    BY <1>1, <1>3, NoEntries
  <2> QED
    BY <1>4, <1>6, <2>1, <2>2 DEF AuditExact
<1>13. AuditQueued
  BY <1>4 DEF AuditQueued
<1> QED
  BY <1>7, <1>8, <1>9, <1>10, <1>11, <1>12, <1>13 DEF AuditIInv

\* What waits for the file is queued for the receiver or settled, whatever happens next.
LEMMA QueuedStays ==
    ASSUME AuditIInv, AuditQueued, Next
    PROVE  AuditQueued'
<1>1. AuditTypes
  BY DEF AuditIInv
<1>2. PICK a \in Seq(Entries), p \in Seq(Entries), es \in Seq(Entries) : a = appends /\ p = posts /\ es = received
  BY <1>1 DEF AuditTypes
<1>3. Hashes(a) \subseteq Handed \cup Hashes(p)
  BY <1>2 DEF AuditQueued
<1>4. CASE Record
  <2> DEFINE e == [seq |-> seq + 1, prevHash |-> lastHash, hash |-> made']
  <2>1. /\ appends' = Append(a, e) /\ posts' = Append(p, e) /\ made < MaxRecords /\ made' = made + 1
        /\ UNCHANGED <<received, deadLetters, dropped>>
    BY <1>2, <1>4 DEF Record
  <2>2. PICK x \in Entries : x = e
    <3>1. seq \in Nat /\ made \in Nat /\ seq <= made /\ lastHash \in 0 .. MaxRecords /\ MaxRecords \in Nat
      BY <1>1, AuditAssumption DEF AuditIInv, AuditRecorded, AuditTypes
    <3>2. [seq |-> seq + 1, prevHash |-> lastHash, hash |-> made'] \in Entries
      BY <2>1, <3>1 DEF Entries
    <3> QED
      BY <3>2
  <2>3. Hashes(Append(a, x)) = Hashes(a) \cup {x.hash} /\ Hashes(Append(p, x)) = Hashes(p) \cup {x.hash}
    BY QueueGrows
  <2>4. Handed' = Handed
    BY <2>1 DEF Handed
  <2> HIDE DEF e
  <2> QED
    BY <1>3, <2>1, <2>2, <2>3, <2>4 DEF AuditQueued
<1>5. ASSUME AppendDone \/ \E b \in BOOLEAN : AppendFails(b)
      PROVE  AuditQueued'
  <2>1. a # <<>> /\ appends' = Tail(a) /\ UNCHANGED <<posts, received, deadLetters, dropped>>
    BY <1>2, <1>5 DEF AppendDone, AppendFails, sink
  <2>2. Hashes(Tail(a)) \subseteq Hashes(a)
    BY <2>1, QueueShrinks
  <2> QED
    BY <1>2, <1>3, <2>1, <2>2 DEF AuditQueued, Handed
<1>6. CASE Delivered
  <2>1. p # <<>> /\ posts' = Tail(p) /\ received' = Append(es, Head(p)) /\ UNCHANGED <<appends, deadLetters, dropped>>
    BY <1>2, <1>6 DEF Delivered, disk
  <2>2. PICK e \in Entries : e = Head(p)
    BY <2>1
  <2>3. Hashes(Append(es, e)) = Hashes(es) \cup {e.hash}
    BY QueueGrows
  <2>4. Hashes(p) = {e.hash} \cup Hashes(Tail(p))
    BY <2>1, <2>2, QueueShrinks
  <2> QED
    BY <1>2, <1>3, <2>1, <2>2, <2>3, <2>4 DEF AuditQueued, Handed
<1>7. ASSUME NEW b \in BOOLEAN, DeadLetter(b)
      PROVE  AuditQueued'
  <2>1. /\ p # <<>> /\ posts' = Tail(p) /\ UNCHANGED <<appends, received>>
        /\ deadLetters' = (IF b THEN deadLetters \cup {Head(p).hash} ELSE deadLetters)
        /\ dropped' = (IF b THEN dropped ELSE dropped \cup {Head(p).hash})
    BY <1>2, <1>7 DEF DeadLetter, disk
  <2>2. Hashes(p) = {Head(p).hash} \cup Hashes(Tail(p))
    BY <2>1, QueueShrinks
  <2> QED
    BY <1>2, <1>3, <2>1, <2>2 DEF AuditQueued, Handed
<1>8. ASSUME NEW b \in BOOLEAN, PostFails(b)
      PROVE  AuditQueued'
  <2>1. /\ posts # <<>> /\ UNCHANGED <<appends, posts, deadLetters, dropped>>
        /\ received' = received \/ (received' = Append(received, Head(posts)) /\ attempt <= MaxAttempts)
    BY <1>8 DEF PostFails, disk
  <2>2. Hashes(received) \subseteq Hashes(received')
    BY <2>1, AttemptFacts
  <2> QED
    BY <1>2, <1>3, <2>1, <2>2 DEF AuditQueued, Handed
<1>9. ASSUME Terminate \/ RunHooks \/ \E b \in BOOLEAN : Start(b)
      PROVE  AuditQueued'
  <2>1. UNCHANGED <<appends, posts, received, deadLetters, dropped>>
    BY <1>9 DEF Terminate, RunHooks, Start, disk, sink
  <2> QED
    BY <1>2, <1>3, <2>1 DEF AuditQueued, Handed
<1>10. ASSUME Stop
       PROVE  AuditQueued'
  <2>1. appends' = <<>>
    BY <1>10 DEF Stop
  <2>2. Hashes(appends') = {}
    BY <2>1 DEF Hashes
  <2> QED
    BY <2>2 DEF AuditQueued
<1> QED
  BY <1>4, <1>5, <1>6, <1>7, <1>8, <1>9, <1>10 DEF Next, Exit, Killed

LEMMA AuditStep == AuditIInv /\ AuditQueued /\ Next => AuditIInv' /\ AuditQueued'
<1> SUFFICES ASSUME AuditIInv, AuditQueued, Next
             PROVE  AuditIInv'
  BY QueuedStays
<1>1. ASSUME NEW b \in BOOLEAN, AppendFails(b) \/ PostFails(b) \/ DeadLetter(b) \/ Start(b)
      PROVE  AuditIInv'
  BY <1>1, AppendFailsStays, PostFailsStays, DeadLetterStays, StartStays
<1>2. ASSUME Exit \/ Killed
      PROVE  AuditIInv'
  <2>1. LifeTypeOK
    BY DEF AuditIInv, AuditTypes
  <2>2. Running /\ Stop /\ phase' = "down" /\ exits < MaxExits /\ exits' = exits + 1
    BY <1>2, <2>1 DEF Exit, Killed, ExitSettled, ExitUnsettled, EndProcess, Running
  <2>3. exits' \in 0 .. MaxExits
    BY <2>1, <2>2, LifecycleAssumption DEF LifeTypeOK
  <2>4. pledged' = {} \/ (pledged' = pledged /\ flush.waits = "nothing")
    BY <1>2 DEF Exit, Killed, HookSettled
  <2> QED
    BY <2>2, <2>3, <2>4, StopStays
<1> QED
  BY <1>1, <1>2, RecordStays, AppendDoneStays, DeliveredStays, TerminateStays, RunHooksStays DEF Next

LEMMA AuditRest == AuditIInv /\ AuditQueued /\ UNCHANGED vars => AuditIInv' /\ AuditQueued'
<1> SUFFICES ASSUME AuditIInv, AuditQueued, UNCHANGED vars
             PROVE  AuditIInv' /\ AuditQueued'
  OBVIOUS
<1>1. UNCHANGED <<seq, lastHash, ring, appends, file, torn, posts, attempt, received, deadLetters, dropped,
                  flush, made, pledged, faults, phase, exits>>
  BY DEF vars, memory, disk, sink, lifeVars
<1>2. Readable' = Readable
  BY <1>1, ReadableEntries
<1>3. Handed' = Handed /\ From' = From /\ (Running' <=> Running)
  BY <1>1 DEF Handed, From, Running
<1>4. Gap' <=> Gap
  BY <1>1, <1>2, <1>3 DEF Gap
<1>5. AuditTypes' /\ AuditDelivery'
  BY <1>1 DEF AuditIInv, AuditTypes, AuditDelivery, LifeTypeOK, DeliveredInOrder
<1>6. AuditRecorded' /\ AuditExact'
  BY <1>1, <1>2, <1>3 DEF AuditIInv, AuditRecorded, AuditExact
<1>7. AuditFlush' /\ AuditQueued'
  BY <1>1, <1>2, <1>3 DEF AuditIInv, AuditFlush, AuditQueued
<1>8. AuditChain'
  BY <1>1, <1>2, <1>4 DEF AuditIInv, AuditChain
<1> QED
  BY <1>5, <1>6, <1>7, <1>8 DEF AuditIInv

LEMMA AuditHolds == Joint => [](AuditIInv /\ AuditQueued)
<1>1. JointInit => AuditIInv /\ AuditQueued
  BY AuditBegins DEF JointInit
<1>2. AuditIInv /\ AuditQueued /\ [JointNext]_JointVars => (AuditIInv /\ AuditQueued)'
  <2>1. ASSUME AuditIInv, AuditQueued, JointNext
        PROVE  AuditIInv' /\ AuditQueued'
    BY <2>1, AuditStep, AuditRest DEF JointNext
  <2>2. ASSUME AuditIInv, AuditQueued, UNCHANGED JointVars
        PROVE  AuditIInv' /\ AuditQueued'
    BY <2>2, AuditRest DEF JointVars
  <2> QED
    BY <2>1, <2>2
<1> QED
  BY <1>1, <1>2, PTL DEF Joint

(* The receiver of the audit log gets the entries in the order they were       *)
(* recorded, with the copies of one next to each other and no more of them     *)
(* than attempts, and a shutdown that exits cleanly leaves nothing that was    *)
(* recorded before its hooks unaccounted for: for any number of entries,       *)
(* attempts, failures and restarts (audit/log.ts, audit/sinks/webhook.ts).     *)
THEOREM LogIsDelivered == Joint => []DeliveryHolds
<1>1. AuditIInv => DeliveryHolds
  <2> SUFFICES ASSUME AuditIInv
               PROVE  TypeOK /\ DeliveredInOrder /\ CleanExitHandsOver
    BY DEF DeliveryHolds
  <2>1. AuditTypes /\ AuditRecorded /\ AuditDelivery /\ AuditFlush
    BY DEF AuditIInv
  <2>2. TypeOK
    <3>1. seq \in 0 .. MaxRecords
      BY <2>1, AuditAssumption DEF AuditTypes, AuditRecorded
    <3>2. flush.waits \in {"none", "appends", "posts", "nothing"}
      BY <2>1 DEF AuditTypes
    <3> QED
      BY <2>1, <3>1, <3>2 DEF AuditTypes, AuditFlush, TypeOK
  <2>3. DeliveredInOrder
    BY <2>1 DEF AuditDelivery
  <2>4. CleanExitHandsOver
    BY <2>1 DEF AuditTypes, AuditFlush, CleanExitHandsOver, Handed
  <2> QED
    BY <2>2, <2>3, <2>4
<1> QED
  BY <1>1, AuditHolds, PTL

(* Each place where the offline verifier would report the audit log's chain    *)
(* broken has a fault of its own behind it, a failed or short append or a boot *)
(* that could not read the file, and without one the file and its queue are    *)
(* the whole chain with the ring at its end: for any number of entries, kills  *)
(* and restarts (audit/log.ts).                                                *)
THEOREM ChainBreaksCaused == Joint => []ChainBreaksHaveCauses
<1>1. AuditIInv => ChainBreaksHaveCauses
  <2> SUFFICES ASSUME AuditIInv
               PROVE  ChainBreaksHaveCauses
    OBVIOUS
  <2>1. AuditTypes /\ AuditRecorded /\ AuditChain /\ AuditExact
    BY DEF AuditIInv
  <2>2. PICK r \in Seq(Entries), a \in Seq(Entries) : r = Readable /\ a = appends
    BY <2>1, ReadableEntries, EntriesOfLines DEF AuditTypes
  <2>3. Cardinality(Breaks(r)) \in Nat /\ faults \in Nat /\ Cardinality(Breaks(r)) + (IF Gap THEN 1 ELSE 0) <= faults
    BY <2>1, <2>2, BreaksCount DEF AuditTypes, AuditChain
  <2>4. Cardinality(Breaks(r)) <= faults
    BY <2>3
  <2>5. ASSUME faults = 0, Running
        PROVE  LET chain == r \o a
               IN  /\ Breaks(chain) = {}
                   /\ \A i \in DOMAIN chain : chain[i].seq = i
                   /\ seq = Len(chain) /\ ring = LastOf(chain)
    <3>1. ~Gap /\ Breaks(r) = {}
      <4>1. ~Gap /\ Cardinality(Breaks(r)) = 0
        BY <2>3, <2>5
      <4>2. IsFiniteSet(Breaks(r))
        BY BreaksCount
      <4> QED
        BY <4>1, <4>2, FS_EmptySet
    <3>2. From = Tip(r)
      BY <2>2, <2>5, <3>1 DEF Gap
    <3>3. /\ Len(r) \in Nat /\ DOMAIN r = 1 .. Len(r) /\ Len(a) \in Nat /\ DOMAIN a = 1 .. Len(a)
          /\ r = <<>> <=> Len(r) = 0
          /\ a = <<>> <=> Len(a) = 0
      OBVIOUS
    <3>4. /\ \A i \in 1 .. Len(r) : r[i].seq = i
          /\ \A i \in 1 .. Len(a) : a[i].seq = Len(r) + i
          /\ seq = Len(r) + Len(a) /\ ring = LastOf(r \o a)
      BY <2>1, <2>2, <2>5, <3>3 DEF AuditExact
    <3>5. PICK c \in Seq(Entries) :
            /\ c = r \o a /\ Len(c) = Len(r) + Len(a) /\ DOMAIN c = 1 .. (Len(r) + Len(a))
            /\ \A i \in 1 .. (Len(r) + Len(a)) : c[i] = IF i <= Len(r) THEN r[i] ELSE a[i - Len(r)]
      <4> DEFINE c == r \o a
      <4>1. /\ c \in Seq(Entries) /\ Len(c) = Len(r) + Len(a) /\ DOMAIN c = 1 .. (Len(r) + Len(a))
            /\ \A i \in 1 .. (Len(r) + Len(a)) : c[i] = IF i <= Len(r) THEN r[i] ELSE a[i - Len(r)]
        OBVIOUS
      <4> HIDE DEF c
      <4> QED
        BY <4>1 DEF c
    <3>6. PICK x \in Nat, y \in Nat : x = Len(r) /\ y = Len(a)
      BY <3>3
    <3>7. ASSUME NEW i \in 1 .. x + y
          PROVE  c[i].seq = i /\ c[i].prevHash = IF i = 1 THEN Genesis ELSE c[i - 1].hash
      <4>1. CASE i <= x
        <5>1. i \in 1 .. x /\ c[i] = r[i] /\ (i # 1 => i - 1 \in 1 .. x + y /\ i - 1 <= x /\ c[i - 1] = r[i - 1])
          <6>1. i \in 1 .. x /\ (i # 1 => i - 1 \in 1 .. x + y /\ i - 1 <= x)
            BY <3>6, <4>1
          <6> QED
            BY <3>5, <3>6, <4>1, <6>1
        <5>2. i \notin Breaks(r) /\ i \in DOMAIN r
          BY <3>1, <3>3, <3>6, <5>1
        <5>3. r[i].prevHash = IF i = 1 THEN Genesis ELSE r[i - 1].hash
          BY <5>2 DEF Breaks
        <5> QED
          BY <3>4, <3>6, <5>1, <5>3
      <4>2. CASE i = x + 1
        <5>1. 1 \in 1 .. y /\ c[i] = a[1] /\ a # <<>>
          <6>1. i - x = 1 /\ ~(i <= x) /\ y # 0 /\ 1 \in 1 .. y
            BY <3>6, <4>2
          <6> QED
            BY <3>3, <3>5, <3>6, <6>1
        <5>2. From = a[1].prevHash
          BY <2>2, <5>1 DEF From
        <5>3. a[1].prevHash = Tip(r)
          BY <3>2, <5>2
        <5>4. Tip(r) = IF i = 1 THEN Genesis ELSE c[i - 1].hash
          <6>1. CASE x = 0
            BY <3>3, <3>6, <4>2, <6>1 DEF Tip
          <6>2. CASE x # 0
            <7>1. i - 1 = x /\ x \in 1 .. x + y /\ x <= x /\ i # 1
              BY <3>6, <4>2, <6>2
            <7>2. c[x] = r[x]
              BY <3>5, <3>6, <7>1
            <7> QED
              BY <3>3, <3>6, <6>2, <7>1, <7>2 DEF Tip
          <6> QED
            BY <6>1, <6>2
        <5> QED
          BY <3>4, <3>6, <4>2, <5>1, <5>3, <5>4
      <4>3. CASE i > x + 1
        <5>1. /\ i - x \in 1 .. y /\ i - x > 1 /\ ~(i <= x) /\ i # 1
              /\ i - 1 \in 1 .. x + y /\ ~(i - 1 <= x) /\ (i - 1) - x = (i - x) - 1
          BY <3>6, <4>3
        <5>2. c[i] = a[i - x] /\ c[i - 1] = a[(i - x) - 1]
          BY <3>5, <3>6, <5>1
        <5>3. a[i - x].prevHash = a[(i - x) - 1].hash
          BY <2>1, <2>2, <3>3, <3>6, <5>1 DEF AuditRecorded
        <5>4. a[i - x].seq = i
          <6>1. PICK k \in 1 .. y : k = i - x /\ x + k = i
            BY <3>6, <5>1
          <6>2. a[k].seq = x + k
            BY <3>4, <3>6
          <6> QED
            BY <6>1, <6>2
        <5> QED
          BY <5>1, <5>2, <5>3, <5>4
      <4> QED
        BY <3>6, <4>1, <4>2, <4>3
    <3>8. Breaks(c) = {}
      BY <3>5, <3>6, <3>7 DEF Breaks
    <3>9. \A i \in DOMAIN c : c[i].seq = i
      BY <3>5, <3>6, <3>7
    <3> QED
      BY <3>4, <3>5, <3>8, <3>9
  <2> QED
    BY <2>2, <2>4, <2>5 DEF ChainBreaksHaveCauses
<1> QED
  BY <1>1, AuditHolds, PTL
=============================================================================
