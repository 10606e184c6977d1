---------------------------- MODULE Postmortems ----------------------------
(***************************************************************************)
(* Stored post-mortems (index.ts, postmortem/store.ts): POST fetches what  *)
(* the sources hold of an incident (tools/generate-postmortem.ts), stores  *)
(* the report in memory and appends it to a JSONL file; DELETE filters the *)
(* memory and rewrites the file beside itself.  Neither waits for the      *)
(* other, and the file is read once, at boot.                              *)
(*                                                                         *)
(* One tenant, one service; deletions come one at a time (two at once      *)
(* share the temporary file the way ProductCatalog and ScimStore show).    *)
(***************************************************************************)
EXTENDS Integers, FiniteSets, SequencesExt

CONSTANTS Writers,        \* concurrent POSTs
          Kinds,          \* what is fetched, of "anomalies", "traces", "topology", "logs"
          MaxReports, MaxCrashes        \* bounds

Ids == 1..MaxReports

VARIABLES holds,          \* the kinds the sources have something of
          live, gen,      \* the file's lines, and which file the path names
          entries,        \* the store's memory: ids, in order
          report,         \* id -> [got, had]
          post,           \* writer -> its program counter
          del,            \* the deletion in progress
          made, crashes,
          acked, dropped, gone, excused   \* history: ids answered 201, filtered
                                          \* out, answered 204, and lost for a cause

vars == <<holds, live, gen, entries, report, post, del, made, crashes, acked, dropped, gone, excused>>
file == <<live, gen>>
told == <<acked, dropped, gone>>

Idle == [at |-> "idle"]
InFlight == {post[w].id : w \in {v \in Writers : post[v].at \in {"pushed", "opened"}}}
IdsOf(s) == {s[i] : i \in DOMAIN s}

(* filter: what is wanted of a list, in its order. *)
Kept(s, wanted) == FoldLeft(LAMBDA kept, x : IF x \in wanted THEN Append(kept, x) ELSE kept, <<>>, s)

(* load: every line that parses. *)
Whole == [id : Ids, how : {"whole"}]
Loaded(lines) == LET ok == Kept(lines, Whole) IN [i \in DOMAIN ok |-> ok[i].id]

(* The file after an append: behind a line cut short, the new one is part of
   that line. *)
Joins(lines) == lines # <<>> /\ lines[Len(lines)].how = "open"
Appended(lines, id) ==
  IF Joins(lines) THEN [lines EXCEPT ![Len(lines)].how = "broken"]
  ELSE Append(lines, [id |-> id, how |-> "whole"])

(* The file while its successor is written: untouched, that one is a file of
   its own. *)
InPlace(lines) == <<>>                \* slip: opened for writing, truncated
Beside(lines)  == lines

Init ==
  /\ holds \in SUBSET Kinds
  /\ live = <<>> /\ gen = 0 /\ entries = <<>>
  /\ report = [id \in Ids |-> [got |-> {}, had |-> {}]]
  /\ post = [w \in Writers |-> Idle] /\ del = Idle
  /\ made = 0 /\ crashes = 0
  /\ acked = {} /\ dropped = {} /\ gone = {} /\ excused = {}

-----------------------------------------------------------------------------
(* POST /api/postmortems: every fetch swallows its own failure. *)
Regenerate(w) ==
  /\ post[w].at = "idle" /\ made < MaxReports
  /\ made' = made + 1
  /\ post' = [post EXCEPT ![w] = [at |-> "fetching", id |-> made + 1, left |-> Kinds, got |-> {}, had |-> {}]]
  /\ UNCHANGED <<holds, file, entries, report, del, crashes, told, excused>>

(* What the Prometheus connector makes of a query (buildQuery, queryRaw): a
   rawQuery is sent verbatim, a metric gets the service's own selector.  A
   selector of its own behind a complete one makes two brace groups, which
   the backend refuses to parse. *)
Parses(named, way) == way = "rawQuery" \/ named # "selector"

(* fetchAnomalies names the complete selector as the metric; the other three
   ask their connectors plainly. *)
Finds(k) == k \in holds /\ (k = "anomalies" => Parses("selector", "metric"))

Fetch(w, k) ==
  /\ post[w].at = "fetching" /\ k \in post[w].left
  /\ \E answers \in BOOLEAN :
       post' = [post EXCEPT ![w].left = @ \ {k},
                            ![w].got  = @ \cup {x \in {k} : answers /\ Finds(k)},
                            ![w].had  = @ \cup {x \in {k} : answers /\ k \in holds}]
  /\ UNCHANGED <<holds, file, entries, report, del, made, crashes, told, excused>>

(* append: in memory before anything is awaited. *)
Push(w) ==
  /\ post[w].at = "fetching" /\ post[w].left = {}
  /\ report' = [report EXCEPT ![post[w].id] = [got |-> post[w].got, had |-> post[w].had]]
  /\ entries' = Append(entries, post[w].id)
  /\ excused' = excused \cup {x \in {post[w].id} : del # Idle}
  /\ post' = [post EXCEPT ![w] = [at |-> "pushed", id |-> @.id]]
  /\ UNCHANGED <<holds, file, del, made, crashes, told>>

Open(w) ==
  /\ post[w].at = "pushed"
  /\ post' = [post EXCEPT ![w] = [at |-> "opened", id |-> @.id, gen |-> gen]]
  /\ UNCHANGED <<holds, file, entries, report, del, made, crashes, told, excused>>

(* The line goes to the file that was opened, which a rename may have
   unlinked; the caller is answered 201. *)
Write(w) ==
  /\ post[w].at = "opened"
  /\ live' = IF post[w].gen = gen THEN Appended(live, post[w].id) ELSE live
  /\ excused' = excused \cup {x \in {post[w].id} : Joins(live)}
  /\ acked' = acked \cup {post[w].id}
  /\ post' = [post EXCEPT ![w] = Idle]
  /\ UNCHANGED <<holds, gen, entries, report, del, made, crashes, dropped, gone>>

(* An append that was cut short leaves the beginning of its line. *)
CutShort(w) ==
  /\ post[w].gen = gen /\ ~Joins(live)
  /\ live' = Append(live, [id |-> post[w].id, how |-> "open"])

(* Answered 500; the entry stays in memory. *)
WriteFails(w) ==
  /\ post[w].at = "opened"
  /\ UNCHANGED live \/ CutShort(w)
  /\ post' = [post EXCEPT ![w] = Idle]
  /\ UNCHANGED <<holds, gen, entries, report, del, made, crashes, told, excused>>

-----------------------------------------------------------------------------
(* DELETE /api/postmortems/:id; one the memory does not hold is a 404. *)
Delete(id) ==
  /\ del = Idle /\ id \in IdsOf(entries)
  /\ entries' = Kept(entries, Ids \ {id})
  /\ del' = [at |-> "filtered", id |-> id]
  /\ dropped' = dropped \cup {id}
  /\ excused' = excused \cup InFlight
  /\ UNCHANGED <<holds, file, report, post, made, crashes, acked, gone>>

(* rewrite: the body is taken after mkdir, written beside the file... *)
WriteBody ==
  /\ del.at = "filtered"
  /\ del' = [at |-> "written", id |-> del.id, body |-> [i \in DOMAIN entries |-> [id |-> entries[i], how |-> "whole"]]]
  /\ live' = Beside(live)
  /\ UNCHANGED <<holds, gen, entries, report, post, made, crashes, told, excused>>

(* ...and renamed over it. *)
Rename ==
  /\ del.at = "written"
  /\ live' = del.body /\ gen' = gen + 1
  /\ gone' = gone \cup {del.id}
  /\ del' = Idle
  /\ UNCHANGED <<holds, entries, report, post, made, crashes, acked, dropped, excused>>

(* Answered 500; the memory has forgotten the entry, the file has not. *)
DeleteFails ==
  /\ del # Idle
  /\ del' = Idle
  /\ UNCHANGED <<holds, file, entries, report, post, made, crashes, told, excused>>

(* The process dies and starts again; an append under way may have left the
   beginning of its line. *)
Restart ==
  /\ crashes < MaxCrashes
  /\ crashes' = crashes + 1
  /\ UNCHANGED live \/ \E w \in Writers : post[w].at = "opened" /\ CutShort(w)
  /\ entries' = Loaded(live')
  /\ post' = [w \in Writers |-> Idle] /\ del' = Idle
  /\ UNCHANGED <<holds, gen, report, made, told, excused>>

Next ==
  \/ \E w \in Writers :
       \/ Regenerate(w) \/ Push(w) \/ Open(w) \/ Write(w) \/ WriteFails(w)
       \/ \E k \in Kinds : Fetch(w, k)
  \/ \E id \in Ids : Delete(id)
  \/ WriteBody \/ Rename \/ DeleteFails \/ Restart
  \/ made = MaxReports /\ UNCHANGED vars

Spec == Init /\ [][Next]_vars

-----------------------------------------------------------------------------
(* What the next boot loads (store.ts:45-73) holds every report that was
   answered 201 and no report whose deletion was answered 204, whatever
   crashes and failures came between, except for two causes the store's
   comments rule out: an append overlapped a deletion's rewrite, or it
   followed a line that was cut short. *)
LossesHaveCauses ==
  /\ acked \ (excused \cup dropped) \subseteq IdsOf(Loaded(live))
  /\ (gone \ excused) \cap IdsOf(Loaded(live)) = {}

(* A report covers everything its fetches could have had: what the sources
   hold and answered is in it ("anomaly history requires ... configured AND a
   Prometheus source", generate-postmortem.ts:52). *)
AnomaliesReachReport == \A id \in Ids : report[id].got = report[id].had
=============================================================================
