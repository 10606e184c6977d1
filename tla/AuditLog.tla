------------------------------ MODULE AuditLog ------------------------------
(***************************************************************************)
(* AuditLog of audit/log.ts with its webhook sink (audit/sinks/webhook.ts) *)
(* in the process util/shutdown.ts ends.  Each mutating request records an *)
(* entry when it is answered; the entry joins the hash chain in memory, is *)
(* appended to the JSONL file by one queue and posted to the receiver by   *)
(* another.  A hash is the number of the entry that has it: two entries    *)
(* with one hash are outside the model.                                    *)
(***************************************************************************)
EXTENDS Lifecycle, Integers, Sequences, FiniteSets, SequencesExt

CONSTANTS
    Cap,                \* inMemoryCap
    MaxAttempts,
    MaxRecords,         \* bounds of the model: entries recorded,
    MaxFaults           \* and appends failed or cut short, boots that cannot read

ASSUME AuditAssumption ==
    /\ {Cap, MaxAttempts} \subseteq Nat \ {0}
    /\ {MaxRecords, MaxFaults} \subseteq Nat

VARIABLES
    seq, lastHash, ring,    \* what the process remembers
    appends,        \* entries waiting for the file, the head in progress
    file, torn,     \* the complete lines, with whether they parse; half a line after them
    posts,          \* entries waiting for the receiver, the head in progress
    attempt,        \* attempts begun for the head, MaxAttempts + 1 when it dead-letters
    received,       \* what reached the receiver, in order
    deadLetters,    \* hashes in the dead-letter file
    dropped,        \* hashes given up with a warning
    flush,          \* the shutdown hook: what it waits for and how many
    made,           \* history: entries recorded by all processes
    pledged,        \* history: hashes recorded when the last shutdown's hooks started
    faults

memory == <<seq, lastHash, ring>>
disk == <<appends, file, torn>>
sink == <<posts, attempt, received, deadLetters, dropped>>
vars == <<memory, disk, sink, flush, made, pledged, faults, lifeVars>>

----------------------------------------------------------------------------
Genesis == 0

Entries == [seq : 1 .. MaxRecords, prevHash : 0 .. MaxRecords, hash : 1 .. MaxRecords]
LogLines == [entry : Entries, whole : BOOLEAN]

\* What is wanted of a list, in its order.
Kept(s, wanted) == FoldLeft(LAMBDA kept, x : IF x \in wanted THEN Append(kept, x) ELSE kept, <<>>, s)

\* The lines JSON.parse accepts.
Readable == LET whole == Kept(file, [entry : Entries, whole : {TRUE}])
            IN  [i \in DOMAIN whole |-> whole[i].entry]

\* ring.push, then ring.shift past the cap: the last Cap entries.
LastOf(es) == SubSeq(es, IF Len(es) > Cap THEN Len(es) - Cap + 1 ELSE 1, Len(es))

Hashes(es) == {es[i].hash : i \in DOMAIN es}

\* verifyChain: where an entry does not carry the hash of the one before it.
Breaks(es) ==
    {i \in DOMAIN es : es[i].prevHash # IF i = 1 THEN Genesis ELSE es[i - 1].hash}

----------------------------------------------------------------------------
Init ==
    /\ LifeInit
    /\ seq = 0 /\ lastHash = Genesis /\ ring = <<>>
    /\ appends = <<>> /\ file = <<>> /\ torn = FALSE
    /\ posts = <<>> /\ attempt = 1 /\ received = <<>> /\ deadLetters = {} /\ dropped = {}
    /\ flush = [waits |-> "none", left |-> 0]
    /\ made = 0 /\ pledged = {} /\ faults = 0

\* record(): chained, remembered and queued for both in one step.
Record ==
    /\ Running /\ made < MaxRecords
    /\ made' = made + 1
    /\ LET entry == [seq |-> seq + 1, prevHash |-> lastHash, hash |-> made']
       IN  /\ seq' = entry.seq
           /\ lastHash' = entry.hash
           /\ ring' = LastOf(Append(ring, entry))
           /\ appends' = Append(appends, entry)
           /\ posts' = Append(posts, entry)
    /\ UNCHANGED <<file, torn, attempt, received, deadLetters, dropped, flush, pledged, faults, lifeVars>>

\* flushSinks: once the appends it found are through, the posts that are then queued.
Waited(queue) ==
    flush' = IF flush.waits # queue THEN flush
             ELSE IF flush.left > 1 THEN [flush EXCEPT !.left = @ - 1]
             ELSE IF queue = "appends" /\ Len(posts) > 0
             THEN [waits |-> "posts", left |-> Len(posts)]
             ELSE [waits |-> "nothing", left |-> 0]

AppendDone ==
    /\ Running /\ appends # <<>>
    /\ file' = Append(file, [entry |-> Head(appends), whole |-> ~torn])
    /\ torn' = FALSE
    /\ appends' = Tail(appends)
    /\ Waited("appends")
    /\ UNCHANGED <<memory, sink, made, pledged, faults, lifeVars>>

\* A failed append is swallowed; a short one leaves half a line.
AppendFails(short) ==
    /\ Running /\ appends # <<>>
    /\ faults < MaxFaults /\ faults' = faults + 1
    /\ torn' = (torn \/ short)
    /\ appends' = Tail(appends)
    /\ Waited("appends")
    /\ UNCHANGED <<memory, file, sink, made, pledged, lifeVars>>

\* The receiver answers 2xx.
Delivered ==
    /\ Running /\ posts # <<>> /\ attempt <= MaxAttempts
    /\ received' = Append(received, Head(posts))
    /\ posts' = Tail(posts)
    /\ attempt' = 1
    /\ Waited("posts")
    /\ UNCHANGED <<memory, disk, deadLetters, dropped, made, pledged, faults, lifeVars>>

\* A slip: the entry goes back to the end of the queue while it waits to be retried.
PostFailsRequeued(arrived) ==
    /\ Running /\ posts # <<>> /\ attempt <= MaxAttempts
    /\ received' = IF arrived THEN Append(received, Head(posts)) ELSE received
    /\ posts' = Append(Tail(posts), Head(posts))
    /\ attempt' = attempt + 1
    /\ UNCHANGED <<memory, disk, deadLetters, dropped, flush, made, pledged, faults, lifeVars>>

\* An error, a status other than 2xx or the timeout, with or without the entry having
\* arrived: another attempt after the backoff, up to MaxAttempts.
PostFails(arrived) ==
    /\ Running /\ posts # <<>> /\ attempt <= MaxAttempts
    /\ received' = IF arrived THEN Append(received, Head(posts)) ELSE received
    /\ attempt' = attempt + 1
    /\ UNCHANGED <<memory, disk, posts, deadLetters, dropped, flush, made, pledged, faults, lifeVars>>

\* The last attempt failed: the dead-letter file, or a warning when that fails too.
DeadLetter(written) ==
    /\ Running /\ posts # <<>> /\ attempt > MaxAttempts
    /\ deadLetters' = IF written THEN deadLetters \cup {Head(posts).hash} ELSE deadLetters
    /\ dropped' = IF written THEN dropped ELSE dropped \cup {Head(posts).hash}
    /\ posts' = Tail(posts)
    /\ attempt' = 1
    /\ Waited("posts")
    /\ UNCHANGED <<memory, disk, received, made, pledged, faults, lifeVars>>

----------------------------------------------------------------------------
Terminate == Signal /\ UNCHANGED <<memory, disk, sink, flush, made, pledged, faults>>

\* onShutdown("audit sinks"): flushSinks.
RunHooks ==
    /\ StartHooks
    /\ pledged' = Hashes(appends) \cup Hashes(posts)
    /\ flush' = IF appends # <<>> THEN [waits |-> "appends", left |-> Len(appends)]
                ELSE IF posts # <<>> THEN [waits |-> "posts", left |-> Len(posts)]
                ELSE [waits |-> "nothing", left |-> 0]
    /\ UNCHANGED <<memory, disk, sink, made, faults>>

HookSettled == flush.waits = "nothing"

\* Whatever waits in a queue is gone with the process.
Stop ==
    /\ appends' = <<>> /\ posts' = <<>> /\ attempt' = 1
    /\ ring' = <<>> /\ seq' = 0 /\ lastHash' = Genesis
    /\ flush' = [waits |-> "none", left |-> 0]
    /\ UNCHANGED <<file, torn, received, deadLetters, dropped, made, faults>>

Exit == HookSettled /\ ExitSettled /\ Stop /\ UNCHANGED pledged

Killed == ExitUnsettled /\ Stop /\ pledged' = {}

\* A slip: the chain goes on from the first line.
BootstrapFrom(es) ==
    /\ seq' = Len(es)
    /\ lastHash' = IF es = <<>> THEN Genesis ELSE es[1].hash
    /\ ring' = LastOf(es)

\* bootstrap(): the file is replayed.
Bootstrap(es) ==
    /\ seq' = Max({0} \cup {e.seq : e \in Range(es)})
    /\ lastHash' = IF es = <<>> THEN Genesis ELSE Last(es).hash
    /\ ring' = LastOf(es)

\* A file that cannot be read is taken for a first run.
Start(readable) ==
    /\ Boot
    /\ readable \/ faults < MaxFaults
    /\ faults' = IF readable THEN faults ELSE faults + 1
    /\ Bootstrap(IF readable THEN Readable ELSE <<>>)
    /\ pledged' = {}
    /\ UNCHANGED <<disk, sink, flush, made>>

Handover == (\E b \in BOOLEAN : PostFails(b) \/ DeadLetter(b)) \/ Delivered

Next ==
    \/ Record \/ AppendDone \/ Delivered
    \/ \E b \in BOOLEAN : AppendFails(b) \/ PostFails(b) \/ DeadLetter(b) \/ Start(b)
    \/ Terminate \/ RunHooks \/ Exit \/ Killed

\* A post is answered or times out, and the timer of the backoff fires.
Fairness == WF_vars(Handover)

Spec == Init /\ [][Next]_vars /\ Fairness

----------------------------------------------------------------------------
(* Types; the queues hold what this process recorded, in order, and the     *)
(* hook waits for no more than they hold.                                   *)
TypeOK ==
    /\ LifeTypeOK
    /\ seq \in 0 .. MaxRecords /\ lastHash \in 0 .. MaxRecords
    /\ ring \in Seq(Entries) /\ Len(ring) <= Cap
    /\ appends \in Seq(Entries) /\ posts \in Seq(Entries) /\ received \in Seq(Entries)
    /\ file \in Seq(LogLines) /\ torn \in BOOLEAN
    /\ attempt \in 1 .. MaxAttempts + 1
    /\ {deadLetters, dropped, pledged} \subseteq SUBSET (1 .. MaxRecords)
    /\ flush.waits \in {"none", "appends", "posts", "nothing"}
    /\ flush.waits = "appends" => flush.left \in 1 .. Len(appends)
    /\ flush.waits = "posts" => flush.left \in 1 .. Len(posts)

(* Every break the offline verifier would report in the file has a fault    *)
(* of its own behind it, a failed or short append or a boot that could not  *)
(* read; however the process ended, a restart alone never breaks the chain. *)
(* Without faults the file and what is queued for it are the whole chain,   *)
(* numbered without gaps, and the ring is its end.                          *)
ChainBreaksHaveCauses ==
    /\ Cardinality(Breaks(Readable)) <= faults
    /\ faults = 0 /\ Running =>
          LET chain == Readable \o appends
          IN  /\ Breaks(chain) = {}
              /\ \A i \in DOMAIN chain : chain[i].seq = i
              /\ seq = Len(chain) /\ ring = LastOf(chain)

(* The receiver gets the entries in the order they were recorded, across    *)
(* retries and restarts; a copy comes right after its original, and no more *)
(* than MaxAttempts of them.                                                *)
DeliveredInOrder ==
    \A i, j \in DOMAIN received : i < j =>
        /\ received[i].hash <= received[j].hash
        /\ received[i].hash = received[j].hash => j - i < MaxAttempts

(* A shutdown whose hooks settled has handed over every entry recorded      *)
(* before they started: to the receiver, the dead-letter file or a warning, *)
(* and to the file as far as its appends did not fail.                      *)
CleanExitHandsOver ==
    phase = "down" =>
        /\ pledged \subseteq Hashes(received) \cup deadLetters \cup dropped
        /\ faults = 0 => pledged \subseteq Hashes(Readable)

(* However often the receiver fails, an entry does not wait for it for      *)
(* ever, nor do the entries behind it.                                      *)
EveryPostEnds ==
    \A h \in 1 .. MaxRecords :
        h \in Hashes(posts) ~>
            h \in Hashes(received) \cup deadLetters \cup dropped \/ phase = "down"
=============================================================================
