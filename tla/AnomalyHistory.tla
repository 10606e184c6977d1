---------------------------- MODULE AnomalyHistory ----------------------------
(***************************************************************************)
(* AnomalyHistory of analysis/history.ts: anomaly scores go into a ring in *)
(* memory, that the health page draws, and, when the sink is configured,   *)
(* into a buffer that is posted to a time-series database on an interval,  *)
(* when it is full, and at shutdown.  A post that fails loses its batch.   *)
(***************************************************************************)
EXTENDS Integers, SequencesExt

CONSTANTS
    MaxBufferSize, RingMax, Retention, None,
    Tenants,
    MaxRecords, MaxTime     \* bounds of the model

VARIABLES
    enabled,        \* OMCP_ANOMALY_HISTORY_REMOTE_WRITE is set
    timer,          \* the interval runs
    now,
    made,           \* history: every record, in order; a record is its time and tenant
    ring,           \* numbers of the records in the ring
    buffer,         \* numbers of the records not posted
    batch,          \* the batch being posted (flushing), or None
    sent,           \* history: numbers the database took, in the order of arrival
    settled,        \* history: numbers whose post has ended, well or not, in that order
    stopping,       \* None, or the number of records when stop() was called ...
    clean,          \* ... and whether no post was in flight then
    stopped         \* stop() has resolved

vars == <<enabled, timer, now, made, ring, buffer, batch, sent, settled, stopping, clean, stopped>>

Init ==
    /\ enabled \in BOOLEAN
    /\ timer = enabled
    /\ now = 0 /\ made = <<>> /\ ring = <<>> /\ buffer = <<>> /\ batch = None
    /\ sent = <<>> /\ settled = <<>> /\ stopping = None /\ clean = FALSE /\ stopped = FALSE

\* The elements of a sequence that are in a set, in their order: filter.
Kept(s, wanted) == FoldLeft(LAMBDA kept, x : IF x \in wanted THEN Append(kept, x) ELSE kept, <<>>, s)

\* The records inside the retention window.
InWindow(records, at) == {i \in DOMAIN records : records[i].ts + Retention >= at}

\* pushRing: what has left the window goes, then what is beyond the cap, oldest first.
PushRing(r, i, records, at) ==
    LET kept == Kept(Append(r, i), InWindow(records, at))
    IN  IF Len(kept) > RingMax THEN SubSeq(kept, Len(kept) - RingMax + 1, Len(kept)) ELSE kept

\* recent: the records of a tenant still in the window; all of them for no tenant.
Recent(tenant) ==
    Kept(ring, {i \in InWindow(made, now) : tenant # None => made[i].tenant = tenant})

\* The synchronous part of flush, on a buffer: what is posted and what stays.  Nothing
\* happens when there is nothing to post or a post is in flight.
Flush(buf) ==
    IF enabled /\ buf # <<>> /\ batch = None
    THEN batch' = buf /\ buffer' = <<>>
    ELSE buffer' = buf /\ UNCHANGED batch

\* record, called by a scan; the scan does not wait for it.
Record(tenant) ==
    /\ Len(made) < MaxRecords
    /\ made' = Append(made, [ts |-> now, tenant |-> tenant])
    /\ ring' = PushRing(ring, Len(made'), made', now)
    /\ LET buf == Append(buffer, Len(made'))
       IN  IF ~enabled THEN UNCHANGED <<buffer, batch>>
           ELSE IF Len(buf) >= MaxBufferSize THEN Flush(buf)
           ELSE buffer' = buf /\ UNCHANGED batch
    /\ UNCHANGED <<enabled, timer, now, sent, settled, stopping, clean, stopped>>

\* The interval of start.
TimerFlush ==
    /\ timer /\ Flush(buffer)
    /\ UNCHANGED <<enabled, timer, now, made, ring, sent, settled, stopping, clean, stopped>>

\* The post of sendBatch is answered 2xx; a failed one, or one that timed out, loses its
\* batch, whether the database took it or not.
Posted ==
    /\ batch # None /\ batch' = None
    /\ sent' = sent \o batch /\ settled' = settled \o batch
    /\ UNCHANGED <<enabled, timer, now, made, ring, buffer, stopping, clean, stopped>>

PostFails(taken) ==
    /\ batch # None /\ batch' = None
    /\ settled' = settled \o batch
    /\ sent' = IF taken THEN sent \o batch ELSE sent
    /\ UNCHANGED <<enabled, timer, now, made, ring, buffer, stopping, clean, stopped>>

\* A slip: stop only ends the interval.
StopTimer ==
    /\ stopping = None /\ stopping' = Len(made)
    /\ timer' = FALSE
    /\ clean' = (batch = None)
    /\ stopped' = TRUE
    /\ UNCHANGED <<enabled, now, made, ring, buffer, batch, sent, settled>>

\* stop, the shutdown hook: the interval ends and one more flush begins, unless a post is
\* in flight, and then nothing is waited for.
Stop ==
    /\ stopping = None /\ stopping' = Len(made)
    /\ timer' = FALSE
    /\ clean' = (batch = None)
    /\ Flush(buffer)
    /\ stopped' = (~enabled \/ batch # None \/ buffer = <<>>)
    /\ UNCHANGED <<enabled, now, made, ring, sent, settled>>

\* stop resolves when the post it began has ended.
StopResolves ==
    /\ stopping # None /\ ~stopped /\ batch = None
    /\ stopped' = TRUE
    /\ UNCHANGED <<enabled, timer, now, made, ring, buffer, batch, sent, settled, stopping, clean>>

Tick == /\ now < MaxTime /\ now' = now + 1
        /\ UNCHANGED <<enabled, timer, made, ring, buffer, batch, sent, settled, stopping, clean, stopped>>

Next ==
    \/ \E tenant \in Tenants : Record(tenant)
    \/ TimerFlush \/ Posted \/ Stop \/ StopResolves \/ Tick
    \/ \E taken \in BOOLEAN : PostFails(taken)

\* The interval fires, and a post is answered or its AbortController fires.
Fairness == WF_vars(TimerFlush) /\ WF_vars(Posted \/ \E taken \in BOOLEAN : PostFails(taken))

Spec == Init /\ [][Next]_vars /\ Fairness
----------------------------------------------------------------------------
(* What the health page shows of a tenant is every record of that tenant in *)
(* the window among the last RingMax of all tenants, in order: eviction     *)
(* takes nothing that still belongs there and keeps nothing that does not.  *)
RecentIsComplete ==
    \A tenant \in Tenants :
        LET within == InWindow(made, now)
            due    == {i \in within : made[i].tenant = tenant /\ Cardinality({j \in within : j >= i}) <= RingMax}
            shown  == Recent(tenant)
        IN  /\ {shown[k] : k \in DOMAIN shown} = due
            /\ \A k \in 1 .. Len(shown) - 1 : shown[k] < shown[k + 1]

(* When stop() has resolved, every record made before it was called was     *)
(* posted or went with a failed post, unless a post was in flight when it   *)
(* was called; and no record reaches the database twice or out of order.    *)
StopPostsAll ==
    /\ \A k \in 1 .. Len(sent) - 1 : sent[k] < sent[k + 1]
    /\ stopped /\ clean /\ enabled => \A i \in 1 .. stopping : \E k \in DOMAIN settled : settled[k] = i

(* Towards the database the history is an outbox: what is recorded while a  *)
(* batch is in flight waits behind it, and nothing is settled twice.        *)
O == INSTANCE Outbox WITH Entries <- 1 .. MaxRecords, waiting <- (IF batch = None THEN <<>> ELSE batch) \o buffer
OutboxKept == O!Spec

(* While the process runs, no record waits in the buffer for ever.          *)
BufferDrains == \A i \in 1 .. MaxRecords :
    (\E k \in DOMAIN buffer : buffer[k] = i) ~>
        (stopping # None \/ ~ \E k \in DOMAIN buffer : buffer[k] = i)
=============================================================================
