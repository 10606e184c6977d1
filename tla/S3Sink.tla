-------------------------------- MODULE S3Sink --------------------------------
(***************************************************************************)
(* The S3 audit sink of audit/sinks/s3.ts: entries are buffered and put    *)
(* as one object on an interval, when the buffer is full and at shutdown;  *)
(* flushes go through a chain of promises, one at a time, and a batch that *)
(* cannot be put goes to the dead-letter file.                             *)
(***************************************************************************)
EXTENDS Naturals, Sequences

CONSTANTS
    MaxBufferSize,
    DeadLetterFile,         \* whether one is configured
    MaxEntries, MaxQueued   \* bounds of the model

VARIABLES
    written,        \* history: the number of entries written; an entry is its number
    buffer,
    timer,          \* the interval runs
    client,         \* "none", "ready", or "missing" once the SDK did not load
    writeQueue,     \* flushes in the chain that have not begun
    batch,          \* the batch of the flush that runs
    stage,          \* where it is: "idle", "client", "put", "dead"
    stored, letters, gone,  \* objects in the bucket; batches in the file; batches lost
    settled,        \* history: entries whose flush has ended, in that order
    stopping,       \* 0, or what shutdown waits for: flushes before its own, and its own
    handed          \* history: how many entries were written when shutdown was called

vars == <<written, buffer, timer, client, writeQueue, batch, stage, stored, letters, gone, settled, stopping, handed>>

Init ==
    /\ written = 0 /\ buffer = <<>> /\ timer = FALSE /\ client = "none"
    /\ writeQueue = 0 /\ batch = <<>> /\ stage = "idle"
    /\ stored = {} /\ letters = {} /\ gone = {} /\ settled = <<>> /\ stopping = 0 /\ handed = 0

Busy == stage # "idle"

\* write: the interval starts with the first entry; a full buffer asks for a flush.
Write ==
    /\ written < MaxEntries /\ writeQueue < MaxQueued
    /\ written' = written + 1 /\ buffer' = Append(buffer, written + 1) /\ timer' = TRUE
    /\ writeQueue' = IF Len(buffer') >= MaxBufferSize THEN writeQueue + 1 ELSE writeQueue
    /\ UNCHANGED <<client, batch, stage, stored, letters, gone, settled, stopping, handed>>

\* flush, by the interval.
TimerFlush ==
    /\ timer /\ writeQueue < MaxQueued /\ writeQueue' = writeQueue + 1
    /\ UNCHANGED <<written, buffer, timer, client, batch, stage, stored, letters, gone, settled, stopping, handed>>

\* shutdown: one more flush, behind those in the chain.
Shutdown ==
    /\ stopping = 0 /\ handed = 0 /\ written > 0
    /\ timer' = FALSE /\ writeQueue' = writeQueue + 1 /\ handed' = written
    /\ stopping' = writeQueue + 1 + (IF Busy THEN 1 ELSE 0)
    /\ UNCHANGED <<written, buffer, client, batch, stage, stored, letters, gone, settled>>

\* A flush of the chain has ended, and shutdown waits for one less.
Ends == stage' = "idle" /\ batch' = <<>> /\ settled' = settled \o batch
        /\ stopping' = IF stopping > 0 THEN stopping - 1 ELSE 0

\* A slip: entries written while a batch is put are cleared with it.
TakenAtEnd == /\ batch' = buffer /\ UNCHANGED buffer

\* The buffer is spliced empty when a flush begins.
Taken == batch' = buffer /\ buffer' = <<>>

\* flushNow up to its first await; there may be nothing to put.
Begin ==
    /\ writeQueue > 0 /\ ~Busy /\ writeQueue' = writeQueue - 1
    /\ IF buffer = <<>> THEN /\ UNCHANGED <<stage, batch, buffer, settled>>
                             /\ stopping' = IF stopping > 0 THEN stopping - 1 ELSE 0
       ELSE Taken /\ stage' = "client" /\ UNCHANGED <<settled, stopping>>
    /\ UNCHANGED <<written, timer, client, stored, letters, gone, handed>>

\* ensureClient: the SDK is loaded once; a failed import is remembered.
EnsureClient(loads) ==
    /\ stage = "client"
    /\ client' = IF client = "none" THEN (IF loads THEN "ready" ELSE "missing") ELSE client
    /\ stage' = IF client' = "ready" THEN "put" ELSE "dead"
    /\ UNCHANGED <<written, buffer, timer, writeQueue, batch, stored, letters, gone, settled, stopping, handed>>

Put ==
    /\ stage = "put" /\ stored' = stored \cup {batch} /\ Ends
    /\ UNCHANGED <<written, buffer, timer, client, writeQueue, letters, gone, handed>>

\* The put fails, though the object may be there.
PutFails(there) ==
    /\ stage = "put" /\ stage' = "dead"
    /\ stored' = IF there THEN stored \cup {batch} ELSE stored
    /\ UNCHANGED <<written, buffer, timer, client, writeQueue, batch, letters, gone, settled, stopping, handed>>

\* deadLetter: without a file, or when the append fails, the batch is gone.
DeadLetter(appended) ==
    /\ stage = "dead" /\ Ends
    /\ IF DeadLetterFile /\ appended THEN letters' = letters \cup {batch} /\ UNCHANGED gone
                                     ELSE gone' = gone \cup {batch} /\ UNCHANGED letters
    /\ UNCHANGED <<written, buffer, timer, client, writeQueue, stored, handed>>

Next == Write \/ TimerFlush \/ Shutdown \/ Begin \/ Put
        \/ \E ok \in BOOLEAN : EnsureClient(ok) \/ PutFails(ok) \/ DeadLetter(ok)

\* The chain of promises goes on, and a put ends one way or the other.
Fairness == WF_vars(Begin) /\ WF_vars(Put \/ \E ok \in BOOLEAN : EnsureClient(ok) \/ PutFails(ok) \/ DeadLetter(ok))

Spec == Init /\ [][Next]_vars /\ Fairness
----------------------------------------------------------------------------
(* The sink keeps the promise of an outbox: through full buffers, interval   *)
(* and shutdown flushes that pile up behind a slow put, an entry waits or    *)
(* is settled, once and in order.                                            *)
O == INSTANCE Outbox WITH Entries <- 1 .. MaxEntries, waiting <- batch \o buffer
OutboxKept == O!Spec

(* Shutdown resolves, and when it has, all that was written before it is in  *)
(* the bucket, in the dead-letter file, or went with a failed append.        *)
ShutdownSettles ==
    (handed > 0) ~> (stopping = 0 /\ \A e \in 1 .. handed : \E k \in DOMAIN settled : settled[k] = e)
=============================================================================
