---------------------------- MODULE TokenBudget ----------------------------
(***************************************************************************)
(* TokenBudget of quota/token-budget.ts: a daily cap on the tokens one     *)
(* credential pulls through the tools, kept as hour-aligned buckets, and   *)
(* written to a snapshot file by a debounced timer so that a restart picks *)
(* the window up again.  check() is synchronous; a snapshot is serialised  *)
(* synchronously and its write joins a queue that runs one write at a time *)
(* (a temporary file, then a rename: a write that does not finish leaves   *)
(* the old file).  It goes by the clock and the identities of RateLimiter, *)
(* and shares nothing else with it.                                        *)
(***************************************************************************)
EXTENDS RateLimiter, SequencesExt

CONSTANTS
    Hour,               \* HOUR_MS, in ticks
    WindowHours,        \* 24 in the code
    DailyLimit,         \* OMCP_TOOL_DAILY_TOKENS; 0 is uncapped
    MaxQueued,          \* bound of the model: snapshot writes waiting at once
    MaxWriteFailures    \* bound of the model: snapshot writes that fail

ASSUME TokenBudgetAssumption ==
    /\ Hour \in Nat \ {0}
    /\ WindowHours \in Nat \ {0}
    /\ DailyLimit \in Nat
    /\ MaxQueued \in Nat /\ MaxWriteFailures \in Nat

Window == WindowHours * Hour

VARIABLES
    buckets,        \* identity -> sequence of [at, tokens], oldest first
    flushTimer,     \* is the debounce timer armed?
    writeQueue,     \* snapshots whose write has not finished, oldest first
    file,           \* the snapshot on disk
    ledger,         \* history: the charges the buckets stand for, oldest first
    startedFresh,   \* history: a process started without its snapshot
    writeFailures   \* history: snapshot writes that failed

budgetVars == <<buckets, flushTimer, writeQueue, file, ledger, startedFresh,
                writeFailures>>

----------------------------------------------------------------------------
\* Math.ceil((chars / 4) * 1.05)
EstimateTokens(chars) == CeilDiv(chars * 105, 400)

\* A slip: the bucket keeps the time of its first charge.
BucketStartUnaligned(t) == t

BucketStart(t) == (t \div Hour) * Hour

\* A slip: a bucket goes one hour before it left the window.
KeptFromEarly(bs, i, t) ==
    /\ i \in 0 .. Len(bs)
    /\ \A j \in 1 .. i : bs[j].at < t - Window + Hour
    /\ i < Len(bs) => bs[i + 1].at >= t - Window + Hour

\* i is where pruneOld's loop stops: the buckets before it start before the cutoff.
KeptFrom(bs, i, t) ==
    /\ i \in 0 .. Len(bs)
    /\ \A j \in 1 .. i : bs[j].at < t - Window
    /\ i < Len(bs) => bs[i + 1].at >= t - Window

\* What the window still holds at time t.
Pruned(bs, t) == From(bs, CHOOSE i \in 0 .. Len(bs) : KeptFrom(bs, i, t))

\* What a loop over a sequence of numbers adds up to.
Total(w) == FoldLeft(LAMBDA sum, n : sum + n, 0, w)

TokensIn(bs) == Total([k \in DOMAIN bs |-> bs[k].tokens])

\* check() refuses: what is in the window and the new tokens together pass the cap.
Exceeds(kept, tokens) == DailyLimit > 0 /\ TokensIn(kept) + tokens > DailyLimit

\* record(): the tokens go to the bucket of the current hour.
Record(kept, tokens) ==
    IF tokens <= 0 THEN kept
    ELSE IF kept # << >> /\ Last(kept).at = BucketStart(now)
         THEN [kept EXCEPT ![Len(kept)].tokens = @ + tokens]
         ELSE Append(kept, [at |-> BucketStart(now), tokens |-> tokens])

\* A slip: the wait is always counted to the first bucket's end.
HeadroomFirst(kept, needed) ==
    IF kept = << >> THEN 0 ELSE Head(kept).at + Window - now

\* nextEnoughHeadroom: the wait until the oldest buckets that free `needed` tokens
\* have left the window, or until all of them have.
Headroom(kept, needed) ==
    LET enough == {k \in 1 .. Len(kept) : TokensIn(SubSeq(kept, 1, k)) >= needed}
        last   == IF enough = {} THEN Len(kept)
                  ELSE CHOOSE k \in enough : \A m \in enough : k <= m
    IN  IF kept = << >> THEN 0 ELSE kept[last].at + Window - now

BudgetRetrySeconds(kept, tokens) ==
    WaitSeconds(Headroom(kept, TokensIn(kept) + tokens - DailyLimit))

----------------------------------------------------------------------------
NoSnapshot == [buckets |-> [id \in Identities |-> << >>], ledger |-> << >>]

BudgetInit ==
    /\ buckets = NoSnapshot.buckets
    /\ flushTimer = FALSE
    /\ writeQueue = << >>
    /\ file = NoSnapshot
    /\ ledger = << >>
    /\ startedFresh = FALSE
    /\ writeFailures = 0

\* A slip: no timer is armed while a write is in progress.
ScheduleFlushWhenIdle == flushTimer' = (flushTimer \/ writeQueue = << >>)

\* scheduleFlush(): arms the timer, or leaves it armed.
ScheduleFlush == flushTimer' = TRUE

\* check() admits: the tokens are recorded and a snapshot write is scheduled, unless
\* the debounce timer is already armed.
Charge(id, tokens) ==
    /\ \E i \in 0 .. Len(buckets[id]) :
        LET kept == From(buckets[id], i) IN
        /\ KeptFrom(buckets[id], i, now)
        /\ ~Exceeds(kept, tokens)
        /\ buckets' = [buckets EXCEPT ![id] = Record(kept, tokens)]
    /\ IF tokens > 0
       THEN /\ ledger' = Append(ledger, [id |-> id, at |-> now, tokens |-> tokens])
            /\ ScheduleFlush
       ELSE UNCHANGED <<ledger, flushTimer>>
    /\ UNCHANGED <<writeQueue, file, startedFresh, writeFailures>>

\* check() refuses: the window is pruned and nothing is recorded.
Refuse(id, tokens) ==
    /\ \E i \in 0 .. Len(buckets[id]) :
        LET kept == From(buckets[id], i) IN
        /\ KeptFrom(buckets[id], i, now)
        /\ Exceeds(kept, tokens)
        /\ buckets' = [buckets EXCEPT ![id] = kept]
    /\ UNCHANGED <<flushTimer, writeQueue, file, ledger, startedFresh, writeFailures>>

\* flushNow(): the state is serialised now and written when the queue gets to it.
\* `hook` marks the write the shutdown hook waits for.
Enqueue(hook) ==
    /\ Len(writeQueue) < MaxQueued
    /\ writeQueue' = Append(writeQueue,
                            [buckets |-> buckets, ledger |-> ledger, hook |-> hook])

\* The debounce timer fires.
TimerFires ==
    /\ flushTimer
    /\ flushTimer' = FALSE
    /\ Enqueue(FALSE)
    /\ UNCHANGED <<buckets, file, ledger, startedFresh, writeFailures>>

\* A slip: writes are started at once instead of one after the other, so that any of
\* them may be the one that finishes next.
WriteDoneUnordered ==
    /\ \E i \in 1 .. Len(writeQueue) :
        /\ file' = [buckets |-> writeQueue[i].buckets, ledger |-> writeQueue[i].ledger]
        /\ writeQueue' = RemoveAt(writeQueue, i)
    /\ UNCHANGED <<buckets, flushTimer, ledger, startedFresh, writeFailures>>

\* The oldest queued write replaces the file.
WriteDone ==
    /\ writeQueue # << >>
    /\ file' = [buckets |-> Head(writeQueue).buckets, ledger |-> Head(writeQueue).ledger]
    /\ writeQueue' = Tail(writeQueue)
    /\ UNCHANGED <<buckets, flushTimer, ledger, startedFresh, writeFailures>>

\* It fails: the error is swallowed, the file stays, the next write is tried.
WriteFails ==
    /\ writeQueue # << >> /\ writeFailures < MaxWriteFailures
    /\ writeQueue' = Tail(writeQueue)
    /\ writeFailures' = writeFailures + 1
    /\ UNCHANGED <<buckets, flushTimer, file, ledger, startedFresh>>

\* The process ends: what is queued or waits for the timer is lost.
BudgetStop ==
    /\ flushTimer' = FALSE
    /\ writeQueue' = << >>
    /\ UNCHANGED <<buckets, file, ledger, startedFresh, writeFailures>>

\* bootstrap(): awaited before the first request is served.  It keeps the buckets of
\* the snapshot that are still in the window, and sorts them: a snapshot is written
\* oldest first, so they are what pruning leaves of it.  A file that cannot be read
\* or parsed is ignored, with a warning.
Bootstrap(readable) ==
    LET found == IF readable THEN file ELSE NoSnapshot IN
    /\ buckets' = [id \in Identities |-> Pruned(found.buckets[id], now)]
    /\ ledger' = found.ledger
    /\ startedFresh' = (startedFresh \/ ~readable)
    /\ UNCHANGED <<flushTimer, writeQueue, file, writeFailures>>

----------------------------------------------------------------------------
Bucket == [at : {t \in Nat : t % Hour = 0}, tokens : Nat \ {0}]
ChargeRecord == [id : Identities, at : Nat, tokens : Nat \ {0}]
Snapshot == [buckets : [Identities -> Seq(Bucket)], ledger : Seq(ChargeRecord)]
QueuedWrite == [buckets : [Identities -> Seq(Bucket)], ledger : Seq(ChargeRecord),
                hook : BOOLEAN]

\* Buckets start on the hour and hold something, in memory, in the queue and on disk.
BudgetTypeOK ==
    /\ buckets \in [Identities -> Seq(Bucket)]
    /\ flushTimer \in BOOLEAN
    /\ writeQueue \in Seq(QueuedWrite)
    /\ file \in Snapshot
    /\ ledger \in Seq(ChargeRecord)
    /\ startedFresh \in BOOLEAN
    /\ writeFailures \in 0 .. MaxWriteFailures

\* What an identity was charged from time `since` up to and including charge j.
ChargedSince(since, j) ==
    Total([k \in 1 .. j |-> IF ledger[k].id = ledger[j].id /\ ledger[k].at >= since
                             THEN ledger[k].tokens ELSE 0])

\* The cap holds over every stretch of one hour less than the window, across
\* restarts: the hour-aligned buckets may forget a charge up to an hour early, and
\* never more.
BudgetCapHolds ==
    DailyLimit > 0 =>
        \A j \in 1 .. Len(ledger) :
            ChargedSince(ledger[j].at - (Window - Hour), j) <= DailyLimit

\* The snapshot on disk is never replaced by an older one: each write holds every
\* charge the file held before.
FileNeverGoesBack ==
    [][startedFresh' \/ IsPrefix(file.ledger, file'.ledger)]_budgetVars
=============================================================================
