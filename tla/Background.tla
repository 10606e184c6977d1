----------------------------- MODULE Background -----------------------------
(***************************************************************************)
(* What goes on beside the requests, by timers, queues and connections:    *)
(* AnomalyHistory, S3Sink, Federation and WsTransport, and, for what must  *)
(* happen in the end, AuditLog and McpSessions, whose safety Stores and    *)
(* MCTools check.  None touches the state of another, so a behaviour is    *)
(* one of them, and leaves the others at rest.                             *)
(***************************************************************************)
EXTENDS Integers, Sequences

CONSTANTS
    Cap, MaxAttempts, MaxEntries, MaxFaults, MaxExits,              \* AuditLog
    Sids, Products, Root, Slots, Ttl, MaxRequests,                  \* McpSessions
    HistoryBuffer, RingMax, Retention, Tenants, MaxRecords, MaxDays,    \* AnomalyHistory
    SinkBuffer, DeadLetterFile, MaxWritten, MaxQueued,              \* S3Sink
    Environments, Offers, Clients, MaxChanges, MaxAsked, MaxFailures,   \* Federation
    PingInterval, PingTimeout, Requests, Configured, MaxTime, MaxFrames,    \* WsTransport
    None

\* The heartbeat gives up on a client after more than one ping: 30 and 90 seconds.
ASSUME HeartbeatAssumption ==
    PingInterval \in Nat /\ PingTimeout \in Nat /\ PingInterval <= PingTimeout

\* What stands for "nothing" is none of the values it is told from.
ASSUME NoneAssumption == None \notin Nat /\ None \notin Seq(Nat) /\ None \notin Tenants

ASSUME BoundsAssumption == {MaxRecords, RingMax, Retention, MaxWritten, SinkBuffer} \subseteq Nat

VARIABLES which,
          \* AuditLog
          phase, exits, seq, lastHash, ring, appends, file, torn, posts, attempt, received, deadLetters,
          dropped, flush, made, pledged, faults,
          \* McpSessions
          transports, lastActive, product, slot, minted, removed, trailing, requests,
          \* AnomalyHistory
          hEnabled, hTimer, now, hMade, hRing, hBuffer, hBatch, sent, hSettled, stopping, clean, stopped,
          \* S3Sink
          written, sBuffer, sTimer, client, writeQueue, sBatch, stage, stored, letters, gone, sSettled,
          sStopping, handed,
          \* Federation
          env, fPhase, upstreams, status, cache, fTimer, asked, world, session, lost, failures, crowded,
          \* WsTransport
          wNow, conn, code, closed, pingTimer, lastPongAt, pinged, alive, ends, heard, frames

log        == <<phase, exits, seq, lastHash, ring, appends, file, torn, posts, attempt, received, deadLetters,
                dropped, flush, made, pledged, faults>>
sessions   == <<transports, lastActive, product, slot, minted, removed, trailing, requests>>
history    == <<hEnabled, hTimer, now, hMade, hRing, hBuffer, hBatch, sent, hSettled, stopping, clean, stopped>>
bucket     == <<written, sBuffer, sTimer, client, writeQueue, sBatch, stage, stored, letters, gone, sSettled,
                sStopping, handed>>
federation == <<env, fPhase, upstreams, status, cache, fTimer, asked, world, session, lost, failures, crowded>>
socket     == <<wNow, conn, code, closed, pingTimer, lastPongAt, pinged, alive, ends, heard, frames>>

-----------------------------------------------------------------------------
Log == INSTANCE AuditLog WITH MaxRecords <- MaxEntries

Streams == INSTANCE McpSessions WITH Idle <- None

History == INSTANCE AnomalyHistory WITH
  MaxBufferSize <- HistoryBuffer, MaxTime <- MaxDays,
  enabled <- hEnabled, timer <- hTimer, made <- hMade, ring <- hRing, buffer <- hBuffer, batch <- hBatch,
  settled <- hSettled

Sink == INSTANCE S3Sink WITH
  MaxBufferSize <- SinkBuffer, MaxEntries <- MaxWritten,
  buffer <- sBuffer, timer <- sTimer, batch <- sBatch, settled <- sSettled, stopping <- sStopping

Upstreams == INSTANCE Federation WITH Sessions <- Clients, phase <- fPhase, timer <- fTimer

Socket == INSTANCE WsTransport WITH now <- wNow

-----------------------------------------------------------------------------
JointVars == <<which, log, sessions, history, bucket, federation, socket>>

JointInit ==
  /\ which \in {"audit", "sessions", "history", "s3", "federation", "ws"}
  /\ Log!Init /\ Streams!Init /\ Sink!Init /\ Socket!Init
  /\ History!Init /\ (which # "history" => ~hEnabled)
  /\ Upstreams!Init /\ (which # "federation" => env = CHOOSE list \in Environments : TRUE)

JointNext ==
  /\ UNCHANGED which
  /\ \/ which = "audit" /\ Log!Next /\ UNCHANGED <<sessions, history, bucket, federation, socket>>
     \/ which = "sessions" /\ Streams!Next /\ UNCHANGED <<log, history, bucket, federation, socket>>
     \/ which = "history" /\ History!Next /\ UNCHANGED <<log, sessions, bucket, federation, socket>>
     \/ which = "s3" /\ Sink!Next /\ UNCHANGED <<log, sessions, history, federation, socket>>
     \/ which = "federation" /\ Upstreams!Next /\ UNCHANGED <<log, sessions, history, bucket, socket>>
     \/ which = "ws" /\ Socket!Next /\ UNCHANGED <<log, sessions, history, bucket, federation>>

\* Timers fire, and what was sent is answered or times out; at rest a part asks for
\* nothing.
JointFairness ==
  Log!Fairness /\ Streams!Fairness /\ History!Fairness /\ Sink!Fairness /\ Upstreams!Fairness

Joint == JointInit /\ [][JointNext]_JointVars /\ JointFairness

-----------------------------------------------------------------------------
(* The ring shows a tenant its last records in the window, and a stopped       *)
(* history posted every record made before, unless a post was in flight, and   *)
(* none twice or out of order (analysis/history.ts).                           *)
HistoryHolds == which = "history" => History!RecentIsComplete /\ History!StopPostsAll

(* The anomaly history towards its database, and the audit sink towards its    *)
(* bucket, settle every entry once and in order, as Outbox says                *)
(* (analysis/history.ts, audit/sinks/s3.ts).                                   *)
OutboxKept == History!OutboxKept /\ Sink!OutboxKept

(* A tool a session registered, and its upstream still offers, is never        *)
(* refused as not found (federation/registry.ts, upstream.ts).                 *)
RegisteredIsRouted == which = "federation" => Upstreams!RegisteredIsRouted

(* Nothing waits for ever: a queued post ends (audit/log.ts), a buffered *)
(* record leaves (analysis/history.ts), a shutdown resolves with every entry   *)
(* settled (audit/sinks/s3.ts), the cached list of an upstream whose timer     *)
(* runs and whose connection stands becomes the list it has                    *)
(* (federation/upstream.ts), and once clients are quiet the session maps empty *)
(* (index.ts).                                                                 *)
NothingWaitsForever ==
  /\ Log!EveryPostEnds /\ History!BufferDrains /\ Sink!ShutdownSettles
  /\ Upstreams!CatchesUp /\ Streams!MapsDrain

(* A silent client is closed on, one that answers is not, and onclose is       *)
(* called once (transport/websocket.ts).                                       *)
SilentIsClosed == which = "ws" => Socket!SilentIsClosed
=============================================================================
