---------------------------- MODULE RateLimiter ----------------------------
(***************************************************************************)
(* IdentityRateLimiter of quota/limiter.ts: a sliding-window cap on the    *)
(* MCP requests of one named credential.  The server keeps one instance in *)
(* memory, and every request that carries a credential runs check() on it  *)
(* synchronously (gateCtx and gateWsCtx of index.ts).  The clock, the      *)
(* identity keys and the rounding of waits are the token budget's too.     *)
(***************************************************************************)
EXTENDS Integers, Sequences

CONSTANTS
    MaxTime,              \* bound of the model: the clock stops here
    Identities,           \* "<tenant> <credential>" keys, identityKey of index.ts
    TicksPerSecond,
    Unlimited,            \* Number.POSITIVE_INFINITY
    Unparsed,             \* a setting that is absent or not a number
    DefaultLimitPerMin,   \* DEFAULT_LIMIT_PER_MIN
    ToolRate,             \* the value of OMCP_TOOL_RATE_PER_MIN
    KeyRate,              \* the entries of OMCP_KEY_RATE_PER_MIN, by identity
    RateWindow            \* windowMs, in ticks

ASSUME ClockAssumption == MaxTime \in Nat /\ TicksPerSecond \in Nat \ {0}

Setting == Int \cup {Unlimited, Unparsed}

ASSUME RateLimiterAssumption ==
    /\ Unlimited \notin Int /\ Unparsed \notin Int /\ Unlimited # Unparsed
    /\ DefaultLimitPerMin \in Nat \ {0}
    /\ ToolRate \in Setting
    /\ KeyRate \in [Identities -> Setting]
    /\ RateWindow \in Nat \ {0}

VARIABLES
    now,        \* Date.now(), which only moves forward here; the windows are given in its ticks
    calls,      \* the limiter's `buckets`: identity -> times of admitted calls, oldest first
    admitted    \* history: every admitted call of this process, never pruned

rateVars == <<calls, admitted>>

----------------------------------------------------------------------------
\* Any amount of time may pass between two steps of the server.
Tick == now < MaxTime /\ now' = now + 1

\* Math.ceil(n / d) for a positive d.
CeilDiv(n, d) == (n + d - 1) \div d

\* Math.max(1, Math.ceil(ms / 1000))
WaitSeconds(ticks) ==
    LET ceiling == CeilDiv(ticks, TicksPerSecond)
    IN  IF ceiling < 1 THEN 1 ELSE ceiling

\* What is left of a sequence without its first i elements (slice(i)).
From(s, i) == SubSeq(s, i + 1, Len(s))

\* A limit that can be used as it is; "0", negatives and junk cannot.
IsLimit(v) == v = Unlimited \/ (v \in Int /\ v >= 1)

\* Overrides none of which can be used: the default applies.
UnusableRates == [id \in Identities |-> 0]

ResolveToolRatePerMin(raw) == IF IsLimit(raw) THEN raw ELSE DefaultLimitPerMin

\* The per-credential override wins when it is usable.
ResolveLimit(id) ==
    IF IsLimit(KeyRate[id]) THEN KeyRate[id] ELSE ResolveToolRatePerMin(ToolRate)

ReachesLimit(count, limit) == limit # Unlimited /\ count >= limit

\* A slip: an entry is dropped one tick before it leaves the window.
StopsAtEarly(bucket, i, t) ==
    /\ i \in 0 .. Len(bucket)
    /\ \A j \in 1 .. i : bucket[j] <= t - RateWindow + 1
    /\ i < Len(bucket) => bucket[i + 1] > t - RateWindow + 1

\* i is where check()'s loop over the bucket stops: the entries before it are out
\* of the window, the one at it is still inside.
StopsAt(bucket, i, t) ==
    /\ i \in 0 .. Len(bucket)
    /\ \A j \in 1 .. i : bucket[j] <= t - RateWindow
    /\ i < Len(bucket) => bucket[i + 1] > t - RateWindow

\* A slip: the wait is rounded down to whole seconds.
RetryAfterFloor(fresh) == (fresh[1] + RateWindow - now) \div TicksPerSecond

\* The Retry-After of a refused caller: when its oldest call leaves the window.
RetryAfterSeconds(fresh) == WaitSeconds(fresh[1] + RateWindow - now)

----------------------------------------------------------------------------
RateInit ==
    /\ calls    = [id \in Identities |-> << >>]
    /\ admitted = [id \in Identities |-> << >>]

\* check() admits: the pruned bucket gets the call's time.
RateAdmit(id) ==
    \E i \in 0 .. Len(calls[id]) :
        LET fresh == From(calls[id], i) IN
        /\ StopsAt(calls[id], i, now)
        /\ ~ReachesLimit(Len(fresh), ResolveLimit(id))
        /\ calls' = [calls EXCEPT ![id] = Append(fresh, now)]
        /\ admitted' = [admitted EXCEPT ![id] = Append(@, now)]

\* check() refuses: the bucket is pruned and the refused call is not stored.
RateDeny(id) ==
    \E i \in 0 .. Len(calls[id]) :
        LET fresh == From(calls[id], i) IN
        /\ StopsAt(calls[id], i, now)
        /\ ReachesLimit(Len(fresh), ResolveLimit(id))
        /\ calls' = [calls EXCEPT ![id] = fresh]
        /\ UNCHANGED admitted

\* Nothing is persisted: a new process starts with an empty limiter.
RateReset ==
    /\ calls'    = [id \in Identities |-> << >>]
    /\ admitted' = [id \in Identities |-> << >>]

RateNext ==
    \/ Tick /\ UNCHANGED rateVars
    \/ UNCHANGED now /\ RateReset
    \/ UNCHANGED now /\ \E id \in Identities : RateAdmit(id) \/ RateDeny(id)

RateSpec == now = 0 /\ RateInit /\ [][RateNext]_<<now, rateVars>>

----------------------------------------------------------------------------
RateTypeOK ==
    /\ now \in Nat
    /\ calls \in [Identities -> Seq(Nat)]
    /\ admitted \in [Identities -> Seq(Nat)]

\* No window of RateWindow ticks, wherever it starts, holds more admitted calls of
\* an identity than its limit, although check() only ever looks at the window that
\* ends now and forgets what left it.
RateCapInAnyWindow ==
    \A id \in Identities :
        LET limit == ResolveLimit(id) IN
        limit # Unlimited =>
            \A i, j \in 1 .. Len(admitted[id]) :
                j = i + limit => admitted[id][j] - admitted[id][i] >= RateWindow

\* A refused caller that comes back after the Retry-After it was given, with no call
\* admitted in between, is under its limit again: one expired entry is enough.
RateRetrySuffices ==
    \A id \in Identities : \A i \in 0 .. Len(calls[id]) :
        LET fresh == From(calls[id], i)
            back  == now + RetryAfterSeconds(fresh) * TicksPerSecond
        IN  StopsAt(calls[id], i, now) /\ ReachesLimit(Len(fresh), ResolveLimit(id)) =>
                \A k \in 0 .. Len(calls[id]) :
                    StopsAt(calls[id], k, back) =>
                        ~ReachesLimit(Len(calls[id]) - k, ResolveLimit(id))
=============================================================================
