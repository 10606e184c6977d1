------------------------ MODULE ToolCallQuota_proofs ------------------------
(***************************************************************************)
(* The two quotas of a tool call, for every limit, window, number of       *)
(* identities and of calls.                                                *)
(*                                                                         *)
(* The sliding window: check() looks only at the window that ends now;     *)
(* that this bounds every window rests on what pruning preserves: the      *)
(* bucket is a suffix of the history of admitted calls, and all that is    *)
(* missing from it is out of the window for good (Tracks).                 *)
(*                                                                         *)
(* The composition: every behaviour of it is, to the rate limiter, one of  *)
(* RateSpec, since what the token budget, the snapshot writes and the      *)
(* shutdown do leaves the limiter alone, and a restart empties it.  The    *)
(* theorems about the limiter therefore hold of it.                        *)
(*                                                                         *)
(* The token budget: its buckets hold what the ledger of the charges says, *)
(* hour by hour, which takes what a sum of a sequence is under appending,  *)
(* cutting and replacing.                                                  *)
(***************************************************************************)
EXTENDS ToolCallQuota, FoldLemmas

\* Bucket b stands for history h at time t: it is a suffix of h, and what precedes
\* it has left the window.
Tracks(b, h, t) ==
    /\ Len(b) <= Len(h)
    /\ \A j \in 1 .. Len(b) : b[j] = h[Len(h) - Len(b) + j]
    /\ \A j \in 1 .. (Len(h) - Len(b)) : h[j] <= t - RateWindow

\* No window holds more than `limit` calls of h.
Capped(h, limit) ==
    limit # Unlimited =>
        \A i, j \in 1 .. Len(h) : j = i + limit => h[j] - h[i] >= RateWindow

\* A bucket never holds more calls than the limit.
Bounded(b, limit) == limit # Unlimited => Len(b) <= limit

RateIInv ==
    /\ RateTypeOK
    /\ \A id \in Identities :
          /\ Tracks(calls[id], admitted[id], now)
          /\ Bounded(calls[id], ResolveLimit(id))
          /\ Capped(admitted[id], ResolveLimit(id))

----------------------------------------------------------------------------
\* resolveLimit never yields a limit that refuses everything or is not a number.
LEMMA LimitIsUsable ==
    ASSUME NEW id \in Identities
    PROVE  ResolveLimit(id) = Unlimited \/ ResolveLimit(id) \in Nat \ {0}
BY RateLimiterAssumption DEF ResolveLimit, ResolveToolRatePerMin, IsLimit

\* What slice(i) leaves.
LEMMA FromFacts ==
    ASSUME NEW S, NEW s \in Seq(S), NEW i \in 0 .. Len(s)
    PROVE  /\ From(s, i) \in Seq(S)
           /\ Len(From(s, i)) = Len(s) - i
           /\ \A j \in 1 .. (Len(s) - i) : From(s, i)[j] = s[i + j]
BY DEF From

\* Pruning keeps the bucket a suffix and drops only what is out of the window.
LEMMA PruneTracks ==
    ASSUME NEW b \in Seq(Nat), NEW h \in Seq(Nat), NEW t \in Nat, Tracks(b, h, t),
           NEW i, StopsAt(b, i, t)
    PROVE  Tracks(From(b, i), h, t)
<1> DEFINE m == Len(b)
           n == Len(h)
<1>1. /\ m \in Nat /\ n \in Nat /\ m <= n /\ i \in 0 .. m
      /\ \A j \in 1 .. i : b[j] <= t - RateWindow
      /\ \A j \in 1 .. m : b[j] = h[n - m + j]
      /\ \A j \in 1 .. (n - m) : h[j] <= t - RateWindow
  BY DEF Tracks, StopsAt
<1>2. Len(From(b, i)) = m - i /\ \A j \in 1 .. (m - i) : From(b, i)[j] = b[i + j]
  BY <1>1, FromFacts
<1>3. ASSUME NEW j \in 1 .. (m - i) PROVE From(b, i)[j] = h[n - (m - i) + j]
  <2>1. i + j \in 1 .. m /\ n - m + (i + j) = n - (m - i) + j
    BY <1>1
  <2> QED
    BY <1>1, <1>2, <2>1
<1>4. ASSUME NEW j \in 1 .. (n - (m - i)) PROVE h[j] <= t - RateWindow
  <2>1. CASE j \in 1 .. (n - m)
    BY <1>1, <2>1
  <2>2. CASE j \notin 1 .. (n - m)
    <3>1. j - (n - m) \in 1 .. i /\ j - (n - m) \in 1 .. m /\ n - m + (j - (n - m)) = j
      BY <1>1, <2>2
    <3> QED
      BY <1>1, <3>1
  <2> QED
    BY <2>1, <2>2
<1>5. m - i <= n
  BY <1>1
<1> HIDE DEF m, n
<1> QED
  BY <1>2, <1>3, <1>4, <1>5 DEF Tracks, m, n

\* Admitting a call appends it to both.
LEMMA AppendTracks ==
    ASSUME NEW b \in Seq(Nat), NEW h \in Seq(Nat), NEW t \in Nat, Tracks(b, h, t)
    PROVE  Tracks(Append(b, t), Append(h, t), t)
<1> DEFINE m == Len(b)
           n == Len(h)
           b1 == Append(b, t)
           h1 == Append(h, t)
<1>1. /\ m \in Nat /\ n \in Nat /\ m <= n
      /\ Len(b1) = m + 1 /\ Len(h1) = n + 1
      /\ \A j \in 1 .. m : b1[j] = b[j]
      /\ \A j \in 1 .. n : h1[j] = h[j]
      /\ b1[m + 1] = t /\ h1[n + 1] = t
      /\ \A j \in 1 .. m : b[j] = h[n - m + j]
      /\ \A j \in 1 .. (n - m) : h[j] <= t - RateWindow
  BY DEF Tracks
<1> HIDE DEF m, n, b1, h1
<1>2. \A j \in 1 .. (m + 1) : b1[j] = h1[(n + 1) - (m + 1) + j]
  <2> TAKE j \in 1 .. (m + 1)
  <2>1. CASE j \in 1 .. m
    <3>1. n - m + j \in 1 .. n /\ (n + 1) - (m + 1) + j = n - m + j
      BY <1>1, <2>1
    <3> QED
      BY <1>1, <2>1, <3>1
  <2>2. CASE j = m + 1
    <3>1. (n + 1) - (m + 1) + j = n + 1
      BY <1>1, <2>2
    <3> QED
      BY <1>1, <2>2, <3>1
  <2> QED
    BY <1>1, <2>1, <2>2
<1>3. \A j \in 1 .. ((n + 1) - (m + 1)) : h1[j] <= t - RateWindow
  BY <1>1
<1>4. Tracks(b1, h1, t)
  BY <1>1, <1>2, <1>3 DEF Tracks
<1> QED
  BY <1>4 DEF b1, h1

\* What has left the window stays out of it.
LEMMA LaterTracks ==
    ASSUME NEW b \in Seq(Nat), NEW h \in Seq(Nat), NEW t \in Nat, Tracks(b, h, t),
           NEW u \in Nat, t <= u
    PROVE  Tracks(b, h, u)
<1> DEFINE gone == Len(h) - Len(b)
<1>1. /\ Len(b) <= Len(h)
      /\ \A j \in 1 .. Len(b) : b[j] = h[Len(h) - Len(b) + j]
      /\ \A j \in 1 .. gone : h[j] <= t - RateWindow
  BY DEF Tracks
<1>2. gone \in 0 .. Len(h) /\ RateWindow \in Nat /\ \A j \in 1 .. Len(h) : h[j] \in Nat
  BY <1>1, RateLimiterAssumption
<1>3. \A j \in 1 .. gone : h[j] <= u - RateWindow
  BY <1>1, <1>2
<1> QED
  BY <1>1, <1>3 DEF Tracks

\* A call admitted below the limit completes no window that is over it: the call
\* `limit` places before it is no longer in the bucket, so it left the window.
LEMMA AppendCapped ==
    ASSUME NEW b \in Seq(Nat), NEW h \in Seq(Nat), NEW t \in Nat, Tracks(b, h, t),
           NEW limit, limit = Unlimited \/ limit \in Nat \ {0},
           Capped(h, limit), ~ReachesLimit(Len(b), limit)
    PROVE  Capped(Append(h, t), limit)
<1> DEFINE n == Len(h)
           h1 == Append(h, t)
<1> SUFFICES ASSUME limit # Unlimited,
                    NEW i \in 1 .. Len(h1), NEW j \in 1 .. Len(h1), j = i + limit
             PROVE  h1[j] - h1[i] >= RateWindow
  BY DEF Capped
<1>1. /\ n \in Nat /\ Len(h1) = n + 1 /\ limit \in Nat \ {0} /\ Len(b) \in Nat
      /\ RateWindow \in Nat
      /\ \A k \in 1 .. n : h1[k] = h[k] /\ h1[k] \in Nat
      /\ h1[n + 1] = t
  BY RateLimiterAssumption
<1>2. i \in 1 .. n
  BY <1>1
<1>3. CASE j \in 1 .. n
  BY <1>1, <1>2, <1>3 DEF Capped
<1>4. CASE j = n + 1
  <2>1. Len(b) < limit
    BY <1>1 DEF ReachesLimit
  <2>2. i \in 1 .. (n - Len(b))
    BY <1>1, <1>2, <1>4, <2>1
  <2>3. h[i] <= t - RateWindow
    BY <2>2 DEF Tracks
  <2>4. h1[i] <= t - RateWindow /\ h1[i] \in Nat /\ h1[j] = t
    BY <1>1, <1>2, <1>4, <2>3
  <2> QED
    BY <1>1, <2>4
<1>5. j \in 1 .. n \/ j = n + 1
  BY <1>1
<1> QED
  BY <1>3, <1>4, <1>5

----------------------------------------------------------------------------
\* A limiter that admitted nothing is in order.
LEMMA EmptyIsGood ==
    ASSUME NEW t \in Nat, NEW limit, limit = Unlimited \/ limit \in Nat \ {0}
    PROVE  Tracks(<< >>, << >>, t) /\ Bounded(<< >>, limit) /\ Capped(<< >>, limit)
BY DEF Tracks, Bounded, Capped

LEMMA InitEstablishes == now = 0 /\ RateInit => RateIInv
<1> SUFFICES ASSUME now = 0, RateInit, NEW id \in Identities
             PROVE  /\ RateTypeOK
                    /\ Tracks(calls[id], admitted[id], now)
                    /\ Bounded(calls[id], ResolveLimit(id))
                    /\ Capped(admitted[id], ResolveLimit(id))
  BY DEF RateIInv, RateInit, RateTypeOK
<1>1. calls[id] = << >> /\ admitted[id] = << >>
  BY DEF RateInit
<1>2. RateTypeOK
  BY DEF RateInit, RateTypeOK
<1> QED
  BY <1>1, <1>2, LimitIsUsable DEF Tracks, Bounded, Capped

\* A refused call prunes its identity's bucket.
LEMMA DenyPreserves ==
    ASSUME RateIInv, NEW id \in Identities, RateDeny(id), UNCHANGED now
    PROVE  RateIInv'
<1>1. PICK i \in 0 .. Len(calls[id]) :
        /\ StopsAt(calls[id], i, now)
        /\ calls' = [calls EXCEPT ![id] = From(calls[id], i)]
        /\ admitted' = admitted
  BY DEF RateDeny
<1> DEFINE fresh == From(calls[id], i)
<1>2. calls[id] \in Seq(Nat) /\ admitted[id] \in Seq(Nat) /\ now \in Nat
  BY DEF RateIInv, RateTypeOK
<1>3. fresh \in Seq(Nat) /\ Len(fresh) = Len(calls[id]) - i
  BY <1>2, FromFacts
<1>4. Tracks(fresh, admitted[id], now)
  BY <1>1, <1>2, PruneTracks DEF RateIInv
<1>5. Bounded(fresh, ResolveLimit(id))
  BY <1>2, <1>3, LimitIsUsable DEF RateIInv, Bounded
<1> HIDE DEF fresh
<1>6. RateTypeOK'
  BY <1>1, <1>3 DEF RateIInv, RateTypeOK, fresh
<1>7. ASSUME NEW k \in Identities
      PROVE  /\ Tracks(calls'[k], admitted'[k], now)
             /\ Bounded(calls'[k], ResolveLimit(k))
             /\ Capped(admitted'[k], ResolveLimit(k))
  <2>1. calls'[k] = (IF k = id THEN fresh ELSE calls[k]) /\ admitted'[k] = admitted[k]
    BY <1>1 DEF RateIInv, RateTypeOK, fresh
  <2> QED
    BY <1>4, <1>5, <2>1 DEF RateIInv
<1> QED
  BY <1>6, <1>7 DEF RateIInv, Tracks, Bounded, Capped, ResolveLimit,
     ResolveToolRatePerMin, IsLimit

\* An admitted call joins the pruned bucket and the history.
LEMMA AdmitPreserves ==
    ASSUME RateIInv, NEW id \in Identities, RateAdmit(id), UNCHANGED now
    PROVE  RateIInv'
<1>1. PICK i \in 0 .. Len(calls[id]) :
        /\ StopsAt(calls[id], i, now)
        /\ ~ReachesLimit(Len(From(calls[id], i)), ResolveLimit(id))
        /\ calls' = [calls EXCEPT ![id] = Append(From(calls[id], i), now)]
        /\ admitted' = [admitted EXCEPT ![id] = Append(admitted[id], now)]
  BY DEF RateAdmit
<1> DEFINE fresh == From(calls[id], i)
<1>2. calls[id] \in Seq(Nat) /\ admitted[id] \in Seq(Nat) /\ now \in Nat
  BY DEF RateIInv, RateTypeOK
<1>3. fresh \in Seq(Nat) /\ Len(fresh) \in Nat
  BY <1>2, FromFacts
<1>4. Tracks(fresh, admitted[id], now)
  BY <1>1, <1>2, PruneTracks DEF RateIInv
<1> HIDE DEF fresh
<1>5. Tracks(Append(fresh, now), Append(admitted[id], now), now)
  BY <1>2, <1>3, <1>4, AppendTracks
<1>6. Bounded(Append(fresh, now), ResolveLimit(id))
  <2>1. Len(Append(fresh, now)) = Len(fresh) + 1
    BY <1>3
  <2> QED
    BY <1>1, <1>3, <2>1, LimitIsUsable DEF Bounded, ReachesLimit, fresh
<1>7. Capped(Append(admitted[id], now), ResolveLimit(id))
  <2>1. Capped(admitted[id], ResolveLimit(id)) /\ ~ReachesLimit(Len(fresh), ResolveLimit(id))
    BY <1>1 DEF RateIInv, fresh
  <2> QED
    BY <1>2, <1>3, <1>4, <2>1, LimitIsUsable, AppendCapped
<1>8. RateTypeOK'
  BY <1>1, <1>2, <1>3 DEF RateIInv, RateTypeOK, fresh
<1>9. ASSUME NEW k \in Identities
      PROVE  /\ Tracks(calls'[k], admitted'[k], now)
             /\ Bounded(calls'[k], ResolveLimit(k))
             /\ Capped(admitted'[k], ResolveLimit(k))
  <2>1. /\ calls'[k] = (IF k = id THEN Append(fresh, now) ELSE calls[k])
        /\ admitted'[k] = (IF k = id THEN Append(admitted[id], now) ELSE admitted[k])
    BY <1>1 DEF RateIInv, RateTypeOK, fresh
  <2> QED
    BY <1>5, <1>6, <1>7, <2>1 DEF RateIInv
<1> QED
  BY <1>8, <1>9 DEF RateIInv, Tracks, Bounded, Capped, ResolveLimit,
     ResolveToolRatePerMin, IsLimit

\* As time passes, what is out of the window stays out.
LEMMA TickPreserves ==
    ASSUME RateIInv, Tick, UNCHANGED rateVars
    PROVE  RateIInv'
<1>1. now \in Nat /\ now' = now + 1 /\ calls' = calls /\ admitted' = admitted
  BY DEF RateIInv, RateTypeOK, Tick, rateVars
<1>2. RateTypeOK'
  BY <1>1 DEF RateIInv, RateTypeOK
<1>3. ASSUME NEW id \in Identities PROVE Tracks(calls[id], admitted[id], now + 1)
  BY <1>1, now + 1 \in Nat, now <= now + 1, LaterTracks DEF RateIInv, RateTypeOK
<1> QED
  BY <1>1, <1>2, <1>3 DEF RateIInv, Tracks, Bounded, Capped, ResolveLimit,
     ResolveToolRatePerMin, IsLimit

\* A new process forgets everything.
LEMMA ResetPreserves ==
    ASSUME RateIInv, RateReset, UNCHANGED now
    PROVE  RateIInv'
<1>1. RateTypeOK'
  BY DEF RateIInv, RateTypeOK, RateReset
<1>2. ASSUME NEW id \in Identities
      PROVE  calls'[id] = << >> /\ admitted'[id] = << >>
  BY DEF RateReset
<1>3. ASSUME NEW id \in Identities
      PROVE  /\ Tracks(calls'[id], admitted'[id], now)
             /\ Bounded(calls'[id], ResolveLimit(id))
             /\ Capped(admitted'[id], ResolveLimit(id))
  <2>1. calls'[id] = << >> /\ admitted'[id] = << >>
    BY <1>2
  <2>2. now \in Nat
    BY DEF RateIInv, RateTypeOK
  <2>3. Tracks(<< >>, << >>, now) /\ Bounded(<< >>, ResolveLimit(id))
        /\ Capped(<< >>, ResolveLimit(id))
    BY <2>2, LimitIsUsable, EmptyIsGood
  <2> QED
    BY <2>1, <2>3
<1> QED
  BY <1>1, <1>3 DEF RateIInv, Tracks, Bounded, Capped, ResolveLimit,
     ResolveToolRatePerMin, IsLimit

\* RateIInv is inductive.
THEOREM RateInvariant == RateSpec => []RateIInv
<1>1. now = 0 /\ RateInit => RateIInv
  BY InitEstablishes
<1>2. RateIInv /\ [RateNext]_<<now, rateVars>> => RateIInv'
  <2> SUFFICES ASSUME RateIInv, [RateNext]_<<now, rateVars>>
               PROVE  RateIInv'
    OBVIOUS
  <2>1. CASE Tick /\ UNCHANGED rateVars
    BY <2>1, TickPreserves
  <2>2. CASE UNCHANGED now /\ RateReset
    BY <2>2, ResetPreserves
  <2>3. ASSUME UNCHANGED now, NEW id \in Identities, RateAdmit(id)
        PROVE  RateIInv'
    BY <2>3, AdmitPreserves
  <2>4. ASSUME UNCHANGED now, NEW id \in Identities, RateDeny(id)
        PROVE  RateIInv'
    BY <2>4, DenyPreserves
  <2>5. CASE UNCHANGED <<now, rateVars>>
    BY <2>5 DEF RateIInv, RateTypeOK, Tracks, Bounded, Capped, ResolveLimit,
       ResolveToolRatePerMin, IsLimit, rateVars
  <2> QED
    BY <2>1, <2>2, <2>3, <2>4, <2>5 DEF RateNext
<1> QED
  BY <1>1, <1>2, PTL DEF RateSpec

\* The cap holds over every window, whatever the settings and the order of calls.
THEOREM RateCap == RateSpec => []RateCapInAnyWindow
<1>1. RateIInv => RateCapInAnyWindow
  BY DEF RateIInv, Capped, RateCapInAnyWindow
<1> QED
  BY <1>1, RateInvariant, PTL

\* The rounding of Retry-After never makes a caller come back early.
LEMMA WaitIsLongEnough ==
    ASSUME NEW d \in Int
    PROVE  WaitSeconds(d) \in Nat /\ WaitSeconds(d) * TicksPerSecond >= d
<1> DEFINE q == (d + TicksPerSecond - 1) \div TicksPerSecond
<1>1. TicksPerSecond \in Nat \ {0}
  BY ClockAssumption
<1>2. q \in Int /\ q * TicksPerSecond >= d
  BY <1>1
<1>3. WaitSeconds(d) = (IF q < 1 THEN 1 ELSE q)
  BY DEF WaitSeconds, CeilDiv
<1> HIDE DEF q
<1>4. CASE q < 1
  <2>1. q * TicksPerSecond <= 0
    BY <1>1, <1>2, <1>4
  <2> QED
    BY <1>1, <1>2, <1>3, <1>4, <2>1
<1>5. CASE ~(q < 1)
  BY <1>2, <1>3, <1>5
<1> QED
  BY <1>4, <1>5

\* Whoever waits as told is served: the bucket never holds more than the limit, so
\* that one call leaving the window makes room.
THEOREM RateRetry == RateSpec => []RateRetrySuffices
<1>1. RateIInv => RateRetrySuffices
  <2> SUFFICES
        ASSUME RateIInv, NEW id \in Identities, NEW i \in 0 .. Len(calls[id]),
               StopsAt(calls[id], i, now),
               ReachesLimit(Len(From(calls[id], i)), ResolveLimit(id)),
               NEW k \in 0 .. Len(calls[id]),
               StopsAt(calls[id], k,
                       now + RetryAfterSeconds(From(calls[id], i)) * TicksPerSecond)
        PROVE  ~ReachesLimit(Len(calls[id]) - k, ResolveLimit(id))
    BY DEF RateRetrySuffices
  <2> DEFINE b == calls[id]
             limit == ResolveLimit(id)
             fresh == From(b, i)
             d == fresh[1] + RateWindow - now
             back == now + RetryAfterSeconds(fresh) * TicksPerSecond
  <2>1. /\ b \in Seq(Nat) /\ Len(b) \in Nat /\ now \in Nat /\ RateWindow \in Nat
        /\ TicksPerSecond \in Nat
    BY RateLimiterAssumption, ClockAssumption DEF RateIInv, RateTypeOK
  <2>2. limit \in Nat \ {0} /\ Len(fresh) = Len(b) - i /\ Len(b) - i >= limit /\ Len(b) <= limit
    BY <2>1, FromFacts, LimitIsUsable DEF ReachesLimit, RateIInv, Bounded
  <2>3. i = 0 /\ Len(b) = limit
    BY <2>1, <2>2
  <2>4. fresh[1] = b[1] /\ b[1] \in Nat
    <3>1. 1 \in 1 .. Len(b) /\ 1 \in 1 .. (Len(b) - i)
      BY <2>1, <2>2, <2>3
    <3>2. fresh[1] = b[i + 1]
      BY <2>1, <3>1, FromFacts
    <3> QED
      BY <2>1, <2>3, <3>1, <3>2
  <2>5. back \in Int /\ back >= now + d
    <3> DEFINE secs == WaitSeconds(d)
    <3>1. d \in Int
      BY <2>1, <2>4
    <3>2. secs \in Nat /\ secs * TicksPerSecond >= d
      BY <3>1, WaitIsLongEnough
    <3>3. back = now + secs * TicksPerSecond
      BY DEF RetryAfterSeconds
    <3> HIDE DEF d, secs, back
    <3> QED
      BY <2>1, <3>1, <3>2, <3>3
  <2>6. b[1] <= back - RateWindow
    BY <2>1, <2>4, <2>5
  <2>7. k # 0
    BY <2>1, <2>2, <2>3, <2>4, <2>5, <2>6 DEF StopsAt
  <2> QED
    BY <2>1, <2>2, <2>3, <2>7 DEF ReachesLimit
<1> QED
  BY <1>1, RateInvariant, PTL
----------------------------------------------------------------------------
\* Every step of the composition is a step of the limiter or leaves it unchanged.
LEMMA StepsOfTheLimiter == [Next]_vars => [RateNext]_<<now, rateVars>>
<1> SUFFICES ASSUME [Next]_vars
             PROVE  [RateNext]_<<now, rateVars>>
  OBVIOUS
<1>1. CASE Pass
  BY <1>1 DEF Pass, RateNext
<1>2. ASSUME NEW id \in Identities, Admit(id)
      PROVE  RateNext
  BY <1>2 DEF Admit, RateNext
<1>3. ASSUME NEW id \in Identities, TooMany(id)
      PROVE  RateNext
  BY <1>3 DEF TooMany, RateNext
<1>4. CASE Start
  BY <1>4 DEF Start, RateNext
<1>5. ASSUME NEW id \in Identities, Respond(id) \/ Throw(id)
      PROVE  UNCHANGED <<now, rateVars>>
  BY <1>5 DEF Respond, Throw
<1>6. CASE Flush \/ Write \/ WriteError \/ Terminate \/ RunHooks \/ Exit \/ Killed
  BY <1>6 DEF Flush, Write, WriteError, Terminate, RunHooks, Exit, Killed
<1>7. CASE UNCHANGED vars
  BY <1>7 DEF vars
<1> QED
  BY <1>1, <1>2, <1>3, <1>4, <1>5, <1>6, <1>7 DEF Next

\* The composition implements the limiter's specification.
THEOREM QuotaImplementsLimiter == Spec => RateSpec
<1>1. Init => now = 0 /\ RateInit
  BY DEF Init
<1> QED
  BY <1>1, StepsOfTheLimiter, PTL DEF Spec, RateSpec

\* No credential passes more requests than its limit in any window, whatever else
\* the server does.
THEOREM QuotaRateCap == Spec => []RateCapInAnyWindow
BY QuotaImplementsLimiter, RateCap, PTL

\* A 429's Retry-After is honest in the composed system.
THEOREM QuotaRateRetry == Spec => []RateRetrySuffices
BY QuotaImplementsLimiter, RateRetry, PTL

----------------------------------------------------------------------------
\* h is what the fold over w computes for each set of positions up to n.
Folded(w, n, h) ==
    h = [t \in SUBSET (1 .. n) |->
            IF t = {} THEN 0 ELSE h[t \ {Max(t)}] + w[Max(t)]]

\* f is the sequence of partial sums of w.
Partial(w, f) ==
    /\ f \in [0 .. Len(w) -> Nat]
    /\ f[0] = 0
    /\ \A k \in 1 .. Len(w) : f[k] = f[k - 1] + w[k]
    /\ f[Len(w)] = Total(w)

\* The fold is defined for every length.
LEMMA FoldExists ==
    ASSUME NEW w
    PROVE  \A n \in Nat : \E h : Folded(w, n, h)
<1> DEFINE T == {n \in Nat : \E h : Folded(w, n, h)}
<1>1. 0 \in T
  <2> DEFINE h == [t \in SUBSET (1 .. 0) |-> 0]
  <2>1. \A t \in SUBSET (1 .. 0) : t = {}
    OBVIOUS
  <2>2. Folded(w, 0, h)
    BY <2>1 DEF Folded
  <2> QED
    BY <2>2
<1>2. ASSUME NEW n \in T
      PROVE  n + 1 \in T
  <2>1. PICK g : Folded(w, n, g)
    OBVIOUS
  <2> DEFINE h == [t \in SUBSET (1 .. (n + 1)) |->
                     IF t = {} THEN 0
                     ELSE IF t \in SUBSET (1 .. n) THEN g[t \ {Max(t)}] + w[Max(t)]
                     ELSE g[t \ {n + 1}] + w[n + 1]]
  <2>2. ASSUME NEW t \in SUBSET (1 .. n)
        PROVE  t \in SUBSET (1 .. (n + 1)) /\ h[t] = g[t]
    <3>1. t \in SUBSET (1 .. (n + 1))
      OBVIOUS
    <3>2. g[t] = IF t = {} THEN 0 ELSE g[t \ {Max(t)}] + w[Max(t)]
      BY <2>1 DEF Folded
    <3> QED
      BY <3>1, <3>2
  <2>3. ASSUME NEW t \in SUBSET (1 .. (n + 1)), t # {}
        PROVE  h[t] = h[t \ {Max(t)}] + w[Max(t)]
    <3>1. Max(t) \in t /\ \A y \in t : Max(t) >= y
      <4>1. n + 1 \in Nat
        OBVIOUS
      <4> QED
        BY <2>3, <4>1, MaxOf
    <3>2. CASE t \in SUBSET (1 .. n)
      <4>1. t \ {Max(t)} \in SUBSET (1 .. n)
        BY <3>2
      <4> QED
        BY <2>2, <2>3, <3>2, <4>1
    <3>3. CASE t \notin SUBSET (1 .. n)
      <4>1. n + 1 \in t
        BY <2>3, <3>3
      <4>2. Max(t) = n + 1
        <5>1. n \in Nat /\ Max(t) \in 1 .. (n + 1) /\ Max(t) >= n + 1
          BY <3>1, <4>1
        <5> QED
          BY <5>1
      <4>3. t \ {n + 1} \in SUBSET (1 .. n)
        OBVIOUS
      <4> QED
        BY <2>2, <2>3, <3>3, <4>2, <4>3
    <3> QED
      BY <3>2, <3>3
  <2>4. Folded(w, n + 1, h)
    <3>1. h[{}] = 0
      OBVIOUS
    <3> HIDE DEF h
    <3>2. h = [t \in SUBSET (1 .. (n + 1)) |-> h[t]]
      BY DEF h
    <3> QED
      BY <2>3, <3>1, <3>2 DEF Folded
  <2> QED
    BY <2>4
<1> HIDE DEF T
<1>3. \A n \in Nat : n \in T
  BY <1>1, <1>2, Induction DEF T
<1> QED
  BY <1>3 DEF T

\* Total is the last partial sum.
LEMMA PartialSums ==
    ASSUME NEW w \in Seq(Nat)
    PROVE  \E f : Partial(w, f)
<1> DEFINE n == Len(w)
           h == CHOOSE h : Folded(w, n, h)
           f == [k \in 0 .. n |-> h[1 .. k]]
           T == {k \in Nat : k <= n => f[k] \in Nat}
<1>1. n \in Nat /\ DOMAIN w = 1 .. n /\ \A k \in 1 .. n : w[k] \in Nat
  OBVIOUS
<1>2. Folded(w, n, h)
  BY <1>1, FoldExists
<1>3. Total(w) = h[1 .. n]
  BY <1>1 DEF Total, FoldLeft, MapThenFoldSet, Folded
<1> HIDE DEF n, h
<1>4. f[0] = 0
  BY <1>1, <1>2 DEF Folded
<1>5. ASSUME NEW k \in 1 .. n
      PROVE  f[k] = f[k - 1] + w[k]
  <2>1. Max(1 .. k) = k /\ (1 .. k) \ {k} = 1 .. (k - 1)
    BY <1>1, MaxOfInterval
  <2>2. 1 .. k \in SUBSET (1 .. n) /\ 1 .. k # {} /\ k \in 0 .. n /\ k - 1 \in 0 .. n
    BY <1>1
  <2>3. h[1 .. k] = h[(1 .. k) \ {Max(1 .. k)}] + w[Max(1 .. k)]
    BY <1>2, <2>2 DEF Folded
  <2> QED
    BY <2>1, <2>2, <2>3
<1>6. f[n] = Total(w)
  BY <1>1, <1>3
<1> HIDE DEF f
<1>7. \A k \in Nat : k \in T
  <2>1. 0 \in T
    BY <1>4
  <2>2. ASSUME NEW k \in T
        PROVE  k + 1 \in T
    <3> SUFFICES ASSUME k + 1 <= n
                 PROVE  f[k + 1] \in Nat
      OBVIOUS
    <3>1. k + 1 \in 1 .. n /\ k + 1 - 1 = k
      BY <1>1
    <3>2. f[k + 1] = f[k] + w[k + 1]
      BY <1>5, <3>1
    <3> QED
      BY <1>1, <3>1, <3>2
  <2> HIDE DEF T
  <2>3. T \in SUBSET Nat
    BY DEF T
  <2> QED
    BY <2>1, <2>2, <2>3, Induction
<1>8. f \in [0 .. n -> Nat]
  <2>1. \A k \in 0 .. n : f[k] \in Nat
    BY <1>1, <1>7
  <2>2. f = [k \in 0 .. n |-> f[k]]
    BY DEF f
  <2> QED
    BY <2>1, <2>2
<1> QED
  BY <1>4, <1>5, <1>6, <1>8 DEF Partial, n

\* A sum of naturals is one.
LEMMA TotalNat ==
    ASSUME NEW w \in Seq(Nat)
    PROVE  Total(w) \in Nat
<1>1. PICK f : Partial(w, f)
  BY PartialSums
<1> QED
  BY <1>1 DEF Partial

\* A sum is not more than the sum of larger numbers.
LEMMA TotalMonotone ==
    ASSUME NEW v \in Seq(Nat), NEW w \in Seq(Nat), Len(v) = Len(w),
           \A k \in 1 .. Len(v) : v[k] <= w[k]
    PROVE  Total(v) <= Total(w)
<1>1. PICK f : Partial(v, f)
  BY PartialSums
<1>2. PICK g : Partial(w, g)
  BY PartialSums
<1> DEFINE n == Len(v)
           T == {k \in Nat : k <= n => f[k] <= g[k]}
<1>3. /\ n \in Nat /\ f \in [0 .. n -> Nat] /\ g \in [0 .. n -> Nat]
      /\ f[0] = 0 /\ g[0] = 0 /\ f[n] = Total(v) /\ g[n] = Total(w)
      /\ \A k \in 1 .. n : /\ f[k] = f[k - 1] + v[k] /\ g[k] = g[k - 1] + w[k]
                           /\ v[k] \in Nat /\ w[k] \in Nat /\ v[k] <= w[k]
  BY <1>1, <1>2 DEF Partial
<1> HIDE DEF n
<1>4. 0 \in T
  BY <1>3
<1>5. ASSUME NEW k \in T
      PROVE  k + 1 \in T
  <2> SUFFICES ASSUME k + 1 <= n
               PROVE  f[k + 1] <= g[k + 1]
    OBVIOUS
  <2>1. k + 1 \in 1 .. n /\ k + 1 - 1 = k /\ k \in 0 .. n /\ f[k] <= g[k]
    BY <1>3
  <2>2. f[k + 1] = f[k] + v[k + 1] /\ g[k + 1] = g[k] + w[k + 1]
    BY <1>3, <2>1
  <2>3. v[k + 1] \in Nat /\ w[k + 1] \in Nat /\ v[k + 1] <= w[k + 1] /\ f[k] \in Nat /\ g[k] \in Nat
    BY <1>3, <2>1
  <2> QED
    BY <2>1, <2>2, <2>3
<1>6. \A k \in Nat : k \in T
  <2>1. T \in SUBSET Nat
    OBVIOUS
  <2> HIDE DEF T
  <2> QED
    BY <1>4, <1>5, <2>1, Induction
<1>7. f[n] <= g[n]
  BY <1>3, <1>6
<1> QED
  BY <1>3, <1>7

\* What precedes a position and what follows it add up to the whole.
LEMMA TotalSplit ==
    ASSUME NEW w \in Seq(Nat), NEW i \in 0 .. Len(w)
    PROVE  /\ SubSeq(w, 1, i) \in Seq(Nat) /\ SubSeq(w, i + 1, Len(w)) \in Seq(Nat)
           /\ Total(w) = Total(SubSeq(w, 1, i)) + Total(SubSeq(w, i + 1, Len(w)))
<1> DEFINE u == SubSeq(w, 1, i)
           v == SubSeq(w, i + 1, Len(w))
           m == Len(w)
<1>1. /\ u \in Seq(Nat) /\ v \in Seq(Nat) /\ m \in Nat
      /\ Len(u) = i /\ Len(v) = m - i
      /\ \A k \in 1 .. i : u[k] = w[k]
      /\ \A k \in 1 .. (m - i) : v[k] = w[i + k]
  OBVIOUS
<1> HIDE DEF u, v
<1>2. PICK f : Partial(w, f)
  BY PartialSums
<1>3. PICK g : Partial(u, g)
  BY <1>1, PartialSums
<1>4. PICK h : Partial(v, h)
  BY <1>1, PartialSums
<1>5. /\ f \in [0 .. m -> Nat] /\ f[0] = 0 /\ f[m] = Total(w)
      /\ \A k \in 1 .. m : f[k] = f[k - 1] + w[k]
      /\ g \in [0 .. i -> Nat] /\ g[0] = 0 /\ g[i] = Total(u)
      /\ \A k \in 1 .. i : g[k] = g[k - 1] + u[k]
      /\ h \in [0 .. (m - i) -> Nat] /\ h[0] = 0 /\ h[m - i] = Total(v)
      /\ \A k \in 1 .. (m - i) : h[k] = h[k - 1] + v[k]
  BY <1>1, <1>2, <1>3, <1>4 DEF Partial
<1> HIDE DEF m
<1> DEFINE A == {k \in Nat : k <= i => f[k] = g[k]}
           B == {k \in Nat : k <= m - i => f[i + k] = f[i] + h[k]}
<1>6. \A k \in Nat : k \in A
  <2>1. 0 \in A
    BY <1>5
  <2>2. ASSUME NEW k \in A
        PROVE  k + 1 \in A
    <3> SUFFICES ASSUME k + 1 <= i
                 PROVE  f[k + 1] = g[k + 1]
      OBVIOUS
    <3>1. /\ k + 1 \in 1 .. i /\ k + 1 \in 1 .. m /\ k + 1 - 1 = k /\ k \in 0 .. i
          /\ k \in 0 .. m /\ f[k] = g[k]
      BY <1>1
    <3>2. f[k + 1] = f[k] + w[k + 1]
      BY <1>5, <3>1
    <3>3. g[k + 1] = g[k] + u[k + 1]
      BY <1>5, <3>1
    <3>4. u[k + 1] = w[k + 1]
      BY <1>1, <3>1
    <3> QED
      BY <3>1, <3>2, <3>3, <3>4
  <2>3. A \in SUBSET Nat
    OBVIOUS
  <2> HIDE DEF A
  <2> QED
    BY <2>1, <2>2, <2>3, Induction
<1>7. \A k \in Nat : k \in B
  <2>1. 0 \in B
    <3>1. i \in 0 .. m /\ i + 0 = i /\ f[i] \in Nat
      BY <1>1, <1>5
    <3> QED
      BY <1>5, <3>1
  <2>2. ASSUME NEW k \in B
        PROVE  k + 1 \in B
    <3> SUFFICES ASSUME k + 1 <= m - i
                 PROVE  f[i + (k + 1)] = f[i] + h[k + 1]
      OBVIOUS
    <3>1. /\ k + 1 \in 1 .. (m - i) /\ i + (k + 1) \in 1 .. m /\ k + 1 - 1 = k
          /\ i + (k + 1) - 1 = i + k /\ f[i + k] = f[i] + h[k]
      BY <1>1
    <3>2. f[i + (k + 1)] = f[i + k] + w[i + (k + 1)] /\ h[k + 1] = h[k] + v[k + 1]
      BY <1>5, <3>1
    <3>3. v[k + 1] = w[i + (k + 1)]
      BY <1>1, <3>1
    <3>4. f[i] \in Nat /\ h[k] \in Nat /\ w[i + (k + 1)] \in Nat
      <4>1. i \in 0 .. m /\ k \in 0 .. (m - i)
        BY <1>1, <3>1
      <4>2. w[i + (k + 1)] \in Nat
        BY <3>1 DEF m
      <4> QED
        BY <1>5, <4>1, <4>2
    <3> QED
      BY <3>1, <3>2, <3>3, <3>4
  <2>3. B \in SUBSET Nat
    OBVIOUS
  <2> HIDE DEF B
  <2> QED
    BY <2>1, <2>2, <2>3, Induction
<1>8. f[i] = g[i] /\ f[m] = f[i] + h[m - i]
  <2>1. i \in Nat /\ m - i \in Nat /\ i + (m - i) = m /\ i <= i /\ m - i <= m - i
    BY <1>1 DEF m
  <2>2. f[i] = g[i]
    BY <1>6, <2>1
  <2>3. f[i + (m - i)] = f[i] + h[m - i]
    <3> DEFINE k == m - i
    <3> HIDE DEF k
    <3>1. k \in Nat /\ k <= m - i
      BY <2>1 DEF k
    <3>2. f[i + k] = f[i] + h[k]
      BY <1>7, <3>1
    <3> QED
      BY <3>2 DEF k
  <2> QED
    BY <2>1, <2>2, <2>3
<1> QED
  BY <1>1, <1>5, <1>8 DEF u, v, m

\* One more number adds itself.
LEMMA TotalAppend ==
    ASSUME NEW w \in Seq(Nat), NEW n \in Nat
    PROVE  Append(w, n) \in Seq(Nat) /\ Total(Append(w, n)) = Total(w) + n
<1> DEFINE x == Append(w, n)
           m == Len(w)
<1>1. /\ x \in Seq(Nat) /\ Len(x) = m + 1 /\ m \in 0 .. Len(x)
      /\ x[m + 1] = n /\ \A k \in 1 .. m : x[k] = w[k]
  OBVIOUS
<1>2. Total(<<n>>) = n
  <2>1. <<n>> \in Seq(Nat) /\ Len(<<n>>) = 1 /\ <<n>>[1] = n
    OBVIOUS
  <2>2. PICK f : Partial(<<n>>, f)
    BY <2>1, PartialSums
  <2>3. f[1] = f[0] + n /\ f[0] = 0 /\ f[1] = Total(<<n>>)
    BY <2>1, <2>2 DEF Partial
  <2> QED
    BY <2>3
<1>3. Total(x) = Total(SubSeq(x, 1, m)) + Total(SubSeq(x, m + 1, Len(x)))
  BY <1>1, TotalSplit
<1>4. SubSeq(x, 1, m) = w
  <2> HIDE DEF x
  <2>1. SubSeq(x, 1, m) \in Seq(Nat) /\ Len(SubSeq(x, 1, m)) = m
    BY <1>1
  <2>2. \A k \in 1 .. m : SubSeq(x, 1, m)[k] = w[k]
    BY <1>1
  <2> QED
    BY <2>1, <2>2
<1>5. SubSeq(x, m + 1, Len(x)) = <<n>>
  <2> HIDE DEF x
  <2> DEFINE y == SubSeq(x, m + 1, m + 1)
  <2>1. y \in Seq(Nat) /\ Len(y) = 1 /\ y[1] = x[m + 1]
    BY <1>1
  <2> HIDE DEF y
  <2>2. y = <<n>>
    BY <1>1, <2>1
  <2> QED
    BY <1>1, <2>2 DEF y
<1> QED
  BY <1>1, <1>2, <1>3, <1>4, <1>5

\* Replacing the last number changes the sum by the difference.
LEMMA TotalReplaceLast ==
    ASSUME NEW v \in Seq(Nat), NEW w \in Seq(Nat), Len(v) = Len(w), v # << >>,
           \A k \in 1 .. (Len(v) - 1) : v[k] = w[k]
    PROVE  Total(w) + v[Len(v)] = Total(v) + w[Len(v)]
<1> DEFINE n == Len(v)
           u == SubSeq(v, 1, n - 1)
<1>1. /\ n \in Nat \ {0} /\ v[n] \in Nat /\ w[n] \in Nat /\ Len(v) = n /\ Len(w) = n
      /\ \A k \in 1 .. (n - 1) : v[k] = w[k]
  OBVIOUS
<1>2. u \in Seq(Nat) /\ Len(u) = n - 1 /\ \A k \in 1 .. (n - 1) : u[k] = v[k]
  BY <1>1
<1> HIDE DEF u
<1> HIDE DEF n
<1>3. v = Append(u, v[n])
  <2> DEFINE x == Append(u, v[n])
  <2>1. x \in Seq(Nat) /\ Len(x) = n /\ x[n] = v[n] /\ \A k \in 1 .. (n - 1) : x[k] = u[k]
    BY <1>1, <1>2
  <2>2. \A k \in 1 .. n : x[k] = v[k]
    BY <1>1, <1>2, <2>1
  <2> HIDE DEF x
  <2>3. x = v
    BY <1>1, <2>1, <2>2, SameSequence
  <2> QED
    BY <2>3 DEF x
<1>4. w = Append(u, w[n])
  <2> DEFINE x == Append(u, w[n])
  <2>1. x \in Seq(Nat) /\ Len(x) = n /\ x[n] = w[n] /\ \A k \in 1 .. (n - 1) : x[k] = u[k]
    BY <1>1, <1>2
  <2>2. \A k \in 1 .. n : x[k] = w[k]
    BY <1>1, <1>2, <2>1
  <2> HIDE DEF x
  <2>3. x = w
    BY <1>1, <2>1, <2>2, SameSequence
  <2> QED
    BY <2>3 DEF x
<1>5. Total(v) = Total(u) + v[n] /\ Total(w) = Total(u) + w[n]
  BY <1>1, <1>2, <1>3, <1>4, TotalAppend
<1>6. Total(u) \in Nat
  BY <1>2, TotalNat
<1> QED
  BY <1>1, <1>5, <1>6 DEF n

\* Zeros add up to nothing.
LEMMA TotalZeros ==
    ASSUME NEW w \in Seq(Nat), \A k \in 1 .. Len(w) : w[k] = 0
    PROVE  Total(w) = 0
<1>1. PICK f : Partial(w, f)
  BY PartialSums
<1> DEFINE n == Len(w)
           T == {k \in Nat : k <= n => f[k] = 0}
<1>2. /\ n \in Nat /\ f[0] = 0 /\ f[n] = Total(w)
      /\ \A k \in 1 .. n : f[k] = f[k - 1] + w[k] /\ w[k] = 0
      /\ f \in [0 .. n -> Nat]
  BY <1>1 DEF Partial
<1> HIDE DEF n
<1>3. 0 \in T
  BY <1>2
<1>4. ASSUME NEW k \in T
      PROVE  k + 1 \in T
  <2> SUFFICES ASSUME k + 1 <= n
               PROVE  f[k + 1] = 0
    OBVIOUS
  <2>1. k + 1 \in 1 .. n /\ k + 1 - 1 = k /\ k \in 0 .. n /\ f[k] = 0
    BY <1>2
  <2>2. f[k + 1] = f[k] + w[k + 1]
    BY <1>2, <2>1
  <2>3. w[k + 1] = 0
    BY <1>2, <2>1
  <2> QED
    BY <2>1, <2>2, <2>3
<1>5. \A k \in Nat : k \in T
  <2>1. T \in SUBSET Nat
    OBVIOUS
  <2> HIDE DEF T
  <2> QED
    BY <1>3, <1>4, <2>1, Induction
<1>6. f[n] = 0
  BY <1>2, <1>5
<1> QED
  BY <1>2, <1>6

----------------------------------------------------------------------------
\* What the charges of lg put on identity id in buckets from time c on.
LedgerWeights(lg, id, c) ==
    [k \in 1 .. Len(lg) |-> IF lg[k].id = id /\ BucketStart(lg[k].at) >= c
                            THEN lg[k].tokens ELSE 0]

\* What the buckets bs hold from time c on.
BucketWeights(bs, c) ==
    [k \in 1 .. Len(bs) |-> IF bs[k].at >= c THEN bs[k].tokens ELSE 0]

Ordered(bs) == \A i, j \in 1 .. Len(bs) : i < j => bs[i].at < bs[j].at

\* The buckets of one identity stand for its charges: whatever part of the window one
\* looks at, the buckets hold at least what was charged there.
Held(bs, lg, id, t) ==
    /\ Ordered(bs)
    /\ \A k \in 1 .. Len(bs) : bs[k].at <= t
    /\ \A c \in Int :
          c >= t - Window => Total(LedgerWeights(lg, id, c)) <= Total(BucketWeights(bs, c))

\* What the identity of charge j was charged from `since` up to it: ChargedSince, of
\* any ledger.
SpentWeights(lg, since, j) ==
    [k \in 1 .. j |-> IF lg[k].id = lg[j].id /\ lg[k].at >= since
                      THEN lg[k].tokens ELSE 0]

LedgerCapped(lg) ==
    DailyLimit > 0 =>
        \A j \in 1 .. Len(lg) :
            Total(SpentWeights(lg, lg[j].at - (Window - Hour), j)) <= DailyLimit

\* Buckets and ledger of the same snapshot: in memory, waiting to be written, on disk.
Sound(bs, lg, t) ==
    /\ LedgerCapped(lg)
    /\ \A id \in Identities : Held(bs[id], lg, id, t)

BudgetIInv ==
    /\ now \in Nat
    /\ BudgetTypeOK
    /\ Sound(buckets, ledger, now)
    /\ Sound(file.buckets, file.ledger, now)
    /\ \A i \in 1 .. Len(writeQueue) :
          Sound(writeQueue[i].buckets, writeQueue[i].ledger, now)

----------------------------------------------------------------------------
LEMMA BudgetNumbers ==
    /\ Hour \in Nat \ {0} /\ Window \in Nat /\ Hour <= Window
    /\ DailyLimit \in Nat
<1>1. Hour \in Nat \ {0} /\ WindowHours \in Nat \ {0} /\ DailyLimit \in Nat
  BY TokenBudgetAssumption
<1>2. WindowHours * Hour \in Nat /\ Hour <= WindowHours * Hour
  BY <1>1
<1> QED
  BY <1>1, <1>2 DEF Window

\* A charge falls less than an hour after the start of its bucket.
LEMMA BucketStartFacts ==
    ASSUME NEW t \in Nat
    PROVE  /\ BucketStart(t) \in Nat /\ BucketStart(t) % Hour = 0
           /\ BucketStart(t) <= t /\ t < BucketStart(t) + Hour
<1> DEFINE q == t \div Hour
<1>1. Hour \in Nat \ {0}
  BY BudgetNumbers
<1>2. q \in Nat /\ q * Hour <= t /\ t < q * Hour + Hour
  BY <1>1
<1> HIDE DEF q
<1>3. q * Hour \in Nat /\ (q * Hour) % Hour = 0
  BY <1>1, <1>2
<1> QED
  BY <1>2, <1>3 DEF BucketStart, q

LEMMA BucketFacts ==
    ASSUME NEW b \in Bucket
    PROVE  b.at \in Nat /\ b.at % Hour = 0 /\ b.tokens \in Nat \ {0}
BY DEF Bucket

LEMMA ChargeFacts ==
    ASSUME NEW c \in ChargeRecord
    PROVE  c.id \in Identities /\ c.at \in Nat /\ c.tokens \in Nat \ {0}
BY DEF ChargeRecord

\* pruneOld's loop stops somewhere.
LEMMA PruneStops ==
    ASSUME NEW bs \in Seq(Bucket), NEW t \in Int
    PROVE  \E i \in 0 .. Len(bs) : KeptFrom(bs, i, t)
<1> DEFINE T == {i \in Nat : i <= Len(bs) /\ (i < Len(bs) => bs[i + 1].at >= t - Window)}
<1>1. T \in SUBSET Nat /\ Len(bs) \in T
  OBVIOUS
<1>2. PICK i \in T : \A m \in T : i <= m
  BY <1>1, LeastNatural
<1>3. ASSUME NEW j \in 1 .. i
      PROVE  bs[j].at < t - Window
  <2>1. j - 1 \in Nat /\ j - 1 < i /\ j - 1 < Len(bs) /\ j - 1 + 1 = j /\ j \in 1 .. Len(bs)
    BY <1>2
  <2>2. j - 1 \notin T
    BY <1>2, <2>1
  <2>3. ~(bs[j].at >= t - Window)
    BY <2>1, <2>2
  <2>4. bs[j].at \in Nat /\ t - Window \in Int
    BY <2>1, BudgetNumbers, BucketFacts
  <2> QED
    BY <2>3, <2>4
<1>4. i \in 0 .. Len(bs) /\ (i < Len(bs) => bs[i + 1].at >= t - Window)
  BY <1>2
<1> QED
  BY <1>3, <1>4 DEF KeptFrom

LEMMA LedgerWeightsType ==
    ASSUME NEW lg \in Seq(ChargeRecord), NEW id, NEW c
    PROVE  /\ LedgerWeights(lg, id, c) \in Seq(Nat)
           /\ Len(LedgerWeights(lg, id, c)) = Len(lg)
<1>1. \A k \in 1 .. Len(lg) : lg[k].tokens \in Nat
  BY ChargeFacts
<1> QED
  BY <1>1 DEF LedgerWeights

LEMMA BucketWeightsType ==
    ASSUME NEW bs \in Seq(Bucket), NEW c
    PROVE  /\ BucketWeights(bs, c) \in Seq(Nat)
           /\ Len(BucketWeights(bs, c)) = Len(bs)
<1>1. \A k \in 1 .. Len(bs) : bs[k].tokens \in Nat
  BY BucketFacts
<1> QED
  BY <1>1 DEF BucketWeights

LEMMA SpentWeightsType ==
    ASSUME NEW lg \in Seq(ChargeRecord), NEW since, NEW j \in 1 .. Len(lg)
    PROVE  /\ SpentWeights(lg, since, j) \in Seq(Nat)
           /\ Len(SpentWeights(lg, since, j)) = j
<1>1. \A k \in 1 .. j : lg[k].tokens \in Nat
  BY ChargeFacts
<1> QED
  BY <1>1 DEF SpentWeights

\* What TokensIn adds up.
LEMMA TokensInNat ==
    ASSUME NEW bs \in Seq(Bucket)
    PROVE  /\ [k \in DOMAIN bs |-> bs[k].tokens] \in Seq(Nat)
           /\ Len([k \in DOMAIN bs |-> bs[k].tokens]) = Len(bs)
           /\ TokensIn(bs) \in Nat
<1>1. \A k \in 1 .. Len(bs) : bs[k].tokens \in Nat
  BY BucketFacts
<1>2. /\ [k \in DOMAIN bs |-> bs[k].tokens] \in Seq(Nat)
      /\ Len([k \in DOMAIN bs |-> bs[k].tokens]) = Len(bs)
  BY <1>1
<1> QED
  BY <1>2, TotalNat DEF TokensIn

\* A part of the buckets holds no more than all of them.
LEMMA PartOfTokens ==
    ASSUME NEW bs \in Seq(Bucket), NEW c
    PROVE  Total(BucketWeights(bs, c)) <= TokensIn(bs)
<1> DEFINE v == BucketWeights(bs, c)
           w == [k \in DOMAIN bs |-> bs[k].tokens]
<1>1. v \in Seq(Nat) /\ w \in Seq(Nat) /\ Len(v) = Len(bs) /\ Len(w) = Len(bs)
  BY BucketWeightsType, TokensInNat
<1>2. \A k \in 1 .. Len(bs) : v[k] <= w[k]
  <2> TAKE k \in 1 .. Len(bs)
  <2>1. bs[k].tokens \in Nat
    BY BucketFacts
  <2> QED
    BY <2>1 DEF BucketWeights
<1> HIDE DEF v, w
<1>3. Total(v) <= Total(w)
  BY <1>1, <1>2, TotalMonotone
<1> QED
  BY <1>3 DEF v, w, TokensIn

\* Pruning drops nothing that is still in the window.
LEMMA PruneHeld ==
    ASSUME NEW bs \in Seq(Bucket), NEW lg \in Seq(ChargeRecord), NEW id,
           NEW t \in Nat, Held(bs, lg, id, t), NEW i, KeptFrom(bs, i, t)
    PROVE  From(bs, i) \in Seq(Bucket) /\ Held(From(bs, i), lg, id, t)
<1> DEFINE kept == From(bs, i)
           n == Len(bs)
<1>1. n \in Nat /\ i \in 0 .. n /\ \A j \in 1 .. i : bs[j].at < t - Window
  BY DEF KeptFrom
<1>2. kept \in Seq(Bucket) /\ Len(kept) = n - i /\ \A j \in 1 .. (n - i) : kept[j] = bs[i + j]
  BY <1>1, FromFacts
<1>3. /\ Ordered(bs) /\ \A k \in 1 .. n : bs[k].at <= t
      /\ \A c \in Int : c >= t - Window =>
            Total(LedgerWeights(lg, id, c)) <= Total(BucketWeights(bs, c))
  BY DEF Held
<1> HIDE DEF kept, n
<1>4. Ordered(kept)
  <2> SUFFICES ASSUME NEW a \in 1 .. Len(kept), NEW b \in 1 .. Len(kept), a < b
               PROVE  kept[a].at < kept[b].at
    BY DEF Ordered
  <2>1. i + a \in 1 .. n /\ i + b \in 1 .. n /\ i + a < i + b
    BY <1>1, <1>2
  <2>2. bs[i + a].at < bs[i + b].at
    BY <1>3, <2>1 DEF Ordered, n
  <2> QED
    BY <1>1, <1>2, <2>2
<1>5. \A k \in 1 .. Len(kept) : kept[k].at <= t
  <2> TAKE k \in 1 .. Len(kept)
  <2>1. i + k \in 1 .. n
    BY <1>1, <1>2
  <2> QED
    BY <1>1, <1>2, <1>3, <2>1
<1>6. ASSUME NEW c \in Int, c >= t - Window
      PROVE  Total(BucketWeights(kept, c)) = Total(BucketWeights(bs, c))
  <2> DEFINE w == BucketWeights(bs, c)
             u == SubSeq(w, 1, i)
             v == SubSeq(w, i + 1, Len(w))
  <2>1. w \in Seq(Nat) /\ Len(w) = n
    BY BucketWeightsType DEF n
  <2>2. u \in Seq(Nat) /\ v \in Seq(Nat) /\ Total(w) = Total(u) + Total(v)
    BY <1>1, <2>1, TotalSplit
  <2>3. ASSUME NEW k \in 1 .. i
        PROVE  w[k] = 0
    <3>1. k \in 1 .. Len(bs) /\ bs[k].at \in Nat /\ bs[k].at < t - Window /\ Window \in Nat
      BY <1>1, BucketFacts, BudgetNumbers DEF n
    <3>2. ~(bs[k].at >= c)
      BY <1>6, <3>1
    <3> QED
      BY <3>1, <3>2 DEF BucketWeights
  <2>4. Total(u) = 0
    <3>1. Len(u) = i /\ \A k \in 1 .. i : u[k] = w[k]
      <4>1. i \in 0 .. Len(w)
        BY <1>1, <2>1
      <4> HIDE DEF w
      <4> QED
        BY <2>1, <4>1
    <3> HIDE DEF u, w
    <3> QED
      BY <2>2, <2>3, <3>1, TotalZeros
  <2>5. v = BucketWeights(kept, c)
    <3>1. Len(v) = n - i /\ \A k \in 1 .. (n - i) : v[k] = w[i + k]
      <4>1. i \in 0 .. n /\ n \in Nat
        BY <1>1
      <4> HIDE DEF w, n
      <4> QED
        BY <2>1, <4>1
    <3>2. BucketWeights(kept, c) \in Seq(Nat) /\ Len(BucketWeights(kept, c)) = n - i
      BY <1>2, BucketWeightsType
    <3>3. ASSUME NEW k \in 1 .. (n - i)
          PROVE  w[i + k] = BucketWeights(kept, c)[k]
      <4>1. i + k \in 1 .. Len(bs) /\ kept[k] = bs[i + k] /\ k \in 1 .. Len(kept)
        BY <1>1, <1>2 DEF n
      <4> QED
        BY <4>1 DEF BucketWeights
    <3>4. v \in Seq(Nat)
      BY <2>2
    <3> HIDE DEF v, w
    <3> QED
      BY <1>1, <3>1, <3>2, <3>3, <3>4, SameSequence
  <2>6. Total(v) \in Nat
    BY <2>2, TotalNat
  <2>7. Total(w) = 0 + Total(v)
    BY <2>2, <2>4
  <2> HIDE DEF u, v
  <2>8. Total(w) = Total(v)
    BY <2>6, <2>7
  <2> QED
    BY <2>5, <2>8
<1>7. Held(kept, lg, id, t)
  BY <1>3, <1>4, <1>5, <1>6 DEF Held
<1> QED
  BY <1>2, <1>7 DEF kept

\* A charge adds itself to the ledger of its own identity, from its bucket on.
LEMMA LedgerAppend ==
    ASSUME NEW lg \in Seq(ChargeRecord), NEW r \in ChargeRecord, NEW id, NEW c
    PROVE  Total(LedgerWeights(Append(lg, r), id, c)) =
               Total(LedgerWeights(lg, id, c)) +
                   (IF r.id = id /\ BucketStart(r.at) >= c THEN r.tokens ELSE 0)
<1> DEFINE x == IF r.id = id /\ BucketStart(r.at) >= c THEN r.tokens ELSE 0
           v == LedgerWeights(lg, id, c)
           w == LedgerWeights(Append(lg, r), id, c)
<1>1. v \in Seq(Nat) /\ Len(v) = Len(lg) /\ x \in Nat
  BY LedgerWeightsType, ChargeFacts
<1>2. /\ Append(lg, r) \in Seq(ChargeRecord) /\ Len(Append(lg, r)) = Len(lg) + 1
      /\ Append(lg, r)[Len(lg) + 1] = r
      /\ \A k \in 1 .. Len(lg) : Append(lg, r)[k] = lg[k]
  OBVIOUS
<1>3. w \in Seq(Nat) /\ Len(w) = Len(lg) + 1
  BY <1>2, LedgerWeightsType
<1>4. w[Len(lg) + 1] = x
  BY <1>2 DEF LedgerWeights
<1>5. \A k \in 1 .. Len(lg) : w[k] = v[k]
  BY <1>2 DEF LedgerWeights
<1> HIDE DEF v, w, x
<1>6. w = Append(v, x)
  BY <1>1, <1>3, <1>4, <1>5
<1>7. Total(w) = Total(v) + x
  BY <1>1, <1>6, TotalAppend
<1> QED
  BY <1>7 DEF v, w, x

\* A new bucket adds itself, from its own hour on.
LEMMA BucketAppend ==
    ASSUME NEW bs \in Seq(Bucket), NEW b \in Bucket, NEW c
    PROVE  Total(BucketWeights(Append(bs, b), c)) =
               Total(BucketWeights(bs, c)) + (IF b.at >= c THEN b.tokens ELSE 0)
<1> DEFINE x == IF b.at >= c THEN b.tokens ELSE 0
           v == BucketWeights(bs, c)
           w == BucketWeights(Append(bs, b), c)
<1>1. v \in Seq(Nat) /\ Len(v) = Len(bs) /\ x \in Nat
  BY BucketWeightsType, BucketFacts
<1>2. /\ Append(bs, b) \in Seq(Bucket) /\ Len(Append(bs, b)) = Len(bs) + 1
      /\ Append(bs, b)[Len(bs) + 1] = b
      /\ \A k \in 1 .. Len(bs) : Append(bs, b)[k] = bs[k]
  OBVIOUS
<1>3. w \in Seq(Nat) /\ Len(w) = Len(bs) + 1
  BY <1>2, BucketWeightsType
<1>4. w[Len(bs) + 1] = x
  BY <1>2 DEF BucketWeights
<1>5. \A k \in 1 .. Len(bs) : w[k] = v[k]
  BY <1>2 DEF BucketWeights
<1> HIDE DEF v, w, x
<1>6. w = Append(v, x)
  BY <1>1, <1>3, <1>4, <1>5
<1>7. Total(w) = Total(v) + x
  BY <1>1, <1>6, TotalAppend
<1> QED
  BY <1>7 DEF v, w, x

\* More tokens in the last bucket add themselves, from its hour on.
LEMMA BucketFilled ==
    ASSUME NEW bs \in Seq(Bucket), bs # << >>, NEW more \in Nat \ {0}, NEW c,
           NEW fs \in Seq(Bucket), Len(fs) = Len(bs),
           \A k \in 1 .. (Len(bs) - 1) : fs[k] = bs[k],
           fs[Len(bs)].at = bs[Len(bs)].at,
           fs[Len(bs)].tokens = bs[Len(bs)].tokens + more
    PROVE  Total(BucketWeights(fs, c)) =
               Total(BucketWeights(bs, c)) + (IF bs[Len(bs)].at >= c THEN more ELSE 0)
<1> DEFINE n == Len(bs)
           v == BucketWeights(bs, c)
           w == BucketWeights(fs, c)
           x == IF bs[n].at >= c THEN more ELSE 0
<1>1. n \in Nat \ {0} /\ n \in 1 .. Len(bs) /\ n \in 1 .. Len(fs)
  OBVIOUS
<1>2. /\ v \in Seq(Nat) /\ Len(v) = n /\ w \in Seq(Nat) /\ Len(w) = n
      /\ x \in Nat /\ bs[n].tokens \in Nat
  BY <1>1, BucketWeightsType, BucketFacts
<1>3. \A k \in 1 .. (n - 1) : v[k] = w[k]
  <2> TAKE k \in 1 .. (n - 1)
  <2>1. k \in 1 .. Len(bs) /\ k \in 1 .. Len(fs) /\ fs[k] = bs[k]
    OBVIOUS
  <2> QED
    BY <2>1 DEF BucketWeights
<1>4. w[n] = v[n] + x
  <2>1. /\ w[n] = IF fs[n].at >= c THEN fs[n].tokens ELSE 0
        /\ v[n] = IF bs[n].at >= c THEN bs[n].tokens ELSE 0
    BY <1>1 DEF BucketWeights
  <2>2. fs[n].at = bs[n].at /\ fs[n].tokens = bs[n].tokens + more
    OBVIOUS
  <2> QED
    BY <1>2, <2>1, <2>2
<1> HIDE DEF v, w, x, n
<1>5. Total(w) + v[n] = Total(v) + w[n] /\ v[n] \in Nat
  <2>1. v # << >> /\ n \in 1 .. n /\ Len(v) = n /\ Len(v) = Len(w)
    BY <1>1, <1>2
  <2>2. \A k \in 1 .. (Len(v) - 1) : v[k] = w[k]
    BY <1>3, <2>1
  <2>3. Total(w) + v[Len(v)] = Total(v) + w[Len(v)]
    BY <1>2, <2>1, <2>2, TotalReplaceLast
  <2> QED
    BY <1>2, <2>1, <2>3
<1>6. Total(v) \in Nat /\ Total(w) \in Nat
  BY <1>2, TotalNat
<1>7. Total(w) = Total(v) + x
  <2> DEFINE a == v[n]
             p == Total(v)
             q == Total(w)
  <2>1. a \in Nat /\ p \in Nat /\ q \in Nat /\ x \in Nat /\ q + a = p + (a + x)
    BY <1>2, <1>4, <1>5, <1>6
  <2> HIDE DEF a, p, q
  <2>2. q = p + x
    BY <2>1
  <2> QED
    BY <2>2 DEF p, q
<1> QED
  BY <1>7 DEF v, w, x, n

\* A bucket that began no later than now began no later than the current one.
LEMMA CurrentIsLatest ==
    ASSUME NEW a \in Nat, a % Hour = 0, NEW t \in Nat, a <= t
    PROVE  a <= BucketStart(t)
<1> DEFINE p == a \div Hour
           q == t \div Hour
<1>1. Hour \in Nat \ {0}
  BY BudgetNumbers
<1>2. p \in Nat /\ q \in Nat /\ a = p * Hour
  BY <1>1
<1>3. a < BucketStart(t) + Hour /\ BucketStart(t) = q * Hour
  <2>1. t < BucketStart(t) + Hour /\ BucketStart(t) \in Nat
    BY BucketStartFacts
  <2> QED
    BY <1>1, <2>1 DEF BucketStart
<1> HIDE DEF p, q
<1>4. p * Hour < (q + 1) * Hour
  BY <1>1, <1>2, <1>3
<1>5. p < q + 1
  BY <1>1, <1>2, <1>4
<1>6. p * Hour <= q * Hour
  BY <1>1, <1>2, <1>5
<1> QED
  BY <1>2, <1>3, <1>6

\* record() puts a charge in the bucket of the current hour, with its ledger entry.
LEMMA RecordHeld ==
    ASSUME NEW kept \in Seq(Bucket), NEW lg \in Seq(ChargeRecord), NEW id \in Identities,
           now \in Nat, Held(kept, lg, id, now), NEW tokens \in Nat \ {0},
           NEW r \in ChargeRecord, r.id = id, r.at = now, r.tokens = tokens
    PROVE  /\ Record(kept, tokens) \in Seq(Bucket)
           /\ Held(Record(kept, tokens), Append(lg, r), id, now)
<1> DEFINE n == Len(kept)
           rec == Record(kept, tokens)
           start == BucketStart(now)
<1>1. /\ Ordered(kept) /\ \A k \in 1 .. n : kept[k].at <= now
      /\ \A c \in Int : c >= now - Window =>
            Total(LedgerWeights(lg, id, c)) <= Total(BucketWeights(kept, c))
  BY DEF Held
<1>2. start \in Nat /\ start % Hour = 0 /\ start <= now
  BY BucketStartFacts
<1>3. \A k \in 1 .. n : kept[k].at \in Nat /\ kept[k].at <= start
  <2> TAKE k \in 1 .. n
  <2>1. kept[k].at \in Nat /\ kept[k].at % Hour = 0 /\ kept[k].at <= now
    BY <1>1, BucketFacts
  <2> QED
    BY <2>1, CurrentIsLatest
<1>4. ASSUME NEW c \in Int
      PROVE  /\ Total(LedgerWeights(lg, id, c)) \in Nat
             /\ Total(BucketWeights(kept, c)) \in Nat
             /\ Total(LedgerWeights(Append(lg, r), id, c)) =
                    Total(LedgerWeights(lg, id, c)) + (IF start >= c THEN tokens ELSE 0)
  BY LedgerAppend, LedgerWeightsType, BucketWeightsType, TotalNat
<1> DEFINE Grew(c) == Total(BucketWeights(rec, c)) =
                          Total(BucketWeights(kept, c)) + (IF start >= c THEN tokens ELSE 0)
<1>5. /\ rec \in Seq(Bucket) /\ Ordered(rec)
      /\ \A k \in 1 .. Len(rec) : rec[k].at <= now
      /\ \A c \in Int : Grew(c)
  <2>1. CASE kept # << >> /\ Last(kept).at = start
    <3>1. n \in Nat \ {0} /\ kept[n].at = start /\ kept[n] \in Bucket
      BY <2>1 DEF Last
    <3> DEFINE b == [kept[n] EXCEPT !.tokens = @ + tokens]
    <3>2. rec = [kept EXCEPT ![n] = b]
      BY <2>1 DEF Record
    <3>3. b \in Bucket /\ b.at = kept[n].at /\ b.tokens = kept[n].tokens + tokens
      BY <3>1 DEF Bucket
    <3> HIDE DEF rec, b
    <3>4. /\ rec \in Seq(Bucket) /\ Len(rec) = n
          /\ \A k \in 1 .. (n - 1) : rec[k] = kept[k]
          /\ rec[n] = b
      BY <3>1, <3>2, <3>3
    <3>5. rec[n].at = kept[n].at /\ rec[n].tokens = kept[n].tokens + tokens
      BY <3>3, <3>4
    <3>6. \A k \in 1 .. n : rec[k].at = kept[k].at
      <4> TAKE k \in 1 .. n
      <4>1. k = n \/ k \in 1 .. (n - 1)
        BY <3>1
      <4> QED
        BY <3>4, <3>5, <4>1
    <3>7. ASSUME NEW c \in Int
          PROVE  Grew(c)
      <4>1. Total(BucketWeights(rec, c)) =
                Total(BucketWeights(kept, c)) + (IF kept[n].at >= c THEN tokens ELSE 0)
        BY <2>1, <3>4, <3>5, BucketFilled
      <4> QED
        BY <3>1, <4>1
    <3> QED
      BY <1>1, <3>4, <3>6, <3>7 DEF Ordered
  <2>2. CASE ~(kept # << >> /\ Last(kept).at = start)
    <3> DEFINE b == [at |-> start, tokens |-> tokens]
    <3>1. rec = Append(kept, b) /\ b \in Bucket /\ b.at = start /\ b.tokens = tokens
      BY <1>2, <2>2 DEF Record, Bucket
    <3> HIDE DEF rec, b, start
    <3>2. /\ rec \in Seq(Bucket) /\ Len(rec) = n + 1 /\ n \in Nat /\ rec[n + 1] = b
          /\ \A k \in 1 .. n : rec[k] = kept[k]
      BY <3>1
    <3>3. ASSUME NEW k \in 1 .. n
          PROVE  kept[k].at < start
      <4>1. n \in 1 .. n /\ Last(kept) = kept[n] /\ kept # << >>
        BY DEF Last
      <4>2. kept[n].at # start /\ kept[n].at <= start /\ kept[n].at \in Nat
        BY <1>3, <2>2, <4>1
      <4>3. k = n \/ kept[k].at < kept[n].at
        BY <1>1, <4>1 DEF Ordered
      <4> QED
        BY <1>2, <1>3, <4>1, <4>2, <4>3 DEF start
    <3>4. Ordered(rec)
      <4> SUFFICES ASSUME NEW i \in 1 .. (n + 1), NEW j \in 1 .. (n + 1), i < j
                   PROVE  rec[i].at < rec[j].at
        BY <3>2 DEF Ordered
      <4>1. i \in 1 .. n
        BY <3>2
      <4>2. CASE j \in 1 .. n
        BY <1>1, <3>2, <4>1, <4>2 DEF Ordered
      <4>3. CASE j = n + 1
        BY <3>1, <3>2, <3>3, <4>1, <4>3
      <4> QED
        BY <3>2, <4>2, <4>3
    <3>5. \A k \in 1 .. Len(rec) : rec[k].at <= now
      <4> TAKE k \in 1 .. Len(rec)
      <4>1. CASE k \in 1 .. n
        BY <1>1, <3>2, <4>1
      <4>2. CASE k = n + 1
        BY <1>2, <3>1, <3>2, <4>2 DEF start
      <4> QED
        BY <3>2, <4>1, <4>2
    <3>6. \A c \in Int : Grew(c)
      BY <3>1, BucketAppend
    <3> QED
      BY <3>2, <3>4, <3>5, <3>6
  <2> QED
    BY <2>1, <2>2
<1> HIDE DEF rec, start
<1>6. ASSUME NEW c \in Int, c >= now - Window
      PROVE  Total(LedgerWeights(Append(lg, r), id, c)) <= Total(BucketWeights(rec, c))
  <2>1. Total(LedgerWeights(lg, id, c)) <= Total(BucketWeights(kept, c))
    BY <1>1, <1>6
  <2> DEFINE x == IF start >= c THEN tokens ELSE 0
  <2>2. x \in Nat
    OBVIOUS
  <2>3. Total(BucketWeights(rec, c)) = Total(BucketWeights(kept, c)) + x
    BY <1>5
  <2>4. Total(LedgerWeights(Append(lg, r), id, c)) = Total(LedgerWeights(lg, id, c)) + x
    BY <1>4
  <2> HIDE DEF x
  <2> QED
    BY <1>4, <2>1, <2>2, <2>3, <2>4
<1>7. Held(rec, Append(lg, r), id, now)
  BY <1>5, <1>6 DEF Held
<1> QED
  BY <1>5, <1>7 DEF rec

\* A charge of one identity leaves the others as they were.
LEMMA OthersHeld ==
    ASSUME NEW bs \in Seq(Bucket), NEW lg \in Seq(ChargeRecord), NEW id, NEW t \in Nat,
           Held(bs, lg, id, t), NEW r \in ChargeRecord, r.id # id
    PROVE  Held(bs, Append(lg, r), id, t)
<1>1. ASSUME NEW c \in Int
      PROVE  Total(LedgerWeights(Append(lg, r), id, c)) = Total(LedgerWeights(lg, id, c))
  <2>1. Total(LedgerWeights(lg, id, c)) \in Nat
    BY LedgerWeightsType, TotalNat
  <2>2. Total(LedgerWeights(Append(lg, r), id, c)) = Total(LedgerWeights(lg, id, c)) + 0
    BY LedgerAppend
  <2> QED
    BY <2>1, <2>2
<1> QED
  BY <1>1 DEF Held

\* Later, less of the buckets matters.
LEMMA LaterSound ==
    ASSUME NEW bs, NEW lg, NEW t \in Nat, NEW u \in Nat, t <= u, Sound(bs, lg, t),
           bs \in [Identities -> Seq(Bucket)]
    PROVE  Sound(bs, lg, u)
<1> SUFFICES ASSUME NEW id \in Identities
             PROVE  Held(bs[id], lg, id, u)
  BY DEF Sound
<1>1. Held(bs[id], lg, id, t) /\ Window \in Nat
  BY BudgetNumbers DEF Sound
<1>2. \A k \in 1 .. Len(bs[id]) : bs[id][k].at <= u
  <2> TAKE k \in 1 .. Len(bs[id])
  <2>1. bs[id][k].at \in Nat /\ bs[id][k].at <= t
    BY <1>1, BucketFacts DEF Held
  <2> QED
    BY <2>1
<1>3. \A c \in Int : c >= u - Window => c >= t - Window
  BY <1>1
<1> QED
  BY <1>1, <1>2, <1>3 DEF Held

\* Nothing charged is nothing held.
LEMMA FreshSound ==
    ASSUME NEW t \in Nat
    PROVE  Sound([id \in Identities |-> << >>], << >>, t)
<1>1. LedgerCapped(<< >>)
  BY DEF LedgerCapped
<1>2. ASSUME NEW id \in Identities
      PROVE  Held(<< >>, << >>, id, t)
  <2>1. \A c \in Int : LedgerWeights(<< >>, id, c) = BucketWeights(<< >>, c)
    BY DEF LedgerWeights, BucketWeights
  <2>2. \A c \in Int : Total(BucketWeights(<< >>, c)) \in Nat
    <3>1. << >> \in Seq(Bucket)
      OBVIOUS
    <3> QED
      BY <3>1, BucketWeightsType, TotalNat
  <2> QED
    BY <2>1, <2>2 DEF Held, Ordered
<1> QED
  BY <1>1, <1>2 DEF Sound

\* A charge that check() admits keeps the cap: what its identity was charged within
\* an hour less than the window is in buckets that check() added up.
LEMMA ChargeCapped ==
    ASSUME NEW lg \in Seq(ChargeRecord), NEW r \in ChargeRecord, now \in Nat, r.at = now,
           LedgerCapped(lg), NEW kept \in Seq(Bucket), Held(kept, lg, r.id, now),
           ~Exceeds(kept, r.tokens)
    PROVE  LedgerCapped(Append(lg, r))
<1> DEFINE n == Len(lg)
           L == Append(lg, r)
           since(j) == L[j].at - (Window - Hour)
<1> SUFFICES ASSUME DailyLimit > 0, NEW j \in 1 .. (n + 1)
             PROVE  Total(SpentWeights(L, since(j), j)) <= DailyLimit
  <2>1. Len(L) = n + 1
    OBVIOUS
  <2> QED
    BY <2>1 DEF LedgerCapped
<1>1. /\ n \in Nat /\ L \in Seq(ChargeRecord) /\ Len(L) = n + 1 /\ L[n + 1] = r
      /\ \A k \in 1 .. n : L[k] = lg[k]
  OBVIOUS
<1> HIDE DEF L
<1>2. CASE j \in 1 .. n
  <2>1. SpentWeights(L, since(j), j) = SpentWeights(lg, lg[j].at - (Window - Hour), j)
    <3>1. \A k \in 1 .. j : L[k] = lg[k]
      BY <1>1, <1>2
    <3>2. L[j] = lg[j]
      BY <1>1, <1>2
    <3> QED
      BY <3>1, <3>2 DEF SpentWeights
  <2> QED
    BY <1>2, <2>1 DEF LedgerCapped
<1>3. CASE j = n + 1
  <2> DEFINE w == SpentWeights(L, since(j), j)
             u == SubSeq(w, 1, n)
             v == LedgerWeights(lg, r.id, now - Window)
  <2>1. w \in Seq(Nat) /\ Len(w) = n + 1
    BY <1>1, <1>3, SpentWeightsType
  <2>2. Window \in Nat /\ Hour \in Nat \ {0} /\ Hour <= Window /\ DailyLimit \in Nat
    BY BudgetNumbers
  <2>3. r.tokens \in Nat
    BY ChargeFacts
  <2>4. w[n + 1] = r.tokens
    <3>1. L[j].id = r.id /\ L[j].at = now /\ L[j] = r /\ now >= since(j)
      BY <1>1, <1>3, <2>2
    <3> QED
      BY <1>1, <1>3, <3>1 DEF SpentWeights
  <2>5. v \in Seq(Nat) /\ Len(v) = n
    BY LedgerWeightsType
  <2>6. \A k \in 1 .. n : w[k] <= v[k]
    <3> TAKE k \in 1 .. n
    <3>1. lg[k].at \in Nat /\ lg[k].tokens \in Nat /\ L[k] = lg[k] /\ L[j] = r
      BY <1>1, <1>3, ChargeFacts
    <3>2. BucketStart(lg[k].at) \in Nat /\ lg[k].at < BucketStart(lg[k].at) + Hour
      BY <3>1, BucketStartFacts
    <3>3. lg[k].at >= now - (Window - Hour) => BucketStart(lg[k].at) >= now - Window
      BY <2>2, <3>1, <3>2
    <3>4. w[k] = IF lg[k].id = r.id /\ lg[k].at >= now - (Window - Hour)
                 THEN lg[k].tokens ELSE 0
      BY <1>1, <1>3, <3>1 DEF SpentWeights
    <3>5. v[k] = IF lg[k].id = r.id /\ BucketStart(lg[k].at) >= now - Window
                 THEN lg[k].tokens ELSE 0
      BY DEF LedgerWeights
    <3> HIDE DEF w, v
    <3> QED
      BY <3>1, <3>3, <3>4, <3>5
  <2> HIDE DEF w, v
  <2>7. /\ u \in Seq(Nat) /\ Len(u) = n /\ \A k \in 1 .. n : u[k] = w[k]
    BY <1>1, <2>1
  <2> HIDE DEF u
  <2>8. Total(u) <= Total(v)
    BY <2>5, <2>6, <2>7, TotalMonotone
  <2>9. Total(w) = Total(u) + r.tokens
    <3> DEFINE x == Append(u, r.tokens)
    <3>1. x \in Seq(Nat) /\ Len(x) = n + 1 /\ x[n + 1] = r.tokens /\ \A k \in 1 .. n : x[k] = u[k]
      BY <1>1, <2>3, <2>7
    <3>2. Total(x) = Total(u) + r.tokens
      BY <2>3, <2>7, TotalAppend
    <3> HIDE DEF x
    <3>3. \A k \in 1 .. (n + 1) : x[k] = w[k]
      <4> TAKE k \in 1 .. (n + 1)
      <4>1. k \in 1 .. n \/ k = n + 1
        BY <1>1
      <4> QED
        BY <2>4, <2>7, <3>1, <4>1
    <3>4. x = w
      BY <2>1, <3>1, <3>3, SameSequence
    <3> QED
      BY <3>2, <3>4
  <2>10. Total(v) <= Total(BucketWeights(kept, now - Window))
    <3>1. now - Window \in Int /\ now - Window >= now - Window
      BY <2>2
    <3> QED
      BY <3>1 DEF Held, v
  <2>11. Total(BucketWeights(kept, now - Window)) <= TokensIn(kept)
    BY PartOfTokens
  <2>12. TokensIn(kept) + r.tokens <= DailyLimit
    <3>1. TokensIn(kept) \in Nat
      BY TokensInNat
    <3>2. ~(TokensIn(kept) + r.tokens > DailyLimit)
      BY DEF Exceeds
    <3> QED
      BY <2>2, <2>3, <3>1, <3>2
  <2>13. /\ Total(u) \in Nat /\ Total(v) \in Nat /\ TokensIn(kept) \in Nat
         /\ Total(BucketWeights(kept, now - Window)) \in Nat
    BY <2>5, <2>7, BucketWeightsType, TokensInNat, TotalNat
  <2>14. Total(w) <= DailyLimit
    BY <2>2, <2>3, <2>8, <2>9, <2>10, <2>11, <2>12, <2>13
  <2> QED
    BY <2>14 DEF w
<1> QED
  BY <1>1, <1>2, <1>3

----------------------------------------------------------------------------
\* Estimates are natural numbers.
LEMMA EstimateNat ==
    ASSUME NEW chars \in ResponseChars
    PROVE  EstimateTokens(chars) \in Nat
<1>1. chars \in Nat
  BY ToolCallAssumption
<1>2. chars * 105 + 400 - 1 \in Nat
  BY <1>1
<1> QED
  BY <1>2 DEF EstimateTokens, CeilDiv

\* One identity's buckets change and the rest stays.
LEMMA OneChanged ==
    ASSUME BudgetIInv, NEW id \in Identities, NEW bs \in Seq(Bucket),
           buckets' = [buckets EXCEPT ![id] = bs],
           Held(bs, ledger', id, now), LedgerCapped(ledger'), ledger' \in Seq(ChargeRecord),
           \A other \in Identities \ {id} : Held(buckets[other], ledger', other, now),
           flushTimer' \in BOOLEAN,
           UNCHANGED <<now, writeQueue, file, startedFresh, writeFailures>>
    PROVE  BudgetIInv'
<1>1. buckets \in [Identities -> Seq(Bucket)]
  BY DEF BudgetIInv, BudgetTypeOK
<1>2. /\ buckets' \in [Identities -> Seq(Bucket)] /\ buckets'[id] = bs
      /\ \A other \in Identities \ {id} : buckets'[other] = buckets[other]
  BY <1>1
<1>3. BudgetTypeOK'
  BY <1>2 DEF BudgetIInv, BudgetTypeOK
<1>4. Sound(buckets', ledger', now)
  <2>1. \A other \in Identities : Held(buckets'[other], ledger', other, now)
    BY <1>2
  <2> QED
    BY <2>1 DEF Sound
<1> QED
  BY <1>3, <1>4 DEF BudgetIInv

LEMMA ChargePreserves ==
    ASSUME BudgetIInv, NEW id \in Identities, NEW tokens \in Nat, Charge(id, tokens),
           UNCHANGED now
    PROVE  BudgetIInv'
<1>1. PICK i \in 0 .. Len(buckets[id]) :
          /\ KeptFrom(buckets[id], i, now)
          /\ ~Exceeds(From(buckets[id], i), tokens)
          /\ buckets' = [buckets EXCEPT ![id] = Record(From(buckets[id], i), tokens)]
  BY DEF Charge
<1> DEFINE kept == From(buckets[id], i)
<1>2. /\ now \in Nat /\ buckets[id] \in Seq(Bucket) /\ ledger \in Seq(ChargeRecord)
      /\ flushTimer \in BOOLEAN /\ LedgerCapped(ledger)
      /\ \A other \in Identities :
            /\ buckets[other] \in Seq(Bucket)
            /\ Held(buckets[other], ledger, other, now)
  BY DEF BudgetIInv, BudgetTypeOK, Sound
<1>3. kept \in Seq(Bucket) /\ Held(kept, ledger, id, now)
  BY <1>1, <1>2, PruneHeld
<1>4. UNCHANGED <<writeQueue, file, startedFresh, writeFailures>>
  BY DEF Charge
<1> HIDE DEF kept
<1>5. CASE tokens > 0
  <2> DEFINE r == [id |-> id, at |-> now, tokens |-> tokens]
  <2>1. r \in ChargeRecord /\ r.id = id /\ r.at = now /\ r.tokens = tokens
    BY <1>2, <1>5 DEF ChargeRecord
  <2>2. ledger' = Append(ledger, r) /\ flushTimer' = TRUE
    BY <1>5 DEF Charge, ScheduleFlush
  <2> HIDE DEF r
  <2>3. tokens \in Nat \ {0}
    BY <1>5
  <2>4. /\ Record(kept, tokens) \in Seq(Bucket)
        /\ Held(Record(kept, tokens), Append(ledger, r), id, now)
    BY <1>2, <1>3, <2>1, <2>3, RecordHeld
  <2>5. LedgerCapped(Append(ledger, r))
    BY <1>1, <1>2, <1>3, <2>1, ChargeCapped DEF kept
  <2>6. \A other \in Identities \ {id} : Held(buckets[other], Append(ledger, r), other, now)
    BY <1>2, <2>1, OthersHeld
  <2>7. ledger' \in Seq(ChargeRecord)
    BY <1>2, <2>1, <2>2
  <2> QED
    BY <1>1, <1>4, <2>2, <2>4, <2>5, <2>6, <2>7, OneChanged DEF kept
<1>6. CASE tokens = 0
  <2>1. Record(kept, tokens) = kept
    BY <1>6 DEF Record
  <2>2. UNCHANGED <<ledger, flushTimer>>
    BY <1>6 DEF Charge
  <2> QED
    BY <1>1, <1>2, <1>3, <1>4, <2>1, <2>2, OneChanged DEF kept
<1> QED
  BY <1>5, <1>6

LEMMA RefusePreserves ==
    ASSUME BudgetIInv, NEW id \in Identities, NEW tokens \in Nat, Refuse(id, tokens),
           UNCHANGED now
    PROVE  BudgetIInv'
<1>1. PICK i \in 0 .. Len(buckets[id]) :
          /\ KeptFrom(buckets[id], i, now)
          /\ buckets' = [buckets EXCEPT ![id] = From(buckets[id], i)]
  BY DEF Refuse
<1> DEFINE kept == From(buckets[id], i)
<1>2. /\ now \in Nat /\ buckets[id] \in Seq(Bucket) /\ ledger \in Seq(ChargeRecord)
      /\ flushTimer \in BOOLEAN /\ LedgerCapped(ledger)
      /\ \A other \in Identities : Held(buckets[other], ledger, other, now)
  BY DEF BudgetIInv, BudgetTypeOK, Sound
<1>3. kept \in Seq(Bucket) /\ Held(kept, ledger, id, now)
  BY <1>1, <1>2, PruneHeld
<1>4. UNCHANGED <<flushTimer, writeQueue, file, ledger, startedFresh, writeFailures>>
  BY DEF Refuse
<1> HIDE DEF kept
<1> QED
  BY <1>1, <1>2, <1>3, <1>4, OneChanged DEF kept

LEMMA EnqueuePreserves ==
    ASSUME BudgetIInv, NEW hook \in BOOLEAN, Enqueue(hook), flushTimer' \in BOOLEAN,
           UNCHANGED <<now, buckets, file, ledger, startedFresh, writeFailures>>
    PROVE  BudgetIInv'
<1> DEFINE q == [buckets |-> buckets, ledger |-> ledger, hook |-> hook]
           n == Len(writeQueue)
<1>1. writeQueue' = Append(writeQueue, q) /\ writeQueue \in Seq(QueuedWrite) /\ n \in Nat
  BY DEF Enqueue, BudgetIInv, BudgetTypeOK
<1>2. q \in QueuedWrite /\ q.buckets = buckets /\ q.ledger = ledger
  BY DEF BudgetIInv, BudgetTypeOK, QueuedWrite
<1> HIDE DEF q
<1>3. /\ writeQueue' \in Seq(QueuedWrite) /\ Len(writeQueue') = n + 1
      /\ writeQueue'[n + 1] = q /\ \A i \in 1 .. n : writeQueue'[i] = writeQueue[i]
  BY <1>1, <1>2
<1>4. BudgetTypeOK'
  BY <1>3 DEF BudgetIInv, BudgetTypeOK
<1>5. ASSUME NEW i \in 1 .. (n + 1)
      PROVE  Sound(writeQueue'[i].buckets, writeQueue'[i].ledger, now)
  <2>1. CASE i \in 1 .. n
    BY <1>3, <2>1 DEF BudgetIInv
  <2>2. CASE i = n + 1
    BY <1>2, <1>3, <2>2 DEF BudgetIInv
  <2> QED
    BY <1>1, <2>1, <2>2
<1>6. \A i \in 1 .. Len(writeQueue') : Sound(writeQueue'[i].buckets, writeQueue'[i].ledger, now)
  BY <1>3, <1>5
<1> QED
  BY <1>4, <1>6 DEF BudgetIInv

\* The queue loses its head, to the file or to a failure.
LEMMA DequeuePreserves ==
    ASSUME BudgetIInv, writeQueue # << >>, writeQueue' = Tail(writeQueue),
           \/ UNCHANGED file
           \/ file' = [buckets |-> Head(writeQueue).buckets, ledger |-> Head(writeQueue).ledger],
           writeFailures' \in 0 .. MaxWriteFailures,
           UNCHANGED <<now, buckets, flushTimer, ledger, startedFresh>>
    PROVE  BudgetIInv'
<1> DEFINE n == Len(writeQueue)
<1>1. writeQueue \in Seq(QueuedWrite) /\ n \in Nat \ {0} /\ Head(writeQueue) = writeQueue[1]
  BY DEF BudgetIInv, BudgetTypeOK
<1>2. /\ writeQueue' \in Seq(QueuedWrite) /\ Len(writeQueue') = n - 1
      /\ \A i \in 1 .. (n - 1) : writeQueue'[i] = writeQueue[i + 1]
  BY <1>1
<1>3. /\ Sound(file'.buckets, file'.ledger, now) /\ file' \in Snapshot
  <2>1. CASE UNCHANGED file
    BY <2>1 DEF BudgetIInv, BudgetTypeOK
  <2>2. CASE file' = [buckets |-> Head(writeQueue).buckets, ledger |-> Head(writeQueue).ledger]
    <3>1. 1 \in 1 .. n /\ writeQueue[1] \in QueuedWrite
      BY <1>1
    <3>2. Sound(writeQueue[1].buckets, writeQueue[1].ledger, now)
      BY <3>1 DEF BudgetIInv
    <3>3. writeQueue[1].buckets \in [Identities -> Seq(Bucket)] /\ writeQueue[1].ledger \in Seq(ChargeRecord)
      BY <3>1 DEF QueuedWrite
    <3> QED
      BY <1>1, <2>2, <3>2, <3>3 DEF Snapshot
  <2> QED
    BY <2>1, <2>2
<1>4. BudgetTypeOK'
  BY <1>2, <1>3 DEF BudgetIInv, BudgetTypeOK
<1>5. ASSUME NEW i \in 1 .. Len(writeQueue')
      PROVE  Sound(writeQueue'[i].buckets, writeQueue'[i].ledger, now)
  <2>1. i \in 1 .. (n - 1) /\ i + 1 \in 1 .. n
    BY <1>1, <1>2
  <2> QED
    BY <1>2, <2>1 DEF BudgetIInv
<1> QED
  BY <1>3, <1>4, <1>5 DEF BudgetIInv

LEMMA StopPreserves ==
    ASSUME BudgetIInv, BudgetStop, UNCHANGED now
    PROVE  BudgetIInv'
<1>1. /\ flushTimer' = FALSE /\ writeQueue' = << >>
      /\ UNCHANGED <<buckets, file, ledger, startedFresh, writeFailures>>
  BY DEF BudgetStop
<1>2. Len(writeQueue') = 0 /\ writeQueue' \in Seq(QueuedWrite)
  BY <1>1
<1>3. BudgetTypeOK'
  BY <1>1, <1>2 DEF BudgetIInv, BudgetTypeOK
<1> QED
  BY <1>1, <1>2, <1>3 DEF BudgetIInv

LEMMA BootstrapPreserves ==
    ASSUME BudgetIInv, NEW readable \in BOOLEAN, Bootstrap(readable), UNCHANGED now
    PROVE  BudgetIInv'
<1> DEFINE found == IF readable THEN file ELSE NoSnapshot
<1>1. /\ buckets' = [id \in Identities |-> Pruned(found.buckets[id], now)]
      /\ ledger' = found.ledger
      /\ startedFresh' \in BOOLEAN
      /\ UNCHANGED <<flushTimer, writeQueue, file, writeFailures>>
  BY DEF Bootstrap, BudgetIInv, BudgetTypeOK
<1>2. /\ found.buckets \in [Identities -> Seq(Bucket)] /\ found.ledger \in Seq(ChargeRecord)
      /\ now \in Nat /\ Sound(found.buckets, found.ledger, now)
  <2>1. CASE readable
    BY <2>1 DEF BudgetIInv, BudgetTypeOK, Snapshot
  <2>2. CASE ~readable
    BY <2>2, FreshSound DEF BudgetIInv, NoSnapshot
  <2> QED
    BY <2>1, <2>2
<1> HIDE DEF found
<1>3. ASSUME NEW id \in Identities
      PROVE  /\ Pruned(found.buckets[id], now) \in Seq(Bucket)
             /\ Held(Pruned(found.buckets[id], now), found.ledger, id, now)
  <2> DEFINE bs == found.buckets[id]
             i == CHOOSE i \in 0 .. Len(bs) : KeptFrom(bs, i, now)
  <2>1. bs \in Seq(Bucket) /\ Held(bs, found.ledger, id, now)
    BY <1>2 DEF Sound
  <2>2. KeptFrom(bs, i, now)
    <3>1. now \in Int
      BY <1>2
    <3>2. \E k \in 0 .. Len(bs) : KeptFrom(bs, k, now)
      BY <2>1, <3>1, PruneStops
    <3> QED
      BY <3>2
  <2>3. Pruned(bs, now) = From(bs, i)
    BY DEF Pruned
  <2> HIDE DEF bs, i
  <2>4. From(bs, i) \in Seq(Bucket) /\ Held(From(bs, i), found.ledger, id, now)
    BY <1>2, <2>1, <2>2, PruneHeld
  <2> QED
    BY <2>3, <2>4 DEF bs
<1>4. buckets' \in [Identities -> Seq(Bucket)]
  BY <1>1, <1>3
<1>5. Sound(buckets', ledger', now)
  BY <1>1, <1>2, <1>3 DEF Sound
<1>6. BudgetTypeOK'
  BY <1>1, <1>2, <1>4 DEF BudgetIInv, BudgetTypeOK
<1> QED
  BY <1>1, <1>5, <1>6 DEF BudgetIInv

LEMMA BudgetTickPreserves ==
    ASSUME BudgetIInv, Tick, UNCHANGED budgetVars
    PROVE  BudgetIInv'
<1>1. /\ UNCHANGED <<buckets, flushTimer, writeQueue, file, ledger, startedFresh, writeFailures>>
      /\ now \in Nat /\ now' = now + 1 /\ now' \in Nat /\ now <= now'
  BY DEF budgetVars, Tick, BudgetIInv
<1>2. BudgetTypeOK'
  BY <1>1 DEF BudgetIInv, BudgetTypeOK
<1>3. Sound(buckets, ledger, now')
  BY <1>1, LaterSound DEF BudgetIInv, BudgetTypeOK
<1>4. Sound(file.buckets, file.ledger, now')
  <2>1. file.buckets \in [Identities -> Seq(Bucket)]
    BY DEF BudgetIInv, BudgetTypeOK, Snapshot
  <2> QED
    BY <1>1, <2>1, LaterSound DEF BudgetIInv
<1>5. ASSUME NEW i \in 1 .. Len(writeQueue)
      PROVE  Sound(writeQueue[i].buckets, writeQueue[i].ledger, now')
  <2>1. writeQueue[i] \in QueuedWrite
    BY DEF BudgetIInv, BudgetTypeOK
  <2>2. writeQueue[i].buckets \in [Identities -> Seq(Bucket)]
    BY <2>1 DEF QueuedWrite
  <2> QED
    BY <1>1, <2>2, LaterSound DEF BudgetIInv
<1> QED
  BY <1>1, <1>2, <1>3, <1>4, <1>5 DEF BudgetIInv

\* Every step of the system keeps what buckets, queue and file stand for.
LEMMA BudgetStep == BudgetIInv /\ [Next]_vars => BudgetIInv'
<1> SUFFICES ASSUME BudgetIInv, [Next]_vars
             PROVE  BudgetIInv'
  OBVIOUS
<1>1. CASE Pass
  BY <1>1, BudgetTickPreserves DEF Pass
<1>2. ASSUME NEW id \in Identities, Respond(id)
      PROVE  BudgetIInv'
  <2>1. PICK chars \in ResponseChars :
            Charge(id, EstimateTokens(chars)) \/ Refuse(id, EstimateTokens(chars))
    BY <1>2 DEF Respond
  <2>2. EstimateTokens(chars) \in Nat /\ UNCHANGED now
    BY <1>2, EstimateNat DEF Respond
  <2> QED
    BY <2>1, <2>2, ChargePreserves, RefusePreserves
<1>3. CASE Flush
  <2>1. Enqueue(FALSE) /\ flushTimer' \in BOOLEAN
    BY <1>3 DEF Flush, TimerFires
  <2>2. UNCHANGED <<now, buckets, file, ledger, startedFresh, writeFailures>>
    BY <1>3 DEF Flush, TimerFires
  <2> QED
    BY <2>1, <2>2, EnqueuePreserves
<1>4. CASE RunHooks
  <2>1. Enqueue(TRUE) /\ UNCHANGED <<now, buckets, flushTimer, file, ledger, startedFresh, writeFailures>>
    BY <1>4 DEF RunHooks
  <2>2. flushTimer' \in BOOLEAN
    BY <2>1 DEF BudgetIInv, BudgetTypeOK
  <2> QED
    BY <2>1, <2>2, EnqueuePreserves
<1>5. CASE Write
  <2>1. WriteDone /\ UNCHANGED now
    BY <1>5 DEF Write
  <2>2. writeFailures' \in 0 .. MaxWriteFailures
    BY <2>1 DEF WriteDone, BudgetIInv, BudgetTypeOK
  <2>3. /\ writeQueue # << >> /\ writeQueue' = Tail(writeQueue)
        /\ file' = [buckets |-> Head(writeQueue).buckets, ledger |-> Head(writeQueue).ledger]
        /\ UNCHANGED <<now, buckets, flushTimer, ledger, startedFresh>>
    BY <2>1 DEF WriteDone
  <2> QED
    BY <2>2, <2>3, DequeuePreserves
<1>6. CASE WriteError
  <2>1. WriteFails /\ UNCHANGED now
    BY <1>6 DEF WriteError
  <2>2. writeFailures' \in 0 .. MaxWriteFailures
    BY <2>1, TokenBudgetAssumption DEF WriteFails, BudgetIInv, BudgetTypeOK
  <2>3. /\ writeQueue # << >> /\ writeQueue' = Tail(writeQueue) /\ UNCHANGED file
        /\ UNCHANGED <<now, buckets, flushTimer, ledger, startedFresh>>
    BY <2>1 DEF WriteFails
  <2> QED
    BY <2>2, <2>3, DequeuePreserves
<1>7. CASE Exit \/ Killed
  BY <1>7, StopPreserves DEF Exit, Killed
<1>8. CASE Start
  BY <1>8, BootstrapPreserves DEF Start
<1>9. ASSUME \/ \E id \in Identities : Admit(id) \/ TooMany(id) \/ Throw(id)
             \/ Terminate \/ UNCHANGED vars
      PROVE  BudgetIInv'
  <2>1. UNCHANGED <<now, budgetVars>>
    BY <1>9 DEF Admit, TooMany, Throw, Terminate, vars
  <2>2. UNCHANGED <<now, buckets, flushTimer, writeQueue, file, ledger, startedFresh, writeFailures>>
    BY <2>1 DEF budgetVars
  <2>3. BudgetTypeOK' <=> BudgetTypeOK
    BY <2>2 DEF BudgetTypeOK
  <2> QED
    BY <2>2, <2>3 DEF BudgetIInv
<1> QED
  BY <1>1, <1>2, <1>3, <1>4, <1>5, <1>6, <1>7, <1>8, <1>9 DEF Next

LEMMA BudgetInitHolds == Init => BudgetIInv
<1> SUFFICES ASSUME Init
             PROVE  BudgetIInv
  OBVIOUS
<1>1. /\ now = 0 /\ buckets = [id \in Identities |-> << >>] /\ ledger = << >>
      /\ file = [buckets |-> [id \in Identities |-> << >>], ledger |-> << >>]
      /\ writeQueue = << >> /\ flushTimer = FALSE /\ startedFresh = FALSE
      /\ writeFailures = 0
  BY DEF Init, BudgetInit, NoSnapshot
<1>2. Len(writeQueue) = 0 /\ now \in Nat /\ << >> \in Seq(Bucket) /\ << >> \in Seq(ChargeRecord)
  BY <1>1
<1>3. BudgetTypeOK
  <2>1. [id \in Identities |-> << >>] \in [Identities -> Seq(Bucket)]
    BY <1>2
  <2>2. file \in Snapshot
    BY <1>1, <1>2, <2>1 DEF Snapshot
  <2>3. writeQueue \in Seq(QueuedWrite) /\ writeFailures \in 0 .. MaxWriteFailures
    BY <1>1, TokenBudgetAssumption
  <2> QED
    BY <1>1, <1>2, <2>1, <2>2, <2>3 DEF BudgetTypeOK
<1> QED
  BY <1>1, <1>2, <1>3, FreshSound DEF BudgetIInv

LEMMA BudgetInvariant == Spec => []BudgetIInv
BY BudgetInitHolds, BudgetStep, PTL DEF Spec

\* The daily cap holds over every stretch of an hour less than the window, whatever
\* restarts, lost or failed snapshots and refusals come between the charges.
THEOREM BudgetCap == Spec => []BudgetCapHolds
<1>1. BudgetIInv => BudgetCapHolds
  <2> SUFFICES ASSUME BudgetIInv, DailyLimit > 0, NEW j \in 1 .. Len(ledger)
               PROVE  ChargedSince(ledger[j].at - (Window - Hour), j) <= DailyLimit
    BY DEF BudgetCapHolds
  <2>1. Total(SpentWeights(ledger, ledger[j].at - (Window - Hour), j)) <= DailyLimit
    BY DEF BudgetIInv, Sound, LedgerCapped
  <2> QED
    BY <2>1 DEF ChargedSince, SpentWeights
<1> QED
  BY <1>1, BudgetInvariant, PTL

----------------------------------------------------------------------------
RestTyped ==
    /\ LifeTypeOK
    /\ inflight \in [Identities -> 0 .. MaxInflight]
    /\ pledge \in Seq(ChargeRecord)

LEMMA RestStep == BudgetIInv /\ RestTyped /\ [Next]_vars => RestTyped'
<1> SUFFICES ASSUME BudgetIInv, RestTyped, [Next]_vars
             PROVE  RestTyped'
  OBVIOUS
<1>1. MaxInflight \in Nat /\ MaxExits \in Nat
  BY ToolCallAssumption, LifecycleAssumption
<1>2. LifeTypeOK'
  <2>1. phase \in Phases /\ exits \in 0 .. MaxExits
    BY DEF RestTyped, LifeTypeOK
  <2>2. CASE Terminate \/ RunHooks \/ Start
    BY <2>1, <2>2 DEF LifeTypeOK, Phases, Terminate, Signal, RunHooks, StartHooks, Start, Boot
  <2>3. CASE Exit \/ Killed
    <3>1. exits < MaxExits /\ exits' = exits + 1 /\ phase' = "down"
      BY <2>3 DEF Exit, ExitSettled, Killed, ExitUnsettled, EndProcess
    <3> QED
      BY <1>1, <2>1, <3>1 DEF LifeTypeOK, Phases
  <2>4. CASE \/ \E id \in Identities : Admit(id) \/ TooMany(id) \/ Respond(id) \/ Throw(id)
             \/ Pass \/ Flush \/ Write \/ WriteError \/ UNCHANGED vars
    <3>1. UNCHANGED lifeVars
      BY <2>4 DEF Admit, TooMany, Respond, Throw, Pass, Flush, Write, WriteError, vars
    <3> QED
      BY <2>1, <3>1 DEF lifeVars, LifeTypeOK
  <2> QED
    BY <2>2, <2>3, <2>4 DEF Next
<1>3. (inflight \in [Identities -> 0 .. MaxInflight])'
  <2>1. ASSUME NEW id \in Identities, Admit(id) \/ Respond(id) \/ Throw(id)
        PROVE  inflight' \in [Identities -> 0 .. MaxInflight]
    <3>1. inflight[id] \in 0 .. MaxInflight /\ inflight \in [Identities -> 0 .. MaxInflight]
      BY DEF RestTyped
    <3>2. CASE Admit(id)
      <4>1. inflight[id] + 1 \in 0 .. MaxInflight
        BY <1>1, <3>1, <3>2 DEF Admit
      <4> QED
        BY <3>1, <3>2, <4>1 DEF Admit
    <3>3. CASE Respond(id) \/ Throw(id)
      <4>1. inflight[id] - 1 \in 0 .. MaxInflight
        BY <1>1, <3>1, <3>3 DEF Respond, Throw
      <4> QED
        BY <3>1, <3>3, <4>1 DEF Respond, Throw
    <3> QED
      BY <2>1, <3>2, <3>3
  <2>2. CASE Exit \/ Killed
    <3>1. 0 \in 0 .. MaxInflight
      BY <1>1
    <3> QED
      BY <2>2, <3>1 DEF Exit, Killed
  <2>3. CASE \/ \E id \in Identities : TooMany(id)
             \/ Pass \/ Flush \/ Write \/ WriteError \/ Terminate \/ RunHooks \/ Start
             \/ UNCHANGED vars
    BY <2>3 DEF RestTyped, Pass, TooMany, Flush, Write, WriteError, Terminate, RunHooks,
                Start, vars, callVars
  <2> QED
    BY <2>1, <2>2, <2>3 DEF Next
<1>4. (pledge \in Seq(ChargeRecord))'
  <2>1. CASE RunHooks
    BY <2>1 DEF RunHooks, BudgetIInv, BudgetTypeOK
  <2>2. CASE WriteError \/ Killed \/ Start
    <3>1. pledge' = << >>
      BY <2>2 DEF WriteError, Killed, Start
    <3> QED
      BY <3>1
  <2>3. CASE \/ \E id \in Identities : Admit(id) \/ TooMany(id) \/ Respond(id) \/ Throw(id)
             \/ Pass \/ Flush \/ Write \/ Terminate \/ Exit \/ UNCHANGED vars
    BY <2>3 DEF RestTyped, Pass, Admit, TooMany, Respond, Throw, Flush, Write, Terminate,
                Exit, vars, callVars
  <2> QED
    BY <2>1, <2>2, <2>3 DEF Next
<1> QED
  BY <1>2, <1>3, <1>4 DEF RestTyped

LEMMA RestInvariant == Spec => []RestTyped
<1>1. Init => RestTyped
  <2> SUFFICES ASSUME Init
               PROVE  RestTyped
    OBVIOUS
  <2>1. 0 \in 0 .. MaxInflight /\ 0 \in 0 .. MaxExits
    BY ToolCallAssumption, LifecycleAssumption
  <2> QED
    BY <2>1 DEF Init, LifeInit, RestTyped, LifeTypeOK, Phases
<1> QED
  BY <1>1, RestStep, BudgetInvariant, PTL DEF Spec

\* Every variable of the tool-call pipeline keeps its type; in particular buckets
\* start on the hour and hold something, in memory, in the queue and on disk.
THEOREM QuotaTypes == Spec => []TypeOK
<1>1. RateIInv /\ BudgetIInv /\ RestTyped => TypeOK
  BY DEF RateIInv, BudgetIInv, RestTyped, TypeOK
<1> QED
  BY <1>1, QuotaImplementsLimiter, RateInvariant, BudgetInvariant, RestInvariant, PTL

----------------------------------------------------------------------------
\* What is needed of prefixes.
LEMMA PrefixFacts ==
    ASSUME NEW S
    PROVE  /\ \A s \in Seq(S) : IsPrefix(s, s) /\ IsPrefix(<< >>, s)
           /\ \A s \in Seq(S) : \A e \in S : IsPrefix(s, Append(s, e))
           /\ \A s, t, u \in Seq(S) : IsPrefix(s, t) /\ IsPrefix(t, u) => IsPrefix(s, u)
<1>1. ASSUME NEW s \in Seq(S), NEW t \in Seq(S)
      PROVE  IsPrefix(s, t) <=> Len(s) <= Len(t) /\ \A k \in 1 .. Len(s) : s[k] = t[k]
  <2> DEFINE a == SubSeq(s, 1, Len(s))
             b == SubSeq(t, 1, Len(s))
  <2>1. CASE Len(s) <= Len(t)
    <3>1. a \in Seq(S) /\ Len(a) = Len(s) /\ \A k \in 1 .. Len(s) : a[k] = s[k]
      OBVIOUS
    <3>2. b \in Seq(S) /\ Len(b) = Len(s) /\ \A k \in 1 .. Len(s) : b[k] = t[k]
      BY <2>1
    <3> HIDE DEF a, b
    <3>3. a = b <=> \A k \in 1 .. Len(s) : s[k] = t[k]
      <4>1. ASSUME \A k \in 1 .. Len(s) : s[k] = t[k]
            PROVE  a = b
        BY <3>1, <3>2, <4>1, SameSequence
      <4> QED
        BY <3>1, <3>2, <4>1
    <3> QED
      BY <2>1, <3>3 DEF IsPrefix, a, b
  <2> QED
    BY <2>1 DEF IsPrefix
<1>2. ASSUME NEW s \in Seq(S)
      PROVE  IsPrefix(s, s) /\ IsPrefix(<< >>, s)
  <2> DEFINE e == << >>
  <2>1. e \in Seq(S) /\ Len(e) = 0 /\ Len(s) \in Nat
    OBVIOUS
  <2> HIDE DEF e
  <2>2. IsPrefix(s, s)
    BY <1>1, <2>1
  <2>3. IsPrefix(e, s)
    <3>1. Len(e) <= Len(s) /\ \A k \in 1 .. Len(e) : e[k] = s[k]
      BY <2>1
    <3> QED
      BY <1>1, <2>1, <3>1
  <2> QED
    BY <2>2, <2>3 DEF e
<1>3. ASSUME NEW s \in Seq(S), NEW e \in S
      PROVE  IsPrefix(s, Append(s, e))
  <2>1. /\ Append(s, e) \in Seq(S) /\ Len(s) <= Len(Append(s, e))
        /\ \A k \in 1 .. Len(s) : s[k] = Append(s, e)[k]
    OBVIOUS
  <2> QED
    BY <1>1, <2>1
<1>4. ASSUME NEW s \in Seq(S), NEW t \in Seq(S), NEW u \in Seq(S),
             IsPrefix(s, t), IsPrefix(t, u)
      PROVE  IsPrefix(s, u)
  <2>1. /\ Len(s) <= Len(t) /\ \A k \in 1 .. Len(s) : s[k] = t[k]
        /\ Len(t) <= Len(u) /\ \A k \in 1 .. Len(t) : t[k] = u[k]
        /\ Len(s) \in Nat /\ Len(t) \in Nat /\ Len(u) \in Nat
    BY <1>1, <1>4
  <2>2. Len(s) <= Len(u) /\ \A k \in 1 .. Len(s) : s[k] = u[k]
    BY <2>1
  <2> QED
    BY <1>1, <2>2
<1> QED
  BY <1>2, <1>3, <1>4

\* The snapshots waiting to be written are in the order of what they hold: later ones
\* extend earlier ones, the memory extends all of them, and, once the process has read
\* the file, all of them extend it.
Chained ==
    /\ phase = "down" => writeQueue = << >>
    /\ \A i \in 1 .. Len(writeQueue) : IsPrefix(writeQueue[i].ledger, ledger)
    /\ \A i, j \in 1 .. Len(writeQueue) :
          i < j => IsPrefix(writeQueue[i].ledger, writeQueue[j].ledger)
    /\ startedFresh \/ phase = "down" \/
          /\ IsPrefix(file.ledger, ledger)
          /\ \A i \in 1 .. Len(writeQueue) : IsPrefix(file.ledger, writeQueue[i].ledger)

\* The charges the shutdown's flush took up are in its own write and in all later
\* ones, or they are on disk.
Pledged ==
    /\ phase = "down" => IsPrefix(pledge, file.ledger)
    /\ phase \in {"up", "draining"} => pledge = << >>
    /\ phase = "flushing" =>
          \/ pledge = << >>
          \/ /\ IsPrefix(pledge, file.ledger) /\ IsPrefix(pledge, ledger)
             /\ \A i \in 1 .. Len(writeQueue) : IsPrefix(pledge, writeQueue[i].ledger)
          \/ /\ IsPrefix(pledge, ledger)
             /\ \E h \in 1 .. Len(writeQueue) :
                   /\ writeQueue[h].hook
                   /\ \A i \in h .. Len(writeQueue) : IsPrefix(pledge, writeQueue[i].ledger)

LEMMA LedgerTypes ==
    ASSUME BudgetIInv
    PROVE  /\ ledger \in Seq(ChargeRecord) /\ file.ledger \in Seq(ChargeRecord)
           /\ writeQueue \in Seq(QueuedWrite)
           /\ \A i \in 1 .. Len(writeQueue) : writeQueue[i].ledger \in Seq(ChargeRecord)
<1>1. /\ ledger \in Seq(ChargeRecord) /\ file \in Snapshot /\ writeQueue \in Seq(QueuedWrite)
  BY DEF BudgetIInv, BudgetTypeOK
<1>2. file.ledger \in Seq(ChargeRecord)
  BY <1>1 DEF Snapshot
<1>3. ASSUME NEW i \in 1 .. Len(writeQueue)
      PROVE  writeQueue[i].ledger \in Seq(ChargeRecord)
  <2>1. writeQueue[i] \in QueuedWrite
    BY <1>1
  <2> QED
    BY <2>1 DEF QueuedWrite
<1> QED
  BY <1>1, <1>2, <1>3

\* A charge only extends the ledger.
LEMMA LedgerGrows ==
    ASSUME BudgetIInv, BudgetIInv', NEW id \in Identities, Respond(id)
    PROVE  /\ IsPrefix(ledger, ledger')
           /\ UNCHANGED <<writeQueue, file, startedFresh, phase, pledge>>
<1>1. PICK chars \in ResponseChars :
          Charge(id, EstimateTokens(chars)) \/ Refuse(id, EstimateTokens(chars))
  BY DEF Respond
<1>2. UNCHANGED <<writeQueue, file, startedFresh, phase, pledge>>
  BY <1>1 DEF Charge, Refuse, Respond, lifeVars
<1>0. ledger \in Seq(ChargeRecord)
  BY LedgerTypes
<1>3. ASSUME ledger' = ledger
      PROVE  IsPrefix(ledger, ledger')
  BY <1>0, <1>3, PrefixFacts
<1>4. ASSUME ledger' # ledger
      PROVE  IsPrefix(ledger, ledger')
  <2> DEFINE r == [id |-> id, at |-> now, tokens |-> EstimateTokens(chars)]
  <2>1. ledger' = Append(ledger, r) /\ EstimateTokens(chars) > 0
    BY <1>1, <1>4 DEF Charge, Refuse
  <2>2. r \in ChargeRecord
    <3>1. EstimateTokens(chars) \in Nat /\ now \in Nat
      BY EstimateNat DEF BudgetIInv
    <3>2. EstimateTokens(chars) \in Nat \ {0}
      BY <2>1, <3>1
    <3> QED
      BY <3>1, <3>2 DEF ChargeRecord
  <2> HIDE DEF r
  <2> QED
    BY <1>0, <2>1, <2>2, PrefixFacts
<1> QED
  BY <1>2, <1>3, <1>4

\* What flushNow appends to the queue.
LEMMA Enqueued ==
    ASSUME BudgetIInv, NEW hook \in BOOLEAN, Enqueue(hook)
    PROVE  LET n == Len(writeQueue) IN
           /\ n \in Nat /\ Len(writeQueue') = n + 1
           /\ \A i \in 1 .. n : writeQueue'[i] = writeQueue[i]
           /\ writeQueue'[n + 1].ledger = ledger /\ writeQueue'[n + 1].hook = hook
<1> DEFINE q == [buckets |-> buckets, ledger |-> ledger, hook |-> hook]
<1>1. writeQueue' = Append(writeQueue, q) /\ writeQueue \in Seq(QueuedWrite)
  BY LedgerTypes DEF Enqueue
<1>2. q.ledger = ledger /\ q.hook = hook
  OBVIOUS
<1> HIDE DEF q
<1> QED
  BY <1>1, <1>2

\* What a finished or failed write leaves of the queue.
LEMMA Dequeued ==
    ASSUME BudgetIInv, writeQueue # << >>, writeQueue' = Tail(writeQueue)
    PROVE  LET n == Len(writeQueue) IN
           /\ n \in Nat \ {0} /\ Len(writeQueue') = n - 1
           /\ \A i \in 1 .. (n - 1) : writeQueue'[i] = writeQueue[i + 1]
           /\ Head(writeQueue) = writeQueue[1]
BY LedgerTypes

LEMMA ChainedStep == BudgetIInv /\ BudgetIInv' /\ Chained /\ [Next]_vars => Chained'
<1> SUFFICES ASSUME BudgetIInv, BudgetIInv', Chained, [Next]_vars
             PROVE  Chained'
  OBVIOUS
<1> DEFINE n == Len(writeQueue)
<1>1. /\ ledger \in Seq(ChargeRecord) /\ ledger' \in Seq(ChargeRecord)
      /\ file.ledger \in Seq(ChargeRecord)
      /\ \A i \in 1 .. n : writeQueue[i].ledger \in Seq(ChargeRecord)
  BY LedgerTypes DEF BudgetIInv, BudgetTypeOK
<1>2. ASSUME NEW id \in Identities, Respond(id)
      PROVE  Chained'
  <2>1. /\ IsPrefix(ledger, ledger')
        /\ UNCHANGED <<writeQueue, file, startedFresh, phase, pledge>>
    BY <1>2, LedgerGrows
  <2>2. ASSUME NEW s \in Seq(ChargeRecord), IsPrefix(s, ledger)
        PROVE  IsPrefix(s, ledger')
    BY <1>1, <2>1, <2>2, PrefixFacts
  <2>3. \A i \in 1 .. n : IsPrefix(writeQueue[i].ledger, ledger')
    BY <1>1, <2>2 DEF Chained
  <2>4. startedFresh \/ phase = "down" \/ IsPrefix(file.ledger, ledger')
    BY <1>1, <2>2 DEF Chained
  <2> QED
    BY <2>1, <2>3, <2>4 DEF Chained
<1>3. CASE Flush \/ RunHooks
  <2>1. PICK hook \in BOOLEAN : Enqueue(hook)
    BY <1>3 DEF Flush, RunHooks, TimerFires
  <2>2. UNCHANGED <<file, ledger, startedFresh>> /\ phase # "down" /\ phase' # "down"
    BY <1>3 DEF Flush, RunHooks, TimerFires, StartHooks, Running, lifeVars
  <2>3. /\ n \in Nat /\ Len(writeQueue') = n + 1
        /\ \A i \in 1 .. n : writeQueue'[i] = writeQueue[i]
        /\ writeQueue'[n + 1].ledger = ledger
    BY <2>1, Enqueued
  <2>4. \A i \in 1 .. (n + 1) : i \in 1 .. n \/ i = n + 1
    BY <2>3
  <2>5. IsPrefix(ledger, ledger)
    BY <1>1, PrefixFacts
  <2>6. \A i \in 1 .. (n + 1) : IsPrefix(writeQueue'[i].ledger, ledger)
    BY <2>3, <2>4, <2>5 DEF Chained
  <2>7. ASSUME NEW i \in 1 .. (n + 1), NEW j \in 1 .. (n + 1), i < j
        PROVE  IsPrefix(writeQueue'[i].ledger, writeQueue'[j].ledger)
    <3>1. i \in 1 .. n
      BY <2>3, <2>7
    <3>2. CASE j \in 1 .. n
      BY <2>3, <2>7, <3>1, <3>2 DEF Chained
    <3>3. CASE j = n + 1
      BY <2>3, <3>1, <3>3 DEF Chained
    <3> QED
      BY <2>4, <3>2, <3>3
  <2>8. startedFresh \/ /\ IsPrefix(file.ledger, ledger)
                        /\ \A i \in 1 .. (n + 1) : IsPrefix(file.ledger, writeQueue'[i].ledger)
    BY <2>2, <2>3, <2>4 DEF Chained
  <2> QED
    BY <2>2, <2>3, <2>6, <2>7, <2>8 DEF Chained
<1>4. CASE Write \/ WriteError
  <2>1. /\ writeQueue # << >> /\ writeQueue' = Tail(writeQueue)
        /\ UNCHANGED <<ledger, startedFresh, phase>> /\ phase # "down"
        /\ file' = file \/ file'.ledger = Head(writeQueue).ledger
    BY <1>4 DEF Write, WriteError, WriteDone, WriteFails, lifeVars, Running
  <2>2. /\ n \in Nat \ {0} /\ Len(writeQueue') = n - 1
        /\ \A i \in 1 .. (n - 1) : writeQueue'[i] = writeQueue[i + 1]
        /\ Head(writeQueue) = writeQueue[1]
    BY <2>1, Dequeued
  <2>3. \A i \in 1 .. (n - 1) : i + 1 \in 1 .. n /\ 1 \in 1 .. n /\ 1 < i + 1
    BY <2>2
  <2>4. \A i \in 1 .. (n - 1) : IsPrefix(writeQueue'[i].ledger, ledger)
    BY <2>2, <2>3 DEF Chained
  <2>5. ASSUME NEW i \in 1 .. (n - 1), NEW j \in 1 .. (n - 1), i < j
        PROVE  IsPrefix(writeQueue'[i].ledger, writeQueue'[j].ledger)
    <3>1. i + 1 \in 1 .. n /\ j + 1 \in 1 .. n /\ i + 1 < j + 1
      BY <2>2, <2>5
    <3> QED
      BY <2>2, <3>1 DEF Chained
  <2>6. startedFresh \/ /\ IsPrefix(file'.ledger, ledger)
                        /\ \A i \in 1 .. (n - 1) : IsPrefix(file'.ledger, writeQueue'[i].ledger)
    <3>1. CASE file' = file
      BY <2>1, <2>2, <2>3, <3>1 DEF Chained
    <3>2. CASE file'.ledger = Head(writeQueue).ledger
      <4>1. 1 \in 1 .. n
        BY <2>2
      <4> QED
        BY <2>2, <2>3, <3>2, <4>1 DEF Chained
    <3> QED
      BY <2>1, <3>1, <3>2
  <2> QED
    BY <2>1, <2>2, <2>4, <2>5, <2>6 DEF Chained
<1>5. CASE Exit \/ Killed
  <2>1. writeQueue' = << >> /\ phase' = "down"
    BY <1>5 DEF Exit, Killed, BudgetStop, ExitSettled, ExitUnsettled, EndProcess
  <2>2. Len(writeQueue') = 0
    BY <2>1
  <2> QED
    BY <2>1, <2>2 DEF Chained
<1>6. CASE Start
  <2>1. PICK readable \in BOOLEAN : Bootstrap(readable)
    BY <1>6 DEF Start
  <2>2. phase = "down" /\ phase' = "up" /\ UNCHANGED <<writeQueue, file>>
    BY <1>6, <2>1 DEF Start, Boot, Bootstrap
  <2>3. writeQueue' = << >> /\ Len(writeQueue') = 0
    BY <2>2 DEF Chained
  <2>4. startedFresh' \/ ledger' = file.ledger
    BY <2>1 DEF Bootstrap
  <2>5. IsPrefix(file.ledger, file.ledger)
    BY <1>1, PrefixFacts
  <2> QED
    BY <2>2, <2>3, <2>4, <2>5 DEF Chained
<1>7. CASE \/ \E id \in Identities : Admit(id) \/ TooMany(id) \/ Throw(id)
           \/ Pass \/ Terminate \/ UNCHANGED vars
  <2>1. /\ UNCHANGED <<writeQueue, file, ledger, startedFresh>>
        /\ phase' = "down" <=> phase = "down"
    BY <1>7 DEF Admit, TooMany, Throw, Pass, Terminate, Signal, vars, lifeVars, budgetVars
  <2> QED
    BY <2>1 DEF Chained
<1> QED
  BY <1>2, <1>3, <1>4, <1>5, <1>6, <1>7 DEF Next

LEMMA ChainInvariant == Spec => []Chained
<1>1. Init => Chained
  <2> SUFFICES ASSUME Init
               PROVE  Chained
    OBVIOUS
  <2>1. /\ writeQueue = << >> /\ Len(writeQueue) = 0 /\ ledger = << >> /\ file.ledger = << >>
        /\ phase = "up"
    BY DEF Init, BudgetInit, NoSnapshot, LifeInit
  <2>2. << >> \in Seq(ChargeRecord)
    OBVIOUS
  <2>3. IsPrefix(file.ledger, ledger)
    BY <2>1, <2>2, PrefixFacts
  <2> QED
    BY <2>1, <2>3 DEF Chained
<1> QED
  BY <1>1, ChainedStep, BudgetInvariant, PTL DEF Spec

\* No write replaces the snapshot on disk by one that holds less, as long as every
\* process could read the snapshot it found.
THEOREM SnapshotsOnlyGrow == Spec => FileNeverGoesBack
<1>1. ASSUME BudgetIInv, Chained, [Next]_vars
      PROVE  startedFresh' \/ IsPrefix(file.ledger, file'.ledger)
  <2>1. file.ledger \in Seq(ChargeRecord)
    BY <1>1, LedgerTypes
  <2>2. CASE Write
    <3>1. /\ writeQueue # << >> /\ writeQueue' = Tail(writeQueue) /\ phase # "down"
          /\ file'.ledger = Head(writeQueue).ledger /\ UNCHANGED startedFresh
      BY <2>2 DEF Write, WriteDone, Running
    <3>2. Len(writeQueue) \in Nat \ {0} /\ Head(writeQueue) = writeQueue[1]
      BY <1>1, <3>1, Dequeued
    <3>3. 1 \in 1 .. Len(writeQueue)
      BY <3>2
    <3> QED
      BY <1>1, <3>1, <3>2, <3>3 DEF Chained
  <2>3. CASE ~Write
    <3>1. UNCHANGED file
      BY <1>1, <2>3 DEF Next, vars, budgetVars, Pass, Admit, TooMany, Respond, Charge, Refuse,
            Throw, Flush, TimerFires, WriteError, WriteFails, Terminate, RunHooks, Exit,
            Killed, BudgetStop, Start, Bootstrap
    <3> QED
      BY <2>1, <3>1, PrefixFacts
  <2> QED
    BY <2>2, <2>3
<1>2. BudgetIInv /\ Chained /\ [Next]_vars =>
          [startedFresh' \/ IsPrefix(file.ledger, file'.ledger)]_budgetVars
  BY <1>1
<1> QED
  BY <1>2, BudgetInvariant, ChainInvariant, PTL DEF Spec, FileNeverGoesBack

----------------------------------------------------------------------------
LEMMA PledgedStep ==
    BudgetIInv /\ BudgetIInv' /\ RestTyped /\ RestTyped' /\ Pledged /\ [Next]_vars => Pledged'
<1> SUFFICES ASSUME BudgetIInv, BudgetIInv', RestTyped, RestTyped', Pledged, [Next]_vars
             PROVE  Pledged'
  OBVIOUS
<1> DEFINE n == Len(writeQueue)
<1>1. /\ ledger \in Seq(ChargeRecord) /\ ledger' \in Seq(ChargeRecord)
      /\ pledge \in Seq(ChargeRecord) /\ file.ledger \in Seq(ChargeRecord)
      /\ file.ledger' \in Seq(ChargeRecord)
  BY LedgerTypes DEF BudgetIInv, BudgetTypeOK, RestTyped, Snapshot
<1>2. ASSUME NEW id \in Identities, Respond(id)
      PROVE  Pledged'
  <2>1. /\ IsPrefix(ledger, ledger')
        /\ UNCHANGED <<writeQueue, file, startedFresh, phase, pledge>>
    BY <1>2, LedgerGrows
  <2>2. IsPrefix(pledge, ledger) => IsPrefix(pledge, ledger')
    BY <1>1, <2>1, PrefixFacts
  <2> QED
    BY <2>1, <2>2 DEF Pledged
<1>3. CASE Flush
  <2>1. /\ Enqueue(FALSE) /\ UNCHANGED <<file, ledger, phase, pledge>> /\ phase # "down"
    BY <1>3 DEF Flush, TimerFires, Running, lifeVars, callVars
  <2>2. /\ n \in Nat /\ Len(writeQueue') = n + 1
        /\ \A i \in 1 .. n : writeQueue'[i] = writeQueue[i]
        /\ writeQueue'[n + 1].ledger = ledger
    BY <2>1, Enqueued
  <2>3. \A i \in 1 .. (n + 1) : i \in 1 .. n \/ i = n + 1
    BY <2>2
  <2>4. CASE phase # "flushing"
    BY <2>1, <2>4 DEF Pledged
  <2>5. CASE phase = "flushing" /\ pledge = << >>
    BY <2>1, <2>5 DEF Pledged
  <2>6. CASE phase = "flushing" /\ IsPrefix(pledge, file.ledger) /\ IsPrefix(pledge, ledger)
               /\ \A i \in 1 .. n : IsPrefix(pledge, writeQueue[i].ledger)
    <3>1. \A i \in 1 .. (n + 1) : IsPrefix(pledge, writeQueue'[i].ledger)
      BY <2>2, <2>3, <2>6
    <3> QED
      BY <2>1, <2>2, <2>6, <3>1 DEF Pledged
  <2>7. ASSUME phase = "flushing", IsPrefix(pledge, ledger), NEW h \in 1 .. n,
               writeQueue[h].hook, \A i \in h .. n : IsPrefix(pledge, writeQueue[i].ledger)
        PROVE  Pledged'
    <3>1. h \in 1 .. (n + 1) /\ writeQueue'[h].hook
      BY <2>2, <2>7
    <3>2. \A i \in h .. (n + 1) : i \in h .. n \/ i = n + 1
      BY <2>2
    <3>3. \A i \in h .. (n + 1) : IsPrefix(pledge, writeQueue'[i].ledger)
      BY <2>2, <2>7, <3>2
    <3> QED
      BY <2>1, <2>2, <2>7, <3>1, <3>3 DEF Pledged
  <2> QED
    BY <2>4, <2>5, <2>6, <2>7 DEF Pledged
<1>4. CASE RunHooks
  <2>1. /\ Enqueue(TRUE) /\ UNCHANGED <<file, ledger>> /\ pledge' = ledger
        /\ phase' = "flushing"
    BY <1>4 DEF RunHooks, StartHooks
  <2>2. /\ n \in Nat /\ Len(writeQueue') = n + 1
        /\ writeQueue'[n + 1].ledger = ledger /\ writeQueue'[n + 1].hook = TRUE
    BY <2>1, Enqueued
  <2>3. IsPrefix(ledger, ledger) /\ n + 1 \in 1 .. (n + 1)
    BY <1>1, <2>2, PrefixFacts
  <2>4. \A i \in (n + 1) .. (n + 1) : IsPrefix(ledger, writeQueue'[i].ledger)
    <3>1. \A i \in (n + 1) .. (n + 1) : i = n + 1
      BY <2>2
    <3> QED
      BY <2>2, <2>3, <3>1
  <2> QED
    BY <2>1, <2>2, <2>3, <2>4 DEF Pledged
<1>5. CASE Write
  <2>1. /\ writeQueue # << >> /\ writeQueue' = Tail(writeQueue)
        /\ UNCHANGED <<ledger, phase, pledge>> /\ phase # "down"
        /\ file'.ledger = Head(writeQueue).ledger
    BY <1>5 DEF Write, WriteDone, lifeVars, callVars, Running
  <2>2. /\ n \in Nat \ {0} /\ Len(writeQueue') = n - 1
        /\ \A i \in 1 .. (n - 1) : writeQueue'[i] = writeQueue[i + 1]
        /\ Head(writeQueue) = writeQueue[1]
    BY <2>1, Dequeued
  <2>3. CASE phase # "flushing"
    BY <2>1, <2>3 DEF Pledged
  <2>4. CASE phase = "flushing" /\ pledge = << >>
    BY <2>1, <2>4 DEF Pledged
  <2>5. ASSUME phase = "flushing", IsPrefix(pledge, ledger),
               \A i \in 1 .. n : IsPrefix(pledge, writeQueue[i].ledger)
        PROVE  Pledged'
    <3>1. \A i \in 1 .. (n - 1) : i + 1 \in 1 .. n
      BY <2>2
    <3>2. 1 \in 1 .. n
      BY <2>2
    <3>3. \A i \in 1 .. (n - 1) : IsPrefix(pledge, writeQueue'[i].ledger)
      BY <2>2, <2>5, <3>1
    <3> QED
      BY <2>1, <2>2, <2>5, <3>2, <3>3 DEF Pledged
  <2>6. ASSUME phase = "flushing", IsPrefix(pledge, ledger), NEW h \in 1 .. n,
               writeQueue[h].hook, \A i \in h .. n : IsPrefix(pledge, writeQueue[i].ledger)
        PROVE  Pledged'
    <3>1. CASE h = 1
      BY <2>5, <2>6, <3>1
    <3>2. CASE h # 1
      <4>1. h - 1 \in 1 .. (n - 1) /\ (h - 1) + 1 = h
        BY <2>2, <3>2
      <4>2. writeQueue'[h - 1].hook
        BY <2>2, <2>6, <4>1
      <4>3. \A i \in (h - 1) .. (n - 1) : i \in 1 .. (n - 1) /\ i + 1 \in h .. n
        BY <2>2, <3>2
      <4>4. \A i \in (h - 1) .. (n - 1) : IsPrefix(pledge, writeQueue'[i].ledger)
        BY <2>2, <2>6, <4>3
      <4> QED
        BY <2>1, <2>2, <2>6, <4>1, <4>2, <4>4 DEF Pledged
    <3> QED
      BY <3>1, <3>2
  <2> QED
    BY <2>3, <2>4, <2>5, <2>6 DEF Pledged
<1>6. CASE WriteError \/ Killed \/ Start
  <2>1. pledge' = << >>
    BY <1>6 DEF WriteError, Killed, Start
  <2>2. IsPrefix(<< >>, file'.ledger)
    BY <1>1, PrefixFacts
  <2> QED
    BY <2>1, <2>2 DEF Pledged
<1>7. CASE Exit
  <2>1. /\ \A i \in 1 .. n : ~writeQueue[i].hook
        /\ phase = "flushing" /\ phase' = "down" /\ UNCHANGED <<file, pledge>>
    BY <1>7 DEF Exit, HookSettled, ExitSettled, EndProcess, BudgetStop
  <2>2. IsPrefix(<< >>, file.ledger)
    BY <1>1, PrefixFacts
  <2>3. IsPrefix(pledge, file.ledger)
    BY <2>1, <2>2 DEF Pledged
  <2> QED
    BY <2>1, <2>3 DEF Pledged
<1>8. CASE Terminate
  <2>1. phase = "up" /\ phase' = "draining" /\ UNCHANGED pledge
    BY <1>8 DEF Terminate, Signal, callVars
  <2> QED
    BY <2>1 DEF Pledged
<1>9. CASE \/ \E id \in Identities : Admit(id) \/ TooMany(id) \/ Throw(id)
           \/ Pass \/ UNCHANGED vars
  <2>1. UNCHANGED <<writeQueue, file, ledger, phase, pledge>>
    BY <1>9 DEF Admit, TooMany, Throw, Pass, vars, lifeVars, budgetVars, callVars
  <2> QED
    BY <2>1 DEF Pledged
<1> QED
  BY <1>2, <1>3, <1>4, <1>5, <1>6, <1>7, <1>8, <1>9 DEF Next

\* A shutdown that ran its hooks to the end left every charge made before them in the
\* file: Pledged follows the flush through the write queue.
THEOREM CleanExits == Spec => []CleanExitKeepsCharges
<1>1. Init => Pledged
  BY DEF Init, LifeInit, Pledged
<1>2. Pledged => CleanExitKeepsCharges
  BY DEF Pledged, CleanExitKeepsCharges
<1> QED
  BY <1>1, <1>2, PledgedStep, BudgetInvariant, RestInvariant, PTL DEF Spec

----------------------------------------------------------------------------
LEMMA TokenWeights ==
    ASSUME NEW bs \in Seq(Bucket)
    PROVE  \E w \in Seq(Nat) : /\ Len(w) = Len(bs) /\ TokensIn(bs) = Total(w)
                               /\ \A k \in 1 .. Len(bs) : w[k] = bs[k].tokens
<1> DEFINE w == [k \in DOMAIN bs |-> bs[k].tokens]
<1>1. \A k \in 1 .. Len(bs) : w[k] = bs[k].tokens
  OBVIOUS
<1>2. w \in Seq(Nat) /\ Len(w) = Len(bs) /\ TokensIn(bs) = Total(w)
  BY TokensInNat DEF TokensIn
<1> QED
  BY <1>1, <1>2

LEMMA TokensSplit ==
    ASSUME NEW bs \in Seq(Bucket), NEW i \in 0 .. Len(bs)
    PROVE  TokensIn(bs) = TokensIn(SubSeq(bs, 1, i)) + TokensIn(From(bs, i))
<1> DEFINE n == Len(bs)
           u == SubSeq(bs, 1, i)
           v == From(bs, i)
<1>1. /\ n \in Nat /\ i \in 0 .. n /\ u \in Seq(Bucket) /\ Len(u) = i
      /\ \A k \in 1 .. i : u[k] = bs[k]
  OBVIOUS
<1>2. v \in Seq(Bucket) /\ Len(v) = n - i /\ \A k \in 1 .. (n - i) : v[k] = bs[i + k]
  BY FromFacts
<1>3. PICK w \in Seq(Nat) : /\ Len(w) = n /\ TokensIn(bs) = Total(w)
                            /\ \A k \in 1 .. n : w[k] = bs[k].tokens
  BY TokenWeights
<1> HIDE DEF u, v
<1>4. PICK wu \in Seq(Nat) : /\ Len(wu) = i /\ TokensIn(u) = Total(wu)
                             /\ \A k \in 1 .. i : wu[k] = u[k].tokens
  BY <1>1, TokenWeights
<1>5. PICK wv \in Seq(Nat) : /\ Len(wv) = n - i /\ TokensIn(v) = Total(wv)
                             /\ \A k \in 1 .. (n - i) : wv[k] = v[k].tokens
  BY <1>2, TokenWeights
<1> DEFINE x == SubSeq(w, 1, i)
           y == SubSeq(w, i + 1, Len(w))
<1>6. x \in Seq(Nat) /\ y \in Seq(Nat) /\ Total(w) = Total(x) + Total(y)
  BY <1>1, <1>3, TotalSplit
<1>7. /\ Len(x) = i /\ Len(y) = n - i
      /\ \A k \in 1 .. i : x[k] = w[k]
      /\ \A k \in 1 .. (n - i) : y[k] = w[i + k]
  BY <1>1, <1>3
<1> HIDE DEF x, y, n
<1>8. ASSUME NEW k \in 1 .. i
      PROVE  x[k] = wu[k]
  <2>1. k \in 1 .. n
    BY <1>1
  <2> QED
    BY <1>1, <1>3, <1>4, <1>7, <2>1
<1>9. ASSUME NEW k \in 1 .. (n - i)
      PROVE  y[k] = wv[k]
  <2>1. i + k \in 1 .. n
    BY <1>1
  <2>2. y[k] = w[i + k] /\ w[i + k] = bs[i + k].tokens
    BY <1>3, <1>7, <2>1
  <2>3. wv[k] = v[k].tokens /\ v[k] = bs[i + k]
    BY <1>2, <1>5
  <2> QED
    BY <2>2, <2>3
<1>10. x = wu
  BY <1>4, <1>6, <1>7, <1>8, SameSequence
<1>11. y = wv
  BY <1>5, <1>6, <1>7, <1>9, SameSequence
<1> QED
  BY <1>3, <1>4, <1>5, <1>6, <1>10, <1>11 DEF u, v

\* The wait reaches past the end of the buckets that hold the tokens needed.
LEMMA HeadroomFacts ==
    ASSUME NEW kept \in Seq(Bucket), NEW needed \in Nat \ {0}, needed <= TokensIn(kept)
    PROVE  \E last \in 1 .. Len(kept) :
              /\ TokensIn(SubSeq(kept, 1, last)) >= needed
              /\ Headroom(kept, needed) = kept[last].at + Window - now
<1> DEFINE enough == {k \in 1 .. Len(kept) : TokensIn(SubSeq(kept, 1, k)) >= needed}
           last == CHOOSE k \in enough : \A m \in enough : k <= m
<1>1. kept # << >>
  <2>1. Len(kept) = 0 => TokensIn(kept) = 0
    <3> DEFINE w == [k \in DOMAIN kept |-> kept[k].tokens]
    <3>1. w \in Seq(Nat) /\ Len(w) = Len(kept)
      BY TokensInNat
    <3>2. Len(w) = 0 => \A k \in 1 .. Len(w) : w[k] = 0
      OBVIOUS
    <3> HIDE DEF w
    <3>3. Len(w) = 0 => Total(w) = 0
      BY <3>1, <3>2, TotalZeros
    <3> QED
      BY <3>1, <3>3 DEF TokensIn, w
  <2>2. TokensIn(kept) \in Nat
    BY TokensInNat
  <2> QED
    BY <2>1, <2>2
<1>2. Len(kept) \in 1 .. Len(kept) /\ SubSeq(kept, 1, Len(kept)) = kept
  <2>1. Len(kept) \in 1 .. Len(kept)
    BY <1>1
  <2> DEFINE s == SubSeq(kept, 1, Len(kept))
  <2>2. s \in Seq(Bucket) /\ Len(s) = Len(kept) /\ \A k \in 1 .. Len(s) : s[k] = kept[k]
    BY <2>1
  <2> HIDE DEF s
  <2>3. s = kept
    BY <2>2, SameSequence
  <2> QED
    BY <2>1, <2>3 DEF s
<1>3. Len(kept) \in enough /\ enough \in SUBSET Nat
  <2>1. TokensIn(kept) >= needed
    <3>1. TokensIn(kept) \in Nat
      BY TokensInNat
    <3> QED
      BY <3>1
  <2>2. TokensIn(SubSeq(kept, 1, Len(kept))) >= needed
    BY <1>2, <2>1
  <2> QED
    BY <1>2, <2>2
<1>4. \E k \in enough : \A m \in enough : k <= m
  BY <1>3, LeastNatural
<1>5. last \in enough
  BY <1>4
<1>6. Headroom(kept, needed) = kept[last].at + Window - now
  BY <1>1, <1>3 DEF Headroom
<1> QED
  BY <1>5, <1>6

\* A response the budget refused fits after the wait it was told, and one tick: the
\* buckets that hold the tokens needed have left the window by then.
THEOREM BudgetRetry == Spec => []BudgetRetrySuffices
<1>1. ASSUME BudgetIInv, NEW id \in Identities, NEW chars \in ResponseChars,
             NEW i, NEW k, EstimateTokens(chars) <= DailyLimit,
             KeptFrom(buckets[id], i, now),
             Exceeds(From(buckets[id], i), EstimateTokens(chars)),
             KeptFrom(buckets[id], k,
                      now + BudgetRetrySeconds(From(buckets[id], i), EstimateTokens(chars))
                                * TicksPerSecond + 1)
      PROVE  ~Exceeds(From(buckets[id], k), EstimateTokens(chars))
  <2> DEFINE bs     == buckets[id]
             n      == Len(bs)
             tokens == EstimateTokens(chars)
             kept   == From(bs, i)
             needed == TokensIn(kept) + tokens - DailyLimit
             wait   == WaitSeconds(Headroom(kept, needed)) * TicksPerSecond
             back   == now + wait + 1
             rest   == From(bs, k)
  <2>1. /\ bs \in Seq(Bucket) /\ now \in Nat /\ Ordered(bs)
        /\ Window \in Nat /\ DailyLimit \in Nat
    BY <1>1, BudgetNumbers DEF BudgetIInv, BudgetTypeOK, Sound, Held
  <2>2. tokens \in Nat
    BY EstimateNat
  <2>3. i \in 0 .. n /\ k \in 0 .. n /\ n \in Nat
    BY <1>1, <2>1 DEF KeptFrom
  <2>4. k < n => bs[k + 1].at >= back - Window
    BY <1>1 DEF KeptFrom, BudgetRetrySeconds
  <2>5. kept \in Seq(Bucket) /\ Len(kept) = n - i /\ \A j \in 1 .. (n - i) : kept[j] = bs[i + j]
    BY <2>1, <2>3, FromFacts
  <2>6. rest \in Seq(Bucket) /\ Len(rest) = n - k /\ \A j \in 1 .. (n - k) : rest[j] = bs[k + j]
    BY <2>1, <2>3, FromFacts
  <2>7. TokensIn(kept) \in Nat /\ TokensIn(kept) + tokens > DailyLimit /\ tokens <= DailyLimit
    BY <1>1, <2>5, TokensInNat DEF Exceeds
  <2> HIDE DEF bs, n, tokens, kept, rest
  <2>8. needed \in Nat \ {0} /\ needed <= TokensIn(kept)
    BY <2>1, <2>2, <2>7
  <2>9. PICK last \in 1 .. (n - i) :
            /\ TokensIn(SubSeq(kept, 1, last)) >= needed
            /\ Headroom(kept, needed) = kept[last].at + Window - now
    BY <2>5, <2>8, HeadroomFacts
  <2>10. i + last \in 1 .. n /\ kept[last] = bs[i + last] /\ bs[i + last].at \in Nat
    <3>1. i + last \in 1 .. n
      BY <2>3
    <3>2. bs[i + last] \in Bucket
      BY <2>1, <3>1 DEF n
    <3> QED
      BY <2>5, <3>1, <3>2, BucketFacts
  <2>11. wait \in Int /\ wait >= bs[i + last].at + Window - now
    <3>1. bs[i + last].at + Window - now \in Int
      BY <2>1, <2>10
    <3>2. TicksPerSecond \in Nat
      BY ClockAssumption
    <3> DEFINE d == bs[i + last].at + Window - now
               s == WaitSeconds(d)
    <3> HIDE DEF d
    <3>3. s \in Nat /\ s * TicksPerSecond >= d
      BY <3>1, WaitIsLongEnough DEF d
    <3>4. wait = s * TicksPerSecond
      BY <2>9, <2>10 DEF d
    <3> HIDE DEF s
    <3>5. s * TicksPerSecond \in Int
      BY <3>2, <3>3
    <3> HIDE DEF wait
    <3> QED
      BY <3>3, <3>4, <3>5 DEF d
  <2> HIDE DEF needed, wait
  <2>12. k >= i + last
    <3> SUFFICES ASSUME k < i + last
                 PROVE  FALSE
      BY <2>3, <2>10
    <3>1. k < n /\ k + 1 \in 1 .. n /\ (k + 1 < i + last \/ k + 1 = i + last)
      BY <2>3, <2>10
    <3>2. bs[k + 1].at \in Nat
      <4>1. bs[k + 1] \in Bucket
        BY <2>1, <3>1 DEF n
      <4> QED
        BY <4>1, BucketFacts
    <3>3. bs[k + 1].at <= bs[i + last].at
      <4>1. k + 1 < i + last => bs[k + 1].at < bs[i + last].at
        BY <2>1, <2>10, <3>1 DEF Ordered, n
      <4> QED
        BY <2>10, <3>1, <3>2, <4>1
    <3>4. bs[k + 1].at >= back - Window
      BY <2>4, <3>1
    <3> QED
      BY <2>1, <2>10, <2>11, <3>2, <3>3, <3>4
  <2> DEFINE r == From(kept, last)
             g == k - (i + last)
             z == From(r, g)
  <2>13. r \in Seq(Bucket) /\ Len(r) = n - i - last /\ \A j \in 1 .. (n - i - last) : r[j] = kept[last + j]
    <3>1. last \in 0 .. Len(kept) /\ Len(kept) - last = n - i - last
      BY <2>3, <2>5
    <3> HIDE DEF r
    <3>2. /\ r \in Seq(Bucket) /\ Len(r) = Len(kept) - last
          /\ \A j \in 1 .. (Len(kept) - last) : r[j] = kept[last + j]
      BY <2>5, <3>1, FromFacts DEF r
    <3> QED
      BY <3>1, <3>2
  <2>14. g \in 0 .. (n - i - last) /\ n - i - last - g = n - k
    BY <2>3, <2>12
  <2> HIDE DEF r, g
  <2>15. /\ z \in Seq(Bucket) /\ Len(z) = n - k
         /\ \A j \in 1 .. (n - k) : z[j] = r[g + j]
    <3>1. g \in 0 .. Len(r) /\ Len(r) - g = n - k
      BY <2>13, <2>14
    <3>2. /\ z \in Seq(Bucket) /\ Len(z) = Len(r) - g
          /\ \A j \in 1 .. (Len(r) - g) : z[j] = r[g + j]
      BY <2>13, <3>1, FromFacts
    <3> HIDE DEF z
    <3> QED
      BY <3>1, <3>2
  <2> HIDE DEF z
  <2>16. z = rest
    <3>1. ASSUME NEW j \in 1 .. (n - k)
          PROVE  z[j] = rest[j]
      <4>1. /\ g + j \in 1 .. (n - i - last) /\ last + (g + j) \in 1 .. (n - i)
            /\ i + (last + (g + j)) = k + j
        BY <2>3, <2>12 DEF g
      <4>2. z[j] = r[g + j] /\ r[g + j] = kept[last + (g + j)]
        BY <2>13, <2>15, <4>1
      <4>3. kept[last + (g + j)] = bs[k + j]
        BY <2>5, <4>1
      <4> QED
        BY <2>6, <4>2, <4>3
    <3> QED
      BY <2>6, <2>15, <3>1, SameSequence
  <2>17. TokensIn(kept) = TokensIn(SubSeq(kept, 1, last)) + TokensIn(r)
    <3>1. last \in 0 .. Len(kept)
      BY <2>5
    <3> QED
      BY <2>5, <3>1, TokensSplit DEF r
  <2>18. TokensIn(r) = TokensIn(SubSeq(r, 1, g)) + TokensIn(rest)
    <3>1. g \in 0 .. Len(r)
      BY <2>13, <2>14
    <3> QED
      BY <2>13, <2>16, <3>1, TokensSplit DEF z
  <2>19. /\ TokensIn(SubSeq(kept, 1, last)) \in Nat /\ TokensIn(SubSeq(r, 1, g)) \in Nat
         /\ TokensIn(r) \in Nat /\ TokensIn(rest) \in Nat
    <3>1. SubSeq(kept, 1, last) \in Seq(Bucket) /\ SubSeq(r, 1, g) \in Seq(Bucket)
      <4>1. last \in 0 .. Len(kept) /\ g \in 0 .. Len(r)
        BY <2>5, <2>13, <2>14
      <4>2. \A s \in Seq(Bucket) : \A j \in 0 .. Len(s) : SubSeq(s, 1, j) \in Seq(Bucket)
        OBVIOUS
      <4> QED
        BY <2>5, <2>13, <4>1, <4>2
    <3> QED
      BY <2>6, <2>13, <3>1, TokensInNat
  <2>20. TokensIn(rest) + tokens <= DailyLimit
    <3> DEFINE a == TokensIn(SubSeq(kept, 1, last))
               b == TokensIn(SubSeq(r, 1, g))
               c == TokensIn(rest)
               d == TokensIn(kept)
    <3>1. /\ a \in Nat /\ b \in Nat /\ c \in Nat /\ d \in Nat /\ d = a + (b + c)
          /\ a >= d + tokens - DailyLimit
      BY <2>7, <2>9, <2>17, <2>18, <2>19 DEF needed
    <3> HIDE DEF a, b, c, d
    <3>2. c + tokens <= DailyLimit
      BY <2>1, <2>2, <3>1
    <3> QED
      BY <3>2 DEF c
  <2>21. ~(TokensIn(rest) + tokens > DailyLimit)
    BY <2>1, <2>2, <2>19, <2>20
  <2> QED
    BY <2>21 DEF Exceeds, rest, tokens, bs
<1>2. BudgetIInv => BudgetRetrySuffices
  BY <1>1 DEF BudgetRetrySuffices
<1> QED
  BY <1>2, BudgetInvariant, PTL
=============================================================================
