-------------------------- MODULE Background_proofs --------------------------
(***************************************************************************)
(* What is proved of the parts of Background, for every value of its       *)
(* constants.                                                              *)
(***************************************************************************)
EXTENDS Background, FoldLemmas, FiniteSetTheorems

----------------------------------------------------------------------------
\* The heartbeat of one connection.  An open one was last heard of when lastPongAt says,
\* its next ping is due within one interval of that, or, while a ping is unanswered,
\* within one interval after the timeout; what is closing under a running heartbeat was
\* closed by it; and only a transport that was closed has told its end.
SocketIInv ==
    /\ wNow \in Nat /\ heard \in Nat /\ lastPongAt \in Nat
    /\ pingTimer = None \/ pingTimer \in Nat
    /\ closed \in BOOLEAN /\ pinged \in BOOLEAN
    /\ conn \in {"new", "open", "closing", "closed"}
    /\ pingTimer # None =>
          /\ wNow <= pingTimer /\ pingTimer <= wNow + PingInterval
          /\ closed = FALSE /\ conn \in {"open", "closing"}
          /\ conn = "closing" => pinged = TRUE
          /\ pinged = FALSE => pingTimer <= lastPongAt + PingInterval
    /\ conn = "open" =>
          /\ pingTimer # None /\ lastPongAt = heard /\ heard <= wNow
          /\ pingTimer <= heard + PingTimeout + PingInterval
    /\ conn = "new" => pingTimer = None /\ closed = FALSE /\ pinged = FALSE
    /\ conn \in {"new", "open"} => code = None
    /\ code = 1001 => pinged = TRUE
    /\ closed = TRUE => ends = 1
    /\ closed = FALSE => ends = 0

LEMMA SocketInit == Socket!Init => SocketIInv
<1>1. None # 1001
  BY NoneAssumption
<1> SUFFICES ASSUME Socket!Init
             PROVE  SocketIInv
  OBVIOUS
<1>2. /\ wNow = 0 /\ heard = 0 /\ lastPongAt = 0 /\ ends = 0
      /\ pingTimer = None /\ code = None /\ conn = "new"
  BY DEF Socket!Init
<1>3. closed = FALSE /\ pinged = FALSE
  BY DEF Socket!Init
<1> QED
  BY <1>1, <1>2, <1>3 DEF SocketIInv

LEMMA SocketStep == SocketIInv /\ Socket!Next => SocketIInv'
<1> SUFFICES ASSUME SocketIInv, Socket!Next
             PROVE  SocketIInv'
  OBVIOUS
<1> USE HeartbeatAssumption, NoneAssumption
<1>1. ASSUME NEW q \in Requests, Socket!Upgrade(q)
      PROVE  SocketIInv'
  BY <1>1 DEF SocketIInv, Socket!Upgrade, Socket!Refusal
<1>2. CASE Socket!Frame
  BY <1>2 DEF SocketIInv, Socket!Frame
<1>3. CASE Socket!Pong
  <2>1. /\ conn = "open" /\ pinged' = FALSE /\ lastPongAt' = wNow /\ heard' = wNow
        /\ UNCHANGED <<wNow, conn, code, closed, pingTimer, ends>>
    BY <1>3 DEF Socket!Pong
  <2>2. /\ code' = None /\ None # 1001 /\ pingTimer \in Nat /\ pingTimer # None /\ wNow \in Nat
        /\ wNow <= pingTimer /\ pingTimer <= wNow + PingInterval
    BY <2>1 DEF SocketIInv
  <2>3. closed' = FALSE /\ ends' = 0
    BY <2>1 DEF SocketIInv
  <2>4. pingTimer <= wNow + PingTimeout + PingInterval
    BY <2>2
  <2>5. /\ conn' = "open" /\ lastPongAt' = wNow /\ heard' = wNow /\ wNow' = wNow
        /\ pingTimer' = pingTimer /\ code' # 1001
    BY <2>1, <2>2
  <2>6. pinged' = FALSE
    BY <2>1
  <2> QED
    <3>1. /\ wNow' \in Nat /\ heard' \in Nat /\ lastPongAt' \in Nat
          /\ pingTimer' \in Nat /\ pingTimer' # None
      BY <2>2, <2>5
    <3>2. closed' \in BOOLEAN /\ pinged' \in BOOLEAN
      BY <2>3, <2>6
    <3>3. /\ lastPongAt' = heard' /\ heard' <= wNow'
          /\ pingTimer' <= heard' + PingTimeout + PingInterval
      BY <2>2, <2>4, <2>5
    <3>4. /\ wNow' <= pingTimer' /\ pingTimer' <= wNow' + PingInterval
          /\ pingTimer' <= lastPongAt' + PingInterval
      BY <2>2, <2>5
    <3>5. code' = None /\ code' # 1001 /\ conn' = "open"
      BY <2>2, <2>5
    <3> QED
      BY <2>3, <2>6, <3>1, <3>2, <3>3, <3>4, <3>5 DEF SocketIInv
<1>4. CASE Socket!Heartbeat
  <2>1. /\ pingTimer \in Nat /\ pingTimer # None /\ wNow = pingTimer /\ pingTimer' = wNow + PingInterval
        /\ UNCHANGED <<wNow, closed, ends, heard>> /\ closed = FALSE
        /\ lastPongAt \in Nat /\ heard \in Nat /\ lastPongAt' = lastPongAt
        /\ conn \in {"open", "closing"}
    BY <1>4 DEF SocketIInv, Socket!Heartbeat, Socket!Heard
  <2>2. pingTimer' \in Nat /\ pingTimer' # None /\ wNow <= pingTimer'
    BY <2>1
  <2>3. CASE wNow - lastPongAt > PingTimeout
    <3>1. conn' = "closing" /\ code' = 1001 /\ UNCHANGED pinged
      BY <1>4, <2>1, <2>3 DEF Socket!Heartbeat
    <3>2. pinged = TRUE
      <4>1. pinged = FALSE => wNow <= lastPongAt + PingInterval
        BY <2>1 DEF SocketIInv
      <4>2. ~(wNow <= lastPongAt + PingInterval)
        BY <2>1, <2>3
      <4> QED
        BY <4>1, <4>2 DEF SocketIInv
    <3> QED
      BY <2>1, <2>2, <3>1, <3>2 DEF SocketIInv
  <2>4. CASE ~(wNow - lastPongAt > PingTimeout)
    <3>1. UNCHANGED <<conn, code>> /\ pinged' = TRUE
      BY <1>4, <2>4 DEF Socket!Heartbeat
    <3>2. /\ conn = "open" => /\ lastPongAt' = heard' /\ heard' <= wNow'
                              /\ pingTimer' <= heard' + PingTimeout + PingInterval
      BY <2>1, <2>4 DEF SocketIInv
    <3>3. pingTimer' <= wNow' + PingInterval
      BY <2>1
    <3>4. conn = "open" => code = None
      BY DEF SocketIInv
    <3>5. closed' = FALSE /\ ends' = 0
      BY <2>1 DEF SocketIInv
    <3> QED
      BY <2>1, <2>2, <3>1, <3>2, <3>3, <3>4, <3>5 DEF SocketIInv
  <2> QED
    BY <2>3, <2>4
<1>5. CASE Socket!Close
  BY <1>5 DEF SocketIInv, Socket!Close, Socket!Started
<1>6. CASE Socket!Ended
  <2>1. /\ conn' = "closed" /\ pingTimer' = None
        /\ UNCHANGED <<wNow, code, lastPongAt, pinged, heard>>
    BY <1>6 DEF Socket!Ended
  <2>2. closed' \in BOOLEAN /\ (closed' = TRUE => ends' = 1) /\ (closed' = FALSE => ends' = 0)
    <3>1. CASE Socket!Started
      <4>1. closed' = TRUE /\ ends' = IF ~closed THEN ends + 1 ELSE ends
        BY <1>6, <3>1 DEF Socket!Ended
      <4>2. ends' = 1
        BY <4>1 DEF SocketIInv
      <4> QED
        BY <4>1, <4>2
    <3>2. CASE ~Socket!Started
      <4>1. closed' = FALSE /\ ends' = ends
        BY <1>6, <3>2 DEF Socket!Ended
      <4>2. closed = FALSE
        BY <3>2 DEF Socket!Started, SocketIInv
      <4> QED
        BY <4>1, <4>2 DEF SocketIInv
    <3> QED
      BY <3>1, <3>2
  <2> QED
    BY <2>1, <2>2 DEF SocketIInv
<1>7. CASE Socket!Dies
  BY <1>7 DEF SocketIInv, Socket!Dies
<1>8. CASE Socket!Tick
  BY <1>8 DEF SocketIInv, Socket!Tick
<1> QED
  BY <1>1, <1>2, <1>3, <1>4, <1>5, <1>6, <1>7, <1>8 DEF Socket!Next

LEMMA SocketInvariant == Joint => []SocketIInv
<1>1. JointInit => SocketIInv
  BY SocketInit DEF JointInit
<1>2. SocketIInv /\ [JointNext]_JointVars => SocketIInv'
  <2> SUFFICES ASSUME SocketIInv, [JointNext]_JointVars
               PROVE  SocketIInv'
    OBVIOUS
  <2>1. CASE Socket!Next
    BY <2>1, SocketStep
  <2>2. CASE UNCHANGED socket
    BY <2>2 DEF socket, SocketIInv
  <2> QED
    BY <2>1, <2>2 DEF JointNext, JointVars
<1> QED
  BY <1>1, <1>2, PTL DEF Joint

\* A silent client is closed on by the first ping after the timeout, one that answers is
\* not, and the end is told once, for every interval and timeout of the heartbeat.
THEOREM SilentClients == Joint => []SilentIsClosed
<1>1. SocketIInv => SilentIsClosed
  BY HeartbeatAssumption DEF SocketIInv, SilentIsClosed, Socket!SilentIsClosed
<1> QED
  BY <1>1, SocketInvariant, PTL

----------------------------------------------------------------------------
LEMMA Joined ==
    ASSUME NEW S, NEW s \in Seq(S), NEW t \in Seq(S)
    PROVE  /\ s \o t \in Seq(S) /\ Len(s \o t) = Len(s) + Len(t)
           /\ SubSeq(s \o t, 1, Len(s)) = s
           /\ SubSeq(s \o t, Len(s) + 1, Len(s \o t)) = t
           /\ \A e \in S : s \o Append(t, e) = Append(s \o t, e)
<1> DEFINE m == Len(s)
           n == Len(t)
           u == s \o t
           a == SubSeq(u, 1, m)
           b == SubSeq(u, m + 1, Len(u))
<1>1. /\ m \in Nat /\ n \in Nat /\ u \in Seq(S) /\ Len(u) = m + n
      /\ \A k \in 1 .. m : u[k] = s[k]
      /\ \A k \in 1 .. n : u[m + k] = t[k]
  OBVIOUS
<1> HIDE DEF u
<1>2. a \in Seq(S) /\ Len(a) = m /\ \A k \in 1 .. m : a[k] = u[k]
  BY <1>1
<1>3. b \in Seq(S) /\ Len(b) = n /\ \A k \in 1 .. n : b[k] = u[m + k]
  BY <1>1
<1>4. a = s
  <2> HIDE DEF a
  <2> QED
    BY <1>1, <1>2, SameSequence
<1>5. b = t
  <2> HIDE DEF b
  <2> QED
    BY <1>1, <1>3, SameSequence
<1>6. ASSUME NEW e \in S
      PROVE  s \o Append(t, e) = Append(u, e)
  <2> DEFINE c == Append(t, e)
             x == s \o c
             y == Append(u, e)
  <2>1. c \in Seq(S) /\ Len(c) = n + 1 /\ c[n + 1] = e /\ \A k \in 1 .. n : c[k] = t[k]
    OBVIOUS
  <2>2. y \in Seq(S) /\ Len(y) = m + n + 1 /\ y[m + n + 1] = e /\ \A k \in 1 .. (m + n) : y[k] = u[k]
    BY <1>1
  <2> HIDE DEF c, y
  <2>3. /\ x \in Seq(S) /\ Len(x) = m + (n + 1)
        /\ \A k \in 1 .. m : x[k] = s[k]
        /\ \A k \in 1 .. (n + 1) : x[m + k] = c[k]
    <3>1. /\ s \o c \in Seq(S) /\ Len(s \o c) = Len(s) + Len(c)
          /\ \A k \in 1 .. Len(s) : (s \o c)[k] = s[k]
          /\ \A k \in 1 .. Len(c) : (s \o c)[Len(s) + k] = c[k]
      BY <2>1
    <3> QED
      BY <2>1, <3>1
  <2> HIDE DEF x, m, n
  <2>4. ASSUME NEW k \in 1 .. (m + n + 1)
        PROVE  x[k] = y[k]
    <3>1. CASE k \in 1 .. m
      BY <1>1, <2>2, <2>3, <3>1
    <3>2. CASE k \in (m + 1) .. (m + n)
      <4>1. k - m \in 1 .. n /\ m + (k - m) = k /\ k - m \in 1 .. (n + 1) /\ k \in 1 .. (m + n)
        BY <1>1, <3>2
      <4>2. x[k] = c[k - m] /\ c[k - m] = t[k - m] /\ u[k] = t[k - m]
        BY <1>1, <2>1, <2>3, <4>1
      <4> QED
        BY <2>2, <4>1, <4>2
    <3>3. CASE k = m + n + 1
      <4>1. m + (n + 1) = k /\ n + 1 \in 1 .. (n + 1)
        BY <1>1, <3>3
      <4>2. x[k] = c[n + 1]
        BY <2>3, <4>1
      <4> QED
        BY <2>1, <2>2, <3>3, <4>2
    <3> QED
      BY <1>1, <3>1, <3>2, <3>3
  <2>5. Len(x) = Len(y)
    BY <1>1, <2>2, <2>3
  <2>6. x = y
    BY <2>2, <2>3, <2>4, <2>5, SameSequence
  <2> QED
    BY <2>6 DEF x, y, c
<1> QED
  BY <1>1, <1>4, <1>5, <1>6 DEF u

LEMMA EmptyJoined ==
    ASSUME NEW S, NEW s \in Seq(S)
    PROVE  << >> \in Seq(S) /\ << >> \o s = s /\ s \o << >> = s
<1> DEFINE e == << >>
<1>1. e \in Seq(S) /\ Len(e) = 0
  OBVIOUS
<1> HIDE DEF e
<1>2. /\ e \o s \in Seq(S) /\ Len(e \o s) = Len(s)
      /\ \A k \in 1 .. Len(s) : (e \o s)[0 + k] = s[k]
  BY <1>1
<1>3. e \o s = s
  BY <1>2, SameSequence
<1>4. s \o e \in Seq(S) /\ Len(s \o e) = Len(s) /\ \A k \in 1 .. Len(s) : (s \o e)[k] = s[k]
  BY <1>1
<1>5. s \o e = s
  BY <1>4, SameSequence
<1> QED
  BY <1>1, <1>3, <1>5 DEF e

\* Numbers of records wait in the buffer or are in flight, and a batch in flight is not
\* empty.
HistoryIInv ==
    /\ hEnabled \in BOOLEAN
    /\ hMade \in Seq([ts : Nat, tenant : Tenants]) /\ Len(hMade) <= MaxRecords /\ now \in Nat
    /\ hBuffer \in Seq(1 .. MaxRecords)
    /\ hBatch = None \/ hBatch \in Seq(1 .. MaxRecords) \ {<< >>}

\* What the outbox of the history holds, with the buffer given.
InFlight == IF hBatch = None THEN << >> ELSE hBatch

LEMMA InFlightIs ==
    ASSUME HistoryIInv
    PROVE  InFlight \in Seq(1 .. MaxRecords)
BY EmptyJoined DEF HistoryIInv, InFlight

LEMMA HistoryFlush ==
    ASSUME HistoryIInv, NEW buf \in Seq(1 .. MaxRecords), History!Flush(buf)
    PROVE  /\ hBuffer' \in Seq(1 .. MaxRecords)
           /\ hBatch' = None \/ hBatch' \in Seq(1 .. MaxRecords) \ {<< >>}
           /\ InFlight' \o hBuffer' = InFlight \o buf
<1>1. CASE hEnabled /\ buf # << >> /\ hBatch = None
  <2>1. hBatch' = buf /\ hBuffer' = << >>
    BY <1>1 DEF History!Flush
  <2>2. buf # None
    <3>1. \A k \in 1 .. Len(buf) : buf[k] \in Nat
      BY BoundsAssumption
    <3>2. buf \in Seq(Nat)
      <4>1. buf = [k \in 1 .. Len(buf) |-> buf[k]] /\ Len(buf) \in Nat
        OBVIOUS
      <4> QED
        BY <3>1, <4>1
    <3> QED
      BY <3>2, NoneAssumption
  <2>3. InFlight' = buf /\ InFlight = << >>
    BY <1>1, <2>1, <2>2 DEF InFlight
  <2> QED
    BY <1>1, <2>1, <2>3, EmptyJoined
<1>2. CASE ~(hEnabled /\ buf # << >> /\ hBatch = None)
  <2>1. hBuffer' = buf /\ hBatch' = hBatch
    BY <1>2 DEF History!Flush
  <2> QED
    BY <2>1 DEF HistoryIInv, InFlight
<1> QED
  BY <1>1, <1>2

\* Every step of the history is a step of its outbox, or none.
LEMMA HistoryStep ==
    HistoryIInv /\ History!Next => HistoryIInv' /\ [History!O!Next]_(History!O!vars)
<1> SUFFICES ASSUME HistoryIInv, History!Next
             PROVE  HistoryIInv' /\ [History!O!Next]_(History!O!vars)
  OBVIOUS
<1> DEFINE N == 1 .. MaxRecords
<1>1. ASSUME NEW tenant \in Tenants, History!Record(tenant)
      PROVE  HistoryIInv' /\ [History!O!Next]_(History!O!vars)
  <2> DEFINE r == [ts |-> now, tenant |-> tenant]
             e == Len(hMade) + 1
             buf == Append(hBuffer, e)
  <2>1. r \in [ts : Nat, tenant : Tenants]
    BY DEF HistoryIInv
  <2>2. hMade' = Append(hMade, r) /\ Len(hMade) < MaxRecords
    BY <1>1 DEF History!Record
  <2> HIDE DEF r
  <2>3. /\ hMade' \in Seq([ts : Nat, tenant : Tenants]) /\ Len(hMade') = e
        /\ e \in N /\ Len(hMade') <= MaxRecords
    BY <2>1, <2>2, BoundsAssumption DEF HistoryIInv
  <2>4. hBuffer \in Seq(N) /\ buf \in Seq(N)
    BY <2>3 DEF HistoryIInv
  <2>5. /\ UNCHANGED <<hEnabled, now, hSettled>>
        /\ \/ UNCHANGED <<hBuffer, hBatch>>
           \/ History!Flush(buf)
           \/ hBuffer' = buf /\ UNCHANGED hBatch
    BY <1>1, <2>3 DEF History!Record
  <2> HIDE DEF buf, e, N
  <2>6. CASE UNCHANGED <<hBuffer, hBatch>>
    <3>1. HistoryIInv'
      BY <2>3, <2>5, <2>6 DEF HistoryIInv
    <3> QED
      BY <2>5, <2>6, <3>1 DEF History!O!vars
  <2>7. CASE History!Flush(buf) \/ (hBuffer' = buf /\ UNCHANGED hBatch)
    <3>1. /\ hBuffer' \in Seq(N)
          /\ hBatch' = None \/ hBatch' \in Seq(N) \ {<< >>}
          /\ InFlight' \o hBuffer' = InFlight \o buf
      <4>1. CASE History!Flush(buf)
        BY <2>4, <4>1, HistoryFlush DEF N
      <4>2. CASE hBuffer' = buf /\ UNCHANGED hBatch
        BY <2>4, <4>2 DEF HistoryIInv, InFlight, N
      <4> QED
        BY <2>7, <4>1, <4>2
    <3>2. HistoryIInv'
      BY <2>3, <2>5, <3>1 DEF HistoryIInv, N
    <3>3. InFlight \o buf = Append(InFlight \o hBuffer, e)
      BY <2>3, <2>4, InFlightIs, Joined DEF buf, N
    <3>4. History!O!HandIn
      BY <2>3, <2>5, <3>1, <3>3 DEF History!O!HandIn, InFlight, N
    <3> QED
      BY <3>2, <3>4 DEF History!O!Next
  <2> QED
    BY <2>5, <2>6, <2>7
<1>2. CASE History!TimerFlush \/ History!Stop
  <2>1. History!Flush(hBuffer) /\ UNCHANGED <<hEnabled, now, hMade, hSettled>>
    BY <1>2 DEF History!TimerFlush, History!Stop
  <2>2. /\ hBuffer' \in Seq(N)
        /\ hBatch' = None \/ hBatch' \in Seq(N) \ {<< >>}
        /\ InFlight' \o hBuffer' = InFlight \o hBuffer
    BY <2>1, HistoryFlush DEF HistoryIInv
  <2>3. HistoryIInv'
    BY <2>1, <2>2 DEF HistoryIInv
  <2> QED
    BY <2>1, <2>2, <2>3 DEF History!O!vars, InFlight
<1>3. CASE History!Posted \/ \E taken \in BOOLEAN : History!PostFails(taken)
  <2>1. /\ hBatch # None /\ hBatch' = None /\ hSettled' = hSettled \o hBatch
        /\ UNCHANGED <<hEnabled, now, hMade, hBuffer>>
    BY <1>3 DEF History!Posted, History!PostFails
  <2>2. hBatch \in Seq(N) /\ hBatch # << >> /\ hBuffer \in Seq(N)
    BY <2>1 DEF HistoryIInv
  <2>3. HistoryIInv'
    BY <2>1 DEF HistoryIInv
  <2> DEFINE n == Len(hBatch)
             w == hBatch \o hBuffer
  <2>4. /\ SubSeq(w, 1, n) = hBatch /\ SubSeq(w, n + 1, Len(w)) = hBuffer
        /\ Len(w) = n + Len(hBuffer)
    BY <2>2, Joined
  <2>5. n \in 1 .. Len(w)
    BY <2>2, <2>4
  <2>6. InFlight = hBatch /\ InFlight' \o hBuffer' = hBuffer
    BY <2>1, <2>2, EmptyJoined DEF InFlight
  <2>7. History!O!Settle
    BY <2>1, <2>4, <2>5, <2>6 DEF History!O!Settle, InFlight
  <2> QED
    BY <2>3, <2>7 DEF History!O!Next
<1>4. CASE History!StopResolves \/ History!Tick
  <2>1. UNCHANGED <<hEnabled, hMade, hBuffer, hBatch, hSettled>> /\ now' \in Nat
    BY <1>4 DEF History!StopResolves, History!Tick, HistoryIInv
  <2>2. HistoryIInv'
    BY <2>1 DEF HistoryIInv
  <2> QED
    BY <2>1, <2>2 DEF History!O!vars
<1> QED
  BY <1>1, <1>2, <1>3, <1>4 DEF History!Next

\* The entries of the sink; only a flush in progress holds a batch, and not an empty one.
SinkIInv ==
    /\ written \in Nat
    /\ sBuffer \in Seq(1 .. MaxWritten) /\ sBatch \in Seq(1 .. MaxWritten)
    /\ stage = "idle" <=> sBatch = << >>

LEMMA SinkStep == SinkIInv /\ Sink!Next => SinkIInv' /\ [Sink!O!Next]_(Sink!O!vars)
<1> SUFFICES ASSUME SinkIInv, Sink!Next
             PROVE  SinkIInv' /\ [Sink!O!Next]_(Sink!O!vars)
  OBVIOUS
<1> DEFINE N == 1 .. MaxWritten
           w == sBatch \o sBuffer
<1>0. /\ sBuffer \in Seq(N) /\ sBatch \in Seq(N) /\ w \in Seq(N)
      /\ Len(w) = Len(sBatch) + Len(sBuffer)
      /\ SubSeq(w, 1, Len(sBatch)) = sBatch /\ SubSeq(w, Len(sBatch) + 1, Len(w)) = sBuffer
      /\ \A e \in N : sBatch \o Append(sBuffer, e) = Append(w, e)
      /\ << >> \in Seq(N) /\ << >> \o sBuffer = sBuffer /\ sBuffer \o << >> = sBuffer
  BY Joined, EmptyJoined DEF SinkIInv
<1>1. CASE Sink!Write
  <2>1. /\ sBuffer' = Append(sBuffer, written + 1) /\ written' = written + 1
        /\ written < MaxWritten /\ UNCHANGED <<sBatch, stage, sSettled>>
    BY <1>1 DEF Sink!Write
  <2>2. written + 1 \in N
    BY <2>1, BoundsAssumption DEF SinkIInv
  <2>3. Append(sBuffer, written + 1) \in Seq(N)
    BY <1>0, <2>2
  <2>4. SinkIInv'
    BY <2>1, <2>3 DEF SinkIInv
  <2>5. Sink!O!HandIn
    BY <1>0, <2>1, <2>2 DEF Sink!O!HandIn
  <2> QED
    BY <2>4, <2>5 DEF Sink!O!Next
<1>2. CASE \/ Sink!TimerFlush \/ Sink!Shutdown
           \/ \E ok \in BOOLEAN : Sink!EnsureClient(ok) \/ Sink!PutFails(ok)
  <2>1. /\ UNCHANGED <<written, sBuffer, sBatch, sSettled>>
        /\ stage' = stage \/ (stage # "idle" /\ stage' # "idle")
    BY <1>2 DEF Sink!TimerFlush, Sink!Shutdown, Sink!EnsureClient, Sink!PutFails
  <2> QED
    BY <2>1 DEF SinkIInv, Sink!O!vars
<1>3. CASE Sink!Begin
  <2>1. stage = "idle" /\ sBatch = << >> /\ UNCHANGED <<written, sSettled>>
    BY <1>3 DEF Sink!Begin, Sink!Busy, SinkIInv
  <2>2. CASE sBuffer = << >>
    <3>1. UNCHANGED <<stage, sBatch, sBuffer>>
      BY <1>3, <2>2 DEF Sink!Begin
    <3> QED
      BY <2>1, <3>1 DEF SinkIInv, Sink!O!vars
  <2>3. CASE sBuffer # << >>
    <3>1. sBatch' = sBuffer /\ sBuffer' = << >> /\ stage' = "client"
      BY <1>3, <2>3 DEF Sink!Begin, Sink!Taken
    <3>2. SinkIInv'
      BY <1>0, <2>1, <2>3, <3>1 DEF SinkIInv
    <3>3. sBatch' \o sBuffer' = sBatch \o sBuffer
      BY <1>0, <2>1, <3>1
    <3> QED
      BY <2>1, <3>2, <3>3 DEF Sink!O!vars
  <2> QED
    BY <2>2, <2>3
<1>4. CASE Sink!Put \/ \E ok \in BOOLEAN : Sink!DeadLetter(ok)
  <2>1. /\ stage # "idle" /\ stage' = "idle" /\ sBatch' = << >>
        /\ sSettled' = sSettled \o sBatch /\ UNCHANGED <<written, sBuffer>>
    BY <1>4 DEF Sink!Put, Sink!DeadLetter, Sink!Ends
  <2>2. SinkIInv'
    BY <1>0, <2>1 DEF SinkIInv
  <2>3. sBatch # << >>
    BY <2>1 DEF SinkIInv
  <2>4. Len(sBatch) \in 1 .. Len(w)
    BY <1>0, <2>3
  <2>5. Sink!O!Settle
    BY <1>0, <2>1, <2>4 DEF Sink!O!Settle
  <2> QED
    BY <2>2, <2>5 DEF Sink!O!Next
<1> QED
  BY <1>1, <1>2, <1>3, <1>4 DEF Sink!Next

\* Both batching sinks implement Outbox, for every size of the buffer and through every
\* order of full buffers, timers, shutdowns, slow and failing posts.
THEOREM OutboxImplemented == Joint => OutboxKept
<1>1. JointInit => HistoryIInv /\ SinkIInv /\ History!O!Init /\ Sink!O!Init
  <2> SUFFICES ASSUME History!Init, Sink!Init
               PROVE  HistoryIInv /\ SinkIInv /\ History!O!Init /\ Sink!O!Init
    BY DEF JointInit
  <2>1. \A S : << >> \in Seq(S) /\ << >> \o << >> = << >>
    BY EmptyJoined
  <2>2. /\ hEnabled \in BOOLEAN /\ hMade = << >> /\ now = 0 /\ hBuffer = << >> /\ hBatch = None
        /\ hSettled = << >>
    BY DEF History!Init
  <2>3. written = 0 /\ sBuffer = << >> /\ sBatch = << >> /\ stage = "idle" /\ sSettled = << >>
    BY DEF Sink!Init
  <2>4. Len(hMade) <= MaxRecords
    <3>1. MaxRecords \in Nat /\ Len(hMade) = 0
      BY <2>2, BoundsAssumption
    <3> QED
      BY <3>1
  <2>5. HistoryIInv /\ SinkIInv
    BY <2>1, <2>2, <2>3, <2>4 DEF HistoryIInv, SinkIInv
  <2> QED
    BY <2>1, <2>2, <2>3, <2>5 DEF History!O!Init, Sink!O!Init
<1>2. HistoryIInv /\ [JointNext]_JointVars => HistoryIInv' /\ [History!O!Next]_(History!O!vars)
  <2> SUFFICES ASSUME HistoryIInv, [JointNext]_JointVars
               PROVE  HistoryIInv' /\ [History!O!Next]_(History!O!vars)
    OBVIOUS
  <2>1. CASE History!Next
    BY <2>1, HistoryStep
  <2>2. CASE UNCHANGED history
    BY <2>2 DEF history, HistoryIInv, History!O!vars
  <2> QED
    BY <2>1, <2>2 DEF JointNext, JointVars
<1>3. SinkIInv /\ [JointNext]_JointVars => SinkIInv' /\ [Sink!O!Next]_(Sink!O!vars)
  <2> SUFFICES ASSUME SinkIInv, [JointNext]_JointVars
               PROVE  SinkIInv' /\ [Sink!O!Next]_(Sink!O!vars)
    OBVIOUS
  <2>1. CASE Sink!Next
    BY <2>1, SinkStep
  <2>2. CASE UNCHANGED bucket
    BY <2>2 DEF bucket, SinkIInv, Sink!O!vars
  <2> QED
    BY <2>1, <2>2 DEF JointNext, JointVars
<1> QED
  BY <1>1, <1>2, <1>3, PTL DEF Joint, OutboxKept, History!OutboxKept, Sink!OutboxKept,
     History!O!Spec, Sink!O!Spec

----------------------------------------------------------------------------
Version(n) == {None} \cup 0 .. n
Asked(n) == [by : {"connect", "timer"}, version : Version(n)]

\* What a session registered is not newer than what is cached.
NotNewer(v, c) == v # None => v \in Nat /\ c \in Nat /\ v <= c

\* No list is newer than the upstream's.  Where two requests were never in flight at
\* once, the cached list only gets newer: the answer on its way is not older than it ...
UpstreamHolds(u) ==
    /\ cache[u] \in Version(world[u])
    /\ asked[u] \in Seq(Asked(world[u]))
    /\ u \notin crowded =>
          /\ Len(asked[u]) <= 1
          /\ \A i \in 1 .. Len(asked[u]) :
                asked[u][i].version # None => cache[u] = None \/ cache[u] <= asked[u][i].version

\* ... and no session has registered a newer one.
ClientHolds(s) ==
    session[s] # None =>
        /\ fPhase # "boot"
        /\ fPhase = "up" => DOMAIN session[s] \subseteq Upstreams!Registered
        /\ \A u \in DOMAIN session[s] :
              u \in Upstreams!Names /\ (u \notin crowded => NotNewer(session[s][u], cache[u]))

FederationTypes ==
    /\ env \in Environments
    /\ world \in [Upstreams!Names -> Nat]
    /\ cache = [u \in Upstreams!Names |-> cache[u]]
    /\ asked = [u \in Upstreams!Names |-> asked[u]]
    /\ session = [s \in Clients |-> session[s]]
    /\ Upstreams!Registered \subseteq Upstreams!Names

FederationIInv ==
    /\ FederationTypes
    /\ \A u \in Upstreams!Names : UpstreamHolds(u)
    /\ \A s \in Clients : ClientHolds(s)

LEMMA VersionFacts ==
    ASSUME NEW n \in Nat
    PROVE  /\ None \in Version(n)
           /\ \A v \in Version(n) : v # None => v \in Nat /\ v <= n
           /\ n \in Version(n) /\ n # None
           /\ Version(n) \subseteq Version(n + 1)
BY NoneAssumption DEF Version

LEMMA AskedFacts ==
    ASSUME NEW n \in Nat, NEW q \in Asked(n)
    PROVE  /\ q.version \in Version(n) /\ q \in Asked(n + 1)
           /\ \A v \in Version(n) : [q EXCEPT !.version = v] \in Asked(n)
BY VersionFacts DEF Asked

LEMMA RequestFacts ==
    ASSUME NEW n \in Nat, NEW by \in {"connect", "timer"}
    PROVE  Upstreams!Request(by) \in Asked(n) /\ Upstreams!Request(by).version = None
BY VersionFacts DEF Asked, Upstreams!Request

\* A request leaves the list of those in flight.
LEMMA WithoutFacts ==
    ASSUME NEW S, NEW q \in Seq(S), NEW i \in 1 .. Len(q)
    PROVE  /\ Upstreams!Without(q, i) \in Seq(S)
           /\ Len(q) <= 1 => Len(Upstreams!Without(q, i)) = 0
<1> DEFINE a == SubSeq(q, 1, i - 1)
           b == SubSeq(q, i + 1, Len(q))
<1>1. a \in Seq(S) /\ Len(a) = i - 1
  OBVIOUS
<1>2. b \in Seq(S) /\ Len(b) = Len(q) - i
  OBVIOUS
<1> HIDE DEF a, b
<1>3. a \o b \in Seq(S) /\ Len(a \o b) = Len(a) + Len(b)
  BY <1>1, <1>2
<1> QED
  <2>1. Upstreams!Without(q, i) = a \o b
    BY DEF Upstreams!Without, a, b
  <2>2. i \in Nat /\ Len(q) \in Nat /\ Len(q) <= 1 => Len(a) + Len(b) = 0
    BY <1>1, <1>2
  <2> QED
    BY <1>3, <2>1, <2>2

\* refresh asks u for its list.
LEMMA AskPreserves ==
    ASSUME FederationIInv, NEW u \in Upstreams!Names, NEW by \in {"connect", "timer"},
           Upstreams!Ask(u, by),
           UNCHANGED <<env, fPhase, upstreams, cache, world, session>>
    PROVE  FederationIInv'
<1> DEFINE q == Upstreams!Request(by)
<1>1. /\ asked' = [asked EXCEPT ![u] = Append(asked[u], q)]
      /\ crowded' = IF asked[u] # << >> THEN crowded \cup {u} ELSE crowded
  BY DEF Upstreams!Ask
<1>2. world[u] \in Nat
  BY DEF FederationIInv, FederationTypes
<1>3. q \in Asked(world[u]) /\ q.version = None
  BY <1>2, RequestFacts
<1> HIDE DEF q
<1>4. FederationTypes'
  BY <1>1 DEF FederationIInv, FederationTypes, Upstreams!Registered
<1>5. /\ asked'[u] = Append(asked[u], q)
      /\ \A w \in Upstreams!Names \ {u} : asked'[w] = asked[w]
  BY <1>1 DEF FederationIInv, FederationTypes
<1>6. ASSUME NEW w \in Upstreams!Names
      PROVE  UpstreamHolds(w)'
  <2>1. UpstreamHolds(w)
    BY DEF FederationIInv
  <2>2. CASE w # u
    BY <1>1, <1>5, <2>1, <2>2 DEF UpstreamHolds
  <2>3. CASE w = u
    <3>1. asked[u] \in Seq(Asked(world[u])) /\ cache[u] \in Version(world[u])
      BY <2>1, <2>3 DEF UpstreamHolds
    <3>2. asked'[u] \in Seq(Asked(world[u]))
      BY <1>3, <1>5, <3>1
    <3>3. CASE asked[u] = << >>
      <4>1. asked'[u] = << q >>
        BY <1>5, <3>3
      <4>2. Len(asked'[u]) = 1 /\ \A i \in 1 .. 1 : asked'[u][i].version = None
        BY <1>3, <4>1
      <4> QED
        BY <2>3, <3>1, <3>2, <4>2 DEF UpstreamHolds
    <3>4. CASE asked[u] # << >>
      BY <1>1, <2>3, <3>1, <3>2, <3>4 DEF UpstreamHolds
    <3> QED
      BY <3>3, <3>4
  <2> QED
    BY <2>2, <2>3
<1>7. ASSUME NEW s \in Clients
      PROVE  ClientHolds(s)'
  <2>1. ClientHolds(s)
    BY DEF FederationIInv
  <2>2. \A w : w \notin crowded' => w \notin crowded
    BY <1>1
  <2> QED
    BY <2>1, <2>2 DEF ClientHolds, Upstreams!Registered
<1> QED
  BY <1>4, <1>6, <1>7 DEF FederationIInv

\* A request ends, with or without an answer; only an answer changes the cached list.
LEMMA AnswerPreserves ==
    ASSUME FederationIInv, NEW u \in Upstreams!Names, NEW i \in 1 .. Len(asked[u]),
           asked' = [asked EXCEPT ![u] = Upstreams!Without(asked[u], i)],
           \/ UNCHANGED cache
           \/ /\ asked[u][i].version # None
              /\ cache' = [cache EXCEPT ![u] = asked[u][i].version],
           UNCHANGED <<env, fPhase, upstreams, world, session, crowded>>
    PROVE  FederationIInv'
<1> DEFINE v == asked[u][i].version
<1>1. world[u] \in Nat /\ UpstreamHolds(u)
  BY DEF FederationIInv, FederationTypes
<1>2. asked[u] \in Seq(Asked(world[u])) /\ cache[u] \in Version(world[u])
  BY <1>1 DEF UpstreamHolds
<1>3. v \in Version(world[u])
  <2>1. asked[u][i] \in Asked(world[u])
    BY <1>2
  <2> QED
    BY <1>1, <2>1, AskedFacts
<1>4. /\ asked'[u] = Upstreams!Without(asked[u], i)
      /\ cache'[u] = cache[u] \/ (v # None /\ cache'[u] = v)
      /\ \A w \in Upstreams!Names \ {u} : asked'[w] = asked[w] /\ cache'[w] = cache[w]
  BY DEF FederationIInv, FederationTypes
<1>5. FederationTypes'
  BY DEF FederationIInv, FederationTypes, Upstreams!Registered
<1>6. ASSUME NEW w \in Upstreams!Names
      PROVE  UpstreamHolds(w)'
  <2>1. UpstreamHolds(w)
    BY DEF FederationIInv
  <2>2. CASE w # u
    BY <1>4, <2>1, <2>2 DEF UpstreamHolds
  <2>3. CASE w = u
    <3>1. asked'[u] \in Seq(Asked(world[u])) /\ (Len(asked[u]) <= 1 => Len(asked'[u]) = 0)
      BY <1>2, <1>4, WithoutFacts
    <3>2. cache'[u] \in Version(world[u])
      BY <1>2, <1>3, <1>4
    <3>3. Len(asked'[u]) = 0 => Len(asked'[u]) <= 1 /\ 1 .. Len(asked'[u]) = {}
      OBVIOUS
    <3> QED
      BY <1>1, <2>3, <3>1, <3>2, <3>3 DEF UpstreamHolds
  <2> QED
    BY <2>2, <2>3
<1>7. ASSUME NEW s \in Clients
      PROVE  ClientHolds(s)'
  <2>1. ClientHolds(s)
    BY DEF FederationIInv
  <2>2. ASSUME u \notin crowded, NEW x, NotNewer(x, cache[u])
        PROVE  NotNewer(x, cache'[u])
    <3>1. CASE cache'[u] = cache[u]
      BY <2>2, <3>1
    <3>2. CASE v # None /\ cache'[u] = v
      <4>1. v \in Nat
        BY <1>1, <1>3, <3>2, VersionFacts
      <4>2. cache[u] = None \/ cache[u] <= v
        BY <1>1, <2>2, <3>2 DEF UpstreamHolds
      <4> QED
        BY <2>2, <3>2, <4>1, <4>2, NoneAssumption DEF NotNewer
    <3> QED
      BY <1>4, <3>1, <3>2
  <2>3. ASSUME session[s] # None, NEW w \in DOMAIN session[s], w \notin crowded
        PROVE  NotNewer(session[s][w], cache'[w])
    <3>1. w \in Upstreams!Names /\ NotNewer(session[s][w], cache[w])
      BY <2>1, <2>3 DEF ClientHolds
    <3>2. CASE w = u
      BY <2>2, <2>3, <3>1, <3>2
    <3>3. CASE w # u
      BY <1>4, <3>1, <3>3
    <3> QED
      BY <3>2, <3>3
  <2> QED
    BY <2>1, <2>3 DEF ClientHolds, Upstreams!Registered
<1> QED
  BY <1>5, <1>6, <1>7 DEF FederationIInv

LEMMA FederationStep == FederationIInv /\ Upstreams!Next => FederationIInv'
<1> SUFFICES ASSUME FederationIInv, Upstreams!Next
             PROVE  FederationIInv'
  OBVIOUS
<1>1. CASE Upstreams!Boot
  <2>1. /\ fPhase = "boot"
        /\ UNCHANGED <<env, world, cache, asked, session, crowded>>
    BY <1>1 DEF Upstreams!Boot
  <2>2. Upstreams!Registered' \subseteq Upstreams!Names
    <3>1. CASE UNCHANGED upstreams
      BY <3>1 DEF Upstreams!Registered, FederationIInv, FederationTypes
    <3>2. CASE ~UNCHANGED upstreams
      <4>1. /\ upstreams' = [i \in DOMAIN Upstreams!Parsed(env) |-> Upstreams!Parsed(env)[i].name]
            /\ env \in Environments
        BY <1>1, <3>2 DEF Upstreams!Boot, FederationIInv, FederationTypes
      <4> HIDE DEF Upstreams!Parsed
      <4>2. Upstreams!Registered' = {Upstreams!Parsed(env)[i].name : i \in DOMAIN Upstreams!Parsed(env)}
        BY <4>1 DEF Upstreams!Registered
      <4> QED
        BY <4>1, <4>2 DEF Upstreams!Names
    <3> QED
      BY <3>1, <3>2
  <2>3. FederationTypes'
    BY <2>1, <2>2 DEF FederationIInv, FederationTypes
  <2>4. \A u \in Upstreams!Names : UpstreamHolds(u)'
    BY <2>1 DEF FederationIInv, UpstreamHolds
  <2>5. \A s \in Clients : ClientHolds(s)'
    BY <2>1 DEF FederationIInv, ClientHolds
  <2> QED
    BY <2>3, <2>4, <2>5 DEF FederationIInv
<1>2. ASSUME NEW u \in Upstreams!Names, Upstreams!Handshake(u) \/ Upstreams!RefreshTimer(u)
      PROVE  FederationIInv'
  <2>1. PICK by \in {"connect", "timer"} : Upstreams!Ask(u, by)
    BY <1>2 DEF Upstreams!Handshake, Upstreams!RefreshTimer
  <2>2. UNCHANGED <<env, fPhase, upstreams, cache, world, session>>
    BY <1>2 DEF Upstreams!Handshake, Upstreams!RefreshTimer
  <2> QED
    BY <2>1, <2>2, AskPreserves
<1>3. ASSUME NEW u \in Upstreams!Names, Upstreams!HandshakeFails(u) \/ Upstreams!Disconnects(u)
      PROVE  FederationIInv'
  <2>1. UNCHANGED <<env, fPhase, upstreams, cache, asked, world, session, crowded>>
    BY <1>3 DEF Upstreams!HandshakeFails, Upstreams!Disconnects
  <2>2. FederationTypes'
    BY <2>1 DEF FederationIInv, FederationTypes, Upstreams!Registered
  <2>3. \A w \in Upstreams!Names : UpstreamHolds(w)'
    BY <2>1 DEF FederationIInv, UpstreamHolds
  <2>4. \A s \in Clients : ClientHolds(s)'
    BY <2>1 DEF FederationIInv, ClientHolds, Upstreams!Registered
  <2> QED
    BY <2>2, <2>3, <2>4 DEF FederationIInv
<1>4. ASSUME NEW u \in Upstreams!Names, NEW i \in 1 .. Len(asked[u]), Upstreams!Serve(u, i)
      PROVE  FederationIInv'
  <2>1. /\ asked' = [asked EXCEPT ![u] = [asked[u] EXCEPT ![i].version = world[u]]]
        /\ UNCHANGED <<env, fPhase, upstreams, cache, world, session, crowded>>
    BY <1>4 DEF Upstreams!Serve
  <2> DEFINE b == [asked[u][i] EXCEPT !.version = world[u]]
  <2>2. asked'[u] = [asked[u] EXCEPT ![i] = b]
    BY <2>1 DEF FederationIInv, FederationTypes
  <2>3. world[u] \in Nat /\ UpstreamHolds(u)
    BY DEF FederationIInv, FederationTypes
  <2>4. asked[u] \in Seq(Asked(world[u])) /\ cache[u] \in Version(world[u])
    BY <2>3 DEF UpstreamHolds
  <2>5. asked[u][i] \in Asked(world[u])
    BY <2>4
  <2>6. b \in Asked(world[u])
    BY <2>3, <2>5, AskedFacts, VersionFacts
  <2>7. b.version = world[u]
    BY <2>5 DEF Asked
  <2> HIDE DEF b
  <2>8. asked'[u] \in Seq(Asked(world[u])) /\ Len(asked'[u]) = Len(asked[u])
    BY <2>2, <2>4, <2>6
  <2>9. \A j \in 1 .. Len(asked[u]) : asked'[u][j] = IF j = i THEN b ELSE asked[u][j]
    BY <2>2, <2>4
  <2>10. cache[u] = None \/ cache[u] <= world[u]
    BY <2>3, <2>4, VersionFacts
  <2>11. UpstreamHolds(u)'
    BY <2>1, <2>3, <2>4, <2>7, <2>8, <2>9, <2>10 DEF UpstreamHolds
  <2>12. \A w \in Upstreams!Names \ {u} : UpstreamHolds(w)'
    BY <2>1 DEF FederationIInv, FederationTypes, UpstreamHolds
  <2>13. FederationTypes' /\ \A s \in Clients : ClientHolds(s)'
    BY <2>1 DEF FederationIInv, FederationTypes, ClientHolds, Upstreams!Registered
  <2> QED
    BY <2>11, <2>12, <2>13 DEF FederationIInv
<1>5. ASSUME NEW u \in Upstreams!Names, NEW i \in 1 .. Len(asked[u]),
             Upstreams!Listed(u, i) \/ Upstreams!ListFails(u, i)
      PROVE  FederationIInv'
  <2>1. /\ asked' = [asked EXCEPT ![u] = Upstreams!Without(asked[u], i)]
        /\ UNCHANGED <<env, fPhase, upstreams, world, session, crowded>>
        /\ \/ UNCHANGED cache
           \/ asked[u][i].version # None /\ cache' = [cache EXCEPT ![u] = asked[u][i].version]
    BY <1>5 DEF Upstreams!Listed, Upstreams!ListFails
  <2> QED
    BY <2>1, AnswerPreserves
<1>6. ASSUME NEW u \in Upstreams!Names, Upstreams!UpstreamChanges(u)
      PROVE  FederationIInv'
  <2>1. /\ world' = [world EXCEPT ![u] = world[u] + 1]
        /\ UNCHANGED <<env, fPhase, upstreams, cache, asked, session, crowded>>
    BY <1>6 DEF Upstreams!UpstreamChanges
  <2>2. FederationTypes'
    BY <2>1 DEF FederationIInv, FederationTypes, Upstreams!Registered
  <2>3. ASSUME NEW w \in Upstreams!Names
        PROVE  Version(world[w]) \subseteq Version(world'[w]) /\ Asked(world[w]) \subseteq Asked(world'[w])
    <3>1. world[w] \in Nat /\ world'[w] \in {world[w], world[w] + 1}
      BY <2>1 DEF FederationIInv, FederationTypes
    <3> QED
      BY <3>1, VersionFacts, AskedFacts
  <2>4. ASSUME NEW S, NEW T, S \subseteq T
        PROVE  Seq(S) \subseteq Seq(T)
    BY <2>4
  <2>5. \A w \in Upstreams!Names : UpstreamHolds(w)'
    BY <2>1, <2>3, <2>4 DEF FederationIInv, UpstreamHolds
  <2>6. \A s \in Clients : ClientHolds(s)'
    BY <2>1 DEF FederationIInv, ClientHolds, Upstreams!Registered
  <2> QED
    BY <2>2, <2>5, <2>6 DEF FederationIInv
<1>7. ASSUME NEW s \in Clients, Upstreams!OpenSession(s)
      PROVE  FederationIInv'
  <2>1. /\ session' = [session EXCEPT ![s] = [u \in Upstreams!Registered |-> cache[u]]]
        /\ fPhase = "up" /\ UNCHANGED <<env, fPhase, upstreams, cache, asked, world, crowded>>
    BY <1>7 DEF Upstreams!OpenSession
  <2>2. FederationTypes'
    BY <2>1 DEF FederationIInv, FederationTypes, Upstreams!Registered
  <2>3. \A w \in Upstreams!Names : UpstreamHolds(w)'
    BY <2>1 DEF FederationIInv, UpstreamHolds
  <2>4. ASSUME NEW c \in Clients \ {s}
        PROVE  ClientHolds(c)'
    <3>1. session'[c] = session[c] /\ ClientHolds(c)
      BY <2>1 DEF FederationIInv, FederationTypes
    <3> QED
      BY <2>1, <3>1 DEF ClientHolds, Upstreams!Registered
  <2>5. ClientHolds(s)'
    <3>1. session'[s] = [u \in Upstreams!Registered |-> cache[u]]
      BY <2>1 DEF FederationIInv, FederationTypes
    <3>2. DOMAIN session'[s] = Upstreams!Registered /\ Upstreams!Registered' = Upstreams!Registered
      BY <2>1, <3>1 DEF Upstreams!Registered
    <3>3. ASSUME NEW u \in Upstreams!Registered
          PROVE  u \in Upstreams!Names /\ NotNewer(cache[u], cache[u])
      <4>1. u \in Upstreams!Names
        BY DEF FederationIInv, FederationTypes
      <4>2. cache[u] \in Version(world[u]) /\ world[u] \in Nat
        BY <4>1 DEF FederationIInv, FederationTypes, UpstreamHolds
      <4>3. cache[u] # None => cache[u] \in Nat
        BY <4>2, VersionFacts
      <4> QED
        BY <4>1, <4>3 DEF NotNewer
    <3> QED
      BY <2>1, <3>1, <3>2, <3>3 DEF ClientHolds
  <2> QED
    BY <2>2, <2>3, <2>4, <2>5 DEF FederationIInv
<1>8. CASE Upstreams!CloseAll
  <2>1. /\ fPhase' = "closed" /\ upstreams' = << >>
        /\ asked' = [u \in Upstreams!Names |-> << >>]
        /\ UNCHANGED <<env, cache, world, session, crowded>>
    BY <1>8 DEF Upstreams!CloseAll
  <2>2. Upstreams!Registered' = {}
    BY <2>1 DEF Upstreams!Registered
  <2>3. FederationTypes'
    BY <2>1, <2>2 DEF FederationIInv, FederationTypes
  <2>4. ASSUME NEW w \in Upstreams!Names
        PROVE  UpstreamHolds(w)'
    <3>1. asked'[w] = << >> /\ Len(asked'[w]) = 0 /\ 1 .. 0 = {} /\ cache'[w] \in Version(world'[w])
      BY <2>1 DEF FederationIInv, UpstreamHolds
    <3>2. asked'[w] \in Seq(Asked(world'[w]))
      BY <3>1
    <3> QED
      BY <3>1, <3>2 DEF UpstreamHolds
  <2>5. \A s \in Clients : ClientHolds(s)'
    BY <2>1 DEF FederationIInv, ClientHolds
  <2> QED
    BY <2>3, <2>4, <2>5 DEF FederationIInv
<1>9. \A u \in Upstreams!Names : DOMAIN asked[u] = 1 .. Len(asked[u])
  <2>1. \A u \in Upstreams!Names : asked[u] \in Seq(Asked(world[u]))
    BY DEF FederationIInv, UpstreamHolds
  <2> QED
    BY <2>1
<1> QED
  BY <1>1, <1>2, <1>3, <1>4, <1>5, <1>6, <1>7, <1>8, <1>9 DEF Upstreams!Next

LEMMA FederationInvariant == Joint => []FederationIInv
<1>1. JointInit => FederationIInv
  <2> SUFFICES ASSUME Upstreams!Init
               PROVE  FederationIInv
    BY DEF JointInit
  <2>1. /\ env \in Environments /\ upstreams = << >>
        /\ cache = [u \in Upstreams!Names |-> None] /\ asked = [u \in Upstreams!Names |-> << >>]
        /\ world = [u \in Upstreams!Names |-> 0] /\ session = [s \in Clients |-> None]
    BY DEF Upstreams!Init
  <2>2. FederationTypes
    BY <2>1 DEF FederationTypes, Upstreams!Registered
  <2>3. ASSUME NEW u \in Upstreams!Names
        PROVE  UpstreamHolds(u)
    <3>1. asked[u] = << >> /\ Len(asked[u]) = 0 /\ 1 .. 0 = {} /\ cache[u] = None /\ world[u] \in Nat
      BY <2>1
    <3>2. asked[u] \in Seq(Asked(world[u])) /\ cache[u] \in Version(world[u])
      BY <3>1, VersionFacts
    <3> QED
      BY <3>1, <3>2 DEF UpstreamHolds
  <2>4. \A s \in Clients : ClientHolds(s)
    BY <2>1 DEF ClientHolds
  <2> QED
    BY <2>2, <2>3, <2>4 DEF FederationIInv
<1>2. FederationIInv /\ [JointNext]_JointVars => FederationIInv'
  <2> SUFFICES ASSUME FederationIInv, [JointNext]_JointVars
               PROVE  FederationIInv'
    OBVIOUS
  <2>1. CASE Upstreams!Next
    BY <2>1, FederationStep
  <2>2. CASE UNCHANGED federation
    BY <2>2 DEF federation, FederationIInv, FederationTypes, UpstreamHolds, ClientHolds,
       Upstreams!Registered
  <2> QED
    BY <2>1, <2>2 DEF JointNext, JointVars
<1> QED
  BY <1>1, <1>2, PTL DEF Joint

\* A tool a session registered and its upstream kept offering is routed, for every number
\* of upstreams and sessions and every way lists change, fail and overlap.
THEOREM RegisteredTools == Joint => []RegisteredIsRouted
<1>1. ASSUME FederationIInv, NEW s \in Clients, session[s] # None, fPhase = "up",
             NEW u \in DOMAIN session[s] \ crowded, session[s][u] # None,
             NEW tool \in Offers[u][session[s][u]],
             \A v \in session[s][u] .. world[u] : tool \in Offers[u][v]
      PROVE  Upstreams!Route(u, tool) # {}
  <2>1. ClientHolds(s)
    BY <1>1 DEF FederationIInv
  <2>2. u \in Upstreams!Names /\ u \in Upstreams!Registered /\ NotNewer(session[s][u], cache[u])
    BY <1>1, <2>1 DEF ClientHolds
  <2>3. world[u] \in Nat /\ cache[u] \in Version(world[u])
    BY <1>1, <2>2 DEF FederationIInv, FederationTypes, UpstreamHolds
  <2>4. session[s][u] \in Nat /\ cache[u] \in Nat /\ session[s][u] <= cache[u] /\ cache[u] # None
    BY <1>1, <2>2, NoneAssumption DEF NotNewer
  <2>5. cache[u] <= world[u]
    BY <2>3, <2>4, VersionFacts
  <2>6. cache[u] \in session[s][u] .. world[u]
    BY <2>3, <2>4, <2>5
  <2>7. tool \in Upstreams!ToolsOf(u)
    BY <1>1, <2>4, <2>6 DEF Upstreams!ToolsOf
  <2> QED
    BY <2>2, <2>7 DEF Upstreams!Route
<1>2. FederationIInv => RegisteredIsRouted
  BY <1>1 DEF RegisteredIsRouted, Upstreams!RegisteredIsRouted
<1> QED
  BY <1>2, FederationInvariant, PTL

----------------------------------------------------------------------------
\* The last numbers up to n: what a ring of records holds.
LastOf(r, n) ==
    /\ r \in Seq(Nat) /\ Len(r) <= n
    /\ \A k \in 1 .. Len(r) : r[k] = n - Len(r) + k

\* The ring of the history is the last of the records: each has the number of its place,
\* and what is missing has left the window or has as many records behind it as fit.
RingHolds ==
    LET n == Len(hMade)
        m == Len(hRing)
    IN  /\ LastOf(hRing, n) /\ m <= RingMax
        /\ \A i \in 1 .. n - m : hMade[i].ts + Retention < now \/ n - i >= RingMax
        /\ \A i \in 1 .. n : hMade[i].ts <= now
        /\ \A i, j \in 1 .. n : i <= j => hMade[i].ts <= hMade[j].ts

LEMMA HistoryKeeps ==
    ASSUME NEW s, NEW wanted
    PROVE  History!Kept(s, wanted) = Filtered(s, wanted)
  BY Zenon DEF History!Kept, History!FoldLeft, History!MapThenFoldSet, History!Max, Filtered, FoldLeft, MapThenFoldSet, Max

\* What is left of them in a window that does not close again.
LEMMA InsideWindow ==
    ASSUME NEW n \in Nat, NEW r, LastOf(r, n),
           NEW window, \A i, j \in 1 .. n : i <= j /\ i \in window => j \in window
    PROVE  /\ LastOf(Filtered(r, window), n) /\ Len(Filtered(r, window)) <= Len(r)
           /\ \A i \in n - Len(r) + 1 .. n - Len(Filtered(r, window)) : i \notin window
<1> DEFINE m == Len(r)
<1>1. /\ r \in Seq(Nat) /\ m \in Nat /\ m <= n
      /\ \A k \in 1 .. m : r[k] = n - m + k
  BY DEF LastOf
<1>2. \A j, k \in 1 .. m : j <= k /\ r[j] \in window => r[k] \in window
  <2> SUFFICES ASSUME NEW j \in 1 .. m, NEW k \in 1 .. m, j <= k, r[j] \in window
               PROVE  r[k] \in window
    OBVIOUS
  <2>1. r[j] = n - m + j /\ r[k] = n - m + k
    BY <1>1
  <2>2. r[j] \in 1 .. n /\ r[k] \in 1 .. n /\ r[j] <= r[k]
    BY <1>1, <2>1
  <2> QED
    BY <2>2
<1>3. PICK kept \in Seq(Nat) : kept = Filtered(r, window)
  BY <1>1, <1>2, FilteredSuffix, Zenon
<1>4. PICK c \in 0 .. m : /\ Len(kept) = m - c /\ \A i \in 1 .. m - c : kept[i] = r[c + i]
                          /\ \A j \in 1 .. m : r[j] \in window <=> j > c
  BY <1>1, <1>2, <1>3, FilteredSuffix, Zenon
<1> HIDE DEF m
<1>5. ASSUME NEW i \in 1 .. m - c
      PROVE  kept[i] = n - m + c + i
  <2>1. c + i \in 1 .. m
    BY <1>1
  <2>2. kept[i] = r[c + i] /\ r[c + i] = n - m + (c + i)
    BY <1>1, <1>4, <2>1
  <2> QED
    BY <1>1, <2>2
<1>6. ASSUME NEW i \in n - m + 1 .. n - m + c
      PROVE  i \notin window
  <2>1. i - (n - m) \in 1 .. m /\ ~(i - (n - m) > c)
    BY <1>1
  <2>2. r[i - (n - m)] = n - m + (i - (n - m))
    BY <1>1, <2>1
  <2>3. r[i - (n - m)] = i
    BY <1>1, <2>2
  <2> QED
    BY <1>4, <2>1, <2>3
<1>7. n - Len(kept) = n - m + c /\ Len(kept) <= m /\ Len(kept) <= n
  BY <1>1, <1>4
<1>8. LastOf(kept, n)
  BY <1>4, <1>5, <1>7 DEF LastOf
<1> QED
  BY <1>3, <1>6, <1>7, <1>8 DEF m

\* And what is left of those in a ring of size RingMax.
LEMMA InsideRing ==
    ASSUME NEW n \in Nat, NEW kept, LastOf(kept, n), Len(kept) > RingMax
    PROVE  LET q == SubSeq(kept, Len(kept) - RingMax + 1, Len(kept)) IN LastOf(q, n) /\ Len(q) = RingMax
<1> DEFINE q == SubSeq(kept, Len(kept) - RingMax + 1, Len(kept))
           l == Len(kept)
           d == l - RingMax
<1>1. /\ kept \in Seq(Nat) /\ l \in Nat /\ l <= n /\ RingMax \in Nat
      /\ \A k \in 1 .. l : kept[k] = n - l + k
  BY BoundsAssumption DEF LastOf
<1>2. d \in Nat /\ l - RingMax + 1 = d + 1 /\ l = d + RingMax /\ RingMax <= n
  BY <1>1
<1>3. q = SubSeq(kept, d + 1, d + RingMax)
  BY <1>2
<1> HIDE DEF d, l
<1>4. q \in Seq(Nat) /\ Len(q) = RingMax /\ \A k \in 1 .. RingMax : q[k] = kept[d + k]
  BY <1>1, <1>2, <1>3
<1> HIDE DEF q
<1>5. ASSUME NEW k \in 1 .. RingMax
      PROVE  q[k] = n - RingMax + k
  <2>1. d + k \in 1 .. l
    BY <1>1, <1>2
  <2>2. q[k] = n - l + (d + k)
    BY <1>1, <1>4, <2>1
  <2> QED
    BY <1>1, <1>2, <2>2
<1>6. LastOf(q, n) /\ Len(q) = RingMax
  BY <1>2, <1>4, <1>5 DEF LastOf
<1> QED
  BY <1>6 DEF q

LEMMA MadeTimes ==
    ASSUME HistoryIInv
    PROVE  \A i \in 1 .. Len(hMade) : hMade[i].ts \in Nat
<1> DEFINE R == [ts : Nat, tenant : Tenants]
<1>1. hMade \in Seq(R)
  BY DEF HistoryIInv
<1>2. \A x \in R : x.ts \in Nat
  OBVIOUS
<1> HIDE DEF R
<1>3. \A i \in 1 .. Len(hMade) : hMade[i] \in R
  BY <1>1
<1> QED
  BY <1>2, <1>3

\* A record is pushed: the ring that held the last of n records holds the last of n + 1.
LEMMA RingPushed ==
    ASSUME RingHolds, HistoryIInv, NEW tenant \in Tenants, History!Record(tenant)
    PROVE  RingHolds'
<1> DEFINE n == Len(hMade)
           r == [ts |-> now, tenant |-> tenant]
           longer == Append(hRing, n + 1)
           window == History!InWindow(hMade', now)
<1>1. /\ hMade \in Seq([ts : Nat, tenant : Tenants]) /\ now \in Nat /\ n \in Nat /\ RingMax \in Nat /\ Retention \in Nat
      /\ hMade' = Append(hMade, r) /\ now' = now
      /\ hRing' = History!PushRing(hRing, Len(hMade'), hMade', now)
  BY BoundsAssumption DEF HistoryIInv, History!Record
<1>0. n \in Nat /\ RingMax \in Nat /\ Retention \in Nat /\ now \in Nat /\ now' = now
  BY <1>1
<1>2. /\ Len(hMade') = n + 1 /\ DOMAIN hMade' = 1 .. n + 1 /\ hMade'[n + 1].ts = now
      /\ \A i \in 1 .. n : hMade'[i] = hMade[i] /\ hMade[i].ts \in Nat
  <2>1. r \in [ts : Nat, tenant : Tenants] /\ r.ts = now
    BY <1>0
  <2>3. \A i \in 1 .. n : hMade[i].ts \in Nat
    BY MadeTimes DEF n
  <2> HIDE DEF r
  <2>4. /\ Len(hMade') = n + 1 /\ DOMAIN hMade' = 1 .. n + 1 /\ hMade'[n + 1] = r
        /\ \A i \in 1 .. n : hMade'[i] = hMade[i]
    BY <1>1, <2>1
  <2> QED
    BY <2>1, <2>3, <2>4
<1>3. /\ LastOf(hRing, n) /\ Len(hRing) <= RingMax
      /\ \A i \in 1 .. n - Len(hRing) : hMade[i].ts + Retention < now \/ n - i >= RingMax
      /\ \A i \in 1 .. n : hMade[i].ts <= now
      /\ \A i, j \in 1 .. n : i <= j => hMade[i].ts <= hMade[j].ts
  BY DEF RingHolds
<1>4. /\ hRing \in Seq(Nat) /\ Len(hRing) \in Nat /\ Len(hRing) <= n
      /\ \A k \in 1 .. Len(hRing) : hRing[k] = n - Len(hRing) + k
  BY <1>3 DEF LastOf
<1> HIDE DEF n, r
<1>5. /\ longer \in Seq(Nat) /\ Len(longer) = Len(hRing) + 1 /\ longer[Len(hRing) + 1] = n + 1
      /\ \A k \in 1 .. Len(hRing) : longer[k] = hRing[k]
  BY <1>0, <1>4
<1> HIDE DEF longer
<1>6. LastOf(longer, n + 1)
  <2>1. ASSUME NEW k \in 1 .. Len(longer)
        PROVE  longer[k] = (n + 1) - Len(longer) + k
    <3>1. CASE k \in 1 .. Len(hRing)
      BY <1>0, <1>4, <1>5, <3>1
    <3>2. CASE k = Len(hRing) + 1
      BY <1>0, <1>4, <1>5, <3>2
    <3> QED
      BY <1>4, <1>5, <3>1, <3>2
  <2> QED
    BY <1>0, <1>4, <1>5, <2>1 DEF LastOf
<1>7. \A i, j \in 1 .. n + 1 : i <= j => hMade'[i].ts <= hMade'[j].ts /\ hMade'[i].ts \in Nat /\ hMade'[j].ts \in Nat
  <2> SUFFICES ASSUME NEW i \in 1 .. n + 1, NEW j \in 1 .. n + 1, i <= j
               PROVE  hMade'[i].ts <= hMade'[j].ts /\ hMade'[i].ts \in Nat /\ hMade'[j].ts \in Nat
    OBVIOUS
  <2>1. CASE j \in 1 .. n
    <3>1. i \in 1 .. n
      BY <1>0, <2>1
    <3> QED
      BY <1>2, <1>3, <2>1, <3>1
  <2>2. CASE j = n + 1
    <3>1. CASE i = n + 1
      BY <1>0, <1>2, <2>2, <3>1
    <3>2. CASE i \in 1 .. n
      BY <1>0, <1>2, <1>3, <2>2, <3>2
    <3> QED
      BY <1>0, <3>1, <3>2
  <2> QED
    BY <1>0, <2>1, <2>2
<1>8. \A i \in 1 .. n + 1 : i \in window <=> hMade'[i].ts + Retention >= now
  BY <1>2 DEF History!InWindow
<1> HIDE DEF window
<1>9. \A i, j \in 1 .. n + 1 : i <= j /\ i \in window => j \in window
  <2> SUFFICES ASSUME NEW i \in 1 .. n + 1, NEW j \in 1 .. n + 1, i <= j, i \in window
               PROVE  j \in window
    OBVIOUS
  <2>1. hMade'[i].ts + Retention >= now /\ hMade'[i].ts <= hMade'[j].ts /\ hMade'[i].ts \in Nat /\ hMade'[j].ts \in Nat
    BY <1>7, <1>8
  <2>2. hMade'[j].ts + Retention >= now
    BY <1>0, <2>1
  <2> QED
    BY <1>8, <2>2
<1> DEFINE kept == Filtered(longer, window)
<1>10. /\ LastOf(kept, n + 1) /\ Len(kept) <= Len(longer)
       /\ \A i \in (n + 1) - Len(longer) + 1 .. (n + 1) - Len(kept) : i \notin window
  <2>1. n + 1 \in Nat
    BY <1>0
  <2> QED
    BY <1>6, <1>9, <2>1, InsideWindow, Zenon
<1>11. hRing' = IF Len(kept) > RingMax THEN SubSeq(kept, Len(kept) - RingMax + 1, Len(kept)) ELSE kept
  BY <1>1, <1>2, HistoryKeeps, Zenon DEF History!PushRing, longer, window
<1> HIDE DEF kept
<1>12. Len(kept) \in Nat /\ n + 1 \in Nat
  BY <1>0, <1>10 DEF LastOf
<1>13. /\ LastOf(hRing', n + 1) /\ Len(hRing') <= RingMax
       /\ Len(hRing') = Len(kept) \/ Len(hRing') = RingMax
  <2>1. CASE Len(kept) > RingMax
    BY <1>0, <1>10, <1>11, <1>12, <2>1, InsideRing
  <2>2. CASE ~(Len(kept) > RingMax)
    BY <1>0, <1>10, <1>11, <1>12, <2>2
  <2> QED
    BY <2>1, <2>2
<1>14. ASSUME NEW i \in 1 .. (n + 1) - Len(hRing')
       PROVE  hMade'[i].ts + Retention < now \/ (n + 1) - i >= RingMax
  <2>1. CASE Len(hRing') = RingMax
    BY <1>0, <2>1
  <2>2. CASE Len(hRing') = Len(kept)
    <3>1. CASE i <= n - Len(hRing)
      <4>1. i \in 1 .. n - Len(hRing) /\ i \in 1 .. n
        BY <1>0, <1>4, <3>1
      <4>2. hMade[i].ts + Retention < now \/ n - i >= RingMax
        BY <1>3, <4>1
      <4>3. n - i >= RingMax => (n + 1) - i >= RingMax
        BY <1>0, <4>1
      <4> QED
        BY <1>2, <4>1, <4>2, <4>3
    <3>2. CASE ~(i <= n - Len(hRing))
      <4>1. i \in (n + 1) - Len(longer) + 1 .. (n + 1) - Len(kept) /\ i \in 1 .. n + 1
        BY <1>0, <1>4, <1>5, <1>12, <2>2, <3>2
      <4>2. ~(hMade'[i].ts + Retention >= now)
        BY <1>8, <1>10, <4>1
      <4> QED
        BY <1>0, <1>7, <4>1, <4>2
    <3> QED
      BY <3>1, <3>2
  <2> QED
    BY <1>13, <2>1, <2>2
<1>15. \A i \in 1 .. n + 1 : hMade'[i].ts <= now
  <2>1. n + 1 \in 1 .. n + 1 /\ \A i \in 1 .. n + 1 : i <= n + 1
    BY <1>0
  <2> QED
    BY <1>2, <1>7, <2>1
<1>16. \A i, j \in 1 .. n + 1 : i <= j => hMade'[i].ts <= hMade'[j].ts
  BY <1>7
<1> QED
  BY <1>0, <1>1, <1>2, <1>13, <1>14, <1>15, <1>16 DEF RingHolds

LEMMA RingStep == RingHolds /\ HistoryIInv /\ History!Next => RingHolds'
<1> SUFFICES ASSUME RingHolds, HistoryIInv, History!Next
             PROVE  RingHolds'
  OBVIOUS
<1>1. ASSUME NEW tenant \in Tenants, History!Record(tenant)
      PROVE  RingHolds'
  BY <1>1, RingPushed
<1>2. CASE UNCHANGED <<now, hMade, hRing>>
  BY <1>2 DEF RingHolds, LastOf
<1>3. CASE History!Tick
  <2>1. UNCHANGED <<hMade, hRing>> /\ now' = now + 1 /\ now \in Nat /\ Retention \in Nat
    BY <1>3, BoundsAssumption DEF History!Tick, HistoryIInv
  <2>2. \A i \in 1 .. Len(hMade) : hMade[i].ts \in Nat
    BY MadeTimes
  <2>3. \A i \in 1 .. Len(hMade) : (hMade[i].ts <= now => hMade[i].ts <= now')
                                   /\ (hMade[i].ts + Retention < now => hMade[i].ts + Retention < now')
    BY <2>1, <2>2
  <2>4. 1 .. Len(hMade) - Len(hRing) \subseteq 1 .. Len(hMade)
    BY DEF RingHolds, LastOf
  <2> QED
    BY <2>1, <2>3, <2>4 DEF RingHolds, LastOf
<1>4. CASE \/ History!TimerFlush \/ History!Posted \/ History!Stop \/ History!StopResolves
           \/ \E taken \in BOOLEAN : History!PostFails(taken)
  BY <1>2, <1>4 DEF History!TimerFlush, History!Posted, History!Stop, History!StopResolves, History!PostFails
<1> QED
  BY <1>1, <1>3, <1>4 DEF History!Next

\* The numbers after n, in order.
Following(s, n) == s \in Seq(Nat) /\ \A k \in 1 .. Len(s) : s[k] = n + k

LEMMA FollowingAppend ==
    ASSUME NEW s, NEW n \in Nat, Following(s, n)
    PROVE  /\ Len(s) \in Nat /\ Len(Append(s, n + Len(s) + 1)) = Len(s) + 1
           /\ Following(Append(s, n + Len(s) + 1), n)
<1> DEFINE l == Len(s)
           a == Append(s, n + l + 1)
<1>1. s \in Seq(Nat) /\ l \in Nat /\ n + l + 1 \in Nat /\ \A k \in 1 .. l : s[k] = n + k
  BY DEF Following
<1>2. a \in Seq(Nat) /\ Len(a) = l + 1 /\ a[l + 1] = n + l + 1 /\ \A k \in 1 .. l : a[k] = s[k]
  BY <1>1
<1> HIDE DEF a, l
<1>3. ASSUME NEW k \in 1 .. l + 1
      PROVE  a[k] = n + k
  <2>1. CASE k = l + 1
    BY <1>1, <1>2, <2>1
  <2>2. CASE k \in 1 .. l
    BY <1>1, <1>2, <2>2
  <2> QED
    BY <1>1, <2>1, <2>2
<1>4. Following(a, n)
  BY <1>2, <1>3 DEF Following
<1> QED
  BY <1>1, <1>2, <1>4 DEF a, l

LEMMA FollowingJoined ==
    ASSUME NEW s, NEW t, NEW n \in Nat, Following(s, n), Following(t, n + Len(s))
    PROVE  /\ Len(s) \in Nat /\ Len(t) \in Nat /\ Len(s \o t) = Len(s) + Len(t)
           /\ Following(s \o t, n)
<1> DEFINE l == Len(s)
           m == Len(t)
           c == s \o t
<1>1. /\ s \in Seq(Nat) /\ l \in Nat /\ \A k \in 1 .. l : s[k] = n + k
      /\ t \in Seq(Nat) /\ m \in Nat /\ \A k \in 1 .. m : t[k] = n + l + k
  BY DEF Following
<1>2. /\ c \in Seq(Nat) /\ Len(c) = l + m
      /\ \A k \in 1 .. l : c[k] = s[k]
      /\ \A k \in 1 .. m : c[l + k] = t[k]
  BY <1>1
<1> HIDE DEF c, l, m
<1>3. ASSUME NEW k \in 1 .. l + m
      PROVE  c[k] = n + k
  <2>1. CASE k \in 1 .. l
    BY <1>1, <1>2, <2>1
  <2>2. CASE k > l
    <3>1. k - l \in 1 .. m /\ l + (k - l) = k
      BY <1>1, <2>2
    <3>2. c[k] = t[k - l] /\ t[k - l] = n + l + (k - l)
      BY <1>1, <1>2, <3>1
    <3> QED
      BY <1>1, <3>2
  <2> QED
    BY <1>1, <2>1, <2>2
<1>4. Following(c, n)
  BY <1>2, <1>3 DEF Following
<1> QED
  BY <1>1, <1>2, <1>4 DEF c, l, m

\* Every record is settled, in flight or in the buffer, in the order it was made; what the
\* database took is some of what is settled, in that order; and a stop that found no post
\* in flight leaves no record made before it in the buffer.
SettledHolds ==
    LET s == Len(hSettled)
        f == Len(InFlight)
    IN  /\ Following(hSettled, 0) /\ Following(InFlight, s) /\ Following(hBuffer, s + f)
        /\ hEnabled => Len(hMade) = s + f + Len(hBuffer)
        /\ sent \in Seq(Nat)
        /\ \A k \in 1 .. Len(sent) : sent[k] <= s
        /\ \A i, j \in 1 .. Len(sent) : i < j => sent[i] < sent[j]
        /\ stopping = None \/ stopping \in Nat
        /\ stopped \in BOOLEAN /\ clean \in BOOLEAN
        /\ stopping # None /\ clean = TRUE /\ hEnabled => stopping <= s + f
        /\ stopped = TRUE => stopping # None /\ (clean = TRUE /\ hEnabled => stopping <= s)

\* A flush of a buffer that continues what is in flight.
LEMMA FlushFollows ==
    ASSUME HistoryIInv, NEW s \in Nat, Following(InFlight, s),
           NEW buf \in Seq(1 .. MaxRecords), Following(buf, s + Len(InFlight)), History!Flush(buf)
    PROVE  /\ Following(InFlight', s) /\ Following(hBuffer', s + Len(InFlight'))
           /\ Len(InFlight) <= Len(InFlight')
           /\ Len(InFlight') + Len(hBuffer') = Len(InFlight) + Len(buf)
           /\ hEnabled /\ hBatch = None => Len(hBuffer') = 0
           /\ hBatch = None => Len(InFlight) = 0
           /\ buf = << >> => Len(InFlight') = Len(InFlight)
<1>1. /\ Len(buf) \in Nat /\ InFlight \in Seq(1 .. MaxRecords) /\ Len(InFlight) \in Nat
      /\ << >> \in Seq(Nat) /\ Len(<< >>) = 0
  BY InFlightIs
<1>2. hBatch = None => InFlight = << >>
  BY DEF InFlight
<1>3. CASE hEnabled /\ buf # << >> /\ hBatch = None
  <2>1. hBatch' = buf /\ hBuffer' = << >>
    BY <1>3 DEF History!Flush
  <2>2. buf # None
    <3>1. buf \in Seq(Nat)
      BY DEF Following
    <3> QED
      BY <3>1, NoneAssumption
  <2>3. InFlight' = buf /\ InFlight = << >> /\ Len(InFlight) = 0
    BY <1>1, <1>2, <1>3, <2>1, <2>2 DEF InFlight
  <2>4. Following(InFlight', s)
    <3>1. s + 0 = s
      OBVIOUS
    <3> QED
      BY <2>3, <3>1
  <2>5. Following(hBuffer', s + Len(InFlight'))
    BY <1>1, <2>1 DEF Following
  <2> QED
    BY <1>1, <1>3, <2>1, <2>3, <2>4, <2>5
<1>4. CASE ~(hEnabled /\ buf # << >> /\ hBatch = None)
  <2>1. hBuffer' = buf /\ InFlight' = InFlight
    BY <1>4 DEF History!Flush, InFlight
  <2>2. hEnabled /\ hBatch = None => Len(buf) = 0
    BY <1>1, <1>4
  <2>3. hBatch = None => Len(InFlight) = 0
    BY <1>1, <1>2
  <2> QED
    BY <1>1, <2>1, <2>2, <2>3
<1> QED
  BY <1>3, <1>4

LEMMA SettledLengths ==
    ASSUME SettledHolds
    PROVE  Len(hSettled) \in Nat /\ Len(InFlight) \in Nat /\ Len(hBuffer) \in Nat
BY DEF SettledHolds, Following

\* A record joins the buffer, which is flushed when it is full.
Joins ==
    /\ Len(hMade') = Len(hMade) + 1
    /\ Append(hBuffer, Len(hMade')) \in Seq(1 .. MaxRecords)
    /\ \/ History!Flush(Append(hBuffer, Len(hMade')))
       \/ hBuffer' = Append(hBuffer, Len(hMade')) /\ hBatch' = hBatch

\* What stop notes beside its flush.
Notes ==
    /\ stopping' = Len(hMade) /\ clean' = (hBatch = None)
    /\ stopped' = (~hEnabled \/ hBatch # None \/ hBuffer = << >>)

\* A flush of the buffer, or of one that a record has joined.
LEMMA FlushSettles ==
    ASSUME SettledHolds, HistoryIInv, hEnabled' = hEnabled, hSettled' = hSettled, sent' = sent,
           (hMade' = hMade /\ History!Flush(hBuffer)) \/ (hEnabled /\ Joins),
           UNCHANGED <<stopping, clean, stopped>> \/ (hMade' = hMade /\ Notes)
    PROVE  SettledHolds'
<1> DEFINE s == Len(hSettled)
           f == Len(InFlight)
<1>1. s \in Nat /\ f \in Nat /\ Len(hBuffer) \in Nat
  BY SettledLengths
<1>2. /\ Following(hSettled, 0) /\ Following(InFlight, s) /\ Following(hBuffer, s + f)
      /\ hEnabled => Len(hMade) = s + f + Len(hBuffer)
      /\ sent \in Seq(Nat)
      /\ \A k \in 1 .. Len(sent) : sent[k] <= s
      /\ \A i, j \in 1 .. Len(sent) : i < j => sent[i] < sent[j]
  BY DEF SettledHolds
<1>3. /\ stopping = None \/ stopping \in Nat
      /\ stopped \in BOOLEAN /\ clean \in BOOLEAN
      /\ stopping # None /\ clean = TRUE /\ hEnabled => stopping <= s + f
      /\ stopped = TRUE => stopping # None /\ (clean = TRUE /\ hEnabled => stopping <= s)
  BY DEF SettledHolds
<1>4. Len(hMade) \in Nat
  BY DEF HistoryIInv
<1> HIDE DEF s
<1>5. /\ Following(InFlight', s) /\ Following(hBuffer', s + Len(InFlight'))
      /\ f <= Len(InFlight')
      /\ hEnabled => Len(hMade') = s + Len(InFlight') + Len(hBuffer')
      /\ hMade' = hMade /\ hEnabled /\ hBatch = None => Len(hBuffer') = 0 /\ f = 0
      /\ hMade' = hMade /\ hBuffer = << >> => Len(InFlight') = f
  <2>1. CASE hMade' = hMade /\ History!Flush(hBuffer)
    <3>1. hBuffer \in Seq(1 .. MaxRecords)
      BY DEF HistoryIInv
    <3>2. /\ Following(InFlight', s) /\ Following(hBuffer', s + Len(InFlight'))
          /\ f <= Len(InFlight')
          /\ Len(InFlight') + Len(hBuffer') = f + Len(hBuffer)
          /\ hEnabled /\ hBatch = None => Len(hBuffer') = 0
          /\ hBatch = None => f = 0
          /\ hBuffer = << >> => Len(InFlight') = f
      BY <1>1, <1>2, <2>1, <3>1, FlushFollows
    <3>3. Len(InFlight') \in Nat /\ Len(hBuffer') \in Nat
      BY <3>2 DEF Following
    <3>4. hEnabled => Len(hMade') = s + Len(InFlight') + Len(hBuffer')
      <4>1. hEnabled => Len(hMade') = s + f + Len(hBuffer)
        BY <1>2, <2>1
      <4>2. Len(InFlight') + Len(hBuffer') = f + Len(hBuffer)
        BY <3>2
      <4> HIDE DEF f
      <4> QED
        BY <1>1, <3>3, <4>1, <4>2
    <3> QED
      BY <3>2, <3>4
  <2>2. CASE hEnabled /\ Joins
    <3> DEFINE buf == Append(hBuffer, (s + f) + Len(hBuffer) + 1)
    <3>0. Len(hMade') = Len(hMade) + 1
      BY <2>2 DEF Joins
    <3>1. Len(hMade') = (s + f) + Len(hBuffer) + 1 /\ hMade' # hMade
      <4>1. Len(hMade) = s + f + Len(hBuffer)
        BY <1>2, <2>2
      <4>2. Len(hMade') # Len(hMade)
        BY <1>4, <3>0
      <4> HIDE DEF f
      <4> QED
        BY <1>1, <3>0, <4>1, <4>2
    <3>2. Len(buf) = Len(hBuffer) + 1 /\ Following(buf, s + f)
      <4>1. s + f \in Nat
        BY <1>1
      <4> HIDE DEF f
      <4> QED
        BY <1>2, <4>1, FollowingAppend
    <3>3. buf \in Seq(1 .. MaxRecords) /\ (History!Flush(buf) \/ (hBuffer' = buf /\ hBatch' = hBatch))
      BY <2>2, <3>1 DEF Joins
    <3> HIDE DEF buf
    <3>4. /\ Following(InFlight', s) /\ Following(hBuffer', s + Len(InFlight'))
          /\ f <= Len(InFlight')
          /\ Len(InFlight') + Len(hBuffer') = f + Len(buf)
      <4>1. CASE History!Flush(buf)
        BY <1>1, <1>2, <3>2, <3>3, <4>1, FlushFollows
      <4>2. CASE hBuffer' = buf /\ hBatch' = hBatch
        <5>1. InFlight' = InFlight
          BY <4>2 DEF InFlight
        <5>2. Len(InFlight') = f /\ hBuffer' = buf
          BY <4>2, <5>1
        <5> HIDE DEF f
        <5> QED
          BY <1>1, <1>2, <3>2, <5>1, <5>2
      <4> QED
        BY <3>3, <4>1, <4>2
    <3>5. Len(InFlight') \in Nat /\ Len(hBuffer') \in Nat
      BY <3>4 DEF Following
    <3>6. Len(hMade') = s + Len(InFlight') + Len(hBuffer')
      BY <1>1, <3>1, <3>2, <3>4, <3>5
    <3> QED
      BY <3>1, <3>4, <3>6
  <2> QED
    BY <2>1, <2>2
<1>6. Len(InFlight') \in Nat /\ Len(hBuffer') \in Nat
  BY <1>5 DEF Following
<1> HIDE DEF f
<1>7. /\ stopping' = None \/ stopping' \in Nat
      /\ stopped' \in BOOLEAN /\ clean' \in BOOLEAN
      /\ stopping' # None /\ clean' = TRUE /\ hEnabled' => stopping' <= s + Len(InFlight')
      /\ stopped' = TRUE => stopping' # None /\ (clean' = TRUE /\ hEnabled' => stopping' <= s)
  <2>1. CASE UNCHANGED <<stopping, clean, stopped>>
    <3>1. stopping \in Nat /\ stopping <= s + f => stopping <= s + Len(InFlight')
      BY <1>1, <1>5, <1>6
    <3> QED
      BY <1>3, <2>1, <3>1, NoneAssumption
  <2>2. CASE hMade' = hMade /\ Notes
    <3>0. /\ hMade' = hMade /\ stopping' = Len(hMade) /\ clean' = (hBatch = None)
          /\ stopped' = (~hEnabled \/ hBatch # None \/ hBuffer = << >>)
      BY <2>2 DEF Notes
    <3>1. stopping' \in Nat /\ stopping' # None /\ stopped' \in BOOLEAN /\ clean' \in BOOLEAN
      BY <1>4, <3>0, NoneAssumption
    <3>2. ASSUME clean' = TRUE, hEnabled
          PROVE  stopping' <= s + Len(InFlight') /\ (hBuffer = << >> => stopping' <= s)
      <4>1. hBatch = None
        BY <3>0, <3>2
      <4>2. Len(hBuffer') = 0 /\ f = 0 /\ stopping' = s + Len(InFlight') + Len(hBuffer')
            /\ (hBuffer = << >> => Len(InFlight') = f)
        BY <1>5, <3>0, <3>2, <4>1
      <4> QED
        BY <1>1, <1>6, <4>2
    <3>3. stopped' = TRUE /\ clean' = TRUE /\ hEnabled => hBuffer = << >>
      BY <3>0
    <3> QED
      BY <3>1, <3>2, <3>3
  <2> QED
    BY <2>1, <2>2
<1>8. Len(hSettled') = s
  BY DEF s
<1> QED
  BY <1>2, <1>5, <1>7, <1>8 DEF SettledHolds

\* A post ends; what the database took of it goes behind what it had.
LEMMA PostSettles ==
    ASSUME SettledHolds, HistoryIInv, hBatch # None, hBatch' = None, hSettled' = hSettled \o hBatch,
           sent' = sent \o hBatch \/ sent' = sent,
           UNCHANGED <<hEnabled, hMade, hBuffer, stopping, clean, stopped>>
    PROVE  SettledHolds'
<1> DEFINE s == Len(hSettled)
           f == Len(InFlight)
<1>1. s \in Nat /\ f \in Nat /\ Len(hBuffer) \in Nat
  BY SettledLengths
<1>2. /\ Following(hSettled, 0) /\ Following(InFlight, s) /\ Following(hBuffer, s + f)
      /\ hEnabled => Len(hMade) = s + f + Len(hBuffer)
      /\ sent \in Seq(Nat)
      /\ \A k \in 1 .. Len(sent) : sent[k] <= s
      /\ \A i, j \in 1 .. Len(sent) : i < j => sent[i] < sent[j]
  BY DEF SettledHolds
<1>3. /\ stopping = None \/ stopping \in Nat
      /\ stopped \in BOOLEAN /\ clean \in BOOLEAN
      /\ stopping # None /\ clean = TRUE /\ hEnabled => stopping <= s + f
      /\ stopped = TRUE => stopping # None /\ (clean = TRUE /\ hEnabled => stopping <= s)
  BY DEF SettledHolds
<1>4. InFlight = hBatch /\ InFlight' = << >>
  BY DEF InFlight
<1>5. Len(hSettled') = s + f /\ Following(hSettled', 0)
  <2>1. Following(InFlight, 0 + s)
    BY <1>1, <1>2
  <2> QED
    BY <1>2, <1>4, <2>1, FollowingJoined
<1>6. Len(InFlight') = 0 /\ Following(InFlight', s + f)
  BY <1>4 DEF Following
<1>7. hBatch \in Seq(Nat) /\ Len(hBatch) = f /\ \A k \in 1 .. f : hBatch[k] = s + k
  BY <1>2, <1>4 DEF Following
<1> HIDE DEF s, f
<1>8. /\ sent' \in Seq(Nat)
      /\ \A k \in 1 .. Len(sent') : sent'[k] <= s + f
      /\ \A i, j \in 1 .. Len(sent') : i < j => sent'[i] < sent'[j]
  <2>1. CASE sent' = sent
    <3>1. \A k \in 1 .. Len(sent) : sent[k] \in Nat
      BY <1>2
    <3>2. \A k \in 1 .. Len(sent) : sent[k] <= s + f
      BY <1>1, <1>2, <3>1
    <3> QED
      BY <1>2, <2>1, <3>2
  <2>2. CASE sent' = sent \o hBatch
    <3> DEFINE l == Len(sent)
    <3>1. /\ sent' \in Seq(Nat) /\ l \in Nat /\ Len(sent') = l + f
          /\ \A k \in 1 .. l : sent'[k] = sent[k] /\ sent[k] \in Nat
          /\ \A k \in 1 .. f : sent'[l + k] = hBatch[k]
      <4>1. PICK a \in Seq(Nat) : a = sent
        BY <1>2
      <4>2. PICK b \in Seq(Nat) : b = hBatch /\ Len(b) = f
        BY <1>7
      <4>3. /\ a \o b \in Seq(Nat) /\ Len(a) \in Nat /\ Len(a \o b) = Len(a) + Len(b)
            /\ \A k \in 1 .. Len(a) : (a \o b)[k] = a[k] /\ a[k] \in Nat
            /\ \A k \in 1 .. Len(b) : (a \o b)[Len(a) + k] = b[k]
        OBVIOUS
      <4> QED
        BY <2>2, <4>1, <4>2, <4>3
    <3>2. \A k \in 1 .. l : sent[k] <= s
      BY <1>2
    <3>3. \A i, j \in 1 .. l : i < j => sent[i] < sent[j]
      BY <1>2
    <3> HIDE DEF l
    <3>4. ASSUME NEW k \in l + 1 .. l + f
          PROVE  sent'[k] = s + (k - l)
      <4>1. k - l \in 1 .. f /\ l + (k - l) = k
        BY <1>1, <3>1
      <4> QED
        BY <1>7, <3>1, <4>1
    <3>5. ASSUME NEW k \in 1 .. l + f
          PROVE  sent'[k] <= s + f
      <4>1. CASE k \in 1 .. l
        BY <1>1, <3>1, <3>2, <4>1
      <4>2. CASE k \in l + 1 .. l + f
        BY <1>1, <3>1, <3>4, <4>2
      <4> QED
        BY <3>1, <4>1, <4>2
    <3>6. ASSUME NEW i \in 1 .. l + f, NEW j \in 1 .. l + f, i < j
          PROVE  sent'[i] < sent'[j]
      <4>1. CASE j \in 1 .. l
        <5>1. i \in 1 .. l
          BY <3>1, <3>6, <4>1
        <5> QED
          BY <3>1, <3>3, <3>6, <4>1, <5>1
      <4>2. CASE j \in l + 1 .. l + f /\ i \in 1 .. l
        <5>1. sent'[i] = sent[i] /\ sent[i] \in Nat /\ sent[i] <= s
          BY <3>1, <3>2, <4>2
        <5>2. sent'[j] = s + (j - l) /\ j - l >= 1 /\ j - l \in Int
          BY <3>1, <3>4, <4>2
        <5> QED
          BY <1>1, <5>1, <5>2
      <4>3. CASE j \in l + 1 .. l + f /\ i \in l + 1 .. l + f
        BY <1>1, <3>1, <3>4, <3>6, <4>3
      <4> QED
        BY <3>1, <4>1, <4>2, <4>3
    <3> QED
      BY <3>1, <3>5, <3>6
  <2> QED
    BY <2>1, <2>2
<1>9. hEnabled' => Len(hMade') = (s + f) + 0 + Len(hBuffer')
  BY <1>1, <1>2
<1>10. /\ stopped' \in BOOLEAN /\ clean' \in BOOLEAN
       /\ stopping' # None /\ clean' = TRUE /\ hEnabled' => stopping' <= (s + f) + 0
       /\ stopped' = TRUE => stopping' # None /\ (clean' = TRUE /\ hEnabled' => stopping' <= s + f)
  BY <1>1, <1>3
<1>11. Following(hBuffer', (s + f) + 0)
  BY <1>1, <1>2
<1> QED
  BY <1>3, <1>5, <1>6, <1>8, <1>9, <1>10, <1>11 DEF SettledHolds

LEMMA SettledStep == SettledHolds /\ HistoryIInv /\ History!Next => SettledHolds'
<1> SUFFICES ASSUME SettledHolds, HistoryIInv, History!Next
             PROVE  SettledHolds'
  OBVIOUS
<1>1. ASSUME NEW tenant \in Tenants, History!Record(tenant)
      PROVE  SettledHolds'
  <2>1. /\ Len(hMade') = Len(hMade) + 1 /\ Len(hMade') \in 1 .. MaxRecords
        /\ UNCHANGED <<hEnabled, hSettled, sent, stopping, clean, stopped>>
    <3>1. /\ hMade' = Append(hMade, [ts |-> now, tenant |-> tenant]) /\ Len(hMade) < MaxRecords
          /\ UNCHANGED <<hEnabled, hSettled, sent, stopping, clean, stopped>>
      BY <1>1 DEF History!Record
    <3>2. PICK r : r = [ts |-> now, tenant |-> tenant]
      OBVIOUS
    <3>3. hMade' = Append(hMade, r) /\ r \in [ts : Nat, tenant : Tenants]
      BY <3>1, <3>2 DEF HistoryIInv
    <3>4. hMade \in Seq([ts : Nat, tenant : Tenants]) /\ Len(hMade) \in Nat /\ MaxRecords \in Nat
      BY BoundsAssumption DEF HistoryIInv
    <3>5. Len(hMade') = Len(hMade) + 1
      BY <3>3, <3>4
    <3> QED
      BY <3>1, <3>4, <3>5
  <2>2. hBuffer \in Seq(1 .. MaxRecords)
    BY DEF HistoryIInv
  <2>3. Append(hBuffer, Len(hMade')) \in Seq(1 .. MaxRecords)
    BY <2>1, <2>2
  <2>4. CASE ~hEnabled
    <3>1. UNCHANGED <<hBuffer, hBatch>>
      BY <1>1, <2>4 DEF History!Record
    <3>2. hEnabled' = FALSE
      BY <2>1, <2>4 DEF HistoryIInv
    <3> QED
      BY <2>1, <3>1, <3>2 DEF SettledHolds, Following, InFlight
  <2>5. CASE hEnabled
    <3>1. \/ History!Flush(Append(hBuffer, Len(hMade')))
          \/ hBuffer' = Append(hBuffer, Len(hMade')) /\ hBatch' = hBatch
      BY <1>1, <2>5 DEF History!Record
    <3>2. Joins
      BY <2>1, <2>3, <3>1 DEF Joins
    <3> QED
      BY <2>1, <2>5, <3>2, FlushSettles
  <2> QED
    BY <2>4, <2>5
<1>2. CASE History!TimerFlush
  <2>1. History!Flush(hBuffer) /\ UNCHANGED <<hEnabled, hMade, hSettled, sent, stopping, clean, stopped>>
    BY <1>2 DEF History!TimerFlush
  <2> QED
    BY <2>1, FlushSettles
<1>3. CASE History!Stop
  <2>1. /\ History!Flush(hBuffer) /\ UNCHANGED <<hEnabled, hMade, hSettled, sent>>
        /\ stopping' = Len(hMade) /\ clean' = (hBatch = None)
        /\ stopped' = (~hEnabled \/ hBatch # None \/ hBuffer = << >>)
    BY <1>3 DEF History!Stop
  <2>2. Notes
    BY <2>1 DEF Notes
  <2> QED
    BY <2>1, <2>2, FlushSettles
<1>4. CASE History!Posted \/ \E taken \in BOOLEAN : History!PostFails(taken)
  <2>1. /\ hBatch # None /\ hBatch' = None /\ hSettled' = hSettled \o hBatch
        /\ sent' = sent \o hBatch \/ sent' = sent
        /\ UNCHANGED <<hEnabled, hMade, hBuffer, stopping, clean, stopped>>
    BY <1>4 DEF History!Posted, History!PostFails
  <2> QED
    BY <2>1, PostSettles
<1>5. CASE History!StopResolves
  <2>1. /\ stopping # None /\ hBatch = None /\ stopped' = TRUE
        /\ UNCHANGED <<hEnabled, hMade, hBuffer, hBatch, hSettled, sent, stopping, clean>>
    BY <1>5 DEF History!StopResolves
  <2>2. InFlight = << >> /\ InFlight' = << >>
    BY <2>1 DEF InFlight
  <2>3. clean = TRUE /\ hEnabled => stopping <= Len(hSettled)
    <3>1. clean = TRUE /\ hEnabled => stopping <= Len(hSettled) + Len(InFlight)
      BY <2>1 DEF SettledHolds
    <3>2. Len(InFlight) = 0 /\ Len(hSettled) \in Nat
      BY <2>2, SettledLengths
    <3> QED
      BY <3>1, <3>2
  <2> QED
    BY <2>1, <2>2, <2>3 DEF SettledHolds, Following
<1>6. CASE History!Tick
  BY <1>6 DEF History!Tick, SettledHolds, Following, InFlight
<1> QED
  BY <1>1, <1>2, <1>3, <1>4, <1>5, <1>6 DEF History!Next

LEMMA HistoryInvariant == Joint => [](HistoryIInv /\ RingHolds /\ SettledHolds)
<1> DEFINE I == HistoryIInv /\ RingHolds /\ SettledHolds
<1>1. JointInit => I
  <2> SUFFICES ASSUME History!Init
               PROVE  I
    BY DEF JointInit
  <2>1. /\ hEnabled \in BOOLEAN /\ hMade = << >> /\ hRing = << >> /\ now = 0 /\ hBuffer = << >> /\ hBatch = None
        /\ hSettled = << >> /\ sent = << >> /\ stopping = None /\ clean = FALSE /\ stopped = FALSE
    BY DEF History!Init
  <2>2. InFlight = << >>
    BY <2>1 DEF InFlight
  <2>3. /\ \A S : << >> \in Seq(S)
        /\ Len(<< >>) = 0 /\ 0 \in Nat /\ 0 <= MaxRecords /\ 0 <= RingMax /\ 1 .. 0 = {}
    BY BoundsAssumption
  <2>4. HistoryIInv
    BY <2>1, <2>3 DEF HistoryIInv
  <2>5. RingHolds
    BY <2>1, <2>3 DEF RingHolds, LastOf
  <2>6. SettledHolds
    <3>1. /\ stopped \in BOOLEAN /\ clean \in BOOLEAN /\ stopped # TRUE /\ stopping = None
      BY <2>1
    <3>2. Following(<< >>, 0) /\ 0 + 0 + 0 = 0
      BY <2>3 DEF Following
    <3> QED
      BY <2>1, <2>2, <2>3, <3>1, <3>2 DEF SettledHolds
  <2> QED
    BY <2>4, <2>5, <2>6
<1>2. I /\ [JointNext]_JointVars => I'
  <2> SUFFICES ASSUME I, [JointNext]_JointVars
               PROVE  I'
    OBVIOUS
  <2>1. CASE History!Next
    BY <2>1, HistoryStep, RingStep, SettledStep
  <2>2. CASE UNCHANGED history
    BY <2>2 DEF history, HistoryIInv, RingHolds, LastOf, SettledHolds, Following, InFlight
  <2> QED
    BY <2>1, <2>2 DEF JointNext, JointVars
<1> QED
  BY <1>1, <1>2, PTL DEF Joint

\* The records from i on are so many.
LEMMA RecordsFrom ==
    ASSUME NEW n \in Nat, NEW i \in 1 .. n, NEW within, \A j : j \in within => j \in 1 .. n,
           \A j \in i .. n : j \in within
    PROVE  History!Cardinality({j \in within : j >= i}) = n - i + 1
<1>1. {j \in within : j >= i} = i .. n
  OBVIOUS
<1>2. Cardinality(i .. n) = n - i + 1
  BY FS_Interval
<1>3. \A S : History!Cardinality(S) = Cardinality(S)
  BY DEF History!Cardinality, Cardinality
<1> QED
  BY <1>1, <1>2, <1>3

LEMMA RecentShown ==
    ASSUME HistoryIInv, RingHolds, NEW tenant \in Tenants
    PROVE  LET within == History!InWindow(hMade, now)
               due    == {i \in within : hMade[i].tenant = tenant
                                         /\ History!Cardinality({j \in within : j >= i}) <= RingMax}
               shown  == History!Recent(tenant)
           IN  /\ {shown[k] : k \in DOMAIN shown} = due
               /\ \A k \in 1 .. Len(shown) - 1 : shown[k] < shown[k + 1]
<1> DEFINE n == Len(hMade)
           m == Len(hRing)
           within == History!InWindow(hMade, now)
           due == {i \in within : hMade[i].tenant = tenant
                                  /\ History!Cardinality({j \in within : j >= i}) <= RingMax}
           wanted == {i \in within : tenant # None => hMade[i].tenant = tenant}
           shown == Filtered(hRing, wanted)
<1>1. n \in Nat /\ DOMAIN hMade = 1 .. n /\ RingMax \in Nat /\ Retention \in Nat /\ now \in Nat
  BY BoundsAssumption DEF HistoryIInv
<1>2. /\ hRing \in Seq(Nat) /\ m \in Nat /\ m <= n /\ m <= RingMax
      /\ \A k \in 1 .. m : hRing[k] = n - m + k
      /\ \A i \in 1 .. n - m : hMade[i].ts + Retention < now \/ n - i >= RingMax
      /\ \A i, j \in 1 .. n : i <= j => hMade[i].ts <= hMade[j].ts
  BY DEF RingHolds, LastOf
<1>3. \A i : i \in within <=> i \in 1 .. n /\ hMade[i].ts + Retention >= now
  BY <1>1 DEF History!InWindow
<1>4. tenant # None
  BY NoneAssumption
<1>5. \A i \in 1 .. n : hMade[i].ts \in Nat
  BY MadeTimes
<1>6. \A i : i \in wanted <=> i \in within /\ hMade[i].tenant = tenant
  BY <1>4
<1>7. History!Recent(tenant) = shown
  BY HistoryKeeps, Zenon DEF History!Recent
<1> HIDE DEF n, m, within
<1>8. ASSUME NEW i \in within
      PROVE  History!Cardinality({j \in within : j >= i}) = n - i + 1
  <2>1. i \in 1 .. n /\ \A j : j \in within => j \in 1 .. n
    BY <1>3
  <2>2. ASSUME NEW j \in i .. n
        PROVE  j \in within
    <3>1. j \in 1 .. n /\ i <= j
      BY <2>1
    <3>2. hMade[i].ts <= hMade[j].ts /\ hMade[i].ts \in Nat /\ hMade[j].ts \in Nat /\ hMade[i].ts + Retention >= now
      BY <1>2, <1>3, <1>5, <2>1, <3>1
    <3>3. hMade[j].ts + Retention >= now
      BY <1>1, <3>2
    <3> QED
      BY <1>3, <3>1, <3>3
  <2> QED
    BY <1>1, <2>1, <2>2, RecordsFrom
<1>9. ASSUME NEW i \in within
      PROVE  n - i + 1 <= RingMax <=> \E k \in 1 .. m : hRing[k] = i
  <2>1. i \in 1 .. n /\ hMade[i].ts + Retention >= now /\ hMade[i].ts \in Nat
    BY <1>3, <1>5
  <2>2. CASE i \in 1 .. n - m
    <3>1. ~(hMade[i].ts + Retention < now)
      BY <1>1, <2>1
    <3>2. ~(n - i + 1 <= RingMax)
      BY <1>1, <1>2, <2>1, <2>2, <3>1
    <3>3. \A k \in 1 .. m : hRing[k] # i
      BY <1>1, <1>2, <2>2
    <3> QED
      BY <3>2, <3>3
  <2>3. CASE i \in n - m + 1 .. n
    <3>1. n - i + 1 <= RingMax
      BY <1>1, <1>2, <2>3
    <3>2. i - (n - m) \in 1 .. m /\ n - m + (i - (n - m)) = i
      BY <1>1, <1>2, <2>3
    <3>3. hRing[i - (n - m)] = i
      BY <1>2, <3>2
    <3> QED
      BY <3>1, <3>2, <3>3
  <2> QED
    BY <1>1, <1>2, <2>1, <2>2, <2>3
<1>10. /\ shown \in Seq(Nat) /\ DOMAIN shown = 1 .. Len(shown)
       /\ \A k \in DOMAIN shown : \E j \in DOMAIN hRing : shown[k] = hRing[j] /\ hRing[j] \in wanted
       /\ \A j \in DOMAIN hRing : hRing[j] \in wanted => \E k \in DOMAIN shown : shown[k] = hRing[j]
  <2>1. /\ shown \in Seq(Nat)
        /\ \A k \in DOMAIN shown : \E j \in DOMAIN hRing : shown[k] = hRing[j] /\ hRing[j] \in wanted
        /\ \A j \in DOMAIN hRing : hRing[j] \in wanted => \E k \in DOMAIN shown : shown[k] = hRing[j]
    <3>1. PICK S : S = Nat
      OBVIOUS
    <3>2. PICK r \in Seq(S) : r = hRing
      BY <1>2, <3>1
    <3>3. PICK w : w = wanted
      OBVIOUS
    <3>4. /\ Filtered(r, w) \in Seq(S)
          /\ \A i \in DOMAIN Filtered(r, w) : \E j \in DOMAIN r : Filtered(r, w)[i] = r[j] /\ r[j] \in w
          /\ \A j \in DOMAIN r : r[j] \in w => \E i \in DOMAIN Filtered(r, w) : Filtered(r, w)[i] = r[j]
      BY FilteredRange
    <3>5. Filtered(r, w) = shown
      BY <3>2, <3>3
    <3> HIDE DEF shown, wanted
    <3> QED
      BY <3>1, <3>2, <3>3, <3>4, <3>5
  <2> HIDE DEF shown
  <2> QED
    BY <2>1
<1>11. DOMAIN hRing = 1 .. m
  BY <1>2 DEF m
<1>12. \A i, j \in 1 .. Len(shown) : i < j => shown[i] < shown[j]
  <2>1. hRing \in Seq(Int)
    <3>1. hRing = [k \in 1 .. m |-> hRing[k]] /\ \A k \in 1 .. m : hRing[k] \in Int
      BY <1>2, <1>11
    <3> QED
      BY <1>2, <3>1
  <2>2. \A i, j \in 1 .. Len(hRing) : i < j => hRing[i] < hRing[j]
    BY <1>1, <1>2 DEF m
  <2> HIDE DEF wanted
  <2> QED
    BY <2>1, <2>2, FilteredRises, Zenon
<1> HIDE DEF shown, wanted
<1>13. \A k \in 1 .. Len(shown) - 1 : shown[k] < shown[k + 1]
  <2>1. Len(shown) \in Nat
    BY <1>10
  <2> QED
    BY <1>12, <2>1
<1>14. ASSUME NEW i
       PROVE  i \in due <=> \E k \in DOMAIN shown : shown[k] = i
  <2>1. i \in due <=> i \in within /\ hMade[i].tenant = tenant /\ \E k \in 1 .. m : hRing[k] = i
    BY <1>8, <1>9
  <2> QED
    BY <1>6, <1>10, <1>11, <2>1
<1>15. {shown[k] : k \in DOMAIN shown} = due
  BY <1>14
<1> QED
  BY <1>7, <1>13, <1>15, Zenon DEF within

LEMMA StopPosted ==
    ASSUME SettledHolds
    PROVE  History!StopPostsAll
<1>1. sent \in Seq(Nat) /\ \A i, j \in 1 .. Len(sent) : i < j => sent[i] < sent[j]
  BY DEF SettledHolds
<1>2. \A k \in 1 .. Len(sent) - 1 : sent[k] < sent[k + 1]
  <2>1. Len(sent) \in Nat
    BY <1>1
  <2> QED
    BY <1>1, <2>1
<1>3. ASSUME stopped, clean, hEnabled, NEW i \in 1 .. stopping
      PROVE  \E k \in DOMAIN hSettled : hSettled[k] = i
  <2>1. /\ stopped \in BOOLEAN /\ clean \in BOOLEAN /\ (stopping = None \/ stopping \in Nat)
        /\ stopped = TRUE => stopping # None /\ (clean = TRUE /\ hEnabled => stopping <= Len(hSettled))
        /\ Following(hSettled, 0)
    BY DEF SettledHolds
  <2>2. stopping <= Len(hSettled) /\ stopping \in Nat
    BY <1>3, <2>1
  <2>3. DOMAIN hSettled = 1 .. Len(hSettled) /\ \A k \in 1 .. Len(hSettled) : hSettled[k] = 0 + k
    BY <2>1 DEF Following
  <2>4. Len(hSettled) \in Nat
    BY SettledLengths
  <2>5. i \in DOMAIN hSettled /\ hSettled[i] = i
    BY <2>2, <2>3, <2>4
  <2> QED
    BY <2>5
<1> QED
  BY <1>2, <1>3 DEF History!StopPostsAll

\* The health page shows a tenant its records that are in the window, among as many of the
\* last as the ring takes, in order; and a stop that found no post in flight ends with every
\* earlier record posted: for every size of the ring and of the buffer, every window, and
\* through every order of records, timers, slow and failing posts.
THEOREM HistoryKept == Joint => []HistoryHolds
<1>1. HistoryIInv /\ RingHolds /\ SettledHolds => HistoryHolds
  BY RecentShown, StopPosted, Zenon DEF HistoryHolds, History!RecentIsComplete
<1> QED
  BY <1>1, HistoryInvariant, PTL
=============================================================================
