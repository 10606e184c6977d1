---------------------------- MODULE Revocation -----------------------------
(***************************************************************************)
(* RevocationStore of auth/revocation.ts, the stateless sessions it cuts   *)
(* short (auth/session.ts) and the middleware that asks it.  Each replica  *)
(* holds an index in memory; all of them append to one JSONL file and read *)
(* it once, at boot.                                                       *)
(***************************************************************************)
EXTENDS Integers, Sequences, FiniteSets, SequencesExt

CONSTANTS
    Replicas,
    Subjects,
    SessionTtl,
    MaxTime,            \* bounds of the model: the clock stops here,
    MaxSessions,        \* cookies issued,
    MaxRevocations,     \* different revocations requested, each once,
    MaxFailures,        \* appends that fail,
    MaxRestarts         \* and restarts

VARIABLES
    now,        \* Date.now()
    issued,     \* every cookie ever handed out
    directory,  \* whether the file's parent directory exists
    file,       \* the complete lines, each with whether it can be parsed
    torn,       \* the file ends in half a line
    sids,       \* replica -> session ids it holds revoked
    cutoffs,    \* replica -> subject -> latest cutoff, 0 for none
    appends,    \* replica -> entries waiting in its write chain, the head in progress
    creating,   \* replica -> its head append found no directory and is making it
    poisoned,   \* replica -> its write chain was rejected
    requested,  \* history: every entry asked for
    acked,      \* history: entries answered 201
    bound,      \* history: replica -> entries it must honour: those it answered
                \* 201 for since its boot, and those its boot could read
    damage,     \* history: half lines left, and lines cut off by a first write
    failures, restarts

store == <<sids, cutoffs, appends, creating, poisoned>>
disk == <<directory, file, torn, damage>>
history == <<requested, acked, bound>>
vars == <<now, issued, store, disk, history, failures, restarts>>

----------------------------------------------------------------------------
\* Any amount of time may pass between two steps; Date.now() only moves forward here.
Tick == now < MaxTime /\ now' = now + 1

MaxOf(a, b) == IF a > b THEN a ELSE b

SessionEntry(s) == [kind |-> "session", value |-> s.sid, revokedAt |-> now]
SubjectEntry(u) == [kind |-> "subject", value |-> u, revokedAt |-> now]

\* What an entry is meant to end.
Covers(e, s) ==
    \/ e.kind = "session" /\ e.value = s.sid
    \/ e.kind = "subject" /\ e.value = s.sub /\ s.iat <= e.revokedAt

Readable == {file[i].entry : i \in {j \in DOMAIN file : file[j].whole}}

\* A slip: the entry indexed last wins, in place of the latest cutoff.
IndexCutoffLast(prev, e) == e.revokedAt

IndexCutoff(prev, e) == MaxOf(prev, e.revokedAt)

\* index(): one more entry in a replica's memory.
Index(r, e) ==
    IF e.kind = "session"
    THEN /\ sids' = [sids EXCEPT ![r] = @ \cup {e.value}]
         /\ UNCHANGED cutoffs
    ELSE /\ cutoffs' = [cutoffs EXCEPT ![r][e.value] = IndexCutoff(@, e)]
         /\ UNCHANGED sids

\* load(): the lines are indexed in file order, which need not be time order.
LoadedCutoff(lines, u) ==
    FoldLeft(LAMBDA c, l : IF l.whole /\ l.entry.kind = "subject" /\ l.entry.value = u
                           THEN IndexCutoff(c, l.entry) ELSE c,
             0, lines)

IsRevoked(r, s) == s.sid \in sids[r] \/ s.iat <= cutoffs[r][s.sub]

\* The session is attached to the request: verifySession and isRevoked.
Attached(r, s) == s.exp > now /\ ~IsRevoked(r, s)

----------------------------------------------------------------------------
Init ==
    /\ now = 1
    /\ issued = {}
    /\ directory \in BOOLEAN
    /\ file = <<>>
    /\ torn = FALSE
    /\ sids = [r \in Replicas |-> {}]
    /\ cutoffs = [r \in Replicas |-> [u \in Subjects |-> 0]]
    /\ appends = [r \in Replicas |-> <<>>]
    /\ creating = [r \in Replicas |-> FALSE]
    /\ poisoned = [r \in Replicas |-> FALSE]
    /\ requested = {} /\ acked = {}
    /\ bound = [r \in Replicas |-> {}]
    /\ damage = 0 /\ failures = 0 /\ restarts = 0

\* issueSession: any replica mints a cookie, all of them verify it.
Issue(u) ==
    /\ Cardinality(issued) < MaxSessions
    /\ issued' = issued \cup
         {[sub |-> u, sid |-> Cardinality(issued) + 1, iat |-> now, exp |-> now + SessionTtl]}
    /\ UNCHANGED <<now, store, disk, history, failures, restarts>>

\* POST /api/auth/revocations: indexed at once, answered when its append is through;
\* on a rejected chain the append is never tried and the answer is an error.
Revoke(r, e) ==
    /\ e \notin requested /\ Cardinality(requested) < MaxRevocations
    /\ Index(r, e)
    /\ appends' = [appends EXCEPT ![r] = IF poisoned[r] THEN @ ELSE Append(@, e)]
    /\ requested' = requested \cup {e}
    /\ UNCHANGED <<now, issued, creating, poisoned, disk, acked, bound, failures, restarts>>

\* What a write goes behind: the lines there are, or none when a first write truncates them.
Rest(cut) == IF cut THEN <<>> ELSE file
Removed(cut) == IF cut THEN Len(file) ELSE 0

\* A line on the file: after half a line it completes a line nobody can parse.
Line(e, cut) == [entry |-> e, whole |-> ~torn \/ cut]

Answer(r) ==
    LET e == Head(appends[r])
    IN  /\ appends' = [appends EXCEPT ![r] = Tail(@)]
        /\ acked' = acked \cup {e}
        /\ bound' = [bound EXCEPT ![r] = @ \cup {e}]
        /\ UNCHANGED <<sids, cutoffs, poisoned, requested>>

AppendDone(r) ==
    /\ appends[r] # <<>> /\ ~creating[r] /\ directory
    /\ file' = Append(file, Line(Head(appends[r]), FALSE))
    /\ torn' = FALSE
    /\ Answer(r)
    /\ UNCHANGED <<now, issued, creating, directory, damage, failures, restarts>>

\* A slip: a replica whose first append has to wait for the directory answers early.
AppendFindsNothingAnswers(r) ==
    /\ appends[r] # <<>> /\ ~creating[r] /\ ~directory
    /\ creating' = [creating EXCEPT ![r] = TRUE]
    /\ acked' = acked \cup {Head(appends[r])}
    /\ UNCHANGED <<now, issued, sids, cutoffs, appends, poisoned, disk, requested, bound,
                   failures, restarts>>

\* ENOENT: the parent directory is made first.
AppendFindsNothing(r) ==
    /\ appends[r] # <<>> /\ ~creating[r] /\ ~directory
    /\ creating' = [creating EXCEPT ![r] = TRUE]
    /\ UNCHANGED <<now, issued, sids, cutoffs, appends, poisoned, disk, history, failures, restarts>>

MakeDirectory(r) ==
    /\ creating[r] /\ ~directory /\ directory' = TRUE
    /\ UNCHANGED <<now, issued, store, file, torn, damage, history, failures, restarts>>

\* writeFile truncates whatever another replica has put there meanwhile.
CreateDone(r) ==
    /\ creating[r] /\ directory
    /\ file' = <<Line(Head(appends[r]), TRUE)>>
    /\ torn' = FALSE
    /\ damage' = damage + Removed(TRUE)
    /\ creating' = [creating EXCEPT ![r] = FALSE]
    /\ Answer(r)
    /\ UNCHANGED <<now, issued, directory, failures, restarts>>

\* Any other error rejects the chain, and with it every append that waits in it.
\* A short write (a full disk) leaves half a line behind; a first write may have
\* truncated the file before it fails.
AppendFails(r, short, cut) ==
    /\ appends[r] # <<>> /\ (directory \/ creating[r])
    /\ cut => creating[r] /\ directory
    /\ short => directory /\ (creating[r] => cut)
    /\ failures < MaxFailures
    /\ failures' = failures + 1
    /\ file' = Rest(cut)
    /\ torn' = (short \/ (torn /\ ~cut))
    /\ damage' = damage + Removed(cut) + IF short THEN 1 ELSE 0
    /\ poisoned' = [poisoned EXCEPT ![r] = TRUE]
    /\ appends' = [appends EXCEPT ![r] = <<>>]
    /\ creating' = [creating EXCEPT ![r] = FALSE]
    /\ UNCHANGED <<now, issued, sids, cutoffs, directory, history, restarts>>

\* The process dies, with its current append written or not, and boots again:
\* memory is gone, the lines that parse are indexed.
Restart(r, written, cut) ==
    /\ restarts < MaxRestarts
    /\ restarts' = restarts + 1
    /\ written => appends[r] # <<>> /\ directory /\ (creating[r] => cut)
    /\ cut => creating[r] /\ directory
    /\ file' = IF written THEN Append(Rest(cut), Line(Head(appends[r]), cut)) ELSE Rest(cut)
    /\ torn' = (torn /\ ~written /\ ~cut)
    /\ damage' = damage + Removed(cut)
    /\ sids' = [sids EXCEPT ![r] = {e.value : e \in {x \in Readable' : x.kind = "session"}}]
    /\ cutoffs' = [cutoffs EXCEPT ![r] = [u \in Subjects |-> LoadedCutoff(file', u)]]
    /\ bound' = [bound EXCEPT ![r] = Readable']
    /\ appends' = [appends EXCEPT ![r] = <<>>]
    /\ creating' = [creating EXCEPT ![r] = FALSE]
    /\ poisoned' = [poisoned EXCEPT ![r] = FALSE]
    /\ UNCHANGED <<now, issued, directory, requested, acked, failures>>

Advance == Tick /\ UNCHANGED <<issued, store, disk, history, failures, restarts>>

Next ==
    \/ Advance
    \/ \E u \in Subjects : Issue(u)
    \/ \E r \in Replicas :
          \/ \E s \in issued : Revoke(r, SessionEntry(s))
          \/ \E u \in Subjects : Revoke(r, SubjectEntry(u))
          \/ AppendDone(r) \/ AppendFindsNothing(r) \/ MakeDirectory(r) \/ CreateDone(r)
          \/ \E b, cut \in BOOLEAN : AppendFails(r, b, cut) \/ Restart(r, b, cut)

Spec == Init /\ [][Next]_vars

----------------------------------------------------------------------------
Entries ==
    [kind : {"session"}, value : 1 .. MaxSessions, revokedAt : Nat]
    \cup [kind : {"subject"}, value : Subjects, revokedAt : Nat]

(* Types; and a replica with an append in progress has a sound chain. *)
TypeOK ==
    /\ now \in Nat
    /\ issued \subseteq [sub : Subjects, sid : 1 .. MaxSessions, iat : Nat, exp : Nat]
    /\ directory \in BOOLEAN /\ torn \in BOOLEAN
    /\ file \in Seq([entry : Entries, whole : BOOLEAN])
    /\ sids \in [Replicas -> SUBSET (1 .. MaxSessions)]
    /\ cutoffs \in [Replicas -> [Subjects -> Nat]]
    /\ appends \in [Replicas -> Seq(Entries)]
    /\ creating \in [Replicas -> BOOLEAN] /\ poisoned \in [Replicas -> BOOLEAN]
    /\ requested \subseteq Entries /\ acked \subseteq requested
    /\ bound \in [Replicas -> SUBSET Entries]
    /\ {damage, failures, restarts} \subseteq Nat
    /\ \A r \in Replicas :
          /\ creating[r] => appends[r] # <<>>
          /\ poisoned[r] => appends[r] = <<>>
    /\ file # <<>> => directory

(* A replica never lets through a session that a revocation it must honour  *)
(* covers: one it answered 201 for since it booted, or one on the file when *)
(* it booted, in whatever order the replicas wrote the lines.               *)
RevokedStaysOut ==
    \A r \in Replicas : \A e \in bound[r] : \A s \in issued :
        Covers(e, s) => ~Attached(r, s)

(* A revocation is a forced new login, not a ban: an unexpired session is   *)
(* turned away only if somebody asked for a revocation that covers it, so   *)
(* one issued after the last revocation of its subject is let through on    *)
(* every replica, also after restarts.                                      *)
NotABan ==
    \A r \in Replicas : \A s \in issued :
        s.exp > now /\ ~Attached(r, s) => \E e \in requested : Covers(e, s)

(* What a revocation answered 201 is worth after a restart: all but as many *)
(* of them can be read back as short writes left half lines and truncating  *)
(* first writes removed lines.                                              *)
LossIsBounded == Cardinality(acked \ Readable) <= damage
=============================================================================
