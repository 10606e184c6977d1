-------------------------- MODULE AccountLockout --------------------------
(***************************************************************************)
(* AccountLockout of auth/lockout.ts and the login route that uses it, for *)
(* one username.  The counter lives in the shared session store.  With the *)
(* Redis store every get, setEx and del is a round trip of its own, so the *)
(* steps of concurrent logins, on one replica or on several, interleave    *)
(* between the read of recordFailure and its write.                        *)
(***************************************************************************)
EXTENDS Integers, Sequences, FiniteSets

CONSTANTS
    Attempts,           \* slots for login requests in flight, on any replica
    MaxFailures,
    WindowSeconds,
    BaseLockSeconds,
    MaxLockSeconds,
    TtlSlack,           \* the 60 seconds the TTL adds
    NoEntry,            \* the store holds nothing (or an expired entry)
    MaxTime,            \* bounds of the model: the clock stops here,
    MaxTries            \* passwords checked

VARIABLES
    now,        \* Date.now()
    entry,      \* what the store holds under the username's key
    login,      \* slot -> where the request is and what it has read
    failed,     \* history: the times of the refusals counted since the last lock or success
    lastLock,   \* history: the deadline last written, until a success clears it
    quiet,      \* history: no other request was about to write when it was written
    alone       \* history: no two logins were ever in flight together, and none that had
                \* taken the time of its failure waited as long as the slack for its read

vars == <<now, entry, login, failed, lastLock, quiet, alone>>

----------------------------------------------------------------------------
\* Any amount of time may pass between two steps; Date.now() only moves forward here.
Tick == now < MaxTime /\ now' = now + 1

Larger(a, b) == IF a > b THEN a ELSE b
Smaller(a, b) == IF a < b THEN a ELSE b

\* A slip: the TTL only covers the streak's window.
TtlOfWindow == WindowSeconds + TtlSlack

Ttl == Larger(WindowSeconds, MaxLockSeconds) + TtlSlack

LockDuration(level) ==
    Smaller(MaxLockSeconds, BaseLockSeconds * 2 ^ Larger(0, level - 1))

\* lockedUntil 0 stands for an absent field.
Deadline(state) == IF state = NoEntry THEN 0 ELSE state.lockedUntil

Locked(state, t) == Deadline(state) > t

\* A get: an entry past its TTL is gone.
StoreGet == IF entry # NoEntry /\ entry.expiresAt > now THEN entry ELSE NoEntry

\* The streak goes on while its window is open, and starts again otherwise.
Continue(prev, t) ==
    IF prev # NoEntry /\ t - prev.firstFailureAt <= WindowSeconds
    THEN [prev EXCEPT !.failures = @ + 1]
    ELSE [failures |-> 1, firstFailureAt |-> t, lockedUntil |-> 0, expiresAt |-> t,
          lockLevel |-> IF prev = NoEntry THEN 0 ELSE prev.lockLevel]

\* The failure that completes the streak locks the account and counts from zero.
Trips(state) == state.failures >= MaxFailures

Trip(state, t) ==
    [state EXCEPT !.failures = 0, !.firstFailureAt = t, !.lockLevel = @ + 1,
                  !.lockedUntil = t + LockDuration(state.lockLevel + 1)]

AfterFailure(prev, t) ==
    LET next == Continue(prev, t)
    IN  IF Trips(next) THEN Trip(next, t) ELSE next

----------------------------------------------------------------------------
Idle == [at |-> "idle"]

At(a, place) == login[a].at = place

Init ==
    /\ now = 1
    /\ entry = NoEntry
    /\ login = [a \in Attempts |-> Idle]
    /\ failed = <<>>
    /\ lastLock = 0
    /\ quiet = TRUE
    /\ alone = TRUE

\* lockout.check: the store answers the get of a login that has just arrived.
Look(a) ==
    /\ At(a, "idle")
    /\ login' = [login EXCEPT ![a] = [at |-> "checking", until |-> Deadline(StoreGet)]]
    /\ alone' = (alone /\ \A b \in Attempts : At(b, "idle"))
    /\ UNCHANGED <<now, entry, failed, lastLock, quiet>>

\* A locked account is answered 429 and its password is never looked at.
TurnAway(a) ==
    /\ At(a, "checking")
    /\ login[a].until > now
    /\ login' = [login EXCEPT ![a] = Idle]
    /\ UNCHANGED <<now, entry, failed, lastLock, quiet, alone>>

\* The password is right: recordSuccess is about to delete the entry.
Accept(a) ==
    /\ At(a, "checking")
    /\ login[a].until <= now
    /\ login' = [login EXCEPT ![a] = [at |-> "clearing"]]
    /\ UNCHANGED <<now, entry, failed, lastLock, quiet, alone>>

\* The password is wrong: recordFailure takes the time before it reads.
Reject(a) ==
    /\ At(a, "checking")
    /\ login[a].until <= now
    /\ Len(failed) < MaxTries
    /\ login' = [login EXCEPT ![a] = [at |-> "counting", time |-> now]]
    /\ failed' = Append(failed, now)
    /\ UNCHANGED <<now, entry, lastLock, quiet, alone>>

\* recordFailure's own get; a lock that was active at its time ends it here.
ReadStreak(a) ==
    /\ At(a, "counting")
    /\ LET t == login[a].time
       IN  login' = [login EXCEPT ![a] =
               IF Locked(StoreGet, t) THEN Idle
               ELSE [at |-> "storing", next |-> AfterFailure(StoreGet, t),
                     trips |-> Trips(Continue(StoreGet, t))]]
    /\ alone' = (alone /\ now - login[a].time < TtlSlack)
    /\ UNCHANGED <<now, entry, failed, lastLock, quiet>>

\* setEx puts back what was computed, over whatever is there now.
WriteStreak(a) ==
    /\ At(a, "storing")
    /\ entry' = [login[a].next EXCEPT !.expiresAt = now + Ttl]
    /\ login' = [login EXCEPT ![a] = Idle]
    /\ IF login[a].trips
       THEN /\ lastLock' = entry'.lockedUntil
            /\ quiet' = \A b \in Attempts \ {a} : ~At(b, "storing")
            /\ failed' = <<>>
       ELSE UNCHANGED <<lastLock, quiet, failed>>
    /\ UNCHANGED <<now, alone>>

Clear(a) ==
    /\ At(a, "clearing")
    /\ entry' = NoEntry
    /\ login' = [login EXCEPT ![a] = Idle]
    /\ failed' = <<>>
    /\ lastLock' = 0
    /\ UNCHANGED <<now, quiet, alone>>

Advance == Tick /\ UNCHANGED <<entry, login, failed, lastLock, quiet, alone>>

Next ==
    \/ Advance
    \/ \E a \in Attempts :
           \/ Look(a) \/ TurnAway(a) \/ Accept(a) \/ Reject(a)
           \/ ReadStreak(a) \/ WriteStreak(a) \/ Clear(a)

Spec == Init /\ [][Next]_vars

----------------------------------------------------------------------------
States ==
    [failures : Nat, firstFailureAt : Nat, lockedUntil : Nat, lockLevel : Nat, expiresAt : Nat]

LoginStates ==
    {Idle} \cup [at : {"clearing"}] \cup [at : {"counting"}, time : Nat]
    \cup [at : {"checking"}, until : Nat]
    \cup [at : {"storing"}, next : States, trips : BOOLEAN]

(* Types.  A stored streak is always short of the threshold (a full one has *)
(* become a lock), nothing in it lies in the future except the deadline,    *)
(* and no deadline is further off than the cap, whatever the level and      *)
(* whichever of several stale writes came last.                             *)
TypeOK ==
    /\ now \in Nat /\ lastLock \in Nat
    /\ quiet \in BOOLEAN /\ alone \in BOOLEAN
    /\ failed \in Seq(Nat)
    /\ login \in [Attempts -> LoginStates]
    /\ entry \in States \cup {NoEntry}
    /\ entry # NoEntry => /\ entry.failures < MaxFailures
                          /\ entry.firstFailureAt <= now
                          /\ entry.lockedUntil <= now + MaxLockSeconds

(* A lock written while no other request was between its read and its write *)
(* is what every later check reads, to the second: it is neither dropped by *)
(* the TTL nor shortened nor extended by requests that were already under   *)
(* way, and only a right password that had passed its check clears it.      *)
QuietLockStays ==
    quiet /\ lastLock > now => Deadline(StoreGet) = lastLock

(* One login at a time, the threshold holds up to the way the window turns  *)
(* over.  It does not slide, it restarts whole at the first refusal after   *)
(* it lapsed, so two streaks, each a failure short, can share the length of *)
(* one window: no more than 2 * (MaxFailures - 1) wrong passwords are       *)
(* looked at in any WindowSeconds without a lock or a success among them.   *)
(* A read that comes later than the failure by the slack of the TTL or more *)
(* may find the streak gone while its window is still open.                 *)
SerialThreshold ==
    alone /\ (\A a \in Attempts : At(a, "idle")) =>
        \A i, j \in 1 .. Len(failed) :
            j = i + 2 * (MaxFailures - 1) => failed[j] - failed[i] > WindowSeconds

(* What the header says of the locked state: once a lock has been written   *)
(* every check that reads before its deadline finds the account locked,     *)
(* unless a right password cleared it.                                      *)
LockHonoured ==
    [][\A a \in Attempts : Look(a) => lastLock <= now \/ Locked(StoreGet, now)]_vars
=============================================================================
