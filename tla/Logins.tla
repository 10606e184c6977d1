-------------------------------- MODULE Logins --------------------------------
(***************************************************************************)
(* Who gets in, and what they may do: AccountLockout, Revocation,          *)
(* LocalUsers, PolicyFile, OpaEngine and OidcLogin.  They share no state   *)
(* but the request that passes through them, so a behaviour is one of      *)
(* them, and leaves the others at rest.                                    *)
(***************************************************************************)
EXTENDS Integers, Sequences

CONSTANTS
    Attempts, MaxFailures, WindowSeconds, BaseLockSeconds, MaxLockSeconds, TtlSlack, MaxTries,  \* AccountLockout
    Replicas, Subjects, SessionTtl, MaxSessions, MaxRevocations, MaxWriteFailures, MaxDays,     \* Revocation
    Users, Passwords, Secrets, Known, Admins, FirstUsers, Edits, MaxLogins, MaxCrashes,         \* LocalUsers
    Roles, Permissions, Valid, NeedsUsers, FirstPolicy,                                         \* PolicyFile
    GrantKeys, Lists, GrantTtl, ListTtl, Retry, Timeout, MaxQueries,                            \* OpaEngine
    Browsers, FlowTtl, KeysTtl, Cooldown, Latency, RotationGap,                                 \* OidcLogin
    MaxFlows, MaxRotations, MaxLost, MaxFlowTime,
    Slots, MaxChanges, MaxEdits, MaxRestarts, MaxTime,      \* bounds of several
    None, Torn, Empty

\* num of lockoutConfigFromEnv takes positive numbers only; the slack is 60 seconds.  What
\* stands for "no entry" is no entry.
ASSUME LockoutAssumption ==
    /\ {MaxFailures, WindowSeconds, BaseLockSeconds, MaxLockSeconds, TtlSlack} \subseteq Nat \ {0}
    /\ None \notin [failures : Nat, firstFailureAt : Nat, lockedUntil : Nat, lockLevel : Nat, expiresAt : Nat]

ASSUME TimesAssumption ==
    {SessionTtl, GrantTtl, ListTtl, Timeout, KeysTtl, Cooldown, Latency, RotationGap} \subseteq Nat

ASSUME BoundsAssumption == MaxSessions \in Nat

\* The provider's rotations are further apart than the key set is cached and a forced
\* refresh holds the next one back, with the fetches between: an hour and a minute by
\* default (oidc/jwks.ts), where providers rotate after days.
ASSUME RotationAssumption ==
    /\ KeysTtl + Cooldown + 2 * Latency <= RotationGap + 1
    /\ 3 * Latency < RotationGap

\* The user files that parse: passwords and roles of the users there are.
Accounts == [pw : Secrets, role : STRING]
Tables == [Users -> Accounts \cup {None}]

ASSUME UsersAssumption ==
    /\ FirstUsers \in Tables /\ Edits \subseteq Tables \cup {None}
    /\ Known \subseteq STRING /\ None \notin Accounts \cup Tables

\* The policies and requests that PolicyFile knows.  The server starts with a file that
\* loads, and what stands for "nothing", and for content that does not parse, is none of
\* the values it is told from.
Policies == [Roles -> (SUBSET Valid) \cup {None}]
Puts == [step : {"open", "fill", "rename", "swap"}, at : {"tmp", "path"}, next : Policies]

ASSUME PolicyAssumption ==
    /\ FirstPolicy \in Policies
    /\ None \notin Policies \cup Puts \cup {Torn, Empty} /\ Torn \notin Policies /\ Empty \notin Policies

VARIABLES which,
          \* AccountLockout
          now, entry, login, failed, lastLock, quiet, alone,
          \* Revocation
          issued, directory, file, torn, sids, cutoffs, appends, creating,
          poisoned, requested, acked, bound, damage, failures, restarts, rNow,
          \* LocalUsers
          uFile, uTmp, clock, store, cursor, cookies, uSlot, uCount, uClash, wrong,
          \* PolicyFile
          engine, pFile, pTmp, pSlot, pCount, pClash, pTorn, edited,
          \* OpaEngine
          oNow, policy, cache, queries, allowed,
          \* OidcLogin
          dNow, key, rotated, jwks, cookie, logins, tabs, calls, session,
          missed, dFailures, late

lockout    == <<now, entry, login, failed, lastLock, quiet, alone>>
revocation == <<issued, directory, file, torn, sids, cutoffs, appends, creating, poisoned,
                requested, acked, bound, damage, failures, restarts, rNow>>
users      == <<uFile, uTmp, clock, store, cursor, cookies, uSlot, uCount, uClash, wrong>>
policies   == <<engine, pFile, pTmp, pSlot, pCount, pClash, pTorn, edited>>
opa        == <<oNow, policy, cache, queries, allowed>>
oidc       == <<dNow, key, rotated, jwks, cookie, logins, tabs, calls, session, missed, dFailures, late>>

-----------------------------------------------------------------------------
Lockout == INSTANCE AccountLockout WITH NoEntry <- None

Sessions == INSTANCE Revocation WITH
  MaxFailures <- MaxWriteFailures, MaxTime <- MaxDays, now <- rNow

LocalAccounts == INSTANCE LocalUsers WITH
  file <- uFile, tmp <- uTmp, slot <- uSlot, count <- uCount, clash <- uClash

RoleMap == INSTANCE PolicyFile WITH
  file <- pFile, tmp <- pTmp, slot <- pSlot, count <- pCount, clash <- pClash, torn <- pTorn

Opa == INSTANCE OpaEngine WITH now <- oNow, Keys <- GrantKeys, Ttl <- GrantTtl

Oidc == INSTANCE OidcLogin WITH
  MaxLogins <- MaxFlows, MaxFailures <- MaxLost, MaxTime <- MaxFlowTime,
  now <- dNow, failures <- dFailures

-----------------------------------------------------------------------------
JointVars == <<which, lockout, revocation, users, policies, opa, oidc>>

JointInit ==
  /\ which \in {"lockout", "revocation", "users", "policy", "opa", "oidc"}
  /\ Lockout!Init /\ LocalAccounts!Init /\ RoleMap!Init /\ Oidc!Init
  /\ Sessions!Init /\ (which # "revocation" => directory)
  /\ Opa!Init /\ (which # "opa" => \A k \in GrantKeys : policy[k])

JointNext ==
  /\ UNCHANGED which
  /\ \/ which = "lockout" /\ Lockout!Next
        /\ UNCHANGED <<revocation, users, policies, opa, oidc>>
     \/ which = "revocation" /\ Sessions!Next
        /\ UNCHANGED <<lockout, users, policies, opa, oidc>>
     \/ which = "users" /\ LocalAccounts!Next
        /\ UNCHANGED <<lockout, revocation, policies, opa, oidc>>
     \/ which = "policy" /\ RoleMap!Next
        /\ UNCHANGED <<lockout, revocation, users, opa, oidc>>
     \/ which = "opa" /\ Opa!Next
        /\ UNCHANGED <<lockout, revocation, users, policies, oidc>>
     \/ which = "oidc" /\ Oidc!Next
        /\ UNCHANGED <<lockout, revocation, users, policies, opa>>

Joint == JointInit /\ [][JointNext]_JointVars

-----------------------------------------------------------------------------
(* The lockout's states are of their types; a lock stays while every writer    *)
(* after it read it, and failures one after another lock at the threshold      *)
(* (auth/lockout.ts).                                                          *)
LockoutHolds == which = "lockout" => Lockout!TypeOK /\ Lockout!QuietLockStays /\ Lockout!SerialThreshold

(* The revocations' states are of their types; a session that one covers is    *)
(* let through by no replica that must honour it, and a login after it is no   *)
(* longer covered (auth/revocation.ts).                                        *)
RevokesExactly ==
  which = "revocation" => Sessions!TypeOK /\ Sessions!RevokedStaysOut /\ Sessions!NotABan

(* A revocation answered 201 outlives restarts, but for lines cut short        *)
(* (revocation.ts).                                                            *)
LossIsBounded == which = "revocation" => Sessions!LossIsBounded

(* A login is decided by a user file at least as new as itself, unless another *)
(* was in the middle of reading an older one; and that file can be loaded at   *)
(* every moment, a crash in the middle of a change included (index.ts,         *)
(* auth/local-users.ts).                                                       *)
UsersFileHolds ==
  which = "users" => LocalAccounts!LoginSeesEdits /\ LocalAccounts!NeverLockedOut

(* Once the changes in flight are through, the role map the gates use is the   *)
(* file's, and that file can be loaded at every moment (index.ts,              *)
(* auth/policy/loader.ts).                                                     *)
PolicyFileHolds == which = "policy" => RoleMap!EngineIsFile /\ RoleMap!AlwaysLoads

(* OPA allowed what is allowed, not longer ago than an answer may be kept      *)
(* (policy/opa.ts).                                                            *)
GrantIsRecent == which = "opa" => Opa!GrantIsRecent

(* The identity provider's rotation of its key turns no login away             *)
(* (oidc/jwks.ts).                                                             *)
RotationTurnsNobodyAway == which = "oidc" => Oidc!RotationTurnsNobodyAway
=============================================================================
