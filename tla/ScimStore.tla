------------------------------ MODULE ScimStore ------------------------------
(***************************************************************************)
(* The directory an identity provider pushes over SCIM: ScimStore of       *)
(* scim/store.ts and RedisScimStore of scim/redis-store.ts under the       *)
(* handlers of scim/routes.ts.  Every change is made in memory at once and *)
(* the request is answered when the whole directory has been stored: by    *)
(* the file back end through one tmp path that the requests share, by the  *)
(* Redis back end through a queue per replica onto one key.  A replica     *)
(* reads what is stored when it boots, and never again.                    *)
(***************************************************************************)
EXTENDS Naturals, FiniteSets, Sequences

CONSTANTS
    Backends,       \* subset of {"file", "redis"}: what OMCP_SCIM_BACKEND may say
    Replicas,       \* processes on one store; the file back end has one
    Slots,          \* bound of the model: requests in flight at a time
    Names,          \* user names
    Idle, None,
    MaxChanges, MaxFailures, MaxRestarts    \* bounds of the model

VARIABLES
    backend,        \* "file" or "redis", for good
    memory,         \* replica -> directory
    stored,         \* the directory in the file or under the key, or None for torn text
    tmp,            \* what the tmp file holds, or None when there is none
    queue,          \* replica -> Redis writes not done, oldest first
    poisoned,       \* replica -> the chain of its writes is rejected
    slot,           \* the request in flight in each slot
    count,          \* changes, failures and restarts so far
    acked,          \* history: changes answered 2xx
    late,           \* history: users put in a group when they were gone
    overlap,        \* history: two writes of the tmp path were under way at once
    emptied         \* history: a boot found no directory where there was one

store == <<backend, stored, tmp, queue, poisoned>>
history == <<acked, late, overlap, emptied>>
vars == <<memory, store, slot, count, history>>

\* A directory: users by id, groups with the change that made the object they are,
\* and the changes that led to it.
Empty == [users |-> {}, groups |-> {}, changes |-> {}]

\* What a tmp file opened anew, or written by two at once, holds.
Torn == [Empty EXCEPT !.changes = {0}]

At(s, step) == slot[s] # Idle /\ slot[s].step = step
Writing(s) == slot[s] # Idle /\ slot[s].step \in {"serialised", "opened", "written"}
Counted(what, max) == count[what] < max /\ count' = [count EXCEPT ![what] = @ + 1]

----------------------------------------------------------------------------
Init ==
    /\ backend \in Backends
    /\ memory = [r \in Replicas |-> Empty]
    /\ stored = Empty /\ tmp = None
    /\ queue = [r \in Replicas |-> <<>>] /\ poisoned = [r \in Replicas |-> FALSE]
    /\ slot = [s \in Slots |-> Idle]
    /\ count = [what \in {"change", "failure", "restart"} |-> 0]
    /\ acked = {} /\ late = {} /\ overlap = FALSE /\ emptied = FALSE

Without(groups, u) == {[g EXCEPT !.members = @ \ {u}] : g \in groups}

\* deleteUser writes to the group objects themselves, which the snapshots still waiting
\* in the queue share; the oldest is already text.
Stripped(waiting, groups, u) ==
    [i \in DOMAIN waiting |->
       IF i = 1 THEN waiting[i]
       ELSE [waiting[i] EXCEPT !.groups =
               {IF \E g \in groups : g.id = h.id /\ g.object = h.object
                THEN [h EXCEPT !.members = @ \ {u}] ELSE h : h \in @}]]

\* A change is in memory; the file back end goes on to its mkdir, the Redis one adds a
\* snapshot to its queue, or is answered 500 at once when the chain is rejected.
Commit(s, r, users, groups, waiting) ==
    LET change == count.change + 1
        next   == [users |-> users, groups |-> groups,
                   changes |-> memory[r].changes \cup {change}]
        asked  == [step |-> "changed", on |-> r, change |-> change, text |-> Empty, at |-> "tmp"]
    IN  /\ Counted("change", MaxChanges)
        /\ memory' = [memory EXCEPT ![r] = next]
        /\ IF backend = "file" THEN slot' = [slot EXCEPT ![s] = asked] /\ UNCHANGED queue
           ELSE IF poisoned[r] THEN UNCHANGED <<slot, queue>>
           ELSE /\ slot' = [slot EXCEPT ![s] = [asked EXCEPT !.step = "queued"]]
                /\ queue' = [queue EXCEPT ![r] = Append(waiting, next)]
        /\ UNCHANGED <<backend, stored, tmp, poisoned, acked, overlap, emptied>>

\* POST /Users: 409 when the name is in use.
CreateUser(s, r, name) ==
    /\ slot[s] = Idle
    /\ ~ \E u \in memory[r].users : u.name = name
    /\ Commit(s, r, memory[r].users \cup {[id |-> count.change + 1, name |-> name]},
              memory[r].groups, queue[r])
    /\ UNCHANGED late

\* PATCH /Users/:id: whatever the operations yield is merged over the user.
UpdateUser(s, r, user, name) ==
    /\ slot[s] = Idle
    /\ Commit(s, r, (memory[r].users \ {user}) \cup {[user EXCEPT !.name = name]},
              memory[r].groups, queue[r])
    /\ UNCHANGED late

\* A slip: the user goes and stays in its groups.
DeleteUserOnly(s, r, user) ==
    /\ slot[s] = Idle
    /\ Commit(s, r, memory[r].users \ {user}, memory[r].groups, queue[r])
    /\ UNCHANGED late

\* DELETE /Users/:id: the user leaves the directory and every group.
DeleteUser(s, r, user) ==
    /\ slot[s] = Idle
    /\ Commit(s, r, memory[r].users \ {user}, Without(memory[r].groups, user.id),
              Stripped(queue[r], memory[r].groups, user.id))
    /\ UNCHANGED late

\* Members are taken as they come, existing or not.
Gone(r, members) == members \ {u.id : u \in memory[r].users}

CreateGroup(s, r, members) ==
    /\ slot[s] = Idle
    /\ LET change == count.change + 1
       IN  Commit(s, r, memory[r].users,
                  memory[r].groups \cup {[id |-> change, object |-> change, members |-> members]},
                  queue[r])
    /\ late' = late \cup Gone(r, members)

\* applyPatchOps on the members: add one, remove one, remove all, replace.
ApplyPatchOps(members, one) == {members \cup {one}, members \ {one}, {}, {one}}

\* PATCH /Groups/:id: the new list of members is computed from the current one.
UpdateGroup(s, r, group, members) ==
    /\ slot[s] = Idle
    /\ Commit(s, r, memory[r].users,
              (memory[r].groups \ {group})
                \cup {[group EXCEPT !.object = count.change + 1, !.members = members]},
              queue[r])
    /\ late' = late \cup Gone(r, members \ group.members)

DeleteGroup(s, r, group) ==
    /\ slot[s] = Idle
    /\ Commit(s, r, memory[r].users, memory[r].groups \ {group}, queue[r])
    /\ UNCHANGED late

----------------------------------------------------------------------------
Answered(s) ==
    /\ slot' = [slot EXCEPT ![s] = Idle]
    /\ acked' = acked \cup {slot[s].change}

\* The directory is made text after the mkdir, with what other requests changed since.
Serialise(s) ==
    /\ At(s, "changed")
    /\ slot' = [slot EXCEPT ![s].step = "serialised", ![s].text = memory[slot[s].on]]
    /\ overlap' = (overlap \/ \E o \in Slots \ {s} : Writing(o))
    /\ UNCHANGED <<memory, store, count, acked, late, emptied>>

\* writeFile opens and truncates the tmp file ...
Open(s) ==
    /\ At(s, "serialised")
    /\ tmp' = Torn
    /\ slot' = [slot EXCEPT ![s].step = "opened"]
    /\ UNCHANGED <<memory, backend, stored, queue, poisoned, count, history>>

\* ... and writes it, wherever a rename has moved it; over another request's text, the
\* two may be mixed.
Write(s, mixed) ==
    /\ At(s, "opened")
    /\ LET text == IF mixed THEN Torn ELSE slot[s].text
       IN  \/ slot[s].at = "tmp" /\ (mixed => tmp # Torn) /\ tmp' = text /\ UNCHANGED stored
           \/ slot[s].at = "path" /\ (mixed => stored # Torn) /\ stored' = text /\ UNCHANGED tmp
           \/ slot[s].at = "lost" /\ ~mixed /\ UNCHANGED <<stored, tmp>>
    /\ slot' = [slot EXCEPT ![s].step = "written"]
    /\ UNCHANGED <<memory, backend, queue, poisoned, count, history>>

\* The rename, after which the request is answered 2xx.
Rename(s) ==
    /\ At(s, "written") /\ tmp # None
    /\ stored' = tmp /\ tmp' = None
    /\ slot' = [o \in Slots |->
          IF o = s THEN Idle
          ELSE IF At(o, "opened")
          THEN [slot[o] EXCEPT !.at = IF @ = "tmp" THEN "path" ELSE "lost"]
          ELSE slot[o]]
    /\ acked' = acked \cup {slot[s].change}
    /\ UNCHANGED <<memory, backend, queue, poisoned, count, late, overlap, emptied>>

\* An error of the write, or of the rename of a tmp file that is gone: 500, and the
\* change stays in memory.
PersistFails(s) ==
    /\ \/ At(s, "written") /\ tmp = None /\ UNCHANGED count
       \/ At(s, "opened") /\ Counted("failure", MaxFailures)
    /\ slot' = [slot EXCEPT ![s] = Idle]
    /\ UNCHANGED <<memory, store, history>>

\* The request behind the oldest write of a replica.
Oldest(s, r) ==
    /\ At(s, "queued") /\ slot[s].on = r
    /\ \A o \in Slots : At(o, "queued") /\ slot[o].on = r => slot[s].change <= slot[o].change

\* Redis answers the oldest SET of a replica, and the request behind it is answered.
SetDone(s) ==
    /\ slot[s] # Idle
    /\ LET r == slot[s].on
       IN  /\ Oldest(s, r)
           /\ stored' = Head(queue[r])
           /\ queue' = [queue EXCEPT ![r] = Tail(@)]
    /\ Answered(s)
    /\ UNCHANGED <<memory, backend, tmp, poisoned, count, late, overlap, emptied>>

\* A SET fails, applied or not: the chain is rejected for good, and with it every
\* request that waits on it.
SetFails(r, applied) ==
    /\ queue[r] # <<>> /\ Counted("failure", MaxFailures)
    /\ stored' = IF applied THEN Head(queue[r]) ELSE stored
    /\ queue' = [queue EXCEPT ![r] = <<>>]
    /\ poisoned' = [poisoned EXCEPT ![r] = TRUE]
    /\ slot' = [s \in Slots |-> IF At(s, "queued") /\ slot[s].on = r THEN Idle ELSE slot[s]]
    /\ UNCHANGED <<memory, backend, tmp, history>>

\* A replica ends and another one loads what is stored; what it cannot read or parse it
\* takes for an empty directory.
Restart(r, readable) ==
    /\ Counted("restart", MaxRestarts)
    /\ LET found == IF readable /\ stored # Torn THEN stored ELSE Empty
       IN  /\ memory' = [memory EXCEPT ![r] = found]
           /\ emptied' = (emptied \/ found # stored)
    /\ queue' = [queue EXCEPT ![r] = <<>>]
    /\ poisoned' = [poisoned EXCEPT ![r] = FALSE]
    /\ slot' = [s \in Slots |-> IF slot[s] # Idle /\ slot[s].on = r THEN Idle ELSE slot[s]]
    /\ UNCHANGED <<backend, stored, tmp, acked, late, overlap>>

Next ==
    \/ \E s \in Slots, r \in Replicas :
          \/ \E name \in Names : \/ CreateUser(s, r, name)
                                 \/ \E user \in memory[r].users : UpdateUser(s, r, user, name)
          \/ \E user \in memory[r].users : DeleteUser(s, r, user)
          \/ \E members \in SUBSET (1 .. count.change) : CreateGroup(s, r, members)
          \/ \E group \in memory[r].groups :
                \/ DeleteGroup(s, r, group)
                \/ \E one \in 1 .. count.change :
                      \E members \in ApplyPatchOps(group.members, one) :
                         UpdateGroup(s, r, group, members)
    \/ \E s \in Slots : Serialise(s) \/ Open(s) \/ Rename(s) \/ PersistFails(s) \/ SetDone(s)
                        \/ \E mixed \in BOOLEAN : Write(s, mixed)
    \/ \E r \in Replicas, b \in BOOLEAN : SetFails(r, b) \/ Restart(r, b)

Spec == Init /\ [][Next]_vars

----------------------------------------------------------------------------
Ids == 1 .. MaxChanges
IsDirectory(d) ==
    /\ d.users \subseteq [id : Ids, name : Names]
    /\ d.groups \subseteq [id : Ids, object : Ids, members : SUBSET Ids]
    /\ d.changes \subseteq Ids

(* Types; and in every directory an id stands for one user or one group.    *)
TypeOK ==
    /\ \A r \in Replicas : IsDirectory(memory[r])
    /\ stored = Torn \/ IsDirectory(stored)
    /\ tmp \in {None, Torn} \/ IsDirectory(tmp)
    /\ \A r \in Replicas : \A i \in DOMAIN queue[r] : IsDirectory(queue[r][i])
    /\ \A r \in Replicas : poisoned[r] => queue[r] = <<>>
    /\ acked \subseteq Ids /\ late \subseteq Ids
    /\ \A r \in Replicas : \A x, y \in memory[r].users \cup memory[r].groups :
          x.id = y.id => x = y

(* A user who was deleted is in no group, in memory or in what a boot would *)
(* read, unless a request put the id there when the user was gone: also not *)
(* through a snapshot taken before the delete and stored after it.          *)
NoMemberLeftBehind ==
    \A d \in {memory[r] : r \in Replicas} \cup {stored} :
        \A g \in d.groups : g.members \subseteq {u.id : u \in d.users} \cup late

(* With one replica a change that was answered 2xx is in what the next boot *)
(* reads, across failed writes, rejected chains and restarts, as long as no *)
(* two requests wrote the tmp file at once and no boot failed to read.      *)
AckedIsStored == ~overlap /\ ~emptied => acked \subseteq stored.changes

(* One request at a time never leaves half a directory in the file,         *)
(* wherever the process ends.                                               *)
TornOnlyByTwo == stored = Torn => overlap

(* What redis-store.ts says of several replicas: the last writer of the key *)
(* writes what the provider pushed, as long as it pushes one at a time.     *)
PushesKept == acked \subseteq stored.changes
=============================================================================
