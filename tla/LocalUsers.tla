----------------------------- MODULE LocalUsers -----------------------------
(***************************************************************************)
(* The local users of basic mode: OMCP_USERS_FILE, read and written by     *)
(* auth/local-users.ts, under the login and role handlers of index.ts.  A  *)
(* login first reloads the file when its mtime is another than the cursor; *)
(* a role change reads it, writes it through one tmp path and reloads.     *)
(* Operators edit the same file.  Cookies carry the roles of the login.    *)
(***************************************************************************)
EXTENDS Naturals, FiniteSets

CONSTANTS
    Users, Edits,   \* what operators put in the file: functions from a user to [pw, role] or None
    FirstUsers,     \* its first content
    Passwords, Known,   \* the passwords tried; the role names of the policy engine
    Admins,         \* the roles that grant users:delete
    Slots,          \* bound of the model: requests in flight at a time
    None,
    MaxLogins, MaxChanges, MaxEdits, MaxCrashes     \* bounds of the model

VARIABLES
    file,           \* [mtime, users, n]; users is None when it does not parse, n counts the contents it had
    tmp,            \* the tmp file: None, or as file
    clock,          \* the last mtime given
    store, cursor,  \* usersStore with the mtime it was read at, and lastUsersMtimeMs
    cookies,        \* the session cookies given out: [user, role]
    slot,           \* the request in each slot, or None
    count,          \* logins, changes, edits and crashes so far
    clash,          \* history: two changes were in flight at a time
    wrong           \* history: logins decided by a store older than the login, and whether they were excused

vars == <<file, tmp, clock, store, cursor, cookies, slot, count, clash, wrong>>

Counted(what, max) == count[what] < max /\ count' = [count EXCEPT ![what] = @ + 1]
At(s, step) == slot[s] # None /\ slot[s].step = step
Going(s, step) == slot' = [slot EXCEPT ![s].step = step]
Changing(s) == slot[s] # None /\ slot[s].op = "roles"

\* isUsersFile, and the length check of maybeReloadUsers and of the boot.
Usable(users) == users # None /\ \E u \in Users : users[u] # None

Init ==
    /\ file = [mtime |-> 0, users |-> FirstUsers, n |-> 0] /\ tmp = None /\ clock = 0
    /\ store = file /\ cursor = 0 /\ cookies = {}
    /\ slot = [s \in Slots |-> None]
    /\ count = [what \in {"login", "change", "edit", "crash"} |-> 0]
    /\ clash = FALSE /\ wrong = {}

----------------------------------------------------------------------------
\* POST /api/auth/login.
Login(s, user, pw) ==
    /\ slot[s] = None /\ Counted("login", MaxLogins)
    /\ slot' = [slot EXCEPT ![s] =
          [op |-> "login", step |-> "stat", user |-> user, pw |-> pw, stamp |-> 0, got |-> file,
           since |-> IF Usable(file.users) THEN file.n ELSE 0,
           crowded |-> \E r \in Slots : At(r, "got")]]
    /\ UNCHANGED <<file, tmp, clock, store, cursor, cookies, clash, wrong>>

\* A slip: the cursor is set before the file is read.
StatMoves(s) ==
    /\ At(s, "stat")
    /\ slot' = [slot EXCEPT ![s].step = IF file.mtime = cursor THEN "reloaded" ELSE "read",
                            ![s].stamp = file.mtime]
    /\ cursor' = file.mtime
    /\ UNCHANGED <<file, tmp, clock, store, cookies, count, clash, wrong>>

\* maybeReloadUsers: the file is read when its mtime is not the one of the last reload.
Stat(s) ==
    /\ At(s, "stat")
    /\ slot' = [slot EXCEPT ![s].step = IF file.mtime = cursor THEN "reloaded" ELSE "read",
                            ![s].stamp = file.mtime]
    /\ UNCHANGED <<file, tmp, clock, store, cursor, cookies, count, clash, wrong>>

\* readFile takes the content of the moment ...
Read(s) ==
    /\ At(s, "read")
    /\ slot' = [slot EXCEPT ![s].step = "got", ![s].got = file]
    /\ UNCHANGED <<file, tmp, clock, store, cursor, cookies, count, clash, wrong>>

\* ... and the request goes on with it later; what cannot be used changes nothing.
Reload(s) ==
    /\ At(s, "got") /\ Going(s, "reloaded")
    /\ IF Usable(slot[s].got.users) THEN store' = slot[s].got /\ cursor' = slot[s].stamp
       ELSE UNCHANGED <<store, cursor>>
    /\ UNCHANGED <<file, tmp, clock, cookies, count, clash, wrong>>

\* authenticate.
Authentic(users, user, pw) == users[user] # None /\ users[user].pw = pw

\* The lock has been looked up; the login is decided by the store of now, issueSession and
\* the answer.
Decide(s) ==
    /\ At(s, "reloaded") /\ slot[s].op = "login"
    /\ slot' = [slot EXCEPT ![s] = None]
    /\ cookies' = IF Authentic(store.users, slot[s].user, slot[s].pw)
                  THEN cookies \cup {[user |-> slot[s].user, role |-> store.users[slot[s].user].role]}
                  ELSE cookies
    /\ wrong' = IF store.n < slot[s].since
                THEN wrong \cup {slot[s].crowded \/ ~Usable(slot[s].got.users)} ELSE wrong
    /\ UNCHANGED <<file, tmp, clock, store, cursor, count, clash>>

----------------------------------------------------------------------------
\* PUT /api/users/:username/roles, by a session that may, up to the read of the file.
SetRole(s, user, role) ==
    /\ slot[s] = None /\ Counted("change", MaxChanges)
    /\ role \in Known /\ \E c \in cookies : c.role \in Admins
    /\ slot' = [slot EXCEPT ![s] =
          [op |-> "roles", step |-> "find", user |-> user, role |-> role, stamp |-> 0, got |-> file, at |-> "tmp"]]
    /\ clash' = (clash \/ \E r \in Slots : Changing(r))
    /\ UNCHANGED <<file, tmp, clock, store, cursor, cookies, wrong>>

\* readUsersFile: 404 without the file or the user.
Find(s) ==
    /\ At(s, "find")
    /\ slot' = [slot EXCEPT ![s] =
          IF file.users = None \/ ~Usable(file.users) THEN None
          ELSE IF file.users[slot[s].user] = None THEN None
          ELSE [@ EXCEPT !.step = "open", !.got = [file EXCEPT !.users[slot[s].user].role = slot[s].role]]]
    /\ UNCHANGED <<file, tmp, clock, store, cursor, cookies, count, clash, wrong>>

\* writeUsersFile: the tmp file is opened and truncated,
Open(s) ==
    /\ At(s, "open")
    /\ clock' = clock + 1 /\ tmp' = [mtime |-> clock + 1, users |-> None, n |-> 0]
    /\ slot' = [slot EXCEPT ![s].step = "fill", ![s].at = "tmp"]
    /\ UNCHANGED <<file, store, cursor, cookies, count, clash, wrong>>

\* filled, wherever another request's rename has moved it,
Fill(s) ==
    /\ At(s, "fill") /\ Going(s, "rename") /\ clock' = clock + 1
    /\ LET whole == [mtime |-> clock + 1, users |-> slot[s].got.users, n |-> file.n + 1]
       IN  IF slot[s].at = "tmp" THEN tmp' = whole /\ UNCHANGED file ELSE file' = whole /\ UNCHANGED tmp
    /\ UNCHANGED <<store, cursor, cookies, count, clash, wrong>>

\* and renamed; 500 when another request has renamed it already.
Rename(s) ==
    /\ At(s, "rename")
    /\ IF tmp = None
       THEN slot' = [slot EXCEPT ![s] = None] /\ UNCHANGED <<file, tmp>>
       ELSE /\ file' = [tmp EXCEPT !.n = file.n + 1] /\ tmp' = None
            /\ slot' = [r \in Slots |->
                  IF r = s THEN [slot[s] EXCEPT !.step = "stat"]
                  ELSE IF At(r, "fill") THEN [slot[r] EXCEPT !.at = "path"] ELSE slot[r]]
    /\ UNCHANGED <<clock, store, cursor, cookies, count, clash, wrong>>

\* The reload is over: 200.
Answer(s) ==
    /\ At(s, "reloaded") /\ slot[s].op = "roles"
    /\ slot' = [slot EXCEPT ![s] = None]
    /\ UNCHANGED <<file, tmp, clock, store, cursor, cookies, count, clash, wrong>>

----------------------------------------------------------------------------
\* An operator replaces the file.
Edit(users) ==
    /\ Counted("edit", MaxEdits)
    /\ clock' = clock + 1 /\ file' = [mtime |-> clock + 1, users |-> users, n |-> file.n + 1]
    /\ UNCHANGED <<tmp, store, cursor, cookies, slot, clash, wrong>>

\* The process ends anywhere and is started again, with the same session secret; with a
\* file it cannot use it does not start.
Crash ==
    /\ Usable(file.users) /\ Counted("crash", MaxCrashes)
    /\ store' = file /\ cursor' = file.mtime
    /\ slot' = [s \in Slots |-> None]
    /\ UNCHANGED <<file, tmp, clock, cookies, clash, wrong>>

Next ==
    \/ \E s \in Slots :
          \/ \E u \in Users, pw \in Passwords : Login(s, u, pw)
          \/ Stat(s) \/ Read(s) \/ Reload(s) \/ Decide(s)
          \/ \E u \in Users, role \in Known : SetRole(s, u, role)
          \/ Find(s) \/ Open(s) \/ Fill(s) \/ Rename(s) \/ Answer(s)
    \/ \E users \in Edits : Edit(users)
    \/ Crash

Spec == Init /\ [][Next]_vars
----------------------------------------------------------------------------
(* A login is decided by a file at least as new as the login, unless another *)
(* request held one it had read before it came in, or what it read itself    *)
(* could not be used.                                                        *)
LoginSeesEdits == FALSE \notin wrong

(* "A half-write would lock every user out": with changes one at a time, and *)
(* operators who write files that can be used, the file can be used at every *)
(* moment, so that a restart lets users in.                                  *)
NeverLockedOut ==
    ~clash /\ (\A users \in Edits \cup {FirstUsers} : Usable(users)) => Usable(file.users)

=============================================================================
