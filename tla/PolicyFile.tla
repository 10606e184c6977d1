----------------------------- MODULE PolicyFile -----------------------------
(***************************************************************************)
(* The file engine of the role policy: the map BuiltinPolicyEngine decides *)
(* by, the file auth/policy/loader.ts reads and writes, and PUT            *)
(* /api/policy/roles/:name of index.ts, which overlays one role on the map *)
(* of now, writes all of it through one tmp path, reads the file back and  *)
(* swaps the map in place under the gates.                                 *)
(***************************************************************************)
EXTENDS Naturals, FiniteSets

CONSTANTS
    Roles,
    Permissions,    \* pairs <<resource, action>>
    Valid,          \* those of VALID_RESOURCES and VALID_ACTIONS
    NeedsUsers,     \* <<"users", "delete">>, what the route needs
    FirstPolicy,    \* role -> set of permissions, or None
    None, Torn,
    Empty,          \* what a file that was opened for writing and not yet filled holds
    Slots,          \* bound of the model: requests in flight at a time
    MaxChanges, MaxEdits, MaxRestarts   \* bounds of the model

VARIABLES
    engine,         \* the map of the engine
    file, tmp,      \* contents: a map, Empty, or Torn when it does not parse; tmp is None without one
    slot,           \* the request in each slot, or None
    count,
    clash, torn,        \* history: two changes were in flight at a time, a write went into the file itself
    edited          \* history: an operator's edit not read since

vars == <<engine, file, tmp, slot, count, clash, torn, edited>>

Counted(what, max) == count[what] < max /\ count' = [count EXCEPT ![what] = @ + 1]
At(s, step) == slot[s] # None /\ slot[s].step = step
Free(s) == slot' = [slot EXCEPT ![s] = None]

\* hasPermission and evaluate of BuiltinPolicyEngine, the gate of every route.
Evaluate(policy, roles, permission) ==
    \E r \in roles : policy[r] # None /\ permission \in policy[r]

\* buildRequirePermissionFromEngine: the roles are those of the session.
Need(roles, permission) == Evaluate(engine, roles, permission)

\* loadPolicyFromString: a grant outside the vocabulary makes the whole file fail.
Loads(content) ==
    /\ content \notin {Torn, Empty}
    /\ \A r \in Roles : content[r] # None => content[r] \subseteq Valid

\* A text written from the start of a file another writer has filled: the tail of a
\* longer text stays behind it, which adds the roles it had at its end, or does not parse.
Overlaid(text, old) ==
    IF old = Empty THEN {text}
    ELSE {text, Torn} \cup
         IF old = Torn THEN {}
         ELSE {[r \in Roles |-> IF text[r] = None /\ r \in tail THEN old[r] ELSE text[r]] : tail \in SUBSET Roles}

Init ==
    /\ engine = FirstPolicy /\ file = FirstPolicy /\ tmp = None
    /\ slot = [s \in Slots |-> None]
    /\ count = [what \in {"change", "edit", "restart"} |-> 0]
    /\ clash = FALSE /\ torn = FALSE /\ edited = FALSE

----------------------------------------------------------------------------
\* PUT /api/policy/roles/:name up to the write: the map of now with the one role replaced.
PutRole(s, sender, name, permissions) ==
    /\ slot[s] = None /\ Counted("change", MaxChanges)
    /\ Need(sender, NeedsUsers) /\ permissions \subseteq Valid
    /\ slot' = [slot EXCEPT ![s] =
          [step |-> "open", at |-> "tmp", next |-> [engine EXCEPT ![name] = permissions]]]
    /\ clash' = (clash \/ \E r \in Slots : slot[r] # None)
    /\ UNCHANGED <<engine, file, tmp, torn, edited>>

\* writePolicyFile: opened and truncated, filled wherever it is by then, renamed.
Open(s) ==
    /\ At(s, "open") /\ tmp' = Empty
    /\ slot' = [slot EXCEPT ![s].step = "fill", ![s].at = "tmp"]
    /\ UNCHANGED <<engine, file, count, clash, torn, edited>>

Fill(s) ==
    /\ At(s, "fill") /\ slot' = [slot EXCEPT ![s].step = "rename"]
    /\ IF slot[s].at = "tmp" THEN tmp' \in Overlaid(slot[s].next, tmp) /\ UNCHANGED file
       ELSE file' \in Overlaid(slot[s].next, file) /\ UNCHANGED tmp
    /\ torn' = (torn \/ slot[s].at = "path")
    /\ UNCHANGED <<engine, count, clash, edited>>

\* The open, the write or the rename fails and 500 is answered; a write that failed may
\* have left part of its text.
WriteFails(s) ==
    /\ At(s, "open") \/ At(s, "fill") \/ At(s, "rename")
    /\ Free(s)
    /\ \/ UNCHANGED <<file, tmp, torn>>
       \/ At(s, "fill") /\ slot[s].at = "tmp" /\ tmp' = Torn /\ UNCHANGED <<file, torn>>
       \/ At(s, "fill") /\ slot[s].at = "path" /\ file' = Torn /\ torn' = TRUE /\ UNCHANGED tmp
    /\ UNCHANGED <<engine, count, clash, edited>>

Rename(s) ==
    /\ At(s, "rename")
    /\ IF tmp = None THEN Free(s) /\ UNCHANGED <<file, tmp, edited>>
       ELSE /\ file' = tmp /\ tmp' = None /\ edited' = FALSE
            /\ slot' = [r \in Slots |->
                  IF r = s THEN [slot[s] EXCEPT !.step = "swap"]
                  ELSE IF At(r, "fill") THEN [slot[r] EXCEPT !.at = "path"] ELSE slot[r]]
    /\ UNCHANGED <<engine, count, clash, torn>>

\* A slip: the engine takes the map the request wrote.
OwnMap(s) == slot[s].next

\* What the file holds when the request goes on: its own write, or a later one.
Reread(s) == file

\* The engine is swapped and 200 answered; a file that does not load leaves the engine.
Swap(s) ==
    /\ At(s, "swap") /\ Free(s)
    /\ IF Loads(Reread(s)) THEN engine' = Reread(s) /\ edited' = FALSE ELSE UNCHANGED <<engine, edited>>
    /\ UNCHANGED <<file, tmp, count, clash, torn>>

----------------------------------------------------------------------------
\* An operator replaces the file; it is read at the next start.
Edit(content) ==
    /\ Counted("edit", MaxEdits) /\ file' = content /\ edited' = TRUE
    /\ UNCHANGED <<engine, tmp, slot, clash, torn>>

\* The process is started again; a policy file that fails to load ends it.
Restart ==
    /\ Loads(file) /\ Counted("restart", MaxRestarts)
    /\ engine' = file /\ edited' = FALSE /\ slot' = [s \in Slots |-> None]
    /\ UNCHANGED <<file, tmp, clash, torn>>

Next ==
    \/ \E s \in Slots :
          \/ \E sender \in SUBSET Roles, name \in Roles, ps \in SUBSET Permissions : PutRole(s, sender, name, ps)
          \/ Open(s) \/ Fill(s) \/ WriteFails(s) \/ Rename(s) \/ Swap(s)
    \/ \E content \in {Torn} \cup [Roles -> {{}, None}] : Edit(content)
    \/ Restart

Spec == Init /\ [][Next]_vars
----------------------------------------------------------------------------
(* What the gates decide by is what a restart would load: once the changes   *)
(* in flight are through, and whatever order they overtook each other in,    *)
(* failed in, or wrote over each other's tmp file in, the engine has the map *)
(* of the file, or the file is one that no start accepts; unless an operator *)
(* edited the file or one write met another's rename.                        *)
EngineIsFile ==
    (\A s \in Slots : slot[s] = None) /\ ~edited /\ ~torn => engine = file \/ ~Loads(file)

(* The server can be started at every moment: a change never leaves a file   *)
(* the boot refuses, with changes one at a time, failed ones included.       *)
AlwaysLoads == ~clash /\ count.edit = 0 => Loads(file)
=============================================================================
