---------------------------- MODULE EnterpriseGate ----------------------------
(***************************************************************************)
(* The optional gate of enterprise-gate.ts: whether an entitlement token   *)
(* switches it on is found out once and kept as a promise; every tool call *)
(* is decided against the RBAC policy and the catalogue it read then; two  *)
(* handlers replace those files while calls and builds of the gate run.    *)
(* The decisions are those of src/enterprise/rbac and catalog, the chained *)
(* log that of src/enterprise/audit.                                       *)
(***************************************************************************)
EXTENDS Naturals, Sequences, FiniteSets

CONSTANTS
    Slots,          \* requests that may run at once
    Tokens,         \* what OMCP_ENTITLEMENT_TOKEN may be: signed, iat, exp, features; or None
    Skew,           \* clock skew allowed for iat
    Modules,        \* src/enterprise is there
    StartFiles,     \* what the files may be at start: policy and catalog, None when not
                    \* configured, Garbage when they do not parse
    Calls,          \* tool calls: principal, tool, source, service, sources it is bound to
    Edits,          \* PUTs: principal, target and body
    AdminCap, Star, Garbage, None,
    MaxBuilds, MaxOps, MaxFailures, MaxRestarts, MaxTime     \* bounds of the model

VARIABLES
    file,           \* "policy", "catalog" -> the body on disk and its version
    token, now,
    builds,         \* the promises of buildGate, in the order they were made
    memo,           \* gatePromise: a number in builds, or 0
    ops,            \* slot -> its request, or None
    answered,       \* history: the version of the last edit answered with 200
    log,            \* the audit log in memory: its run and its length, or None
    entries,        \* OMCP_AUDIT_FILE: entries, with their run and number
    started, failures, restarts

vars == <<file, token, now, builds, memo, ops, answered, log, entries, started, failures, restarts>>
Targets == {"policy", "catalog"}

----------------------------------------------------------------------------
\* listAllows and axisAllows: what an allow-list says of a value, and what an empty one does.
ListAllows(list, value, empty) == IF list = {} THEN empty ELSE Star \in list \/ value \in list

\* rolesFor and grantedProductNames: the names bound to a principal, or the default ones.
Bound(binding, default, who) ==
    IF who \in DOMAIN binding /\ binding[who] # {} THEN binding[who] ELSE default

\* evaluate of rbac: default-deny, one role has to grant everything.
RbacAllows(p, q) ==
    \E role \in Bound(p.bindings, p.defaults, q.who) \cap DOMAIN p.roles :
        /\ ListAllows(p.roles[role].tools, q.tool, FALSE)
        /\ q.source # None => ListAllows(p.roles[role].sources, q.source, FALSE)
        /\ q.service # None => ListAllows(p.roles[role].services, q.service, FALSE)

\* evaluateCatalog: inside one product; services and tools a product omits are free.
CatalogAllows(c, q) ==
    \E name \in Bound(c.grants, c.defaults, q.who) \cap DOMAIN c.products :
        /\ q.source # None => ListAllows(c.products[name].sources, q.source, FALSE)
        /\ q.service # None => ListAllows(c.products[name].services, q.service, TRUE)
        /\ ListAllows(c.products[name].tools, q.tool, TRUE)

\* enforce and enforceCatalog: the sources the context is bound to come first.
InBound(q) == q.source # None /\ q.bound # {} => q.source \in q.bound

\* verifyEntitlement: the signature over the canonical bytes, then the times.
Verified == token.signed /\ now < token.exp /\ token.iat <= now + Skew

\* hasFeature.
Has(feature) == Star \in token.features \/ feature \in token.features

\* verifyChain: every entry has its place and the hash of the one before it, which stands
\* for the whole log before that.
ChainVerifies(es) == \A i \in DOMAIN es : es[i].n = i - 1 /\ es[i].run = es[1].run

\* policyGrantsAdmin.
GrantsAdmin(p, who) ==
    RbacAllows(p, [who |-> who, tool |-> AdminCap, source |-> None, service |-> None])

----------------------------------------------------------------------------
Configured(t) == file[t].body # None
ControlsConfigured == \E t \in Targets : Configured(t)

\* inactive: off when no control is configured, closed when one is.
Inactive == [at |-> "done", mode |-> IF ControlsConfigured THEN "fail-closed" ELSE "off",
             todo |-> <<>>, read |-> [t \in Targets |-> [v |-> 0, body |-> None]], run |-> None]

\* The part of buildGate before its first await.
Fresh == IF token = None THEN Inactive ELSE [Inactive EXCEPT !.at = "import"]

\* "if (!gatePromise) gatePromise = buildGate()": the promise a request waits for.
Awaited == IF memo = 0 THEN Len(builds) + 1 ELSE memo
Awaits ==
    IF memo # 0 THEN UNCHANGED <<builds, memo>>
    ELSE /\ Len(builds) < MaxBuilds
         /\ builds' = Append(builds, Fresh) /\ memo' = Len(builds) + 1

\* getAuditLog: made once in a process, whatever happens to the gate.
OwnLog == IF log # None THEN log ELSE [run |-> restarts, len |-> 0]

\* buildGate after the import: the token is verified, and the log made when entitled.
Verify(b) ==
    /\ builds[b].at = "import"
    /\ LET ok == Modules /\ Verified
           todo == (IF Configured("policy") THEN <<"policy">> ELSE <<>>)
                     \o (IF Configured("catalog") THEN <<"catalog">> ELSE <<>>)
       IN  /\ builds' = [builds EXCEPT ![b] =
                  IF ok THEN [@ EXCEPT !.at = IF todo = <<>> THEN "done" ELSE "read", !.mode = "active",
                                       !.todo = todo, !.run = IF Has("audit") THEN OwnLog.run ELSE None]
                        ELSE Inactive]
           /\ log' = IF ok /\ Has("audit") THEN OwnLog ELSE log
    /\ UNCHANGED <<file, token, now, memo, ops, answered, entries, started, failures, restarts>>

\* One file is read, after the module for it has been imported; what does not parse
\* rejects the promise for good.
ReadFile(b) ==
    /\ builds[b].at = "read"
    /\ LET g == builds[b]
           t == Head(g.todo)
       IN  builds' = [builds EXCEPT ![b] =
               IF file[t].body = Garbage THEN [g EXCEPT !.at = "rejected"]
               ELSE [g EXCEPT !.read[t] = file[t], !.todo = Tail(g.todo),
                              !.at = IF Len(g.todo) = 1 THEN "done" ELSE "read"]]
    /\ UNCHANGED <<file, token, now, memo, ops, answered, log, entries, started, failures, restarts>>

----------------------------------------------------------------------------
Rest(s) == ops[s] # None => ops[s].at = "ended"
Ready(s, at) == ops[s] # None /\ ops[s].at = at /\ builds[ops[s].build].at \in {"done", "rejected"}
Gate(s) == builds[ops[s].build]
Settles(s, status) == ops' = [ops EXCEPT ![s].at = "ended", ![s].status = status]

\* A request: a tool call, or a PUT of one of the files.
Begin(s, kind, q) ==
    /\ Rest(s) /\ started < MaxOps /\ started' = started + 1
    /\ Awaits
    /\ ops' = [ops EXCEPT ![s] = [kind |-> kind, q |-> q, at |-> IF kind = "call" THEN "decide" ELSE "authorize",
                                  build |-> Awaited, status |-> None, since |-> answered, made |-> 0]]
    /\ UNCHANGED <<file, token, now, answered, log, entries, failures, restarts>>

\* record of the audit log: numbered in memory, then appended; the append may fail.
Audits(g) ==
    IF g.at # "done" \/ g.mode # "active" \/ g.run = None THEN UNCHANGED <<log, entries, failures>>
    ELSE /\ log' = [log EXCEPT !.len = @ + 1]
         /\ \/ entries' = Append(entries, [run |-> g.run, n |-> log.len]) /\ UNCHANGED failures
            \/ failures < MaxFailures /\ failures' = failures + 1 /\ UNCHANGED entries

\* What an active gate decides: every control that is configured, none of them without
\* the entitlement.
Decides(g, q) ==
    /\ (\E t \in Targets : g.read[t].body # None) => Has("access-control")
    /\ g.read["policy"].body # None => InBound(q) /\ RbacAllows(g.read["policy"].body, q)
    /\ g.read["catalog"].body # None => InBound(q) /\ CatalogAllows(g.read["catalog"].body, q)

\* enforceEntitledAccess, once the gate is there.
Decide(s) ==
    /\ Ready(s, "decide")
    /\ LET g == Gate(s)
           allowed == g.at = "done" /\ (g.mode = "off" \/ (g.mode = "active" /\ Decides(g, ops[s].q)))
       IN  Settles(s, IF allowed THEN 200 ELSE 403) /\ Audits(g)
    /\ UNCHANGED <<file, token, now, builds, memo, answered, started, restarts>>

\* authorizeAdmin: against the policy as it is on disk now.
Authorize(s) ==
    /\ Ready(s, "authorize")
    /\ LET p == file["policy"].body
           who == ops[s].q.who
       IN  CASE Gate(s).at = "rejected" -> Settles(s, 500)
             [] Gate(s).at = "done" /\ (Gate(s).mode # "active" \/ p = None) -> Settles(s, 409)
             [] Gate(s).at = "done" /\ Gate(s).mode = "active" /\ p # None ->
                  CASE who = None -> Settles(s, 401)
                    [] who # None /\ p = Garbage -> Settles(s, 500)
                    [] who # None /\ p # Garbage ->
                         IF GrantsAdmin(p, who) THEN ops' = [ops EXCEPT ![s].at = "write"] ELSE Settles(s, 403)
    /\ UNCHANGED <<file, token, now, builds, memo, answered, log, entries, started, failures, restarts>>

\* validatePolicyShape and the anti-lockout check, or validateCatalogShape.
Accepts(e) == e.body # Garbage /\ (e.target = "policy" => GrantsAdmin(e.body, e.who))

\* updateRbacPolicy, updateCatalog up to the write, a rename over the file, and the
\* promise they wait for after it.
Write(s) ==
    /\ ops[s] # None /\ ops[s].at = "write"
    /\ LET e == ops[s].q
       IN  \/ e.target = "catalog" /\ ~Configured("catalog") /\ Settles(s, 409) /\ UNCHANGED <<file, builds, memo, failures>>
           \/ Configured(e.target) /\ ~Accepts(e) /\ Settles(s, 400) /\ UNCHANGED <<file, builds, memo, failures>>
           \/ /\ Configured(e.target) /\ Accepts(e) /\ failures < MaxFailures /\ failures' = failures + 1
              /\ Settles(s, 500) /\ UNCHANGED <<file, builds, memo>>
           \/ /\ Configured(e.target) /\ Accepts(e)
              /\ file' = [file EXCEPT ![e.target] = [v |-> @.v + 1, body |-> e.body]]
              /\ Awaits
              /\ ops' = [ops EXCEPT ![s].at = "audit", ![s].build = Awaited, ![s].made = file[e.target].v + 1]
              /\ UNCHANGED failures
    /\ UNCHANGED <<token, now, answered, log, entries, started, restarts>>

\* A slip: an edit leaves the promise that is kept.
KeptGateStays == memo

\* _resetEnterpriseGate: what is kept after an edit.
KeptGate == 0

\* The change is audited, the gate dropped, and the PUT answered.
Answer(s) ==
    /\ Ready(s, "audit")
    /\ Audits(Gate(s))
    /\ memo' = KeptGate
    /\ Settles(s, 200)
    /\ answered' = [answered EXCEPT ![ops[s].q.target] = IF ops[s].made > @ THEN ops[s].made ELSE @]
    /\ UNCHANGED <<file, token, now, builds, started, restarts>>

Tick ==
    /\ now < MaxTime /\ now' = now + 1
    /\ UNCHANGED <<file, token, builds, memo, ops, answered, log, entries, started, failures, restarts>>

Restart ==
    /\ restarts < MaxRestarts /\ restarts' = restarts + 1
    /\ builds' = <<>> /\ memo' = 0 /\ ops' = [s \in Slots |-> None] /\ log' = None
    /\ UNCHANGED <<file, token, now, answered, entries, started, failures>>

Init ==
    /\ \E at \in StartFiles : file = [t \in Targets |-> [v |-> 1, body |-> at[t]]]
    /\ token \in Tokens /\ now = 0
    /\ builds = <<>> /\ memo = 0 /\ ops = [s \in Slots |-> None]
    /\ answered = [t \in Targets |-> 0] /\ log = None /\ entries = <<>>
    /\ started = 0 /\ failures = 0 /\ restarts = 0

Next ==
    \/ \E b \in DOMAIN builds : Verify(b) \/ ReadFile(b)
    \/ \E s \in Slots :
          \/ \E q \in Calls : Begin(s, "call", q)
          \/ \E e \in Edits : Begin(s, "put", e)
          \/ Decide(s) \/ Authorize(s) \/ Write(s) \/ Answer(s)
    \/ Tick \/ Restart

Spec == Init /\ [][Next]_vars
----------------------------------------------------------------------------
(* A call that is let through while a control is configured was decided by   *)
(* an active gate, against a policy and a catalogue at least as new as any   *)
(* edit answered before the call came, whatever builds were under way; what  *)
(* cannot be activated or read lets nothing through.                         *)
AnsweredEditsHold ==
    \A s \in Slots : ops[s] # None /\ ops[s].kind = "call" /\ ops[s].status = 200 =>
        \A t \in Targets : Configured(t) =>
            Gate(s).mode = "active" /\ Gate(s).read[t].v >= ops[s].since[t]

(* The PUTs never leave a policy that makes nobody an administrator, in      *)
(* whatever order their steps come.                                          *)
SomeoneAdministers ==
    LET p == file["policy"] IN p.v > 1 => p.body # Garbage /\ \E e \in Edits : e.who # None /\ GrantsAdmin(p.body, e.who)

(* The chain of the log on disk verifies through every reset of the gate;    *)
(* only a lost append or a new process breaks it.                            *)
GateResetsKeepChain ==
    restarts = 0 /\ failures = 0 => ChainVerifies(entries)
=============================================================================
