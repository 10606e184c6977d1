------------------------------- MODULE ToolCall -------------------------------
(***************************************************************************)
(* One MCP call from the request context to the answer, with the hooks     *)
(* around its handler and the inspector that watches them: wrapToolHandler *)
(* and HookRegistry.fire of sdk/*, the enforcer (before the handler), the  *)
(* recorder (after it), the profile of inspect/*, and the handlers of      *)
(* /api/inspect that change the mode and the profile while calls run.      *)
(***************************************************************************)
EXTENDS Naturals, Sequences, FiniteSets, FiniteSetsExt, SequencesExt

CONSTANTS
    Slots,          \* calls that may run at once
    Requests,       \* calls: credential, surface, tool, resource, argument, bypass
    ProductTools,   \* product -> its tools; a product the tenant cannot see is missing
    Plugins,        \* hooks that plugins registered before the server's own
    RingCap, BootMode, Entitled, Redaction, None,
    MaxCalls, MaxReviews, MaxFailures   \* bounds of the model

VARIABLES
    mode,           \* ModeController.mode
    rules, file,    \* the profile in memory, and its file
    ring,           \* observations, oldest first
    calls,          \* slot -> its call, or None
    audited,        \* history: bypasses in the audit log
    started, reviews, failures

vars == <<mode, rules, file, ring, calls, audited, started, reviews, failures>>

----------------------------------------------------------------------------
\* The bands of signature.ts: how many edges a number is beyond.
Above(n, edges) == Cardinality({e \in edges : n > e})

\* deriveSignature on one argument: its shape, never its value.  A query keeps which
\* metrics and labels it touches.
Shape(a) ==
    CASE a.kind = "number"   -> <<"num", Above(a.n, {10, 100, 1000})>>
      [] a.kind = "list"     -> <<"n", Above(a.n, {1, 10, 100, 1000})>>
      [] a.kind = "duration" -> <<"time", Above(a.n, {300, 3600, 86400})>>
      [] a.kind = "query"    -> <<"query", a.n>>
      [] a.kind = "text"     -> <<"text", a.n > 0>>
      [] OTHER               -> None

\* The signature of a call: subject, tool, resource and shape.
Signature(q) ==
    [subject |-> q.cred.name, tool |-> q.tool, res |-> q.res, shape |-> Shape(q.arg)]

----------------------------------------------------------------------------
\* gateCtx: the tools of the product a credential is bound to; none when the product is
\* gone or belongs to another tenant.
ProductList(cred) == IF cred.product \in DOMAIN ProductTools THEN ProductTools[cred.product] ELSE {}

\* principalContext, defaultContext: the two lists that narrow the tools of a caller.
Narrowing(cred) == {ProductList(cred), cred.tools}

\* allowsTool, of both lists; an empty list does not narrow.
Allows(list, tool) == list = {} \/ tool \in list
Registers(cred, tool) == \A list \in Narrowing(cred) : Allows(list, tool)

\* The native tools, by what their handlers do with the answer.
Listing == {"list_sources", "list_services"}
Curated == {"query_metrics"}
Redacting == {"query_logs"}
Reports == {"get_anomaly_history", "generate_postmortem", "query_traces", "get_service_health"}
Scanning == {"detect_anomalies", "get_topology", "get_blast_radius", "enrich_ips"}
Native == Listing \cup Curated \cup Redacting \cup Reports \cup Scanning
Charged == Curated \cup Redacting \cup Reports

\* What hooks are wrapped around: the tools, the usage guide, the prompts.
Surfaces == {"tool", "resource", "prompt"}

\* redactToolText: the text of the answer after redaction.
Text(q) ==
    IF q.tool \in Redacting /\ Redaction /\ ~(q.bypass /\ q.cred.bypass) THEN "redacted" ELSE "raw"

\* chargeTokenBudget and applyBudgetDecision: over the budget, the error takes the
\* place of the text; anonymous callers have no budget.
Charge(q, text, over) ==
    IF over /\ q.cred.auth = "apikey" /\ q.tool \in Charged THEN "over budget" ELSE text

\* The handler of query_logs: a wanted bypass is audited, engaged (200) or denied (403).
Audit(q) ==
    audited' = IF q.tool \in Redacting /\ q.bypass
               THEN Append(audited, [actor |-> q.cred.name, status |-> IF q.cred.bypass THEN 200 ELSE 403])
               ELSE audited

----------------------------------------------------------------------------
\* The hooks of the server: recorder and enforcer, after those of the plugins.
Recorder == [plugin |-> "inspect-recorder", kind |-> <<"tool", "post">>, priority |-> 5, mode |-> "permissive", does |-> "record"]
Enforcer == [plugin |-> "inspect-enforcer", kind |-> <<"tool", "pre">>, priority |-> 5, mode |-> "permissive", does |-> "enforce"]
Registered == Plugins \o <<Recorder, Enforcer>>

\* HookRegistry.list: the hooks of a kind that are not disabled, by priority, equal ones
\* as registered.
Due(kind) == {i \in DOMAIN Registered : Registered[i].kind = kind /\ Registered[i].mode # "disabled"}
Comes(i, j) ==
    \/ Registered[i].priority < Registered[j].priority
    \/ Registered[i].priority = Registered[j].priority /\ i < j
Sorted(order) == \A k, m \in DOMAIN order : k < m => Comes(order[k], order[m])
InOrder(order) == [k \in DOMAIN order |-> Registered[order[k]]]
HookList(kind) == InOrder(CHOOSE s \in SetToSeqs(Due(kind)) : Sorted(s))

----------------------------------------------------------------------------
\* A slip: a call without a resource is out of range when the rule names some.
EvaluateStrict(s, rs) ==
    LET mine == {i \in DOMAIN rs : rs[i].status = "accepted" /\ rs[i].subject \in {s.subject, "*"}}
        fits == {i \in mine : rs[i].tool = s.tool}
        rule == rs[Min(fits)]
    IN  CASE mine = {} -> "new-principal"
          [] mine # {} /\ fits = {} -> "new-tool"
          [] fits # {} /\ rule.res # {} /\ s.res \notin rule.res -> "new-resource"
          [] OTHER -> "allow"

\* evaluateCall: the first accepted rule for the tool decides.
Evaluate(s, rs) ==
    LET mine == {i \in DOMAIN rs : rs[i].status = "accepted" /\ rs[i].subject \in {s.subject, "*"}}
        fits == {i \in mine : rs[i].tool = s.tool}
        rule == rs[Min(fits)]
    IN  CASE mine = {} -> "new-principal"
          [] mine # {} /\ fits = {} -> "new-tool"
          [] fits # {} /\ s.res # None /\ s.res \notin rule.res -> "new-resource"
          [] fits # {} /\ (s.res = None \/ s.res \in rule.res) /\ s.shape # None /\ s.shape \notin rule.shapes -> "arg-out-of-range"
          [] OTHER -> "allow"

\* constraintsFrom: what a group of observed signatures covers; "from" is a history.
Rule(subject, tool, group, status) ==
    [id |-> <<subject, tool>>, subject |-> subject, tool |-> tool, status |-> status,
     res |-> {s.res : s \in group} \ {None}, shapes |-> {s.shape : s \in group} \ {None}, from |-> group]

IndexOf(rs, id) == {i \in DOMAIN rs : rs[i].id = id}

\* deriveProfile: a suggested rule per subject and tool of the observations, over those of
\* the profile that nobody has decided.
DeriveProfile(rs, observed) ==
    LET Group(id) == {s \in observed : <<s.subject, s.tool>> = id}
        ids   == {<<s.subject, s.tool>> : s \in observed}
        fresh == SetToSeq({id \in ids : IndexOf(rs, id) = {}})
        New(id) == Rule(id[1], id[2], Group(id), "suggested")
    IN  [i \in DOMAIN rs |-> IF rs[i].id \in ids /\ rs[i].status = "suggested" THEN New(rs[i].id) ELSE rs[i]]
        \o [i \in DOMAIN fresh |-> New(fresh[i])]

\* absorb: the rule of the subject and tool, accepted, takes the signature in.
AbsorbInto(rs, s) ==
    LET Widened(r) == [r EXCEPT !.status = "accepted", !.res = r.res \cup ({s.res} \ {None}),
                                !.shapes = r.shapes \cup ({s.shape} \ {None}), !.from = r.from \cup {s}]
        at == IndexOf(rs, <<s.subject, s.tool>>)
    IN  IF at = {} THEN Append(rs, Rule(s.subject, s.tool, {s}, "accepted"))
        ELSE [rs EXCEPT ![Min(at)] = Widened(@)]

----------------------------------------------------------------------------
Init ==
    /\ mode = IF BootMode = "enforce" /\ ~Entitled THEN "dryrun" ELSE BootMode
    /\ rules = <<>> /\ file = <<>> /\ ring = <<>> /\ audited = <<>>
    /\ calls = [c \in Slots |-> None]
    /\ started = 0 /\ reviews = 0 /\ failures = 0

Recording == mode # "off"
Running(c) == calls[c] # None /\ calls[c].at # "ended"
Goes(c, new) == calls' = [calls EXCEPT ![c] = new]
Ended(c, end) == [calls[c] EXCEPT !.at = "ended", !.end = end]

\* The tool is registered for the credential, and its hooks before the handler begin.
Start(c, q) ==
    /\ ~Running(c) /\ started < MaxCalls /\ started' = started + 1
    /\ q.surface \in Surfaces /\ (q.surface = "tool" => q.tool \in Native /\ Registers(q.cred, q.tool))
    /\ Goes(c, [q |-> q, at |-> "pre", hooks |-> HookList(<<q.surface, "pre">>), text |-> None,
                end |-> None, seen |-> 0, unwatched |-> ~Recording])
    /\ UNCHANGED <<mode, rules, file, ring, audited, reviews, failures>>

\* InspectStore.record: into a ring.
Observe(c, decision) ==
    LET all == Append(ring, [sig |-> Signature(calls[c].q), decision |-> decision])
    IN  ring' = IF Len(all) > RingCap THEN Tail(all) ELSE all

Past(c) == [calls[c] EXCEPT !.hooks = Tail(@)]

\* The enforcer: blocks and records what deviates, in enforce mode only.
Enforce(c) ==
    /\ Running(c) /\ calls[c].hooks # <<>> /\ Head(calls[c].hooks).does = "enforce"
    /\ IF mode = "enforce" /\ Entitled /\ Evaluate(Signature(calls[c].q), rules) # "allow"
       THEN Observe(c, "blocked") /\ Goes(c, [Ended(c, "blocked") EXCEPT !.seen = @ + 1])
       ELSE Goes(c, Past(c)) /\ UNCHANGED ring
    /\ UNCHANGED <<mode, rules, file, audited, started, reviews, failures>>

\* The recorder: records unless off; what deviates in dry-run or enforce is would-block.
Record(c) ==
    /\ Running(c) /\ calls[c].hooks # <<>> /\ Head(calls[c].hooks).does = "record"
    /\ IF Recording
       THEN /\ Observe(c, IF mode # "observe" /\ Evaluate(Signature(calls[c].q), rules) # "allow"
                          THEN "would-block" ELSE "allow")
            /\ Goes(c, [Past(c) EXCEPT !.seen = @ + 1])
       ELSE Goes(c, Past(c)) /\ UNCHANGED ring
    /\ UNCHANGED <<mode, rules, file, audited, started, reviews, failures>>

\* fire, on a plugin's hook: a refusal ends the call, and so does a throw unless the hook
\* is permissive.
Fire(c) ==
    /\ Running(c) /\ calls[c].hooks # <<>>
    /\ LET h == Head(calls[c].hooks)
       IN  /\ h.does \in {"allow", "deny", "throw"}
           /\ Goes(c, IF h.does = "deny" \/ (h.does = "throw" /\ h.mode # "permissive")
                      THEN Ended(c, "denied") ELSE Past(c))
    /\ UNCHANGED <<mode, rules, file, ring, audited, started, reviews, failures>>

\* The handler ran, and the hooks after it begin.
Handle(c, over) ==
    /\ Running(c) /\ calls[c].hooks = <<>> /\ calls[c].at = "pre"
    /\ LET q == calls[c].q
       IN  /\ Goes(c, [calls[c] EXCEPT !.at = "post", !.hooks = HookList(<<q.surface, "post">>),
                                       !.text = Charge(q, Text(q), over)])
           /\ Audit(q)
    /\ UNCHANGED <<mode, rules, file, ring, started, reviews, failures>>

\* The handler throws (an entitlement is missing): no hook runs after it.
Throws(c) ==
    /\ Running(c) /\ calls[c].hooks = <<>> /\ calls[c].at = "pre" /\ failures < MaxFailures
    /\ failures' = failures + 1 /\ Goes(c, Ended(c, "threw"))
    /\ UNCHANGED <<mode, rules, file, ring, audited, started, reviews>>

Answer(c) ==
    /\ Running(c) /\ calls[c].hooks = <<>> /\ calls[c].at = "post"
    /\ Goes(c, Ended(c, "answered"))
    /\ UNCHANGED <<mode, rules, file, ring, audited, started, reviews, failures>>

----------------------------------------------------------------------------
Review == reviews < MaxReviews /\ reviews' = reviews + 1

\* PUT /api/inspect/mode.
SetMode(m) ==
    /\ Review /\ (m = "enforce" => Entitled) /\ mode' = m
    /\ calls' = [c \in Slots |-> IF m = "off" /\ Running(c) THEN [calls[c] EXCEPT !.unwatched = TRUE] ELSE calls[c]]
    /\ UNCHANGED <<rules, file, ring, audited, started, failures>>

\* ProfileStore.persist: written at once, and a failure is swallowed.
Persist(rs) ==
    /\ rules' = rs
    /\ \/ file' = rs /\ UNCHANGED failures
       \/ failures < MaxFailures /\ failures' = failures + 1 /\ UNCHANGED file
    /\ UNCHANGED <<mode, ring, calls, audited, started>>

\* POST derive, on a window of the ring.
Derive == Review /\ \E k \in DOMAIN ring :
    Persist(DeriveProfile(rules, {ring[i].sig : i \in k .. Len(ring)}))

\* PATCH and DELETE of a rule.
SetStatus(i, status) == Review /\ Persist([rules EXCEPT ![i].status = status])
Rename(i, subject) == Review /\ Persist([rules EXCEPT ![i].subject = subject])
Discard(i) == Review /\ Persist(RemoveAt(rules, i))

\* POST from-deviation: one that is on record.
Absorb(k) == Review /\ ring[k].decision # "allow" /\ Persist(AbsorbInto(rules, ring[k].sig))

\* A new process: the profile is read, the ring is not.
Restart ==
    /\ Review
    /\ rules' = file /\ ring' = <<>> /\ calls' = [c \in Slots |-> None]
    /\ mode' = IF BootMode = "enforce" /\ ~Entitled THEN "dryrun" ELSE BootMode
    /\ UNCHANGED <<file, audited, started, failures>>

Next ==
    \/ \E c \in Slots :
          \/ \E q \in Requests : Start(c, q)
          \/ Enforce(c) \/ Record(c) \/ Fire(c) \/ Throws(c) \/ Answer(c)
          \/ \E over \in BOOLEAN : Handle(c, over)
    \/ \E m \in {"off", "observe", "dryrun", "enforce"} : SetMode(m)
    \/ Derive \/ Restart
    \/ \E i \in DOMAIN rules : Discard(i) \/ (\E subject \in {"*", "else"} : Rename(i, subject)) \/ \E st \in {"accepted", "rejected"} : SetStatus(i, st)
    \/ \E k \in DOMAIN ring : Absorb(k)

Spec == Init /\ [][Next]_vars
----------------------------------------------------------------------------
(* No tool call is observed twice, and one that ended by a block or an       *)
(* answer is observed once unless the inspector was off during it, however   *)
(* the mode and the profile changed between the hooks before and after its   *)
(* handler and whatever the plugins' hooks do.                               *)
OneObservation ==
    \A c \in Slots : calls[c] # None /\ calls[c].at = "ended" /\ calls[c].q.surface = "tool" =>
        /\ calls[c].seen <= 1
        /\ calls[c].end = "blocked" \/ (calls[c].end = "answered" /\ ~calls[c].unwatched) => calls[c].seen = 1

(* Learned traffic passes: an accepted rule lets through every signature it  *)
(* was derived from or that was absorbed into it, while its subject covers   *)
(* the caller, unless an accepted rule before it speaks for the same subject *)
(* and tool; through derivations, renamings, decisions taken back, restarts. *)
LearnedPasses ==
    \A i \in DOMAIN rules : rules[i].status = "accepted" =>
        \A s \in rules[i].from :
            \/ rules[i].subject \notin {s.subject, "*"}
            \/ Evaluate(s, rules) = "allow"
            \/ \E j \in 1 .. i - 1 : /\ rules[j].status = "accepted" /\ rules[j].tool = s.tool
                                     /\ rules[j].subject \in {s.subject, "*"}

(* Every answer with raw log text went to a credential that may have it, and *)
(* left its entry in the audit log, as every refused bypass did.             *)
RawIsAudited ==
    \A c \in Slots : calls[c] # None /\ calls[c].at \in {"post", "ended"} /\ calls[c].q.tool \in Redacting =>
        (calls[c].text = "raw" /\ Redaction =>
            /\ calls[c].q.cred.bypass
            /\ \E k \in DOMAIN audited : audited[k].actor = calls[c].q.cred.name /\ audited[k].status = 200)
=============================================================================
