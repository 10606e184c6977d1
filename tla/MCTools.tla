-------------------------------- MODULE MCTools --------------------------------
(* A small instance of Tools. *)
EXTENDS Tools, TLC

CONSTANTS q1, q2, s1, a, b, c, z, bad

\* A key bound to a product, redacted or not, and an anonymous prompt.
Key  == [name |-> "ci", auth |-> "apikey", product |-> "shop", tools |-> {}, bypass |-> TRUE]
Anon == [name |-> "anonymous", auth |-> "anonymous", product |-> "none", tools |-> {}, bypass |-> FALSE]
Asks(cred, surface, tool, res, arg, bypass) ==
  [cred |-> cred, surface |-> surface, tool |-> tool, res |-> res, arg |-> arg, bypass |-> bypass]
SomeInvocations ==
  {Asks(Key, "tool", "query_logs", "api", [kind |-> "number", n |-> 50], TRUE),
   Asks(Key, "tool", "query_logs", None, [kind |-> "none", n |-> 0], FALSE),
   Asks(Anon, "prompt", "triage", None, [kind |-> "none", n |-> 0], FALSE)}
ShopTools == "shop" :> {"query_logs"}
NoPlugins == <<>>

\* Two administrators who may drop each other, and a token that expires.
Role(tools, sources, services) == [tools |-> tools, sources |-> sources, services |-> services]
Policy(bindings) ==
  [roles |-> "admin" :> Role({AdminCap, "q"}, {}, {}) @@ "user" :> Role({"q"}, {"s"}, {"*"}),
   bindings |-> bindings, defaults |-> {"user"}]
Both == Policy("a" :> {"admin"} @@ "b" :> {"admin"})
Catalog(defaults) ==
  [products |-> "p" :> [sources |-> {"s"}, services |-> {}, tools |-> {}], grants |-> <<>>, defaults |-> defaults]
SomeTokens ==
  {None, [signed |-> TRUE, iat |-> 0, exp |-> 1, features |-> {"access-control", "audit"}],
   [signed |-> TRUE, iat |-> 0, exp |-> 9, features |-> {"audit"}]}
SomeFiles ==
  {[policy |-> Both, catalog |-> Catalog({"p"})], [policy |-> None, catalog |-> Catalog({"p"})],
   [policy |-> Garbage, catalog |-> None]}
SomeCalls == {[who |-> "c", tool |-> "q", source |-> "s", service |-> None, bound |-> {}]}
Edit(who, target, body) == [who |-> who, target |-> target, body |-> body]
SomeEdits ==
  {Edit("a", "policy", Policy("a" :> {"admin"})), Edit("b", "policy", Policy("b" :> {"admin"} @@ "a" :> {})),
   Edit("a", "catalog", Catalog({})), Edit("b", "policy", Policy("a" :> {"admin"})),
   Edit(None, "policy", Garbage), Edit("a", "policy", Policy(<<>>))}

\* A node, two pods, one without its label for a while, and their deployment; a provider
\* that knows the same service, and one that knows the same node.
Obj(id, k, app, node, owner) == [id |-> id, kind |-> k, app |-> app, node |-> node, owner |-> owner]
Res(id, k, app) == [id |-> id, kind |-> k, source |-> 2, app |-> app]
SomeObjects ==
  {Obj(1, "node", "rack", None, None), Obj(2, "pod", "web", 1, 4), Obj(3, "pod", "web", 1, 4),
   Obj(3, "pod", None, 1, None), Obj(4, "deployment", "api", None, None),
   Obj(4, "deployment", None, None, None)}
SomeOthers ==
  {[resources |-> {Res(7, "trace_service", "api"), Res(8, "trace_service", None)},
    edges |-> {[from |-> 8, to |-> 7, rel |-> "CALLS"]}],
   [resources |-> {Res(7, "pod", "web"), Res(9, "node", "rack")},
    edges |-> {[from |-> 7, to |-> 9, rel |-> "RUNS_ON"]}]}

TwoLabels == <<"job", "service">>
TwoCandidates == <<"process", "node">>
\* A service with a label, or with the other; one whose name is a job of other series, which
\* hides its own label; and one that is gone.
Exposed(named, exposes) == [named |-> named, exposes |-> exposes]
SomeExposures ==
  {Exposed({"job"}, {<<"job", "node">>}), Exposed({"service"}, {<<"service", "process">>}),
   Exposed({"job", "service"}, {<<"service", "process">>}), Exposed({}, {})}

\* A Loki with the service under its first label, or its last, or hidden there by a name under
\* the first; with a stream under each; with a critical message that others crowd out, and with
\* errors that are not recent.
Says(level, critical) == [level |-> level, critical |-> critical]
TwoLogLabels == <<"service", "container">>
Calm == {Says("info", FALSE), Says("warn", TRUE)}
Bad  == {Says("error", FALSE), Says("error", TRUE)}
AStream(recent, held, frequent) == [recent |-> recent, held |-> held, frequent |-> frequent]
Holds(service, container) == "service" :> service @@ "container" :> container
Loud == AStream(Bad, Bad \cup Calm, Bad)
Quiet == AStream(Calm, Calm, {})
SomeContents ==
  {Holds(s1 :> Loud, <<>>), Holds(<<>>, s1 :> AStream({}, Bad, Bad)), Holds("other" :> Quiet, s1 :> Loud),
   Holds(s1 :> Quiet, s1 :> Loud), Holds(s1 :> AStream(Bad, Bad, {Says("error", FALSE)}), <<>>)}

SomeLists == {<<a>>, <<bad, b, a>>}
OneRow == {[ips |-> {b}, prefix |-> 8]}

SomeGraphs == {{<<a, c>>, <<b, c>>, <<c, z>>}, {<<a, c>>, <<a, b>>, <<b, z>>}}
OneMarker == {[service |-> c, ts |-> 0]}

\* Requests that run beside each other are alike.
RequestSymmetry == Permutations({q1, q2})
=============================================================================
