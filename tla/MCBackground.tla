----------------------------- MODULE MCBackground -----------------------------
(* A small instance of Background.  Its AuditLog and McpSessions have smaller  *)
(* bounds than where their safety is checked.                                  *)
EXTENDS Background, TLC

\* Upstreams with a scheme nobody speaks, and with a name twice; later lists offer more.
Entry(name, kind) == [name |-> name, kind |-> kind, named |-> TRUE]
SomeEnvironments == {<<Entry("a", "ws"), Entry("b", "ftp")>>, <<Entry("a", "http"), Entry("a", "ws")>>}
SomeOffers == [u \in {"a", "b"} |-> [v \in 0 .. 2 |-> IF v = 1 THEN {"t"} ELSE {"t", "q"}]]

\* Upgrades to another path, with a good and a bad token, and over the rate limit.
Ask(path, token, limited) == [path |-> path, token |-> token, limited |-> limited]
SomeRequests == {Ask("/", None, FALSE), Ask("/mcp/ws", "known", FALSE), Ask("/mcp/ws", "bad", FALSE),
                 Ask("/mcp/ws", "known", TRUE)}
=============================================================================
