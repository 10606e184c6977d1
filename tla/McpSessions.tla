---------------------------- MODULE McpSessions ----------------------------
(***************************************************************************)
(* The Streamable HTTP sessions of index.ts: POST and DELETE on /mcp and   *)
(* on the virtual servers /mcp/v/<slug>, over the three maps transports,   *)
(* sessionLastActive and sessionProduct, with the sweep of idle sessions.  *)
(* Every handler awaits the transport between its look at the maps and its *)
(* last write to them, so requests interleave there.  A transport is named *)
(* by the session id it issues.  GET and every refusal only read.          *)
(***************************************************************************)
EXTENDS Naturals

CONSTANTS
    Sids,           \* session ids, one for every transport of the model
    Products,       \* slugs of the virtual servers
    Root,           \* the /mcp surface
    Slots,          \* bound of the model: requests in flight at a time
    Ttl,            \* SESSION_TTL_MS, in ticks
    MaxRequests,    \* bound of the model: requests on sessions that are known
    Idle

ASSUME SessionAssumption == Root \notin Products /\ Idle \notin Products \cup {Root}
                         /\ Ttl \in Nat /\ MaxRequests \in Nat

VARIABLES
    transports,     \* the ids in the map
    lastActive,     \* ticks since an id was active, up to Ttl + 1; Idle: not in the map
    product,        \* the tag of an id; Root: none
    slot,           \* the request in flight in each slot
    minted,         \* history: the surface each issued id was issued on
    removed,        \* history: ids deleted, and not put back by a POST that was under way then
    trailing,           \* history: the slots whose POST was under way when its id was deleted
    requests

maps == <<transports, lastActive, product>>
vars == <<maps, slot, minted, removed, trailing, requests>>

Surfaces == Products \cup {Root}
Request == [step : {"post", "delete", "closed"}, sid : Sids, on : Surfaces]

----------------------------------------------------------------------------
Init ==
    /\ transports = {}
    /\ lastActive = [sid \in Sids |-> Idle]
    /\ product = [sid \in Sids |-> Root]
    /\ slot = [s \in Slots |-> Idle]
    /\ minted = [sid \in Sids |-> Idle]
    /\ removed = {}
    /\ trailing = {}
    /\ requests = 0

Begin(s, step, sid, on) ==
    /\ slot[s] = Idle
    /\ slot' = [slot EXCEPT ![s] = [step |-> step, sid |-> sid, on |-> on]]

\* The request is answered.
End(s) == slot' = [slot EXCEPT ![s] = Idle]

\* A slip: a session without a tag is anyone's.
FindsUntagged(sid, on) == sid \in transports /\ (on = Root \/ product[sid] \in {on, Root})

\* The session a handler finds: only the virtual servers look at the tag.
Finds(sid, on) == sid \in transports /\ (on = Root \/ product[sid] = on)

----------------------------------------------------------------------------
\* A POST without a known session: a transport of its own, which issues an id when the
\* body is an initialize request.
PostNew(s, sid, on) ==
    /\ minted[sid] = Idle
    /\ Begin(s, "post", sid, on)
    /\ minted' = [minted EXCEPT ![sid] = on]
    /\ UNCHANGED <<maps, removed, trailing, requests>>

\* A slip: an id that was issued is good enough.
PostKnownIssued(s, sid, on) ==
    /\ minted[sid] = on
    /\ requests < MaxRequests /\ requests' = requests + 1
    /\ Begin(s, "post", sid, on)
    /\ UNCHANGED <<maps, minted, removed, trailing>>

PostKnown(s, sid, on) ==
    /\ Finds(sid, on)
    /\ requests < MaxRequests /\ requests' = requests + 1
    /\ Begin(s, "post", sid, on)
    /\ UNCHANGED <<maps, minted, removed, trailing>>

\* The tail of a POST that was answered with a session id.
PostEnds(s) ==
    /\ slot[s] # Idle /\ slot[s].step = "post"
    /\ LET sid == slot[s].sid
       IN  /\ transports' = transports \cup {sid}
           /\ product' = IF sid \in transports \/ slot[s].on = Root THEN product
                         ELSE [product EXCEPT ![sid] = slot[s].on]
           /\ lastActive' = [lastActive EXCEPT ![sid] = 0]
           /\ removed' = IF s \in trailing THEN removed \ {sid} ELSE removed
    /\ End(s)
    /\ trailing' = trailing \ {s}
    /\ UNCHANGED <<minted, requests>>

\* Answered without one: not an initialize request, or a transport that is closed.
PostEndsUnnamed(s) ==
    /\ slot[s] # Idle /\ slot[s].step = "post"
    /\ End(s)
    /\ trailing' = trailing \ {s}
    /\ UNCHANGED <<maps, minted, removed, requests>>

Delete(s, sid, on) ==
    /\ Finds(sid, on)
    /\ requests < MaxRequests /\ requests' = requests + 1
    /\ Begin(s, "delete", sid, on)
    /\ UNCHANGED <<maps, minted, removed, trailing>>

\* The transport closes: onclose, which forgets the tag only where the transport was
\* made by a virtual server, and only when the map still has it.
Closes(s) ==
    /\ slot[s] # Idle /\ slot[s].step = "delete"
    /\ LET sid == slot[s].sid
       IN  /\ transports' = transports \ {sid}
           /\ product' = IF sid \in transports /\ minted[sid] # Root
                         THEN [product EXCEPT ![sid] = Root] ELSE product
    /\ slot' = [slot EXCEPT ![s].step = "closed"]
    /\ UNCHANGED <<lastActive, minted, removed, trailing, requests>>

Posts(sid) == {s \in Slots : slot[s] # Idle /\ slot[s].step = "post" /\ slot[s].sid = sid}

DeleteEnds(s) ==
    /\ slot[s] # Idle /\ slot[s].step = "closed"
    /\ LET sid == slot[s].sid
       IN  /\ transports' = transports \ {sid}
           /\ lastActive' = [lastActive EXCEPT ![sid] = Idle]
           /\ product' = [product EXCEPT ![sid] = Root]
           /\ removed' = removed \cup {sid}
           /\ trailing' = trailing \cup Posts(sid)
    /\ End(s)
    /\ UNCHANGED <<minted, requests>>

----------------------------------------------------------------------------
Expired == {sid \in Sids : lastActive[sid] # Idle /\ lastActive[sid] > Ttl}

\* The interval: the three maps forget what was idle for longer than the TTL.
Sweep ==
    /\ Expired # {}
    /\ transports' = transports \ Expired
    /\ lastActive' = [sid \in Sids |-> IF sid \in Expired THEN Idle ELSE lastActive[sid]]
    /\ product' = [sid \in Sids |-> IF sid \in Expired THEN Root ELSE product[sid]]
    /\ UNCHANGED <<slot, minted, removed, trailing, requests>>

\* Time: an age past the TTL says no more than that.
Tick ==
    /\ \E sid \in Sids : lastActive[sid] # Idle /\ lastActive[sid] <= Ttl
    /\ lastActive' = [sid \in Sids |-> IF lastActive[sid] # Idle /\ lastActive[sid] <= Ttl
                                       THEN lastActive[sid] + 1 ELSE lastActive[sid]]
    /\ UNCHANGED <<transports, product, slot, minted, removed, trailing, requests>>

Answer(s) == PostEnds(s) \/ PostEndsUnnamed(s) \/ Closes(s) \/ DeleteEnds(s)

Next ==
    \/ \E s \in Slots, sid \in Sids, on \in Surfaces :
          PostNew(s, sid, on) \/ PostKnown(s, sid, on) \/ Delete(s, sid, on)
    \/ \E s \in Slots : PostEnds(s) \/ PostEndsUnnamed(s) \/ Closes(s) \/ DeleteEnds(s)
    \/ Sweep \/ Tick

\* The transport answers, time passes and the interval fires.
Fairness == WF_vars(Tick) /\ WF_vars(Sweep) /\ \A s \in Slots : WF_vars(Answer(s))

Spec == Init /\ [][Next]_vars /\ Fairness

----------------------------------------------------------------------------
(* Types; an age is bounded and is kept for no id that was never issued.     *)
TypeOK ==
    /\ transports \subseteq Sids
    /\ lastActive \in [Sids -> 0 .. Ttl + 1 \cup {Idle}]
    /\ product \in [Sids -> Surfaces]
    /\ slot \in [Slots -> Request \cup {Idle}]
    /\ minted \in [Sids -> Surfaces \cup {Idle}]
    /\ removed \subseteq Sids
    /\ trailing \subseteq Slots
    /\ requests \in 0 .. MaxRequests
    /\ \A sid \in Sids : lastActive[sid] # Idle => minted[sid] # Idle

(* A session minted on one virtual server is not used through another one,  *)
(* nor one minted on /mcp through any, whatever ends while the request is   *)
(* handled; a tag, where there is one, is the surface it was minted on.     *)
BoundToProduct ==
    /\ \A s \in Slots : slot[s] # Idle /\ slot[s].on # Root => minted[slot[s].sid] = slot[s].on
    /\ \A sid \in Sids : product[sid] \in {Root, minted[sid]}

(* A session that was deleted is in the map again only through the tail of  *)
(* a POST on it that was under way at its DELETE: no request that came      *)
(* later, no close and no other session's tail brings it back.              *)
DeletedStaysDeleted == removed \cap transports = {}

(* Once clients go quiet every map is emptied: the sweep reaches whatever   *)
(* the handlers left, in every order of their tails, a DELETE and a sweep.  *)
MapsDrain ==
    <>[](transports = {} /\ \A sid \in Sids : lastActive[sid] = Idle /\ product[sid] = Root)
=============================================================================
