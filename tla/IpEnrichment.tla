----------------------------- MODULE IpEnrichment -----------------------------
(***************************************************************************)
(* enrich_ips (tools/enrich-ips.ts) with the online fallback switched on:  *)
(* each address of a batch is looked up in the offline dataset             *)
(* (enrich/ip-dataset.ts), and what that does not cover is asked of the    *)
(* registries over RDAP (enrich/rdap.ts), one address after the other.     *)
(* The resolver is one for the process: batches that run at the same time  *)
(* share its cache, and the registry changes, throttles and fails under    *)
(* them.  An answer is "yes", "no" or "transient"; the data of a "yes" is  *)
(* left out.                                                               *)
(***************************************************************************)
EXTENDS Integers, Sequences, SequencesExt

CONSTANTS Batches,      \* calls of the tool in flight together
          Lists,        \* the lists of addresses a call may ask for
          Rows,         \* the dataset: a set of [ips, prefix], maybe empty
          Ips,          \* the valid addresses
          Ttl, NegTtl,  \* how long a cached "yes" and a cached "no" live
          Timeout,      \* of one request
          MaxPause,     \* the longest pause before a retry
          MaxRetries,
          MaxCache,     \* entries of the cache
          MaxChanges,   \* bound: changes of the registry
          MaxTime       \* bound: on the clock

VARIABLES now,
          holds,        \* the addresses the registries know
          since,        \* address -> when that last changed
          cache,        \* the resolver's entries, oldest insertion first
          batch,        \* the calls
          changes

vars == <<now, holds, since, cache, batch, changes>>

Rest == [at |-> "idle", todo |-> <<>>]

Init ==
  /\ now = 0
  /\ holds \in SUBSET Ips
  /\ since = [ip \in Ips |-> 0]
  /\ cache = <<>>
  /\ batch = [b \in Batches |-> Rest]
  /\ changes = 0

-----------------------------------------------------------------------------
Fresh(c) == c.until > now

Entry(ip) == {c \in ToSet(cache) : c.ip = ip /\ Fresh(c)}

(* The row with the longest prefix wins; only whether there is one matters. *)
Covered(ip) == \E r \in Rows : ip \in r.ips

(* A full cache drops its oldest insertion, whatever is stored; an entry that
   is still there is replaced in its place. *)
Put(c) ==
  LET kept == IF Len(cache) >= MaxCache THEN Tail(cache) ELSE cache
  IN  IF \E i \in DOMAIN kept : kept[i].ip = c.ip
      THEN [i \in DOMAIN kept |-> IF kept[i].ip = c.ip THEN c ELSE kept[i]]
      ELSE Append(kept, c)

Known(ip, found) == [ip |-> ip, found |-> found, until |-> now + (IF found THEN Ttl ELSE NegTtl)]

(* An address is settled: the batch takes the next one, or ends. *)
Settle(b, says) ==
  batch' = [batch EXCEPT ![b] =
              [at   |-> IF Len(@.todo) = 1 THEN "idle" ELSE "next", todo |-> Tail(@.todo),
               told |-> [ip |-> Head(@.todo), says |-> says]]]

Elsewhere == UNCHANGED <<now, holds, since, changes>>

Call(b, list) ==
  /\ batch[b].at = "idle"
  /\ batch' = [batch EXCEPT ![b] = [at |-> "next", todo |-> list]]
  /\ UNCHANGED cache /\ Elsewhere

(* The next address: invalid, in the dataset, or answered by the cache. *)
FromHand(b) ==
  /\ batch[b].at = "next"
  /\ LET ip == Head(batch[b].todo)
     IN \/ ip \notin Ips /\ Settle(b, "invalid")
        \/ ip \in Ips /\ Covered(ip) /\ Settle(b, "yes")
        \/ \E c \in Entry(ip) : ~Covered(ip) /\ Settle(b, IF c.found THEN "yes" ELSE "no")
  /\ UNCHANGED cache /\ Elsewhere

Sent(b, attempt) ==
  batch' = [batch EXCEPT ![b] =
              [at |-> "wait", todo |-> @.todo, attempt |-> attempt, from |-> now,
               finds |-> Head(@.todo) \in holds]]

(* Neither: the registry is asked, and looks the address up. *)
Request(b) ==
  /\ batch[b].at = "next"
  /\ LET ip == Head(batch[b].todo) IN ip \in Ips /\ ~Covered(ip) /\ Entry(ip) = {}
  /\ Sent(b, 0)
  /\ UNCHANGED cache /\ Elsewhere

Answered(b) ==
  /\ batch[b].at = "wait"
  /\ cache' = Put(Known(Head(batch[b].todo), batch[b].finds))
  /\ Settle(b, IF batch[b].finds THEN "yes" ELSE "no")
  /\ Elsewhere

(* Throttled, an upstream error, a network error or the timeout: retried
   after a pause, the registry's own if it named one, and never cached. *)
CachedAsNo(b) == cache' = Put(Known(Head(batch[b].todo), FALSE))     \* slip: taken for a "no"
NotCached(b) == UNCHANGED cache

Transient(b) ==
  /\ batch[b].at = "wait"
  /\ IF batch[b].attempt >= MaxRetries THEN Settle(b, "transient")
     ELSE \E p \in 0..MaxPause :
            batch' = [batch EXCEPT ![b] =
                        [at |-> "pause", todo |-> @.todo, attempt |-> @.attempt + 1, until |-> now + p]]
  /\ NotCached(b)
  /\ Elsewhere

Retry(b) ==
  /\ batch[b].at = "pause"
  /\ batch[b].until <= now
  /\ Sent(b, batch[b].attempt)
  /\ UNCHANGED cache /\ Elsewhere

Change(ip) ==
  /\ changes < MaxChanges
  /\ changes' = changes + 1
  /\ holds' = (holds \ {ip}) \cup ({ip} \ holds)
  /\ since' = [since EXCEPT ![ip] = now]
  /\ UNCHANGED <<now, cache, batch>>

(* Time passes, but not past a request's timeout nor over a pause's end. *)
Tick ==
  /\ now < MaxTime
  /\ \A b \in Batches :
       /\ batch[b].at = "wait" => now < batch[b].from + Timeout
       /\ batch[b].at = "pause" => now < batch[b].until
  /\ now' = now + 1
  /\ UNCHANGED <<holds, since, cache, batch, changes>>

Next ==
  \/ \E b \in Batches :
       \/ \E list \in Lists : Call(b, list)
       \/ FromHand(b) \/ Request(b) \/ Answered(b) \/ Transient(b) \/ Retry(b)
  \/ \E ip \in Ips : Change(ip)
  \/ Tick
  \/ now = MaxTime /\ UNCHANGED vars

Spec == Init /\ [][Next]_vars

-----------------------------------------------------------------------------
(* "NOT a confirmed negative ... never conflate a rate-limit with 'not in any
   registry'" (enrich-ips.ts:40-42, rdap.ts:36-39): an address is answered "no"
   only if the registries did not know it some moment less than a negative
   entry's life and one request ago, and "yes" likewise; so no batch is told
   what another batch's throttled lookups left behind. *)
AnswersAreRecent ==
  [][\A b \in Batches :
       batch'[b] # batch[b] /\ "told" \in DOMAIN batch'[b] =>
         LET ip == batch'[b].told.ip
             says == batch'[b].told.says
         IN /\ says = "no" => ip \notin holds \/ now <= since[ip] + NegTtl + Timeout
            /\ says = "yes" => Covered(ip) \/ ip \in holds \/ now <= since[ip] + Ttl + Timeout]_vars
=============================================================================
