---------------------------- MODULE Logins_proofs ----------------------------
(***************************************************************************)
(* What is proved of the parts of Logins, for every value of its           *)
(* constants.                                                              *)
(***************************************************************************)
EXTENDS Logins, FoldLemmas, FiniteSets, FiniteSetTheorems

----------------------------------------------------------------------------
\* OPA's cache.  A query is not older than the timeout, and OPA decided it after it was
\* sent; so what the cache lets through was decided not longer before it was stored.
AskedLately(q) ==
    /\ {q.sent, q.asof} \subseteq Nat
    /\ q.sent <= q.asof /\ q.asof <= oNow /\ oNow <= q.sent + Timeout

StoredLately(k) ==
    cache[k] # None /\ cache[k].allowed =>
        /\ {cache[k].at, cache[k].asof} \subseteq Nat
        /\ cache[k].at <= cache[k].asof + Timeout

OpaIInv ==
    /\ oNow \in Nat
    /\ \A q \in queries : AskedLately(q) /\ q.key \in GrantKeys
    /\ cache = [k \in GrantKeys |-> cache[k]]
    /\ \A k \in GrantKeys : StoredLately(k)
    /\ Opa!GrantIsRecent

LEMMA OpaInit == Opa!Init => OpaIInv
BY TimesAssumption DEF Opa!Init, OpaIInv, AskedLately, StoredLately, Opa!Query, Opa!GrantIsRecent

LEMMA OpaStep == OpaIInv /\ Opa!Next => OpaIInv'
<1> SUFFICES ASSUME OpaIInv, Opa!Next
             PROVE  OpaIInv'
  OBVIOUS
<1> USE TimesAssumption DEF OpaIInv, AskedLately, StoredLately, Opa!GrantIsRecent
<1>1. ASSUME NEW k \in GrantKeys, Opa!Evaluate(k)
      PROVE  OpaIInv'
  <2>1. CASE Opa!Fresh(k)
    <3>1. /\ cache' = cache /\ queries' = queries /\ oNow' = oNow
          /\ allowed' = IF cache[k].allowed
                        THEN allowed \cup {[at |-> oNow, asof |-> cache[k].asof, key |-> k]} ELSE allowed
      BY <1>1, <2>1 DEF Opa!Evaluate, Opa!Hit
    <3>2. cache[k] # None /\ oNow - cache[k].at < Opa!TtlOf(k)
      BY <2>1 DEF Opa!Fresh
    <3>3. Opa!TtlOf(k) \in Nat
      BY DEF Opa!TtlOf
    <3>4. ASSUME cache[k].allowed
          PROVE  oNow - cache[k].asof < Opa!TtlOf(k) + Timeout
      BY <3>2, <3>3, <3>4
    <3>5. ASSUME NEW a \in allowed'
          PROVE  a.at - a.asof < Opa!TtlOf(a.key) + Timeout
      <4>1. CASE a \in allowed
        BY <4>1
      <4>2. CASE a \notin allowed
        <5>1. cache[k].allowed /\ a = [at |-> oNow, asof |-> cache[k].asof, key |-> k]
          BY <3>1, <4>2
        <5> QED
          BY <5>1, <3>4
      <4> QED
        BY <4>1, <4>2
    <3>6. Opa!GrantIsRecent'
      BY <3>5 DEF Opa!TtlOf
    <3> QED
      BY <3>1, <3>6
  <2>2. CASE ~Opa!Fresh(k)
    BY <1>1, <2>2 DEF Opa!Evaluate, Opa!Query
  <2> QED
    BY <2>1, <2>2
<1>2. ASSUME NEW k \in GrantKeys, Opa!PolicyChanges(k)
      PROVE  OpaIInv'
  BY <1>2 DEF Opa!PolicyChanges
<1>3. ASSUME NEW q \in queries, Opa!Decides(q)
      PROVE  OpaIInv'
  <2> DEFINE decided == [q EXCEPT !.allowed = policy[q.key], !.asof = oNow]
  <2>1. /\ queries' = (queries \ {q}) \cup {decided} /\ cache' = cache /\ allowed' = allowed
        /\ oNow' = oNow
    BY <1>3 DEF Opa!Decides
  <2>2. AskedLately(q) /\ q.key \in GrantKeys
    OBVIOUS
  <2>3. decided.sent = q.sent /\ decided.asof = oNow /\ decided.key = q.key
    OBVIOUS
  <2> HIDE DEF decided
  <2> QED
    BY <2>1, <2>2, <2>3
<1>4. ASSUME NEW q \in queries, Opa!Answered(q)
      PROVE  OpaIInv'
  <2>1. /\ queries' = queries \ {q} /\ allowed' = allowed /\ oNow' = oNow
        /\ cache' = [cache EXCEPT ![q.key] = [at |-> oNow, allowed |-> q.allowed, asof |-> q.asof]]
    BY <1>4 DEF Opa!Answered
  <2>2. AskedLately(q) /\ q.key \in GrantKeys
    OBVIOUS
  <2> QED
    BY <2>1, <2>2
<1>5. ASSUME NEW q \in queries, Opa!Failed(q)
      PROVE  OpaIInv'
  <2>1. PICK at : /\ queries' = queries \ {q} /\ allowed' = allowed /\ oNow' = oNow
                  /\ cache' = [cache EXCEPT ![q.key] = [at |-> at, allowed |-> FALSE, asof |-> oNow]]
    BY <1>5 DEF Opa!Failed
  <2> QED
    BY <2>1
<1>6. CASE Opa!Tick
  BY <1>6 DEF Opa!Tick
<1> QED
  BY <1>1, <1>2, <1>3, <1>4, <1>5, <1>6 DEF Opa!Next

(* What the gates allow from OPA's cache, OPA allowed not longer ago than an   *)
(* answer is kept and a query may take together, for any number of keys and    *)
(* queries and whatever order the answers come in (policy/opa.ts).             *)
THEOREM Grants == Joint => []GrantIsRecent
<1> DEFINE IInv == which = "opa" => OpaIInv
<1>1. JointInit => IInv
  BY OpaInit DEF JointInit
<1>2. IInv /\ [JointNext]_JointVars => IInv'
  <2> SUFFICES ASSUME IInv, [JointNext]_JointVars, which' = "opa"
               PROVE  OpaIInv'
    OBVIOUS
  <2>1. CASE Opa!Next /\ which = "opa"
    BY <2>1, OpaStep
  <2>2. CASE UNCHANGED opa /\ which = "opa"
    BY <2>2 DEF opa, OpaIInv, AskedLately, StoredLately, Opa!GrantIsRecent, Opa!TtlOf
  <2> QED
    BY <2>1, <2>2 DEF JointNext, JointVars
<1>3. IInv => GrantIsRecent
  BY DEF GrantIsRecent, OpaIInv
<1> QED
  BY <1>1, <1>2, <1>3, PTL DEF Joint

----------------------------------------------------------------------------
\* The policy file.  While the engine has another map than a file that loads, some
\* request is going to read the file.  Where no two changes were ever in flight at a
\* time, the tmp file is empty under the one that is to fill it and whole under the one
\* that is to rename it, so that only an operator puts a file that does not load.
Filling(r, place) == RoleMap!At(r, "fill") /\ pSlot[r].at = place
Untouched == ~edited /\ ~pTorn

PolicyTypes ==
    /\ engine \in Policies /\ pFile \in Policies \cup {Torn, Empty} /\ pTmp \in Policies \cup {Torn, Empty, None}
    /\ pSlot \in [Slots -> Puts \cup {None}]
    /\ pCount \in [{"change", "edit", "restart"} -> Nat]

\* The tmp file a request is to fill is there: a rename that takes it away hands the
\* request's writes to the file.
TmpThere == \A s \in Slots : Filling(s, "tmp") => pTmp # None

EngineFollows ==
    Untouched => engine = pFile \/ pFile \in {Torn, Empty} \/ \E s \in Slots : RoleMap!At(s, "swap")

OneAtATime ==
    ~pClash =>
        /\ \A r, s \in Slots : pSlot[r] # None /\ pSlot[s] # None => r = s
        /\ \A s \in Slots : /\ ~Filling(s, "path") /\ (RoleMap!At(s, "fill") => pTmp = Empty)
                            /\ RoleMap!At(s, "rename") => pTmp \in Policies
        /\ pCount.edit = 0 => pFile \in Policies

PolicyIInv == PolicyTypes /\ TmpThere /\ EngineFollows /\ OneAtATime

LEMMA PolicyLoads == ASSUME NEW m \in Policies
                     PROVE  RoleMap!Loads(m)
<1>1. m \notin {Torn, Empty}
  BY PolicyAssumption
<1>2. \A r \in Roles : m[r] # None => m[r] \subseteq Valid
  BY DEF Policies
<1> QED
  BY <1>1, <1>2 DEF RoleMap!Loads

LEMMA PolicyInit == RoleMap!Init => PolicyIInv
BY PolicyAssumption
   DEF RoleMap!Init, PolicyIInv, PolicyTypes, TmpThere, EngineFollows, OneAtATime, Filling,
       RoleMap!At, Untouched

\* What a writer leaves in a file is a map, or does not parse.
LEMMA Overlays == ASSUME NEW text \in Policies, NEW old \in Policies \cup {Torn, Empty}
                  PROVE  RoleMap!Overlaid(text, old) \subseteq Policies \cup {Torn}
<1>1. ASSUME old \in Policies, NEW tail \in SUBSET Roles
      PROVE  [r \in Roles |-> IF text[r] = None /\ r \in tail THEN old[r] ELSE text[r]] \in Policies
  BY <1>1 DEF Policies
<1> QED
  BY <1>1 DEF RoleMap!Overlaid

LEMMA PolicyStep == PolicyIInv /\ RoleMap!Next => PolicyIInv'
<1> SUFFICES ASSUME PolicyIInv, RoleMap!Next
             PROVE  PolicyIInv'
  OBVIOUS
<1> USE PolicyAssumption
        DEF PolicyIInv, PolicyTypes, TmpThere, EngineFollows, OneAtATime, Filling, RoleMap!At, Untouched
<1>1. ASSUME NEW s \in Slots, NEW sender \in SUBSET Roles, NEW name \in Roles, NEW ps \in SUBSET Permissions,
             RoleMap!PutRole(s, sender, name, ps)
      PROVE  PolicyIInv'
  <2> DEFINE put == [step |-> "open", at |-> "tmp", next |-> [engine EXCEPT ![name] = ps]]
  <2>1. /\ pSlot[s] = None /\ pSlot' = [pSlot EXCEPT ![s] = put] /\ ps \subseteq Valid
        /\ pCount' = [pCount EXCEPT !["change"] = @ + 1]
        /\ UNCHANGED <<engine, pFile, pTmp, pTorn, edited>>
    BY <1>1 DEF RoleMap!PutRole, RoleMap!Counted
  <2>2. pClash' = (pClash \/ \E r \in Slots : pSlot[r] # None)
    BY <1>1 DEF RoleMap!PutRole
  <2>3. put \in Puts /\ put # None /\ put.step = "open"
    <3>1. [engine EXCEPT ![name] = ps] \in Policies
      BY <2>1 DEF Policies
    <3> QED
      BY <3>1 DEF Puts
  <2> HIDE DEF put
  <2>4. PolicyTypes' /\ pCount'.edit = pCount.edit
    BY <2>1, <2>3
  <2>5. \A r \in Slots : r # s => pSlot'[r] = pSlot[r]
    BY <2>1
  <2>6. pSlot'[s] = put
    BY <2>1
  <2>7. TmpThere' /\ EngineFollows'
    BY <2>1, <2>3, <2>5, <2>6
  <2>8. OneAtATime'
    BY <2>1, <2>2, <2>3, <2>4, <2>5, <2>6
  <2> QED
    BY <2>4, <2>7, <2>8
<1>2. ASSUME NEW s \in Slots, RoleMap!Open(s)
      PROVE  PolicyIInv'
  <2> DEFINE put == [pSlot[s] EXCEPT !.step = "fill", !.at = "tmp"]
  <2>1. /\ pSlot[s] # None /\ pSlot[s].step = "open" /\ pTmp' = Empty
        /\ pSlot' = [pSlot EXCEPT ![s] = put]
        /\ UNCHANGED <<engine, pFile, pTorn, edited, pCount, pClash>>
    BY <1>2 DEF RoleMap!Open
  <2>2. put \in Puts /\ put # None /\ put.step = "fill" /\ put.at = "tmp"
    BY <2>1 DEF Puts
  <2> HIDE DEF put
  <2>3. PolicyTypes'
    BY <2>1, <2>2
  <2>4. pSlot'[s] = put /\ \A r \in Slots : r # s => pSlot'[r] = pSlot[r]
    BY <2>1
  <2>5. TmpThere' /\ EngineFollows'
    BY <2>1, <2>2, <2>4
  <2>6. OneAtATime'
    BY <2>1, <2>2, <2>4
  <2> QED
    BY <2>3, <2>5, <2>6
<1>3. ASSUME NEW s \in Slots, RoleMap!Fill(s)
      PROVE  PolicyIInv'
  <2> DEFINE put == [pSlot[s] EXCEPT !.step = "rename"]
  <2>1. /\ pSlot[s] # None /\ pSlot[s].step = "fill" /\ pSlot' = [pSlot EXCEPT ![s] = put]
        /\ UNCHANGED <<engine, edited, pCount, pClash>>
    BY <1>3 DEF RoleMap!Fill
  <2>2. put \in Puts /\ put # None /\ put.step = "rename" /\ pSlot[s].next \in Policies
    BY <2>1 DEF Puts
  <2> HIDE DEF put
  <2>3. pSlot'[s] = put /\ \A r \in Slots : r # s => pSlot'[r] = pSlot[r]
    BY <2>1
  <2>4. CASE pSlot[s].at = "tmp"
    <3>1. pTmp' \in RoleMap!Overlaid(pSlot[s].next, pTmp) /\ pFile' = pFile
      BY <1>3, <2>4 DEF RoleMap!Fill
    <3>2. pTorn' <=> pTorn
      BY <1>3, <2>4 DEF RoleMap!Fill
    <3>3. pTmp' \in Policies \cup {Torn}
      <4>1. pTmp # None
        BY <2>1, <2>4
      <4> QED
        BY <2>2, <3>1, <4>1, Overlays
    <3>4. PolicyTypes'
      BY <2>1, <2>2, <3>1, <3>3
    <3>5. TmpThere' /\ EngineFollows'
      BY <2>1, <2>2, <2>3, <3>1, <3>2, <3>3
    <3>6. pTmp = Empty => pTmp' \in Policies
      BY <2>2, <3>1 DEF RoleMap!Overlaid
    <3>7. OneAtATime'
      BY <2>1, <2>2, <2>3, <3>1, <3>6
    <3> QED
      BY <3>4, <3>5, <3>7
  <2>5. CASE pSlot[s].at = "path"
    <3>1. pFile' \in RoleMap!Overlaid(pSlot[s].next, pFile) /\ pTmp' = pTmp
      BY <1>3, <2>5 DEF RoleMap!Fill
    <3>2. pTorn'
      BY <1>3, <2>5 DEF RoleMap!Fill
    <3>3. pClash /\ pClash'
      BY <2>1, <2>5
    <3>4. pFile' \in Policies \cup {Torn}
      BY <2>2, <3>1, Overlays
    <3>5. PolicyTypes'
      BY <2>1, <2>2, <3>1, <3>4
    <3>6. TmpThere'
      BY <2>2, <2>3, <3>1
    <3> QED
      BY <3>2, <3>3, <3>5, <3>6
  <2> QED
    BY <2>1, <2>4, <2>5 DEF Puts
<1>8. ASSUME NEW s \in Slots, RoleMap!WriteFails(s)
      PROVE  PolicyIInv'
  <2>1. /\ pSlot[s] # None /\ pSlot[s].step \in {"open", "fill", "rename"} /\ pSlot' = [pSlot EXCEPT ![s] = None]
        /\ UNCHANGED <<engine, edited, pCount, pClash>>
    BY <1>8 DEF RoleMap!WriteFails, RoleMap!Free
  <2>2. \/ UNCHANGED <<pFile, pTmp, pTorn>>
        \/ pTmp' = Torn /\ UNCHANGED <<pFile, pTorn>>
        \/ pSlot[s].step = "fill" /\ pSlot[s].at = "path" /\ pFile' = Torn /\ pTorn' = TRUE /\ pTmp' = pTmp
    BY <1>8 DEF RoleMap!WriteFails
  <2>3. pSlot'[s] = None /\ \A r \in Slots : r # s => pSlot'[r] = pSlot[r]
    BY <2>1
  <2>4. PolicyTypes'
    BY <2>1, <2>2
  <2>5. TmpThere' /\ EngineFollows'
    BY <2>1, <2>2, <2>3
  <2>6. OneAtATime'
    BY <2>1, <2>2, <2>3
  <2> QED
    BY <2>4, <2>5, <2>6
<1>4. ASSUME NEW s \in Slots, RoleMap!Rename(s)
      PROVE  PolicyIInv'
  <2>1. /\ pSlot[s] # None /\ pSlot[s].step = "rename"
        /\ UNCHANGED <<engine, pCount, pClash, pTorn>>
    BY <1>4 DEF RoleMap!Rename
  <2>2. CASE pTmp = None
    <3>1. pSlot' = [pSlot EXCEPT ![s] = None] /\ UNCHANGED <<pFile, pTmp, edited>>
      BY <1>4, <2>2 DEF RoleMap!Rename, RoleMap!Free
    <3> QED
      BY <2>1, <2>2, <3>1
  <2>3. CASE pTmp # None
    <3> DEFINE put == [pSlot[s] EXCEPT !.step = "swap"]
               moved(r) == [pSlot[r] EXCEPT !.at = "path"]
    <3>1. /\ pFile' = pTmp /\ pTmp' = None
          /\ pSlot' = [r \in Slots |-> IF r = s THEN put
                                       ELSE IF RoleMap!At(r, "fill") THEN moved(r) ELSE pSlot[r]]
      BY <1>4, <2>3 DEF RoleMap!Rename
    <3>2. ~edited'
      BY <1>4, <2>3 DEF RoleMap!Rename
    <3>3. put \in Puts /\ put # None /\ put.step = "swap"
      BY <2>1 DEF Puts
    <3>4. ASSUME NEW r \in Slots, RoleMap!At(r, "fill")
          PROVE  moved(r) \in Puts /\ moved(r) # None /\ moved(r).step = "fill" /\ moved(r).at = "path"
      BY <3>4 DEF Puts
    <3> HIDE DEF put, moved
    <3>5. PolicyTypes'
      BY <2>1, <2>3, <3>1, <3>3, <3>4
    <3>6. RoleMap!At(s, "swap")'
      BY <3>1, <3>3
    <3>7. TmpThere' /\ EngineFollows'
      <4>1. \A r \in Slots : pSlot'[r] # None /\ pSlot'[r].step = "fill" => pSlot'[r].at = "path"
        BY <3>1, <3>3, <3>4
      <4>2. \A r \in Slots : ~Filling(r, "tmp")'
        BY <4>1
      <4> QED
        BY <3>6, <4>2
    <3>10. ASSUME ~pClash'
           PROVE  OneAtATime'
      <4>1. \A r \in Slots : r # s => pSlot[r] = None
        BY <2>1, <3>10
      <4>2. pSlot'[s] = put /\ \A r \in Slots : r # s => pSlot'[r] = None
        BY <3>1, <4>1
      <4>3. pTmp \in Policies
        BY <2>1, <3>10
      <4> QED
        BY <3>1, <3>3, <4>2, <4>3
    <3> QED
      BY <3>5, <3>7, <3>10
  <2> QED
    BY <2>2, <2>3
<1>5. ASSUME NEW s \in Slots, RoleMap!Swap(s)
      PROVE  PolicyIInv'
  <2>1. /\ pSlot[s] # None /\ pSlot[s].step = "swap" /\ pSlot' = [pSlot EXCEPT ![s] = None]
        /\ UNCHANGED <<pFile, pTmp, pCount, pClash, pTorn>>
    BY <1>5 DEF RoleMap!Swap, RoleMap!Free
  <2>2. pSlot'[s] = None /\ \A r \in Slots : r # s => pSlot'[r] = pSlot[r]
    BY <2>1
  <2>3. OneAtATime'
    BY <2>1, <2>2
  <2>4. CASE pFile \in {Torn, Empty}
    <3>1. engine' = engine /\ edited' = edited
      BY <1>5, <2>4 DEF RoleMap!Swap, RoleMap!Reread, RoleMap!Loads
    <3> QED
      BY <2>1, <2>2, <2>3, <2>4, <3>1
  <2>5. CASE pFile \in Policies
    <3>1. engine' = pFile
      BY <1>5, <2>5, PolicyLoads DEF RoleMap!Swap, RoleMap!Reread
    <3> QED
      BY <2>1, <2>2, <2>3, <2>5, <3>1
  <2> QED
    BY <2>4, <2>5
<1>6. ASSUME NEW content \in {Torn} \cup [Roles -> {{}, None}], RoleMap!Edit(content)
      PROVE  PolicyIInv'
  <2>1. /\ pFile' = content /\ UNCHANGED <<engine, pTmp, pSlot, pClash, pTorn>>
        /\ pCount' = [pCount EXCEPT !["edit"] = @ + 1]
    BY <1>6 DEF RoleMap!Edit, RoleMap!Counted
  <2>2. edited'
    BY <1>6 DEF RoleMap!Edit
  <2>3. content \in Policies \cup {Torn}
    <3>1. {{}, None} \subseteq (SUBSET Valid) \cup {None}
      OBVIOUS
    <3>2. [Roles -> {{}, None}] \subseteq Policies
      BY <3>1 DEF Policies
    <3> QED
      BY <3>2
  <2>4. pCount'.edit # 0
    BY <2>1
  <2> QED
    BY <2>1, <2>2, <2>3, <2>4
<1>7. CASE RoleMap!Restart
  <2>1. /\ pFile \notin {Torn, Empty} /\ engine' = pFile /\ pSlot' = [s \in Slots |-> None]
        /\ UNCHANGED <<pFile, pTmp, pClash, pTorn>>
        /\ pCount' = [pCount EXCEPT !["restart"] = @ + 1]
    BY <1>7 DEF RoleMap!Restart, RoleMap!Counted, RoleMap!Loads
  <2>2. pCount'.edit = pCount.edit
    BY <2>1
  <2> QED
    BY <2>1, <2>2
<1> QED
  BY <1>1, <1>2, <1>3, <1>4, <1>5, <1>6, <1>7, <1>8 DEF RoleMap!Next

LEMMA PolicyKept == PolicyIInv /\ UNCHANGED policies => PolicyIInv'
BY DEF policies, PolicyIInv, PolicyTypes, TmpThere, EngineFollows, OneAtATime, Filling, RoleMap!At,
       Untouched

(* The role map of the gates is the one of the file once the changes are       *)
(* through, unless the file is one that does not load, and changes one at a    *)
(* time leave a file that loads, for any number of roles, permissions and      *)
(* changes in flight (index.ts, policy/loader.ts).                             *)
THEOREM Policy == Joint => []PolicyFileHolds
<1> DEFINE IInv == which = "policy" => PolicyIInv
<1>1. JointInit => IInv
  BY PolicyInit DEF JointInit
<1>2. IInv /\ [JointNext]_JointVars => IInv'
  BY PolicyStep, PolicyKept DEF JointNext, JointVars
<1>3. IInv => PolicyFileHolds
  <2> SUFFICES ASSUME PolicyIInv
               PROVE  RoleMap!EngineIsFile /\ RoleMap!AlwaysLoads
    BY DEF PolicyFileHolds
  <2>1. RoleMap!EngineIsFile
    BY DEF RoleMap!EngineIsFile, PolicyIInv, EngineFollows, RoleMap!At, RoleMap!Loads, Untouched
  <2>2. RoleMap!AlwaysLoads
    BY PolicyLoads DEF RoleMap!AlwaysLoads, PolicyIInv, PolicyTypes, OneAtATime
  <2> QED
    BY <2>1, <2>2
<1> QED
  BY <1>1, <1>2, <1>3, PTL DEF Joint

----------------------------------------------------------------------------
\* The users file.  An mtime is given once; so as long as the file has the one of the
\* cursor, or of a request's stat, the store, or what the request read, is what is there.
\* What a login finds in the hands of the requests that read after it came in is at least
\* as new as the login.
Contents == [mtime : Nat, users : Tables \cup {None}, n : Nat]

Entering ==
    [op : {"login"}, step : {"stat", "read", "got", "reloaded"}, user : Users, pw : Passwords,
     stamp : Nat, got : Contents, since : Nat, crowded : BOOLEAN]

Assigning ==
    [op : {"roles"}, step : {"find", "open", "fill", "rename", "stat", "read", "got", "reloaded"},
     user : Users, role : Known, stamp : Nat, got : Contents, at : {"tmp", "path"}]

UsersTypes ==
    /\ uFile \in Contents /\ uTmp \in Contents \cup {None} /\ store \in Contents
    /\ clock \in Nat /\ cursor \in Nat
    /\ uSlot \in [Slots -> Entering \cup Assigning \cup {None}]

Busy(s, step) == uSlot[s] # None /\ uSlot[s].step = step

UsersClock ==
    /\ cursor <= clock /\ uFile.mtime <= clock
    /\ \A s \in Slots : uSlot[s] # None => uSlot[s].stamp <= clock
    /\ uTmp # None =>
          /\ 0 < uTmp.mtime /\ uTmp.mtime <= clock
          /\ uTmp.mtime # uFile.mtime /\ uTmp.mtime # cursor
          /\ \A s \in Slots : uSlot[s] # None => uSlot[s].stamp # uTmp.mtime
    /\ uFile.mtime = cursor => uFile.n <= store.n
    /\ \A s \in Slots : Busy(s, "got") /\ uSlot[s].stamp = uFile.mtime => uFile.n <= uSlot[s].got.n

LoginSees(s) ==
    uSlot[s] # None /\ uSlot[s].op = "login" /\ uSlot[s].crowded = FALSE =>
        /\ uSlot[s].since <= uFile.n
        /\ \A r \in Slots : Busy(r, "got") => uSlot[s].since <= uSlot[r].got.n
        /\ uSlot[s].step = "reloaded" =>
              uSlot[s].since <= store.n \/ ~LocalAccounts!Usable(uSlot[s].got.users)

UsersSeen == (\A s \in Slots : LoginSees(s)) /\ FALSE \notin wrong

FilesUsable == \A table \in Edits \cup {FirstUsers} : LocalAccounts!Usable(table)

Alters(s) == uSlot[s] # None /\ uSlot[s].op = "roles"

UsersUsable ==
    FilesUsable =>
        /\ \A s \in Slots : Alters(s) /\ uSlot[s].step \in {"open", "fill", "rename"} =>
              LocalAccounts!Usable(uSlot[s].got.users)
        /\ ~uClash =>
              /\ LocalAccounts!Usable(uFile.users)
              /\ \A r, s \in Slots : Alters(r) /\ Alters(s) => r = s
              /\ \A s \in Slots : Alters(s) =>
                    /\ uSlot[s].step = "fill" => uSlot[s].at = "tmp"
                    /\ uSlot[s].step = "rename" /\ uTmp # None => LocalAccounts!Usable(uTmp.users)

UsersIInv == UsersTypes /\ UsersClock /\ UsersSeen /\ UsersUsable

LEMMA UsersInit == LocalAccounts!Init => UsersIInv
<1> SUFFICES ASSUME LocalAccounts!Init
             PROVE  UsersIInv
  OBVIOUS
<1>1. /\ uFile = [mtime |-> 0, users |-> FirstUsers, n |-> 0] /\ uTmp = None /\ clock = 0
      /\ store = uFile /\ cursor = 0 /\ uSlot = [s \in Slots |-> None] /\ wrong = {}
  BY DEF LocalAccounts!Init
<1>2. uFile \in Contents
  BY <1>1, UsersAssumption DEF Contents
<1>3. UsersTypes
  BY <1>1, <1>2 DEF UsersTypes
<1>4. UsersClock /\ UsersSeen
  BY <1>1, <1>2 DEF UsersClock, UsersSeen, LoginSees, Busy
<1>5. UsersUsable
  BY <1>1, <1>2 DEF UsersUsable, FilesUsable, Alters
<1> QED
  BY <1>3, <1>4, <1>5 DEF UsersIInv

\* What the steps of the reload make of a request.
LEMMA Reloading ==
    ASSUME NEW q \in Entering \cup Assigning, NEW step \in {"stat", "read", "got", "reloaded"},
           NEW stamp \in Nat, NEW got \in Contents
    PROVE  [q EXCEPT !.step = step, !.stamp = stamp, !.got = got] \in Entering \cup Assigning
<1>1. CASE q \in Entering
  BY <1>1 DEF Entering
<1>2. CASE q \in Assigning
  BY <1>2 DEF Assigning
<1> QED
  BY <1>1, <1>2

LEMMA Fields ==
    ASSUME NEW q \in Entering \cup Assigning
    PROVE  /\ q.stamp \in Nat /\ q.got \in Contents /\ q.op \in {"login", "roles"}
           /\ q.op = "login" => q \in Entering /\ q.since \in Nat /\ q.crowded \in BOOLEAN
           /\ q.op = "roles" => q \in Assigning
           /\ q \in Entering => q.op = "login"
           /\ q \in Assigning => q.op = "roles"
BY DEF Entering, Assigning

\* A request goes one step of its reload; nothing but its slot changes.
LEMMA ReloadStep ==
    ASSUME UsersIInv, NEW s \in Slots, LocalAccounts!Stat(s) \/ LocalAccounts!Read(s)
    PROVE  UsersIInv'
<1> USE DEF UsersIInv
<1>1. /\ uSlot[s] # None /\ uSlot[s] \in Entering \cup Assigning
      /\ UNCHANGED <<uFile, uTmp, clock, store, cursor, uClash, wrong>>
  BY DEF LocalAccounts!Stat, LocalAccounts!Read, LocalAccounts!At, UsersTypes
<1>2. uFile \in Contents /\ uFile.mtime \in Nat /\ uFile.n \in Nat /\ store.n \in Nat
  BY DEF UsersTypes, Contents
<1>3. PICK q \in Entering \cup Assigning :
         /\ uSlot' = [uSlot EXCEPT ![s] = q]
         /\ q.op = uSlot[s].op
         /\ q.op = "login" => q.since = uSlot[s].since /\ q.crowded = uSlot[s].crowded
         /\ \/ /\ q.step = "read" /\ q.stamp = uFile.mtime
            \/ /\ q.step = "reloaded" /\ q.stamp = uFile.mtime /\ uFile.mtime = cursor
            \/ /\ q.step = "got" /\ q.got = uFile /\ q.stamp = uSlot[s].stamp
  <2>1. CASE LocalAccounts!Stat(s)
    <3> DEFINE step == IF uFile.mtime = cursor THEN "reloaded" ELSE "read"
               q == [uSlot[s] EXCEPT !.step = step, !.stamp = uFile.mtime, !.got = uSlot[s].got]
    <3>1. uSlot' = [uSlot EXCEPT ![s].step = step, ![s].stamp = uFile.mtime]
      BY <2>1 DEF LocalAccounts!Stat
    <3>2. q = [uSlot[s] EXCEPT !.step = step, !.stamp = uFile.mtime]
      BY <1>1 DEF Entering, Assigning
    <3>3. q \in Entering \cup Assigning
      BY <1>1, <1>2, Reloading, Fields
    <3>4. /\ q.op = uSlot[s].op /\ q.step = step /\ q.stamp = uFile.mtime
          /\ q.op = "login" => q.since = uSlot[s].since /\ q.crowded = uSlot[s].crowded
      BY <1>1 DEF Entering, Assigning
    <3>5. uSlot' = [uSlot EXCEPT ![s] = q]
      BY <3>1, <3>2, <1>1 DEF UsersTypes
    <3> HIDE DEF q
    <3> QED
      BY <3>3, <3>4, <3>5
  <2>2. CASE LocalAccounts!Read(s)
    <3> DEFINE q == [uSlot[s] EXCEPT !.step = "got", !.stamp = uSlot[s].stamp, !.got = uFile]
    <3>1. uSlot' = [uSlot EXCEPT ![s].step = "got", ![s].got = uFile]
      BY <2>2 DEF LocalAccounts!Read
    <3>2. q = [uSlot[s] EXCEPT !.step = "got", !.got = uFile]
      BY <1>1 DEF Entering, Assigning
    <3>3. q \in Entering \cup Assigning
      BY <1>1, <1>2, Reloading, Fields
    <3>4. /\ q.op = uSlot[s].op /\ q.step = "got" /\ q.stamp = uSlot[s].stamp /\ q.got = uFile
          /\ q.op = "login" => q.since = uSlot[s].since /\ q.crowded = uSlot[s].crowded
      BY <1>1 DEF Entering, Assigning
    <3>5. uSlot' = [uSlot EXCEPT ![s] = q]
      BY <3>1, <3>2, <1>1 DEF UsersTypes
    <3> HIDE DEF q
    <3> QED
      BY <3>3, <3>4, <3>5
  <2> QED
    BY <2>1, <2>2
<1>4. uSlot'[s] = q /\ \A r \in Slots : r # s => uSlot'[r] = uSlot[r]
  BY <1>3 DEF UsersTypes
<1>5. UsersTypes'
  BY <1>1, <1>3 DEF UsersTypes
<1>6. UsersClock'
  BY <1>1, <1>2, <1>3, <1>4 DEF UsersClock, Busy
<1>7. UsersSeen'
  <2>1. ASSUME NEW r \in Slots
        PROVE  LoginSees(r)'
    <3>1. ASSUME uSlot'[r] # None, uSlot'[r].op = "login", uSlot'[r].crowded = FALSE
          PROVE  /\ uSlot'[r].since = uSlot[r].since /\ uSlot'[r].since \in Nat
                 /\ uSlot[r] # None /\ uSlot[r].op = "login" /\ uSlot[r].crowded = FALSE
      BY <1>1, <1>3, <1>4, <3>1, Fields DEF UsersTypes
    <3>2. ASSUME uSlot'[r] # None, uSlot'[r].op = "login", uSlot'[r].crowded = FALSE
          PROVE  \A t \in Slots : Busy(t, "got")' => uSlot'[r].since <= uSlot'[t].got.n
      BY <1>1, <1>3, <1>4, <3>1, <3>2 DEF UsersSeen, LoginSees, Busy
    <3>3. ASSUME uSlot'[r] # None, uSlot'[r].op = "login", uSlot'[r].crowded = FALSE,
                 uSlot'[r].step = "reloaded", ~(uSlot'[r].since <= store.n)
          PROVE  ~LocalAccounts!Usable(uSlot'[r].got.users)
      <4>1. CASE r = s
        <5>1. uFile.mtime = cursor /\ uSlot[r].since <= uFile.n
          BY <1>3, <1>4, <3>1, <3>3, <4>1 DEF UsersSeen, LoginSees
        <5>2. uSlot'[r].since = uSlot[r].since /\ uSlot'[r].since \in Nat
          BY <3>1, <3>3
        <5>3. uFile.n <= store.n
          BY <5>1 DEF UsersClock
        <5>4. uSlot'[r].since <= store.n
          BY <5>1, <5>2, <5>3, <1>2
        <5> QED
          BY <5>4, <3>3
      <4>2. CASE r # s
        BY <1>2, <1>4, <3>1, <3>3, <4>2 DEF UsersSeen, LoginSees
      <4> QED
        BY <4>1, <4>2
    <3> QED
      BY <1>1, <3>1, <3>2, <3>3 DEF UsersSeen, LoginSees, LocalAccounts!Usable
  <2> QED
    BY <1>1, <2>1 DEF UsersSeen
<1>8. UsersUsable'
  BY <1>1, <1>3, <1>4 DEF UsersUsable, Alters
<1> QED
  BY <1>5, <1>6, <1>7, <1>8

\* A request comes in.
LEMMA ArrivalStep ==
    ASSUME UsersIInv, NEW s \in Slots,
           \/ \E user \in Users, pw \in Passwords : LocalAccounts!Login(s, user, pw)
           \/ \E user \in Users, role \in Known : LocalAccounts!SetRole(s, user, role)
    PROVE  UsersIInv'
<1> USE DEF UsersIInv
<1>1. /\ uSlot[s] = None
      /\ UNCHANGED <<uFile, uTmp, clock, store, cursor, wrong>>
  BY DEF LocalAccounts!Login, LocalAccounts!SetRole
<1>2. uFile \in Contents /\ uFile.mtime \in Nat /\ uFile.n \in Nat /\ store.n \in Nat
  BY DEF UsersTypes, Contents
<1> DEFINE Arrives(q) ==
        /\ uSlot' = [uSlot EXCEPT ![s] = q]
        /\ q.stamp = 0 /\ q.step \in {"stat", "find"}
        /\ q.op = "login" =>
              /\ q.since <= uFile.n
              /\ q.crowded = FALSE => \A r \in Slots : ~Busy(r, "got")
              /\ uClash' = uClash
        /\ q.op = "roles" => (uClash' <=> uClash \/ \E r \in Slots : Alters(r))
<1>3. PICK q \in Entering \cup Assigning : Arrives(q)
  <2>1. ASSUME NEW user \in Users, NEW pw \in Passwords, LocalAccounts!Login(s, user, pw)
        PROVE  \E q \in Entering \cup Assigning : Arrives(q)
    <3> DEFINE since == IF LocalAccounts!Usable(uFile.users) THEN uFile.n ELSE 0
               crowded == \E r \in Slots : LocalAccounts!At(r, "got")
               new == [op |-> "login", step |-> "stat", user |-> user, pw |-> pw, stamp |-> 0, got |-> uFile,
                       since |-> since, crowded |-> crowded]
    <3>1. uSlot' = [uSlot EXCEPT ![s] = new] /\ uClash' = uClash
      BY <2>1 DEF LocalAccounts!Login
    <3>2. since \in Nat /\ since <= uFile.n
      BY <1>2
    <3>3. crowded \in BOOLEAN /\ (crowded = FALSE => \A r \in Slots : ~Busy(r, "got"))
      BY DEF LocalAccounts!At, Busy
    <3> HIDE DEF since, crowded
    <3>4. new \in Entering
      BY <3>2, <3>3, <1>2 DEF Entering
    <3>5. new.stamp = 0 /\ new.step = "stat" /\ new.op = "login" /\ new.since = since /\ new.crowded = crowded
      OBVIOUS
    <3> HIDE DEF new
    <3>6. Arrives(new)
      BY <3>1, <3>2, <3>3, <3>5
    <3> QED
      BY <3>4, <3>6
  <2>2. ASSUME NEW user \in Users, NEW role \in Known, LocalAccounts!SetRole(s, user, role)
        PROVE  \E q \in Entering \cup Assigning : Arrives(q)
    <3> DEFINE new == [op |-> "roles", step |-> "find", user |-> user, role |-> role, stamp |-> 0,
                       got |-> uFile, at |-> "tmp"]
    <3>1. uSlot' = [uSlot EXCEPT ![s] = new]
      BY <2>2 DEF LocalAccounts!SetRole
    <3>2. uClash' <=> uClash \/ \E r \in Slots : Alters(r)
      BY <2>2 DEF LocalAccounts!SetRole, LocalAccounts!Changing, Alters
    <3>3. new \in Assigning /\ new.stamp = 0 /\ new.step = "find" /\ new.op = "roles"
      BY <1>2 DEF Assigning
    <3> HIDE DEF new
    <3>4. Arrives(new)
      BY <3>1, <3>2, <3>3
    <3> QED
      BY <3>3, <3>4
  <2> QED
    BY <2>1, <2>2
<1>4. uSlot'[s] = q /\ \A r \in Slots : r # s => uSlot'[r] = uSlot[r]
  BY <1>3 DEF UsersTypes
<1>5. UsersTypes'
  BY <1>1, <1>3 DEF UsersTypes
<1>6. UsersClock'
  <2>1. 0 <= clock
    BY DEF UsersTypes
  <2> QED
    BY <1>1, <1>3, <1>4, <2>1 DEF UsersClock, Busy
<1>7. UsersSeen'
  <2>1. ASSUME NEW r \in Slots, uSlot'[r] # None, uSlot'[r].op = "login", uSlot'[r].crowded = FALSE
        PROVE  LoginSees(r)'
    <3>1. CASE r = s
      BY <1>1, <1>3, <1>4, <2>1, <3>1 DEF LoginSees, Busy
    <3>2. CASE r # s
      BY <1>1, <1>3, <1>4, <2>1, <3>2 DEF UsersSeen, LoginSees, Busy, LocalAccounts!Usable
    <3> QED
      BY <3>1, <3>2
  <2> QED
    BY <1>1, <2>1 DEF UsersSeen, LoginSees
<1>8. UsersUsable'
  BY <1>1, <1>3, <1>4, Fields DEF UsersUsable, Alters, LocalAccounts!Usable
<1> QED
  BY <1>5, <1>6, <1>7, <1>8

\* A request goes on with what it read, or is answered.
LEMMA SettleStep ==
    ASSUME UsersIInv, NEW s \in Slots,
           LocalAccounts!Reload(s) \/ LocalAccounts!Decide(s) \/ LocalAccounts!Answer(s)
    PROVE  UsersIInv'
<1> USE DEF UsersIInv
<1>1. /\ uSlot[s] # None /\ uSlot[s] \in Entering \cup Assigning
      /\ UNCHANGED <<uFile, uTmp, clock, uClash>>
  BY DEF LocalAccounts!Reload, LocalAccounts!Decide, LocalAccounts!Answer, LocalAccounts!At, UsersTypes
<1>2. uFile \in Contents /\ uFile.mtime \in Nat /\ uFile.n \in Nat /\ store.n \in Nat
  BY DEF UsersTypes, Contents
<1>3. CASE LocalAccounts!Reload(s)
  <2> DEFINE q == [uSlot[s] EXCEPT !.step = "reloaded", !.stamp = uSlot[s].stamp, !.got = uSlot[s].got]
  <2>1. /\ Busy(s, "got") /\ uSlot' = [uSlot EXCEPT ![s].step = "reloaded"]
        /\ wrong' = wrong
    BY <1>3 DEF LocalAccounts!Reload, LocalAccounts!At, LocalAccounts!Going, Busy
  <2>2. \/ LocalAccounts!Usable(uSlot[s].got.users) /\ store' = uSlot[s].got /\ cursor' = uSlot[s].stamp
        \/ ~LocalAccounts!Usable(uSlot[s].got.users) /\ store' = store /\ cursor' = cursor
    BY <1>3 DEF LocalAccounts!Reload
  <2>3. q = [uSlot[s] EXCEPT !.step = "reloaded"]
    BY <1>1 DEF Entering, Assigning
  <2>4. uSlot' = [uSlot EXCEPT ![s] = q]
    BY <2>1, <2>3, <1>1 DEF UsersTypes
  <2>5. q \in Entering \cup Assigning
    BY <1>1, Reloading, Fields
  <2>6. /\ q.op = uSlot[s].op /\ q.step = "reloaded" /\ q.stamp = uSlot[s].stamp /\ q.got = uSlot[s].got
        /\ q.op = "login" => q.since = uSlot[s].since /\ q.crowded = uSlot[s].crowded
    BY <1>1 DEF Entering, Assigning
  <2> HIDE DEF q
  <2>7. uSlot'[s] = q /\ \A r \in Slots : r # s => uSlot'[r] = uSlot[r]
    BY <2>4 DEF UsersTypes
  <2>8. uSlot[s].stamp \in Nat /\ uSlot[s].got \in Contents /\ uSlot[s].got.n \in Nat
    BY <1>1, Fields DEF Contents
  <2>9. UsersTypes'
    BY <1>1, <2>2, <2>4, <2>5, <2>8 DEF UsersTypes
  <2>10. UsersClock'
    <3>1. cursor' <= clock /\ (uTmp # None => uTmp.mtime # cursor')
      BY <1>1, <2>2 DEF UsersClock
    <3>2. uFile.mtime = cursor' => uFile.n <= store'.n
      BY <2>1, <2>2 DEF UsersClock
    <3> QED
      BY <1>1, <2>6, <2>7, <3>1, <3>2 DEF UsersClock, Busy
  <2>11. UsersSeen'
    <3>1. ASSUME NEW r \in Slots, uSlot'[r] # None, uSlot'[r].op = "login", uSlot'[r].crowded = FALSE
          PROVE  LoginSees(r)'
      <4>1. /\ uSlot[r] # None /\ uSlot[r].op = "login" /\ uSlot[r].crowded = FALSE
            /\ uSlot'[r].since = uSlot[r].since /\ uSlot'[r].got = uSlot[r].got
            /\ r # s => uSlot'[r].step = uSlot[r].step
        BY <1>1, <2>6, <2>7, <3>1
      <4>2. uSlot[r].since <= uFile.n /\ \A t \in Slots : Busy(t, "got") => uSlot[r].since <= uSlot[t].got.n
        BY <4>1 DEF UsersSeen, LoginSees
      <4>3. ASSUME NEW t \in Slots, Busy(t, "got")'
            PROVE  uSlot'[r].since <= uSlot'[t].got.n
        BY <4>1, <4>2, <4>3, <2>6, <2>7 DEF Busy
      <4>4. uSlot'[r].step = "reloaded" =>
               uSlot[r].since <= store'.n \/ ~LocalAccounts!Usable(uSlot[r].got.users)
        BY <2>1, <2>2, <4>1, <4>2 DEF UsersSeen, LoginSees
      <4> QED
        BY <1>1, <4>1, <4>2, <4>3, <4>4 DEF LoginSees, LocalAccounts!Usable
    <3> QED
      BY <2>1, <3>1 DEF UsersSeen, LoginSees
  <2>12. UsersUsable'
    BY <1>1, <2>6, <2>7 DEF UsersUsable, Alters
  <2> QED
    BY <2>9, <2>10, <2>11, <2>12
<1>4. CASE LocalAccounts!Decide(s) \/ LocalAccounts!Answer(s)
  <2>1. uSlot' = [uSlot EXCEPT ![s] = None] /\ store' = store /\ cursor' = cursor
    BY <1>4 DEF LocalAccounts!Decide, LocalAccounts!Answer
  <2>2. uSlot'[s] = None /\ \A r \in Slots : r # s => uSlot'[r] = uSlot[r]
    BY <2>1 DEF UsersTypes
  <2>3. FALSE \notin wrong'
    <3>1. CASE LocalAccounts!Answer(s)
      BY <3>1 DEF LocalAccounts!Answer, UsersSeen
    <3>2. CASE LocalAccounts!Decide(s) /\ store.n < uSlot[s].since
      <4> DEFINE excused == uSlot[s].crowded \/ ~LocalAccounts!Usable(uSlot[s].got.users)
      <4>1. uSlot[s].op = "login" /\ uSlot[s].step = "reloaded" /\ wrong' = wrong \cup {excused}
        BY <3>2 DEF LocalAccounts!Decide, LocalAccounts!At
      <4>2. uSlot[s].crowded \in BOOLEAN /\ uSlot[s].since \in Nat
        BY <4>1, <1>1, Fields
      <4>3. uSlot[s].crowded = FALSE => ~LocalAccounts!Usable(uSlot[s].got.users)
        BY <1>1, <1>2, <3>2, <4>1, <4>2 DEF UsersSeen, LoginSees
      <4>4. excused = TRUE
        BY <4>2, <4>3
      <4> HIDE DEF excused
      <4> QED
        BY <4>1, <4>4 DEF UsersSeen
    <3>3. CASE LocalAccounts!Decide(s) /\ ~(store.n < uSlot[s].since)
      BY <3>3 DEF LocalAccounts!Decide, UsersSeen
    <3> QED
      BY <1>4, <3>1, <3>2, <3>3
  <2>4. UsersTypes'
    BY <1>1, <2>1 DEF UsersTypes
  <2>5. UsersClock'
    BY <1>1, <2>1, <2>2 DEF UsersClock, Busy
  <2>6. UsersSeen'
    BY <1>1, <2>1, <2>2, <2>3 DEF UsersSeen, LoginSees, Busy, LocalAccounts!Usable
  <2>7. UsersUsable'
    BY <1>1, <2>2 DEF UsersUsable, Alters
  <2> QED
    BY <2>4, <2>5, <2>6, <2>7
<1> QED
  BY <1>3, <1>4

\* A step of a role change takes nothing from what the logins see.
LEMMA SeenKept ==
    ASSUME UsersTypes, UsersSeen, NEW s \in Slots,
           uFile.n \in Nat, uFile'.n \in Nat, uFile.n <= uFile'.n, UNCHANGED <<store, wrong>>,
           uSlot'[s] # None => uSlot'[s].op = "roles" /\ uSlot'[s].step # "got",
           \A r \in Slots : r # s => uSlot'[r] = uSlot[r]
    PROVE  UsersSeen'
<1>1. ASSUME NEW r \in Slots, uSlot'[r] # None, uSlot'[r].op = "login", uSlot'[r].crowded = FALSE
      PROVE  LoginSees(r)'
  <2>1. uSlot'[r] = uSlot[r] /\ uSlot[r].since \in Nat
    BY <1>1, Fields DEF UsersTypes
  <2>2. LoginSees(r)
    BY DEF UsersSeen
  <2>3. uSlot'[r].since <= uFile'.n
    BY <1>1, <2>1, <2>2 DEF LoginSees
  <2>4. \A t \in Slots : Busy(t, "got")' => Busy(t, "got") /\ uSlot'[t] = uSlot[t]
    BY DEF Busy
  <2> QED
    BY <1>1, <2>1, <2>2, <2>3, <2>4 DEF LoginSees, LocalAccounts!Usable
<1> QED
  BY <1>1 DEF UsersSeen, LoginSees

\* Only the slot of a role change and the tmp file change.
LEMMA AssigningSlot ==
    ASSUME UsersTypes, NEW s \in Slots, NEW step \in {"find", "open", "fill", "rename"},
           LocalAccounts!At(s, step)
    PROVE  /\ uSlot[s] # None /\ uSlot[s] \in Assigning /\ uSlot[s].op = "roles" /\ uSlot[s].step = step
           /\ uSlot[s].at \in {"tmp", "path"} /\ uSlot[s].got \in Contents /\ uSlot[s].stamp \in Nat
<1>1. uSlot[s] # None /\ uSlot[s].step = step /\ uSlot[s] \in Entering \cup Assigning
  BY DEF LocalAccounts!At, UsersTypes
<1>2. uSlot[s] \in Assigning
  BY <1>1 DEF Entering
<1> QED
  BY <1>1, <1>2 DEF Assigning

LEMMA FindStep ==
    ASSUME UsersIInv, NEW s \in Slots, LocalAccounts!Find(s)
    PROVE  UsersIInv'
<1> USE DEF UsersIInv
<1>1. /\ uSlot[s] # None /\ uSlot[s] \in Assigning /\ uSlot[s].op = "roles" /\ uSlot[s].step = "find"
      /\ uSlot[s].at \in {"tmp", "path"}
      /\ UNCHANGED <<uFile, uTmp, clock, store, cursor, uClash, wrong>>
  BY AssigningSlot DEF LocalAccounts!Find
<1>2. uFile \in Contents
  BY DEF UsersTypes
<1>3. CASE uSlot' = [uSlot EXCEPT ![s] = None]
  <2>1. uSlot'[s] = None /\ \A r \in Slots : r # s => uSlot'[r] = uSlot[r]
    BY <1>3 DEF UsersTypes
  <2>2. UsersTypes'
    BY <1>1, <1>3 DEF UsersTypes
  <2>3. UsersClock'
    BY <1>1, <2>1 DEF UsersClock, Busy
  <2>4. UsersSeen'
    BY <1>1, <2>1 DEF UsersSeen, LoginSees, Busy, LocalAccounts!Usable
  <2>5. UsersUsable'
    BY <1>1, <2>1 DEF UsersUsable, Alters
  <2> QED
    BY <2>2, <2>3, <2>4, <2>5
<1>4. CASE /\ LocalAccounts!Usable(uFile.users) /\ uFile.users[uSlot[s].user] # None
           /\ uSlot' = [uSlot EXCEPT ![s] =
                 [@ EXCEPT !.step = "open", !.got = [uFile EXCEPT !.users[uSlot[s].user].role = uSlot[s].role]]]
  <2> DEFINE user == uSlot[s].user
             row == [uFile.users[user] EXCEPT !.role = uSlot[s].role]
             table == [uFile.users EXCEPT ![user] = row]
             got == [uFile EXCEPT !.users = table]
             q == [uSlot[s] EXCEPT !.step = "open", !.at = uSlot[s].at, !.got = got]
  <2>1. user \in Users /\ uSlot[s].role \in STRING
    BY <1>1, UsersAssumption DEF Assigning
  <2>2. uFile.users \in Tables /\ uFile.users[user] \in Accounts
    BY <1>2, <1>4, <2>1 DEF Contents, LocalAccounts!Usable, Tables
  <2>3. row \in Accounts /\ row # None
    BY <2>1, <2>2, UsersAssumption DEF Accounts
  <2>4. table \in Tables /\ table[user] = row
    BY <2>1, <2>2, <2>3 DEF Tables
  <2>5. LocalAccounts!Usable(table)
    BY <2>1, <2>3, <2>4, UsersAssumption DEF LocalAccounts!Usable
  <2>6. got \in Contents /\ got.users = table
    BY <1>2, <2>4 DEF Contents
  <2>7. got = [uFile EXCEPT !.users[uSlot[s].user].role = uSlot[s].role]
    BY <1>2 DEF Contents
  <2> HIDE DEF table, got
  <2>8. uSlot' = [uSlot EXCEPT ![s] = [uSlot[s] EXCEPT !.step = "open", !.got = got]]
    BY <1>4, <2>7 DEF UsersTypes
  <2>9. q = [uSlot[s] EXCEPT !.step = "open", !.got = got]
    BY <1>1 DEF Assigning
  <2>10. /\ q \in Assigning /\ q.op = "roles" /\ q.step = "open" /\ q.got = got /\ q.stamp = uSlot[s].stamp
    BY <1>1, <2>6 DEF Assigning
  <2>11. uSlot' = [uSlot EXCEPT ![s] = q]
    BY <2>8, <2>9
  <2> HIDE DEF q
  <2>12. uSlot'[s] = q /\ \A r \in Slots : r # s => uSlot'[r] = uSlot[r]
    BY <2>11 DEF UsersTypes
  <2>13. UsersTypes'
    BY <1>1, <2>10, <2>11 DEF UsersTypes
  <2>14. UsersClock'
    BY <1>1, <2>10, <2>12 DEF UsersClock, Busy
  <2>15. UsersSeen'
    BY <1>1, <2>10, <2>12 DEF UsersSeen, LoginSees, Busy, LocalAccounts!Usable
  <2>16. UsersUsable'
    BY <1>1, <2>5, <2>6, <2>10, <2>12 DEF UsersUsable, Alters
  <2> QED
    BY <2>13, <2>14, <2>15, <2>16
<1> QED
  BY <1>3, <1>4 DEF LocalAccounts!Find

LEMMA OpenStep ==
    ASSUME UsersIInv, NEW s \in Slots, LocalAccounts!Open(s)
    PROVE  UsersIInv'
<1> USE DEF UsersIInv
<1> DEFINE q == [uSlot[s] EXCEPT !.step = "fill", !.at = "tmp", !.got = uSlot[s].got]
<1>1. /\ uSlot[s] # None /\ uSlot[s] \in Assigning /\ uSlot[s].op = "roles" /\ uSlot[s].step = "open"
      /\ uSlot[s].got \in Contents
      /\ UNCHANGED <<uFile, store, cursor, uClash, wrong>>
      /\ clock' = clock + 1 /\ uTmp' = [mtime |-> clock + 1, users |-> None, n |-> 0]
      /\ uSlot' = [uSlot EXCEPT ![s].step = "fill", ![s].at = "tmp"]
  BY AssigningSlot DEF LocalAccounts!Open
<1>2. uFile.mtime \in Nat /\ uFile.n \in Nat /\ clock \in Nat /\ cursor \in Nat
  BY DEF UsersTypes, Contents
<1>3. q = [uSlot[s] EXCEPT !.step = "fill", !.at = "tmp"]
  BY <1>1 DEF Assigning
<1>4. uSlot' = [uSlot EXCEPT ![s] = q]
  BY <1>1, <1>3 DEF UsersTypes
<1>5. /\ q \in Assigning /\ q.op = "roles" /\ q.step = "fill" /\ q.at = "tmp" /\ q.got = uSlot[s].got
      /\ q.stamp = uSlot[s].stamp
  BY <1>1 DEF Assigning
<1> HIDE DEF q
<1>6. uSlot'[s] = q /\ \A r \in Slots : r # s => uSlot'[r] = uSlot[r]
  BY <1>4 DEF UsersTypes
<1>7. /\ uSlot[s] # None /\ uSlot[s].op = "roles" /\ uSlot[s].step = "open"
       /\ clock' = clock + 1 /\ uTmp'.mtime = clock + 1
       /\ uFile' = uFile /\ store' = store /\ cursor' = cursor /\ wrong' = wrong
       /\ q.op = "roles" /\ q.step = "fill" /\ q.at = "tmp" /\ q.got = uSlot[s].got
  BY <1>1, <1>5
<1>8. uClash' = uClash
  BY <1>1
<1>9. UsersTypes'
  <2>1. uTmp' \in Contents /\ clock' \in Nat
    BY <1>1, <1>2 DEF Contents
  <2> QED
    BY <1>1, <1>4, <1>5, <2>1 DEF UsersTypes
<1>10. UsersClock'
  <2>2. \A r \in Slots : uSlot'[r] # None => uSlot'[r].stamp \in Nat /\ uSlot'[r].stamp <= clock
    BY <1>1, <1>5, <1>6, Fields DEF UsersTypes, UsersClock
  <2> QED
    BY <1>2, <1>6, <1>7, <2>2 DEF UsersClock, Busy
<1>11. UsersSeen'
  BY <1>2, <1>6, <1>7, SeenKept
<1>12. UsersUsable'
  BY <1>6, <1>7, <1>8 DEF UsersUsable, Alters
<1> QED
  BY <1>9, <1>10, <1>11, <1>12

LEMMA FillStep ==
    ASSUME UsersIInv, NEW s \in Slots, LocalAccounts!Fill(s)
    PROVE  UsersIInv'
<1> USE DEF UsersIInv
<1> DEFINE q == [uSlot[s] EXCEPT !.step = "rename", !.at = uSlot[s].at, !.got = uSlot[s].got]
           whole == [mtime |-> clock + 1, users |-> uSlot[s].got.users, n |-> uFile.n + 1]
<1>1. /\ uSlot[s] # None /\ uSlot[s] \in Assigning /\ uSlot[s].op = "roles" /\ uSlot[s].step = "fill"
      /\ uSlot[s].got \in Contents /\ uSlot[s].at \in {"tmp", "path"}
      /\ UNCHANGED <<store, cursor, uClash, wrong>> /\ clock' = clock + 1
      /\ uSlot' = [uSlot EXCEPT ![s].step = "rename"]
  BY AssigningSlot DEF LocalAccounts!Fill, LocalAccounts!Going
<1>2. uFile.mtime \in Nat /\ uFile.n \in Nat /\ clock \in Nat /\ cursor \in Nat
  BY DEF UsersTypes, Contents
<1>3. q = [uSlot[s] EXCEPT !.step = "rename"]
  BY <1>1 DEF Assigning
<1>4. uSlot' = [uSlot EXCEPT ![s] = q]
  BY <1>1, <1>3 DEF UsersTypes
<1>5. /\ q \in Assigning /\ q.op = "roles" /\ q.step = "rename" /\ q.at = uSlot[s].at
      /\ q.got = uSlot[s].got /\ q.stamp = uSlot[s].stamp
  BY <1>1 DEF Assigning
<1> HIDE DEF q
<1>6. uSlot'[s] = q /\ \A r \in Slots : r # s => uSlot'[r] = uSlot[r]
  BY <1>4 DEF UsersTypes
<1>7. \A r \in Slots : uSlot'[r] # None => uSlot'[r].stamp \in Nat /\ uSlot'[r].stamp <= clock
  BY <1>1, <1>5, <1>6, Fields DEF UsersTypes, UsersClock
<1>8. whole \in Contents /\ whole.mtime = clock + 1 /\ whole.n = uFile.n + 1 /\ whole.users = uSlot[s].got.users
  BY <1>1, <1>2 DEF Contents
<1> HIDE DEF whole
<1>9. CASE uSlot[s].at = "tmp"
  <2>1. uTmp' = whole /\ uFile' = uFile
    BY <1>9 DEF LocalAccounts!Fill, whole
  <2>2. UsersTypes'
    BY <1>1, <1>2, <1>4, <1>5, <1>8, <2>1 DEF UsersTypes
  <2>3. UsersClock'
    BY <1>1, <1>2, <1>5, <1>6, <1>7, <1>8, <2>1 DEF UsersClock, Busy
  <2>4. UsersSeen'
    BY <1>1, <1>2, <1>5, <1>6, <2>1, SeenKept
  <2>5. UsersUsable'
    BY <1>1, <1>5, <1>6, <1>8, <2>1 DEF UsersUsable, Alters
  <2> QED
    BY <2>2, <2>3, <2>4, <2>5
<1>10. CASE uSlot[s].at = "path"
  <2>1. uFile' = whole /\ uTmp' = uTmp
    BY <1>10 DEF LocalAccounts!Fill, whole
  <2>2. UsersTypes'
    BY <1>1, <1>2, <1>4, <1>5, <1>8, <2>1 DEF UsersTypes
  <2>3. UsersClock'
    BY <1>1, <1>2, <1>5, <1>6, <1>7, <1>8, <2>1 DEF UsersTypes, Contents, UsersClock, Busy
  <2>4. uFile'.n \in Nat /\ uFile.n <= uFile'.n
    BY <1>2, <1>8, <2>1
  <2>5. UsersSeen'
    BY <1>1, <1>2, <1>5, <1>6, <2>4, SeenKept
  <2>6. UsersUsable'
    BY <1>1, <1>5, <1>6, <1>8, <1>10, <2>1 DEF UsersUsable, Alters
  <2> QED
    BY <2>2, <2>3, <2>5, <2>6
<1> QED
  BY <1>1, <1>9, <1>10

LEMMA RenameStep ==
    ASSUME UsersIInv, NEW s \in Slots, LocalAccounts!Rename(s)
    PROVE  UsersIInv'
<1> USE DEF UsersIInv
<1>1. /\ uSlot[s] # None /\ uSlot[s] \in Assigning /\ uSlot[s].op = "roles" /\ uSlot[s].step = "rename"
      /\ uSlot[s].at \in {"tmp", "path"} /\ uSlot[s].got \in Contents /\ uSlot[s].stamp \in Nat
  BY AssigningSlot DEF LocalAccounts!Rename
<1>2. clock' = clock /\ store' = store /\ cursor' = cursor /\ wrong' = wrong
  BY DEF LocalAccounts!Rename
<1>3. uClash' = uClash
  BY DEF LocalAccounts!Rename
<1>4. uFile \in Contents /\ uFile.n \in Nat
  BY DEF UsersTypes, Contents
<1>5. CASE uTmp = None
  <2>1. uSlot' = [uSlot EXCEPT ![s] = None] /\ uFile' = uFile /\ uTmp' = uTmp
    BY <1>5 DEF LocalAccounts!Rename
  <2>2. uSlot'[s] = None /\ \A r \in Slots : r # s => uSlot'[r] = uSlot[r]
    BY <2>1 DEF UsersTypes
  <2>3. UsersTypes'
    BY <1>2, <2>1 DEF UsersTypes
  <2>4. UsersClock'
    BY <1>2, <2>1, <2>2 DEF UsersClock, Busy
  <2>5. UsersSeen'
    BY <1>2, <1>4, <2>1, <2>2, SeenKept
  <2>6. UsersUsable'
    BY <1>3, <1>5, <2>1, <2>2 DEF UsersUsable, Alters
  <2> QED
    BY <2>3, <2>4, <2>5, <2>6
<1>6. CASE uTmp # None
  <2> DEFINE q == [uSlot[s] EXCEPT !.step = "stat"]
             moved(r) == [uSlot[r] EXCEPT !.at = "path"]
  <2>1. /\ uFile' = [uTmp EXCEPT !.n = uFile.n + 1] /\ uTmp' = None
        /\ uSlot' = [r \in Slots |-> IF r = s THEN q
                                     ELSE IF LocalAccounts!At(r, "fill") THEN moved(r) ELSE uSlot[r]]
    BY <1>6 DEF LocalAccounts!Rename
  <2>2. uTmp \in Contents /\ uTmp.mtime \in Nat
    BY <1>6 DEF UsersTypes, Contents
  <2>3. /\ uFile' \in Contents /\ uFile'.mtime = uTmp.mtime /\ uFile'.n = uFile.n + 1
        /\ uFile'.users = uTmp.users
    BY <1>4, <2>1, <2>2 DEF Contents
  <2>4. q \in Assigning /\ q.op = "roles" /\ q.step = "stat" /\ q.stamp = uSlot[s].stamp
    BY <1>1 DEF Assigning
  <2>5. ASSUME NEW r \in Slots, LocalAccounts!At(r, "fill")
        PROVE  /\ moved(r) \in Assigning /\ moved(r).op = "roles" /\ moved(r).step = "fill"
               /\ moved(r).got = uSlot[r].got /\ moved(r).stamp = uSlot[r].stamp
               /\ uSlot[r] # None /\ uSlot[r].op = "roles" /\ uSlot[r].step = "fill"
    <3>1. uSlot[r] # None /\ uSlot[r] \in Assigning /\ uSlot[r].op = "roles" /\ uSlot[r].step = "fill"
      BY <2>5, AssigningSlot
    <3> QED
      BY <3>1 DEF Assigning
  <2> HIDE DEF q, moved
  <2>6. /\ uSlot'[s] = q
        /\ \A r \in Slots : r # s => uSlot'[r] = IF LocalAccounts!At(r, "fill") THEN moved(r) ELSE uSlot[r]
    BY <2>1
  \* Nothing that a later step looks at is another than it was, but for the renamer's step.
  <2>7. ASSUME NEW r \in Slots, r # s, uSlot'[r] # None
        PROVE  /\ uSlot[r] # None /\ uSlot'[r].op = uSlot[r].op /\ uSlot'[r].step = uSlot[r].step
               /\ uSlot'[r].got = uSlot[r].got /\ uSlot'[r].stamp = uSlot[r].stamp
               /\ uSlot[r].op = "login" => uSlot'[r] = uSlot[r]
    BY <2>5, <2>6, <2>7
  <2>8. UsersTypes'
    <3>1. \A r \in Slots : uSlot'[r] \in Entering \cup Assigning \cup {None}
      BY <2>4, <2>5, <2>6 DEF UsersTypes
    <3>2. uSlot' \in [Slots -> Entering \cup Assigning \cup {None}]
      BY <2>1, <3>1
    <3> QED
      BY <1>2, <2>1, <2>3, <3>2 DEF UsersTypes
  <2>9. UsersClock'
    <3>1. uFile'.mtime <= clock /\ uFile'.mtime # cursor
      BY <1>6, <2>3 DEF UsersClock
    <3>2. \A r \in Slots : uSlot'[r] # None => uSlot'[r].stamp <= clock /\ uSlot'[r].stamp # uFile'.mtime
      BY <1>1, <1>6, <2>3, <2>4, <2>6, <2>7 DEF UsersClock
    <3> QED
      BY <1>2, <2>1, <3>1, <3>2 DEF UsersClock, Busy
  <2>10. UsersSeen'
    <3>1. ASSUME NEW r \in Slots, uSlot'[r] # None, uSlot'[r].op = "login", uSlot'[r].crowded = FALSE
          PROVE  LoginSees(r)'
      <4>1. r # s /\ uSlot[r] # None /\ uSlot'[r] = uSlot[r] /\ uSlot[r].since \in Nat
        BY <2>4, <2>6, <2>7, <3>1, Fields DEF UsersTypes
      <4>2. LoginSees(r)
        BY DEF UsersSeen
      <4>3. uSlot'[r].since <= uFile'.n
        BY <1>4, <2>3, <3>1, <4>1, <4>2 DEF LoginSees
      <4>4. \A t \in Slots : Busy(t, "got")' => Busy(t, "got") /\ uSlot'[t].got = uSlot[t].got
        BY <2>4, <2>6, <2>7 DEF Busy
      <4> QED
        BY <1>2, <3>1, <4>1, <4>2, <4>3, <4>4 DEF LoginSees, LocalAccounts!Usable
    <3> QED
      BY <1>2, <3>1 DEF UsersSeen, LoginSees
  <2>11. UsersUsable'
    <3>1. \A r \in Slots : Alters(r)' => Alters(r)
      BY <1>1, <2>6, <2>7 DEF Alters
    <3>2. ASSUME NEW r \in Slots, Alters(r)', uSlot'[r].step \in {"open", "fill", "rename"}
          PROVE  r # s /\ uSlot'[r].step = uSlot[r].step /\ uSlot'[r].got = uSlot[r].got
      BY <2>4, <2>6, <2>7, <3>2 DEF Alters
    <3>3. ASSUME FilesUsable
          PROVE  \A r \in Slots : Alters(r)' /\ uSlot'[r].step \in {"open", "fill", "rename"} =>
                    LocalAccounts!Usable(uSlot'[r].got.users)
      BY <3>1, <3>2, <3>3 DEF UsersUsable
    <3>4. ASSUME FilesUsable, ~uClash
          PROVE  /\ LocalAccounts!Usable(uFile'.users)
                 /\ \A r \in Slots : Alters(r)' => r = s
      BY <1>1, <1>6, <2>3, <3>1, <3>4 DEF UsersUsable, Alters
    <3>5. ASSUME FilesUsable, ~uClash, NEW r \in Slots, Alters(r)'
          PROVE  uSlot'[r].step = "stat"
      BY <2>4, <2>6, <3>4, <3>5
    <3> QED
      BY <1>3, <3>3, <3>4, <3>5 DEF UsersUsable, FilesUsable, LocalAccounts!Usable
  <2> QED
    BY <2>8, <2>9, <2>10, <2>11
<1> QED
  BY <1>5, <1>6

LEMMA EditStep ==
    ASSUME UsersIInv, NEW table \in Edits, LocalAccounts!Edit(table)
    PROVE  UsersIInv'
<1> USE DEF UsersIInv
<1>1. /\ clock' = clock + 1 /\ uFile' = [mtime |-> clock + 1, users |-> table, n |-> uFile.n + 1]
      /\ UNCHANGED <<uTmp, store, cursor, uSlot, uClash, wrong>>
  BY DEF LocalAccounts!Edit
<1>2. uFile.n \in Nat /\ clock \in Nat /\ cursor \in Nat
  BY DEF UsersTypes, Contents
<1>3. uFile' \in Contents /\ uFile'.mtime = clock + 1 /\ uFile'.n = uFile.n + 1 /\ uFile'.users = table
  BY <1>1, <1>2, UsersAssumption DEF Contents
<1>4. /\ clock' = clock + 1 /\ uTmp' = uTmp /\ store' = store /\ cursor' = cursor /\ uSlot' = uSlot
      /\ wrong' = wrong
  BY <1>1
<1>5. \A s \in Slots : uSlot[s] # None => uSlot[s].stamp \in Nat
  BY Fields DEF UsersTypes
<1>6. uTmp # None => uTmp.mtime \in Nat
  BY DEF UsersTypes, Contents
<1>7. UsersTypes'
  BY <1>2, <1>3, <1>4 DEF UsersTypes
<1>8. UsersClock'
  BY <1>2, <1>3, <1>4, <1>5, <1>6 DEF UsersClock, Busy
<1>9. UsersSeen'
  <2>1. ASSUME NEW s \in Slots, uSlot[s] # None, uSlot[s].op = "login", uSlot[s].crowded = FALSE
        PROVE  LoginSees(s)'
    <3>1. uSlot[s].since \in Nat
      BY <2>1, Fields DEF UsersTypes
    <3>2. LoginSees(s)
      BY DEF UsersSeen
    <3>3. uSlot[s].since <= uFile'.n
      BY <1>2, <1>3, <2>1, <3>1, <3>2 DEF LoginSees
    <3> QED
      BY <1>4, <2>1, <3>2, <3>3 DEF LoginSees, Busy, LocalAccounts!Usable
  <2> QED
    BY <1>4, <2>1 DEF UsersSeen, LoginSees
<1>10. UsersUsable'
  BY <1>1, <1>3 DEF UsersUsable, FilesUsable, Alters, LocalAccounts!Usable
<1> QED
  BY <1>7, <1>8, <1>9, <1>10

LEMMA UsersCrashStep ==
    ASSUME UsersIInv, LocalAccounts!Crash
    PROVE  UsersIInv'
<1> USE DEF UsersIInv
<1>1. /\ store' = uFile /\ cursor' = uFile.mtime /\ uSlot' = [s \in Slots |-> None]
      /\ UNCHANGED <<uFile, uTmp, clock, uClash, wrong>>
  BY DEF LocalAccounts!Crash
<1>2. uFile \in Contents /\ uFile.mtime \in Nat /\ uFile.n \in Nat
  BY DEF UsersTypes, Contents
<1>3. UsersTypes'
  BY <1>1, <1>2 DEF UsersTypes
<1>4. \A s \in Slots : uSlot'[s] = None
  BY <1>1
<1>5. UsersClock'
  BY <1>1, <1>2, <1>4 DEF UsersClock, Busy
<1>6. UsersSeen'
  BY <1>1, <1>4 DEF UsersSeen, LoginSees
<1>7. UsersUsable'
  BY <1>1, <1>4 DEF UsersUsable, Alters
<1> QED
  BY <1>3, <1>5, <1>6, <1>7

LEMMA UsersKept == UsersIInv /\ UNCHANGED users => UsersIInv'
<1> SUFFICES ASSUME UsersIInv, UNCHANGED users
             PROVE  UsersIInv'
  OBVIOUS
<1>1. UNCHANGED <<uFile, uTmp, clock, store, cursor, uSlot, uClash, wrong>>
  BY DEF users
<1> QED
  BY <1>1 DEF UsersIInv, UsersTypes, UsersClock, UsersSeen, UsersUsable, LoginSees, Busy, Alters,
              FilesUsable, LocalAccounts!Usable

(* A login is decided by a user file at least as new as itself, unless another *)
(* request held an older one as it came in, or what it read could not be used; *)
(* and with changes one at a time that file can be loaded at every moment: for *)
(* any number of users and requests in flight (index.ts, auth/local-users.ts). *)
THEOREM UserFiles == Joint => []UsersFileHolds
<1> DEFINE IInv == which = "users" => UsersIInv
<1>1. JointInit => IInv
  BY UsersInit DEF JointInit
<1>2. UsersIInv /\ LocalAccounts!Next => UsersIInv'
  BY ArrivalStep, ReloadStep, SettleStep, FindStep, OpenStep, FillStep, RenameStep, EditStep, UsersCrashStep
     DEF LocalAccounts!Next
<1>3. IInv /\ [JointNext]_JointVars => IInv'
  BY <1>2, UsersKept DEF JointNext, JointVars
<1>4. IInv => UsersFileHolds
  BY DEF UsersIInv, UsersSeen, UsersUsable, FilesUsable, UsersFileHolds, LocalAccounts!LoginSeesEdits,
         LocalAccounts!NeverLockedOut
<1> QED
  BY <1>1, <1>3, <1>4, PTL DEF Joint

----------------------------------------------------------------------------
\* Revocations.  What load() makes of the lines of a file: the latest of the cutoffs
\* there are for a subject, whatever the order of the lines.
About(l, u) == l.whole /\ l.entry.kind = "subject" /\ l.entry.value = u

Loads(lines, u, h) ==
    h = [t \in SUBSET (1 .. Len(lines)) |->
            IF t = {} THEN 0
            ELSE IF About(lines[Sessions!Max(t)], u)
                 THEN Sessions!IndexCutoff(h[t \ {Sessions!Max(t)}], lines[Sessions!Max(t)].entry)
                 ELSE h[t \ {Sessions!Max(t)}]]

Latest(lines, u, n, c) ==
    /\ c \in Nat
    /\ \A i \in 1 .. n : About(lines[i], u) => lines[i].entry.revokedAt <= c
    /\ c = 0 \/ \E i \in 1 .. n : About(lines[i], u) /\ lines[i].entry.revokedAt = c

RevokedLines == [entry : Sessions!Entries, whole : BOOLEAN]

LEMMA LinesAre ==
    ASSUME NEW lines \in Seq(RevokedLines)
    PROVE  /\ Len(lines) \in Nat /\ DOMAIN lines = 1 .. Len(lines)
           /\ \A i \in 1 .. Len(lines) : lines[i].entry.revokedAt \in Nat
<1>1. ASSUME NEW i \in 1 .. Len(lines)
      PROVE  lines[i].entry.revokedAt \in Nat
  <2>1. lines[i] \in RevokedLines
    OBVIOUS
  <2>2. lines[i].entry \in Sessions!Entries
    BY <2>1 DEF RevokedLines
  <2> QED
    BY <2>2 DEF Sessions!Entries
<1> QED
  BY <1>1

LEMMA LoadsExists ==
    ASSUME NEW lines \in Seq(RevokedLines), NEW u \in Subjects
    PROVE  \E h : Loads(lines, u, h)
<1> DEFINE n == Len(lines)
           step == [i \in 1 .. n |->
                      [c \in Nat |-> IF About(lines[i], u)
                                     THEN Sessions!IndexCutoff(c, lines[i].entry) ELSE c]]
<1>1. n \in Nat /\ \A i \in 1 .. n : lines[i].entry.revokedAt \in Nat
  BY LinesAre
<1>2. step \in [1 .. n -> [Nat -> Nat]]
  BY <1>1 DEF Sessions!IndexCutoff, Sessions!MaxOf
<1>3. \A i \in 1 .. n : \A c \in Nat :
        step[i][c] = IF About(lines[i], u) THEN Sessions!IndexCutoff(c, lines[i].entry) ELSE c
  OBVIOUS
<1> HIDE DEF step
<1>4. PICK h \in [SUBSET (1 .. n) -> Nat] : Folds(step, 0, n, h)
  BY <1>1, <1>2, FoldDefined
<1>5. ASSUME NEW t \in SUBSET (1 .. n), t # {}
      PROVE  h[t] = IF About(lines[Sessions!Max(t)], u)
                    THEN Sessions!IndexCutoff(h[t \ {Sessions!Max(t)}], lines[Sessions!Max(t)].entry)
                    ELSE h[t \ {Sessions!Max(t)}]
  <2>1. Sessions!Max(t) \in t /\ \A y \in t : y <= Sessions!Max(t)
    <3>1. Sessions!Max(t) = Max(t)
      BY DEF Sessions!Max, Max
    <3>2. Max(t) \in t /\ \A y \in t : Max(t) >= y
      BY <1>1, <1>5, MaxOf
    <3>3. \A y \in t : y \in Nat
      BY <1>1
    <3> QED
      BY <3>1, <3>2, <3>3
  <2> DEFINE m == Sessions!Max(t)
  <2> HIDE DEF m
  <2>2. m \in t /\ \A y \in t : y <= m
    BY <2>1 DEF m
  <2>3. h[t] = step[m][h[t \ {m}]]
    BY <1>4, <2>2 DEF Folds
  <2>4. m \in 1 .. n /\ h[t \ {m}] \in Nat
    BY <1>4, <2>2
  <2>5. h[t] = IF About(lines[m], u)
               THEN Sessions!IndexCutoff(h[t \ {m}], lines[m].entry) ELSE h[t \ {m}]
    BY <1>3, <2>3, <2>4
  <2> QED
    BY <2>5 DEF m
<1>6. h[{}] = 0 /\ h = [t \in SUBSET (1 .. n) |-> h[t]]
  BY <1>4 DEF Folds
<1>7. \A t \in SUBSET (1 .. n) :
        h[t] = IF t = {} THEN 0
               ELSE IF About(lines[Sessions!Max(t)], u)
                    THEN Sessions!IndexCutoff(h[t \ {Sessions!Max(t)}], lines[Sessions!Max(t)].entry)
                    ELSE h[t \ {Sessions!Max(t)}]
  BY <1>5, <1>6
<1>8. Loads(lines, u, h)
  BY <1>6, <1>7, Zenon DEF Loads
<1> QED
  BY <1>8

LEMMA LoadedCutoffIs ==
    ASSUME NEW lines \in Seq(RevokedLines), NEW u \in Subjects
    PROVE  Latest(lines, u, Len(lines), Sessions!LoadedCutoff(lines, u))
<1> DEFINE n == Len(lines)
           h == CHOOSE h : Loads(lines, u, h)
           T == {k \in Nat : k <= n => Latest(lines, u, k, h[1 .. k])}
<1>1. /\ n \in Nat /\ DOMAIN lines = 1 .. n
      /\ \A i \in 1 .. n : lines[i].entry.revokedAt \in Nat
  BY LinesAre
<1>2. Loads(lines, u, h)
  BY LoadsExists
<1>3. Sessions!LoadedCutoff(lines, u) = h[1 .. n]
  BY <1>1 DEF Sessions!LoadedCutoff, Sessions!FoldLeft, Sessions!MapThenFoldSet, Loads, About
<1> HIDE DEF h
<1>4. ASSUME NEW k \in 1 .. n
      PROVE  h[1 .. k] = IF About(lines[k], u)
                         THEN Sessions!IndexCutoff(h[1 .. (k - 1)], lines[k].entry)
                         ELSE h[1 .. (k - 1)]
  <2>1. Max(1 .. k) = k /\ (1 .. k) \ {k} = 1 .. (k - 1)
    BY <1>1, MaxOfInterval
  <2>2. Sessions!Max(1 .. k) = k
    BY <2>1 DEF Sessions!Max, Max
  <2>3. 1 .. k \in SUBSET (1 .. n) /\ 1 .. k # {}
    BY <1>1
  <2> QED
    BY <1>2, <2>1, <2>2, <2>3 DEF Loads
<1>5. 0 \in T
  <2>1. 1 .. 0 = {} /\ {} \in SUBSET (1 .. n)
    BY <1>1
  <2>2. h[{}] = 0
    BY <1>2, <2>1 DEF Loads
  <2> QED
    BY <2>1, <2>2 DEF Latest
<1>6. ASSUME NEW k \in T
      PROVE  k + 1 \in T
  <2>1. k \in Nat /\ (k <= n => Latest(lines, u, k, h[1 .. k]))
    BY Zenon
  <2>2. k + 1 \in Nat
    BY <2>1
  <2> SUFFICES ASSUME k + 1 <= n
               PROVE  Latest(lines, u, k + 1, h[1 .. (k + 1)])
    BY <2>2, Zenon
  <2> HIDE DEF T
  <2>3. Latest(lines, u, k, h[1 .. k]) /\ k + 1 \in 1 .. n /\ k + 1 - 1 = k
    BY <1>1, <2>1
  <2>4. h[1 .. (k + 1)] = IF About(lines[k + 1], u)
                          THEN Sessions!IndexCutoff(h[1 .. k], lines[k + 1].entry)
                          ELSE h[1 .. k]
    <3> DEFINE Steps(j, i) == h[1 .. j] = IF About(lines[j], u)
                              THEN Sessions!IndexCutoff(h[1 .. i], lines[j].entry) ELSE h[1 .. i]
    <3>1. \A j \in 1 .. n : Steps(j, j - 1)
      BY <1>4, Zenon
    <3> HIDE DEF Steps
    <3>2. PICK j \in 1 .. n : j = k + 1
      BY <2>3
    <3>3. Steps(j, j - 1) /\ j - 1 = k
      BY <2>1, <3>1, <3>2
    <3>4. Steps(k + 1, k)
      BY <3>2, <3>3, Zenon
    <3> QED
      BY <3>4 DEF Steps
  <2> DEFINE c == h[1 .. k]
             d == h[1 .. (k + 1)]
             e == lines[k + 1].entry
  <2>5. /\ Latest(lines, u, k, c) /\ e.revokedAt \in Nat
        /\ d = IF About(lines[k + 1], u) THEN Sessions!IndexCutoff(c, e) ELSE c
    BY <1>1, <2>3, <2>4
  <2> HIDE DEF c, d
  <2>6. \A i \in 1 .. (k + 1) : i \in 1 .. k \/ i = k + 1
    BY <2>1
  <2>7. 1 .. k \subseteq 1 .. (k + 1) /\ k + 1 \in 1 .. (k + 1) /\ 1 .. k \subseteq 1 .. n
    BY <1>1, <2>1, <2>3
  <2>8. CASE About(lines[k + 1], u)
    <3>1. d = IF c > e.revokedAt THEN c ELSE e.revokedAt
      BY <2>5, <2>8 DEF Sessions!IndexCutoff, Sessions!MaxOf
    <3>2. c \in Nat /\ d \in Nat /\ c <= d /\ e.revokedAt <= d
      BY <2>5, <3>1 DEF Latest
    <3>3. \A i \in 1 .. (k + 1) : About(lines[i], u) => lines[i].entry.revokedAt <= d
      BY <1>1, <2>5, <2>6, <2>7, <3>2 DEF Latest
    <3>4. d = 0 \/ \E i \in 1 .. (k + 1) : About(lines[i], u) /\ lines[i].entry.revokedAt = d
      BY <2>5, <2>7, <2>8, <3>1 DEF Latest
    <3> QED
      BY <3>2, <3>3, <3>4 DEF Latest, d
  <2>9. CASE ~About(lines[k + 1], u)
    <3>1. d = c
      BY <2>5, <2>9
    <3> QED
      BY <2>5, <2>6, <2>7, <2>9, <3>1 DEF Latest, d
  <2> QED
    BY <2>8, <2>9
<1> HIDE DEF T
<1>7. n \in T
  <2>1. T \in SUBSET Nat
    BY DEF T
  <2> QED
    BY <1>1, <1>5, <1>6, <2>1, Induction
<1>8. Latest(lines, u, n, h[1 .. n])
  <2>1. n <= n
    BY <1>1
  <2> QED
    BY <1>7, <2>1, Zenon DEF T
<1> QED
  BY <1>3, <1>8

\* A replica's memory holds what it must honour and what it is about to write, and
\* nothing that nobody asked for; neither does the file.
IndexedIn(ids, latest, e) ==
    IF e.kind = "session" THEN e.value \in ids ELSE e.revokedAt <= latest[e.value]

Indexed(r, e) == IndexedIn(sids[r], cutoffs[r], e)

HonouredIndexed(r) ==
    /\ \A e \in bound[r] : Indexed(r, e)
    /\ \A k \in DOMAIN appends[r] : Indexed(r, appends[r][k])

Asked(kind, value) == {e \in requested : e.kind = kind /\ e.value = value}

OnlyAsked(r) ==
    /\ \A k \in DOMAIN appends[r] : appends[r][k] \in requested
    /\ \A v \in sids[r] : Asked("session", v) # {}
    /\ \A u \in Subjects :
          cutoffs[r][u] = 0 \/ \E e \in Asked("subject", u) : e.revokedAt = cutoffs[r][u]

RevocationIInv ==
    /\ Sessions!TypeOK
    /\ IsFiniteSet(issued) /\ rNow >= 1 /\ \A s \in issued : s.iat >= 1
    /\ \A i \in DOMAIN file : file[i].entry \in requested
    /\ \A r \in Replicas : HonouredIndexed(r) /\ OnlyAsked(r)

LEMMA RevocationExact == RevocationIInv => Sessions!RevokedStaysOut /\ Sessions!NotABan
<1> SUFFICES ASSUME RevocationIInv
             PROVE  Sessions!RevokedStaysOut /\ Sessions!NotABan
  OBVIOUS
<1> USE DEF RevocationIInv, Sessions!Covers, Sessions!Attached, Sessions!IsRevoked
<1>1. ASSUME NEW r \in Replicas, NEW e \in bound[r], NEW s \in issued, Sessions!Covers(e, s)
      PROVE  ~Sessions!Attached(r, s)
  <2>1. Indexed(r, e)
    BY <1>1 DEF HonouredIndexed
  <2>2. s.iat \in Nat /\ s.sub \in Subjects /\ cutoffs[r][s.sub] \in Nat
    BY DEF Sessions!TypeOK
  <2>3. CASE e.kind = "session"
    BY <1>1, <2>1, <2>3 DEF Indexed, IndexedIn
  <2>4. CASE e.kind # "session"
    <3>1. e.value = s.sub /\ s.iat <= e.revokedAt /\ e.revokedAt <= cutoffs[r][s.sub]
      BY <1>1, <2>1, <2>4 DEF Indexed, IndexedIn
    <3>2. e.revokedAt \in Nat
      BY DEF Sessions!TypeOK, Sessions!Entries
    <3>3. s.iat <= cutoffs[r][s.sub]
      BY <2>2, <3>1, <3>2
    <3> QED
      BY <3>3
  <2> QED
    BY <2>3, <2>4
<1>2. ASSUME NEW r \in Replicas, NEW s \in issued, s.exp > rNow, ~Sessions!Attached(r, s)
      PROVE  \E e \in requested : Sessions!Covers(e, s)
  <2>1. OnlyAsked(r) /\ (s.sid \in sids[r] \/ s.iat <= cutoffs[r][s.sub])
    BY <1>2
  <2>2. s.iat \in Nat /\ s.iat >= 1 /\ s.sub \in Subjects
    BY DEF Sessions!TypeOK
  <2>3. CASE s.sid \in sids[r]
    BY <2>1, <2>3 DEF OnlyAsked, Asked
  <2>4. CASE s.sid \notin sids[r]
    <3>1. s.iat <= cutoffs[r][s.sub] /\ cutoffs[r][s.sub] # 0
      BY <2>1, <2>2, <2>4
    <3>2. PICK e \in Asked("subject", s.sub) : e.revokedAt = cutoffs[r][s.sub]
      BY <2>1, <2>2, <3>1 DEF OnlyAsked
    <3> QED
      BY <3>1, <3>2 DEF Asked
  <2> QED
    BY <2>3, <2>4
<1> QED
  BY <1>1, <1>2 DEF Sessions!RevokedStaysOut, Sessions!NotABan

LEMMA RevocationInit == Sessions!Init => RevocationIInv
<1> SUFFICES ASSUME Sessions!Init
             PROVE  RevocationIInv
  OBVIOUS
<1>1. Sessions!TypeOK
  <2>1. /\ rNow = 1 /\ issued = {} /\ directory \in BOOLEAN /\ torn = FALSE
        /\ file = <<>> /\ requested = {} /\ acked = {} /\ damage = 0 /\ failures = 0 /\ restarts = 0
    BY Zenon DEF Sessions!Init
  <2>2. /\ sids \in [Replicas -> SUBSET (1 .. MaxSessions)]
        /\ cutoffs \in [Replicas -> [Subjects -> Nat]]
        /\ appends \in [Replicas -> Seq(Sessions!Entries)]
        /\ creating \in [Replicas -> BOOLEAN] /\ poisoned \in [Replicas -> BOOLEAN]
        /\ bound \in [Replicas -> SUBSET Sessions!Entries]
    BY DEF Sessions!Init
  <2>3. \A r \in Replicas : ~creating[r] /\ appends[r] = <<>>
    BY DEF Sessions!Init
  <2>4. /\ rNow \in Nat /\ {damage, failures, restarts} \subseteq Nat
        /\ file \in Seq([entry : Sessions!Entries, whole : BOOLEAN])
        /\ requested \subseteq Sessions!Entries /\ acked \subseteq requested
    BY <2>1
  <2>5. torn \in BOOLEAN
    BY <2>1
  <2>6. issued \subseteq [sub : Subjects, sid : 1 .. MaxSessions, iat : Nat, exp : Nat]
    BY <2>1
  <2> QED
    BY <2>1, <2>2, <2>3, <2>4, <2>5, <2>6, Zenon DEF Sessions!TypeOK
<1>2. IsFiniteSet(issued) /\ rNow >= 1 /\ \A s \in issued : s.iat >= 1
  BY FS_EmptySet DEF Sessions!Init
<1>3. \A i \in DOMAIN file : file[i].entry \in requested
  BY DEF Sessions!Init
<1>4. ASSUME NEW r \in Replicas
      PROVE  HonouredIndexed(r) /\ OnlyAsked(r)
  <2>1. bound[r] = {} /\ appends[r] = <<>> /\ sids[r] = {} /\ cutoffs[r] = [u \in Subjects |-> 0]
    BY DEF Sessions!Init
  <2> QED
    BY <2>1 DEF HonouredIndexed, OnlyAsked
<1> QED
  BY <1>1, <1>2, <1>3, <1>4 DEF RevocationIInv

\* The library's operators, under the name an instance has for them.
LEMMA SessionsCardinality == ASSUME NEW S PROVE Sessions!Cardinality(S) = Cardinality(S)
BY DEF Sessions!Cardinality, Cardinality

\* What the entries are that are asked for, and what asking for one leaves in memory.
LEMMA EntryTypes ==
    ASSUME Sessions!TypeOK
    PROVE  /\ \A s \in issued : Sessions!SessionEntry(s) \in Sessions!Entries
           /\ \A u \in Subjects : Sessions!SubjectEntry(u) \in Sessions!Entries
BY DEF Sessions!TypeOK, Sessions!Entries, Sessions!SessionEntry, Sessions!SubjectEntry

LEMMA IndexTypes ==
    ASSUME Sessions!TypeOK, NEW r \in Replicas, NEW e \in Sessions!Entries, Sessions!Index(r, e)
    PROVE  /\ sids' \in [Replicas -> SUBSET (1 .. MaxSessions)]
           /\ cutoffs' \in [Replicas -> [Subjects -> Nat]]
<1> USE DEF Sessions!TypeOK, Sessions!Index
<1>1. CASE e.kind = "session"
  <2>1. e.value \in 1 .. MaxSessions
    BY <1>1 DEF Sessions!Entries
  <2>2. sids[r] \cup {e.value} \in SUBSET (1 .. MaxSessions)
    BY <2>1
  <2>3. cutoffs' = cutoffs /\ sids' = [sids EXCEPT ![r] = sids[r] \cup {e.value}]
    BY <1>1
  <2> QED
    BY <2>2, <2>3
<1>2. CASE e.kind # "session"
  <2>1. e.value \in Subjects /\ e.revokedAt \in Nat /\ cutoffs[r][e.value] \in Nat
    BY <1>2 DEF Sessions!Entries
  <2>2. Sessions!IndexCutoff(cutoffs[r][e.value], e) \in Nat
    BY <2>1 DEF Sessions!IndexCutoff, Sessions!MaxOf
  <2>3. [cutoffs[r] EXCEPT ![e.value] = Sessions!IndexCutoff(cutoffs[r][e.value], e)] \in [Subjects -> Nat]
    BY <2>1, <2>2
  <2>4. /\ sids' = sids
        /\ cutoffs' = [cutoffs EXCEPT ![r] =
             [cutoffs[r] EXCEPT ![e.value] = Sessions!IndexCutoff(cutoffs[r][e.value], e)]]
    BY <1>2
  <2> QED
    BY <2>3, <2>4
<1> QED
  BY <1>1, <1>2

\* The head of a chain, and a chain without it.
LEMMA HeadTypes ==
    ASSUME Sessions!TypeOK, NEW r \in Replicas, appends[r] # <<>>
    PROVE  /\ appends[r] \in Seq(Sessions!Entries) /\ Len(appends[r]) \in Nat \ {0}
           /\ Head(appends[r]) = appends[r][1] /\ Head(appends[r]) \in Sessions!Entries
           /\ Tail(appends[r]) \in Seq(Sessions!Entries)
           /\ \A k \in DOMAIN Tail(appends[r]) :
                 Tail(appends[r])[k] = appends[r][k + 1] /\ k + 1 \in DOMAIN appends[r]
           /\ 1 \in DOMAIN appends[r]
           /\ [entry |-> Head(appends[r]), whole |-> TRUE] \in RevokedLines
           /\ \A cut \in BOOLEAN : Sessions!Line(Head(appends[r]), cut) \in RevokedLines
<1>1. appends[r] \in Seq(Sessions!Entries) /\ torn \in BOOLEAN
  BY DEF Sessions!TypeOK
<1>2. /\ Len(appends[r]) \in Nat \ {0} /\ Head(appends[r]) = appends[r][1]
      /\ Head(appends[r]) \in Sessions!Entries
      /\ Tail(appends[r]) \in Seq(Sessions!Entries) /\ 1 \in DOMAIN appends[r]
  BY <1>1
<1>3. \A k \in DOMAIN Tail(appends[r]) :
        Tail(appends[r])[k] = appends[r][k + 1] /\ k + 1 \in DOMAIN appends[r]
  BY <1>1
<1>4. /\ [entry |-> Head(appends[r]), whole |-> TRUE] \in RevokedLines
      /\ \A cut \in BOOLEAN : Sessions!Line(Head(appends[r]), cut) \in RevokedLines
  BY <1>1, <1>2 DEF RevokedLines, Sessions!Line
<1> QED
  BY <1>1, <1>2, <1>3, <1>4

\* What a write goes behind is the file, or nothing.
LEMMA RestTypes ==
    ASSUME Sessions!TypeOK, NEW cut \in BOOLEAN
    PROVE  /\ Sessions!Rest(cut) \in Seq(RevokedLines) /\ Sessions!Removed(cut) \in Nat
           /\ Sessions!Rest(cut) # <<>> => directory
           /\ \A i \in DOMAIN Sessions!Rest(cut) : i \in DOMAIN file /\ Sessions!Rest(cut)[i] = file[i]
BY DEF Sessions!TypeOK, Sessions!Rest, Sessions!Removed, RevokedLines

LEMMA RevocationActions ==
    ASSUME Sessions!TypeOK, Sessions!Next
    PROVE  \/ Sessions!Advance
           \/ \E u \in Subjects : Sessions!Issue(u)
           \/ \E r \in Replicas :
                 \/ \E e \in Sessions!Entries : Sessions!Revoke(r, e)
                 \/ Sessions!AppendDone(r)
                 \/ Sessions!AppendFindsNothing(r)
                 \/ Sessions!MakeDirectory(r)
                 \/ Sessions!CreateDone(r)
                 \/ \E b, cut \in BOOLEAN : Sessions!AppendFails(r, b, cut) \/ Sessions!Restart(r, b, cut)
BY EntryTypes DEF Sessions!Next

LEMMA RevocationTypesStep ==
    ASSUME RevocationIInv, Sessions!Next
    PROVE  Sessions!TypeOK' /\ IsFiniteSet(issued)'
<1>0. /\ Sessions!TypeOK /\ IsFiniteSet(issued)
      /\ \A r \in Replicas : appends[r] # <<>> => Head(appends[r]) \in requested
  BY HeadTypes DEF RevocationIInv, OnlyAsked
<1> USE <1>0 DEF Sessions!TypeOK
<1>1. CASE Sessions!Advance
  BY <1>1 DEF Sessions!Advance, Sessions!Tick, Sessions!store, Sessions!disk, Sessions!history
<1>2. ASSUME NEW u \in Subjects, Sessions!Issue(u)
      PROVE  Sessions!TypeOK' /\ IsFiniteSet(issued)'
  <2> DEFINE s == [sub |-> u, sid |-> Cardinality(issued) + 1, iat |-> rNow, exp |-> rNow + SessionTtl]
  <2>1. /\ Cardinality(issued) < MaxSessions /\ issued' = issued \cup {s}
        /\ UNCHANGED <<rNow, sids, cutoffs, appends, creating, poisoned, directory, file, torn, damage,
                       requested, acked, bound, failures, restarts>>
    BY <1>2, SessionsCardinality DEF Sessions!Issue, Sessions!store, Sessions!disk, Sessions!history
  <2>2. Cardinality(issued) \in Nat /\ MaxSessions \in Nat /\ SessionTtl \in Nat /\ rNow \in Nat
    BY FS_CardinalityType, BoundsAssumption, TimesAssumption
  <2>3. s \in [sub : Subjects, sid : 1 .. MaxSessions, iat : Nat, exp : Nat]
    BY <2>1, <2>2
  <2> HIDE DEF s
  <2>4. issued' \subseteq [sub : Subjects, sid : 1 .. MaxSessions, iat : Nat, exp : Nat]
    BY <2>1, <2>3
  <2>5. IsFiniteSet(issued')
    BY <2>1, FS_AddElement
  <2> QED
    BY <2>1, <2>4, <2>5
<1>3. ASSUME NEW r \in Replicas, NEW e \in Sessions!Entries, Sessions!Revoke(r, e)
      PROVE  Sessions!TypeOK' /\ IsFiniteSet(issued)'
  <2>1. /\ appends' = [appends EXCEPT ![r] = IF poisoned[r] THEN @ ELSE Append(@, e)]
        /\ requested' = requested \cup {e} /\ Sessions!Index(r, e)
        /\ UNCHANGED <<rNow, issued, creating, poisoned, directory, file, torn, damage,
                       acked, bound, failures, restarts>>
    BY <1>3 DEF Sessions!Revoke, Sessions!disk
  <2>2. /\ sids' \in [Replicas -> SUBSET (1 .. MaxSessions)]
        /\ cutoffs' \in [Replicas -> [Subjects -> Nat]]
    BY <2>1, IndexTypes
  <2>3. /\ appends' \in [Replicas -> Seq(Sessions!Entries)]
        /\ \A q \in Replicas : /\ creating[q] => appends'[q] # <<>>
                               /\ poisoned[q] => appends'[q] = <<>>
    <3> DEFINE w == IF poisoned[r] THEN appends[r] ELSE Append(appends[r], e)
    <3>1. w \in Seq(Sessions!Entries) /\ (creating[r] => w # <<>>) /\ (poisoned[r] => w = <<>>)
      <4>1. CASE poisoned[r]
        BY <4>1
      <4>2. CASE ~poisoned[r]
        <5>1. w = Append(appends[r], e) /\ appends[r] \in Seq(Sessions!Entries)
          BY <4>2
        <5>2. w \in Seq(Sessions!Entries) /\ Len(w) = Len(appends[r]) + 1 /\ Len(appends[r]) \in Nat
          BY <5>1
        <5>3. w # <<>>
          <6> HIDE DEF w
          <6> QED
            BY <5>2
        <5> QED
          BY <4>2, <5>2, <5>3
      <4> QED
        BY <4>1, <4>2
    <3>2. appends' = [appends EXCEPT ![r] = w]
      BY <2>1
    <3> HIDE DEF w
    <3> QED
      BY <3>1, <3>2
  <2>4. requested' \subseteq Sessions!Entries /\ acked' \subseteq requested'
    BY <2>1
  <2> QED
    BY <2>1, <2>2, <2>3, <2>4
<1>4. ASSUME NEW r \in Replicas, Sessions!AppendDone(r)
      PROVE  Sessions!TypeOK' /\ IsFiniteSet(issued)'
  <2>1. /\ appends[r] # <<>> /\ ~creating[r] /\ directory
        /\ file' = Append(file, Sessions!Line(Head(appends[r]), FALSE)) /\ torn' = FALSE
        /\ appends' = [appends EXCEPT ![r] = Tail(appends[r])]
        /\ acked' = acked \cup {Head(appends[r])}
        /\ bound' = [bound EXCEPT ![r] = bound[r] \cup {Head(appends[r])}]
        /\ UNCHANGED <<rNow, issued, sids, cutoffs, creating, poisoned, requested, directory, damage,
                       failures, restarts>>
    BY <1>4 DEF Sessions!AppendDone, Sessions!Answer
  <2>2. file' \in Seq([entry : Sessions!Entries, whole : BOOLEAN])
    <3>1. Sessions!Line(Head(appends[r]), FALSE) \in RevokedLines /\ file \in Seq(RevokedLines)
      BY <2>1, HeadTypes DEF RevokedLines
    <3> QED
      <4>1. file' \in Seq(RevokedLines)
        <5> DEFINE l == Sessions!Line(Head(appends[r]), FALSE)
        <5>1. file' = Append(file, l) /\ l \in RevokedLines
          BY <2>1, <3>1
        <5> HIDE DEF l
        <5> QED
          BY <3>1, <5>1
      <4> QED
        BY <4>1 DEF RevokedLines
  <2>3. /\ Tail(appends[r]) \in Seq(Sessions!Entries)
        /\ bound[r] \cup {Head(appends[r])} \in SUBSET Sessions!Entries
    BY <2>1, HeadTypes
  <2>4. /\ appends' \in [Replicas -> Seq(Sessions!Entries)]
        /\ \A q \in Replicas : /\ creating[q] => appends'[q] # <<>>
                               /\ poisoned[q] => appends'[q] = <<>>
    BY <2>1, <2>3
  <2>5. bound' \in [Replicas -> SUBSET Sessions!Entries] /\ acked' \subseteq requested
    BY <1>4, <2>1, <2>3
  <2> QED
    BY <2>1, <2>2, <2>4, <2>5
<1>5. ASSUME NEW r \in Replicas, Sessions!AppendFindsNothing(r)
      PROVE  Sessions!TypeOK' /\ IsFiniteSet(issued)'
  BY <1>5 DEF Sessions!AppendFindsNothing, Sessions!disk, Sessions!history
<1>9. ASSUME NEW r \in Replicas, Sessions!MakeDirectory(r)
      PROVE  Sessions!TypeOK' /\ IsFiniteSet(issued)'
  BY <1>9 DEF Sessions!MakeDirectory, Sessions!store, Sessions!history
<1>6. ASSUME NEW r \in Replicas, Sessions!CreateDone(r)
      PROVE  Sessions!TypeOK' /\ IsFiniteSet(issued)'
  <2>1. /\ creating[r] /\ directory /\ directory' = directory
        /\ file' = <<Sessions!Line(Head(appends[r]), TRUE)>> /\ torn' = FALSE
        /\ damage' = damage + Len(file)
        /\ creating' = [creating EXCEPT ![r] = FALSE]
        /\ appends' = [appends EXCEPT ![r] = Tail(appends[r])]
        /\ acked' = acked \cup {Head(appends[r])}
        /\ bound' = [bound EXCEPT ![r] = bound[r] \cup {Head(appends[r])}]
        /\ UNCHANGED <<rNow, issued, sids, cutoffs, poisoned, requested, failures, restarts>>
    BY <1>6 DEF Sessions!CreateDone, Sessions!Answer, Sessions!Removed
  <2>2. appends[r] # <<>>
    BY <2>1
  <2>3. file' \in Seq([entry : Sessions!Entries, whole : BOOLEAN])
    <3>1. Sessions!Line(Head(appends[r]), TRUE) \in RevokedLines
      BY <2>2, HeadTypes
    <3> QED
      <4> DEFINE l == Sessions!Line(Head(appends[r]), TRUE)
      <4>1. file' = <<l>> /\ l \in RevokedLines
        BY <2>1, <3>1
      <4> HIDE DEF l
      <4>2. file' \in Seq(RevokedLines)
        BY <4>1
      <4> QED
        BY <4>2 DEF RevokedLines
  <2>4. /\ Tail(appends[r]) \in Seq(Sessions!Entries) /\ poisoned[r] = FALSE
        /\ bound[r] \cup {Head(appends[r])} \in SUBSET Sessions!Entries
    BY <2>1, <2>2, HeadTypes
  <2>5. /\ appends' \in [Replicas -> Seq(Sessions!Entries)] /\ creating' \in [Replicas -> BOOLEAN]
        /\ \A q \in Replicas : /\ creating'[q] => appends'[q] # <<>>
                               /\ poisoned[q] => appends'[q] = <<>>
    BY <2>1, <2>4
  <2>6. bound' \in [Replicas -> SUBSET Sessions!Entries] /\ acked' \subseteq requested
    BY <1>6, <2>1, <2>4
  <2>7. damage' \in Nat
    BY <2>1
  <2> QED
    BY <2>1, <2>3, <2>5, <2>6, <2>7
<1>7. ASSUME NEW r \in Replicas, NEW b \in BOOLEAN, NEW cut \in BOOLEAN, Sessions!AppendFails(r, b, cut)
      PROVE  Sessions!TypeOK' /\ IsFiniteSet(issued)'
  <2>1. /\ failures' = failures + 1 /\ torn' = (b \/ (torn /\ ~cut))
        /\ damage' = damage + Sessions!Removed(cut) + IF b THEN 1 ELSE 0
        /\ file' = Sessions!Rest(cut)
        /\ poisoned' = [poisoned EXCEPT ![r] = TRUE] /\ appends' = [appends EXCEPT ![r] = <<>>]
        /\ creating' = [creating EXCEPT ![r] = FALSE]
        /\ UNCHANGED <<rNow, issued, sids, cutoffs, directory, requested, acked, bound, restarts>>
    BY <1>7 DEF Sessions!AppendFails, Sessions!history
  <2>2. failures' \in Nat /\ damage' \in Nat
    <3>1. Sessions!Removed(cut) \in Nat /\ damage \in Nat /\ failures \in Nat
      BY RestTypes
    <3> QED
      BY <2>1, <3>1
  <2>3. torn' \in BOOLEAN
    BY <2>1
  <2>4. /\ appends' \in [Replicas -> Seq(Sessions!Entries)]
        /\ creating' \in [Replicas -> BOOLEAN] /\ poisoned' \in [Replicas -> BOOLEAN]
        /\ \A q \in Replicas : /\ creating'[q] => appends'[q] # <<>>
                               /\ poisoned'[q] => appends'[q] = <<>>
    BY <2>1
  <2>5. file' \in Seq([entry : Sessions!Entries, whole : BOOLEAN]) /\ (file' # <<>> => directory')
    BY <2>1, RestTypes DEF RevokedLines
  <2> QED
    BY <2>1, <2>2, <2>3, <2>4, <2>5
<1>8. ASSUME NEW r \in Replicas, NEW b \in BOOLEAN, NEW cut \in BOOLEAN, Sessions!Restart(r, b, cut)
      PROVE  Sessions!TypeOK' /\ IsFiniteSet(issued)'
  <2>1. /\ restarts' = restarts + 1 /\ (b => appends[r] # <<>> /\ directory)
        /\ file' = IF b THEN Append(Sessions!Rest(cut), Sessions!Line(Head(appends[r]), cut)) ELSE Sessions!Rest(cut)
        /\ torn' = (torn /\ ~b /\ ~cut) /\ damage' = damage + Sessions!Removed(cut)
        /\ sids' = [sids EXCEPT ![r] = {e.value : e \in {x \in Sessions!Readable' : x.kind = "session"}}]
        /\ cutoffs' = [cutoffs EXCEPT ![r] = [u \in Subjects |-> Sessions!LoadedCutoff(file', u)]]
        /\ bound' = [bound EXCEPT ![r] = Sessions!Readable']
        /\ appends' = [appends EXCEPT ![r] = <<>>] /\ creating' = [creating EXCEPT ![r] = FALSE]
        /\ poisoned' = [poisoned EXCEPT ![r] = FALSE]
        /\ UNCHANGED <<rNow, issued, directory, requested, acked, failures>>
    BY <1>8 DEF Sessions!Restart
  <2>2. file' \in Seq(RevokedLines)
    <3>1. Sessions!Rest(cut) \in Seq(RevokedLines)
      BY RestTypes
    <3>2. CASE b
      <4>1. Sessions!Line(Head(appends[r]), cut) \in RevokedLines
        BY <2>1, <3>2, HeadTypes
      <4>2. file' = Append(Sessions!Rest(cut), Sessions!Line(Head(appends[r]), cut))
        BY <2>1, <3>2
      <4> QED
        BY <3>1, <4>1, <4>2
    <3>3. CASE ~b
      BY <2>1, <3>1, <3>3
    <3> QED
      BY <3>2, <3>3
  <2>3. Sessions!Readable' \subseteq Sessions!Entries
    <3> SUFFICES ASSUME NEW i \in DOMAIN file'
                 PROVE  file'[i].entry \in Sessions!Entries
      BY DEF Sessions!Readable
    <3>1. file'[i] \in RevokedLines
      BY <2>2
    <3> QED
      BY <3>1 DEF RevokedLines
  <2>4. {e.value : e \in {x \in Sessions!Readable' : x.kind = "session"}} \in SUBSET (1 .. MaxSessions)
    BY <2>3 DEF Sessions!Entries
  <2>5. [u \in Subjects |-> Sessions!LoadedCutoff(file', u)] \in [Subjects -> Nat]
    BY <2>2, LoadedCutoffIs DEF Latest
  <2>6. sids' \in [Replicas -> SUBSET (1 .. MaxSessions)]
    BY <2>1, <2>4
  <2>7. cutoffs' \in [Replicas -> [Subjects -> Nat]]
    BY <2>1, <2>5
  <2>8. bound' \in [Replicas -> SUBSET Sessions!Entries]
    BY <2>1, <2>3
  <2>9. /\ appends' \in [Replicas -> Seq(Sessions!Entries)]
        /\ creating' \in [Replicas -> BOOLEAN] /\ poisoned' \in [Replicas -> BOOLEAN]
        /\ \A q \in Replicas : /\ creating'[q] => appends'[q] # <<>>
                               /\ poisoned'[q] => appends'[q] = <<>>
    BY <2>1
  <2>10. /\ torn' \in BOOLEAN /\ restarts' \in Nat /\ damage' \in Nat
         /\ file' # <<>> => directory'
    <3>1. /\ Sessions!Removed(cut) \in Nat /\ damage \in Nat /\ restarts \in Nat
          /\ Sessions!Rest(cut) # <<>> => directory
      BY RestTypes
    <3>2. restarts' \in Nat /\ damage' \in Nat
      BY <2>1, <3>1
    <3> QED
      BY <2>1, <3>1, <3>2
  <2>11. file' \in Seq([entry : Sessions!Entries, whole : BOOLEAN])
    BY <2>2 DEF RevokedLines
  <2> QED
    BY <2>1, <2>6, <2>7, <2>8, <2>9, <2>10, <2>11
<1> QED
  BY <1>1, <1>2, <1>3, <1>4, <1>5, <1>6, <1>7, <1>8, <1>9, RevocationActions

\* What stays as long as what it is about does.
RevocationMemory ==
    /\ \A i \in DOMAIN file : file[i].entry \in requested
    /\ \A r \in Replicas : HonouredIndexed(r) /\ OnlyAsked(r)

LEMMA RevocationMemoryKept ==
    ASSUME RevocationMemory, UNCHANGED <<file, requested, bound, appends, sids, cutoffs>>
    PROVE  RevocationMemory'
BY DEF RevocationMemory, HonouredIndexed, Indexed, IndexedIn, OnlyAsked, Asked

\* Indexing an entry forgets nothing.
LEMMA IndexGrows ==
    ASSUME Sessions!TypeOK, NEW r \in Replicas, NEW e \in Sessions!Entries, Sessions!Index(r, e)
    PROVE  /\ Indexed(r, e)'
           /\ \A q \in Replicas : \A x \in Sessions!Entries : Indexed(q, x) => Indexed(q, x)'
           /\ \A q \in Replicas : \A v \in sids'[q] :
                 v \in sids[q] \/ (e.kind = "session" /\ v = e.value)
           /\ \A q \in Replicas : \A u \in Subjects :
                 cutoffs'[q][u] = cutoffs[q][u]
                 \/ (e.kind = "subject" /\ u = e.value /\ cutoffs'[q][u] = e.revokedAt)
<1> USE DEF Indexed, IndexedIn
<1>1. /\ sids \in [Replicas -> SUBSET (1 .. MaxSessions)] /\ cutoffs \in [Replicas -> [Subjects -> Nat]]
  BY DEF Sessions!TypeOK
<1>2. CASE e.kind = "session"
  <2>1. cutoffs' = cutoffs /\ sids' = [sids EXCEPT ![r] = sids[r] \cup {e.value}]
    BY <1>2 DEF Sessions!Index
  <2>2. sids'[r] = sids[r] \cup {e.value} /\ \A q \in Replicas : q # r => sids'[q] = sids[q]
    BY <1>1, <2>1
  <2> QED
    BY <1>2, <2>1, <2>2
<1>3. CASE e.kind # "session"
  <2> DEFINE c == Sessions!IndexCutoff(cutoffs[r][e.value], e)
  <2>1. /\ e.kind = "subject" /\ e.value \in Subjects /\ e.revokedAt \in Nat
        /\ cutoffs[r][e.value] \in Nat
    BY <1>1, <1>3 DEF Sessions!Entries
  <2>2. /\ c \in Nat /\ cutoffs[r][e.value] <= c /\ e.revokedAt <= c
        /\ c = cutoffs[r][e.value] \/ c = e.revokedAt
    BY <2>1 DEF Sessions!IndexCutoff, Sessions!MaxOf
  <2>3. /\ sids' = sids
        /\ cutoffs' = [cutoffs EXCEPT ![r] = [cutoffs[r] EXCEPT ![e.value] = c]]
    BY <1>3 DEF Sessions!Index
  <2> HIDE DEF c
  <2>4. /\ cutoffs'[r][e.value] = c
        /\ \A q \in Replicas : \A u \in Subjects :
              q # r \/ u # e.value => cutoffs'[q][u] = cutoffs[q][u]
    BY <1>1, <2>1, <2>3
  <2>5. \A q \in Replicas : \A u \in Subjects : cutoffs[q][u] <= cutoffs'[q][u] /\ cutoffs'[q][u] \in Nat
    BY <1>1, <2>1, <2>2, <2>4
  <2>6. ASSUME NEW q \in Replicas, NEW x \in Sessions!Entries, Indexed(q, x)
        PROVE  Indexed(q, x)'
    <3>1. CASE x.kind = "session"
      BY <2>3, <2>6, <3>1
    <3>2. CASE x.kind # "session"
      <4>1. x.value \in Subjects /\ x.revokedAt \in Nat /\ x.revokedAt <= cutoffs[q][x.value]
        BY <2>6, <3>2 DEF Sessions!Entries
      <4>2. cutoffs[q][x.value] <= cutoffs'[q][x.value] /\ cutoffs[q][x.value] \in Nat
            /\ cutoffs'[q][x.value] \in Nat
        BY <1>1, <2>5, <4>1
      <4>3. x.revokedAt <= cutoffs'[q][x.value]
        BY <4>1, <4>2
      <4> QED
        BY <3>2, <4>3
    <3> QED
      BY <3>1, <3>2
  <2>7. Indexed(r, e)'
    BY <1>3, <2>2, <2>4
  <2>8. \A q \in Replicas : \A u \in Subjects :
          cutoffs'[q][u] = cutoffs[q][u]
          \/ (e.kind = "subject" /\ u = e.value /\ cutoffs'[q][u] = e.revokedAt)
    BY <2>1, <2>2, <2>4
  <2> QED
    BY <2>3, <2>6, <2>7, <2>8
<1> QED
  BY <1>2, <1>3

LEMMA RevokeMemory ==
    ASSUME RevocationIInv, NEW r \in Replicas, NEW e \in Sessions!Entries, Sessions!Revoke(r, e)
    PROVE  RevocationMemory'
<1>1. /\ appends' = [appends EXCEPT ![r] = IF poisoned[r] THEN @ ELSE Append(@, e)]
      /\ requested' = requested \cup {e} /\ Sessions!Index(r, e) /\ UNCHANGED <<file, bound>>
  BY DEF Sessions!Revoke, Sessions!disk
<1>2. Sessions!TypeOK
  BY DEF RevocationIInv
<1>3. \A q \in Replicas : appends[q] \in Seq(Sessions!Entries) /\ bound[q] \subseteq Sessions!Entries
  BY <1>2 DEF Sessions!TypeOK
<1>4. ASSUME NEW q \in Replicas, NEW k \in DOMAIN appends'[q]
      PROVE  (k \in DOMAIN appends[q] /\ appends'[q][k] = appends[q][k]) \/ (q = r /\ appends'[q][k] = e)
  <2>1. CASE q = r /\ ~poisoned[r]
    <3>1. appends'[q] = Append(appends[q], e)
      BY <1>1, <1>2, <2>1 DEF Sessions!TypeOK
    <3> QED
      BY <1>3, <1>4, <2>1, <3>1
  <2>2. CASE ~(q = r /\ ~poisoned[r])
    <3>1. appends'[q] = appends[q]
      BY <1>1, <1>2, <2>2 DEF Sessions!TypeOK
    <3> QED
      BY <1>4, <3>1
  <2> QED
    BY <2>1, <2>2
<1>5. ASSUME NEW q \in Replicas
      PROVE  HonouredIndexed(q)'
  <2>1. HonouredIndexed(q)
    BY DEF RevocationIInv
  <2>2. \A x \in bound'[q] : Indexed(q, x)'
    BY <1>1, <1>2, <1>3, <2>1, IndexGrows DEF HonouredIndexed
  <2>3. ASSUME NEW k \in DOMAIN appends'[q]
        PROVE  IndexedIn(sids'[q], cutoffs'[q], appends'[q][k])
    <3>1. CASE k \in DOMAIN appends[q] /\ appends'[q][k] = appends[q][k]
      <4>1. appends[q][k] \in Sessions!Entries /\ Indexed(q, appends[q][k])
        BY <1>3, <2>1, <3>1 DEF HonouredIndexed
      <4>2. \A x \in Sessions!Entries : Indexed(q, x) => Indexed(q, x)'
        BY <1>1, <1>2, IndexGrows
      <4> QED
        BY <3>1, <4>1, <4>2 DEF Indexed
    <3>2. CASE q = r /\ appends'[q][k] = e
      <4>1. Indexed(r, e)'
        BY <1>1, <1>2, IndexGrows
      <4> QED
        BY <3>2, <4>1 DEF Indexed
    <3> QED
      BY <1>4, <2>3, <3>1, <3>2
  <2> QED
    BY <2>2, <2>3 DEF HonouredIndexed, Indexed
<1>6. ASSUME NEW q \in Replicas
      PROVE  OnlyAsked(q)'
  <2>1. OnlyAsked(q)
    BY DEF RevocationIInv
  <2>2. \A k \in DOMAIN appends'[q] : appends'[q][k] \in requested'
    BY <1>1, <1>4, <2>1 DEF OnlyAsked
  <2>3. \A v \in sids'[q] : Asked("session", v)' # {}
    BY <1>1, <1>2, <2>1, IndexGrows DEF OnlyAsked, Asked
  <2>4. ASSUME NEW u \in Subjects
        PROVE  cutoffs'[q][u] = 0 \/ \E x \in Asked("subject", u)' : x.revokedAt = cutoffs'[q][u]
    <3>1. \/ cutoffs'[q][u] = cutoffs[q][u]
          \/ e.kind = "subject" /\ u = e.value /\ cutoffs'[q][u] = e.revokedAt
      BY <1>1, <1>2, IndexGrows
    <3>2. cutoffs[q][u] = 0 \/ \E x \in Asked("subject", u) : x.revokedAt = cutoffs[q][u]
      BY <2>1 DEF OnlyAsked
    <3> QED
      BY <1>1, <3>1, <3>2 DEF Asked
  <2> QED
    BY <2>2, <2>3, <2>4 DEF OnlyAsked
<1>7. \A i \in DOMAIN file' : file'[i].entry \in requested'
  BY <1>1 DEF RevocationIInv
<1> QED
  BY <1>5, <1>6, <1>7 DEF RevocationMemory

LEMMA AnswerMemory ==
    ASSUME RevocationIInv, NEW r \in Replicas, appends[r] # <<>>, Sessions!Answer(r),
           \A i \in DOMAIN file' : file'[i].entry = Head(appends[r])
                                  \/ (i \in DOMAIN file /\ file'[i] = file[i])
    PROVE  RevocationMemory'
<1> DEFINE e == Head(appends[r])
<1>1. Sessions!TypeOK /\ HonouredIndexed(r) /\ OnlyAsked(r)
  BY DEF RevocationIInv
<1>2. /\ e = appends[r][1] /\ 1 \in DOMAIN appends[r]
      /\ \A k \in DOMAIN Tail(appends[r]) :
            Tail(appends[r])[k] = appends[r][k + 1] /\ k + 1 \in DOMAIN appends[r]
  BY <1>1, HeadTypes
<1>3. e \in requested /\ Indexed(r, e)
  BY <1>1, <1>2 DEF HonouredIndexed, OnlyAsked
<1> HIDE DEF e
<1>4. /\ appends' = [appends EXCEPT ![r] = Tail(appends[r])]
      /\ bound' = [bound EXCEPT ![r] = bound[r] \cup {e}]
      /\ UNCHANGED <<sids, cutoffs, requested>>
  BY DEF Sessions!Answer, e
<1>5. ASSUME NEW q \in Replicas, NEW k \in DOMAIN appends'[q]
      PROVE  \E j \in DOMAIN appends[q] : appends'[q][k] = appends[q][j]
  <2>1. CASE q = r
    <3>1. appends'[q] = Tail(appends[q])
      BY <1>1, <1>4, <2>1 DEF Sessions!TypeOK
    <3> QED
      BY <1>2, <1>5, <2>1, <3>1
  <2>2. CASE q # r
    <3>1. appends'[q] = appends[q]
      BY <1>1, <1>4, <2>2 DEF Sessions!TypeOK
    <3> QED
      BY <1>5, <3>1
  <2> QED
    BY <2>1, <2>2
<1>6. \A q \in Replicas : bound'[q] \subseteq bound[q] \cup {e} /\ (q # r => bound'[q] = bound[q])
  BY <1>1, <1>4 DEF Sessions!TypeOK
<1>7. ASSUME NEW q \in Replicas
      PROVE  HonouredIndexed(q)' /\ OnlyAsked(q)'
  <2>1. HonouredIndexed(q) /\ OnlyAsked(q)
    BY DEF RevocationIInv
  <2>2. \A x \in bound'[q] : IndexedIn(sids'[q], cutoffs'[q], x)
    BY <1>3, <1>4, <1>6, <2>1 DEF HonouredIndexed, Indexed
  <2>3. \A k \in DOMAIN appends'[q] :
          IndexedIn(sids'[q], cutoffs'[q], appends'[q][k]) /\ appends'[q][k] \in requested'
    BY <1>4, <1>5, <2>1 DEF HonouredIndexed, Indexed, OnlyAsked
  <2> QED
    BY <1>4, <2>1, <2>2, <2>3 DEF HonouredIndexed, Indexed, OnlyAsked, Asked
<1>8. \A i \in DOMAIN file' : file'[i].entry \in requested'
  BY <1>3, <1>4 DEF RevocationIInv, e
<1> QED
  BY <1>7, <1>8 DEF RevocationMemory

LEMMA RestartMemory ==
    ASSUME RevocationIInv, Sessions!TypeOK', NEW r \in Replicas, NEW b \in BOOLEAN, NEW cut \in BOOLEAN, Sessions!Restart(r, b, cut)
    PROVE  RevocationMemory'
<1>1. /\ b => appends[r] # <<>>
      /\ file' = IF b THEN Append(Sessions!Rest(cut), Sessions!Line(Head(appends[r]), cut)) ELSE Sessions!Rest(cut)
      /\ sids' = [sids EXCEPT ![r] = {e.value : e \in {x \in Sessions!Readable' : x.kind = "session"}}]
      /\ cutoffs' = [cutoffs EXCEPT ![r] = [u \in Subjects |-> Sessions!LoadedCutoff(file', u)]]
      /\ bound' = [bound EXCEPT ![r] = Sessions!Readable']
      /\ appends' = [appends EXCEPT ![r] = <<>>] /\ requested' = requested
  BY DEF Sessions!Restart
<1>2. Sessions!TypeOK
  BY DEF RevocationIInv
<1>3. ASSUME NEW i \in DOMAIN file'
      PROVE  file'[i].entry \in requested
  <2>1. \A j \in DOMAIN file : file[j].entry \in requested
    BY DEF RevocationIInv
  <2>2. CASE b
    <3>1. Head(appends[r]) \in requested
      BY <1>1, <1>2, <2>2, HeadTypes DEF RevocationIInv, OnlyAsked
    <3>2. /\ Sessions!Rest(cut) \in Seq(RevokedLines)
          /\ file' = Append(Sessions!Rest(cut), Sessions!Line(Head(appends[r]), cut))
      BY <1>1, <1>2, <2>2, RestTypes
    <3>3. \/ i \in DOMAIN Sessions!Rest(cut) /\ file'[i] = Sessions!Rest(cut)[i]
          \/ file'[i] = Sessions!Line(Head(appends[r]), cut)
      BY <1>3, <3>2
    <3> QED
      BY <1>2, <2>1, <3>1, <3>3, RestTypes DEF Sessions!Line
  <2>3. CASE ~b
    BY <1>1, <1>2, <1>3, <2>1, <2>3, RestTypes
  <2> QED
    BY <2>2, <2>3
<1>4. file' \in Seq(RevokedLines)
  BY DEF Sessions!TypeOK, RevokedLines
<1>5. \A i \in DOMAIN file' : file'[i].entry \in Sessions!Entries /\ i \in 1 .. Len(file')
  <2>1. \A i \in DOMAIN file' : file'[i] \in RevokedLines /\ i \in 1 .. Len(file')
    BY <1>4
  <2> QED
    BY <2>1 DEF RevokedLines
<1>6. \A u \in Subjects : Latest(file', u, Len(file'), Sessions!LoadedCutoff(file', u))
  BY <1>4, LoadedCutoffIs
<1>7. /\ sids'[r] = {e.value : e \in {x \in Sessions!Readable' : x.kind = "session"}}
      /\ \A u \in Subjects : cutoffs'[r][u] = Sessions!LoadedCutoff(file', u)
      /\ bound'[r] = Sessions!Readable' /\ appends'[r] = <<>>
      /\ \A q \in Replicas : q # r => /\ sids'[q] = sids[q] /\ cutoffs'[q] = cutoffs[q]
                                    /\ bound'[q] = bound[q] /\ appends'[q] = appends[q]
  BY <1>1, <1>2 DEF Sessions!TypeOK
<1>8. ASSUME NEW e \in Sessions!Readable'
      PROVE  Indexed(r, e)'
  <2>1. PICK i \in DOMAIN file' : file'[i].whole /\ e = file'[i].entry
    BY <1>8 DEF Sessions!Readable
  <2>2. CASE e.kind = "session"
    BY <1>7, <2>2 DEF Indexed, IndexedIn
  <2>3. CASE e.kind # "session"
    <3>1. e.kind = "subject" /\ e.value \in Subjects
      BY <1>5, <2>1, <2>3 DEF Sessions!Entries
    <3>2. About(file'[i], e.value) /\ i \in 1 .. Len(file')
      BY <1>5, <2>1, <3>1 DEF About
    <3>3. e.revokedAt <= Sessions!LoadedCutoff(file', e.value)
      BY <1>6, <2>1, <3>1, <3>2 DEF Latest
    <3> QED
      BY <1>7, <2>3, <3>1, <3>3 DEF Indexed, IndexedIn
  <2> QED
    BY <2>2, <2>3
<1>9. HonouredIndexed(r)'
  BY <1>7, <1>8 DEF HonouredIndexed
<1>10. OnlyAsked(r)'
  <2>1. ASSUME NEW v \in sids'[r]
        PROVE  Asked("session", v)' # {}
    <3>1. PICK e \in Sessions!Readable' : e.kind = "session" /\ e.value = v
      BY <1>7
    <3>2. e \in requested'
      BY <1>1, <1>3 DEF Sessions!Readable
    <3> QED
      BY <3>1, <3>2 DEF Asked
  <2>2. ASSUME NEW u \in Subjects, cutoffs'[r][u] # 0
        PROVE  \E e \in Asked("subject", u)' : e.revokedAt = cutoffs'[r][u]
    <3>1. PICK i \in 1 .. Len(file') : About(file'[i], u) /\ file'[i].entry.revokedAt = cutoffs'[r][u]
      BY <1>6, <1>7, <2>2 DEF Latest
    <3>2. file'[i].entry \in requested'
      BY <1>1, <1>3, <1>4
    <3> QED
      BY <3>1, <3>2 DEF About, Asked
  <2> QED
    BY <1>7, <2>1, <2>2 DEF OnlyAsked
<1>11. ASSUME NEW q \in Replicas, q # r
       PROVE  HonouredIndexed(q)' /\ OnlyAsked(q)'
  <2>1. HonouredIndexed(q) /\ OnlyAsked(q)
    BY DEF RevocationIInv
  <2> QED
    BY <1>1, <1>7, <1>11, <2>1 DEF HonouredIndexed, Indexed, OnlyAsked, Asked
<1>12. \A i \in DOMAIN file' : file'[i].entry \in requested'
  BY <1>1, <1>3
<1> QED
  BY <1>9, <1>10, <1>11, <1>12 DEF RevocationMemory

LEMMA RevocationStep == RevocationIInv /\ Sessions!Next => RevocationIInv'
<1> SUFFICES ASSUME RevocationIInv, Sessions!Next
             PROVE  RevocationIInv'
  OBVIOUS
<1>1. Sessions!TypeOK /\ Sessions!TypeOK' /\ IsFiniteSet(issued)'
  BY RevocationTypesStep DEF RevocationIInv
<1>2. RevocationMemory
  BY DEF RevocationIInv, RevocationMemory
<1>3. rNow' >= 1 /\ (\A s \in issued' : s.iat >= 1) /\ RevocationMemory'
  <2> USE DEF Sessions!store, Sessions!disk, Sessions!history
  <2>1. rNow >= 1 /\ rNow \in Nat /\ \A s \in issued : s.iat >= 1
    BY <1>1 DEF RevocationIInv, Sessions!TypeOK
  <2>2. CASE Sessions!Advance
    <3>1. /\ rNow' = rNow + 1 /\ issued' = issued
          /\ UNCHANGED <<file, requested, bound, appends, sids, cutoffs>>
      BY <2>2 DEF Sessions!Advance, Sessions!Tick
    <3> QED
      BY <1>2, <2>1, <3>1, RevocationMemoryKept
  <2>3. ASSUME NEW u \in Subjects, Sessions!Issue(u)
        PROVE  rNow' >= 1 /\ (\A s \in issued' : s.iat >= 1) /\ RevocationMemory'
    <3>1. rNow' = rNow /\ UNCHANGED <<file, requested, bound, appends, sids, cutoffs>>
      BY <2>3 DEF Sessions!Issue
    <3>2. \A s \in issued' : s \in issued \/ s.iat = rNow
      BY <2>3 DEF Sessions!Issue
    <3> QED
      BY <1>2, <2>1, <3>1, <3>2, RevocationMemoryKept
  <2>4. ASSUME NEW r \in Replicas, NEW e \in Sessions!Entries, Sessions!Revoke(r, e)
        PROVE  rNow' >= 1 /\ (\A s \in issued' : s.iat >= 1) /\ RevocationMemory'
    <3>1. UNCHANGED <<rNow, issued>>
      BY <2>4 DEF Sessions!Revoke
    <3> QED
      BY <2>1, <2>4, <3>1, RevokeMemory
  <2>5. ASSUME NEW r \in Replicas, Sessions!AppendDone(r)
        PROVE  rNow' >= 1 /\ (\A s \in issued' : s.iat >= 1) /\ RevocationMemory'
    <3>1. /\ appends[r] # <<>> /\ file' = Append(file, Sessions!Line(Head(appends[r]), FALSE))
          /\ Sessions!Answer(r) /\ UNCHANGED <<rNow, issued>>
      BY <2>5 DEF Sessions!AppendDone
    <3>2. file \in Seq(RevokedLines)
      BY <1>1 DEF Sessions!TypeOK, RevokedLines
    <3>3. \A i \in DOMAIN file' : file'[i].entry = Head(appends[r])
                                  \/ (i \in DOMAIN file /\ file'[i] = file[i])
      BY <3>1, <3>2 DEF Sessions!Line
    <3> QED
      BY <2>1, <3>1, <3>3, AnswerMemory
  <2>6. ASSUME NEW r \in Replicas, Sessions!AppendFindsNothing(r)
        PROVE  rNow' >= 1 /\ (\A s \in issued' : s.iat >= 1) /\ RevocationMemory'
    <3>1. UNCHANGED <<rNow, issued, file, requested, bound, appends, sids, cutoffs>>
      BY <2>6 DEF Sessions!AppendFindsNothing
    <3> QED
      BY <1>2, <2>1, <3>1, RevocationMemoryKept
  <2>10. ASSUME NEW r \in Replicas, Sessions!MakeDirectory(r)
         PROVE  rNow' >= 1 /\ (\A s \in issued' : s.iat >= 1) /\ RevocationMemory'
    <3>1. UNCHANGED <<rNow, issued, file, requested, bound, appends, sids, cutoffs>>
      BY <2>10 DEF Sessions!MakeDirectory
    <3> QED
      BY <1>2, <2>1, <3>1, RevocationMemoryKept
  <2>7. ASSUME NEW r \in Replicas, Sessions!CreateDone(r)
        PROVE  rNow' >= 1 /\ (\A s \in issued' : s.iat >= 1) /\ RevocationMemory'
    <3>1. /\ creating[r] /\ file' = <<Sessions!Line(Head(appends[r]), TRUE)>>
          /\ Sessions!Answer(r) /\ UNCHANGED <<rNow, issued>>
      BY <2>7 DEF Sessions!CreateDone
    <3>2. appends[r] # <<>>
      BY <1>1, <3>1 DEF Sessions!TypeOK
    <3>3. \A i \in DOMAIN file' : file'[i].entry = Head(appends[r])
      BY <3>1 DEF Sessions!Line
    <3> QED
      BY <2>1, <3>1, <3>2, <3>3, AnswerMemory
  <2>8. ASSUME NEW r \in Replicas, NEW b \in BOOLEAN, NEW cut \in BOOLEAN, Sessions!AppendFails(r, b, cut)
        PROVE  rNow' >= 1 /\ (\A s \in issued' : s.iat >= 1) /\ RevocationMemory'
    <3>1. /\ UNCHANGED <<rNow, issued, requested, bound, sids, cutoffs>>
          /\ appends' = [appends EXCEPT ![r] = <<>>] /\ file' = Sessions!Rest(cut)
      BY <2>8 DEF Sessions!AppendFails
    <3>2. \A q \in Replicas : appends'[q] = <<>> \/ appends'[q] = appends[q]
      BY <1>1, <3>1 DEF Sessions!TypeOK
    <3>3. RevocationMemory'
      <4>1. \A i \in DOMAIN file' : file'[i].entry \in requested'
        BY <1>1, <1>2, <3>1, RestTypes DEF RevocationMemory
      <4> QED
        BY <1>2, <3>1, <3>2, <4>1 DEF RevocationMemory, HonouredIndexed, Indexed, OnlyAsked, Asked
    <3> QED
      BY <2>1, <3>1, <3>3
  <2>9. ASSUME NEW r \in Replicas, NEW b \in BOOLEAN, NEW cut \in BOOLEAN, Sessions!Restart(r, b, cut)
        PROVE  rNow' >= 1 /\ (\A s \in issued' : s.iat >= 1) /\ RevocationMemory'
    <3>1. UNCHANGED <<rNow, issued>>
      BY <2>9 DEF Sessions!Restart
    <3> QED
      BY <1>1, <2>1, <2>9, <3>1, RestartMemory
  <2> QED
    BY <1>1, <2>2, <2>3, <2>4, <2>5, <2>6, <2>7, <2>8, <2>9, <2>10, RevocationActions
<1> QED
  BY <1>1, <1>3 DEF RevocationIInv, RevocationMemory

LEMMA RevocationKept == RevocationIInv /\ UNCHANGED revocation => RevocationIInv'
BY DEF revocation, RevocationIInv, Sessions!TypeOK, HonouredIndexed, Indexed, IndexedIn, OnlyAsked, Asked

(* A revocation answered 201 lets no session it covers through, and nothing    *)
(* else turns one away, whatever the replicas, their restarts and the order of *)
(* the lines in the file they share (auth/revocation.ts).                      *)
THEOREM Revocations == Joint => []RevokesExactly
<1> DEFINE IInv == which = "revocation" => RevocationIInv
<1>1. JointInit => IInv
  BY RevocationInit DEF JointInit
<1>2. IInv /\ [JointNext]_JointVars => IInv'
  <2> SUFFICES ASSUME IInv, [JointNext]_JointVars, which' = "revocation"
               PROVE  RevocationIInv'
    OBVIOUS
  <2>1. which = "revocation" /\ RevocationIInv
    BY DEF JointNext, JointVars
  <2>2. Sessions!Next \/ UNCHANGED revocation
    BY <2>1 DEF JointNext, JointVars
  <2> QED
    BY <2>1, <2>2, RevocationStep, RevocationKept
<1>3. IInv => RevokesExactly
  BY RevocationExact DEF RevokesExactly, RevocationIInv
<1> QED
  BY <1>1, <1>2, <1>3, PTL DEF Joint

----------------------------------------------------------------------------
\* What is lost of the revocations answered 201.  Half a line at the end of the file is
\* one more entry to lose: the next one is written on top of it.
Lost == acked \ Sessions!Readable

LossIInv ==
    /\ RevocationIInv /\ IsFiniteSet(acked)
    /\ Cardinality(Lost) + (IF torn THEN 1 ELSE 0) <= damage

\* A finite set is not larger than another with at most one element more.
LEMMA OneMore ==
    ASSUME NEW S, NEW T, NEW x, IsFiniteSet(S), T \subseteq S \cup {x}
    PROVE  IsFiniteSet(T) /\ Cardinality(T) <= Cardinality(S) + 1
           /\ Cardinality(T) \in Nat /\ Cardinality(S) \in Nat
<1>1. /\ IsFiniteSet(S \cup {x}) /\ Cardinality(S) \in Nat
      /\ Cardinality(S \cup {x}) = IF x \in S THEN Cardinality(S) ELSE Cardinality(S) + 1
  BY FS_AddElement, FS_CardinalityType
<1>2. /\ IsFiniteSet(T) /\ Cardinality(T) <= Cardinality(S \cup {x}) /\ Cardinality(T) \in Nat
  BY <1>1, FS_Subset, FS_CardinalityType
<1> QED
  BY <1>1, <1>2

\* Nor does a file hold more readable entries than lines.
LEMMA ReadableBound ==
    ASSUME file \in Seq(RevokedLines)
    PROVE  IsFiniteSet(Sessions!Readable) /\ Cardinality(Sessions!Readable) <= Len(file)
           /\ Cardinality(Sessions!Readable) \in Nat
<1> DEFINE D == 1 .. Len(file)
           f == [i \in D |-> file[i].entry]
           R == {f[i] : i \in D}
<1>1. Len(file) \in Nat /\ DOMAIN file = D
  OBVIOUS
<1>2. IsFiniteSet(D) /\ Cardinality(D) = Len(file)
  <2>1. 1 \in Int /\ Len(file) \in Int /\ D = 1 .. Len(file)
    BY <1>1
  <2>2. IsFiniteSet(D) /\ Cardinality(D) = IF 1 > Len(file) THEN 0 ELSE Len(file) - 1 + 1
    BY <2>1, FS_Interval
  <2> QED
    BY <1>1, <2>2
<1>3. IsFiniteSet(R) /\ Cardinality(R) <= Cardinality(D)
  <2>1. f \in [D -> R] /\ f \in Surjection(D, R)
    BY DEF Surjection
  <2> QED
    BY <1>2, <2>1, FS_Surjection
<1>4. Sessions!Readable \subseteq R
  BY <1>1 DEF Sessions!Readable
<1> QED
  BY <1>1, <1>2, <1>3, <1>4, FS_Subset, FS_CardinalityType

LEMMA LossInit == Sessions!Init => LossIInv
<1> SUFFICES ASSUME Sessions!Init
             PROVE  LossIInv
  OBVIOUS
<1>1. acked = {} /\ torn = FALSE /\ damage = 0 /\ Lost = {}
  BY DEF Sessions!Init, Lost
<1>2. IsFiniteSet(acked) /\ Cardinality(Lost) = 0
  BY <1>1, FS_EmptySet
<1> QED
  BY <1>1, <1>2, RevocationInit DEF LossIInv

LEMMA LossKept ==
    ASSUME LossIInv, UNCHANGED <<acked, file, torn, damage>>
    PROVE  IsFiniteSet(acked)' /\ (Cardinality(Lost) + (IF torn THEN 1 ELSE 0) <= damage)'
BY DEF LossIInv, Lost, Sessions!Readable

LEMMA LossStep == LossIInv /\ Sessions!Next => LossIInv'
<1> DEFINE Goal == IsFiniteSet(acked)' /\ (Cardinality(Lost) + (IF torn THEN 1 ELSE 0) <= damage)'
<1> SUFFICES ASSUME LossIInv, Sessions!Next
             PROVE  Goal
  BY RevocationStep DEF LossIInv
<1>1. /\ Sessions!TypeOK /\ Sessions!TypeOK' /\ RevocationIInv
  BY RevocationStep DEF LossIInv, RevocationIInv
<1>2. /\ damage \in Nat /\ torn \in BOOLEAN /\ file \in Seq(RevokedLines)
      /\ damage' \in Nat /\ torn' \in BOOLEAN /\ file' \in Seq(RevokedLines)
  BY <1>1 DEF Sessions!TypeOK, RevokedLines
<1>3. /\ IsFiniteSet(acked) /\ IsFiniteSet(Lost) /\ Cardinality(Lost) \in Nat
      /\ Cardinality(Lost) + (IF torn THEN 1 ELSE 0) <= damage
  BY FS_Subset, FS_CardinalityType DEF LossIInv, Lost
<1>4. ASSUME NEW l \in RevokedLines, file' = Append(file, l)
      PROVE  /\ Sessions!Readable \subseteq Sessions!Readable'
             /\ l.whole => l.entry \in Sessions!Readable'
  <2>1. /\ Len(file) \in Nat /\ DOMAIN file = 1 .. Len(file) /\ DOMAIN file' = 1 .. (Len(file) + 1)
        /\ \A i \in DOMAIN file : file'[i] = file[i] /\ i \in DOMAIN file'
        /\ file'[Len(file) + 1] = l
    BY <1>2, <1>4
  <2> QED
    BY <2>1 DEF Sessions!Readable
<1>10. ASSUME NEW X, X \subseteq Lost \cup Sessions!Readable
       PROVE  /\ Cardinality(X) <= Cardinality(Lost) + Len(file)
              /\ Cardinality(X) \in Nat /\ Len(file) \in Nat
  <2>4. /\ IsFiniteSet(Sessions!Readable) /\ Cardinality(Sessions!Readable) <= Len(file)
        /\ Cardinality(Sessions!Readable) \in Nat /\ Len(file) \in Nat
    BY <1>2, ReadableBound
  <2>5. /\ IsFiniteSet(Lost \cup Sessions!Readable)
        /\ Cardinality(Lost \cup Sessions!Readable) <= Cardinality(Lost) + Cardinality(Sessions!Readable)
    <3>1. /\ IsFiniteSet(Lost \cup Sessions!Readable)
          /\ Cardinality(Lost \cup Sessions!Readable) =
                Cardinality(Lost) + Cardinality(Sessions!Readable) - Cardinality(Lost \cap Sessions!Readable)
      BY <1>3, <2>4, FS_Union
    <3>2. Cardinality(Lost \cap Sessions!Readable) \in Nat
      BY <1>3, FS_Intersection, FS_CardinalityType
    <3> QED
      BY <1>3, <2>4, <3>1, <3>2
  <2>6. /\ Cardinality(X) <= Cardinality(Lost \cup Sessions!Readable)
        /\ Cardinality(X) \in Nat /\ Cardinality(Lost \cup Sessions!Readable) \in Nat
    BY <1>10, <2>5, FS_Subset, FS_CardinalityType
  <2> QED
    BY <1>3, <2>4, <2>5, <2>6
<1> HIDE DEF Goal
<1>5. ASSUME NEW r \in Replicas, Sessions!AppendDone(r)
      PROVE  Goal
  <2> DEFINE e == Head(appends[r])
  <2>1. /\ appends[r] # <<>> /\ file' = Append(file, Sessions!Line(e, FALSE)) /\ torn' = FALSE
        /\ acked' = acked \cup {e} /\ damage' = damage
    BY <1>5 DEF Sessions!AppendDone, Sessions!Answer
  <2>2. Sessions!Line(e, FALSE) \in RevokedLines
    BY <1>1, <2>1, HeadTypes
  <2>3. /\ Sessions!Readable \subseteq Sessions!Readable'
        /\ ~torn => e \in Sessions!Readable'
    BY <1>4, <2>1, <2>2 DEF Sessions!Line
  <2>4. Lost' \subseteq Lost \cup {e} /\ (~torn => Lost' \subseteq Lost)
    BY <2>1, <2>3 DEF Lost
  <2>5. /\ Cardinality(Lost') <= Cardinality(Lost) + 1 /\ Cardinality(Lost') \in Nat
        /\ ~torn => Cardinality(Lost') <= Cardinality(Lost)
    BY <1>3, <2>4, OneMore, FS_Subset
  <2>6. IsFiniteSet(acked')
    BY <1>3, <2>1, FS_AddElement
  <2>7. Cardinality(Lost') + (IF torn' THEN 1 ELSE 0) <= damage'
    BY <1>2, <1>3, <2>1, <2>5
  <2> QED
    BY <2>1, <2>6, <2>7 DEF Goal
<1>6. ASSUME NEW r \in Replicas, Sessions!CreateDone(r)
      PROVE  Goal
  <2> DEFINE e == Head(appends[r])
  <2>1. /\ file' = <<Sessions!Line(e, TRUE)>> /\ torn' = FALSE
        /\ acked' = acked \cup {e} /\ damage' = damage + Len(file)
    BY <1>6 DEF Sessions!CreateDone, Sessions!Answer, Sessions!Removed
  <2>2. e \in Sessions!Readable'
    <3>1. 1 \in DOMAIN file' /\ file'[1].whole /\ file'[1].entry = e
      <4>1. Sessions!Line(e, TRUE) = [entry |-> e, whole |-> TRUE]
        BY DEF Sessions!Line
      <4> QED
        <5>1. file' = <<[entry |-> e, whole |-> TRUE]>>
          BY <2>1, <4>1
        <5> HIDE DEF e
        <5> QED
          BY <5>1
    <3> QED
      BY <3>1 DEF Sessions!Readable
  <2>3. Lost' \subseteq Lost \cup Sessions!Readable
    BY <2>1, <2>2 DEF Lost
  <2>4. IsFiniteSet(acked')
    BY <1>3, <2>1, FS_AddElement
  <2>5. /\ Cardinality(Lost') <= Cardinality(Lost) + Len(file)
        /\ Cardinality(Lost') \in Nat /\ Len(file) \in Nat
    BY <1>10, <2>3
  <2>6. Cardinality(Lost') + (IF torn' THEN 1 ELSE 0) <= damage'
    BY <1>2, <1>3, <2>1, <2>5
  <2> QED
    BY <2>1, <2>4, <2>6 DEF Goal
<1>7. ASSUME NEW r \in Replicas, NEW b \in BOOLEAN, NEW cut \in BOOLEAN, Sessions!AppendFails(r, b, cut)
      PROVE  Goal
  <2>1. /\ acked' = acked /\ file' = Sessions!Rest(cut) /\ torn' = (b \/ (torn /\ ~cut))
        /\ damage' = damage + Sessions!Removed(cut) + IF b THEN 1 ELSE 0
    BY <1>7 DEF Sessions!AppendFails, Sessions!history
  <2>2. CASE cut
    <3>1. Lost' \subseteq Lost \cup Sessions!Readable
      BY <2>1 DEF Lost
    <3>2. /\ Cardinality(Lost') <= Cardinality(Lost) + Len(file)
          /\ Cardinality(Lost') \in Nat /\ Len(file) \in Nat
      BY <1>10, <3>1
    <3>3. damage' = damage + Len(file) + (IF b THEN 1 ELSE 0) /\ torn' = b
      BY <2>1, <2>2 DEF Sessions!Removed
    <3> QED
      BY <1>2, <1>3, <2>1, <3>2, <3>3 DEF Goal
  <2>3. CASE ~cut
    <3>1. /\ file' = file /\ torn' = (b \/ torn) /\ damage' = damage + IF b THEN 1 ELSE 0
      BY <1>2, <2>1, <2>3 DEF Sessions!Rest, Sessions!Removed
    <3>2. Lost' = Lost
      BY <2>1, <3>1 DEF Lost, Sessions!Readable
    <3>3. Cardinality(Lost') + (IF torn' THEN 1 ELSE 0) <= damage'
      BY <1>2, <1>3, <3>1, <3>2
    <3> QED
      BY <1>3, <2>1, <3>3 DEF Goal
  <2> QED
    BY <2>2, <2>3
<1>8. ASSUME NEW r \in Replicas, NEW b \in BOOLEAN, NEW cut \in BOOLEAN, Sessions!Restart(r, b, cut)
      PROVE  Goal
  <2>1. /\ b => /\ appends[r] # <<>>
               /\ file' = Append(Sessions!Rest(cut), Sessions!Line(Head(appends[r]), cut))
        /\ ~b => file' = Sessions!Rest(cut)
        /\ torn' = (torn /\ ~b /\ ~cut) /\ acked' = acked /\ damage' = damage + Sessions!Removed(cut)
    BY <1>8 DEF Sessions!Restart
  <2>2. CASE cut
    <3>1. Lost' \subseteq Lost \cup Sessions!Readable
      BY <2>1 DEF Lost
    <3>2. /\ Cardinality(Lost') <= Cardinality(Lost) + Len(file)
          /\ Cardinality(Lost') \in Nat /\ Len(file) \in Nat
      BY <1>10, <3>1
    <3>3. damage' = damage + Len(file) /\ torn' = FALSE
      BY <2>1, <2>2 DEF Sessions!Removed
    <3> QED
      BY <1>2, <1>3, <2>1, <3>2, <3>3 DEF Goal
  <2>3. CASE ~cut
    <3>1. /\ b => file' = Append(file, Sessions!Line(Head(appends[r]), cut))
          /\ ~b => file' = file
          /\ damage' = damage
      BY <1>2, <2>1, <2>3 DEF Sessions!Rest, Sessions!Removed
    <3>2. Sessions!Readable \subseteq Sessions!Readable'
      <4>1. CASE b
        BY <1>1, <1>4, <2>1, <3>1, <4>1, HeadTypes
      <4>2. CASE ~b
        BY <3>1, <4>2 DEF Sessions!Readable
      <4> QED
        BY <4>1, <4>2
    <3>3. Lost' \subseteq Lost
      BY <2>1, <3>2 DEF Lost
    <3>4. Cardinality(Lost') <= Cardinality(Lost) /\ Cardinality(Lost') \in Nat
      BY <1>3, <3>3, FS_Subset, FS_CardinalityType
    <3>5. Cardinality(Lost') + (IF torn' THEN 1 ELSE 0) <= damage'
      BY <1>2, <1>3, <2>1, <3>1, <3>4
    <3> QED
      BY <1>3, <2>1, <3>5 DEF Goal
  <2> QED
    BY <2>2, <2>3
<1>9. ASSUME UNCHANGED <<acked, file, torn, damage>>
      PROVE  Goal
  BY <1>9, LossKept DEF Goal
<1> QED
  <2> USE DEF Sessions!store, Sessions!disk, Sessions!history
  <2>1. Sessions!Advance => UNCHANGED <<acked, file, torn, damage>>
    BY DEF Sessions!Advance
  <2>2. \A u \in Subjects : Sessions!Issue(u) => UNCHANGED <<acked, file, torn, damage>>
    BY DEF Sessions!Issue
  <2>3. \A r \in Replicas : \A e \in Sessions!Entries :
          Sessions!Revoke(r, e) => UNCHANGED <<acked, file, torn, damage>>
    BY DEF Sessions!Revoke
  <2>4. \A r \in Replicas : Sessions!AppendFindsNothing(r) => UNCHANGED <<acked, file, torn, damage>>
    BY DEF Sessions!AppendFindsNothing
  <2>5. \A r \in Replicas : Sessions!MakeDirectory(r) => UNCHANGED <<acked, file, torn, damage>>
    BY DEF Sessions!MakeDirectory
  <2> QED
    BY <1>1, <1>5, <1>6, <1>7, <1>8, <1>9, <2>1, <2>2, <2>3, <2>4, <2>5, RevocationActions

(* The revocations answered 201 that no reading of the file brings back are no *)
(* more than there were half lines left and lines cut off, whatever the        *)
(* replicas, their crashes and their failed writes (auth/revocation.ts).       *)
THEOREM RevocationLoss == Joint => []LossIsBounded
<1> DEFINE IInv == which = "revocation" => LossIInv
<1>1. JointInit => IInv
  BY LossInit DEF JointInit
<1>2. IInv /\ [JointNext]_JointVars => IInv'
  <2> SUFFICES ASSUME IInv, [JointNext]_JointVars, which' = "revocation"
               PROVE  LossIInv'
    OBVIOUS
  <2>1. which = "revocation" /\ LossIInv
    BY DEF JointNext, JointVars
  <2>2. Sessions!Next \/ UNCHANGED revocation
    BY <2>1 DEF JointNext, JointVars
  <2>3. ASSUME UNCHANGED revocation
        PROVE  LossIInv'
    BY <2>1, <2>3, LossKept, RevocationKept DEF revocation, LossIInv
  <2> QED
    BY <2>1, <2>2, <2>3, LossStep
<1>3. IInv => LossIsBounded
  <2> SUFFICES ASSUME LossIInv
               PROVE  Sessions!LossIsBounded
    BY DEF LossIsBounded
  <2>1. /\ Cardinality(Lost) + (IF torn THEN 1 ELSE 0) <= damage /\ damage \in Nat
        /\ Cardinality(Lost) \in Nat
    BY FS_Subset, FS_CardinalityType DEF LossIInv, Lost, RevocationIInv, Sessions!TypeOK
  <2>2. Cardinality(Lost) <= damage
    BY <2>1
  <2> QED
    BY <2>2, SessionsCardinality DEF Sessions!LossIsBounded, Lost
<1> QED
  BY <1>1, <1>2, <1>3, PTL DEF Joint

----------------------------------------------------------------------------
\* The login lockout, in two layers.  Whatever the interleaving: what a request is about
\* to write is short of the threshold and not in the future, the TTL covers the window of
\* what is stored, and a quiet lock is stored with a TTL past its deadline while nobody is
\* between read and write.
WriterSound(q) ==
    /\ q.at = "counting" => q.time <= now
    /\ q.at = "storing" =>
          /\ q.next.failures < MaxFailures
          /\ q.next.firstFailureAt <= now
          /\ q.next.lockedUntil <= now + MaxLockSeconds

QuietLockStored ==
    quiet /\ lastLock > now =>
        /\ entry # None /\ entry.lockedUntil = lastLock /\ entry.expiresAt > lastLock
        /\ \A a \in Attempts : login[a].at # "storing"

LockIInv ==
    /\ Lockout!TypeOK
    /\ \A a \in Attempts : WriterSound(login[a])
    /\ entry # None => entry.firstFailureAt + WindowSeconds + TtlSlack <= entry.expiresAt
    /\ QuietLockStored

\* With one login at a time, the refusals are the streaks that the entry and the request
\* under way have counted: of the first n of them, the last c lie in the window that
\* starts at first, the ones before do not come after first, and more than the length of
\* a streak before the window starts they are a window away.
StreakOf(f, n, c, first) ==
    /\ c < MaxFailures /\ c <= n
    /\ \A k \in n - c + 1 .. n : first <= f[k] /\ f[k] <= first + WindowSeconds
    /\ \A k \in 1 .. n - c : f[k] <= first
    /\ \A k \in 1 .. n - c - (MaxFailures - 1) : first - f[k] > WindowSeconds
    /\ \A i, j \in 1 .. n : j = i + 2 * (MaxFailures - 1) => f[j] - f[i] > WindowSeconds

Counted(n) ==
    IF entry = None THEN n = 0 ELSE StreakOf(failed, n, entry.failures, entry.firstFailureAt)

Pending(q) == q.at \in {"counting", "storing"}

LoginSound(q) ==
    /\ q.at = "checking" => (entry # None /\ entry.expiresAt > now => q.until = entry.lockedUntil)
    /\ q.at = "counting" =>
          /\ Len(failed) > 0 /\ failed[Len(failed)] = q.time /\ Counted(Len(failed) - 1)
          /\ entry # None => entry.firstFailureAt <= q.time
          /\ entry # None /\ entry.expiresAt > now => entry.lockedUntil <= q.time
          /\ \A k \in DOMAIN failed : failed[k] <= q.time
    /\ q.at = "storing" =>
          IF q.trips THEN q.next.failures = 0
          ELSE StreakOf(failed, Len(failed), q.next.failures, q.next.firstFailureAt)

AloneIInv ==
    alone =>
        /\ \A a, b \in Attempts : a # b => login[a].at = "idle" \/ login[b].at = "idle"
        /\ \A k \in DOMAIN failed : failed[k] <= now
        /\ \A a \in Attempts : LoginSound(login[a])
        /\ (\A a \in Attempts : ~Pending(login[a])) => Counted(Len(failed))

\* What recordFailure computes.
LEMMA PowerNat == ASSUME NEW n \in Nat PROVE 2 ^ n \in Nat
<1>1. IsFiniteSet(1 .. n) /\ Cardinality(1 .. n) = n
  <2>1. 1 \in Int /\ n \in Int
    OBVIOUS
  <2>2. IsFiniteSet(1 .. n) /\ Cardinality(1 .. n) = IF 1 > n THEN 0 ELSE n - 1 + 1
    BY <2>1, FS_Interval
  <2> QED
    BY <2>2
<1>2. IsFiniteSet(SUBSET (1 .. n)) /\ Cardinality(SUBSET (1 .. n)) = 2 ^ n
  BY <1>1, FS_SUBSET
<1> QED
  BY <1>2, FS_CardinalityType

LEMMA LockDurationIs ==
    ASSUME NEW level \in Nat
    PROVE  Lockout!LockDuration(level) \in Nat /\ Lockout!LockDuration(level) <= MaxLockSeconds
<1>1. Lockout!Larger(0, level - 1) \in Nat
  BY DEF Lockout!Larger
<1>2. BaseLockSeconds \in Nat /\ MaxLockSeconds \in Nat
  BY LockoutAssumption
<1>3. BaseLockSeconds * 2 ^ Lockout!Larger(0, level - 1) \in Nat
  <2> DEFINE x == 2 ^ Lockout!Larger(0, level - 1)
  <2>1. x \in Nat
    BY <1>1, PowerNat
  <2> HIDE DEF x
  <2>2. BaseLockSeconds * x \in Nat
    BY <1>2, <2>1
  <2> QED
    BY <2>2 DEF x
<1> QED
  BY <1>2, <1>3 DEF Lockout!LockDuration, Lockout!Smaller

OpenStreak(prev, t) == prev # None /\ t - prev.firstFailureAt <= WindowSeconds

LEMMA ContinueIs ==
    ASSUME NEW prev \in Lockout!States \cup {None}, NEW t \in Nat
    PROVE  /\ Lockout!Continue(prev, t) \in Lockout!States
           /\ OpenStreak(prev, t) =>
                 /\ Lockout!Continue(prev, t).failures = prev.failures + 1
                 /\ Lockout!Continue(prev, t).firstFailureAt = prev.firstFailureAt
                 /\ Lockout!Continue(prev, t).lockedUntil = prev.lockedUntil
           /\ ~OpenStreak(prev, t) =>
                 /\ Lockout!Continue(prev, t).failures = 1
                 /\ Lockout!Continue(prev, t).firstFailureAt = t
                 /\ Lockout!Continue(prev, t).lockedUntil = 0
<1>1. CASE OpenStreak(prev, t)
  <2>1. prev \in Lockout!States /\ Lockout!Continue(prev, t) = [prev EXCEPT !.failures = @ + 1]
    BY <1>1 DEF Lockout!Continue, OpenStreak
  <2> QED
    BY <1>1, <2>1 DEF Lockout!States
<1>2. CASE ~OpenStreak(prev, t)
  <2> DEFINE level == IF prev = None THEN 0 ELSE prev.lockLevel
  <2>1. level \in Nat
    BY DEF Lockout!States
  <2>2. Lockout!Continue(prev, t) =
          [failures |-> 1, firstFailureAt |-> t, lockedUntil |-> 0, expiresAt |-> t, lockLevel |-> level]
    BY <1>2 DEF Lockout!Continue, OpenStreak
  <2> HIDE DEF level
  <2> QED
    BY <1>2, <2>1, <2>2 DEF Lockout!States
<1> QED
  BY <1>1, <1>2

Tripped(c, t, level, deadline) ==
    [c EXCEPT !.failures = 0, !.firstFailureAt = t, !.lockLevel = level, !.lockedUntil = deadline]

LEMMA TripIs ==
    ASSUME NEW c \in Lockout!States, NEW t \in Nat, NEW level \in Nat, NEW deadline \in Nat
    PROVE  /\ Tripped(c, t, level, deadline) \in Lockout!States
           /\ Tripped(c, t, level, deadline).failures = 0
           /\ Tripped(c, t, level, deadline).firstFailureAt = t
           /\ Tripped(c, t, level, deadline).lockedUntil = deadline
BY DEF Tripped, Lockout!States

LEMMA AfterFailureIs ==
    ASSUME NEW prev \in Lockout!States \cup {None}, NEW t \in Nat
    PROVE  /\ Lockout!AfterFailure(prev, t) \in Lockout!States
           /\ Lockout!Trips(Lockout!Continue(prev, t)) =>
                 /\ Lockout!AfterFailure(prev, t).failures = 0
                 /\ Lockout!AfterFailure(prev, t).firstFailureAt = t
                 /\ Lockout!AfterFailure(prev, t).lockedUntil <= t + MaxLockSeconds
           /\ ~Lockout!Trips(Lockout!Continue(prev, t)) =>
                 /\ Lockout!AfterFailure(prev, t) = Lockout!Continue(prev, t)
                 /\ Lockout!Continue(prev, t).failures < MaxFailures
<1> DEFINE c == Lockout!Continue(prev, t)
           l == Lockout!LockDuration(c.lockLevel + 1)
<1>1. c \in Lockout!States
  BY ContinueIs
<1>2. l \in Nat /\ l <= MaxLockSeconds /\ MaxLockSeconds \in Nat /\ MaxFailures \in Nat
  BY <1>1, LockDurationIs, LockoutAssumption DEF Lockout!States
<1>3. CASE Lockout!Trips(c)
  <2>1. Lockout!AfterFailure(prev, t) = Tripped(c, t, c.lockLevel + 1, t + l)
    BY <1>3 DEF Lockout!AfterFailure, Lockout!Trip, Tripped
  <2> HIDE DEF c, l
  <2>2. t + l \in Nat /\ t + l <= t + MaxLockSeconds
    BY <1>2
  <2> DEFINE f == Lockout!AfterFailure(prev, t)
  <2>3. f \in Lockout!States /\ f.failures = 0 /\ f.firstFailureAt = t /\ f.lockedUntil = t + l
    <3>1. c \in Lockout!States
      BY <1>1 DEF c
    <3>2. PICK level \in Nat : level = c.lockLevel + 1
      BY <3>1 DEF Lockout!States
    <3>3. PICK d \in Nat : d = t + l
      BY <2>2
    <3>4. f = Tripped(c, t, level, d)
      BY <2>1, <3>2, <3>3
    <3>5. /\ Tripped(c, t, level, d) \in Lockout!States
          /\ Tripped(c, t, level, d).failures = 0
          /\ Tripped(c, t, level, d).firstFailureAt = t
          /\ Tripped(c, t, level, d).lockedUntil = d
      BY <3>1, TripIs
    <3> QED
      BY <3>3, <3>4, <3>5
  <2> HIDE DEF f
  <2>4. Lockout!Trips(c)
    BY <1>3 DEF c
  <2> QED
    BY <2>2, <2>3, <2>4 DEF f, c
<1>4. CASE ~Lockout!Trips(c)
  <2>1. Lockout!AfterFailure(prev, t) = c /\ c.failures < MaxFailures
    BY <1>1, <1>2, <1>4 DEF Lockout!AfterFailure, Lockout!Trips, Lockout!States
  <2> QED
    BY <1>1, <1>4, <2>1
<1> QED
  BY <1>3, <1>4

LEMMA LockTypes ==
    ASSUME Lockout!TypeOK
    PROVE  /\ now \in Nat /\ lastLock \in Nat /\ failed \in Seq(Nat) /\ Len(failed) \in Nat
           /\ DOMAIN failed = 1 .. Len(failed) /\ \A k \in 1 .. Len(failed) : failed[k] \in Nat
           /\ entry # None => /\ entry.failures \in Nat /\ entry.firstFailureAt \in Nat
                              /\ entry.lockedUntil \in Nat /\ entry.expiresAt \in Nat
           /\ Lockout!StoreGet \in Lockout!States \cup {None}
           /\ MaxFailures \in Nat \ {0} /\ WindowSeconds \in Nat \ {0} /\ MaxLockSeconds \in Nat \ {0}
           /\ TtlSlack \in Nat \ {0} /\ Lockout!Ttl \in Nat
           /\ WindowSeconds + TtlSlack <= Lockout!Ttl /\ MaxLockSeconds < Lockout!Ttl
<1>1. MaxFailures \in Nat \ {0} /\ WindowSeconds \in Nat \ {0} /\ MaxLockSeconds \in Nat \ {0}
      /\ TtlSlack \in Nat \ {0}
  BY LockoutAssumption
<1>2. /\ Lockout!Ttl \in Nat
      /\ WindowSeconds + TtlSlack <= Lockout!Ttl /\ MaxLockSeconds < Lockout!Ttl
  BY <1>1 DEF Lockout!Ttl, Lockout!Larger
<1>3. /\ entry # None => entry \in Lockout!States
      /\ Lockout!StoreGet \in Lockout!States \cup {None}
  BY DEF Lockout!TypeOK, Lockout!StoreGet
<1> QED
  BY <1>1, <1>2, <1>3 DEF Lockout!TypeOK, Lockout!States

LEMMA SlotTypes ==
    ASSUME NEW q \in Lockout!LoginStates
    PROVE  /\ q.at \in {"idle", "clearing", "checking", "counting", "storing"}
           /\ q.at = "checking" => q.until \in Nat
           /\ q.at = "counting" => q.time \in Nat
           /\ q.at = "storing" => q.next \in Lockout!States /\ q.trips \in BOOLEAN
BY DEF Lockout!LoginStates, Lockout!Idle

\* One slot moves, the others stay.
LEMMA SlotMoves ==
    ASSUME Lockout!TypeOK, NEW a \in Attempts, NEW q \in Lockout!LoginStates,
           login' = [login EXCEPT ![a] = q]
    PROVE  /\ login' \in [Attempts -> Lockout!LoginStates] /\ login'[a] = q
           /\ \A b \in Attempts : b # a => login'[b] = login[b]
BY DEF Lockout!TypeOK

LEMMA LockInit == Lockout!Init => LockIInv /\ AloneIInv
<1> SUFFICES ASSUME Lockout!Init
             PROVE  LockIInv /\ AloneIInv
  OBVIOUS
<1>1. /\ now = 1 /\ entry = None /\ failed = <<>> /\ lastLock = 0 /\ quiet = TRUE /\ alone = TRUE
      /\ login = [a \in Attempts |-> Lockout!Idle]
  BY DEF Lockout!Init
<1>2. ASSUME NEW a \in Attempts
      PROVE  login[a].at = "idle" /\ login[a] \in Lockout!LoginStates
  <2>1. Lockout!Idle \in Lockout!LoginStates
    BY DEF Lockout!LoginStates
  <2>2. Lockout!Idle.at = "idle"
    BY DEF Lockout!Idle
  <2> QED
    BY <1>1, <2>1, <2>2
<1>3. login \in [Attempts -> Lockout!LoginStates]
  BY <1>1, <1>2
<1>4. Lockout!TypeOK
  BY <1>1, <1>3 DEF Lockout!TypeOK
<1>5. ASSUME NEW a \in Attempts
      PROVE  WriterSound(login[a]) /\ LoginSound(login[a]) /\ ~Pending(login[a])
  <2>1. login[a].at # "checking" /\ login[a].at # "counting" /\ login[a].at # "storing"
    BY <1>2
  <2> QED
    BY <2>1, Zenon DEF WriterSound, LoginSound, Pending
<1>6. QuietLockStored
  BY <1>1 DEF QuietLockStored
<1>7. AloneIInv
  BY <1>1, <1>2, <1>5 DEF AloneIInv, Counted
<1> QED
  BY <1>1, <1>4, <1>5, <1>6, <1>7 DEF LockIInv

----------------------------------------------------------------------------
\* A step that moves a request and leaves the store alone.
LEMMA LockSlotStep ==
    ASSUME LockIInv, NEW a \in Attempts, NEW q \in Lockout!LoginStates,
           login' = [login EXCEPT ![a] = q], UNCHANGED <<now, entry, lastLock, quiet>>,
           failed' \in Seq(Nat), alone' \in BOOLEAN, WriterSound(q),
           quiet /\ lastLock > now => q.at # "storing"
    PROVE  LockIInv'
<1>1. Lockout!TypeOK
  BY DEF LockIInv
<1>2. /\ login' \in [Attempts -> Lockout!LoginStates] /\ login'[a] = q
      /\ \A b \in Attempts : b # a => login'[b] = login[b]
  BY <1>1, SlotMoves
<1>3. Lockout!TypeOK'
  BY <1>1, <1>2 DEF Lockout!TypeOK
<1>4. ASSUME NEW b \in Attempts
      PROVE  WriterSound(login[b])'
  BY <1>2 DEF LockIInv, WriterSound
<1>5. QuietLockStored'
  BY <1>2 DEF LockIInv, QuietLockStored
<1> QED
  BY <1>3, <1>4, <1>5 DEF LockIInv

\* Locks set as the present is: those that end no later than the read do not stop it.
LEMMA LockStep == LockIInv /\ Lockout!Next => LockIInv'
<1> SUFFICES ASSUME LockIInv, Lockout!Next
             PROVE  LockIInv'
  OBVIOUS
<1>1. Lockout!TypeOK
  BY DEF LockIInv
<1>2. /\ alone \in BOOLEAN /\ quiet \in BOOLEAN /\ failed \in Seq(Nat)
      /\ now \in Nat /\ lastLock \in Nat
      /\ MaxFailures \in Nat \ {0} /\ WindowSeconds \in Nat \ {0} /\ MaxLockSeconds \in Nat \ {0}
      /\ TtlSlack \in Nat \ {0} /\ Lockout!Ttl \in Nat
      /\ WindowSeconds + TtlSlack <= Lockout!Ttl /\ MaxLockSeconds < Lockout!Ttl
      /\ entry # None => /\ entry.failures \in Nat /\ entry.firstFailureAt \in Nat
                         /\ entry.lockedUntil \in Nat /\ entry.expiresAt \in Nat
  BY <1>1, LockTypes DEF Lockout!TypeOK
<1>3. Lockout!Idle \in Lockout!LoginStates /\ Lockout!Idle.at = "idle" /\ WriterSound(Lockout!Idle)
  BY DEF Lockout!LoginStates, Lockout!Idle, WriterSound
<1>4. CASE Lockout!Advance
  <2>1. now' = now + 1 /\ UNCHANGED <<entry, login, failed, lastLock, quiet, alone>>
    BY <1>4 DEF Lockout!Advance, Lockout!Tick
  <2>2. Lockout!TypeOK'
    BY <1>1, <2>1, LockTypes DEF Lockout!TypeOK
  <2>3. ASSUME NEW a \in Attempts
        PROVE  WriterSound(login[a])'
    <3>1. login[a] \in Lockout!LoginStates /\ WriterSound(login[a])
      BY <1>1 DEF LockIInv, Lockout!TypeOK
    <3>2. login[a].at = "storing" =>
            login[a].next.failures \in Nat /\ login[a].next.firstFailureAt \in Nat
            /\ login[a].next.lockedUntil \in Nat
      BY <3>1, SlotTypes DEF Lockout!States
    <3>3. login[a].at = "counting" => login[a].time \in Nat
      BY <3>1, SlotTypes
    <3> QED
      BY <1>1, <1>2, <2>1, <3>1, <3>2, <3>3 DEF WriterSound
  <2>4. QuietLockStored'
    BY <1>1, <1>2, <2>1 DEF LockIInv, QuietLockStored
  <2> QED
    BY <2>1, <2>2, <2>3, <2>4 DEF LockIInv
<1>5. ASSUME NEW a \in Attempts, Lockout!Look(a)
      PROVE  LockIInv'
  <2> DEFINE q == [at |-> "checking", until |-> Lockout!Deadline(Lockout!StoreGet)]
  <2>1. /\ login' = [login EXCEPT ![a] = q] /\ UNCHANGED <<now, entry, failed, lastLock, quiet>>
        /\ alone' \in BOOLEAN
    BY <1>5 DEF Lockout!Look
  <2>2. Lockout!Deadline(Lockout!StoreGet) \in Nat
    BY <1>1, LockTypes DEF Lockout!Deadline, Lockout!States
  <2>3. q \in Lockout!LoginStates /\ q.at = "checking"
    BY <2>2 DEF Lockout!LoginStates
  <2> HIDE DEF q
  <2>4. WriterSound(q)
    BY <2>3 DEF WriterSound
  <2> QED
    BY <1>2, <2>1, <2>3, <2>4, LockSlotStep
<1>6. ASSUME NEW a \in Attempts, Lockout!TurnAway(a)
      PROVE  LockIInv'
  <2>1. login' = [login EXCEPT ![a] = Lockout!Idle] /\ UNCHANGED <<now, entry, failed, lastLock, quiet, alone>>
    BY <1>6 DEF Lockout!TurnAway
  <2> QED
    BY <1>2, <1>3, <2>1, LockSlotStep
<1>7. ASSUME NEW a \in Attempts, Lockout!Accept(a)
      PROVE  LockIInv'
  <2> DEFINE q == [at |-> "clearing"]
  <2>1. login' = [login EXCEPT ![a] = q] /\ UNCHANGED <<now, entry, failed, lastLock, quiet, alone>>
    BY <1>7 DEF Lockout!Accept
  <2>2. q \in Lockout!LoginStates /\ q.at = "clearing"
    BY DEF Lockout!LoginStates
  <2> HIDE DEF q
  <2>3. WriterSound(q)
    BY <2>2 DEF WriterSound
  <2> QED
    BY <1>2, <2>1, <2>2, <2>3, LockSlotStep
<1>8. ASSUME NEW a \in Attempts, Lockout!Reject(a)
      PROVE  LockIInv'
  <2> DEFINE q == [at |-> "counting", time |-> now]
  <2>1. login' = [login EXCEPT ![a] = q] /\ UNCHANGED <<now, entry, lastLock, quiet, alone>>
        /\ failed' = Append(failed, now)
    BY <1>8 DEF Lockout!Reject
  <2>2. q \in Lockout!LoginStates /\ q.at = "counting" /\ q.time = now
    BY <1>2 DEF Lockout!LoginStates
  <2> HIDE DEF q
  <2>3. WriterSound(q)
    BY <1>2, <2>2 DEF WriterSound
  <2>4. failed' \in Seq(Nat)
    BY <1>2, <2>1
  <2> QED
    BY <1>2, <2>1, <2>2, <2>3, <2>4, LockSlotStep
<1>9. ASSUME NEW a \in Attempts, Lockout!ReadStreak(a)
      PROVE  LockIInv'
  <2> DEFINE t == login[a].time
             g == Lockout!StoreGet
             c == Lockout!Continue(g, t)
             f == Lockout!AfterFailure(g, t)
             q == [at |-> "storing", next |-> f, trips |-> Lockout!Trips(c)]
  <2>1. /\ login[a].at = "counting" /\ UNCHANGED <<now, entry, failed, lastLock, quiet>>
        /\ login' = [login EXCEPT ![a] = IF Lockout!Locked(g, t) THEN Lockout!Idle ELSE q]
        /\ alone' \in BOOLEAN
    BY <1>9 DEF Lockout!ReadStreak, Lockout!At
  <2>2. CASE Lockout!Locked(g, t)
    BY <1>2, <1>3, <2>1, <2>2, LockSlotStep
  <2>3. CASE ~Lockout!Locked(g, t)
    <3>1. t \in Nat /\ t <= now /\ g \in Lockout!States \cup {None} /\ (g = entry \/ g = None)
      <4>1. login[a] \in Lockout!LoginStates /\ WriterSound(login[a])
        BY <1>1 DEF LockIInv, Lockout!TypeOK
      <4> QED
        BY <1>1, <2>1, <4>1, SlotTypes, LockTypes DEF WriterSound, Lockout!StoreGet
    <3>2. /\ f \in Lockout!States
          /\ Lockout!Trips(c) => f.failures = 0 /\ f.firstFailureAt = t /\ f.lockedUntil <= t + MaxLockSeconds
          /\ ~Lockout!Trips(c) => f = c /\ c.failures < MaxFailures
      BY <3>1, AfterFailureIs
    <3>3. /\ OpenStreak(g, t) => c.firstFailureAt = g.firstFailureAt /\ c.lockedUntil = g.lockedUntil
          /\ ~OpenStreak(g, t) => c.firstFailureAt = t /\ c.lockedUntil = 0
      BY <3>1, ContinueIs
    <3>4. g # None => /\ g.firstFailureAt <= now /\ g.lockedUntil <= now + MaxLockSeconds
      BY <1>1, <3>1 DEF Lockout!TypeOK
    <3>5. q.at = "storing" /\ q.next = f /\ q.trips = Lockout!Trips(c)
      OBVIOUS
    <3>6. Lockout!Trips(c) \in BOOLEAN
      BY DEF Lockout!Trips
    <3>7. q \in Lockout!LoginStates
      BY <3>2, <3>6 DEF Lockout!LoginStates
    <3>8. /\ f.failures \in Nat /\ f.firstFailureAt \in Nat /\ f.lockedUntil \in Nat
      BY <3>2 DEF Lockout!States
    <3> HIDE DEF f, c, q
    <3>9. f.failures < MaxFailures /\ f.firstFailureAt <= now /\ f.lockedUntil <= now + MaxLockSeconds
      <4>1. CASE Lockout!Trips(c)
        <5>1. f.failures = 0 /\ f.firstFailureAt = t /\ f.lockedUntil <= t + MaxLockSeconds
          BY <3>2, <4>1
        <5>2. t \in Nat /\ t <= now
          BY <3>1
        <5> HIDE DEF t
        <5> QED
          BY <1>2, <3>8, <5>1, <5>2
      <4>2. CASE ~Lockout!Trips(c)
        <5>1. f = c /\ f.failures < MaxFailures
          BY <3>2, <4>2
        <5>2. CASE OpenStreak(g, t)
          BY <3>3, <3>4, <5>1, <5>2 DEF OpenStreak
        <5>3. CASE ~OpenStreak(g, t)
          <6>1. f.firstFailureAt = t /\ f.lockedUntil = 0
            BY <3>3, <5>1, <5>3
          <6> QED
            BY <1>2, <3>1, <5>1, <6>1
        <5> QED
          BY <5>2, <5>3
      <4> QED
        BY <4>1, <4>2
    <3>10. WriterSound(q)
      BY <3>5, <3>9 DEF WriterSound
    <3>11. quiet /\ lastLock > now => FALSE
      <4> SUFFICES ASSUME quiet, lastLock > now
                   PROVE  FALSE
        OBVIOUS
      <4>1. entry # None /\ entry.lockedUntil = lastLock /\ entry.expiresAt > lastLock
        BY DEF LockIInv, QuietLockStored
      <4>2. entry.expiresAt > now
        BY <1>1, <1>2, <4>1
      <4>3. g = entry
        BY <4>1, <4>2 DEF Lockout!StoreGet
      <4>4. entry.lockedUntil > t
        BY <1>1, <1>2, <3>1, <4>1
      <4> QED
        BY <2>3, <4>1, <4>3, <4>4 DEF Lockout!Locked, Lockout!Deadline
    <3>12. login' = [login EXCEPT ![a] = q]
      BY <2>1, <2>3
    <3> QED
      BY <1>2, <2>1, <3>7, <3>10, <3>11, <3>12, LockSlotStep
  <2> QED
    BY <2>2, <2>3
<1>10. ASSUME NEW a \in Attempts, Lockout!WriteStreak(a)
       PROVE  LockIInv'
  <2> DEFINE f == login[a].next
  <2>1. /\ login[a].at = "storing" /\ entry' = [f EXCEPT !.expiresAt = now + Lockout!Ttl]
        /\ login' = [login EXCEPT ![a] = Lockout!Idle]
        /\ login[a].trips => /\ lastLock' = entry'.lockedUntil /\ failed' = <<>>
                             /\ quiet' = \A b \in Attempts \ {a} : login[b].at # "storing"
        /\ ~login[a].trips => UNCHANGED <<lastLock, quiet, failed>>
        /\ UNCHANGED <<now, alone>>
    BY <1>10 DEF Lockout!WriteStreak, Lockout!At
  <2>2. login[a] \in Lockout!LoginStates /\ WriterSound(login[a])
    BY <1>1 DEF LockIInv, Lockout!TypeOK
  <2>3. f \in Lockout!States /\ login[a].trips \in BOOLEAN
    BY <2>1, <2>2, SlotTypes
  <2>4. /\ f.failures < MaxFailures /\ f.firstFailureAt <= now
        /\ f.lockedUntil <= now + MaxLockSeconds
    BY <2>1, <2>2 DEF WriterSound
  <2> HIDE DEF f
  <2>5. now + Lockout!Ttl \in Nat
    BY <1>1, LockTypes
  <2>6. /\ entry' \in Lockout!States /\ entry'.expiresAt = now + Lockout!Ttl
        /\ entry'.failures = f.failures /\ entry'.firstFailureAt = f.firstFailureAt
        /\ entry'.lockedUntil = f.lockedUntil /\ f.firstFailureAt \in Nat /\ f.lockedUntil \in Nat
    BY <2>1, <2>3, <2>5 DEF Lockout!States
  <2>7. entry' # None
    BY <2>6, LockoutAssumption DEF Lockout!States
  <2>8. /\ login' \in [Attempts -> Lockout!LoginStates] /\ login'[a] = Lockout!Idle
        /\ \A b \in Attempts : b # a => login'[b] = login[b]
    BY <1>1, <1>3, <2>1, SlotMoves
  <2>9. quiet' \in BOOLEAN /\ lastLock' \in Nat /\ failed' \in Seq(Nat)
    <3>1. CASE login[a].trips
      BY <2>1, <2>6, <3>1
    <3>2. CASE ~login[a].trips
      BY <1>1, <1>2, <2>1, <3>2
    <3> QED
      BY <3>1, <3>2
  <2>10. Lockout!TypeOK'
    BY <1>1, <2>1, <2>4, <2>6, <2>8, <2>9 DEF Lockout!TypeOK
  <2>11. ASSUME NEW b \in Attempts
         PROVE  WriterSound(login[b])'
    <3>1. CASE b = a
      BY <1>3, <2>8, <3>1 DEF WriterSound
    <3>2. CASE b # a
      BY <2>1, <2>8, <3>2 DEF LockIInv, WriterSound
    <3> QED
      BY <3>1, <3>2
  <2>12. entry'.firstFailureAt + WindowSeconds + TtlSlack <= entry'.expiresAt
    BY <1>1, <1>2, <2>4, <2>6
  <2>13. QuietLockStored'
    <3>1. CASE login[a].trips
      <4>1. lastLock' = entry'.lockedUntil /\ entry'.expiresAt > lastLock'
        BY <1>1, <1>2, <2>1, <2>4, <2>6, <3>1
      <4>2. quiet' => \A b \in Attempts : login'[b].at # "storing"
        BY <1>3, <2>1, <2>8, <3>1
      <4> QED
        BY <2>7, <4>1, <4>2 DEF QuietLockStored
    <3>2. CASE ~login[a].trips
      <4>1. ~(quiet' /\ lastLock' > now')
        BY <2>1, <3>2 DEF LockIInv, QuietLockStored
      <4> QED
        BY <4>1 DEF QuietLockStored
    <3> QED
      BY <2>3, <3>1, <3>2
  <2> QED
    BY <2>7, <2>10, <2>11, <2>12, <2>13 DEF LockIInv
<1>11. ASSUME NEW a \in Attempts, Lockout!Clear(a)
       PROVE  LockIInv'
  <2>1. /\ entry' = None /\ login' = [login EXCEPT ![a] = Lockout!Idle] /\ failed' = <<>> /\ lastLock' = 0
        /\ UNCHANGED <<now, quiet, alone>>
    BY <1>11 DEF Lockout!Clear
  <2>2. /\ login' \in [Attempts -> Lockout!LoginStates] /\ login'[a] = Lockout!Idle
        /\ \A b \in Attempts : b # a => login'[b] = login[b]
    BY <1>1, <1>3, <2>1, SlotMoves
  <2>3. Lockout!TypeOK'
    BY <1>1, <2>1, <2>2 DEF Lockout!TypeOK
  <2>4. ASSUME NEW b \in Attempts
        PROVE  WriterSound(login[b])'
    <3>1. CASE b = a
      BY <1>3, <2>2, <3>1 DEF WriterSound
    <3>2. CASE b # a
      BY <2>1, <2>2, <3>2 DEF LockIInv, WriterSound
    <3> QED
      BY <3>1, <3>2
  <2>5. QuietLockStored'
    BY <1>2, <2>1 DEF QuietLockStored
  <2> QED
    BY <2>1, <2>3, <2>4, <2>5 DEF LockIInv
<1> QED
  BY <1>4, <1>5, <1>6, <1>7, <1>8, <1>9, <1>10, <1>11 DEF Lockout!Next

\* How a streak grows, and how the next one starts.
TimesTo(f, n) == n \in Nat /\ \A k \in 1 .. n : f[k] \in Nat

LEMMA StreakPrefix ==
    ASSUME NEW f, NEW g, NEW n \in Nat, NEW c \in Nat, NEW first \in Nat,
           StreakOf(f, n, c, first), \A k \in 1 .. n : g[k] = f[k]
    PROVE  StreakOf(g, n, c, first)
<1>1. MaxFailures \in Nat \ {0}
  BY LockoutAssumption
<1>2. /\ \A k \in n - c + 1 .. n : k \in 1 .. n
      /\ \A k \in 1 .. n - c : k \in 1 .. n
      /\ \A k \in 1 .. n - c - (MaxFailures - 1) : k \in 1 .. n
  BY <1>1 DEF StreakOf
<1> QED
  BY <1>2, Zenon DEF StreakOf

LEMMA StreakGoes ==
    ASSUME NEW f, NEW n \in Nat, NEW c \in Nat, NEW first \in Nat, TimesTo(f, n + 1),
           StreakOf(f, n, c, first), c + 1 < MaxFailures,
           first <= f[n + 1], f[n + 1] <= first + WindowSeconds
    PROVE  StreakOf(f, n + 1, c + 1, first)
<1>1. MaxFailures \in Nat \ {0} /\ WindowSeconds \in Nat
  BY LockoutAssumption
<1>2. c <= n /\ c + 1 <= n + 1 /\ n + 1 - (c + 1) = n - c
  BY DEF StreakOf
<1>3. \A k \in n - c + 1 .. n + 1 : first <= f[k] /\ f[k] <= first + WindowSeconds
  BY DEF StreakOf
<1>4. ASSUME NEW i \in 1 .. n + 1, NEW j \in 1 .. n + 1, j = i + 2 * (MaxFailures - 1)
      PROVE  f[j] - f[i] > WindowSeconds
  <2>1. CASE j = n + 1
    <3>1. i \in 1 .. n - c - (MaxFailures - 1)
      BY <1>1, <1>2, <1>4, <2>1
    <3>2. first - f[i] > WindowSeconds
      BY <3>1 DEF StreakOf
    <3>3. f[i] \in Nat /\ f[j] \in Nat
      BY DEF TimesTo
    <3> QED
      BY <1>1, <2>1, <3>2, <3>3
  <2>2. CASE j # n + 1
    <3>1. i \in 1 .. n /\ j \in 1 .. n
      BY <1>1, <1>4, <2>2
    <3> QED
      BY <1>4, <3>1 DEF StreakOf
  <2> QED
    BY <2>1, <2>2
<1>5. /\ \A k \in 1 .. n - c : f[k] <= first
      /\ \A k \in 1 .. n - c - (MaxFailures - 1) : first - f[k] > WindowSeconds
  BY DEF StreakOf
<1>6. n + 1 - (c + 1) = n - c /\ n + 1 - (c + 1) + 1 = n - c + 1
  OBVIOUS
<1> QED
  BY <1>2, <1>3, <1>4, <1>5, <1>6 DEF StreakOf

LEMMA StreakRestarts ==
    ASSUME NEW f, NEW n \in Nat, NEW c \in Nat, NEW first \in Nat, TimesTo(f, n + 1),
           n = 0 \/ (StreakOf(f, n, c, first) /\ f[n + 1] - first > WindowSeconds),
           1 < MaxFailures, \A k \in 1 .. n : f[k] <= f[n + 1]
    PROVE  StreakOf(f, n + 1, 1, f[n + 1])
<1> DEFINE t == f[n + 1]
<1>1. MaxFailures \in Nat \ {0} /\ WindowSeconds \in Nat /\ t \in Nat
  BY LockoutAssumption DEF TimesTo
<1>2. ASSUME NEW k \in 1 .. n - (MaxFailures - 1)
      PROVE  t - f[k] > WindowSeconds
  <2>1. StreakOf(f, n, c, first) /\ t - first > WindowSeconds
    BY <1>1
  <2>2. k \in 1 .. n - c /\ k \in 1 .. n + 1
    BY <1>1, <2>1 DEF StreakOf
  <2>3. f[k] <= first /\ f[k] \in Nat
    BY <2>1, <2>2 DEF StreakOf, TimesTo
  <2> HIDE DEF t
  <2> QED
    BY <1>1, <2>1, <2>3
<1>3. ASSUME NEW i \in 1 .. n + 1, NEW j \in 1 .. n + 1, j = i + 2 * (MaxFailures - 1)
      PROVE  f[j] - f[i] > WindowSeconds
  <2>1. CASE j = n + 1
    <3>1. i \in 1 .. n - (MaxFailures - 1)
      BY <1>1, <1>3, <2>1
    <3> QED
      BY <1>2, <2>1, <3>1
  <2>2. CASE j # n + 1
    <3>1. i \in 1 .. n /\ j \in 1 .. n
      BY <1>1, <1>3, <2>2
    <3> QED
      BY <1>3, <3>1 DEF StreakOf
  <2> QED
    BY <2>1, <2>2
<1>4. /\ n + 1 - 1 = n /\ n + 1 - 1 + 1 = n + 1 /\ 1 <= n + 1
      /\ \A k \in n + 1 .. n + 1 : k = n + 1
      /\ t <= t /\ t <= t + WindowSeconds
  BY <1>1
<1>5. \A k \in n + 1 .. n + 1 : t <= f[k] /\ f[k] <= t + WindowSeconds
  BY <1>4
<1>6. n + 1 - 1 - (MaxFailures - 1) = n - (MaxFailures - 1)
  BY <1>1
<1> HIDE DEF t
<1>7. \A k \in 1 .. n : f[k] <= t
  BY DEF t
<1>8. StreakOf(f, n + 1, 1, t)
  BY <1>2, <1>3, <1>4, <1>5, <1>6, <1>7 DEF StreakOf
<1> QED
  BY <1>8 DEF t

\* With one login at a time, a request that moves finds the others idle.
LEMMA AloneMoves ==
    ASSUME LockIInv, AloneIInv, alone, NEW a \in Attempts, NEW q \in Lockout!LoginStates,
           login' = [login EXCEPT ![a] = q],
           login[a].at # "idle" \/ \A b \in Attempts : login[b].at = "idle"
    PROVE  /\ login'[a] = q
           /\ \A b \in Attempts : b # a => login'[b].at = "idle" /\ login[b].at = "idle"
           /\ \A b, c \in Attempts : b # c => login'[b].at = "idle" \/ login'[c].at = "idle"
           /\ ~Pending(login[a]) => Counted(Len(failed))
<1>1. Lockout!TypeOK
  BY DEF LockIInv
<1>2. /\ login'[a] = q
      /\ \A b \in Attempts : b # a => login'[b] = login[b]
  BY <1>1, SlotMoves
<1>3. \A b \in Attempts : b # a => login[b].at = "idle"
  BY DEF AloneIInv
<1>4. ~Pending(login[a]) => Counted(Len(failed))
  BY <1>3 DEF AloneIInv, Pending
<1> QED
  BY <1>2, <1>3, <1>4

LEMMA IdleSound ==
    ASSUME NEW q, q.at \in {"idle", "clearing"}
    PROVE  LoginSound(q)
BY DEF LoginSound

\* Requests that leave the store and the refusals alone and are not about to write.
LEMMA AloneQuietStep ==
    ASSUME LockIInv, AloneIInv, alone, NEW a \in Attempts, NEW q \in Lockout!LoginStates,
           login' = [login EXCEPT ![a] = q], UNCHANGED <<now, entry, failed>>,
           login[a].at # "idle" \/ \A b \in Attempts : login[b].at = "idle",
           ~Pending(login[a]), LoginSound(q)
    PROVE  AloneIInv'
<1>1. /\ login'[a] = q /\ Counted(Len(failed))
      /\ \A b \in Attempts : b # a => login'[b].at = "idle"
      /\ \A b, c \in Attempts : b # c => login'[b].at = "idle" \/ login'[c].at = "idle"
  BY AloneMoves
<1>2. Counted(Len(failed))'
  BY <1>1 DEF Counted, StreakOf
<1>3. ASSUME NEW b \in Attempts
      PROVE  LoginSound(login[b])'
  <2>1. CASE b = a
    BY <1>1, <2>1 DEF LoginSound, Counted, StreakOf
  <2>2. CASE b # a
    BY <1>1, <2>2 DEF LoginSound
  <2> QED
    BY <2>1, <2>2
<1>4. \A k \in DOMAIN failed' : failed'[k] <= now'
  BY DEF AloneIInv
<1> QED
  BY <1>1, <1>2, <1>3, <1>4 DEF AloneIInv

LEMMA AloneStep == LockIInv /\ AloneIInv /\ Lockout!Next => AloneIInv'
<1> SUFFICES ASSUME LockIInv, AloneIInv, Lockout!Next, alone'
             PROVE  AloneIInv'
  BY DEF AloneIInv
<1>1. Lockout!TypeOK /\ Lockout!TypeOK'
  BY LockStep DEF LockIInv
<1>2. /\ alone \in BOOLEAN /\ failed \in Seq(Nat) /\ Len(failed) \in Nat
      /\ DOMAIN failed = 1 .. Len(failed) /\ (\A k \in 1 .. Len(failed) : failed[k] \in Nat)
      /\ now \in Nat
      /\ MaxFailures \in Nat \ {0} /\ WindowSeconds \in Nat \ {0} /\ TtlSlack \in Nat \ {0}
      /\ entry # None => /\ entry.failures \in Nat /\ entry.firstFailureAt \in Nat
                         /\ entry.lockedUntil \in Nat /\ entry.expiresAt \in Nat
                         /\ entry.firstFailureAt <= now
                         /\ entry.firstFailureAt + WindowSeconds + TtlSlack <= entry.expiresAt
  BY <1>1, LockTypes DEF Lockout!TypeOK, LockIInv
<1>3. Lockout!Idle \in Lockout!LoginStates /\ Lockout!Idle.at = "idle" /\ LoginSound(Lockout!Idle)
  <2>1. Lockout!Idle \in Lockout!LoginStates /\ Lockout!Idle.at = "idle"
    BY DEF Lockout!LoginStates, Lockout!Idle
  <2> QED
    BY <2>1, IdleSound
<1>4. CASE Lockout!Advance
  <2>1. now' = now + 1 /\ UNCHANGED <<entry, login, failed, lastLock, quiet, alone>>
    BY <1>4 DEF Lockout!Advance, Lockout!Tick
  <2>2. \A k \in DOMAIN failed' : failed'[k] <= now'
    BY <1>2, <2>1 DEF AloneIInv
  <2>3. ASSUME NEW a \in Attempts
        PROVE  LoginSound(login[a])'
    <3>1. LoginSound(login[a])
      BY <2>1 DEF AloneIInv
    <3>2. entry # None /\ entry.expiresAt > now' => entry.expiresAt > now
      BY <1>2, <2>1
    <3> QED
      BY <2>1, <3>1, <3>2 DEF LoginSound, Counted, StreakOf
  <2>4. (\A a \in Attempts : ~Pending(login[a])') => Counted(Len(failed))'
    BY <2>1 DEF AloneIInv, Counted, StreakOf, Pending
  <2> QED
    BY <2>1, <2>2, <2>3, <2>4 DEF AloneIInv
<1>5. ASSUME NEW a \in Attempts, Lockout!Look(a)
      PROVE  AloneIInv'
  <2> DEFINE q == [at |-> "checking", until |-> Lockout!Deadline(Lockout!StoreGet)]
  <2>1. /\ login' = [login EXCEPT ![a] = q] /\ UNCHANGED <<now, entry, failed, lastLock, quiet>>
        /\ alone /\ \A b \in Attempts : login[b].at = "idle"
    BY <1>5 DEF Lockout!Look, Lockout!At
  <2>2. Lockout!Deadline(Lockout!StoreGet) \in Nat
    BY <1>1, LockTypes DEF Lockout!Deadline, Lockout!States
  <2>3. q \in Lockout!LoginStates /\ q.at = "checking" /\ q.until = Lockout!Deadline(Lockout!StoreGet)
    BY <2>2 DEF Lockout!LoginStates
  <2> HIDE DEF q
  <2>4. entry # None /\ entry.expiresAt > now => q.until = entry.lockedUntil
    BY <2>3 DEF Lockout!Deadline, Lockout!StoreGet
  <2>5. LoginSound(q)
    BY <2>3, <2>4 DEF LoginSound
  <2>6. ~Pending(login[a])
    BY <2>1 DEF Pending
  <2> QED
    BY <2>1, <2>3, <2>5, <2>6, AloneQuietStep
<1>6. ASSUME NEW a \in Attempts, Lockout!TurnAway(a)
      PROVE  AloneIInv'
  <2>1. /\ login' = [login EXCEPT ![a] = Lockout!Idle] /\ UNCHANGED <<now, entry, failed>> /\ alone
        /\ login[a].at = "checking"
    BY <1>6 DEF Lockout!TurnAway, Lockout!At
  <2>2. ~Pending(login[a])
    BY <2>1 DEF Pending
  <2> QED
    BY <1>3, <2>1, <2>2, AloneQuietStep
<1>7. ASSUME NEW a \in Attempts, Lockout!Accept(a)
      PROVE  AloneIInv'
  <2> DEFINE q == [at |-> "clearing"]
  <2>1. /\ login' = [login EXCEPT ![a] = q] /\ UNCHANGED <<now, entry, failed>> /\ alone
        /\ login[a].at = "checking"
    BY <1>7 DEF Lockout!Accept, Lockout!At
  <2>2. q \in Lockout!LoginStates /\ q.at = "clearing"
    BY DEF Lockout!LoginStates
  <2> HIDE DEF q
  <2>3. ~Pending(login[a]) /\ LoginSound(q)
    BY <2>1, <2>2, IdleSound DEF Pending
  <2> QED
    BY <2>1, <2>2, <2>3, AloneQuietStep
<1>8. ASSUME NEW a \in Attempts, Lockout!Reject(a)
      PROVE  AloneIInv'
  <2> DEFINE q == [at |-> "counting", time |-> now]
  <2>1. /\ login' = [login EXCEPT ![a] = q] /\ UNCHANGED <<now, entry>> /\ alone
        /\ failed' = Append(failed, now) /\ login[a].at = "checking" /\ login[a].until <= now
    BY <1>8 DEF Lockout!Reject, Lockout!At
  <2>2. q \in Lockout!LoginStates /\ q.at = "counting" /\ q.time = now
    BY <1>2 DEF Lockout!LoginStates
  <2> HIDE DEF q
  <2>3. /\ login'[a] = q /\ Counted(Len(failed))
        /\ \A b \in Attempts : b # a => login'[b].at = "idle"
        /\ \A b, c \in Attempts : b # c => login'[b].at = "idle" \/ login'[c].at = "idle"
    BY <2>1, <2>2, AloneMoves DEF Pending
  <2>4. /\ Len(failed') = Len(failed) + 1 /\ DOMAIN failed' = 1 .. Len(failed) + 1
        /\ \A k \in 1 .. Len(failed) : failed'[k] = failed[k]
        /\ failed'[Len(failed) + 1] = now
    BY <1>2, <2>1
  <2>5. \A k \in DOMAIN failed' : failed'[k] <= now
    BY <1>2, <2>1, <2>4 DEF AloneIInv
  <2>6. Len(failed') - 1 = Len(failed)
    BY <1>2, <2>4
  <2>7. Counted(Len(failed) - 1)'
    <3>1. CASE entry = None
      BY <2>1, <2>3, <2>6, <3>1 DEF Counted
    <3>2. CASE entry # None
      <4>1. StreakOf(failed, Len(failed), entry.failures, entry.firstFailureAt)
        BY <2>3, <3>2 DEF Counted
      <4>2. StreakOf(failed', Len(failed), entry.failures, entry.firstFailureAt)
        BY <1>2, <2>4, <3>2, <4>1, StreakPrefix
      <4> QED
        BY <2>1, <2>6, <3>2, <4>2 DEF Counted
    <3> QED
      BY <3>1, <3>2
  <2>8. entry # None /\ entry.expiresAt > now => entry.lockedUntil <= now
    BY <2>1 DEF AloneIInv, LoginSound
  <2>9. LoginSound(login[a])'
    BY <1>2, <2>1, <2>2, <2>3, <2>4, <2>5, <2>7, <2>8 DEF LoginSound
  <2>10. ASSUME NEW b \in Attempts, b # a
         PROVE  LoginSound(login[b])'
    BY <2>3, <2>10 DEF LoginSound
  <2>11. Pending(login[a])'
    BY <2>2, <2>3 DEF Pending
  <2> QED
    BY <2>1, <2>3, <2>5, <2>9, <2>10, <2>11 DEF AloneIInv
<1>9. ASSUME NEW a \in Attempts, Lockout!ReadStreak(a)
      PROVE  AloneIInv'
  <2> DEFINE t == login[a].time
             g == Lockout!StoreGet
             c == Lockout!Continue(g, t)
             f == Lockout!AfterFailure(g, t)
             q == [at |-> "storing", next |-> f, trips |-> Lockout!Trips(c)]
  <2>1. /\ login[a].at = "counting" /\ UNCHANGED <<now, entry, failed>> /\ alone /\ now - t < TtlSlack
        /\ login' = [login EXCEPT ![a] = IF Lockout!Locked(g, t) THEN Lockout!Idle ELSE q]
    BY <1>9 DEF Lockout!ReadStreak, Lockout!At
  <2>2. /\ Len(failed) > 0 /\ failed[Len(failed)] = t /\ Counted(Len(failed) - 1)
        /\ entry # None => entry.firstFailureAt <= t
        /\ entry # None /\ entry.expiresAt > now => entry.lockedUntil <= t
        /\ \A k \in DOMAIN failed : failed[k] <= t
    BY <2>1 DEF AloneIInv, LoginSound
  <2>3. t \in Nat /\ t <= now
    <3>1. login[a] \in Lockout!LoginStates /\ WriterSound(login[a])
      BY <1>1 DEF LockIInv, Lockout!TypeOK
    <3> QED
      BY <2>1, <3>1, SlotTypes DEF WriterSound
  <2>4. /\ g \in Lockout!States \cup {None}
        /\ g = IF entry # None /\ entry.expiresAt > now THEN entry ELSE None
    BY <1>1, LockTypes DEF Lockout!StoreGet
  <2>5. ~Lockout!Locked(g, t)
    <3> HIDE DEF t, g
    <3>1. CASE g = None
      BY <2>3, <3>1 DEF Lockout!Locked, Lockout!Deadline
    <3>2. CASE g # None
      <4>1. g = entry /\ entry # None /\ entry.lockedUntil <= t
        BY <2>2, <2>4, <3>2
      <4>2. entry.lockedUntil \in Nat /\ ~(entry.lockedUntil > t)
        BY <1>2, <2>3, <4>1
      <4> QED
        BY <4>1, <4>2 DEF Lockout!Locked, Lockout!Deadline
    <3> QED
      BY <3>1, <3>2
  <2>6. /\ f \in Lockout!States
        /\ Lockout!Trips(c) => f.failures = 0
        /\ ~Lockout!Trips(c) => f = c /\ c.failures < MaxFailures
    BY <2>3, <2>4, AfterFailureIs
  <2>7. /\ OpenStreak(g, t) => c.failures = g.failures + 1 /\ c.firstFailureAt = g.firstFailureAt
        /\ ~OpenStreak(g, t) => c.failures = 1 /\ c.firstFailureAt = t
    BY <2>3, <2>4, ContinueIs
  <2>8. /\ login' = [login EXCEPT ![a] = q] /\ q.at = "storing" /\ q.next = f
        /\ q.trips = Lockout!Trips(c)
    BY <2>1, <2>5
  <2>9. Lockout!Trips(c) \in BOOLEAN
    BY DEF Lockout!Trips
  <2>10. q \in Lockout!LoginStates
    BY <2>6, <2>9 DEF Lockout!LoginStates
  <2> DEFINE n == Len(failed) - 1
  <2>11. n \in Nat /\ n + 1 = Len(failed) /\ TimesTo(failed, n + 1) /\ failed[n + 1] = t
         /\ \A k \in 1 .. n : failed[k] <= failed[n + 1]
    BY <1>2, <2>2 DEF TimesTo
  <2> HIDE DEF t, f, c, q, n
  <2>12. ASSUME ~Lockout!Trips(c)
         PROVE  StreakOf(failed, n + 1, c.failures, c.firstFailureAt)
    <3>1. CASE OpenStreak(g, t)
      <4>1. g = entry /\ entry # None /\ t - entry.firstFailureAt <= WindowSeconds
        BY <2>4, <3>1 DEF OpenStreak
      <4>2. StreakOf(failed, n, entry.failures, entry.firstFailureAt)
        BY <2>2, <4>1 DEF Counted, n
      <4>3. entry.failures + 1 < MaxFailures /\ entry.failures \in Nat /\ entry.firstFailureAt \in Nat
        BY <1>2, <2>6, <2>7, <2>12, <3>1, <4>1
      <4>4. entry.firstFailureAt <= failed[n + 1] /\ failed[n + 1] <= entry.firstFailureAt + WindowSeconds
        <5>1. entry.firstFailureAt <= t /\ entry.firstFailureAt \in Nat
          BY <1>2, <2>2, <4>1
        <5> QED
          BY <1>2, <2>3, <2>11, <4>1, <5>1
      <4>5. StreakOf(failed, n + 1, entry.failures + 1, entry.firstFailureAt)
        BY <2>11, <4>2, <4>3, <4>4, StreakGoes
      <4> QED
        BY <2>7, <3>1, <4>1, <4>5
    <3>2. CASE ~OpenStreak(g, t)
      <4>1. 1 < MaxFailures
        BY <2>6, <2>7, <2>12, <3>2
      <4>2. CASE entry = None
        <5>1. n = 0 /\ 0 \in Nat
          BY <2>2, <4>2 DEF Counted, n
        <5>2. StreakOf(failed, n + 1, 1, failed[n + 1])
          BY <2>11, <4>1, <5>1, StreakRestarts
        <5> QED
          BY <2>7, <2>11, <3>2, <5>2
      <4>3. CASE entry # None
        <5>1. StreakOf(failed, n, entry.failures, entry.firstFailureAt)
          BY <2>2, <4>3 DEF Counted, n
        <5>2. t - entry.firstFailureAt > WindowSeconds
          <6>1. CASE entry.expiresAt > now
            BY <1>2, <2>3, <2>4, <3>2, <4>3, <6>1 DEF OpenStreak
          <6>2. CASE ~(entry.expiresAt > now)
            <7>1. now - t < TtlSlack
              BY <2>1 DEF t
            <7>2. /\ entry.firstFailureAt \in Nat /\ entry.expiresAt \in Nat
                  /\ entry.firstFailureAt + WindowSeconds + TtlSlack <= entry.expiresAt
              BY <1>2, <4>3
            <7> QED
              BY <1>2, <2>3, <6>2, <7>1, <7>2
          <6> QED
            BY <6>1, <6>2
        <5>3. failed[n + 1] - entry.firstFailureAt > WindowSeconds
          BY <2>11, <5>2
        <5>4. StreakOf(failed, n + 1, 1, failed[n + 1])
          BY <1>2, <2>11, <4>1, <4>3, <5>1, <5>3, StreakRestarts
        <5> QED
          BY <2>7, <2>11, <3>2, <5>4
      <4> QED
        BY <4>2, <4>3
    <3> QED
      BY <3>1, <3>2
  <2>13. LoginSound(q)
    BY <2>6, <2>8, <2>11, <2>12 DEF LoginSound
  <2>14. /\ login'[a] = q
         /\ \A b \in Attempts : b # a => login'[b].at = "idle"
         /\ \A b, d \in Attempts : b # d => login'[b].at = "idle" \/ login'[d].at = "idle"
    BY <2>1, <2>8, <2>10, AloneMoves
  <2>15. ASSUME NEW b \in Attempts
         PROVE  LoginSound(login[b])'
    <3>1. CASE b = a
      BY <2>1, <2>8, <2>13, <2>14, <3>1 DEF LoginSound, StreakOf
    <3>2. CASE b # a
      BY <2>14, <3>2 DEF LoginSound
    <3> QED
      BY <3>1, <3>2
  <2>16. Pending(login[a])'
    BY <2>8, <2>14 DEF Pending
  <2>17. \A k \in DOMAIN failed' : failed'[k] <= now'
    BY <2>1 DEF AloneIInv
  <2> QED
    BY <2>14, <2>15, <2>16, <2>17 DEF AloneIInv
<1>10. ASSUME NEW a \in Attempts, Lockout!WriteStreak(a)
       PROVE  AloneIInv'
  <2> DEFINE f == login[a].next
  <2>1. /\ login[a].at = "storing" /\ entry' = [f EXCEPT !.expiresAt = now + Lockout!Ttl]
        /\ login' = [login EXCEPT ![a] = Lockout!Idle]
        /\ login[a].trips => failed' = <<>>
        /\ ~login[a].trips => failed' = failed
        /\ now' = now /\ alone
    BY <1>10 DEF Lockout!WriteStreak, Lockout!At
  <2>2. login[a] \in Lockout!LoginStates /\ LoginSound(login[a])
    BY <1>1, <2>1 DEF AloneIInv, Lockout!TypeOK
  <2>3. /\ f \in Lockout!States /\ login[a].trips \in BOOLEAN
        /\ login[a].trips => f.failures = 0
        /\ ~login[a].trips => StreakOf(failed, Len(failed), f.failures, f.firstFailureAt)
    BY <2>1, <2>2, SlotTypes DEF LoginSound
  <2> HIDE DEF f
  <2>4. now + Lockout!Ttl \in Nat
    BY <1>1, LockTypes
  <2>5. /\ entry' \in Lockout!States
        /\ entry'.failures = f.failures /\ entry'.firstFailureAt = f.firstFailureAt
    BY <2>1, <2>3, <2>4 DEF Lockout!States
  <2>6. entry' # None
    BY <2>5, LockoutAssumption DEF Lockout!States
  <2>7. /\ login'[a] = Lockout!Idle
        /\ \A b \in Attempts : b # a => login'[b].at = "idle"
        /\ \A b, c \in Attempts : b # c => login'[b].at = "idle" \/ login'[c].at = "idle"
    BY <1>3, <2>1, AloneMoves
  <2>8. Counted(Len(failed))'
    <3>1. CASE login[a].trips
      <4>1. failed' = <<>> /\ Len(failed') = 0 /\ entry'.failures = 0
        BY <2>1, <2>3, <2>5, <3>1
      <4>2. StreakOf(failed', 0, 0, entry'.firstFailureAt)
        BY <1>2 DEF StreakOf
      <4> QED
        BY <2>6, <4>1, <4>2 DEF Counted
    <3>2. CASE ~login[a].trips
      <4>1. failed' = failed /\ StreakOf(failed, Len(failed), entry'.failures, entry'.firstFailureAt)
        BY <2>1, <2>3, <2>5, <3>2
      <4> QED
        BY <2>6, <4>1 DEF Counted
    <3> QED
      BY <2>3, <3>1, <3>2
  <2>9. ASSUME NEW b \in Attempts
        PROVE  LoginSound(login[b])'
    <3>1. login'[b].at = "idle"
      BY <1>3, <2>7
    <3> QED
      BY <3>1 DEF LoginSound
  <2>10. \A k \in DOMAIN failed' : failed'[k] <= now'
    BY <2>1, <2>3 DEF AloneIInv
  <2> QED
    BY <2>7, <2>8, <2>9, <2>10 DEF AloneIInv
<1>11. ASSUME NEW a \in Attempts, Lockout!Clear(a)
       PROVE  AloneIInv'
  <2>1. /\ entry' = None /\ login' = [login EXCEPT ![a] = Lockout!Idle] /\ failed' = <<>>
        /\ alone /\ login[a].at = "clearing"
    BY <1>11 DEF Lockout!Clear, Lockout!At
  <2>2. /\ login'[a] = Lockout!Idle
        /\ \A b \in Attempts : b # a => login'[b].at = "idle"
        /\ \A b, c \in Attempts : b # c => login'[b].at = "idle" \/ login'[c].at = "idle"
    BY <1>3, <2>1, AloneMoves
  <2>3. Counted(Len(failed))' /\ \A k \in DOMAIN failed' : failed'[k] <= now'
    BY <2>1 DEF Counted
  <2>4. ASSUME NEW b \in Attempts
        PROVE  LoginSound(login[b])'
    <3>1. login'[b].at = "idle"
      BY <1>3, <2>2
    <3> QED
      BY <3>1 DEF LoginSound
  <2> QED
    BY <2>2, <2>3, <2>4 DEF AloneIInv
<1> QED
  BY <1>4, <1>5, <1>6, <1>7, <1>8, <1>9, <1>10, <1>11 DEF Lockout!Next

(* A lock written while nobody else was about to write is read by every check  *)
(* until its deadline, and failures that come one after another lock the       *)
(* account in time, for every number of requests, threshold and window         *)
(* (auth/lockout.ts).                                                          *)
THEOREM Lockouts == Joint => []LockoutHolds
<1> DEFINE IInv == which = "lockout" => LockIInv /\ AloneIInv
<1>1. JointInit => IInv
  BY LockInit DEF JointInit
<1>2. IInv /\ [JointNext]_JointVars => IInv'
  <2> SUFFICES ASSUME IInv, [JointNext]_JointVars, which' = "lockout"
               PROVE  LockIInv' /\ AloneIInv'
    OBVIOUS
  <2>1. which = "lockout" /\ LockIInv /\ AloneIInv
    BY DEF JointNext, JointVars
  <2>2. Lockout!Next \/ UNCHANGED lockout
    BY <2>1 DEF JointNext, JointVars
  <2>3. ASSUME UNCHANGED lockout
        PROVE  LockIInv' /\ AloneIInv'
    BY <2>1, <2>3 DEF lockout, LockIInv, Lockout!TypeOK, WriterSound, QuietLockStored, AloneIInv,
       LoginSound, Pending, Counted, StreakOf
  <2> QED
    BY <2>1, <2>2, <2>3, LockStep, AloneStep
<1>3. IInv => LockoutHolds
  <2> SUFFICES ASSUME LockIInv, AloneIInv
               PROVE  Lockout!TypeOK /\ Lockout!QuietLockStays /\ Lockout!SerialThreshold
    BY DEF LockoutHolds
  <2>1. Lockout!TypeOK
    BY DEF LockIInv
  <2>2. Lockout!QuietLockStays
    <3> SUFFICES ASSUME quiet, lastLock > now
                 PROVE  Lockout!Deadline(Lockout!StoreGet) = lastLock
      BY DEF Lockout!QuietLockStays
    <3>1. entry # None /\ entry.lockedUntil = lastLock /\ entry.expiresAt > lastLock
      BY DEF LockIInv, QuietLockStored
    <3>2. entry.expiresAt > now
      <4>1. now \in Nat /\ lastLock \in Nat /\ entry.expiresAt \in Nat
        BY <2>1, <3>1, LockTypes
      <4> QED
        BY <3>1, <4>1
    <3> QED
      BY <3>1, <3>2 DEF Lockout!Deadline, Lockout!StoreGet
  <2>3. Lockout!SerialThreshold
    <3> SUFFICES ASSUME alone, \A a \in Attempts : login[a].at = "idle"
                 PROVE  \A i, j \in 1 .. Len(failed) :
                          j = i + 2 * (MaxFailures - 1) => failed[j] - failed[i] > WindowSeconds
      BY DEF Lockout!SerialThreshold, Lockout!At
    <3>1. Counted(Len(failed))
      BY DEF AloneIInv, Pending
    <3>2. entry = None => Len(failed) = 0
      BY <3>1 DEF Counted
    <3> QED
      BY <3>1, <3>2 DEF Counted, StreakOf
  <2> QED
    BY <2>1, <2>2, <2>3
<1> QED
  BY <1>1, <1>2, <1>3, PTL DEF Joint
----------------------------------------------------------------------------
\* Logins by an identity provider.  The key a callback was signed with is the provider's
\* or the one before, and a rotation since then is as long ago as the callback has waited;
\* the keys a fetch brings hold it.  The cached set is that of some rotation: of an
\* earlier one, it expires soon after the last rotation and no forced refresh holds the
\* next one back.
CallRecords ==
    [browser : Browsers, flow : Nat, kid : Nat, at : {"keys", "fetch", "forced"}, sent : Nat,
     got : SUBSET Nat]

Waited(c) == IF c.at = "keys" THEN 0 ELSE IF c.at = "fetch" THEN Latency ELSE 2 * Latency

Got(c, m) ==
    /\ c.kid <= m /\ m <= key /\ c.got = Oidc!Published(m)
    /\ m < key => c.sent <= rotated /\ (c.at = "forced" => Cooldown = 0)

CallSound(c) ==
    /\ c.sent <= dNow /\ dNow <= c.sent + Latency
    /\ c.kid = key \/ (c.kid + 1 = key /\ c.sent <= rotated + Waited(c))
    /\ c.got = {} \/ \E m \in Nat : Got(c, m)
    /\ c.at = "forced" => c.sent < rotated + Latency + KeysTtl

CachedFrom(m) ==
    /\ m <= key /\ jwks.keys = Oidc!Published(m)
    /\ {jwks.expires, jwks.forced} \subseteq Nat /\ jwks.expires <= dNow + KeysTtl /\ jwks.forced <= dNow
    /\ jwks.forced > 0 => jwks.forced < rotated + 2 * Latency + KeysTtl
    /\ m < key => /\ jwks.expires <= rotated + Latency + KeysTtl
                  /\ ~late => jwks.forced = 0 \/ jwks.forced + Cooldown <= dNow

OidcIInv ==
    /\ {dNow, key, rotated, logins} \subseteq Nat /\ rotated <= dNow
    /\ tabs \subseteq [browser : Browsers, flow : Nat] /\ calls \subseteq CallRecords
    /\ late \in BOOLEAN
    /\ \A c \in calls : CallSound(c)
    /\ jwks # None => \E m \in Nat : CachedFrom(m)
    /\ Oidc!RotationTurnsNobodyAway

LEMMA OidcInit == Oidc!Init => OidcIInv
<1> SUFFICES ASSUME Oidc!Init
             PROVE  OidcIInv
  OBVIOUS
<1>1. {dNow, key, rotated, logins} \subseteq Nat /\ rotated <= dNow
  BY DEF Oidc!Init
<1>2. tabs = {} /\ calls = {} /\ jwks = None /\ late = FALSE /\ missed = FALSE
  BY DEF Oidc!Init
<1> QED
  BY <1>1, <1>2 DEF OidcIInv, Oidc!RotationTurnsNobodyAway

\* What is sound of a call stays so while neither the time nor the key moves.
LEMMA CallKept ==
    ASSUME NEW c, CallSound(c), UNCHANGED <<dNow, key, rotated>>
    PROVE  CallSound(c)'
BY DEF CallSound, Got, Waited

LEMMA CacheKept ==
    ASSUME NEW m, CachedFrom(m), UNCHANGED <<dNow, key, rotated, jwks, late>>
    PROVE  CachedFrom(m)'
BY DEF CachedFrom

\* The set of keys that a fetch brought, or that is cached from the last rotation, holds
\* the key of every callback.
LEMMA GotHasKey ==
    ASSUME OidcIInv, NEW c \in calls, NEW m \in Nat, c.kid <= m, m <= key
    PROVE  c.kid \in Oidc!Published(m)
<1>1. c \in CallRecords /\ CallSound(c) /\ key \in Nat
  BY DEF OidcIInv
<1>2. c.kid \in Nat
  BY <1>1 DEF CallRecords
<1>3. c.kid = key \/ c.kid + 1 = key
  BY <1>1 DEF CallSound
<1>4. c.kid = m \/ (m > 0 /\ c.kid = m - 1)
  BY <1>1, <1>2, <1>3
<1> QED
  BY <1>4 DEF Oidc!Published

\* The steps of one call leave the others, the time and the key alone.
LEMMA CallGoes ==
    ASSUME OidcIInv, NEW c \in calls, calls' = calls \ {c}, missed' = missed,
           UNCHANGED <<dNow, key, rotated, logins, tabs>>, UNCHANGED <<jwks, late>>
    PROVE  OidcIInv'
<1>1. ASSUME NEW d \in calls'
      PROVE  CallSound(d)'
  BY <1>1, CallKept DEF OidcIInv
<1>2. ASSUME jwks' # None
      PROVE  \E m \in Nat : CachedFrom(m)'
  BY <1>2, CacheKept DEF OidcIInv
<1> QED
  BY <1>1, <1>2 DEF OidcIInv, Oidc!RotationTurnsNobodyAway

LEMMA CallMoves ==
    ASSUME OidcIInv, NEW c, NEW n \in CallRecords, CallSound(n), missed' = missed,
           calls' = (calls \ {c}) \cup {n},
           UNCHANGED <<dNow, key, rotated, logins>>, UNCHANGED <<jwks, late>>,
           tabs' \subseteq tabs
    PROVE  OidcIInv'
<1>1. ASSUME NEW d \in calls'
      PROVE  CallSound(d)'
  <2>1. d \in calls \/ d = n
    BY <1>1
  <2>2. CallSound(d)
    BY <2>1 DEF OidcIInv
  <2> QED
    BY <2>2, CallKept
<1>2. ASSUME jwks' # None
      PROVE  \E m \in Nat : CachedFrom(m)'
  BY <1>2, CacheKept DEF OidcIInv
<1>3. calls' \subseteq CallRecords
  BY DEF OidcIInv
<1> QED
  BY <1>1, <1>2, <1>3 DEF OidcIInv, Oidc!RotationTurnsNobodyAway

LEMMA LoginMoves ==
    ASSUME OidcIInv, UNCHANGED <<dNow, key, rotated, calls, missed>>, UNCHANGED <<jwks, late>>,
           logins' \in Nat, tabs' \subseteq [browser : Browsers, flow : Nat]
    PROVE  OidcIInv'
<1>1. ASSUME NEW d \in calls'
      PROVE  CallSound(d)'
  BY <1>1, CallKept DEF OidcIInv
<1>2. ASSUME jwks' # None
      PROVE  \E m \in Nat : CachedFrom(m)'
  BY <1>2, CacheKept DEF OidcIInv
<1> QED
  BY <1>1, <1>2 DEF OidcIInv, Oidc!RotationTurnsNobodyAway

LEMMA CallbackStep == ASSUME OidcIInv, NEW t \in tabs, Oidc!Callback(t) PROVE OidcIInv'
<1>1. /\ tabs' = tabs \ {t} /\ UNCHANGED <<dNow, key, rotated, logins, missed>>
      /\ UNCHANGED <<jwks, late>>
  BY DEF Oidc!Callback, Oidc!idp
<1>2. /\ t \in [browser : Browsers, flow : Nat] /\ {dNow, key, rotated} \subseteq Nat
      /\ rotated <= dNow /\ tabs \subseteq [browser : Browsers, flow : Nat] /\ logins \in Nat
  BY DEF OidcIInv
<1>3. CASE Oidc!FlowOf(t)
  <2> DEFINE n == [browser |-> t.browser, flow |-> t.flow, kid |-> key, at |-> "keys",
                   sent |-> dNow, got |-> {}]
  <2>1. calls' = calls \cup {n}
    BY <1>3 DEF Oidc!Callback
  <2>2. n \in CallRecords
    BY <1>2 DEF CallRecords
  <2>3. n.sent = dNow /\ n.kid = key /\ n.got = {} /\ n.at = "keys"
    OBVIOUS
  <2> HIDE DEF n
  <2>4. CallSound(n)
    BY <1>2, <2>3, TimesAssumption DEF CallSound
  <2>5. calls' = (calls \ {n}) \cup {n}
    BY <2>1
  <2> QED
    BY <1>1, <2>2, <2>4, <2>5, CallMoves
<1>4. CASE ~Oidc!FlowOf(t)
  <2>1. calls' = calls
    BY <1>4 DEF Oidc!Callback
  <2> QED
    BY <1>1, <1>2, <2>1, LoginMoves
<1> QED
  BY <1>3, <1>4

\* Out to fetch the keys, as long as the callback has not waited for it too long.
LEMMA FetchStep ==
    ASSUME OidcIInv, NEW c \in calls, c.at = "keys", NEW at \in {"fetch", "forced"},
           Oidc!Fetches(c, at), UNCHANGED <<dNow, key, rotated, logins, tabs>>,
           UNCHANGED <<jwks, late>>, at = "forced" => dNow < rotated + Latency + KeysTtl
    PROVE  OidcIInv'
<1> DEFINE n == [c EXCEPT !.at = at, !.sent = dNow, !.got = {}]
<1>1. c \in CallRecords /\ CallSound(c) /\ {dNow, key, rotated} \subseteq Nat
  BY DEF OidcIInv
<1>2. calls' = (calls \ {c}) \cup {n} /\ missed' = missed
  BY DEF Oidc!Fetches
<1>3. n \in CallRecords
  BY <1>1 DEF CallRecords
<1>4. n.at = at /\ n.sent = dNow /\ n.got = {} /\ n.kid = c.kid
  BY <1>1 DEF CallRecords
<1>5. c.kid \in Nat /\ c.sent \in Nat
  BY <1>1 DEF CallRecords
<1> HIDE DEF n
<1>6. c.kid = key \/ (c.kid + 1 = key /\ c.sent <= rotated)
  BY <1>1, <1>5 DEF CallSound, Waited
<1>7. Latency \in Nat /\ dNow <= c.sent + Latency
  BY <1>1, TimesAssumption DEF CallSound
<1>8. n.kid = key \/ (n.kid + 1 = key /\ n.sent <= rotated + Waited(n))
  <2>1. Waited(n) = Latency \/ Waited(n) = 2 * Latency
    BY <1>4 DEF Waited
  <2> QED
    BY <1>1, <1>4, <1>5, <1>6, <1>7, <2>1
<1>9. CallSound(n)
  BY <1>1, <1>4, <1>7, <1>8 DEF CallSound
<1>10. tabs' \subseteq tabs
  OBVIOUS
<1> QED
  BY <1>2, <1>3, <1>9, <1>10, CallMoves

LEMMA KeysStep == ASSUME OidcIInv, NEW c \in calls, Oidc!Keys(c) PROVE OidcIInv'
<1>1. /\ c.at = "keys" /\ UNCHANGED <<dNow, key, rotated, logins, tabs>>
      /\ UNCHANGED <<jwks, late>>
  BY DEF Oidc!Keys, Oidc!idp
<1>2. CASE jwks # None /\ jwks.expires > dNow
  <2>1. Oidc!Pick(c, jwks)
    BY <1>2 DEF Oidc!Keys
  <2>2. PICK m \in Nat : CachedFrom(m)
    BY <1>2 DEF OidcIInv
  <2>3. c \in CallRecords /\ CallSound(c) /\ {dNow, key, rotated} \subseteq Nat
    BY DEF OidcIInv
  <2>4. c.kid \in Nat
    BY <2>3 DEF CallRecords
  <2>5. ASSUME c.kid \notin jwks.keys
        PROVE  m < key
    <3>1. c.kid <= key
      BY <2>3, <2>4 DEF CallSound
    <3>2. jwks.keys = Oidc!Published(m) /\ m <= key
      BY <2>2 DEF CachedFrom
    <3>3. ~(m = key)
      BY <2>5, <3>1, <3>2, GotHasKey
    <3> QED
      BY <2>3, <3>2, <3>3
  <2>6. CASE c.kid \in jwks.keys
    <3>1. calls' = calls \ {c} /\ missed' = missed
      BY <2>1, <2>6 DEF Oidc!Pick, Oidc!SignsIn
    <3> QED
      BY <1>1, <3>1, CallGoes
  <2>7. CASE c.kid \notin jwks.keys /\ jwks.forced + Cooldown > dNow /\ jwks.forced > 0
    <3>1. calls' = calls \ {c}
      BY <2>1, <2>7 DEF Oidc!Pick, Oidc!Refuses
    <3>2. {jwks.forced, Cooldown, dNow} \subseteq Nat
      BY <2>2, <2>3, TimesAssumption DEF CachedFrom
    <3>3. late
      BY <2>2, <2>5, <2>7, <3>2 DEF CachedFrom, OidcIInv
    <3>4. ASSUME NEW d \in calls'
          PROVE  CallSound(d)'
      BY <1>1, <3>1, <3>4, CallKept DEF OidcIInv
    <3>5. CachedFrom(m)'
      BY <1>1, <2>2, CacheKept
    <3> QED
      BY <1>1, <3>1, <3>3, <3>4, <3>5 DEF OidcIInv, Oidc!RotationTurnsNobodyAway
  <2>8. CASE c.kid \notin jwks.keys /\ ~(jwks.forced + Cooldown > dNow /\ jwks.forced > 0)
    <3>1. Oidc!Fetches(c, "forced")
      BY <2>1, <2>8 DEF Oidc!Pick
    <3>2. jwks.expires \in Nat /\ jwks.expires <= rotated + Latency + KeysTtl
      BY <2>2, <2>5, <2>8 DEF CachedFrom
    <3>3. dNow < rotated + Latency + KeysTtl
      BY <1>2, <2>3, <3>2, TimesAssumption
    <3> QED
      BY <1>1, <3>1, <3>3, FetchStep
  <2> QED
    BY <2>6, <2>7, <2>8
<1>3. CASE ~(jwks # None /\ jwks.expires > dNow)
  <2>1. Oidc!Fetches(c, "fetch")
    BY <1>3 DEF Oidc!Keys
  <2> QED
    BY <1>1, <2>1, FetchStep
<1> QED
  BY <1>2, <1>3

LEMMA AnswersStep == ASSUME OidcIInv, NEW c \in calls, Oidc!Answers(c) PROVE OidcIInv'
<1> DEFINE n == [c EXCEPT !.got = Oidc!Published(key)]
<1>1. /\ calls' = (calls \ {c}) \cup {n} /\ missed' = missed
      /\ UNCHANGED <<dNow, key, rotated, logins, tabs>> /\ UNCHANGED <<jwks, late>>
  BY DEF Oidc!Answers, Oidc!idp
<1>2. c \in CallRecords /\ CallSound(c) /\ {dNow, key, rotated} \subseteq Nat
  BY DEF OidcIInv
<1>3. Oidc!Published(key) \in SUBSET Nat
  BY <1>2 DEF Oidc!Published
<1>4. n \in CallRecords
  BY <1>2, <1>3 DEF CallRecords
<1>5. /\ n.at = c.at /\ n.sent = c.sent /\ n.kid = c.kid /\ n.got = Oidc!Published(key)
      /\ c.kid \in Nat
  BY <1>2 DEF CallRecords
<1> HIDE DEF n
<1>6. Got(n, key)
  <2>1. n.kid <= key
    BY <1>2, <1>5 DEF CallSound
  <2> QED
    BY <1>2, <1>5, <2>1 DEF Got
<1>7. Waited(n) = Waited(c)
  BY <1>5 DEF Waited
<1>8. CallSound(n)
  BY <1>2, <1>5, <1>6, <1>7 DEF CallSound
<1>9. tabs' \subseteq tabs
  BY <1>1
<1> QED
  BY <1>1, <1>4, <1>8, <1>9, CallMoves

LEMMA RefreshedStep == ASSUME OidcIInv, NEW c \in calls, Oidc!Refreshed(c) PROVE OidcIInv'
<1>1. /\ c.at \in {"fetch", "forced"} /\ c.got # {}
      /\ jwks' = [keys |-> c.got, expires |-> dNow + KeysTtl, forced |-> Oidc!ForcedAt(c)]
      /\ late' = (late \/ (jwks # None /\ ~(jwks.keys \subseteq c.got) /\ key \in jwks.keys))
      /\ UNCHANGED <<dNow, key, rotated, logins, tabs>>
  BY DEF Oidc!Refreshed, Oidc!idp
<1>2. c \in CallRecords /\ CallSound(c) /\ {dNow, key, rotated} \subseteq Nat
  BY DEF OidcIInv
<1>3. c.kid \in Nat /\ c.sent \in Nat
  BY <1>2 DEF CallRecords
<1>4. PICK m \in Nat : Got(c, m)
  BY <1>1, <1>2 DEF CallSound
<1>5. m <= key /\ c.kid <= m /\ c.got = Oidc!Published(m)
  BY <1>4 DEF Got
<1>6. c.kid \in c.got
  BY <1>5, GotHasKey
<1>7. Oidc!SignsIn(c)
  <2>1. jwks'.keys = c.got
    BY <1>1
  <2> QED
    BY <1>1, <1>6, <2>1 DEF Oidc!Refreshed, Oidc!Pick
<1>8. calls' = calls \ {c} /\ missed' = missed
  BY <1>7 DEF Oidc!SignsIn
<1>9. jwks'.keys = Oidc!Published(m) /\ jwks'.expires = dNow + KeysTtl /\ jwks'.forced = Oidc!ForcedAt(c)
  BY <1>1, <1>5
<1>10. {KeysTtl, Cooldown, Latency} \subseteq Nat /\ c.sent <= dNow /\ dNow <= c.sent + Latency
  BY <1>2, TimesAssumption DEF CallSound
<1>11. ASSUME c.at = "fetch", jwks # None
       PROVE  /\ jwks'.forced = jwks.forced /\ jwks.forced \in Nat /\ jwks.forced <= dNow
              /\ jwks.forced > 0 => jwks.forced < rotated + 2 * Latency + KeysTtl
  BY <1>9, <1>11 DEF Oidc!ForcedAt, CachedFrom, OidcIInv
<1>12. ASSUME c.at = "fetch", jwks = None
       PROVE  jwks'.forced = 0
  BY <1>9, <1>12 DEF Oidc!ForcedAt
<1>13. ASSUME c.at = "forced"
       PROVE  jwks'.forced = dNow /\ dNow < rotated + 2 * Latency + KeysTtl
  <2>1. c.sent < rotated + Latency + KeysTtl
    BY <1>2, <1>13 DEF CallSound
  <2>2. jwks'.forced = dNow
    BY <1>9, <1>13 DEF Oidc!ForcedAt
  <2> QED
    BY <1>2, <1>3, <1>10, <2>1, <2>2
<1>14. /\ jwks'.forced \in Nat /\ jwks'.forced <= dNow
       /\ jwks'.forced > 0 => jwks'.forced < rotated + 2 * Latency + KeysTtl
  BY <1>1, <1>2, <1>11, <1>12, <1>13
<1>15. ASSUME m < key
       PROVE  dNow + KeysTtl <= rotated + Latency + KeysTtl
  <2>1. c.sent <= rotated
    BY <1>4, <1>15 DEF Got
  <2> QED
    BY <1>2, <1>3, <1>10, <2>1
<1>16. ASSUME m < key, ~late'
       PROVE  jwks'.forced = 0 \/ jwks'.forced + Cooldown <= dNow
  <2>1. CASE c.at = "forced"
    <3>1. Cooldown = 0
      BY <1>4, <1>16, <2>1 DEF Got
    <3> QED
      BY <1>2, <1>13, <2>1, <3>1
  <2>2. CASE c.at = "fetch" /\ jwks # None
    <3>1. PICK k \in Nat : CachedFrom(k)
      BY <2>2 DEF OidcIInv
    <3>2. key \notin Oidc!Published(m)
      BY <1>2, <1>16 DEF Oidc!Published
    <3>3. ~late /\ ~(key \in jwks.keys)
      BY <1>1, <1>5, <1>16, <2>2, <3>2
    <3>4. jwks.keys = Oidc!Published(k) /\ k <= key
      BY <3>1 DEF CachedFrom
    <3>5. k # key
      BY <3>3, <3>4 DEF Oidc!Published
    <3>6. k < key
      BY <1>2, <3>4, <3>5
    <3> QED
      BY <1>11, <2>2, <3>1, <3>3, <3>6 DEF CachedFrom
  <2>3. CASE c.at = "fetch" /\ jwks = None
    BY <1>12, <2>3
  <2> QED
    BY <1>1, <2>1, <2>2, <2>3
<1>17. CachedFrom(m)'
  <2>1. m <= key' /\ jwks'.keys = Oidc!Published(m)' /\ dNow' = dNow /\ key' = key /\ rotated' = rotated
    BY <1>1, <1>5, <1>9 DEF Oidc!Published
  <2>2. jwks'.expires \in Nat /\ jwks'.expires <= dNow + KeysTtl
    BY <1>2, <1>9, <1>10
  <2> QED
    BY <1>9, <1>14, <1>15, <1>16, <2>1, <2>2 DEF CachedFrom
<1>18. ASSUME NEW d \in calls'
       PROVE  CallSound(d)'
  BY <1>1, <1>8, <1>18, CallKept DEF OidcIInv
<1>19. late' \in BOOLEAN /\ Oidc!RotationTurnsNobodyAway'
  BY <1>1, <1>8 DEF OidcIInv, Oidc!RotationTurnsNobodyAway
<1> QED
  BY <1>1, <1>8, <1>17, <1>18, <1>19 DEF OidcIInv

LEMMA RotateStep == ASSUME OidcIInv, Oidc!Rotate PROVE OidcIInv'
<1>1. /\ dNow >= rotated + RotationGap /\ key' = key + 1 /\ rotated' = dNow /\ dNow' = dNow
      /\ UNCHANGED <<jwks, late, calls, tabs, logins, missed>>
  BY DEF Oidc!Rotate
<1>2. /\ {dNow, key, rotated} \subseteq Nat /\ rotated <= dNow
      /\ {KeysTtl, Cooldown, Latency, RotationGap} \subseteq Nat
      /\ KeysTtl + Cooldown + 2 * Latency <= RotationGap + 1 /\ 3 * Latency < RotationGap
  BY TimesAssumption, RotationAssumption DEF OidcIInv
<1>3. ASSUME NEW c \in calls
      PROVE  CallSound(c)'
  <2>1. c \in CallRecords /\ CallSound(c)
    BY <1>3 DEF OidcIInv
  <2>2. c.kid \in Nat /\ c.sent \in Nat /\ c.at \in {"keys", "fetch", "forced"}
    BY <2>1 DEF CallRecords
  <2>3. c.sent <= dNow /\ dNow <= c.sent + Latency
    BY <2>1 DEF CallSound
  <2>4. Waited(c) \in Nat /\ Waited(c) <= 2 * Latency
    BY <1>2, <2>2 DEF Waited
  <2>5. c.kid = key
    <3>1. ASSUME c.kid + 1 = key, c.sent <= rotated + Waited(c)
          PROVE  FALSE
      BY <1>1, <1>2, <2>2, <2>3, <2>4, <3>1
    <3> QED
      BY <2>1, <3>1 DEF CallSound
  <2>6. c.kid + 1 = key' /\ c.sent <= rotated' + Waited(c)
    BY <1>1, <1>2, <2>2, <2>3, <2>4, <2>5
  <2>7. ASSUME c.at = "forced"
        PROVE  Cooldown = 0 /\ c.sent < rotated' + Latency + KeysTtl
    <3>1. c.sent < rotated + Latency + KeysTtl
      BY <2>1, <2>7 DEF CallSound
    <3> QED
      BY <1>1, <1>2, <2>2, <2>3, <3>1
  <2>8. ASSUME NEW m \in Nat, Got(c, m)
        PROVE  Got(c, m)'
    <3>1. c.kid <= m /\ m <= key /\ c.got = Oidc!Published(m)
      BY <2>8 DEF Got
    <3>2. m <= key' /\ c.got = Oidc!Published(m)' /\ c.sent <= rotated'
      BY <1>1, <1>2, <2>3, <3>1 DEF Oidc!Published
    <3> QED
      BY <2>7, <3>1, <3>2 DEF Got
  <2>9. c.got = {} \/ \E m \in Nat : Got(c, m)'
    BY <2>1, <2>8 DEF CallSound
  <2> QED
    BY <1>1, <2>3, <2>6, <2>7, <2>9 DEF CallSound, Waited
<1>4. ASSUME jwks' # None
      PROVE  \E m \in Nat : CachedFrom(m)'
  <2>1. PICK m \in Nat : CachedFrom(m)
    BY <1>1, <1>4 DEF OidcIInv
  <2>2. /\ m <= key /\ jwks.keys = Oidc!Published(m)
        /\ {jwks.expires, jwks.forced} \subseteq Nat /\ jwks.expires <= dNow + KeysTtl
        /\ jwks.forced <= dNow
        /\ jwks.forced > 0 => jwks.forced < rotated + 2 * Latency + KeysTtl
    BY <2>1 DEF CachedFrom
  <2>3. m <= key' /\ jwks'.keys = Oidc!Published(m)'
    BY <1>1, <1>2, <2>2 DEF Oidc!Published
  <2>4. jwks.forced > 0 => /\ jwks.forced + Cooldown <= dNow
                           /\ jwks.forced < dNow + 2 * Latency + KeysTtl
    BY <1>1, <1>2, <2>2
  <2>5. jwks.forced = 0 \/ jwks.forced > 0
    BY <2>2
  <2>6. jwks.expires <= dNow + Latency + KeysTtl
    BY <1>2, <2>2
  <2>7. CachedFrom(m)'
    BY <1>1, <2>2, <2>3, <2>4, <2>5, <2>6 DEF CachedFrom
  <2> QED
    BY <2>7
<1>5. key' \in Nat /\ rotated' \in Nat /\ rotated' <= dNow'
  BY <1>1, <1>2
<1> QED
  BY <1>1, <1>3, <1>4, <1>5 DEF OidcIInv, Oidc!RotationTurnsNobodyAway

LEMMA OidcTickStep == ASSUME OidcIInv, Oidc!Tick PROVE OidcIInv'
<1>1. /\ \A c \in calls : dNow < c.sent + Latency
      /\ dNow' = dNow + 1 /\ UNCHANGED <<key, rotated, jwks, late, calls, tabs, logins, missed>>
  BY DEF Oidc!Tick, Oidc!idp
<1>2. {dNow, key, rotated} \subseteq Nat /\ rotated <= dNow /\ {KeysTtl, Latency, Cooldown} \subseteq Nat
  BY TimesAssumption DEF OidcIInv
<1>3. ASSUME NEW c \in calls
      PROVE  CallSound(c)'
  <2>1. c \in CallRecords /\ CallSound(c)
    BY <1>3 DEF OidcIInv
  <2>2. c.sent \in Nat
    BY <2>1 DEF CallRecords
  <2>3. c.sent <= dNow' /\ dNow' <= c.sent + Latency
    BY <1>1, <1>2, <1>3, <2>1, <2>2 DEF CallSound
  <2>4. ASSUME NEW m \in Nat, Got(c, m)
        PROVE  Got(c, m)'
    BY <1>1, <2>4 DEF Got
  <2> QED
    BY <1>1, <2>1, <2>3, <2>4 DEF CallSound, Waited
<1>4. ASSUME jwks' # None
      PROVE  \E m \in Nat : CachedFrom(m)'
  <2>1. PICK m \in Nat : CachedFrom(m)
    BY <1>1, <1>4 DEF OidcIInv
  <2>2. /\ m <= key /\ jwks.keys = Oidc!Published(m)
        /\ {jwks.expires, jwks.forced} \subseteq Nat /\ jwks.expires <= dNow + KeysTtl
        /\ jwks.forced <= dNow
    BY <2>1 DEF CachedFrom
  <2>3. /\ jwks.expires <= dNow' + KeysTtl /\ jwks.forced <= dNow'
        /\ jwks.forced + Cooldown <= dNow => jwks.forced + Cooldown <= dNow'
    BY <1>1, <1>2, <2>2
  <2>4. CachedFrom(m)'
    BY <1>1, <2>1, <2>2, <2>3 DEF CachedFrom, Oidc!Published
  <2> QED
    BY <2>4
<1>5. dNow' \in Nat /\ rotated' <= dNow'
  BY <1>1, <1>2
<1> QED
  BY <1>1, <1>2, <1>3, <1>4, <1>5 DEF OidcIInv, Oidc!RotationTurnsNobodyAway

LEMMA OidcStep == OidcIInv /\ Oidc!Next => OidcIInv'
<1> SUFFICES ASSUME OidcIInv, Oidc!Next
             PROVE  OidcIInv'
  OBVIOUS
<1>1. logins \in Nat /\ tabs \subseteq [browser : Browsers, flow : Nat]
  BY DEF OidcIInv
<1>2. ASSUME NEW b \in Browsers, Oidc!Login(b)
      PROVE  OidcIInv'
  <2>1. logins' = logins + 1 /\ tabs' = tabs \cup {[browser |-> b, flow |-> logins + 1]}
    BY <1>2 DEF Oidc!Login
  <2>2. logins' \in Nat /\ tabs' \subseteq [browser : Browsers, flow : Nat]
    BY <1>1, <2>1
  <2> QED
    BY <1>2, <2>2, LoginMoves DEF Oidc!Login, Oidc!idp
<1>3. ASSUME NEW b \in Browsers, Oidc!Logout(b)
      PROVE  OidcIInv'
  BY <1>1, <1>3, LoginMoves DEF Oidc!Logout, Oidc!idp
<1>4. ASSUME NEW t \in tabs, Oidc!Denied(t)
      PROVE  OidcIInv'
  <2>1. tabs' \subseteq [browser : Browsers, flow : Nat]
    BY <1>1, <1>4 DEF Oidc!Denied
  <2> QED
    BY <1>1, <1>4, <2>1, LoginMoves DEF Oidc!Denied, Oidc!idp
<1>5. ASSUME NEW c \in calls, Oidc!Fails(c)
      PROVE  OidcIInv'
  <2>1. calls' = calls \ {c} /\ missed' = (missed \/ FALSE)
    BY <1>5 DEF Oidc!Fails, Oidc!Refuses
  <2>2. ASSUME NEW d \in calls'
        PROVE  CallSound(d)'
    BY <1>5, <2>1, <2>2, CallKept DEF OidcIInv, Oidc!Fails, Oidc!idp
  <2>3. ASSUME jwks' # None
        PROVE  \E m \in Nat : CachedFrom(m)'
    BY <1>5, <2>3, CacheKept DEF OidcIInv, Oidc!Fails, Oidc!idp
  <2> QED
    BY <1>5, <2>1, <2>2, <2>3 DEF OidcIInv, Oidc!RotationTurnsNobodyAway, Oidc!Fails, Oidc!idp
<1> QED
  BY <1>2, <1>3, <1>4, <1>5, CallbackStep, KeysStep, AnswersStep, RefreshedStep, RotateStep, OidcTickStep
  DEF Oidc!Next

LEMMA OidcKept == OidcIInv /\ UNCHANGED oidc => OidcIInv'
<1> SUFFICES ASSUME OidcIInv, UNCHANGED oidc
             PROVE  OidcIInv'
  OBVIOUS
<1> QED
  BY LoginMoves DEF OidcIInv, oidc

(* As long as no fetch of older keys overtakes one of newer ones, the provider's *)
(* rotations turn no login away, for any number of browsers, logins and         *)
(* rotations that are as far apart as RotationAssumption says (oidc/jwks.ts).    *)
THEOREM Rotations == Joint => []RotationTurnsNobodyAway
<1> DEFINE IInv == which = "oidc" => OidcIInv
<1>1. JointInit => IInv
  BY OidcInit DEF JointInit
<1>2. IInv /\ [JointNext]_JointVars => IInv'
  <2> SUFFICES ASSUME IInv, [JointNext]_JointVars, which' = "oidc"
               PROVE  OidcIInv'
    OBVIOUS
  <2>1. CASE Oidc!Next /\ which = "oidc"
    BY <2>1, OidcStep
  <2>2. CASE UNCHANGED oidc /\ which = "oidc"
    BY <2>2, OidcKept
  <2> QED
    BY <2>1, <2>2 DEF JointNext, JointVars
<1>3. IInv => RotationTurnsNobodyAway
  BY DEF RotationTurnsNobodyAway, OidcIInv
<1> QED
  BY <1>1, <1>2, <1>3, PTL DEF Joint
=============================================================================
