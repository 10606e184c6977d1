---------------------------- MODULE Stores_proofs ----------------------------
(***************************************************************************)
(* What is proved of the directory, the catalogue and the packages of      *)
(* Stores, for every value of its constants.  What is proved of its two    *)
(* append-only logs is in StoresLogs_proofs.                               *)
(***************************************************************************)
EXTENDS Stores, FoldLemmas, FiniteSetTheorems, SequenceTheorems

----------------------------------------------------------------------------
\* The SCIM directory.  Every directory there is, in memory, in a request, in the queue
\* or stored, has no member without a user behind it, gives an id to one thing, and knows
\* of no change that was not made.
Sound(d, changes, ghosts) ==
    /\ \A g \in d.groups : g.members \subseteq {u.id : u \in d.users} \cup ghosts
    /\ \A x, y \in d.users \cup d.groups : x.id = y.id => x = y
    /\ \A x \in d.users \cup d.groups : x.id <= changes
    /\ d.changes \subseteq 1 .. changes

ScimTypes ==
    /\ backend \in {"file", "redis"}
    /\ cMemory \in [{Replica} -> Rosters]
    /\ stored \in Rosters \cup {Directory!Torn}
    /\ cTmp \in Rosters \cup {None, Directory!Torn}
    /\ queue \in [{Replica} -> Seq(Rosters)]
    /\ poisoned \in [{Replica} -> BOOLEAN]
    /\ cSlot \in [Pushers -> Pushes \cup {Rest}]
    /\ cCount \in [{"change", "failure", "restart"} -> Nat]
    /\ cCount.change <= MaxPushes
    /\ cAcked \subseteq Directory!Ids /\ late \subseteq Directory!Ids
    /\ cOverlap \in BOOLEAN /\ emptied \in BOOLEAN
    /\ \A r \in {Replica} : poisoned[r] => queue[r] = <<>>

ScimSound ==
    /\ Sound(cMemory[Replica], cCount.change, late)
    /\ stored # Directory!Torn => Sound(stored, cCount.change, late)
    /\ cTmp \notin {None, Directory!Torn} => Sound(cTmp, cCount.change, late)
    /\ \A i \in DOMAIN queue[Replica] : Sound(queue[Replica][i], cCount.change, late)
    /\ \A s \in Pushers : cSlot[s] # Rest => Sound(cSlot[s].text, cCount.change, late)

\* Who waits for the writes in the queue: the requests that are queued, in order.
Waiting(who) ==
    /\ \A i \in DOMAIN who :
          /\ Directory!At(who[i], "queued")
          /\ \A j \in DOMAIN who :
                /\ i < j => cSlot[who[i]].change < cSlot[who[j]].change
                /\ i <= j => cSlot[who[i]].change \in queue[Replica][j].changes
    /\ \A s \in Pushers : Directory!At(s, "queued") => \E i \in DOMAIN who : who[i] = s

\* The Redis back end has no file, the file back end no queue.
ScimQueue ==
    /\ \A s \in Pushers : cSlot[s] # Rest => (cSlot[s].step = "queued" <=> backend = "redis")
    /\ backend = "redis" => ~cOverlap /\ \E who \in [1 .. Len(queue[Replica]) -> Pushers] : Waiting(who)
    /\ backend = "file" => queue[Replica] = <<>>

\* As long as no two wrote the tmp file at once, the one that does wrote its text.
ScimAlone ==
    ~cOverlap =>
        /\ stored # Directory!Torn
        /\ \A s, o \in Pushers : Directory!Writing(s) /\ Directory!Writing(o) => s = o
        /\ \A s \in Pushers : cSlot[s] # Rest =>
              /\ cSlot[s].at = "tmp"
              /\ cSlot[s].step = "opened" => cTmp = Directory!Torn
              /\ cSlot[s].step = "written" => cTmp = cSlot[s].text

\* What was answered is in memory, in what is being written and in what is stored.
ScimKept ==
    /\ \A s \in Pushers : cSlot[s] # Rest =>
          /\ cSlot[s].change \in cMemory[Replica].changes
          /\ Directory!Writing(s) => cSlot[s].change \in cSlot[s].text.changes
    /\ ~cOverlap /\ ~emptied =>
          /\ cAcked \subseteq cMemory[Replica].changes
          /\ cAcked \subseteq stored.changes
          /\ \A i \in DOMAIN queue[Replica] : cAcked \subseteq queue[Replica][i].changes
          /\ \A s \in Pushers : Directory!Writing(s) => cAcked \subseteq cSlot[s].text.changes

ScimIInv == ScimTypes /\ ScimSound /\ ScimQueue /\ ScimAlone /\ ScimKept

LEMMA SoundStays ==
    ASSUME NEW d \in Rosters, NEW m \in Nat, NEW n \in Nat, m <= n, NEW old, NEW new, old \subseteq new,
           Sound(d, m, old)
    PROVE  Sound(d, n, new)
<1>1. \A x \in d.users \cup d.groups : x.id \in Nat
  BY DEF Rosters, Accounts, Teams
<1>2. \A g \in d.groups : g.members \subseteq {u.id : u \in d.users} \cup new
  BY DEF Sound
<1>3. \A x \in d.users \cup d.groups : x.id <= n
  BY <1>1 DEF Sound
<1>4. d.changes \subseteq 1 .. n
  BY DEF Sound
<1>5. \A x, y \in d.users \cup d.groups : x.id = y.id => x = y
  BY DEF Sound
<1> QED
  BY <1>2, <1>3, <1>4, <1>5 DEF Sound

\* Groups that lose members.
LEMMA SoundShrunk ==
    ASSUME NEW d \in Rosters, NEW e \in Rosters, NEW n, NEW ghosts, Sound(d, n, ghosts),
           e.users = d.users, e.changes = d.changes,
           NEW f, e.groups = {f[h] : h \in d.groups},
           \A h \in d.groups : f[h].id = h.id /\ f[h].members \subseteq h.members /\ f[h] \in Teams
    PROVE  Sound(e, n, ghosts)
<1>1. \A g \in e.groups : \E h \in d.groups : g = f[h]
  OBVIOUS
<1>2. \A g \in e.groups : g.members \subseteq {u.id : u \in e.users} \cup ghosts
  BY <1>1 DEF Sound
<1>3. \A x \in e.users \cup e.groups : x.id <= n
  BY <1>1 DEF Sound
<1>4. ASSUME NEW x \in e.users \cup e.groups, NEW y \in e.users \cup e.groups, x.id = y.id
      PROVE  x = y
  <2>1. \A z \in e.users \cup e.groups :
           \E w \in d.users \cup d.groups :
              w.id = z.id /\ (w \in d.groups => z = f[w]) /\ (w \notin d.groups => z = w)
    <3> SUFFICES ASSUME NEW z \in e.users \cup e.groups
                 PROVE  \E w \in d.users \cup d.groups :
                           w.id = z.id /\ (w \in d.groups => z = f[w]) /\ (w \notin d.groups => z = w)
      OBVIOUS
    <3>1. CASE z \in e.groups
      BY <1>1, <3>1
    <3>2. CASE z \in d.users
      <4>1. z \notin d.groups
        BY <3>2 DEF Rosters, Accounts, Teams
      <4> QED
        BY <3>2, <4>1
    <3> QED
      BY <3>1, <3>2
  <2>2. PICK v \in d.users \cup d.groups :
           v.id = x.id /\ (v \in d.groups => x = f[v]) /\ (v \notin d.groups => x = v)
    BY <2>1
  <2>3. PICK w \in d.users \cup d.groups :
           w.id = y.id /\ (w \in d.groups => y = f[w]) /\ (w \notin d.groups => y = w)
    BY <2>1
  <2>4. v = w
    BY <1>4, <2>2, <2>3 DEF Sound
  <2> QED
    BY <2>2, <2>3, <2>4
<1>5. e.changes \subseteq 1 .. n
  BY DEF Sound
<1> QED
  BY <1>2, <1>3, <1>4, <1>5 DEF Sound
LEMMA StrippedFacts ==
    ASSUME NEW q \in Seq(Rosters), NEW groups, NEW u, NEW n, NEW ghosts
    PROVE  /\ Directory!Stripped(q, groups, u) \in Seq(Rosters)
           /\ Len(Directory!Stripped(q, groups, u)) = Len(q)
           /\ \A i \in 1 .. Len(q) :
                 /\ Directory!Stripped(q, groups, u)[i].changes = q[i].changes
                 /\ Sound(q[i], n, ghosts) => Sound(Directory!Stripped(q, groups, u)[i], n, ghosts)
<1> DEFINE w == Directory!Stripped(q, groups, u)
           F(h) == IF \E g \in groups : g.id = h.id /\ g.object = h.object
                   THEN [h EXCEPT !.members = @ \ {u}] ELSE h
<1>1. \A i \in 1 .. Len(q) : q[i] \in Rosters
  OBVIOUS
<1>2. w = [i \in 1 .. Len(q) |->
             IF i = 1 THEN q[i] ELSE [q[i] EXCEPT !.groups = {F(h) : h \in @}]]
  BY DEF Directory!Stripped
<1>3. ASSUME NEW h \in Teams
      PROVE  F(h) \in Teams /\ F(h).id = h.id /\ F(h).members \subseteq h.members
  BY DEF Teams
<1> HIDE DEF w, F
<1>4. ASSUME NEW i \in 1 .. Len(q)
      PROVE  /\ w[i] \in Rosters /\ w[i].changes = q[i].changes
             /\ Sound(q[i], n, ghosts) => Sound(w[i], n, ghosts)
  <2>1. CASE i = 1
    BY <1>1, <1>2, <2>1
  <2>2. CASE i # 1
    <3> DEFINE f == [h \in q[i].groups |-> F(h)]
               e == [q[i] EXCEPT !.groups = {f[h] : h \in q[i].groups}]
    <3>1. q[i] \in Rosters /\ q[i].groups \subseteq Teams
      BY <1>1 DEF Rosters
    <3>2. {F(h) : h \in q[i].groups} = {f[h] : h \in q[i].groups}
      OBVIOUS
    <3>3. w[i] = e
      <4>1. w[i] = [q[i] EXCEPT !.groups = {F(h) : h \in q[i].groups}]
        BY <1>2, <2>2
      <4> HIDE DEF f
      <4> QED
        BY <4>1, <3>2
    <3>4. \A h \in q[i].groups : f[h].id = h.id /\ f[h].members \subseteq h.members /\ f[h] \in Teams
      BY <1>3, <3>1
    <3> HIDE DEF f
    <3>5. /\ e \in Rosters /\ e.users = q[i].users /\ e.changes = q[i].changes
          /\ e.groups = {f[h] : h \in q[i].groups}
      BY <3>1, <3>4 DEF Rosters
    <3> HIDE DEF e
    <3>6. Sound(q[i], n, ghosts) => Sound(e, n, ghosts)
      BY <3>1, <3>4, <3>5, SoundShrunk
    <3> QED
      BY <3>3, <3>5, <3>6
  <2> QED
    BY <2>1, <2>2
<1>5. w \in Seq(Rosters) /\ Len(w) = Len(q)
  BY <1>2, <1>4
<1> QED
  BY <1>4, <1>5 DEF w

----------------------------------------------------------------------------
\* What a change does: `new` is the directory in memory, `asked` the request on its way.
Committed(s, users, groups, waiting, new, asked) ==
    /\ new.users = users /\ new.groups = groups
    /\ new.changes = cMemory[Replica].changes \cup {cCount.change + 1}
    /\ asked.change = cCount.change + 1 /\ asked.at = "tmp" /\ asked.text = Directory!Empty
    /\ cMemory' = [cMemory EXCEPT ![Replica] = new]
    /\ cCount.change + 1 \in 1 .. MaxPushes
    /\ cCount' \in [{"change", "failure", "restart"} -> Nat]
    /\ cCount'.change = cCount.change + 1
    /\ \/ /\ backend = "file" /\ asked.step = "changed"
          /\ cSlot' = [cSlot EXCEPT ![s] = asked] /\ queue' = queue
       \/ backend = "redis" /\ poisoned[Replica] /\ cSlot' = cSlot /\ queue' = queue
       \/ /\ backend = "redis" /\ ~poisoned[Replica] /\ asked.step = "queued"
          /\ cSlot' = [cSlot EXCEPT ![s] = asked]
          /\ queue' = [queue EXCEPT ![Replica] = Append(waiting, new)]

LEMMA CommitEffect ==
    ASSUME ScimTypes, NEW s \in Pushers, cSlot[s] = Rest,
           NEW users \in SUBSET Accounts, NEW groups \in SUBSET Teams, NEW waiting,
           Directory!Commit(s, Replica, users, groups, waiting)
    PROVE  \E new \in Rosters, asked \in Pushes : Committed(s, users, groups, waiting, new, asked)
<1> DEFINE change == cCount.change + 1
           next   == [users |-> users, groups |-> groups,
                      changes |-> cMemory[Replica].changes \cup {change}]
           asked  == [step |-> "changed", on |-> Replica, change |-> change,
                      text |-> Directory!Empty, at |-> "tmp"]
           queued == [asked EXCEPT !.step = "queued"]
<1>1. /\ cCount.change < MaxPushes /\ cCount' = [cCount EXCEPT !["change"] = @ + 1]
      /\ cMemory' = [cMemory EXCEPT ![Replica] = next]
      /\ IF backend = "file" THEN cSlot' = [cSlot EXCEPT ![s] = asked] /\ queue' = queue
         ELSE IF poisoned[Replica] THEN cSlot' = cSlot /\ queue' = queue
         ELSE /\ cSlot' = [cSlot EXCEPT ![s] = queued]
              /\ queue' = [queue EXCEPT ![Replica] = Append(waiting, next)]
  BY DEF Directory!Commit, Directory!Counted
<1>2. cCount.change \in Nat /\ MaxPushes \in Nat
  BY ScimAssumption DEF ScimTypes
<1>3. change \in 1 .. MaxPushes
  BY <1>1, <1>2
<1>4. cMemory[Replica] \in Rosters
  BY DEF ScimTypes
<1>5. next \in Rosters
  BY <1>3, <1>4 DEF Rosters
<1>6. Directory!Empty \in Rosters
  BY DEF Directory!Empty, Rosters
<1>7. /\ asked \in Pushes /\ asked.change = change /\ asked.at = "tmp"
      /\ asked.text = Directory!Empty /\ asked.step = "changed"
  BY <1>3, <1>6 DEF Pushes
<1>8. /\ queued \in Pushes /\ queued.change = change /\ queued.at = "tmp"
      /\ queued.text = Directory!Empty /\ queued.step = "queued"
  BY <1>3, <1>6 DEF Pushes
<1>9. cCount' \in [{"change", "failure", "restart"} -> Nat] /\ cCount'.change = change
  BY <1>1, <1>2 DEF ScimTypes
<1>10. backend \in {"file", "redis"}
  BY DEF ScimTypes
<1>11. /\ next.users = users /\ next.groups = groups
       /\ next.changes = cMemory[Replica].changes \cup {change}
  OBVIOUS
<1> HIDE DEF next, asked, queued, change
<1>12. CASE backend = "file"
  BY <1>1, <1>3, <1>5, <1>7, <1>9, <1>11, <1>12 DEF change, Committed
<1>13. CASE backend # "file" /\ poisoned[Replica]
  BY <1>1, <1>3, <1>5, <1>7, <1>9, <1>10, <1>11, <1>13 DEF change, Committed
<1>14. CASE backend # "file" /\ ~poisoned[Replica]
  BY <1>1, <1>3, <1>5, <1>8, <1>9, <1>10, <1>11, <1>14 DEF change, Committed
<1> QED
  BY <1>12, <1>13, <1>14
\* What a change starts from.
Offer(s, next, waiting) ==
    /\ Sound(next, cCount.change + 1, late')
    /\ late \subseteq late' /\ late' \subseteq Directory!Ids
    /\ waiting \in Seq(Rosters) /\ Len(waiting) = Len(queue[Replica])
    /\ \A i \in 1 .. Len(waiting) :
          /\ waiting[i].changes = queue[Replica][i].changes
          /\ Sound(waiting[i], cCount.change, late)

LEMMA CommitPreserves ==
    ASSUME ScimIInv, NEW s \in Pushers, cSlot[s] = Rest,
           NEW users \in SUBSET Accounts, NEW groups \in SUBSET Teams, NEW waiting,
           Directory!Commit(s, Replica, users, groups, waiting),
           Offer(s, [users |-> users, groups |-> groups, changes |-> cMemory[Replica].changes \cup {cCount.change + 1}],
                 waiting)
    PROVE  ScimIInv'
<1> DEFINE next == [users |-> users, groups |-> groups,
                    changes |-> cMemory[Replica].changes \cup {cCount.change + 1}]
           n == cCount.change
<1>1. ScimTypes /\ ScimSound /\ ScimQueue /\ ScimAlone /\ ScimKept
  BY DEF ScimIInv
<1>0. PICK new \in Rosters, asked \in Pushes : Committed(s, users, groups, waiting, new, asked)
  BY <1>1, CommitEffect
<1>2. /\ new.users = users /\ new.groups = groups
      /\ new.changes = cMemory[Replica].changes \cup {n + 1}
      /\ asked.change = n + 1 /\ asked.at = "tmp" /\ asked.text = Directory!Empty
      /\ cMemory' = [cMemory EXCEPT ![Replica] = new]
      /\ n + 1 \in 1 .. MaxPushes
      /\ cCount' \in [{"change", "failure", "restart"} -> Nat]
      /\ cCount'.change = n + 1
      /\ \/ /\ backend = "file" /\ asked.step = "changed"
            /\ cSlot' = [cSlot EXCEPT ![s] = asked] /\ queue' = queue
         \/ backend = "redis" /\ poisoned[Replica] /\ cSlot' = cSlot /\ queue' = queue
         \/ /\ backend = "redis" /\ ~poisoned[Replica] /\ asked.step = "queued"
            /\ cSlot' = [cSlot EXCEPT ![s] = asked]
            /\ queue' = [queue EXCEPT ![Replica] = Append(waiting, new)]
  BY <1>0 DEF Committed
<1>3. UNCHANGED <<backend, stored, cTmp, poisoned, cAcked, cOverlap, emptied>>
  BY DEF Directory!Commit
<1>4. /\ Sound(new, n + 1, late')
      /\ late \subseteq late' /\ late' \subseteq Directory!Ids
      /\ waiting \in Seq(Rosters) /\ Len(waiting) = Len(queue[Replica])
      /\ \A i \in 1 .. Len(waiting) :
            /\ waiting[i].changes = queue[Replica][i].changes
            /\ Sound(waiting[i], n, late)
  <2>1. new = next
    BY <1>2 DEF Rosters
  <2> QED
    BY <2>1 DEF Offer
<1> HIDE DEF next
<1>5. n \in Nat /\ n <= n + 1 /\ n + 1 <= MaxPushes
  BY <1>1, <1>2 DEF ScimTypes
<1>6. /\ queue[Replica] \in Seq(Rosters) /\ cMemory[Replica] \in Rosters
      /\ \A o \in Pushers : cSlot[o] \in Pushes \cup {Rest}
  BY <1>1 DEF ScimTypes
<1>7. asked # Rest
  BY ScimAssumption
<1>8. /\ cMemory'[Replica] = new
      /\ \A o \in Pushers : cSlot'[o] = cSlot[o] \/ (o = s /\ cSlot'[o] = asked)
      /\ queue'[Replica] = queue[Replica] \/ queue'[Replica] = Append(waiting, new)
  BY <1>1, <1>2 DEF ScimTypes
<1>9. ScimTypes'
  <2>1. cMemory' \in [{Replica} -> Rosters] /\ cSlot' \in [Pushers -> Pushes \cup {Rest}]
    BY <1>1, <1>2 DEF ScimTypes
  <2>2. queue' \in [{Replica} -> Seq(Rosters)]
    <3>1. Append(waiting, new) \in Seq(Rosters)
      BY <1>4
    <3> QED
      BY <1>1, <1>2, <3>1 DEF ScimTypes
  <2>3. \A r \in {Replica} : poisoned'[r] => queue'[r] = <<>>
    BY <1>1, <1>2, <1>3 DEF ScimTypes
  <2>4. cCount'.change <= MaxPushes
    BY <1>2, <1>5
  <2> QED
    BY <1>1, <1>2, <1>3, <1>4, <2>1, <2>2, <2>3, <2>4 DEF ScimTypes
<1>10. Directory!Empty \in Rosters /\ \A m \in Nat : \A g : Sound(Directory!Empty, m, g)
  BY DEF Directory!Empty, Sound, Rosters
<1>11. ScimSound'
  <2>1. \A d \in Rosters : Sound(d, n, late) => Sound(d, n + 1, late')
    BY <1>4, <1>5, SoundStays
  <2>2. Sound(cMemory'[Replica], n + 1, late')
    BY <1>4, <1>8
  <2>3. stored \in Rosters \cup {Directory!Torn} /\ cTmp \in Rosters \cup {None, Directory!Torn}
    BY <1>1 DEF ScimTypes
  <2>4. \A i \in DOMAIN queue'[Replica] : Sound(queue'[Replica][i], n + 1, late')
    <3>1. CASE queue'[Replica] = queue[Replica]
      <4>1. \A i \in DOMAIN queue[Replica] : queue[Replica][i] \in Rosters /\ Sound(queue[Replica][i], n, late)
        BY <1>1, <1>6 DEF ScimSound
      <4> QED
        BY <2>1, <3>1, <4>1
    <3>2. CASE queue'[Replica] = Append(waiting, new)
      <4> DEFINE q == Append(waiting, new)
      <4>1. /\ DOMAIN q = 1 .. (Len(waiting) + 1) /\ q[Len(waiting) + 1] = new
            /\ \A i \in 1 .. Len(waiting) : q[i] = waiting[i] /\ waiting[i] \in Rosters
        BY <1>4
      <4> HIDE DEF q
      <4>2. \A i \in DOMAIN q : i \in 1 .. Len(waiting) \/ i = Len(waiting) + 1
        BY <1>4, <4>1
      <4>3. \A i \in DOMAIN q : Sound(q[i], n + 1, late')
        BY <1>4, <2>1, <4>1, <4>2
      <4> QED
        BY <3>2, <4>3 DEF q
    <3> QED
      BY <1>8, <3>1, <3>2
  <2>5. \A o \in Pushers : cSlot'[o] # Rest => Sound(cSlot'[o].text, n + 1, late')
    <3> SUFFICES ASSUME NEW o \in Pushers, cSlot'[o] # Rest
                 PROVE  Sound(cSlot'[o].text, n + 1, late')
      OBVIOUS
    <3>1. CASE cSlot'[o] = cSlot[o]
      <4>1. cSlot[o].text \in Rosters /\ Sound(cSlot[o].text, n, late)
        BY <1>1, <1>6, <3>1 DEF ScimSound, Pushes
      <4> QED
        BY <2>1, <3>1, <4>1
    <3>2. CASE o = s /\ cSlot'[o] = asked
      BY <1>2, <1>5, <1>10, <3>2
    <3> QED
      BY <1>8, <3>1, <3>2
  <2>6. (stored # Directory!Torn => Sound(stored, n + 1, late'))
        /\ (cTmp \notin {None, Directory!Torn} => Sound(cTmp, n + 1, late'))
    BY <1>1, <2>1, <2>3 DEF ScimSound
  <2> QED
    BY <1>2, <1>3, <2>2, <2>4, <2>5, <2>6 DEF ScimSound, Directory!Torn, Directory!Empty
<1>12. ScimQueue'
  <2>1. ASSUME NEW o \in Pushers, cSlot'[o] # Rest
        PROVE  cSlot'[o].step = "queued" <=> backend = "redis"
    BY <1>1, <1>2, <1>8, <2>1 DEF ScimQueue
  <2>2. ASSUME backend = "redis"
        PROVE  \E who \in [1 .. Len(queue'[Replica]) -> Pushers] : Waiting(who)'
    <3>1. PICK who \in [1 .. Len(queue[Replica]) -> Pushers] : Waiting(who)
      BY <1>1, <2>2 DEF ScimQueue
    <3>2. CASE cSlot' = cSlot /\ queue' = queue
      BY <3>1, <3>2 DEF Waiting, Directory!At
    <3>3. CASE /\ asked.step = "queued"
               /\ cSlot' = [cSlot EXCEPT ![s] = asked]
               /\ queue' = [queue EXCEPT ![Replica] = Append(waiting, new)]
      <4> DEFINE q == queue'[Replica]
      <4>0. PICK m \in Nat : m = Len(queue[Replica])
        BY <1>6
      <4>1. /\ m \in Nat /\ q = Append(waiting, new) /\ Len(q) = m + 1
            /\ \A i \in 1 .. m : q[i].changes = queue[Replica][i].changes
            /\ q[m + 1] = new
        BY <1>1, <1>4, <1>6, <3>3, <4>0 DEF ScimTypes
      <4>2. PICK whom \in [1 .. (m + 1) -> Pushers] :
              whom[m + 1] = s /\ \A i \in 1 .. m : whom[i] = who[i]
        <5> DEFINE w == [i \in 1 .. (m + 1) |-> IF i = m + 1 THEN s ELSE who[i]]
        <5>1. w \in [1 .. (m + 1) -> Pushers] /\ w[m + 1] = s /\ \A i \in 1 .. m : w[i] = who[i]
          BY <3>1, <4>0, <4>1
        <5> HIDE DEF w
        <5> QED
          BY <5>1
      <4>3. \A i \in 1 .. m : who[i] \in Pushers /\ Directory!At(who[i], "queued") /\ who[i] # s
        BY <3>1, <4>0 DEF Waiting, Directory!At
      <4>4. \A i \in 1 .. m : cSlot'[who[i]] = cSlot[who[i]]
        BY <4>3, <3>3, <1>1 DEF ScimTypes
      <4>5. cSlot'[s] = asked /\ cSlot'[s].change = n + 1
        BY <1>1, <1>2, <3>3 DEF ScimTypes
      <4>6. \A i \in 1 .. m : cSlot[who[i]].change \in cMemory[Replica].changes /\ cSlot[who[i]].change < n + 1
        <5> SUFFICES ASSUME NEW i \in 1 .. m
                     PROVE  cSlot[who[i]].change \in cMemory[Replica].changes /\ cSlot[who[i]].change < n + 1
          OBVIOUS
        <5>1. cSlot[who[i]] # Rest
          BY <4>3 DEF Directory!At
        <5>2. cSlot[who[i]].change \in cMemory[Replica].changes
          BY <1>1, <4>3, <5>1 DEF ScimKept
        <5>3. cMemory[Replica].changes \subseteq 1 .. n
          BY <1>1 DEF ScimSound, Sound
        <5>4. cSlot[who[i]].change \in 1 .. n
          BY <5>2, <5>3
        <5> QED
          BY <1>5, <5>2, <5>4
      <4>7. ASSUME NEW i \in 1 .. (m + 1)
            PROVE  Directory!At(whom[i], "queued")'
        <5>1. i \in 1 .. m \/ i = m + 1
          BY <4>1
        <5>2. CASE i = m + 1
          BY <1>7, <3>3, <4>2, <4>5, <5>2 DEF Directory!At
        <5>3. CASE i \in 1 .. m
          BY <4>2, <4>3, <4>4, <5>3 DEF Directory!At
        <5> QED
          BY <5>1, <5>2, <5>3
      <4>8. ASSUME NEW i \in 1 .. (m + 1), NEW j \in 1 .. (m + 1)
            PROVE  /\ i < j => cSlot'[whom[i]].change < cSlot'[whom[j]].change
                   /\ i <= j => cSlot'[whom[i]].change \in q[j].changes
        <5>1. CASE i \in 1 .. m /\ j \in 1 .. m
          <6>1. /\ i < j => cSlot[who[i]].change < cSlot[who[j]].change
                /\ i <= j => cSlot[who[i]].change \in queue[Replica][j].changes
            BY <3>1, <4>0, <5>1 DEF Waiting
          <6> QED
            BY <4>1, <4>2, <4>4, <5>1, <6>1
        <5>2. CASE i \in 1 .. m /\ j = m + 1
          <6>1. whom[i] = who[i] /\ whom[j] = s /\ cSlot'[who[i]] = cSlot[who[i]] /\ q[j] = new
            BY <4>1, <4>2, <4>4, <5>2
          <6>2. cSlot[who[i]].change \in new.changes /\ cSlot[who[i]].change < n + 1
            BY <1>2, <4>6, <5>2
          <6> HIDE DEF q, n
          <6> QED
            BY <4>5, <6>1, <6>2
        <5>3. CASE i = m + 1 /\ j = m + 1
          <6>1. whom[i] = s /\ q[j] = new /\ n + 1 \in new.changes
            BY <1>2, <4>1, <4>2, <5>3
          <6> HIDE DEF q
          <6> QED
            BY <4>1, <4>5, <5>3, <6>1
        <5>4. CASE i = m + 1 /\ j \in 1 .. m
          BY <4>1, <5>4
        <5> QED
          BY <4>1, <5>1, <5>2, <5>3, <5>4
      <4>9. ASSUME NEW o \in Pushers, Directory!At(o, "queued")'
            PROVE  \E i \in 1 .. (m + 1) : whom[i] = o
        <5>1. CASE o = s
          BY <4>1, <4>2, <5>1
        <5>2. CASE o # s
          <6>1. Directory!At(o, "queued")
            BY <1>8, <4>9, <5>2 DEF Directory!At
          <6>2. PICK i \in 1 .. m : who[i] = o
            BY <3>1, <4>0, <6>1 DEF Waiting
          <6> QED
            BY <4>1, <4>2, <6>2
        <5> QED
          BY <5>1, <5>2
      <4> HIDE DEF q, n
      <4>10. Waiting(whom)'
        <5>1. DOMAIN whom = 1 .. (m + 1)
          BY <4>2
        <5> QED
          BY <4>7, <4>8, <4>9, <5>1 DEF Waiting, q
      <4> QED
        BY <4>1, <4>2, <4>10 DEF q
    <3> QED
      BY <1>2, <2>2, <3>2, <3>3
  <2>3. backend = "file" => queue'[Replica] = <<>>
    BY <1>1, <1>2 DEF ScimQueue
  <2>4. backend = "redis" => ~cOverlap
    BY <1>1 DEF ScimQueue
  <2> QED
    BY <1>3, <2>1, <2>2, <2>3, <2>4 DEF ScimQueue
<1>13. ScimAlone'
  <2>1. \A o \in Pushers : Directory!Writing(o)' => Directory!Writing(o) /\ cSlot'[o] = cSlot[o]
    BY <1>2, <1>8 DEF Directory!Writing
  <2>2. \A o \in Pushers : cSlot'[o] # Rest =>
           \/ cSlot'[o] = cSlot[o]
           \/ cSlot'[o].at = "tmp" /\ cSlot'[o].step \notin {"opened", "written"}
    BY <1>2, <1>8
  <2> QED
    BY <1>1, <1>3, <2>1, <2>2 DEF ScimAlone, Directory!Torn, Directory!Empty
<1>14. ScimKept'
  <2>1. \A o \in Pushers : Directory!Writing(o)' => Directory!Writing(o) /\ cSlot'[o] = cSlot[o]
    BY <1>2, <1>8 DEF Directory!Writing
  <2>2. \A o \in Pushers : cSlot'[o] # Rest => cSlot'[o].change \in cMemory'[Replica].changes
    BY <1>1, <1>2, <1>8 DEF ScimKept
  <2>3. ASSUME ~cOverlap /\ ~emptied, NEW i \in DOMAIN queue'[Replica]
        PROVE  cAcked \subseteq queue'[Replica][i].changes
    <3>1. CASE queue'[Replica] = queue[Replica]
      BY <1>1, <2>3, <3>1 DEF ScimKept
    <3>2. CASE queue'[Replica] = Append(waiting, new)
      <4> DEFINE m == Len(waiting)
                 q == Append(waiting, new)
      <4>1. /\ DOMAIN q = 1 .. (m + 1) /\ q[m + 1] = new /\ m \in Nat
            /\ \A k \in 1 .. m : q[k] = waiting[k]
        BY <1>4
      <4>2. \A k \in 1 .. m : cAcked \subseteq waiting[k].changes
        BY <1>1, <1>4, <1>6, <2>3 DEF ScimKept
      <4>3. cAcked \subseteq new.changes
        BY <1>1, <1>2, <2>3 DEF ScimKept
      <4> HIDE DEF q, m
      <4>4. i \in 1 .. m \/ i = m + 1
        BY <2>3, <3>2, <4>1 DEF q
      <4> QED
        BY <3>2, <4>1, <4>2, <4>3, <4>4 DEF q
    <3> QED
      BY <1>8, <3>1, <3>2
  <2>4. ~cOverlap /\ ~emptied => cAcked \subseteq cMemory'[Replica].changes
    BY <1>1, <1>2, <1>8 DEF ScimKept
  <2>5. \A o \in Pushers : cSlot'[o] # Rest /\ Directory!Writing(o)' => cSlot'[o].change \in cSlot'[o].text.changes
    BY <1>1, <2>1 DEF ScimKept, Directory!Writing
  <2> QED
    BY <1>1, <1>3, <2>1, <2>2, <2>3, <2>4, <2>5 DEF ScimKept
<1> QED
  BY <1>9, <1>11, <1>12, <1>13, <1>14 DEF ScimIInv

----------------------------------------------------------------------------
\* The changes the provider pushes.
LEMMA QueueOffered ==
    ASSUME ScimIInv
    PROVE  /\ queue[Replica] \in Seq(Rosters)
           /\ \A i \in 1 .. Len(queue[Replica]) : Sound(queue[Replica][i], cCount.change, late)
BY DEF ScimIInv, ScimTypes, ScimSound

LEMMA MemoryFacts ==
    ASSUME ScimIInv
    PROVE  /\ cMemory[Replica] \in Rosters /\ cMemory[Replica].users \subseteq Accounts
           /\ cMemory[Replica].groups \subseteq Teams
           /\ Sound(cMemory[Replica], cCount.change, late)
           /\ cCount.change \in Nat /\ late \subseteq Directory!Ids
BY DEF ScimIInv, ScimTypes, ScimSound, Rosters

LEMMA CreateUserPreserves ==
    ASSUME ScimIInv, NEW s \in Pushers, NEW name \in UserNames, Directory!CreateUser(s, Replica, name)
    PROVE  ScimIInv'
<1> DEFINE m == cMemory[Replica]
           n == cCount.change
           user == [id |-> n + 1, name |-> name]
           users == m.users \cup {user}
<1>1. /\ cSlot[s] = Rest /\ late' = late
      /\ Directory!Commit(s, Replica, users, m.groups, queue[Replica])
  BY DEF Directory!CreateUser
<1>2. /\ m \in Rosters /\ m.users \subseteq Accounts /\ m.groups \subseteq Teams /\ Sound(m, n, late)
      /\ n \in Nat /\ late \subseteq Directory!Ids
  BY MemoryFacts
<1>3. n + 1 \in 1 .. MaxPushes
  BY <1>1, <1>2, ScimAssumption DEF Directory!Commit, Directory!Counted
<1>4. users \in SUBSET Accounts
  BY <1>2, <1>3 DEF Accounts
<1>5. user.id = n + 1 /\ \A x \in m.users \cup m.groups : x.id <= n /\ x.id \in Nat
  BY <1>2 DEF Sound, Accounts, Teams
<1> HIDE DEF m, n, user
<1> DEFINE next == [users |-> users, groups |-> m.groups, changes |-> m.changes \cup {n + 1}]
<1>6. Sound(next, n + 1, late)
  <2>1. \A g \in m.groups : g.members \subseteq {u.id : u \in users} \cup late
    BY <1>2 DEF Sound
  <2>2. \A x \in users \cup m.groups : x.id <= n + 1
    BY <1>2, <1>5
  <2>3. \A x, y \in users \cup m.groups : x.id = y.id => x = y
    <3>1. \A x \in m.users \cup m.groups : x.id # n + 1
      BY <1>2, <1>5
    <3> QED
      BY <1>2, <1>5, <3>1 DEF Sound
  <2>4. next.changes \subseteq 1 .. (n + 1)
    BY <1>2 DEF Sound
  <2> HIDE DEF users
  <2> QED
    BY <2>1, <2>2, <2>3, <2>4 DEF Sound
<1>7. Offer(s, next, queue[Replica])
  BY <1>1, <1>2, <1>6, QueueOffered DEF Offer, n
<1> QED
  BY <1>1, <1>2, <1>4, <1>7, CommitPreserves DEF m, n

LEMMA UpdateUserPreserves ==
    ASSUME ScimIInv, NEW s \in Pushers, NEW user \in cMemory[Replica].users, NEW name \in UserNames,
           Directory!UpdateUser(s, Replica, user, name)
    PROVE  ScimIInv'
<1> DEFINE m == cMemory[Replica]
           n == cCount.change
           renamed == [user EXCEPT !.name = name]
           users == (m.users \ {user}) \cup {renamed}
<1>1. /\ cSlot[s] = Rest /\ late' = late
      /\ Directory!Commit(s, Replica, users, m.groups, queue[Replica])
  BY DEF Directory!UpdateUser
<1>2. /\ m \in Rosters /\ m.users \subseteq Accounts /\ m.groups \subseteq Teams /\ Sound(m, n, late)
      /\ n \in Nat /\ late \subseteq Directory!Ids /\ user \in m.users
  BY MemoryFacts
<1>3. renamed \in Accounts /\ renamed.id = user.id
  BY <1>2 DEF Accounts
<1>4. users \in SUBSET Accounts
  BY <1>2, <1>3
<1>5. \A x \in m.users \cup m.groups : x.id <= n /\ x.id \in Nat
  BY <1>2 DEF Sound, Accounts, Teams
<1>6. m.groups \cap m.users = {}
  BY <1>2 DEF Accounts, Teams
<1> HIDE DEF m, n, renamed
<1> DEFINE next == [users |-> users, groups |-> m.groups, changes |-> m.changes \cup {n + 1}]
<1>7. Sound(next, n + 1, late)
  <2>1. {u.id : u \in m.users} \subseteq {u.id : u \in users}
    BY <1>3
  <2>2. \A g \in m.groups : g.members \subseteq {u.id : u \in users} \cup late
    BY <1>2, <2>1 DEF Sound
  <2>3. \A x \in users \cup m.groups : x.id <= n + 1
    BY <1>2, <1>3, <1>5
  <2>4. \A x \in users \cup m.groups : x.id = user.id => x = renamed
    BY <1>2, <1>3, <1>6 DEF Sound
  <2>5. \A x, y \in users \cup m.groups : x.id = y.id => x = y
    BY <1>2, <1>3, <2>4 DEF Sound
  <2>6. next.changes \subseteq 1 .. (n + 1)
    BY <1>2 DEF Sound
  <2> HIDE DEF users
  <2> QED
    BY <2>2, <2>3, <2>5, <2>6 DEF Sound
<1>8. Offer(s, next, queue[Replica])
  BY <1>1, <1>2, <1>7, QueueOffered DEF Offer, n
<1> QED
  BY <1>1, <1>2, <1>4, <1>8, CommitPreserves DEF m, n

LEMMA DeleteUserPreserves ==
    ASSUME ScimIInv, NEW s \in Pushers, NEW user \in cMemory[Replica].users,
           Directory!DeleteUser(s, Replica, user)
    PROVE  ScimIInv'
<1> DEFINE m == cMemory[Replica]
           n == cCount.change
           f == [g \in m.groups |-> [g EXCEPT !.members = @ \ {user.id}]]
           groups == {f[g] : g \in m.groups}
           waiting == Directory!Stripped(queue[Replica], m.groups, user.id)
<1>1. Directory!Without(m.groups, user.id) = groups
  BY DEF Directory!Without
<1>2. /\ cSlot[s] = Rest /\ late' = late
      /\ Directory!Commit(s, Replica, m.users \ {user}, groups, waiting)
  BY <1>1 DEF Directory!DeleteUser
<1>3. /\ m \in Rosters /\ m.users \subseteq Accounts /\ m.groups \subseteq Teams /\ Sound(m, n, late)
      /\ n \in Nat /\ n <= n + 1 /\ late \subseteq Directory!Ids /\ user \in m.users
  BY MemoryFacts
<1>4. \A g \in m.groups : /\ f[g].id = g.id /\ f[g].members = g.members \ {user.id} /\ f[g] \in Teams
                          /\ f[g].members \subseteq g.members
  BY <1>3 DEF Teams
<1>5. m.users \ {user} \in SUBSET Accounts /\ groups \in SUBSET Teams
  <2> HIDE DEF f
  <2>1. groups \subseteq Teams
    BY <1>4
  <2> QED
    BY <1>3, <2>1
<1>6. queue[Replica] \in Seq(Rosters)
  BY QueueOffered
<1> HIDE DEF m, n, f
<1> DEFINE next == [users |-> m.users \ {user}, groups |-> groups, changes |-> m.changes \cup {n + 1}]
           d == [users |-> m.users, groups |-> groups, changes |-> m.changes]
<1>7. Sound(d, n, late)
  <2>1. d \in Rosters /\ d.users = m.users /\ d.changes = m.changes /\ d.groups = groups
    BY <1>3, <1>5 DEF Rosters
  <2> HIDE DEF d
  <2> QED
    BY <1>3, <1>4, <2>1, SoundShrunk
<1>8. Sound(next, n + 1, late)
  <2>1. \A g \in groups : g.members \subseteq {u.id : u \in m.users \ {user}} \cup late
    <3> SUFFICES ASSUME NEW h \in m.groups, NEW i \in f[h].members, i \notin late
                 PROVE  i \in {u.id : u \in m.users \ {user}}
      OBVIOUS
    <3>1. i \in h.members /\ i # user.id
      BY <1>4
    <3>2. PICK u \in m.users : u.id = i
      BY <1>3, <3>1 DEF Sound
    <3> QED
      BY <3>1, <3>2
  <2>2. \A x \in m.users \cup groups : x.id <= n /\ x.id \in Nat
    BY <1>3, <1>5, <1>7 DEF Sound, Accounts, Teams
  <2>3. \A x \in (m.users \ {user}) \cup groups : x.id <= n + 1
    BY <1>3, <2>2
  <2>4. \A x, y \in (m.users \ {user}) \cup groups : x.id = y.id => x = y
    BY <1>7 DEF Sound
  <2>5. next.changes \subseteq 1 .. (n + 1)
    BY <1>3 DEF Sound
  <2> HIDE DEF groups
  <2> QED
    BY <2>1, <2>3, <2>4, <2>5 DEF Sound
<1>9. Offer(s, next, waiting)
  <2>1. \A i \in 1 .. Len(queue[Replica]) : Sound(queue[Replica][i], n, late)
    BY QueueOffered DEF n
  <2>2. /\ waiting \in Seq(Rosters) /\ Len(waiting) = Len(queue[Replica])
        /\ \A i \in 1 .. Len(waiting) :
              waiting[i].changes = queue[Replica][i].changes /\ Sound(waiting[i], n, late)
    <3>1. /\ waiting \in Seq(Rosters) /\ Len(waiting) = Len(queue[Replica])
          /\ \A i \in 1 .. Len(queue[Replica]) :
                /\ waiting[i].changes = queue[Replica][i].changes
                /\ Sound(queue[Replica][i], n, late) => Sound(waiting[i], n, late)
      BY <1>6, StrippedFacts
    <3> HIDE DEF waiting
    <3> QED
      BY <2>1, <3>1
  <2> HIDE DEF waiting
  <2> QED
    BY <1>2, <1>3, <1>8, <2>2 DEF Offer, n
<1> HIDE DEF groups, waiting
<1> QED
  BY <1>2, <1>3, <1>5, <1>9, CommitPreserves DEF m, n

LEMMA GoneFacts ==
    ASSUME ScimIInv, NEW members
    PROVE  /\ members \subseteq {u.id : u \in cMemory[Replica].users} \cup Directory!Gone(Replica, members)
           /\ Directory!Gone(Replica, members) \subseteq members
BY DEF Directory!Gone

LEMMA CreateGroupPreserves ==
    ASSUME ScimIInv, NEW s \in Pushers, NEW members \in SUBSET (1 .. cCount.change),
           Directory!CreateGroup(s, Replica, members)
    PROVE  ScimIInv'
<1> DEFINE m == cMemory[Replica]
           n == cCount.change
           group == [id |-> n + 1, object |-> n + 1, members |-> members]
           groups == m.groups \cup {group}
<1>1. /\ cSlot[s] = Rest /\ late' = late \cup Directory!Gone(Replica, members)
      /\ Directory!Commit(s, Replica, m.users, groups, queue[Replica])
  BY DEF Directory!CreateGroup
<1>2. /\ m \in Rosters /\ m.users \subseteq Accounts /\ m.groups \subseteq Teams /\ Sound(m, n, late)
      /\ n \in Nat /\ late \subseteq Directory!Ids
  BY MemoryFacts
<1>3. n + 1 \in 1 .. MaxPushes
  BY <1>1, <1>2, ScimAssumption DEF Directory!Commit, Directory!Counted
<1>4. members \subseteq 1 .. MaxPushes
  <2>1. members \subseteq 1 .. n
    OBVIOUS
  <2> HIDE DEF n
  <2>2. \A i \in 1 .. n : i \in 1 .. MaxPushes
    BY <1>2, <1>3, ScimAssumption
  <2> QED
    BY <2>1, <2>2
<1>5. groups \in SUBSET Teams
  <2>1. group \in Teams
    BY <1>3, <1>4 DEF Teams
  <2> HIDE DEF group
  <2> QED
    BY <1>2, <2>1
<1>6. group.id = n + 1 /\ group.members = members /\ \A x \in m.users \cup m.groups : x.id <= n /\ x.id \in Nat
  BY <1>2 DEF Sound, Accounts, Teams
<1>7. late' \subseteq Directory!Ids /\ members \subseteq {u.id : u \in m.users} \cup late'
  BY <1>1, <1>2, <1>4, GoneFacts DEF Directory!Ids
<1> HIDE DEF m, n, group
<1> DEFINE next == [users |-> m.users, groups |-> groups, changes |-> m.changes \cup {n + 1}]
<1>8. Sound(next, n + 1, late')
  <2>1. \A g \in groups : g.members \subseteq {u.id : u \in m.users} \cup late'
    BY <1>1, <1>2, <1>6, <1>7 DEF Sound
  <2>2. \A x \in m.users \cup groups : x.id <= n + 1
    BY <1>2, <1>6
  <2>3. \A x, y \in m.users \cup groups : x.id = y.id => x = y
    <3>1. \A x \in m.users \cup m.groups : x.id # n + 1
      BY <1>2, <1>6
    <3> QED
      BY <1>2, <1>6, <3>1 DEF Sound
  <2>4. next.changes \subseteq 1 .. (n + 1)
    BY <1>2 DEF Sound
  <2> HIDE DEF groups
  <2> QED
    BY <2>1, <2>2, <2>3, <2>4 DEF Sound
<1>9. Offer(s, next, queue[Replica])
  BY <1>1, <1>2, <1>7, <1>8, QueueOffered DEF Offer, n
<1> QED
  BY <1>1, <1>2, <1>5, <1>9, CommitPreserves DEF m, n

LEMMA UpdateGroupPreserves ==
    ASSUME ScimIInv, NEW s \in Pushers, NEW group \in cMemory[Replica].groups,
           NEW one \in 1 .. cCount.change, NEW members \in Directory!ApplyPatchOps(group.members, one),
           Directory!UpdateGroup(s, Replica, group, members)
    PROVE  ScimIInv'
<1> DEFINE m == cMemory[Replica]
           n == cCount.change
           changed == [group EXCEPT !.object = n + 1, !.members = members]
           groups == (m.groups \ {group}) \cup {changed}
<1>1. /\ cSlot[s] = Rest /\ late' = late \cup Directory!Gone(Replica, members \ group.members)
      /\ Directory!Commit(s, Replica, m.users, groups, queue[Replica])
  BY DEF Directory!UpdateGroup
<1>2. /\ m \in Rosters /\ m.users \subseteq Accounts /\ m.groups \subseteq Teams /\ Sound(m, n, late)
      /\ n \in Nat /\ late \subseteq Directory!Ids /\ group \in m.groups /\ group \in Teams
  BY MemoryFacts
<1>3. n + 1 \in 1 .. MaxPushes
  BY <1>1, <1>2, ScimAssumption DEF Directory!Commit, Directory!Counted
<1>4. members \subseteq 1 .. MaxPushes
  <2>1. one \in 1 .. MaxPushes
    <3>1. one \in 1 .. n
      OBVIOUS
    <3> HIDE DEF n
    <3> QED
      BY <1>2, <1>3, <3>1, ScimAssumption
  <2>2. group.members \subseteq 1 .. MaxPushes
    BY <1>2 DEF Teams
  <2> QED
    BY <2>1, <2>2 DEF Directory!ApplyPatchOps
<1>5. changed \in Teams /\ changed.id = group.id /\ changed.members = members
  BY <1>2, <1>3, <1>4 DEF Teams
<1>6. groups \in SUBSET Teams
  BY <1>2, <1>5
<1>7. \A x \in m.users \cup m.groups : x.id <= n /\ x.id \in Nat
  BY <1>2 DEF Sound, Accounts, Teams
<1>8. late' \subseteq Directory!Ids /\ members \subseteq {u.id : u \in m.users} \cup late'
  <2>1. group.members \subseteq {u.id : u \in m.users} \cup late
    BY <1>2 DEF Sound
  <2>2. members \ group.members \subseteq {u.id : u \in m.users} \cup Directory!Gone(Replica, members \ group.members)
    BY GoneFacts
  <2>3. Directory!Gone(Replica, members \ group.members) \subseteq Directory!Ids
    BY <1>4, GoneFacts DEF Directory!Ids
  <2> QED
    BY <1>1, <1>2, <2>1, <2>2, <2>3
<1>9. m.groups \cap m.users = {}
  BY <1>2 DEF Accounts, Teams
<1> HIDE DEF m, n, changed
<1> DEFINE next == [users |-> m.users, groups |-> groups, changes |-> m.changes \cup {n + 1}]
<1>10. Sound(next, n + 1, late')
  <2>1. \A g \in groups : g.members \subseteq {u.id : u \in m.users} \cup late'
    BY <1>1, <1>2, <1>5, <1>8 DEF Sound
  <2>2. \A x \in m.users \cup groups : x.id <= n + 1
    BY <1>2, <1>5, <1>7
  <2>3. \A x \in m.users \cup groups : x.id = group.id => x = changed
    BY <1>2, <1>5, <1>9 DEF Sound
  <2>4. \A x, y \in m.users \cup groups : x.id = y.id => x = y
    BY <1>2, <1>5, <2>3 DEF Sound
  <2>5. next.changes \subseteq 1 .. (n + 1)
    BY <1>2 DEF Sound
  <2> HIDE DEF groups
  <2> QED
    BY <2>1, <2>2, <2>4, <2>5 DEF Sound
<1>11. Offer(s, next, queue[Replica])
  BY <1>1, <1>2, <1>8, <1>10, QueueOffered DEF Offer, n
<1> QED
  BY <1>1, <1>2, <1>6, <1>11, CommitPreserves DEF m, n

LEMMA DeleteGroupPreserves ==
    ASSUME ScimIInv, NEW s \in Pushers, NEW group \in cMemory[Replica].groups,
           Directory!DeleteGroup(s, Replica, group)
    PROVE  ScimIInv'
<1> DEFINE m == cMemory[Replica]
           n == cCount.change
           groups == m.groups \ {group}
           next == [users |-> m.users, groups |-> groups, changes |-> m.changes \cup {n + 1}]
<1>1. /\ cSlot[s] = Rest /\ late' = late
      /\ Directory!Commit(s, Replica, m.users, groups, queue[Replica])
  BY DEF Directory!DeleteGroup
<1>2. /\ m \in Rosters /\ m.users \subseteq Accounts /\ m.groups \subseteq Teams /\ Sound(m, n, late)
      /\ n \in Nat /\ late \subseteq Directory!Ids
  BY MemoryFacts
<1>3. \A x \in m.users \cup m.groups : x.id <= n /\ x.id \in Nat
  BY <1>2 DEF Sound, Accounts, Teams
<1> HIDE DEF m, n
<1>4. Sound(next, n + 1, late)
  <2>1. \A x \in m.users \cup groups : x.id <= n + 1
    BY <1>2, <1>3
  <2>2. next.changes \subseteq 1 .. (n + 1)
    BY <1>2 DEF Sound
  <2> QED
    BY <1>2, <2>1, <2>2 DEF Sound
<1>5. Offer(s, next, queue[Replica])
  BY <1>1, <1>2, <1>4, QueueOffered DEF Offer, n
<1> QED
  BY <1>1, <1>2, <1>5, CommitPreserves DEF m, n

----------------------------------------------------------------------------
\* The steps of a request that was taken.
LEMMA SlotFacts ==
    ASSUME ScimIInv, NEW s \in Pushers, cSlot[s] # Rest
    PROVE  /\ cSlot[s] \in Pushes /\ cSlot[s].text \in Rosters /\ cSlot[s].on = Replica
           /\ Sound(cSlot[s].text, cCount.change, late)
           /\ cSlot[s].change \in cMemory[Replica].changes
           /\ cSlot[s].change \in 1 .. MaxPushes
           /\ cSlot[s].step # "queued" => backend = "file" /\ queue[Replica] = <<>>
           /\ cSlot[s].step = "queued" => backend = "redis"
<1>1. cSlot[s] \in Pushes
  BY DEF ScimIInv, ScimTypes
<1>2. backend \in {"file", "redis"}
  BY DEF ScimIInv, ScimTypes
<1> QED
  BY <1>1, <1>2 DEF ScimIInv, ScimSound, ScimQueue, ScimKept, Pushes

\* With no Redis write and no change of memory, a step of the file back end keeps most.
LEMMA FileStep ==
    ASSUME ScimIInv, NEW s \in Pushers, cSlot[s] # Rest, cSlot[s].step # "queued",
           UNCHANGED <<cMemory, backend, queue, poisoned, late, emptied>>,
           cCount' \in [{"change", "failure", "restart"} -> Nat], cCount'.change = cCount.change,
           stored' \in Rosters \cup {Directory!Torn}, cTmp' \in Rosters \cup {None, Directory!Torn},
           stored' # Directory!Torn => Sound(stored', cCount.change, late),
           cTmp' \notin {None, Directory!Torn} => Sound(cTmp', cCount.change, late),
           cAcked' \subseteq Directory!Ids, cOverlap' \in BOOLEAN,
           cSlot' \in [Pushers -> Pushes \cup {Rest}],
           \A o \in Pushers : cSlot'[o] # Rest =>
              /\ cSlot[o] # Rest /\ cSlot'[o].step # "queued" /\ cSlot'[o].change = cSlot[o].change
              /\ cSlot'[o].text \in {cSlot[o].text, cMemory[Replica]}
    PROVE  /\ ScimTypes' /\ ScimSound' /\ ScimQueue'
           /\ \A o \in Pushers : cSlot'[o] # Rest => cSlot'[o].change \in cMemory'[Replica].changes
<1>1. ScimTypes /\ ScimSound /\ ScimQueue /\ ScimKept
  BY DEF ScimIInv
<1>2. backend = "file" /\ queue[Replica] = <<>>
  BY SlotFacts
<1>3. ScimTypes'
  BY <1>1 DEF ScimTypes
<1>4. \A o \in Pushers : cSlot'[o] # Rest => Sound(cSlot'[o].text, cCount.change, late)
  BY <1>1 DEF ScimSound
<1>5. ScimSound'
  BY <1>1, <1>4 DEF ScimSound, Directory!Torn, Directory!Empty
<1>6. ScimQueue'
  BY <1>2 DEF ScimQueue
<1> QED
  BY <1>1, <1>3, <1>5, <1>6 DEF ScimKept

LEMMA SerialisePreserves ==
    ASSUME ScimIInv, NEW s \in Pushers, Directory!Serialise(s)
    PROVE  ScimIInv'
<1> DEFINE new == [cSlot[s] EXCEPT !.step = "serialised", !.text = cMemory[Replica]]
<1>1. /\ cSlot[s] # Rest /\ cSlot[s].step = "changed"
      /\ cSlot' = [cSlot EXCEPT ![s].step = "serialised", ![s].text = cMemory[cSlot[s].on]]
      /\ cOverlap' = (cOverlap \/ \E o \in Pushers \ {s} : Directory!Writing(o))
      /\ UNCHANGED <<cMemory, backend, stored, cTmp, queue, poisoned, cCount, cAcked, late, emptied>>
  BY DEF Directory!Serialise, Directory!At, Directory!store
<1>2. ScimTypes /\ ScimSound /\ ScimAlone /\ ScimKept
  BY DEF ScimIInv
<1>3. cSlot[s] \in Pushes /\ cSlot[s].on = Replica /\ cMemory[Replica] \in Rosters
  BY <1>1, SlotFacts, MemoryFacts
<1>4. /\ new \in Pushes /\ new.step = "serialised" /\ new.text = cMemory[Replica]
      /\ new.change = cSlot[s].change /\ new.at = cSlot[s].at
  BY <1>3 DEF Pushes
<1>5. cSlot' = [cSlot EXCEPT ![s] = new]
  BY <1>1, <1>3
<1> HIDE DEF new
<1>6. new # Rest
  BY <1>4, ScimAssumption
<1>7. \A o \in Pushers : cSlot'[o] = IF o = s THEN new ELSE cSlot[o]
  BY <1>2, <1>5 DEF ScimTypes
<1>8. cSlot' \in [Pushers -> Pushes \cup {Rest}]
  BY <1>2, <1>4, <1>5 DEF ScimTypes
<1>9. /\ ScimTypes' /\ ScimSound' /\ ScimQueue'
      /\ \A o \in Pushers : cSlot'[o] # Rest => cSlot'[o].change \in cMemory'[Replica].changes
  <2>1. \A o \in Pushers : cSlot'[o] # Rest =>
           /\ cSlot[o] # Rest /\ cSlot'[o].step # "queued" /\ cSlot'[o].change = cSlot[o].change
           /\ cSlot'[o].text \in {cSlot[o].text, cMemory[Replica]}
    <3>1. \A o \in Pushers : cSlot[o] # Rest => cSlot[o].step # "queued"
      BY <1>1, SlotFacts
    <3> QED
      BY <1>1, <1>4, <1>7, <3>1
  <2>2. cOverlap' \in BOOLEAN
    BY <1>1, <1>2 DEF ScimTypes
  <2> QED
    BY <1>1, <1>2, <1>8, <2>1, <2>2, FileStep DEF ScimTypes, ScimSound
<1>10. ScimAlone'
  <2> SUFFICES ASSUME ~cOverlap'
               PROVE  /\ stored # Directory!Torn
                      /\ \A t, o \in Pushers : Directory!Writing(t)' /\ Directory!Writing(o)' => t = o
                      /\ \A o \in Pushers : cSlot'[o] # Rest =>
                            /\ cSlot'[o].at = "tmp"
                            /\ cSlot'[o].step = "opened" => cTmp = Directory!Torn
                            /\ cSlot'[o].step = "written" => cTmp = cSlot'[o].text
    BY <1>1 DEF ScimAlone, Directory!Torn, Directory!Empty
  <2>1. ~cOverlap /\ \A o \in Pushers \ {s} : ~Directory!Writing(o)
    BY <1>1
  <2>2. \A o \in Pushers : Directory!Writing(o)' => o = s
    BY <1>7, <2>1 DEF Directory!Writing
  <2>3. \A o \in Pushers : cSlot'[o] # Rest =>
           /\ cSlot'[o].at = "tmp"
           /\ cSlot'[o].step = "opened" => cTmp = Directory!Torn
           /\ cSlot'[o].step = "written" => cTmp = cSlot'[o].text
    BY <1>1, <1>2, <1>4, <1>7, <2>1 DEF ScimAlone
  <2> QED
    BY <1>2, <2>1, <2>2, <2>3 DEF ScimAlone
<1>11. ScimKept'
  <2>1. \A o \in Pushers : Directory!Writing(o)' =>
           IF o = s THEN cSlot'[o].text = cMemory[Replica] /\ cSlot'[o].change = cSlot[s].change
           ELSE Directory!Writing(o) /\ cSlot'[o] = cSlot[o]
    BY <1>4, <1>7 DEF Directory!Writing
  <2>2. cSlot[s].change \in cMemory[Replica].changes
    BY <1>1, SlotFacts
  <2>3. \A o \in Pushers : cSlot'[o] # Rest /\ Directory!Writing(o)' => cSlot'[o].change \in cSlot'[o].text.changes
    BY <1>2, <2>1, <2>2 DEF ScimKept, Directory!Writing
  <2>4. ~cOverlap' => ~cOverlap
    BY <1>1
  <2>5. ~cOverlap /\ ~emptied => \A o \in Pushers : Directory!Writing(o)' => cAcked \subseteq cSlot'[o].text.changes
    BY <1>2, <2>1 DEF ScimKept
  <2> QED
    BY <1>1, <1>2, <1>9, <2>3, <2>4, <2>5 DEF ScimKept
<1> QED
  BY <1>9, <1>10, <1>11 DEF ScimIInv

LEMMA OpenPreserves ==
    ASSUME ScimIInv, NEW s \in Pushers, Directory!Open(s)
    PROVE  ScimIInv'
<1> DEFINE new == [cSlot[s] EXCEPT !.step = "opened"]
<1>1. /\ cSlot[s] # Rest /\ cSlot[s].step = "serialised"
      /\ cTmp' = Directory!Torn
      /\ cSlot' = [cSlot EXCEPT ![s] = new]
      /\ UNCHANGED <<cMemory, backend, stored, queue, poisoned, cCount, cAcked, late, cOverlap, emptied>>
  BY DEF Directory!Open, Directory!At, Directory!history
<1>2. ScimTypes /\ ScimSound /\ ScimAlone /\ ScimKept
  BY DEF ScimIInv
<1>3. cSlot[s] \in Pushes
  BY <1>1, SlotFacts
<1>4. /\ new \in Pushes /\ new.step = "opened" /\ new.text = cSlot[s].text
      /\ new.change = cSlot[s].change /\ new.at = cSlot[s].at
  BY <1>3 DEF Pushes
<1> HIDE DEF new
<1>5. new # Rest
  BY <1>4, ScimAssumption
<1>6. \A o \in Pushers : cSlot'[o] = IF o = s THEN new ELSE cSlot[o]
  BY <1>1, <1>2 DEF ScimTypes
<1>7. cSlot' \in [Pushers -> Pushes \cup {Rest}]
  BY <1>1, <1>2, <1>4 DEF ScimTypes
<1>8. /\ ScimTypes' /\ ScimSound' /\ ScimQueue'
      /\ \A o \in Pushers : cSlot'[o] # Rest => cSlot'[o].change \in cMemory'[Replica].changes
  <2>1. \A o \in Pushers : cSlot'[o] # Rest =>
           /\ cSlot[o] # Rest /\ cSlot'[o].step # "queued" /\ cSlot'[o].change = cSlot[o].change
           /\ cSlot'[o].text \in {cSlot[o].text, cMemory[Replica]}
    <3>1. \A o \in Pushers : cSlot[o] # Rest => cSlot[o].step # "queued"
      BY <1>1, SlotFacts
    <3> QED
      BY <1>1, <1>4, <1>6, <3>1
  <2> QED
    BY <1>1, <1>2, <1>7, <2>1, FileStep DEF ScimTypes, ScimSound
<1>9. Directory!Torn' = Directory!Torn
  BY DEF Directory!Torn, Directory!Empty
<1>10. \A o \in Pushers : Directory!Writing(o)' <=> Directory!Writing(o)
  BY <1>1, <1>4, <1>5, <1>6 DEF Directory!Writing
<1>11. ScimAlone'
  <2> SUFFICES ASSUME ~cOverlap
               PROVE  /\ stored # Directory!Torn
                      /\ \A t, o \in Pushers : Directory!Writing(t)' /\ Directory!Writing(o)' => t = o
                      /\ \A o \in Pushers : cSlot'[o] # Rest =>
                            /\ cSlot'[o].at = "tmp"
                            /\ cSlot'[o].step = "opened" => cTmp' = Directory!Torn
                            /\ cSlot'[o].step = "written" => cTmp' = cSlot'[o].text
    BY <1>1, <1>9 DEF ScimAlone
  <2>1. \A o \in Pushers \ {s} : ~Directory!Writing(o)
    BY <1>1, <1>2 DEF ScimAlone, Directory!Writing
  <2>2. \A o \in Pushers : cSlot'[o] # Rest =>
           /\ cSlot'[o].at = "tmp"
           /\ cSlot'[o].step = "opened" => cTmp' = Directory!Torn
           /\ cSlot'[o].step = "written" => cTmp' = cSlot'[o].text
    BY <1>1, <1>2, <1>4, <1>6, <2>1 DEF ScimAlone, Directory!Writing
  <2> QED
    BY <1>2, <1>10, <2>2 DEF ScimAlone
<1>12. ScimKept'
  <2>1. \A o \in Pushers : cSlot'[o] # Rest => cSlot'[o].text = cSlot[o].text /\ cSlot'[o].change = cSlot[o].change
    BY <1>1, <1>4, <1>6
  <2>2. \A o \in Pushers : Directory!Writing(o) => cSlot[o] # Rest
    BY DEF Directory!Writing
  <2>3. \A o \in Pushers : Directory!Writing(o)' => cSlot'[o] # Rest
    BY DEF Directory!Writing
  <2> QED
    BY <1>1, <1>2, <1>8, <1>10, <2>1, <2>2, <2>3 DEF ScimKept
<1> QED
  BY <1>8, <1>11, <1>12 DEF ScimIInv

LEMMA WritePreserves ==
    ASSUME ScimIInv, NEW s \in Pushers, NEW mixed \in BOOLEAN, Directory!Write(s, mixed)
    PROVE  ScimIInv'
<1> DEFINE new == [cSlot[s] EXCEPT !.step = "written"]
           text == IF mixed THEN Directory!Torn ELSE cSlot[s].text
<1>1. /\ cSlot[s] # Rest /\ cSlot[s].step = "opened"
      /\ \/ cSlot[s].at = "tmp" /\ (mixed => cTmp # Directory!Torn) /\ cTmp' = text /\ stored' = stored
         \/ cSlot[s].at = "path" /\ (mixed => stored # Directory!Torn) /\ stored' = text /\ cTmp' = cTmp
         \/ cSlot[s].at = "lost" /\ ~mixed /\ stored' = stored /\ cTmp' = cTmp
      /\ cSlot' = [cSlot EXCEPT ![s] = new]
      /\ UNCHANGED <<cMemory, backend, queue, poisoned, cCount, cAcked, late, cOverlap, emptied>>
  BY DEF Directory!Write, Directory!At, Directory!history
<1>2. ScimTypes /\ ScimSound /\ ScimAlone /\ ScimKept
  BY DEF ScimIInv
<1>3. cSlot[s] \in Pushes /\ cSlot[s].text \in Rosters /\ Sound(cSlot[s].text, cCount.change, late)
  BY <1>1, SlotFacts
<1>4. /\ new \in Pushes /\ new.step = "written" /\ new.text = cSlot[s].text
      /\ new.change = cSlot[s].change /\ new.at = cSlot[s].at
  BY <1>3 DEF Pushes
<1>5. text \in Rosters \cup {Directory!Torn} /\ (text # Directory!Torn => Sound(text, cCount.change, late))
  BY <1>3
<1> HIDE DEF new
<1>6. new # Rest
  BY <1>4, ScimAssumption
<1>7. \A o \in Pushers : cSlot'[o] = IF o = s THEN new ELSE cSlot[o]
  BY <1>1, <1>2 DEF ScimTypes
<1>8. cSlot' \in [Pushers -> Pushes \cup {Rest}]
  BY <1>1, <1>2, <1>4 DEF ScimTypes
<1>9. /\ ScimTypes' /\ ScimSound' /\ ScimQueue'
      /\ \A o \in Pushers : cSlot'[o] # Rest => cSlot'[o].change \in cMemory'[Replica].changes
  <2>1. \A o \in Pushers : cSlot'[o] # Rest =>
           /\ cSlot[o] # Rest /\ cSlot'[o].step # "queued" /\ cSlot'[o].change = cSlot[o].change
           /\ cSlot'[o].text \in {cSlot[o].text, cMemory[Replica]}
    <3>1. \A o \in Pushers : cSlot[o] # Rest => cSlot[o].step # "queued"
      BY <1>1, SlotFacts
    <3> QED
      BY <1>1, <1>4, <1>7, <3>1
  <2>2. /\ stored' \in Rosters \cup {Directory!Torn} /\ cTmp' \in Rosters \cup {None, Directory!Torn}
        /\ stored' # Directory!Torn => Sound(stored', cCount.change, late)
        /\ cTmp' \notin {None, Directory!Torn} => Sound(cTmp', cCount.change, late)
    <3> HIDE DEF text
    <3> QED
      BY <1>1, <1>2, <1>5 DEF ScimTypes, ScimSound
  <2>3. cCount' \in [{"change", "failure", "restart"} -> Nat] /\ cAcked' \subseteq Directory!Ids /\ cOverlap' \in BOOLEAN
    BY <1>1, <1>2 DEF ScimTypes
  <2> HIDE DEF text
  <2> QED
    BY <1>1, <1>8, <2>1, <2>2, <2>3, FileStep
<1>10. Directory!Torn' = Directory!Torn
  BY DEF Directory!Torn, Directory!Empty
<1>11. \A o \in Pushers : Directory!Writing(o)' <=> Directory!Writing(o)
  BY <1>1, <1>4, <1>6, <1>7 DEF Directory!Writing
<1>12. \A o \in Pushers : cSlot'[o] # Rest => cSlot'[o].text = cSlot[o].text /\ cSlot'[o].change = cSlot[o].change
  BY <1>1, <1>4, <1>7
<1>13. ASSUME ~cOverlap
       PROVE  /\ cTmp' = cSlot[s].text /\ stored' = stored
              /\ \A o \in Pushers \ {s} : ~Directory!Writing(o)
  <2>1. cSlot[s].at = "tmp" /\ cTmp = Directory!Torn
    BY <1>1, <1>2, <1>13 DEF ScimAlone
  <2>2. ~mixed /\ cTmp' = text /\ stored' = stored
    BY <1>1, <2>1
  <2>3. \A o \in Pushers \ {s} : ~Directory!Writing(o)
    BY <1>1, <1>2, <1>13 DEF ScimAlone, Directory!Writing
  <2> QED
    BY <2>2, <2>3
<1>14. ScimAlone'
  <2> SUFFICES ASSUME ~cOverlap
               PROVE  /\ stored' # Directory!Torn
                      /\ \A t, o \in Pushers : Directory!Writing(t)' /\ Directory!Writing(o)' => t = o
                      /\ \A o \in Pushers : cSlot'[o] # Rest =>
                            /\ cSlot'[o].at = "tmp"
                            /\ cSlot'[o].step = "opened" => cTmp' = Directory!Torn
                            /\ cSlot'[o].step = "written" => cTmp' = cSlot'[o].text
    BY <1>1, <1>10 DEF ScimAlone
  <2>1. \A o \in Pushers : cSlot'[o] # Rest =>
           /\ cSlot'[o].at = "tmp"
           /\ cSlot'[o].step = "opened" => cTmp' = Directory!Torn
           /\ cSlot'[o].step = "written" => cTmp' = cSlot'[o].text
    <3> SUFFICES ASSUME NEW o \in Pushers, cSlot'[o] # Rest
                 PROVE  /\ cSlot'[o].at = "tmp"
                        /\ cSlot'[o].step = "opened" => cTmp' = Directory!Torn
                        /\ cSlot'[o].step = "written" => cTmp' = cSlot'[o].text
      OBVIOUS
    <3>1. CASE o = s
      BY <1>1, <1>2, <1>4, <1>7, <1>13, <3>1 DEF ScimAlone
    <3>2. CASE o # s
      <4>1. cSlot'[o] = cSlot[o] /\ ~Directory!Writing(o)
        BY <1>7, <1>13, <3>2
      <4> QED
        BY <1>2, <4>1 DEF ScimAlone, Directory!Writing
    <3> QED
      BY <3>1, <3>2
  <2> QED
    BY <1>2, <1>11, <1>13, <2>1 DEF ScimAlone
<1>15. ScimKept'
  <2>1. \A o \in Pushers : Directory!Writing(o) => cSlot[o] # Rest
    BY DEF Directory!Writing
  <2>2. \A o \in Pushers : Directory!Writing(o)' => cSlot'[o] # Rest
    BY DEF Directory!Writing
  <2> QED
    BY <1>1, <1>2, <1>9, <1>11, <1>12, <1>13, <2>1, <2>2 DEF ScimKept
<1> QED
  BY <1>9, <1>14, <1>15 DEF ScimIInv

LEMMA RenamePreserves ==
    ASSUME ScimIInv, NEW s \in Pushers, Directory!Rename(s)
    PROVE  ScimIInv'
<1> DEFINE moved(o) == [cSlot[o] EXCEPT !.at = IF @ = "tmp" THEN "path" ELSE "lost"]
<1>1. /\ cSlot[s] # Rest /\ cSlot[s].step = "written" /\ cTmp # None
      /\ stored' = cTmp /\ cTmp' = None
      /\ cAcked' = cAcked \cup {cSlot[s].change}
      /\ UNCHANGED <<cMemory, backend, queue, poisoned, cCount, late, cOverlap, emptied>>
  BY DEF Directory!Rename, Directory!At
<1>2. cSlot' = [o \in Pushers |-> IF o = s THEN Rest
                                  ELSE IF cSlot[o] # Rest /\ cSlot[o].step = "opened" THEN moved(o)
                                  ELSE cSlot[o]]
  BY DEF Directory!Rename, Directory!At
<1>3. ScimTypes /\ ScimSound /\ ScimAlone /\ ScimKept
  BY DEF ScimIInv
<1>4. \A o \in Pushers : cSlot[o] # Rest =>
         /\ moved(o) \in Pushes /\ moved(o).step = cSlot[o].step /\ moved(o).text = cSlot[o].text
         /\ moved(o).change = cSlot[o].change
  <2>1. \A o \in Pushers : cSlot[o] # Rest => cSlot[o] \in Pushes
    BY SlotFacts
  <2> QED
    BY <2>1 DEF Pushes
<1> HIDE DEF moved
<1>5. cSlot' \in [Pushers -> Pushes \cup {Rest}]
  BY <1>2, <1>3, <1>4 DEF ScimTypes
<1>6. \A o \in Pushers : cSlot'[o] # Rest =>
         /\ o # s /\ cSlot[o] # Rest /\ cSlot'[o].step = cSlot[o].step
         /\ cSlot'[o].text = cSlot[o].text /\ cSlot'[o].change = cSlot[o].change
  BY <1>2, <1>4
<1>7. /\ ScimTypes' /\ ScimSound' /\ ScimQueue'
      /\ \A o \in Pushers : cSlot'[o] # Rest => cSlot'[o].change \in cMemory'[Replica].changes
  <2>1. \A o \in Pushers : cSlot'[o] # Rest =>
           /\ cSlot[o] # Rest /\ cSlot'[o].step # "queued" /\ cSlot'[o].change = cSlot[o].change
           /\ cSlot'[o].text \in {cSlot[o].text, cMemory[Replica]}
    <3>1. \A o \in Pushers : cSlot[o] # Rest => cSlot[o].step # "queued"
      BY <1>1, SlotFacts
    <3> QED
      BY <1>6, <3>1
  <2>2. cAcked' \subseteq Directory!Ids
    BY <1>1, <1>3, SlotFacts DEF ScimTypes, Directory!Ids
  <2>3. /\ stored' \in Rosters \cup {Directory!Torn} /\ cTmp' \in Rosters \cup {None, Directory!Torn}
        /\ stored' # Directory!Torn => Sound(stored', cCount.change, late)
        /\ cTmp' \notin {None, Directory!Torn} => Sound(cTmp', cCount.change, late)
    BY <1>1, <1>3 DEF ScimTypes, ScimSound
  <2>4. cCount' \in [{"change", "failure", "restart"} -> Nat] /\ cOverlap' \in BOOLEAN
    BY <1>1, <1>3 DEF ScimTypes
  <2> QED
    BY <1>1, <1>5, <2>1, <2>2, <2>3, <2>4, FileStep
<1>8. Directory!Torn' = Directory!Torn
  BY DEF Directory!Torn, Directory!Empty
<1>9. ASSUME ~cOverlap
      PROVE  /\ stored' = cSlot[s].text
             /\ \A o \in Pushers : ~Directory!Writing(o)' /\ (cSlot'[o] # Rest => cSlot'[o] = cSlot[o])
  <2>1. cTmp = cSlot[s].text
    BY <1>1, <1>3, <1>9 DEF ScimAlone
  <2>2. \A o \in Pushers \ {s} : ~Directory!Writing(o)
    BY <1>1, <1>3, <1>9 DEF ScimAlone, Directory!Writing
  <2>3. \A o \in Pushers : cSlot'[o] # Rest => cSlot'[o] = cSlot[o] /\ o # s
    BY <1>2, <2>2 DEF Directory!Writing
  <2> QED
    BY <1>1, <2>1, <2>2, <2>3 DEF Directory!Writing
<1>10. ScimAlone'
  <2> SUFFICES ASSUME ~cOverlap
               PROVE  /\ stored' # Directory!Torn
                      /\ \A t, o \in Pushers : Directory!Writing(t)' /\ Directory!Writing(o)' => t = o
                      /\ \A o \in Pushers : cSlot'[o] # Rest =>
                            /\ cSlot'[o].at = "tmp"
                            /\ cSlot'[o].step = "opened" => cTmp' = Directory!Torn
                            /\ cSlot'[o].step = "written" => cTmp' = cSlot'[o].text
    BY <1>1, <1>8 DEF ScimAlone
  <2>1. stored' # Directory!Torn
    <3>1. cSlot[s].text \in Rosters
      BY <1>1, SlotFacts
    <3>2. Directory!Torn \notin Rosters
      <4>1. Directory!Torn.changes = {0} /\ 0 \notin 1 .. MaxPushes
        BY ScimAssumption DEF Directory!Torn, Directory!Empty
      <4> HIDE DEF Directory!Torn
      <4> QED
        BY <4>1 DEF Rosters
    <3> QED
      BY <1>9, <3>1, <3>2
  <2>2. \A o \in Pushers : cSlot'[o] # Rest => cSlot'[o].at = "tmp" /\ cSlot'[o].step \notin {"opened", "written"}
    <3>1. \A o \in Pushers : cSlot'[o] # Rest => cSlot[o].at = "tmp" /\ cSlot'[o] = cSlot[o]
      BY <1>3, <1>6, <1>9 DEF ScimAlone
    <3>2. \A o \in Pushers : cSlot'[o] # Rest => cSlot'[o].step \notin {"opened", "written"}
      BY <1>9 DEF Directory!Writing
    <3> QED
      BY <3>1, <3>2
  <2> QED
    BY <1>9, <2>1, <2>2
<1>11. ScimKept'
  <2>1. \A o \in Pushers : Directory!Writing(o)' => cSlot'[o] # Rest /\ Directory!Writing(o)
    BY <1>6 DEF Directory!Writing
  <2>2. \A o \in Pushers : cSlot'[o] # Rest /\ Directory!Writing(o)' =>
           cSlot'[o].change \in cSlot'[o].text.changes
    BY <1>3, <1>6, <2>1 DEF ScimKept
  <2>3. ASSUME ~cOverlap, ~emptied
        PROVE  /\ cAcked' \subseteq cMemory[Replica].changes
               /\ cAcked' \subseteq stored'.changes
               /\ \A i \in DOMAIN queue[Replica] : cAcked' \subseteq queue[Replica][i].changes
               /\ \A o \in Pushers : Directory!Writing(o)' => cAcked' \subseteq cSlot'[o].text.changes
    <3>1. Directory!Writing(s)
      BY <1>1 DEF Directory!Writing
    <3>2. cAcked \subseteq cSlot[s].text.changes /\ cSlot[s].change \in cSlot[s].text.changes
      BY <1>1, <1>3, <2>3, <3>1 DEF ScimKept
    <3>3. cAcked \subseteq cMemory[Replica].changes /\ cSlot[s].change \in cMemory[Replica].changes
      BY <1>1, <1>3, <2>3 DEF ScimKept
    <3>4. queue[Replica] = <<>>
      BY <1>1, SlotFacts
    <3> QED
      BY <1>1, <1>9, <2>3, <3>2, <3>3, <3>4
  <2> QED
    BY <1>1, <1>7, <2>2, <2>3 DEF ScimKept
<1> QED
  BY <1>7, <1>10, <1>11 DEF ScimIInv

LEMMA PersistFailsPreserves ==
    ASSUME ScimIInv, NEW s \in Pushers, Directory!PersistFails(s)
    PROVE  ScimIInv'
<1>1. /\ cSlot[s] # Rest /\ cSlot[s].step \in {"opened", "written"}
      /\ cSlot' = [cSlot EXCEPT ![s] = Rest]
      /\ cCount' = cCount \/ cCount' = [cCount EXCEPT !["failure"] = @ + 1]
      /\ UNCHANGED <<cMemory, backend, stored, cTmp, queue, poisoned, cAcked, late, cOverlap, emptied>>
  BY DEF Directory!PersistFails, Directory!At, Directory!store, Directory!history, Directory!Counted
<1>2. ScimTypes /\ ScimSound /\ ScimAlone /\ ScimKept
  BY DEF ScimIInv
<1>3. cCount' \in [{"change", "failure", "restart"} -> Nat] /\ cCount'.change = cCount.change
  BY <1>1, <1>2 DEF ScimTypes
<1>4. cSlot' \in [Pushers -> Pushes \cup {Rest}]
  BY <1>1, <1>2 DEF ScimTypes
<1>5. \A o \in Pushers : cSlot'[o] # Rest => cSlot'[o] = cSlot[o]
  BY <1>1, <1>2 DEF ScimTypes
<1>6. /\ ScimTypes' /\ ScimSound' /\ ScimQueue'
      /\ \A o \in Pushers : cSlot'[o] # Rest => cSlot'[o].change \in cMemory'[Replica].changes
  <2>1. \A o \in Pushers : cSlot[o] # Rest => cSlot[o].step # "queued"
    BY <1>1, SlotFacts
  <2>2. \A o \in Pushers : cSlot'[o] # Rest =>
           /\ cSlot[o] # Rest /\ cSlot'[o].step # "queued" /\ cSlot'[o].change = cSlot[o].change
           /\ cSlot'[o].text \in {cSlot[o].text, cMemory[Replica]}
    BY <1>5, <2>1
  <2>3. cSlot[s].step # "queued"
    BY <1>1
  <2> QED
    BY <1>1, <1>2, <1>3, <1>4, <2>2, <2>3, FileStep DEF ScimTypes, ScimSound
<1>7. \A o \in Pushers : Directory!Writing(o)' => Directory!Writing(o) /\ cSlot'[o] = cSlot[o]
  BY <1>5 DEF Directory!Writing
<1>8. ScimAlone'
  BY <1>1, <1>2, <1>5, <1>7 DEF ScimAlone, Directory!Torn, Directory!Empty
<1>9. ScimKept'
  BY <1>1, <1>2, <1>5, <1>6, <1>7 DEF ScimKept
<1> QED
  BY <1>6, <1>8, <1>9 DEF ScimIInv

LEMMA TornIsNoRoster == Directory!Torn \notin Rosters
<1>1. Directory!Torn.changes = {0} /\ 0 \notin 1 .. MaxPushes
  BY ScimAssumption DEF Directory!Torn, Directory!Empty
<1> HIDE DEF Directory!Torn
<1> QED
  BY <1>1 DEF Rosters

\* The request answered is the one behind the head of the queue.
LEMMA OldestIsFirst ==
    ASSUME ScimIInv, NEW s \in Pushers, Directory!Oldest(s, Replica),
           NEW who \in [1 .. Len(queue[Replica]) -> Pushers], Waiting(who)
    PROVE  queue[Replica] # <<>> /\ who[1] = s
<1>1. /\ queue[Replica] \in Seq(Rosters) /\ cSlot[s] # Rest /\ cSlot[s].step = "queued"
      /\ \A o \in Pushers : cSlot[o] # Rest => cSlot[o].change \in Nat
  <2>1. \A o \in Pushers : cSlot[o] # Rest => cSlot[o].change \in 1 .. MaxPushes
    BY SlotFacts
  <2> QED
    BY <2>1 DEF ScimIInv, ScimTypes, Directory!Oldest, Directory!At
<1>2. PICK i \in 1 .. Len(queue[Replica]) : who[i] = s
  BY <1>1 DEF Waiting, Directory!At
<1>3. 1 \in 1 .. Len(queue[Replica]) /\ who[1] \in Pushers
  BY <1>1, <1>2
<1>4. cSlot[who[1]] # Rest /\ cSlot[who[1]].step = "queued"
  BY <1>3 DEF Waiting, Directory!At
<1>5. cSlot[who[1]].on = Replica
  BY <1>3, <1>4, SlotFacts
<1>6. cSlot[s].change <= cSlot[who[1]].change
  BY <1>3, <1>4, <1>5 DEF Directory!Oldest, Directory!At
<1>7. i # 1 => cSlot[who[1]].change < cSlot[s].change
  BY <1>1, <1>2, <1>3 DEF Waiting
<1>8. i = 1
  BY <1>1, <1>3, <1>4, <1>6, <1>7
<1> QED
  BY <1>1, <1>2, <1>8

LEMMA SetDonePreserves ==
    ASSUME ScimIInv, NEW s \in Pushers, Directory!SetDone(s)
    PROVE  ScimIInv'
<1>1. cSlot[s] # Rest /\ cSlot[s].on = Replica
  BY SlotFacts DEF Directory!SetDone
<1>2. /\ Directory!Oldest(s, Replica)
      /\ stored' = Head(queue[Replica])
      /\ queue' = [queue EXCEPT ![Replica] = Tail(@)]
      /\ cSlot' = [cSlot EXCEPT ![s] = Rest]
      /\ cAcked' = cAcked \cup {cSlot[s].change}
      /\ UNCHANGED <<cMemory, backend, cTmp, poisoned, cCount, late, cOverlap, emptied>>
  BY <1>1 DEF Directory!SetDone, Directory!Answered
<1>3. ScimTypes /\ ScimSound /\ ScimQueue /\ ScimAlone /\ ScimKept
  BY DEF ScimIInv
<1>4. cSlot[s].step = "queued" /\ backend = "redis"
  BY <1>1, <1>2, SlotFacts DEF Directory!Oldest, Directory!At
<1>5. PICK q \in Seq(Rosters) : q = queue[Replica]
  BY <1>3 DEF ScimTypes
<1>6. ~cOverlap /\ \E who \in [1 .. Len(q) -> Pushers] : Waiting(who)
  BY <1>3, <1>4, <1>5 DEF ScimQueue
<1>7. PICK who \in [1 .. Len(q) -> Pushers] : Waiting(who)
  BY <1>6
<1>8. q # <<>> /\ who[1] = s
  BY <1>2, <1>5, <1>7, OldestIsFirst
<1>9. /\ Len(q) \in Nat /\ Len(q) >= 1 /\ Head(q) = q[1] /\ Head(q) \in Rosters
      /\ Tail(q) \in Seq(Rosters) /\ Len(Tail(q)) = Len(q) - 1
      /\ \A j \in 1 .. Len(Tail(q)) : j + 1 \in 1 .. Len(q) /\ Tail(q)[j] = q[j + 1]
  BY <1>8
<1>10. queue' = [queue EXCEPT ![Replica] = Tail(q)] /\ queue'[Replica] = Tail(q) /\ stored' = q[1]
  BY <1>2, <1>3, <1>5, <1>9 DEF ScimTypes
<1>11. \A o \in Pushers : cSlot'[o] = IF o = s THEN Rest ELSE cSlot[o]
  BY <1>2, <1>3 DEF ScimTypes
<1>12. /\ \A i \in 1 .. Len(q) :
             /\ cSlot[who[i]] # Rest /\ cSlot[who[i]].step = "queued"
             /\ cSlot[who[i]].change \in Nat
       /\ \A i, j \in 1 .. Len(q) :
             /\ i < j => cSlot[who[i]].change < cSlot[who[j]].change
             /\ i <= j => cSlot[who[i]].change \in q[j].changes
  <2>1. \A i \in 1 .. Len(q) : cSlot[who[i]] # Rest /\ cSlot[who[i]].step = "queued"
    BY <1>7 DEF Waiting, Directory!At
  <2>2. \A o \in Pushers : cSlot[o] # Rest => cSlot[o].change \in Nat
    <3>1. \A o \in Pushers : cSlot[o] # Rest => cSlot[o].change \in 1 .. MaxPushes
      BY SlotFacts
    <3> QED
      BY <3>1
  <2>3. \A i, j \in 1 .. Len(q) :
             /\ i < j => cSlot[who[i]].change < cSlot[who[j]].change
             /\ i <= j => cSlot[who[i]].change \in q[j].changes
    BY <1>5, <1>7 DEF Waiting
  <2> QED
    BY <2>1, <2>2, <2>3
<1>13. ScimTypes'
  <2>1. cSlot' \in [Pushers -> Pushes \cup {Rest}]
    BY <1>2, <1>3 DEF ScimTypes
  <2>2. queue' \in [{Replica} -> Seq(Rosters)]
    BY <1>3, <1>9, <1>10 DEF ScimTypes
  <2>3. cAcked' \subseteq Directory!Ids
    BY <1>1, <1>2, <1>3, SlotFacts DEF ScimTypes, Directory!Ids
  <2>4. \A r \in {Replica} : poisoned'[r] => queue'[r] = <<>>
    BY <1>2, <1>3, <1>5, <1>8 DEF ScimTypes
  <2>5. stored' \in Rosters
    BY <1>9, <1>10
  <2> QED
    BY <1>2, <1>3, <2>1, <2>2, <2>3, <2>4, <2>5 DEF ScimTypes, Directory!Torn, Directory!Empty, Directory!Ids
<1>14. ScimSound'
  <2>1. \A i \in 1 .. Len(q) : Sound(q[i], cCount.change, late)
    BY <1>3, <1>5 DEF ScimSound
  <2>2. Sound(stored', cCount.change, late)
    BY <1>9, <1>10, <2>1
  <2>3. \A i \in DOMAIN queue'[Replica] : Sound(queue'[Replica][i], cCount.change, late)
    BY <1>9, <1>10, <2>1
  <2>4. \A o \in Pushers : cSlot'[o] # Rest => Sound(cSlot'[o].text, cCount.change, late)
    BY <1>3, <1>11 DEF ScimSound
  <2> QED
    BY <1>2, <1>3, <2>2, <2>3, <2>4 DEF ScimSound, Directory!Torn, Directory!Empty
<1>15. ScimQueue'
  <2>1. PICK rest \in [1 .. Len(Tail(q)) -> Pushers] : \A i \in 1 .. Len(Tail(q)) : rest[i] = who[i + 1]
    <3> DEFINE r == [i \in 1 .. Len(Tail(q)) |-> who[i + 1]]
    <3>1. r \in [1 .. Len(Tail(q)) -> Pushers] /\ \A i \in 1 .. Len(Tail(q)) : r[i] = who[i + 1]
      BY <1>9
    <3> QED
      BY <3>1
  <2>2. \A i \in 1 .. Len(Tail(q)) : rest[i] # s
    <3> SUFFICES ASSUME NEW i \in 1 .. Len(Tail(q)), rest[i] = s
                 PROVE  FALSE
      OBVIOUS
    <3>1. who[i + 1] = who[1] /\ i + 1 \in 1 .. Len(q) /\ 1 \in 1 .. Len(q) /\ 1 < i + 1
      BY <1>8, <1>9, <2>1
    <3>2. cSlot[who[1]].change < cSlot[who[i + 1]].change
      BY <1>12, <3>1
    <3> QED
      BY <1>12, <3>1, <3>2
  <2>3. \A i \in 1 .. Len(Tail(q)) : cSlot'[rest[i]] = cSlot[who[i + 1]]
    BY <1>11, <2>1, <2>2
  <2>4. \A i \in 1 .. Len(Tail(q)) : cSlot'[rest[i]] # Rest /\ cSlot'[rest[i]].step = "queued"
    BY <1>9, <1>12, <2>3
  <2>5. \A i, j \in 1 .. Len(Tail(q)) :
           /\ i < j => cSlot'[rest[i]].change < cSlot'[rest[j]].change
           /\ i <= j => cSlot'[rest[i]].change \in Tail(q)[j].changes
    <3> SUFFICES ASSUME NEW i \in 1 .. Len(Tail(q)), NEW j \in 1 .. Len(Tail(q))
                 PROVE  /\ i < j => cSlot'[rest[i]].change < cSlot'[rest[j]].change
                        /\ i <= j => cSlot'[rest[i]].change \in Tail(q)[j].changes
      OBVIOUS
    <3>1. i + 1 \in 1 .. Len(q) /\ j + 1 \in 1 .. Len(q) /\ Tail(q)[j] = q[j + 1]
      BY <1>9
    <3>2. (i < j => i + 1 < j + 1) /\ (i <= j => i + 1 <= j + 1)
      OBVIOUS
    <3> QED
      BY <1>12, <2>3, <3>1, <3>2
  <2>6. ASSUME NEW o \in Pushers, cSlot'[o] # Rest, cSlot'[o].step = "queued"
        PROVE  \E i \in 1 .. Len(Tail(q)) : rest[i] = o
    <3>1. o # s /\ cSlot'[o] = cSlot[o]
      BY <1>11, <2>6
    <3>2. PICK k \in 1 .. Len(q) : who[k] = o
      BY <1>5, <1>7, <2>6, <3>1 DEF Waiting, Directory!At
    <3>3. k # 1
      BY <1>8, <3>1, <3>2
    <3>4. PICK i \in 1 .. Len(Tail(q)) : i + 1 = k
      <4>1. k - 1 \in 1 .. Len(Tail(q)) /\ (k - 1) + 1 = k
        BY <1>9, <3>3
      <4> QED
        BY <4>1
    <3> QED
      BY <2>1, <3>2, <3>4
  <2>7. Waiting(rest)'
    <3>1. DOMAIN rest = 1 .. Len(Tail(q))
      OBVIOUS
    <3> QED
      BY <1>10, <2>4, <2>5, <2>6, <3>1 DEF Waiting, Directory!At
  <2>8. \E w \in [1 .. Len(queue'[Replica]) -> Pushers] : Waiting(w)'
    BY <1>10, <2>7
  <2>9. \A o \in Pushers : cSlot'[o] # Rest => (cSlot'[o].step = "queued" <=> backend' = "redis")
    BY <1>2, <1>3, <1>11 DEF ScimQueue
  <2> QED
    BY <1>2, <1>4, <1>6, <2>8, <2>9 DEF ScimQueue
<1>16. \A o \in Pushers : Directory!Writing(o)' => Directory!Writing(o) /\ cSlot'[o] = cSlot[o]
  BY <1>11 DEF Directory!Writing
<1>17. ScimAlone'
  <2>1. stored' # Directory!Torn
    BY <1>9, <1>10, TornIsNoRoster
  <2> QED
    BY <1>2, <1>3, <1>11, <1>16, <2>1 DEF ScimAlone, Directory!Torn, Directory!Empty
<1>18. ScimKept'
  <2>1. \A o \in Pushers : cSlot'[o] # Rest =>
           /\ cSlot'[o].change \in cMemory[Replica].changes
           /\ Directory!Writing(o)' => cSlot'[o].change \in cSlot'[o].text.changes
    BY <1>3, <1>11, <1>16 DEF ScimKept
  <2>2. ASSUME ~emptied
        PROVE  /\ cAcked' \subseteq cMemory[Replica].changes
               /\ cAcked' \subseteq stored'.changes
               /\ \A i \in DOMAIN queue'[Replica] : cAcked' \subseteq queue'[Replica][i].changes
    <3>1. \A j \in 1 .. Len(q) : cSlot[s].change \in q[j].changes /\ cAcked \subseteq q[j].changes
      <4>1. \A j \in 1 .. Len(q) : 1 \in 1 .. Len(q) /\ 1 <= j
        BY <1>9
      <4>2. \A j \in 1 .. Len(q) : cSlot[s].change \in q[j].changes
        BY <1>8, <1>12, <4>1
      <4>3. \A j \in 1 .. Len(q) : cAcked \subseteq q[j].changes
        BY <1>3, <1>5, <1>6, <2>2 DEF ScimKept
      <4> QED
        BY <4>2, <4>3
    <3>2. cAcked \cup {cSlot[s].change} \subseteq cMemory[Replica].changes
      BY <1>1, <1>3, <1>6, <2>2 DEF ScimKept
    <3>3. \A j \in 1 .. Len(q) : cAcked' \subseteq q[j].changes
      BY <1>2, <3>1
    <3>4. cAcked' \subseteq stored'.changes
      <4>1. 1 \in 1 .. Len(q)
        BY <1>9
      <4> QED
        BY <1>10, <3>3, <4>1
    <3>5. \A i \in 1 .. Len(Tail(q)) : cAcked' \subseteq Tail(q)[i].changes
      BY <1>9, <3>3
    <3>6. DOMAIN Tail(q) = 1 .. Len(Tail(q))
      BY <1>9
    <3>7. cAcked' \subseteq cMemory[Replica].changes
      BY <1>2, <3>2
    <3> QED
      BY <1>10, <3>4, <3>5, <3>6, <3>7
  <2>3. \A o \in Pushers : ~Directory!Writing(o)
    BY <1>3, <1>4 DEF ScimQueue, Directory!Writing
  <2> QED
    BY <1>2, <1>16, <2>1, <2>2, <2>3 DEF ScimKept
<1> QED
  BY <1>13, <1>14, <1>15, <1>17, <1>18 DEF ScimIInv

LEMMA NobodyWaits ==
    ASSUME queue'[Replica] = <<>>, \A s \in Pushers : cSlot'[s] = Rest
    PROVE  \E who \in [1 .. Len(queue'[Replica]) -> Pushers] : Waiting(who)'
<1> DEFINE who == [i \in 1 .. 0 |-> Rest]
<1>1. DOMAIN who = {} /\ 1 .. Len(queue'[Replica]) = {}
  OBVIOUS
<1>2. who \in [1 .. Len(queue'[Replica]) -> Pushers]
  BY <1>1
<1> HIDE DEF who
<1>3. Waiting(who)'
  <2>0. PICK w : w = who
    OBVIOUS
  <2>1. Waiting(w)'
    BY <1>1, <2>0 DEF Waiting, Directory!At
  <2> QED
    BY <2>0, <2>1
<1> QED
  BY <1>2, <1>3

LEMMA SetFailsPreserves ==
    ASSUME ScimIInv, NEW applied \in BOOLEAN, Directory!SetFails(Replica, applied)
    PROVE  ScimIInv'
<1>1. /\ queue[Replica] # <<>>
      /\ cCount' = [cCount EXCEPT !["failure"] = @ + 1]
      /\ stored' = IF applied THEN Head(queue[Replica]) ELSE stored
      /\ queue' = [queue EXCEPT ![Replica] = <<>>]
      /\ poisoned' = [poisoned EXCEPT ![Replica] = TRUE]
      /\ cSlot' = [s \in Pushers |->
                     IF Directory!At(s, "queued") /\ cSlot[s].on = Replica THEN Rest ELSE cSlot[s]]
      /\ UNCHANGED <<cMemory, backend, cTmp, cAcked, late, cOverlap, emptied>>
  BY DEF Directory!SetFails, Directory!Counted, Directory!history
<1>2. ScimTypes /\ ScimSound /\ ScimQueue /\ ScimAlone /\ ScimKept
  BY DEF ScimIInv
<1>3. backend = "redis" /\ ~cOverlap
  BY <1>1, <1>2 DEF ScimTypes, ScimQueue
<1>4. \A s \in Pushers : cSlot'[s] = Rest
  <2>1. \A s \in Pushers : cSlot[s] # Rest => Directory!At(s, "queued") /\ cSlot[s].on = Replica
    BY <1>2, <1>3, SlotFacts DEF ScimQueue, Directory!At
  <2> QED
    BY <1>1, <2>1
<1>5. PICK q \in Seq(Rosters) : q = queue[Replica]
  BY <1>2 DEF ScimTypes
<1>6. 1 \in DOMAIN q /\ Head(q) = q[1] /\ q[1] \in Rosters
  BY <1>1, <1>5
<1>7. stored' = q[1] \/ stored' = stored
  BY <1>1, <1>5, <1>6
<1>8. cCount' \in [{"change", "failure", "restart"} -> Nat] /\ cCount'.change = cCount.change
  BY <1>1, <1>2 DEF ScimTypes
<1>9. queue'[Replica] = <<>> /\ queue' \in [{Replica} -> Seq(Rosters)]
  BY <1>1, <1>2 DEF ScimTypes
<1>10. ScimTypes'
  <2>1. cSlot' \in [Pushers -> Pushes \cup {Rest}] /\ poisoned' \in [{Replica} -> BOOLEAN]
    BY <1>1, <1>2 DEF ScimTypes
  <2>2. stored' \in Rosters \cup {Directory!Torn}
    BY <1>2, <1>6, <1>7 DEF ScimTypes
  <2> QED
    BY <1>1, <1>2, <1>8, <1>9, <2>1, <2>2
    DEF ScimTypes, Directory!Torn, Directory!Empty, Directory!Ids
<1>11. ScimSound'
  <2>1. Sound(q[1], cCount.change, late)
    BY <1>2, <1>5, <1>6 DEF ScimSound
  <2>2. stored' # Directory!Torn => Sound(stored', cCount.change, late)
    BY <1>2, <1>7, <2>1 DEF ScimSound
  <2> QED
    BY <1>1, <1>2, <1>4, <1>8, <1>9, <2>2 DEF ScimSound, Directory!Torn, Directory!Empty
<1>12. ScimQueue'
  <2>1. \E who \in [1 .. Len(queue'[Replica]) -> Pushers] : Waiting(who)'
    BY <1>4, <1>9, NobodyWaits
  <2> QED
    BY <1>1, <1>3, <1>4, <1>9, <2>1 DEF ScimQueue
<1>13. \A s \in Pushers : ~Directory!Writing(s)'
  BY <1>4 DEF Directory!Writing
<1>14. ScimAlone'
  BY <1>1, <1>2, <1>3, <1>4, <1>6, <1>7, <1>13, TornIsNoRoster
  DEF ScimAlone, Directory!Torn, Directory!Empty
<1>15. ScimKept'
  <2>1. ~emptied => cAcked \subseteq stored'.changes
    BY <1>2, <1>3, <1>5, <1>6, <1>7 DEF ScimKept
  <2> QED
    BY <1>1, <1>2, <1>4, <1>9, <1>13, <2>1 DEF ScimKept
<1> QED
  BY <1>10, <1>11, <1>12, <1>14, <1>15 DEF ScimIInv

LEMMA RestartPreserves ==
    ASSUME ScimIInv, NEW readable \in BOOLEAN, Directory!Restart(Replica, readable)
    PROVE  ScimIInv'
<1> DEFINE found == IF readable /\ stored # Directory!Torn THEN stored ELSE Directory!Empty
<1>1. /\ cCount' = [cCount EXCEPT !["restart"] = @ + 1]
      /\ cMemory' = [cMemory EXCEPT ![Replica] = found]
      /\ emptied' = (emptied \/ found # stored)
      /\ queue' = [queue EXCEPT ![Replica] = <<>>]
      /\ poisoned' = [poisoned EXCEPT ![Replica] = FALSE]
      /\ cSlot' = [s \in Pushers |-> IF cSlot[s] # Rest /\ cSlot[s].on = Replica THEN Rest ELSE cSlot[s]]
      /\ UNCHANGED <<backend, stored, cTmp, cAcked, late, cOverlap>>
  BY DEF Directory!Restart, Directory!Counted
<1>2. ScimTypes /\ ScimSound /\ ScimQueue /\ ScimAlone /\ ScimKept
  BY DEF ScimIInv
<1>3. \A s \in Pushers : cSlot'[s] = Rest
  <2>1. \A s \in Pushers : cSlot[s] # Rest => cSlot[s].on = Replica
    BY SlotFacts
  <2> QED
    BY <1>1, <2>1
<1>4. found \in Rosters /\ Sound(found, cCount.change, late)
  <2>1. Directory!Empty \in Rosters /\ Sound(Directory!Empty, cCount.change, late)
    BY DEF Directory!Empty, Rosters, Sound
  <2> QED
    BY <1>2, <2>1 DEF ScimTypes, ScimSound
<1> HIDE DEF found
<1>5. cMemory' \in [{Replica} -> Rosters] /\ cMemory'[Replica] = found
  BY <1>1, <1>2, <1>4 DEF ScimTypes
<1>6. cCount' \in [{"change", "failure", "restart"} -> Nat] /\ cCount'.change = cCount.change
  BY <1>1, <1>2 DEF ScimTypes
<1>7. queue'[Replica] = <<>> /\ queue' \in [{Replica} -> Seq(Rosters)]
  BY <1>1, <1>2 DEF ScimTypes
<1>8. ScimTypes'
  <2>1. cSlot' \in [Pushers -> Pushes \cup {Rest}] /\ poisoned' \in [{Replica} -> BOOLEAN]
    BY <1>1, <1>2 DEF ScimTypes
  <2>2. emptied' \in BOOLEAN
    BY <1>1, <1>2 DEF ScimTypes
  <2> QED
    BY <1>1, <1>2, <1>5, <1>6, <1>7, <2>1, <2>2
    DEF ScimTypes, Directory!Torn, Directory!Empty, Directory!Ids
<1>9. ScimSound'
  BY <1>1, <1>2, <1>3, <1>4, <1>5, <1>6, <1>7 DEF ScimSound, Directory!Torn, Directory!Empty
<1>10. ScimQueue'
  <2>1. \E who \in [1 .. Len(queue'[Replica]) -> Pushers] : Waiting(who)'
    BY <1>3, <1>7, NobodyWaits
  <2> QED
    BY <1>1, <1>2, <1>3, <1>7, <2>1 DEF ScimQueue
<1>11. \A s \in Pushers : ~Directory!Writing(s)'
  BY <1>3 DEF Directory!Writing
<1>12. ScimAlone'
  BY <1>1, <1>2, <1>3, <1>11 DEF ScimAlone, Directory!Torn, Directory!Empty
<1>13. ScimKept'
  <2>1. ~emptied' => ~emptied /\ found = stored
    BY <1>1
  <2> QED
    BY <1>1, <1>2, <1>3, <1>5, <1>7, <1>11, <2>1 DEF ScimKept
<1> QED
  BY <1>8, <1>9, <1>10, <1>12, <1>13 DEF ScimIInv

LEMMA ScimStarts == Directory!Init => ScimIInv
<1> SUFFICES ASSUME Directory!Init
             PROVE  ScimIInv
  OBVIOUS
<1>1. /\ backend \in Backends /\ cMemory = [r \in {Replica} |-> Directory!Empty]
      /\ stored = Directory!Empty /\ cTmp = None
      /\ queue = [r \in {Replica} |-> <<>>] /\ poisoned = [r \in {Replica} |-> FALSE]
      /\ cSlot = [s \in Pushers |-> Rest]
      /\ cCount = [what \in {"change", "failure", "restart"} |-> 0]
      /\ cAcked = {} /\ late = {} /\ cOverlap = FALSE /\ emptied = FALSE
  BY DEF Directory!Init
<1>2. Directory!Empty \in Rosters /\ Sound(Directory!Empty, 0, {}) /\ Directory!Empty.changes = {}
  BY DEF Directory!Empty, Rosters, Sound
<1>3. queue[Replica] = <<>> /\ cMemory[Replica] = Directory!Empty /\ cCount.change = 0
  BY <1>1
<1>4. ScimTypes
  <2>1. cMemory \in [{Replica} -> Rosters]
    BY <1>1, <1>2
  <2>2. /\ queue \in [{Replica} -> Seq(Rosters)] /\ poisoned \in [{Replica} -> BOOLEAN]
        /\ \A r \in {Replica} : poisoned[r] => queue[r] = <<>>
    BY <1>1
  <2>3. cSlot \in [Pushers -> Pushes \cup {Rest}]
    BY <1>1
  <2>4. cCount \in [{"change", "failure", "restart"} -> Nat] /\ cCount.change <= MaxPushes
    BY <1>1, ScimAssumption
  <2>5. backend \in {"file", "redis"}
    BY <1>1, ScimAssumption
  <2> QED
    BY <1>1, <1>2, <2>1, <2>2, <2>3, <2>4, <2>5 DEF ScimTypes
<1>5. ScimSound
  BY <1>1, <1>2, <1>3 DEF ScimSound
<1>6. ScimQueue
  <2>1. \E who \in [1 .. Len(queue[Replica]) -> Pushers] : Waiting(who)
    <3> DEFINE who == [i \in 1 .. 0 |-> Rest]
    <3>1. DOMAIN who = {} /\ 1 .. Len(queue[Replica]) = {}
      BY <1>3
    <3>2. who \in [1 .. Len(queue[Replica]) -> Pushers]
      BY <3>1
    <3> HIDE DEF who
    <3>3. Waiting(who)
      BY <1>1, <3>1 DEF Waiting, Directory!At
    <3> QED
      BY <3>2, <3>3
  <2> QED
    BY <1>1, <1>3, <2>1 DEF ScimQueue
<1>7. \A s \in Pushers : ~Directory!Writing(s) /\ cSlot[s] = Rest
  BY <1>1 DEF Directory!Writing
<1>8. ScimAlone
  <2>1. stored # Directory!Torn
    BY <1>1, <1>2, TornIsNoRoster
  <2> QED
    BY <1>7, <2>1 DEF ScimAlone
<1>9. ScimKept
  BY <1>1, <1>3, <1>7 DEF ScimKept
<1> QED
  BY <1>4, <1>5, <1>6, <1>8, <1>9 DEF ScimIInv

LEMMA ScimRests == ScimIInv /\ UNCHANGED scim => ScimIInv'
<1> SUFFICES ASSUME ScimIInv, UNCHANGED scim
             PROVE  ScimIInv'
  OBVIOUS
<1>1. /\ backend' = backend /\ cMemory' = cMemory /\ stored' = stored /\ cTmp' = cTmp /\ queue' = queue
      /\ poisoned' = poisoned /\ cSlot' = cSlot /\ cCount' = cCount /\ cAcked' = cAcked
      /\ late' = late /\ cOverlap' = cOverlap /\ emptied' = emptied
  BY DEF scim
<1>2. ScimTypes'
  BY <1>1 DEF ScimIInv, ScimTypes, Directory!Torn, Directory!Empty, Directory!Ids
<1>3. ScimSound'
  BY <1>1 DEF ScimIInv, ScimSound, Sound, Directory!Torn, Directory!Empty
<1>4. ScimQueue'
  <2>1. \A who : Waiting(who) => Waiting(who)'
    BY <1>1 DEF Waiting, Directory!At
  <2> QED
    BY <1>1, <2>1 DEF ScimIInv, ScimQueue
<1>5. ScimAlone'
  BY <1>1 DEF ScimIInv, ScimAlone, Directory!Torn, Directory!Empty, Directory!Writing
<1>6. ScimKept'
  BY <1>1 DEF ScimIInv, ScimKept, Directory!Writing
<1> QED
  BY <1>2, <1>3, <1>4, <1>5, <1>6 DEF ScimIInv

LEMMA ScimSteps == ScimIInv /\ Directory!Next => ScimIInv'
<1> SUFFICES ASSUME ScimIInv, Directory!Next
             PROVE  ScimIInv'
  OBVIOUS
<1>1. ASSUME NEW s \in Pushers, NEW name \in UserNames, Directory!CreateUser(s, Replica, name)
      PROVE  ScimIInv'
  BY <1>1, CreateUserPreserves
<1>2. ASSUME NEW s \in Pushers, NEW name \in UserNames, NEW user \in cMemory[Replica].users,
             Directory!UpdateUser(s, Replica, user, name)
      PROVE  ScimIInv'
  BY <1>2, UpdateUserPreserves
<1>3. ASSUME NEW s \in Pushers, NEW user \in cMemory[Replica].users, Directory!DeleteUser(s, Replica, user)
      PROVE  ScimIInv'
  BY <1>3, DeleteUserPreserves
<1>4. ASSUME NEW s \in Pushers, NEW members \in SUBSET (1 .. cCount.change),
             Directory!CreateGroup(s, Replica, members)
      PROVE  ScimIInv'
  BY <1>4, CreateGroupPreserves
<1>5. ASSUME NEW s \in Pushers, NEW group \in cMemory[Replica].groups,
             Directory!DeleteGroup(s, Replica, group)
      PROVE  ScimIInv'
  BY <1>5, DeleteGroupPreserves
<1>6. ASSUME NEW s \in Pushers, NEW group \in cMemory[Replica].groups, NEW one \in 1 .. cCount.change,
             NEW members \in Directory!ApplyPatchOps(group.members, one),
             Directory!UpdateGroup(s, Replica, group, members)
      PROVE  ScimIInv'
  BY <1>6, UpdateGroupPreserves
<1>7. ASSUME NEW s \in Pushers,
             \/ Directory!Serialise(s) \/ Directory!Open(s) \/ Directory!Rename(s)
             \/ Directory!PersistFails(s) \/ Directory!SetDone(s)
             \/ \E mixed \in BOOLEAN : Directory!Write(s, mixed)
      PROVE  ScimIInv'
  BY <1>7, SerialisePreserves, OpenPreserves, RenamePreserves, PersistFailsPreserves, SetDonePreserves,
     WritePreserves
<1>8. ASSUME NEW b \in BOOLEAN, Directory!SetFails(Replica, b) \/ Directory!Restart(Replica, b)
      PROVE  ScimIInv'
  BY <1>8, SetFailsPreserves, RestartPreserves
<1> QED
  BY <1>1, <1>2, <1>3, <1>4, <1>5, <1>6, <1>7, <1>8 DEF Directory!Next

----------------------------------------------------------------------------
(* A user who was deleted is left in no group, in memory or in what the next boot *)
(* reads, for any number of requests in flight, users, groups and restarts.  The  *)
(* queue is part of it: a snapshot taken before the delete, whose group objects   *)
(* deleteUser strips, is stored after it (scim/store.ts, scim/redis-store.ts).    *)
THEOREM GroupsOfTheLiving == Joint => []NoMemberLeftBehind
<1> DEFINE Inv == which = "scim" => ScimIInv
<1>1. JointInit => Inv
  BY ScimStarts DEF JointInit
<1>2. Inv /\ [JointNext]_JointVars => Inv'
  <2>1. ASSUME Inv, JointNext
        PROVE  Inv'
    BY <2>1, ScimSteps, ScimRests DEF JointNext
  <2>2. ASSUME Inv, UNCHANGED JointVars
        PROVE  Inv'
    BY <2>2, ScimRests DEF JointVars
  <2> QED
    BY <2>1, <2>2
<1>3. Inv => NoMemberLeftBehind
  <2> SUFFICES ASSUME ScimIInv, NEW d \in {cMemory[r] : r \in {Replica}} \cup {stored}, NEW g \in d.groups
               PROVE  g.members \subseteq {u.id : u \in d.users} \cup late
    BY DEF NoMemberLeftBehind, Directory!NoMemberLeftBehind
  <2>1. CASE d = Directory!Torn
    BY <2>1 DEF Directory!Torn, Directory!Empty
  <2>2. CASE d # Directory!Torn
    <3>1. Sound(d, cCount.change, late)
      BY <2>2 DEF ScimIInv, ScimSound
    <3> QED
      BY <3>1 DEF Sound
  <2> QED
    BY <2>1, <2>2
<1> QED
  BY <1>1, <1>2, <1>3, PTL DEF Joint

LEMMA ScimHolds == ScimIInv => Directory!TypeOK /\ Directory!AckedIsStored /\ Directory!TornOnlyByTwo
<1> SUFFICES ASSUME ScimIInv
             PROVE  Directory!TypeOK /\ Directory!AckedIsStored /\ Directory!TornOnlyByTwo
  OBVIOUS
<1>1. \A d \in Rosters : Directory!IsDirectory(d)
  BY DEF Rosters, Accounts, Teams, Directory!IsDirectory, Directory!Ids
<1>2. \A i \in DOMAIN queue[Replica] : queue[Replica][i] \in Rosters
  BY DEF ScimIInv, ScimTypes
<1>3. Directory!TypeOK
  BY <1>1, <1>2 DEF ScimIInv, ScimTypes, ScimSound, Sound, Directory!TypeOK
<1>4. Directory!AckedIsStored
  BY DEF ScimIInv, ScimKept, Directory!AckedIsStored
<1>5. Directory!TornOnlyByTwo
  BY DEF ScimIInv, ScimAlone, Directory!TornOnlyByTwo
<1> QED
  BY <1>3, <1>4, <1>5

----------------------------------------------------------------------------
\* The product catalogue.
Stepped(s, steps) == pSlot[s] # Rest /\ pSlot[s].step \in steps
Unread == {"stated", "read", "loaded"}
Served == {"upserted", "opened", "written", "renamed", "pinned"}
Placed == {"renamed", "pinned"}

ShelfTypes ==
    /\ pMemory \in Lists /\ pCursor \in Nat /\ pClock \in Nat
    /\ pFile \in Shelves /\ pTmp \in Shelves \cup {None}
    /\ pSlot \in [Requesters -> Orders \cup {Rest}]
    /\ pCount \in [{"get", "change", "edit", "failure", "restart"} -> Nat]
    /\ pCount.change <= MaxChanges /\ pCount.edit <= MaxEdits
    /\ pQuiet \in Nat /\ pAcked \subseteq [change : 1 .. MaxChanges, edit : 0 .. MaxEdits]
    /\ crowded \in BOOLEAN /\ pOverlap \in BOOLEAN

\* No time and no edit is known that has not been; only changes go on to a write.
ShelfBounds ==
    /\ pCursor <= pClock /\ pFile.mtime <= pClock
    /\ pMemory.edit <= pCount.edit /\ pFile.edit <= pCount.edit /\ pQuiet <= pCount.edit
    /\ pTmp # None => /\ pTmp.mtime <= pClock /\ pTmp.edit <= pCount.edit
                      /\ pTmp.kind \in {"whole", "torn"}
    /\ \A a \in pAcked : a.edit <= pCount.edit
    /\ \A s \in Requesters : pSlot[s] # Rest =>
          /\ pSlot[s].stamp <= pClock
          /\ pSlot[s].next # None => pSlot[s].next.edit <= pCount.edit
          /\ pSlot[s].quiet <= pQuiet
          /\ pSlot[s].step \in Served => pSlot[s].change # 0 /\ pSlot[s].next # None
          /\ pSlot[s].step = "opened" /\ pSlot[s].at = "tmp" => pTmp # None

\* Memory is behind a quiet edit only until the next reload, which the cursor makes sure
\* of, and nothing of an earlier catalogue is on its way to the file.
ShelfQuiet ==
    /\ pFile.kind = "whole" => pFile.edit >= pQuiet
    /\ pFile.kind \in {"gone", "broken"} => pQuiet = 0
    /\ \A s \in Requesters : Stepped(s, Served) => pSlot[s].next.edit >= pQuiet
    /\ (\E s \in Requesters : Stepped(s, {"opened", "written"})) /\ pTmp # None =>
          (pTmp.kind = "whole" => pTmp.edit >= pQuiet)
    /\ pMemory.edit < pQuiet =>
          /\ pFile.kind = "whole" /\ pFile.mtime > pCursor
          /\ \A s \in Requesters : ~Stepped(s, Served)

\* What a request found on its way to a reload is no older than the newest quiet edit, and
\* as long as memory is, the request will reload.
ShelfRead ==
    \A s \in Requesters :
        /\ Stepped(s, Unread) /\ pMemory.edit < pQuiet => pSlot[s].stamp > pCursor
        /\ Stepped(s, {"loaded"}) => IF pSlot[s].next = None THEN pMemory.edit >= pQuiet
                                     ELSE pSlot[s].next.edit >= pQuiet

\* As long as no two wrote the tmp file at once, the one that does wrote its catalogue.
ShelfAlone ==
    ~pOverlap =>
        /\ pFile.kind # "torn"
        /\ \A s, o \in Requesters :
              Stepped(s, {"opened", "written"}) /\ Stepped(o, {"opened", "written"}) => s = o
        /\ \A s \in Requesters :
              /\ Stepped(s, {"opened"}) =>
                    pSlot[s].at = "tmp" /\ pTmp # None /\ pTmp.kind = "torn"
              /\ Stepped(s, {"written"}) =>
                    pTmp # None /\ pTmp.kind = "whole" /\ Catalogue!Catalogue(pTmp) = pSlot[s].next

\* What a change that is made alone finds is the file of now; it is in memory until it is in
\* the file, and no request that read the file before is left to put it back.
ShelfKept ==
    ~crowded =>
        /\ ~pOverlap
        /\ \A s, o \in Requesters : Catalogue!Changing(s) /\ Catalogue!Changing(o) => s = o
        /\ \A s \in Requesters : Catalogue!Changing(s) =>
              /\ pSlot[s].step \in Unread => pSlot[s].stamp = Catalogue!Mtime
              /\ pSlot[s].step \in Served =>
                    pMemory = pSlot[s].next /\ pSlot[s].change \in pMemory.changes
              /\ pSlot[s].step \in Served \ Placed =>
                    /\ Catalogue!Mtime <= pCursor
                    /\ \A o \in Requesters : Stepped(o, Unread) =>
                          pSlot[o].step = "stated" /\ pSlot[o].stamp <= pCursor
              /\ pSlot[s].step \in Placed =>
                    /\ pFile.kind = "whole" /\ Catalogue!Catalogue(pFile) = pMemory
                    /\ \A o \in Requesters : Stepped(o, {"loaded"}) => pSlot[o].next = pMemory
        /\ pFile.kind = "gone" => \A a \in pAcked : a.edit # pFile.edit
        /\ \A a \in pAcked :
              /\ pMemory.edit = a.edit => a.change \in pMemory.changes
              /\ pFile.kind = "whole" /\ pFile.edit = a.edit => a.change \in pFile.changes
              /\ \A o \in Requesters : Stepped(o, {"loaded"}) /\ pSlot[o].next # None =>
                    (pSlot[o].next.edit = a.edit => a.change \in pSlot[o].next.changes)

ShelfIInv == ShelfTypes /\ ShelfBounds /\ ShelfQuiet /\ ShelfRead /\ ShelfAlone /\ ShelfKept

\* The request in the slot of a step that takes one slot on.
LEMMA ShelfSlot ==
    ASSUME ShelfTypes, NEW s \in Requesters, NEW new \in Orders, pSlot' = [pSlot EXCEPT ![s] = new]
    PROVE  /\ new # Rest /\ pSlot' \in [Requesters -> Orders \cup {Rest}]
           /\ \A o \in Requesters : pSlot'[o] = IF o = s THEN new ELSE pSlot[o]
BY CatalogueAssumption DEF ShelfTypes

LEMMA ShelfFree ==
    ASSUME ShelfTypes, NEW s \in Requesters, pSlot' = [pSlot EXCEPT ![s] = Rest]
    PROVE  /\ pSlot' \in [Requesters -> Orders \cup {Rest}]
           /\ \A o \in Requesters : pSlot'[o] = IF o = s THEN Rest ELSE pSlot[o]
BY DEF ShelfTypes

LEMMA ShelfBegin ==
    ASSUME ShelfIInv, NEW s \in Requesters, NEW change \in 0 .. MaxChanges,
           Catalogue!Begin(s, change),
           pCount' \in [{"get", "change", "edit", "failure", "restart"} -> Nat],
           pCount'.change <= MaxChanges, pCount'.edit = pCount.edit
    PROVE  ShelfIInv'
<1> DEFINE new == [step |-> "stat", change |-> change, stamp |-> 0, next |-> None, at |-> "tmp",
                   quiet |-> pQuiet, edits |-> IF pFile.kind = "whole" THEN pFile.edit ELSE 0]
<1>1. /\ pSlot[s] = Rest
      /\ pSlot' = [pSlot EXCEPT ![s] = new]
      /\ crowded' = (crowded \/ (change # 0 /\ \E r \in Requesters : Catalogue!Changing(r)))
      /\ UNCHANGED <<pMemory, pCursor, pFile, pTmp, pClock, pQuiet, pAcked, pOverlap>>
  BY DEF Catalogue!Begin, Catalogue!disk
<1>2. ShelfTypes /\ ShelfBounds /\ ShelfQuiet /\ ShelfRead /\ ShelfAlone /\ ShelfKept
  BY DEF ShelfIInv
<1>3. /\ new \in Orders /\ new.step = "stat" /\ new.change = change /\ new.stamp = 0
      /\ new.next = None /\ new.quiet = pQuiet
  <2>1. pQuiet \in 0 .. MaxEdits
    BY <1>2, CatalogueAssumption DEF ShelfTypes, ShelfBounds
  <2>2. pMemory \in Lists /\ pFile.edit \in 0 .. MaxEdits
    BY <1>2 DEF ShelfTypes, Shelves
  <2> QED
    BY <2>1, <2>2, CatalogueAssumption DEF Orders
<1> HIDE DEF new
<1>4. /\ new # Rest /\ pSlot' \in [Requesters -> Orders \cup {Rest}]
      /\ \A o \in Requesters : pSlot'[o] = IF o = s THEN new ELSE pSlot[o]
  BY <1>1, <1>2, <1>3, ShelfSlot
<1>5. ShelfTypes'
  BY <1>1, <1>2, <1>4 DEF ShelfTypes
<1>6. ShelfBounds'
  BY <1>1, <1>2, <1>3, <1>4 DEF ShelfBounds, ShelfTypes, Served
<1>7. ShelfQuiet'
  BY <1>1, <1>2, <1>3, <1>4 DEF ShelfQuiet, Stepped, Served
<1>10. ShelfRead'
  BY <1>1, <1>2, <1>3, <1>4 DEF ShelfRead, Stepped, Unread
<1>8. ShelfAlone'
  BY <1>1, <1>2, <1>3, <1>4 DEF ShelfAlone, Stepped, Catalogue!Catalogue
<1>9. ShelfKept'
  BY <1>1, <1>2, <1>3, <1>4
  DEF ShelfKept, Stepped, Unread, Served, Placed, Catalogue!Changing, Catalogue!Mtime, Catalogue!Catalogue
<1> QED
  BY <1>5, <1>6, <1>7, <1>8, <1>9, <1>10 DEF ShelfIInv

LEMMA ShelfServe ==
    ASSUME ShelfIInv, NEW s \in Requesters, Stepped(s, {"stated", "loaded"}), NEW catalogue \in Lists,
           Catalogue!Serve(s, catalogue),
           UNCHANGED <<pFile, pTmp, pClock, pCount, pQuiet, pAcked, pOverlap>>,
           pCursor' \in Nat, pCursor' <= pClock,
           catalogue.edit <= pCount.edit, catalogue.edit >= pQuiet,
           ~crowded =>
              /\ \A a \in pAcked : catalogue.edit = a.edit => a.change \in catalogue.changes
              /\ Catalogue!Changing(s) => Catalogue!Mtime <= pCursor'
              /\ (\E o \in Requesters : Stepped(o, Served \ Placed)) => pCursor' = pCursor
              /\ (\E o \in Requesters : Stepped(o, Served)) => catalogue = pMemory
    PROVE  ShelfIInv'
<1>1. ShelfTypes /\ ShelfBounds /\ ShelfQuiet /\ ShelfRead /\ ShelfAlone /\ ShelfKept
  BY DEF ShelfIInv
<1>2. pSlot[s] \in Orders
  BY <1>1 DEF ShelfTypes, Stepped
<1>3. CASE pSlot[s].change = 0
  <2>1. pMemory' = catalogue /\ pSlot' = [pSlot EXCEPT ![s] = Rest] /\ crowded' = crowded
    BY <1>3 DEF Catalogue!Serve
  <2>2. /\ pSlot' \in [Requesters -> Orders \cup {Rest}]
        /\ \A o \in Requesters : pSlot'[o] = IF o = s THEN Rest ELSE pSlot[o]
    BY <1>1, <2>1, ShelfFree
  <2>3. ShelfTypes'
    BY <1>1, <2>1, <2>2 DEF ShelfTypes
  <2>4. ShelfBounds'
    BY <1>1, <2>1, <2>2 DEF ShelfBounds
  <2>5. ShelfQuiet'
    BY <1>1, <2>1, <2>2 DEF ShelfQuiet, ShelfTypes, Lists, Stepped
  <2>8. ShelfRead'
    BY <1>1, <2>1, <2>2 DEF ShelfRead, ShelfTypes, Lists, Stepped
  <2>6. ShelfAlone'
    BY <1>1, <2>1, <2>2 DEF ShelfAlone, Stepped, Catalogue!Catalogue
  <2>7. ShelfKept'
    BY <1>1, <2>1, <2>2
    DEF ShelfKept, Stepped, Unread, Served, Placed, Catalogue!Changing, Catalogue!Mtime, Catalogue!Catalogue
  <2> QED
    BY <2>3, <2>4, <2>5, <2>6, <2>7, <2>8 DEF ShelfIInv
<1>4. CASE pSlot[s].change # 0
  <2> DEFINE kept == [catalogue EXCEPT !.changes = @ \cup {pSlot[s].change}]
             new == [pSlot[s] EXCEPT !.step = "upserted", !.next = kept]
  <2>1. /\ pMemory' = kept /\ pSlot' = [pSlot EXCEPT ![s] = new]
        /\ crowded' = (crowded \/ \E r \in Requesters \ {s} : Stepped(r, Unread))
    BY <1>1, <1>2, <1>4 DEF Catalogue!Serve, Catalogue!Reloading, Stepped, Unread, ShelfTypes
  <2>2. /\ kept \in Lists /\ kept.edit = catalogue.edit
        /\ kept.changes = catalogue.changes \cup {pSlot[s].change}
    BY <1>2, <1>4 DEF Lists, Orders
  <2> HIDE DEF kept
  <2>3. /\ new \in Orders /\ new.step = "upserted" /\ new.next = kept /\ new.change = pSlot[s].change
        /\ new.stamp = pSlot[s].stamp /\ new.quiet = pSlot[s].quiet
    BY <1>2, <2>2 DEF Orders
  <2>10. kept # None
    BY <2>2, CatalogueAssumption
  <2> HIDE DEF new
  <2>4. /\ new # Rest /\ pSlot' \in [Requesters -> Orders \cup {Rest}]
        /\ \A o \in Requesters : pSlot'[o] = IF o = s THEN new ELSE pSlot[o]
    BY <1>1, <2>1, <2>3, ShelfSlot
  <2>5. ShelfTypes'
    BY <1>1, <2>1, <2>2, <2>4 DEF ShelfTypes
  <2>6. ShelfBounds'
    BY <1>1, <1>4, <2>1, <2>2, <2>3, <2>4, <2>10 DEF ShelfBounds, Stepped
  <2>7. ShelfQuiet'
    BY <1>1, <2>1, <2>2, <2>3, <2>4 DEF ShelfQuiet, ShelfTypes, Lists, Stepped
  <2>11. ShelfRead'
    BY <1>1, <2>1, <2>2, <2>3, <2>4 DEF ShelfRead, ShelfTypes, Lists, Stepped, Unread
  <2>8. ShelfAlone'
    BY <1>1, <2>1, <2>3, <2>4 DEF ShelfAlone, Stepped, Catalogue!Catalogue
  <2>9. ShelfKept'
    <3> SUFFICES ASSUME ~crowded'
                 PROVE  ShelfKept'
      BY DEF ShelfKept
    <3>1. /\ ~crowded /\ ~pOverlap /\ \A r \in Requesters \ {s} : ~Stepped(r, Unread)
          /\ Catalogue!Mtime <= pCursor' /\ Catalogue!Changing(s)
      BY <1>1, <1>4, <2>1 DEF ShelfKept, Catalogue!Changing, Stepped
    <3>2. \A o \in Requesters : Catalogue!Changing(o)' => o = s
      BY <1>1, <2>4, <3>1 DEF ShelfKept, Catalogue!Changing
    <3>3. pSlot'[s] = new /\ pSlot[s].change \in kept.changes
      BY <2>2, <2>4
    <3>4. \A o \in Requesters : ~Stepped(o, Unread)'
      BY <2>3, <2>4, <3>1 DEF Stepped, Unread
    <3>5. \A a \in pAcked :
             /\ kept.edit = a.edit => a.change \in kept.changes
             /\ pFile.kind = "whole" /\ pFile.edit = a.edit => a.change \in pFile.changes
      BY <1>1, <2>2, <3>1 DEF ShelfKept
    <3>7. \A a \in pAcked : \A o \in Requesters : ~Stepped(o, {"loaded"})'
      BY <3>4 DEF Stepped, Unread
    <3>6. pFile.kind = "gone" => \A a \in pAcked : a.edit # pFile.edit
      BY <1>1, <3>1 DEF ShelfKept
    <3> QED
      BY <2>1, <2>3, <3>1, <3>2, <3>3, <3>4, <3>5, <3>6, <3>7 DEF ShelfKept, Catalogue!Mtime, Unread, Placed, Stepped
  <2> QED
    BY <2>5, <2>6, <2>7, <2>8, <2>9, <2>11 DEF ShelfIInv
<1> QED
  BY <1>3, <1>4

\* A stat, a decision to read and a read take a request on, and change nothing else.
LEMMA ShelfOn ==
    ASSUME ShelfIInv, NEW s \in Requesters, NEW new \in Orders, pSlot[s] \in Orders,
           pSlot' = [pSlot EXCEPT ![s] = new],
           UNCHANGED <<pMemory, pCursor, pFile, pTmp, pClock, pCount, pQuiet, pAcked, crowded, pOverlap>>,
           new.change = pSlot[s].change, new.quiet = pSlot[s].quiet, new.stamp <= pClock,
           new.step \in Unread,
           new.next # None => new.next.edit <= pCount.edit,
           pMemory.edit < pQuiet => new.stamp > pCursor,
           new.step = "loaded" => IF new.next = None THEN pMemory.edit >= pQuiet ELSE new.next.edit >= pQuiet,
           ~crowded =>
              /\ Catalogue!Changing(s) => new.stamp = Catalogue!Mtime
              /\ (\E o \in Requesters : Stepped(o, Served \ Placed)) =>
                    new.step = "stated" /\ new.stamp <= pCursor
              /\ new.step = "loaded" =>
                    /\ (\E o \in Requesters : Stepped(o, Placed)) => new.next = pMemory
                    /\ new.next # None =>
                          \A a \in pAcked : new.next.edit = a.edit => a.change \in new.next.changes,
           pSlot[s].step \notin Served
    PROVE  ShelfIInv'
<1>1. ShelfTypes /\ ShelfBounds /\ ShelfQuiet /\ ShelfRead /\ ShelfAlone /\ ShelfKept
  BY DEF ShelfIInv
<1>2. /\ new # Rest /\ pSlot' \in [Requesters -> Orders \cup {Rest}]
      /\ \A o \in Requesters : pSlot'[o] = IF o = s THEN new ELSE pSlot[o]
  BY <1>1, ShelfSlot
<1>3. new.step \notin Served
  BY DEF Unread, Served
<1>4. ShelfTypes'
  BY <1>1, <1>2 DEF ShelfTypes
<1>5. ShelfBounds'
  BY <1>1, <1>2, <1>3, CatalogueAssumption DEF ShelfBounds, Stepped, Unread
<1>6. ShelfQuiet'
  BY <1>1, <1>2, <1>3 DEF ShelfQuiet, Stepped, Served
<1>7. ShelfRead'
  BY <1>1, <1>2 DEF ShelfRead, Stepped
<1>8. ShelfAlone'
  BY <1>1, <1>2, <1>3 DEF ShelfAlone, Stepped, Served, Catalogue!Catalogue
<1>9. ShelfKept'
  <2> SUFFICES ASSUME ~crowded
               PROVE  ShelfKept'
    BY DEF ShelfKept
  <2>1. pSlot[s] # Rest
    BY CatalogueAssumption
  <2>2. \A o \in Requesters : Catalogue!Changing(o)' <=> Catalogue!Changing(o)
    BY <1>2, <2>1 DEF Catalogue!Changing
  <2>3. \A o, r \in Requesters : Catalogue!Changing(o)' /\ Catalogue!Changing(r)' => o = r
    BY <1>1, <2>2 DEF ShelfKept
  <2>4. \A a \in pAcked : \A o \in Requesters : Stepped(o, {"loaded"})' /\ pSlot'[o].next # None =>
           (pSlot'[o].next.edit = a.edit => a.change \in pSlot'[o].next.changes)
    BY <1>1, <1>2 DEF ShelfKept, Stepped
  <2>5. ASSUME NEW o \in Requesters, Catalogue!Changing(o)'
        PROVE  /\ pSlot'[o].step \in Unread => pSlot'[o].stamp = Catalogue!Mtime
               /\ pSlot'[o].step \in Served =>
                    o # s /\ pMemory = pSlot'[o].next /\ pSlot'[o].change \in pMemory.changes
               /\ pSlot'[o].step \in Served \ Placed =>
                    /\ Catalogue!Mtime <= pCursor
                    /\ \A r \in Requesters : Stepped(r, Unread)' =>
                          pSlot'[r].step = "stated" /\ pSlot'[r].stamp <= pCursor
               /\ pSlot'[o].step \in Placed =>
                    /\ pFile.kind = "whole" /\ Catalogue!Catalogue(pFile) = pMemory
                    /\ \A r \in Requesters : Stepped(r, {"loaded"})' => pSlot'[r].next = pMemory
    <3>1. Catalogue!Changing(o) /\ pSlot[o] # Rest
      BY <2>2, <2>5 DEF Catalogue!Changing
    <3>2. pSlot'[o].step \in Served => o # s /\ pSlot'[o] = pSlot[o]
      BY <1>2, <1>3
    <3>3. pSlot'[o].step \in Served \ Placed => Stepped(o, Served \ Placed)
      BY <3>1, <3>2 DEF Stepped
    <3>4. pSlot'[o].step \in Placed => Stepped(o, Placed) /\ pSlot'[o] = pSlot[o]
      BY <3>1, <3>2 DEF Stepped, Placed, Served
    <3>5. pSlot'[o].step \in Unread => pSlot'[o].stamp = Catalogue!Mtime
      BY <1>1, <1>2, <3>1 DEF ShelfKept
    <3>6. pSlot'[o].step \in Served \ Placed =>
            /\ Catalogue!Mtime <= pCursor
            /\ \A r \in Requesters : Stepped(r, Unread)' =>
                  pSlot'[r].step = "stated" /\ pSlot'[r].stamp <= pCursor
      BY <1>1, <1>2, <3>1, <3>2, <3>3 DEF ShelfKept, Stepped
    <3>7. pSlot'[o].step \in Placed =>
            /\ pFile.kind = "whole" /\ Catalogue!Catalogue(pFile) = pMemory
            /\ \A r \in Requesters : Stepped(r, {"loaded"})' => pSlot'[r].next = pMemory
      BY <1>1, <1>2, <3>1, <3>4 DEF ShelfKept, Stepped
    <3>8. pSlot'[o].step \in Served => pMemory = pSlot'[o].next /\ pSlot'[o].change \in pMemory.changes
      BY <1>1, <3>1, <3>2 DEF ShelfKept
    <3> QED
      BY <3>2, <3>5, <3>6, <3>7, <3>8
  <2> QED
    BY <1>1, <2>3, <2>4, <2>5 DEF ShelfKept, Catalogue!Mtime, Catalogue!Catalogue
<1> QED
  BY <1>4, <1>5, <1>6, <1>7, <1>8, <1>9 DEF ShelfIInv

LEMMA ShelfStat ==
    ASSUME ShelfIInv, NEW s \in Requesters, Catalogue!Stat(s)
    PROVE  ShelfIInv'
<1> DEFINE new == [pSlot[s] EXCEPT !.step = "stated", !.stamp = Catalogue!Mtime]
<1>1. ShelfTypes /\ ShelfBounds /\ ShelfQuiet /\ ShelfRead /\ ShelfAlone /\ ShelfKept
  BY DEF ShelfIInv
<1>2. /\ Stepped(s, {"stat"}) /\ pSlot[s] \in Orders /\ pSlot' = [pSlot EXCEPT ![s] = new]
      /\ UNCHANGED <<pMemory, pCursor, pFile, pTmp, pClock, pCount, pQuiet, pAcked, crowded, pOverlap>>
  BY <1>1 DEF Catalogue!Stat, Catalogue!At, Catalogue!disk, Catalogue!history, Stepped, ShelfTypes
<1>3. Catalogue!Mtime \in Nat /\ Catalogue!Mtime <= pClock
  BY <1>1 DEF ShelfTypes, ShelfBounds, Shelves, Catalogue!Mtime
<1>4. /\ new \in Orders /\ new.step = "stated" /\ new.stamp = Catalogue!Mtime
      /\ new.change = pSlot[s].change /\ new.next = pSlot[s].next /\ new.quiet = pSlot[s].quiet
  BY <1>2, <1>3 DEF Orders
<1> HIDE DEF new
<1>5. pMemory.edit < pQuiet => new.stamp > pCursor
  BY <1>1, <1>4 DEF ShelfQuiet, Catalogue!Mtime
<1>6. new.next # None => new.next.edit <= pCount.edit
  BY <1>1, <1>2, <1>4 DEF ShelfBounds, Stepped
<1>7. ~crowded /\ (\E o \in Requesters : Stepped(o, Served \ Placed)) => new.stamp <= pCursor
  BY <1>1, <1>4 DEF ShelfKept, ShelfBounds, Stepped, Catalogue!Changing
<1>8. pSlot[s].step \notin Served /\ "stated" \in Unread
  BY <1>2 DEF Stepped, Served, Unread
<1> QED
  BY <1>2, <1>3, <1>4, <1>5, <1>6, <1>7, <1>8, ShelfOn

LEMMA ShelfDecide ==
    ASSUME ShelfIInv, NEW s \in Requesters, Catalogue!Decide(s)
    PROVE  ShelfIInv'
<1>1. ShelfTypes /\ ShelfBounds /\ ShelfQuiet /\ ShelfRead /\ ShelfAlone /\ ShelfKept
  BY DEF ShelfIInv
<1>2. /\ Stepped(s, {"stated"}) /\ Stepped(s, Unread) /\ pSlot[s] \in Orders
      /\ UNCHANGED <<pCursor, pFile, pTmp, pClock, pCount, pQuiet, pAcked, pOverlap>>
  BY <1>1 DEF Catalogue!Decide, Catalogue!At, Catalogue!disk, Stepped, Unread, ShelfTypes
<1>0. pSlot[s].stamp \in Nat /\ pCursor \in Nat /\ pSlot[s].stamp <= pClock
  BY <1>1, <1>2 DEF ShelfTypes, ShelfBounds, Orders, Stepped
<1>3. CASE pSlot[s].stamp > pCursor
  <2> DEFINE new == [pSlot[s] EXCEPT !.step = "read"]
  <2>1. pSlot' = [pSlot EXCEPT ![s] = new] /\ UNCHANGED <<pMemory, crowded>>
    BY <1>1, <1>2, <1>3 DEF Catalogue!Decide, Stepped, ShelfTypes
  <2>2. /\ new \in Orders /\ new.step = "read" /\ new.stamp = pSlot[s].stamp
        /\ new.change = pSlot[s].change /\ new.next = pSlot[s].next /\ new.quiet = pSlot[s].quiet
    BY <1>2 DEF Orders
  <2> HIDE DEF new
  <2>3. new.next # None => new.next.edit <= pCount.edit
    BY <1>1, <1>2, <2>2 DEF ShelfBounds, Stepped
  <2>4. ~crowded /\ Catalogue!Changing(s) => new.stamp = Catalogue!Mtime
    BY <1>1, <1>2, <2>2 DEF ShelfKept, Stepped
  <2>5. ~crowded => ~\E o \in Requesters : Stepped(o, Served \ Placed)
    BY <1>0, <1>1, <1>2, <1>3 DEF ShelfKept, ShelfBounds, Stepped, Catalogue!Changing
  <2>6. pSlot[s].step \notin Served /\ "read" \in Unread
    BY <1>2 DEF Stepped, Served, Unread
  <2> QED
    BY <1>0, <1>2, <1>3, <2>1, <2>2, <2>3, <2>4, <2>5, <2>6, ShelfOn
<1>4. CASE ~(pSlot[s].stamp > pCursor)
  <2>1. Catalogue!Serve(s, pMemory)
    BY <1>4 DEF Catalogue!Decide
  <2>2. /\ pMemory \in Lists /\ pCursor' \in Nat /\ pCursor' <= pClock /\ pMemory.edit <= pCount.edit
    BY <1>1, <1>2 DEF ShelfTypes, ShelfBounds
  <2>3. pMemory.edit >= pQuiet
    BY <1>1, <1>2, <1>4, CatalogueAssumption DEF ShelfTypes, ShelfRead, Lists
  <2>4. ~crowded /\ Catalogue!Changing(s) => Catalogue!Mtime <= pCursor'
    BY <1>0, <1>1, <1>2, <1>4 DEF ShelfKept, Stepped
  <2>5. ~crowded => \A a \in pAcked : pMemory.edit = a.edit => a.change \in pMemory.changes
    BY <1>1 DEF ShelfKept
  <2>6. Stepped(s, {"stated", "loaded"})
    BY <1>2 DEF Stepped
  <2> QED
    BY <1>2, <2>1, <2>2, <2>3, <2>4, <2>5, <2>6, ShelfServe
<1> QED
  BY <1>3, <1>4

\* What a read of the file yields is as new as the newest quiet edit.
LEMMA ParsedFacts ==
    ASSUME ShelfIInv
    PROVE  /\ Catalogue!Parsed \in Lists \cup {None}
           /\ Catalogue!Parsed = None <=> pFile.kind \in {"torn", "broken"}
           /\ Catalogue!Parsed = None => pMemory.edit >= pQuiet
           /\ Catalogue!Parsed # None =>
                 /\ Catalogue!Parsed.edit <= pCount.edit /\ Catalogue!Parsed.edit >= pQuiet
                 /\ ~crowded => \A a \in pAcked : Catalogue!Parsed.edit = a.edit => a.change \in Catalogue!Parsed.changes
           /\ ~crowded /\ (\E o \in Requesters : Stepped(o, Placed)) => Catalogue!Parsed = pMemory
<1>1. ShelfTypes /\ ShelfBounds /\ ShelfQuiet /\ ShelfKept
  BY DEF ShelfIInv
<1>2. pFile \in Shelves /\ pMemory \in Lists /\ pQuiet \in Nat
  BY <1>1 DEF ShelfTypes
<1>3. ~crowded /\ (\E o \in Requesters : Stepped(o, Placed)) =>
         pFile.kind = "whole" /\ Catalogue!Catalogue(pFile) = pMemory
  <2>1. \A o \in Requesters : Stepped(o, Placed) => Stepped(o, Served)
    BY DEF Stepped, Placed, Served
  <2> QED
    BY <1>1, <2>1 DEF ShelfKept, Stepped, Catalogue!Changing, ShelfBounds
<1>4. CASE pFile.kind = "whole"
  <2>1. /\ Catalogue!Parsed = Catalogue!Catalogue(pFile)
        /\ Catalogue!Parsed \in Lists /\ Catalogue!Parsed.edit = pFile.edit
        /\ Catalogue!Parsed.changes = pFile.changes
    BY <1>2, <1>4 DEF Catalogue!Parsed, Catalogue!Catalogue, Shelves, Lists
  <2> QED
    BY <1>1, <1>3, <1>4, <2>1, CatalogueAssumption DEF ShelfBounds, ShelfQuiet, ShelfKept
<1>5. CASE pFile.kind = "gone"
  <2>1. /\ Catalogue!Parsed \in Lists /\ Catalogue!Parsed.edit = pFile.edit /\ Catalogue!Parsed.edit \in Nat
    BY <1>2, <1>5, CatalogueAssumption DEF Catalogue!Parsed, Shelves, Lists
  <2> QED
    BY <1>1, <1>3, <1>5, <2>1, CatalogueAssumption DEF ShelfBounds, ShelfQuiet, ShelfKept
<1>6. CASE pFile.kind \notin {"whole", "gone"}
  <2>1. Catalogue!Parsed = None /\ pFile.kind \in {"torn", "broken"}
    BY <1>2, <1>6 DEF Catalogue!Parsed, Shelves
  <2>2. pMemory.edit >= pQuiet
    BY <1>1, <1>2, <1>6, CatalogueAssumption DEF ShelfQuiet, Lists
  <2> QED
    BY <1>3, <1>6, <2>1, <2>2
<1> QED
  BY <1>4, <1>5, <1>6

LEMMA ShelfReads ==
    ASSUME ShelfIInv, NEW s \in Requesters, Catalogue!Read(s)
    PROVE  ShelfIInv'
<1> DEFINE new == [pSlot[s] EXCEPT !.step = "loaded", !.next = Catalogue!Parsed]
<1>1. ShelfTypes /\ ShelfBounds /\ ShelfQuiet /\ ShelfRead /\ ShelfAlone /\ ShelfKept
  BY DEF ShelfIInv
<1>2. /\ Stepped(s, {"read"}) /\ Stepped(s, Unread) /\ pSlot[s] \in Orders
      /\ pSlot' = [pSlot EXCEPT ![s] = new]
      /\ UNCHANGED <<pMemory, pCursor, pFile, pTmp, pClock, pCount, pQuiet, pAcked, crowded, pOverlap>>
  BY <1>1 DEF Catalogue!Read, Catalogue!At, Catalogue!disk, Catalogue!history, Stepped, Unread, ShelfTypes
<1>3. /\ new \in Orders /\ new.step = "loaded" /\ new.stamp = pSlot[s].stamp
      /\ new.change = pSlot[s].change /\ new.next = Catalogue!Parsed /\ new.quiet = pSlot[s].quiet
  <2>1. Catalogue!Parsed \in Lists \cup {None}
    BY ParsedFacts
  <2> QED
    BY <1>2, <2>1 DEF Orders
<1> HIDE DEF new
<1>4. pMemory.edit < pQuiet => new.stamp > pCursor
  BY <1>1, <1>2, <1>3 DEF ShelfRead
<1>5. new.stamp <= pClock
  BY <1>1, <1>2, <1>3 DEF ShelfBounds, Stepped
<1>6. ~crowded /\ Catalogue!Changing(s) => new.stamp = Catalogue!Mtime
  BY <1>1, <1>2, <1>3 DEF ShelfKept, Stepped
<1>7. ~crowded => ~\E o \in Requesters : Stepped(o, Served \ Placed)
  BY <1>1, <1>2 DEF ShelfKept, ShelfBounds, Stepped, Catalogue!Changing
<1>8. pSlot[s].step \notin Served /\ "loaded" \in Unread
  BY <1>2 DEF Stepped, Served, Unread
<1> QED
  BY <1>2, <1>3, <1>4, <1>5, <1>6, <1>7, <1>8, ParsedFacts, ShelfOn

LEMMA ShelfReload ==
    ASSUME ShelfIInv, NEW s \in Requesters, Catalogue!Reload(s)
    PROVE  ShelfIInv'
<1> DEFINE catalogue == IF pSlot[s].next = None THEN pMemory ELSE pSlot[s].next
<1>1. ShelfTypes /\ ShelfBounds /\ ShelfQuiet /\ ShelfRead /\ ShelfAlone /\ ShelfKept
  BY DEF ShelfIInv
<1>2. /\ Stepped(s, {"loaded"}) /\ Stepped(s, Unread) /\ Stepped(s, {"stated", "loaded"})
      /\ pSlot[s] \in Orders
      /\ Catalogue!Serve(s, catalogue) /\ pCursor' = pSlot[s].stamp
      /\ UNCHANGED <<pFile, pTmp, pClock, pCount, pQuiet, pAcked, pOverlap>>
  BY <1>1 DEF Catalogue!Reload, Catalogue!At, Catalogue!disk, Stepped, Unread, ShelfTypes
<1>3. pCursor' \in Nat /\ pCursor' <= pClock
  BY <1>1, <1>2 DEF ShelfBounds, Stepped, Orders
<1>4. catalogue \in Lists /\ catalogue.edit <= pCount.edit /\ catalogue.edit >= pQuiet
  BY <1>1, <1>2 DEF ShelfTypes, ShelfBounds, ShelfRead, Stepped, Orders
<1>5. ~crowded => \A a \in pAcked : catalogue.edit = a.edit => a.change \in catalogue.changes
  BY <1>1, <1>2 DEF ShelfKept
<1>6. ~crowded => \A o \in Requesters : ~Stepped(o, Served \ Placed)
  BY <1>1, <1>2 DEF ShelfKept, ShelfBounds, Stepped, Catalogue!Changing
<1>7. ~crowded /\ (\E o \in Requesters : Stepped(o, Served)) => catalogue = pMemory
  <2>1. ~crowded => \A o \in Requesters : Stepped(o, Served) => Stepped(o, Placed)
    BY <1>6 DEF Stepped
  <2>2. ~crowded => \A o \in Requesters : Stepped(o, Placed) => pSlot[s].next = pMemory
    BY <1>1, <1>2 DEF ShelfKept, ShelfBounds, Stepped, Catalogue!Changing, Placed, Served
  <2> QED
    BY <2>1, <2>2
<1>8. ~crowded /\ Catalogue!Changing(s) => Catalogue!Mtime <= pCursor'
  <2>1. ~crowded /\ Catalogue!Changing(s) => pCursor' = Catalogue!Mtime
    BY <1>1, <1>2 DEF ShelfKept, Stepped
  <2> QED
    BY <1>3, <2>1
<1> HIDE DEF catalogue
<1> QED
  BY <1>2, <1>3, <1>4, <1>5, <1>6, <1>7, <1>8, ShelfServe

LEMMA ShelfOpen ==
    ASSUME ShelfIInv, NEW s \in Requesters, Catalogue!Open(s)
    PROVE  ShelfIInv'
<1> DEFINE new == [pSlot[s] EXCEPT !.step = "opened", !.at = "tmp"]
<1>1. ShelfTypes /\ ShelfBounds /\ ShelfQuiet /\ ShelfRead /\ ShelfAlone /\ ShelfKept
  BY DEF ShelfIInv
<1>2. /\ Stepped(s, {"upserted"}) /\ pSlot[s] \in Orders
      /\ pTmp' = Catalogue!Torn /\ pClock' = pClock + 1
      /\ pSlot' = [pSlot EXCEPT ![s] = new]
      /\ pOverlap' = (pOverlap \/ \E r \in Requesters \ {s} : Stepped(r, {"upserted", "opened", "written"}))
      /\ UNCHANGED <<pMemory, pCursor, pFile, pCount, pQuiet, pAcked, crowded>>
  BY <1>1 DEF Catalogue!Open, Catalogue!At, Catalogue!Writing, Stepped, ShelfTypes
<1>3. /\ new \in Orders /\ new.step = "opened" /\ new.at = "tmp" /\ new.change = pSlot[s].change
      /\ new.next = pSlot[s].next /\ new.quiet = pSlot[s].quiet /\ new.stamp = pSlot[s].stamp
  BY <1>2 DEF Orders
<1> HIDE DEF new
<1>4. /\ new # Rest /\ pSlot' \in [Requesters -> Orders \cup {Rest}]
      /\ \A o \in Requesters : pSlot'[o] = IF o = s THEN new ELSE pSlot[o]
  BY <1>1, <1>2, <1>3, ShelfSlot
<1>5. /\ pTmp' \in Shelves /\ pTmp' # None /\ pTmp'.mtime = pClock + 1 /\ pTmp'.edit = 0
      /\ pTmp'.kind = "torn"
  BY <1>1, <1>2, CatalogueAssumption DEF Catalogue!Torn, Shelves, ShelfTypes
<1>6. ShelfTypes'
  BY <1>1, <1>2, <1>4, <1>5 DEF ShelfTypes
<1>7. ShelfBounds'
  <2>1. \A o \in Requesters : pSlot[o] # Rest => pSlot[o].stamp \in Nat
    BY <1>1 DEF ShelfTypes, Orders
  <2> QED
    BY <1>1, <1>2, <1>3, <1>4, <1>5, <2>1 DEF ShelfBounds, ShelfTypes, Shelves, Stepped, Served
<1>8. ShelfQuiet'
  BY <1>1, <1>2, <1>3, <1>4, <1>5 DEF ShelfQuiet, Stepped, Served
<1>20. ShelfRead'
  BY <1>1, <1>2, <1>3, <1>4 DEF ShelfRead, Stepped, Unread
<1>9. ShelfAlone'
  <2> SUFFICES ASSUME ~pOverlap'
               PROVE  ShelfAlone'
    BY DEF ShelfAlone
  <2>1. \A o \in Requesters : Stepped(o, {"opened", "written"})' => o = s
    BY <1>2, <1>4 DEF Stepped
  <2>2. pFile'.kind # "torn"
    BY <1>1, <1>2 DEF ShelfAlone
  <2> QED
    BY <1>3, <1>4, <1>5, <2>1, <2>2 DEF ShelfAlone, Stepped
<1>10. ShelfKept'
  <2>1. ~crowded => \A o \in Requesters : Stepped(o, Served) => o = s
    BY <1>1, <1>2 DEF ShelfKept, ShelfBounds, Stepped, Served, Catalogue!Changing
  <2>2. ~crowded => ~pOverlap'
    BY <1>1, <1>2, <2>1 DEF ShelfKept, Stepped, Served
  <2> QED
    BY <1>1, <1>2, <1>3, <1>4, <2>2
    DEF ShelfKept, Stepped, Unread, Served, Placed, Catalogue!Changing, Catalogue!Mtime, Catalogue!Catalogue
<1> QED
  BY <1>6, <1>7, <1>8, <1>9, <1>10, <1>20 DEF ShelfIInv

LEMMA ShelfWrite ==
    ASSUME ShelfIInv, NEW s \in Requesters, NEW mixed \in BOOLEAN, Catalogue!Write(s, mixed)
    PROVE  ShelfIInv'
<1> DEFINE new == [pSlot[s] EXCEPT !.step = "written"]
           text == IF mixed THEN Catalogue!Torn ELSE Catalogue!Written(pSlot[s].next)
<1>1. ShelfTypes /\ ShelfBounds /\ ShelfQuiet /\ ShelfRead /\ ShelfAlone /\ ShelfKept
  BY DEF ShelfIInv
<1>2. /\ Stepped(s, {"opened"}) /\ pSlot[s] \in Orders
      /\ pClock' = pClock + 1
      /\ \/ /\ pSlot[s].at = "tmp" /\ (mixed => pTmp.kind = "whole")
            /\ pTmp' = text /\ pFile' = pFile
         \/ /\ pSlot[s].at = "path" /\ (mixed => pFile.kind = "whole")
            /\ pFile' = text /\ pTmp' = pTmp
         \/ pSlot[s].at = "lost" /\ ~mixed /\ pFile' = pFile /\ pTmp' = pTmp
      /\ pSlot' = [pSlot EXCEPT ![s] = new]
      /\ UNCHANGED <<pMemory, pCursor, pCount, pQuiet, pAcked, crowded, pOverlap>>
  BY <1>1 DEF Catalogue!Write, Catalogue!At, Catalogue!history, Stepped, ShelfTypes
<1>3. /\ new \in Orders /\ new.step = "written" /\ new.at = pSlot[s].at /\ new.change = pSlot[s].change
      /\ new.next = pSlot[s].next /\ new.quiet = pSlot[s].quiet /\ new.stamp = pSlot[s].stamp
  BY <1>2 DEF Orders
<1> HIDE DEF new
<1>4. /\ new # Rest /\ pSlot' \in [Requesters -> Orders \cup {Rest}]
      /\ \A o \in Requesters : pSlot'[o] = IF o = s THEN new ELSE pSlot[o]
  BY <1>1, <1>2, <1>3, ShelfSlot
<1>5. /\ text \in Shelves /\ text # None /\ text.mtime = pClock + 1 /\ text.edit <= pCount.edit
      /\ text.kind \in {"whole", "torn"}
      /\ text.kind = "whole" => text.edit = pSlot[s].next.edit
      /\ ~mixed => text.kind = "whole" /\ Catalogue!Catalogue(text) = pSlot[s].next
  <2>1. pSlot[s].next \in Lists /\ pSlot[s].next.edit <= pCount.edit /\ pCount.edit \in Nat /\ pClock + 1 \in Nat
    BY <1>1, <1>2 DEF ShelfBounds, ShelfTypes, Stepped, Orders, Served
  <2>2. CASE mixed
    BY <2>1, <2>2, CatalogueAssumption DEF Catalogue!Torn, Shelves
  <2>3. CASE ~mixed
    <3>1. text = [mtime |-> pClock + 1, kind |-> "whole", edit |-> pSlot[s].next.edit, changes |-> pSlot[s].next.changes]
      BY <2>3 DEF Catalogue!Written
    <3>2. pSlot[s].next = [edit |-> pSlot[s].next.edit, changes |-> pSlot[s].next.changes]
      BY <2>1 DEF Lists
    <3>3. text \in Shelves
      BY <2>1, <3>1 DEF Shelves, Lists
    <3> HIDE DEF text
    <3> QED
      BY <2>1, <2>3, <3>1, <3>2, <3>3, CatalogueAssumption DEF Catalogue!Catalogue
  <2> QED
    BY <2>2, <2>3
<1> HIDE DEF text
<1>6. ShelfTypes'
  BY <1>1, <1>2, <1>4, <1>5 DEF ShelfTypes
<1>7. ShelfBounds'
  <2>1. \A o \in Requesters : pSlot[o] # Rest => pSlot[o].stamp \in Nat
    BY <1>1 DEF ShelfTypes, Orders
  <2> QED
    BY <1>1, <1>2, <1>3, <1>4, <1>5, <2>1 DEF ShelfBounds, ShelfTypes, Shelves, Stepped, Served
<1>8. ShelfQuiet'
  <2>1. pSlot[s].next.edit >= pQuiet /\ pMemory.edit >= pQuiet
    <3>1. Stepped(s, Served)
      BY <1>2 DEF Stepped, Served
    <3> QED
      BY <1>1, <3>1 DEF ShelfQuiet, ShelfTypes, Lists
  <2>2. pMemory.edit \in Nat /\ pQuiet \in Nat
    BY <1>1, CatalogueAssumption DEF ShelfTypes, Lists
  <2> QED
    BY <1>1, <1>2, <1>3, <1>4, <1>5, <2>1, <2>2 DEF ShelfQuiet, Stepped, Served
<1>20. ShelfRead'
  BY <1>1, <1>2, <1>3, <1>4 DEF ShelfRead, Stepped, Unread
<1>9. ASSUME ~pOverlap
      PROVE  pSlot[s].at = "tmp" /\ ~mixed
  BY <1>1, <1>2, <1>9 DEF ShelfAlone, Stepped
<1>10. ShelfAlone'
  <2> SUFFICES ASSUME ~pOverlap
               PROVE  ShelfAlone'
    BY <1>2 DEF ShelfAlone
  <2> QED
    BY <1>1, <1>2, <1>3, <1>4, <1>5, <1>9 DEF ShelfAlone, Stepped, Catalogue!Catalogue
<1>11. ShelfKept'
  <2>1. ~crowded => pFile' = pFile
    BY <1>1, <1>2, <1>9 DEF ShelfKept
  <2> QED
    BY <1>1, <1>2, <1>3, <1>4, <2>1
    DEF ShelfKept, Stepped, Unread, Served, Placed, Catalogue!Changing, Catalogue!Mtime, Catalogue!Catalogue
<1> QED
  BY <1>6, <1>7, <1>8, <1>10, <1>11, <1>20 DEF ShelfIInv

LEMMA ShelfRename ==
    ASSUME ShelfIInv, NEW s \in Requesters, Catalogue!Rename(s)
    PROVE  ShelfIInv'
<1> DEFINE new == [pSlot[s] EXCEPT !.step = "renamed"]
           moved(o) == [pSlot[o] EXCEPT !.at = Catalogue!Moved(o)]
<1>1. ShelfTypes /\ ShelfBounds /\ ShelfQuiet /\ ShelfRead /\ ShelfAlone /\ ShelfKept
  BY DEF ShelfIInv
<1>2. /\ Stepped(s, {"written"}) /\ pSlot[s] \in Orders /\ pTmp # None
      /\ pFile' = pTmp /\ pTmp' = None
      /\ pSlot' = [o \in Requesters |-> IF o = s THEN new
                                        ELSE IF Stepped(o, {"opened"}) THEN moved(o) ELSE pSlot[o]]
      /\ UNCHANGED <<pMemory, pCursor, pClock, pCount, pQuiet, pAcked, crowded, pOverlap>>
  BY <1>1 DEF Catalogue!Rename, Catalogue!At, Catalogue!history, Stepped, ShelfTypes
<1>3. /\ new \in Orders /\ new.step = "renamed" /\ new.at = pSlot[s].at /\ new.change = pSlot[s].change
      /\ new.next = pSlot[s].next /\ new.quiet = pSlot[s].quiet /\ new.stamp = pSlot[s].stamp
      /\ new # Rest
  BY <1>2, CatalogueAssumption DEF Orders
<1>4. \A o \in Requesters : Stepped(o, {"opened"}) =>
         /\ moved(o) \in Orders /\ moved(o).step = "opened" /\ moved(o).at # "tmp"
         /\ moved(o).change = pSlot[o].change /\ moved(o).next = pSlot[o].next
         /\ moved(o).quiet = pSlot[o].quiet /\ moved(o).stamp = pSlot[o].stamp /\ moved(o) # Rest
  <2>1. \A o \in Requesters : Stepped(o, {"opened"}) => pSlot[o] \in Orders /\ pSlot[o].step = "opened"
    BY <1>1 DEF ShelfTypes, Stepped
  <2>2. \A o \in Requesters : Catalogue!Moved(o) \in {"path", "lost"}
    BY DEF Catalogue!Moved
  <2> QED
    BY <2>1, <2>2, CatalogueAssumption DEF Orders
<1> HIDE DEF new, moved
<1>5. /\ pSlot' \in [Requesters -> Orders \cup {Rest}] /\ pSlot'[s] = new
      /\ \A o \in Requesters \ {s} :
            /\ pSlot'[o] = Rest <=> pSlot[o] = Rest
            /\ ~Stepped(o, {"opened"}) => pSlot'[o] = pSlot[o]
            /\ pSlot[o] # Rest =>
                  /\ pSlot'[o].step = pSlot[o].step /\ pSlot'[o].change = pSlot[o].change
                  /\ pSlot'[o].next = pSlot[o].next /\ pSlot'[o].quiet = pSlot[o].quiet
                  /\ pSlot'[o].stamp = pSlot[o].stamp
                  /\ pSlot'[o].step = "opened" => pSlot'[o].at # "tmp"
  BY <1>1, <1>2, <1>3, <1>4 DEF ShelfTypes, Stepped
<1>6. pFile' \in Shelves
  BY <1>1, <1>2 DEF ShelfTypes
<1>7. ShelfTypes'
  BY <1>1, <1>2, <1>5, <1>6 DEF ShelfTypes
<1>8. ShelfBounds'
  BY <1>1, <1>2, <1>3, <1>5 DEF ShelfBounds, Stepped, Served
<1>9. ShelfQuiet'
  <2>1. pSlot[s].next.edit >= pQuiet /\ pMemory.edit >= pQuiet
    <3>1. Stepped(s, Served)
      BY <1>2 DEF Stepped, Served
    <3> QED
      BY <1>1, <3>1 DEF ShelfQuiet, ShelfTypes, Lists
  <2>2. pMemory.edit \in Nat /\ pQuiet \in Nat
    BY <1>1, CatalogueAssumption DEF ShelfTypes, Lists
  <2>3. pTmp.kind \in {"whole", "torn"} /\ (pTmp.kind = "whole" => pTmp.edit >= pQuiet)
    BY <1>1, <1>2 DEF ShelfQuiet, ShelfBounds, Stepped
  <2>4. \A o \in Requesters : Stepped(o, Served)' => pSlot'[o].next.edit >= pQuiet
    BY <1>1, <1>3, <1>5, <2>1 DEF ShelfQuiet, Stepped
  <2> QED
    BY <1>2, <2>1, <2>2, <2>3, <2>4 DEF ShelfQuiet
<1>20. ShelfRead'
  BY <1>1, <1>2, <1>3, <1>5 DEF ShelfRead, Stepped, Unread
<1>10. ASSUME ~pOverlap
       PROVE  /\ pTmp.kind = "whole" /\ Catalogue!Catalogue(pTmp) = pSlot[s].next
              /\ \A o \in Requesters : ~Stepped(o, {"opened", "written"})'
  BY <1>1, <1>2, <1>3, <1>5, <1>10 DEF ShelfAlone, Stepped
<1>11. ShelfAlone'
  <2> SUFFICES ASSUME ~pOverlap
               PROVE  ShelfAlone'
    BY <1>2 DEF ShelfAlone
  <2> QED
    BY <1>2, <1>10 DEF ShelfAlone, Stepped
<1>12. ShelfKept'
  <2> SUFFICES ASSUME ~crowded
               PROVE  ShelfKept'
    BY <1>2 DEF ShelfKept
  <2>1. ~pOverlap /\ Catalogue!Changing(s)
    BY <1>1, <1>2 DEF ShelfKept, ShelfBounds, Stepped, Served, Catalogue!Changing
  <2>2. \A o \in Requesters : Catalogue!Changing(o)' => o = s
    BY <1>1, <1>5, <2>1 DEF ShelfKept, Catalogue!Changing
  <2>3. pMemory = pSlot[s].next /\ pSlot[s].change \in pMemory.changes
    BY <1>1, <1>2, <2>1 DEF ShelfKept, Stepped, Served
  <2>4. pFile'.kind = "whole" /\ Catalogue!Catalogue(pFile') = pMemory
    BY <1>2, <1>10, <2>1, <2>3
  <2>6. \A o \in Requesters : ~Stepped(o, {"loaded"})
    BY <1>1, <1>2, <2>1 DEF ShelfKept, Stepped, Unread, Served, Placed
  <2>7. \A o \in Requesters : ~Stepped(o, {"loaded"})'
    BY <1>3, <1>5, <2>6 DEF Stepped
  <2>5. pFile'.edit = pMemory.edit /\ pFile'.changes = pMemory.changes
    BY <2>4 DEF Catalogue!Catalogue
  <2> QED
    BY <1>1, <1>2, <1>3, <1>5, <2>1, <2>2, <2>3, <2>4, <2>5, <2>6, <2>7
    DEF ShelfKept, Unread, Served, Placed
<1> QED
  BY <1>7, <1>8, <1>9, <1>11, <1>12, <1>20 DEF ShelfIInv

LEMMA ShelfStatAgain ==
    ASSUME ShelfIInv, NEW s \in Requesters, Catalogue!StatAgain(s)
    PROVE  ShelfIInv'
<1> DEFINE new == [pSlot[s] EXCEPT !.step = "pinned", !.stamp = Catalogue!Mtime]
<1>1. ShelfTypes /\ ShelfBounds /\ ShelfQuiet /\ ShelfRead /\ ShelfAlone /\ ShelfKept
  BY DEF ShelfIInv
<1>2. /\ Stepped(s, {"renamed"}) /\ pSlot[s] \in Orders /\ pSlot' = [pSlot EXCEPT ![s] = new]
      /\ UNCHANGED <<pMemory, pCursor, pFile, pTmp, pClock, pCount, pQuiet, pAcked, crowded, pOverlap>>
  BY <1>1 DEF Catalogue!StatAgain, Catalogue!At, Catalogue!disk, Catalogue!history, Stepped, ShelfTypes
<1>3. Catalogue!Mtime \in Nat /\ Catalogue!Mtime <= pClock
  BY <1>1 DEF ShelfTypes, ShelfBounds, Shelves, Catalogue!Mtime
<1>4. /\ new \in Orders /\ new.step = "pinned" /\ new.stamp = Catalogue!Mtime
      /\ new.change = pSlot[s].change /\ new.next = pSlot[s].next /\ new.quiet = pSlot[s].quiet
  BY <1>2, <1>3 DEF Orders
<1> HIDE DEF new
<1>5. /\ new # Rest /\ pSlot' \in [Requesters -> Orders \cup {Rest}]
      /\ \A o \in Requesters : pSlot'[o] = IF o = s THEN new ELSE pSlot[o]
  BY <1>1, <1>2, <1>4, ShelfSlot
<1>6. ShelfTypes'
  BY <1>1, <1>2, <1>5 DEF ShelfTypes
<1>7. ShelfBounds'
  BY <1>1, <1>2, <1>3, <1>4, <1>5 DEF ShelfBounds, Stepped, Served
<1>8. ShelfQuiet'
  BY <1>1, <1>2, <1>4, <1>5 DEF ShelfQuiet, Stepped, Served
<1>9. ShelfRead'
  BY <1>1, <1>2, <1>4, <1>5 DEF ShelfRead, Stepped, Unread
<1>10. ShelfAlone'
  BY <1>1, <1>2, <1>4, <1>5 DEF ShelfAlone, Stepped, Catalogue!Catalogue
<1>11. ShelfKept'
  BY <1>1, <1>2, <1>4, <1>5
  DEF ShelfKept, Stepped, Unread, Served, Placed, Catalogue!Changing, Catalogue!Mtime, Catalogue!Catalogue
<1> QED
  BY <1>6, <1>7, <1>8, <1>9, <1>10, <1>11 DEF ShelfIInv

LEMMA ShelfPin ==
    ASSUME ShelfIInv, NEW s \in Requesters, Catalogue!Pin(s)
    PROVE  ShelfIInv'
<1> DEFINE entry == [change |-> pSlot[s].change, edit |-> pSlot[s].next.edit]
<1>1. ShelfTypes /\ ShelfBounds /\ ShelfQuiet /\ ShelfRead /\ ShelfAlone /\ ShelfKept
  BY DEF ShelfIInv
<1>2. /\ Stepped(s, {"pinned"}) /\ Stepped(s, Served) /\ pSlot[s] \in Orders
      /\ pCursor' = IF pSlot[s].stamp = 0 THEN pCursor ELSE pSlot[s].stamp
      /\ pSlot' = [pSlot EXCEPT ![s] = Rest]
      /\ pAcked' = pAcked \cup {entry}
      /\ UNCHANGED <<pMemory, pFile, pTmp, pClock, pCount, pQuiet, crowded, pOverlap>>
  BY <1>1 DEF Catalogue!Pin, Catalogue!At, Catalogue!disk, Stepped, ShelfTypes, Served
<1>3. /\ pSlot' \in [Requesters -> Orders \cup {Rest}]
      /\ \A o \in Requesters : pSlot'[o] = IF o = s THEN Rest ELSE pSlot[o]
  BY <1>1, <1>2, ShelfFree
<1>4. /\ entry \in [change : 1 .. MaxChanges, edit : 0 .. MaxEdits]
      /\ entry.change = pSlot[s].change /\ entry.edit = pSlot[s].next.edit
  <2>1. pSlot[s].change # 0 /\ pSlot[s].change \in 0 .. MaxChanges /\ pSlot[s].next.edit \in 0 .. MaxEdits
    BY <1>1, <1>2, CatalogueAssumption DEF ShelfBounds, Stepped, Orders, Lists
  <2>2. pSlot[s].change \in 1 .. MaxChanges
    BY <2>1, CatalogueAssumption
  <2> QED
    BY <2>1, <2>2
<1> HIDE DEF entry
<1>5. pCursor' \in Nat /\ pCursor' <= pClock
  BY <1>1, <1>2 DEF ShelfTypes, ShelfBounds, Stepped, Orders
<1>6. ShelfTypes'
  BY <1>1, <1>2, <1>3, <1>4, <1>5 DEF ShelfTypes
<1>7. ShelfBounds'
  BY <1>1, <1>2, <1>3, <1>4, <1>5 DEF ShelfBounds, Stepped
<1>8. ShelfQuiet'
  <2>1. pMemory.edit \in Nat /\ pQuiet \in Nat /\ ~(pMemory.edit < pQuiet)
    BY <1>1, <1>2, CatalogueAssumption DEF ShelfTypes, Lists, ShelfQuiet
  <2> QED
    BY <1>1, <1>2, <1>3, <2>1 DEF ShelfQuiet, Stepped
<1>20. ShelfRead'
  BY <1>1, <1>2, <1>3 DEF ShelfRead, ShelfQuiet, Stepped
<1>9. ShelfAlone'
  BY <1>1, <1>2, <1>3 DEF ShelfAlone, Stepped, Catalogue!Catalogue
<1>10. ShelfKept'
  <2> SUFFICES ASSUME ~crowded
               PROVE  ShelfKept'
    BY <1>2 DEF ShelfKept
  <2>1. Catalogue!Changing(s)
    BY <1>1, <1>2 DEF ShelfBounds, Stepped, Catalogue!Changing
  <2>2. \A o \in Requesters : ~Catalogue!Changing(o)'
    BY <1>1, <1>3, <2>1 DEF ShelfKept, Catalogue!Changing
  <2>3. pMemory = pSlot[s].next /\ pSlot[s].change \in pMemory.changes
    BY <1>1, <1>2, <2>1 DEF ShelfKept, Stepped, Served, Placed
  <2>4. pFile.kind = "whole" /\ Catalogue!Catalogue(pFile) = pMemory
    BY <1>1, <1>2, <2>1 DEF ShelfKept, Stepped, Served, Placed
  <2>6. \A o \in Requesters : Stepped(o, {"loaded"}) => pSlot[o].next = pMemory
    BY <1>1, <1>2, <2>1 DEF ShelfKept, Stepped, Placed
  <2>7. \A o \in Requesters : Stepped(o, {"loaded"})' => Stepped(o, {"loaded"}) /\ pSlot'[o] = pSlot[o]
    BY <1>3 DEF Stepped
  <2>5. pFile.edit = pMemory.edit /\ pFile.changes = pMemory.changes
    BY <2>4 DEF Catalogue!Catalogue
  <2> QED
    BY <1>1, <1>2, <1>4, <2>2, <2>3, <2>4, <2>5, <2>6, <2>7 DEF ShelfKept
<1> QED
  BY <1>6, <1>7, <1>8, <1>9, <1>10, <1>20 DEF ShelfIInv

LEMMA ShelfFails ==
    ASSUME ShelfIInv, NEW s \in Requesters, Catalogue!PersistFails(s)
    PROVE  ShelfIInv'
<1>1. ShelfTypes /\ ShelfBounds /\ ShelfQuiet /\ ShelfRead /\ ShelfAlone /\ ShelfKept
  BY DEF ShelfIInv
<1>2. /\ Stepped(s, {"opened", "written"}) /\ Stepped(s, Served)
      /\ pCount' = pCount \/ pCount' = [pCount EXCEPT !["failure"] = @ + 1]
      /\ pSlot' = [pSlot EXCEPT ![s] = Rest]
      /\ UNCHANGED <<pMemory, pCursor, pFile, pTmp, pClock, pQuiet, pAcked, crowded, pOverlap>>
  BY DEF Catalogue!PersistFails, Catalogue!Counted, Catalogue!At, Catalogue!disk, Catalogue!history,
         Stepped, Served
<1>3. /\ pSlot' \in [Requesters -> Orders \cup {Rest}]
      /\ \A o \in Requesters : pSlot'[o] = IF o = s THEN Rest ELSE pSlot[o]
  BY <1>1, <1>2, ShelfFree
<1>4. /\ pCount' \in [{"get", "change", "edit", "failure", "restart"} -> Nat]
      /\ pCount'.change = pCount.change /\ pCount'.edit = pCount.edit
  BY <1>1, <1>2 DEF ShelfTypes
<1>5. ShelfTypes'
  BY <1>1, <1>2, <1>3, <1>4 DEF ShelfTypes
<1>6. ShelfBounds'
  BY <1>1, <1>2, <1>3, <1>4 DEF ShelfBounds
<1>7. ShelfQuiet'
  BY <1>1, <1>2, <1>3 DEF ShelfQuiet, Stepped
<1>20. ShelfRead'
  BY <1>1, <1>2, <1>3 DEF ShelfRead, Stepped, Unread
<1>8. ShelfAlone'
  BY <1>1, <1>2, <1>3 DEF ShelfAlone, Stepped, Catalogue!Catalogue
<1>9. ShelfKept'
  BY <1>1, <1>2, <1>3
  DEF ShelfKept, Stepped, Catalogue!Changing, Catalogue!Mtime, Catalogue!Catalogue
<1> QED
  BY <1>5, <1>6, <1>7, <1>8, <1>9, <1>20 DEF ShelfIInv

LEMMA EditedFacts ==
    ASSUME ShelfTypes, NEW kind \in {"whole", "broken", "gone"}, NEW o \in Requesters, pSlot[o] # Rest
    PROVE  /\ Catalogue!Edited(o, kind) \in Orders /\ Catalogue!Edited(o, kind) # Rest
           /\ Catalogue!Edited(o, kind).step = pSlot[o].step
           /\ Catalogue!Edited(o, kind).change = pSlot[o].change
           /\ Catalogue!Edited(o, kind).next = pSlot[o].next
           /\ Catalogue!Edited(o, kind).stamp = pSlot[o].stamp
           /\ Catalogue!Edited(o, kind).quiet = IF kind = "whole" THEN pSlot[o].quiet ELSE 0
           /\ Catalogue!Edited(o, kind).at = "tmp" <=> pSlot[o].at = "tmp"
<1>1. pSlot[o] \in Orders
  BY DEF ShelfTypes
<1>2. PICK at \in {"tmp", "path", "lost"} :
        /\ at = IF Catalogue!At(o, "opened") /\ pSlot[o].at = "path" THEN "lost" ELSE pSlot[o].at
        /\ at = "tmp" <=> pSlot[o].at = "tmp"
  BY <1>1 DEF Orders
<1>3. PICK quiet \in 0 .. MaxEdits : quiet = IF kind = "whole" THEN pSlot[o].quiet ELSE 0
  BY <1>1, CatalogueAssumption DEF Orders
<1>4. PICK edits \in 0 .. MaxEdits : edits = IF kind = "whole" THEN pSlot[o].edits ELSE 0
  BY <1>1, CatalogueAssumption DEF Orders
<1>5. Catalogue!Edited(o, kind) = [pSlot[o] EXCEPT !.at = at, !.quiet = quiet, !.edits = edits]
  BY <1>1, <1>2, <1>3, <1>4 DEF Orders, Catalogue!Edited
<1>6. Catalogue!Edited(o, kind) \in Orders
  BY <1>1, <1>5 DEF Orders
<1>7. Catalogue!Edited(o, kind) # Rest
  BY <1>6, CatalogueAssumption
<1> QED
  BY <1>1, <1>2, <1>3, <1>5, <1>6, <1>7 DEF Orders

LEMMA ShelfEdit ==
    ASSUME ShelfIInv, NEW kind \in {"whole", "broken", "gone"}, Catalogue!Edit(kind)
    PROVE  ShelfIInv'
<1> DEFINE edit == pCount.edit + 1
           edited(o) == Catalogue!Edited(o, kind)
<1>1. ShelfTypes /\ ShelfBounds /\ ShelfQuiet /\ ShelfRead /\ ShelfAlone /\ ShelfKept
  BY DEF ShelfIInv
<1>2. /\ pCount.edit < MaxEdits /\ pCount' = [pCount EXCEPT !["edit"] = @ + 1]
      /\ pClock' = pClock + 1
      /\ pFile' = [mtime |-> pClock + 1, kind |-> kind, edit |-> edit, changes |-> {}]
      /\ pQuiet' = IF kind # "whole" THEN 0
                   ELSE IF \E s \in Requesters : Catalogue!Changing(s) \/ Stepped(s, Unread)
                   THEN pQuiet ELSE edit
      /\ crowded' = (crowded \/ \E s \in Requesters : Catalogue!Changing(s))
      /\ UNCHANGED <<pMemory, pCursor, pTmp, pAcked, pOverlap>>
  BY DEF Catalogue!Edit, Catalogue!Counted, Catalogue!Reloading, Stepped, Unread
<1>0. pSlot' = [o \in Requesters |-> IF pSlot[o] = Rest THEN Rest ELSE edited(o)]
  BY DEF Catalogue!Edit
<1>3. /\ pCount.edit \in Nat /\ edit \in 0 .. MaxEdits /\ edit = pCount.edit + 1
      /\ pCount' \in [{"get", "change", "edit", "failure", "restart"} -> Nat]
      /\ pCount'.change = pCount.change /\ pCount'.edit = edit
      /\ pClock \in Nat /\ pCursor \in Nat
  <2>1. pCount.edit \in Nat /\ pClock \in Nat /\ pCursor \in Nat
    BY <1>1 DEF ShelfTypes
  <2>2. edit \in 0 .. MaxEdits
    BY <1>2, <2>1, CatalogueAssumption
  <2>3. /\ pCount' \in [{"get", "change", "edit", "failure", "restart"} -> Nat]
        /\ pCount'.change = pCount.change /\ pCount'.edit = edit
    BY <1>1, <1>2, <2>1 DEF ShelfTypes
  <2> QED
    BY <2>1, <2>2, <2>3
<1>4. \A o \in Requesters : pSlot[o] # Rest =>
         /\ edited(o) \in Orders /\ edited(o).step = pSlot[o].step /\ edited(o).change = pSlot[o].change
         /\ edited(o).next = pSlot[o].next /\ edited(o).stamp = pSlot[o].stamp /\ edited(o) # Rest
         /\ edited(o).quiet = IF kind = "whole" THEN pSlot[o].quiet ELSE 0
         /\ edited(o).at = "tmp" <=> pSlot[o].at = "tmp"
  BY <1>1, EditedFacts
<1> HIDE DEF edited, edit
<1>5. /\ pSlot' \in [Requesters -> Orders \cup {Rest}]
      /\ \A o \in Requesters :
            /\ pSlot'[o] = Rest <=> pSlot[o] = Rest
            /\ pSlot[o] # Rest =>
                  /\ pSlot'[o].step = pSlot[o].step /\ pSlot'[o].change = pSlot[o].change
                  /\ pSlot'[o].next = pSlot[o].next /\ pSlot'[o].stamp = pSlot[o].stamp
                  /\ pSlot'[o].quiet = IF kind = "whole" THEN pSlot[o].quiet ELSE 0
                  /\ pSlot'[o].at = "tmp" <=> pSlot[o].at = "tmp"
  BY <1>0, <1>4
<1>6. /\ pFile' \in Shelves /\ pFile'.mtime = pClock + 1 /\ pFile'.kind = kind /\ pFile'.edit = edit
      /\ pFile'.changes = {}
  BY <1>2, <1>3 DEF Shelves
<1>7. pQuiet' \in Nat /\ pQuiet' <= edit /\ (kind = "whole" => pQuiet <= pQuiet')
  BY <1>1, <1>2, <1>3 DEF ShelfTypes, ShelfBounds
<1>8. \A o \in Requesters, steps \in SUBSET {"stat", "stated", "read", "loaded", "upserted", "opened", "written", "renamed", "pinned"} :
         Stepped(o, steps)' <=> Stepped(o, steps)
  BY <1>5 DEF Stepped
<1>9. ShelfTypes'
  BY <1>1, <1>2, <1>3, <1>5, <1>6, <1>7 DEF ShelfTypes
<1>10. ShelfBounds'
  <2>1. \A o \in Requesters : pSlot[o] # Rest =>
           /\ pSlot[o].stamp \in Nat /\ pSlot[o].quiet \in Nat
           /\ pSlot[o].next # None => pSlot[o].next.edit \in Nat
    BY <1>1, CatalogueAssumption DEF ShelfTypes, Orders, Lists
  <2>2. /\ pMemory.edit \in Nat /\ pQuiet \in Nat
        /\ pTmp # None => pTmp.mtime \in Nat /\ pTmp.edit \in Nat
        /\ \A a \in pAcked : a.edit \in Nat
    BY <1>1, CatalogueAssumption DEF ShelfTypes, Lists, Shelves
  <2>3. \A o \in Requesters : pSlot'[o] # Rest => pSlot'[o].quiet <= pQuiet'
    BY <1>1, <1>2, <1>5, <1>7, <2>1, <2>2 DEF ShelfBounds
  <2> QED
    BY <1>1, <1>2, <1>3, <1>5, <1>6, <1>7, <2>1, <2>2, <2>3 DEF ShelfBounds
<1>11. ShelfQuiet'
  <2>1. CASE kind # "whole"
    <3>1. pQuiet' = 0
      BY <1>2, <2>1
    <3>2. \A o \in Requesters : Stepped(o, Served)' => pSlot'[o].next.edit \in Nat
      BY <1>9, <1>10, CatalogueAssumption DEF ShelfTypes, ShelfBounds, Stepped, Orders, Lists
    <3>3. pMemory.edit \in Nat /\ (pTmp # None => pTmp.edit \in Nat)
      BY <1>1, CatalogueAssumption DEF ShelfTypes, Lists, Shelves
    <3> QED
      BY <1>2, <1>6, <2>1, <3>1, <3>2, <3>3 DEF ShelfQuiet, Stepped
  <2>2. CASE kind = "whole" /\ \E s \in Requesters : Catalogue!Changing(s) \/ Stepped(s, Unread)
    <3>1. pQuiet' = pQuiet
      BY <1>2, <2>2
    <3>2. pFile'.mtime > pCursor'
      BY <1>1, <1>2, <1>3, <1>6, <2>2 DEF ShelfBounds
    <3> QED
      BY <1>1, <1>2, <1>5, <1>6, <1>7, <1>8, <2>2, <3>1, <3>2 DEF ShelfQuiet, Stepped
  <2>3. CASE kind = "whole" /\ ~\E s \in Requesters : Catalogue!Changing(s) \/ Stepped(s, Unread)
    <3>1. \A o \in Requesters : ~Stepped(o, Served)'
      BY <1>1, <1>5, <2>3 DEF ShelfBounds, Stepped, Catalogue!Changing
    <3>2. pFile'.mtime > pCursor'
      BY <1>1, <1>2, <1>3, <1>6, <2>3 DEF ShelfBounds
    <3>3. pFile'.edit >= pQuiet'
      BY <1>3, <1>6, <1>7
    <3>4. \A o \in Requesters : ~Stepped(o, {"opened", "written"})'
      BY <3>1 DEF Stepped, Served
    <3> QED
      BY <1>6, <2>3, <3>1, <3>2, <3>3, <3>4 DEF ShelfQuiet
  <2> QED
    BY <2>1, <2>2, <2>3
<1>14. ShelfRead'
  <2>1. CASE kind # "whole"
    <3>1. pQuiet' = 0 /\ pMemory'.edit \in Nat
      BY <1>1, <1>2, <2>1, CatalogueAssumption DEF ShelfTypes, Lists
    <3>2. \A o \in Requesters : Stepped(o, {"loaded"})' /\ pSlot'[o].next # None => pSlot'[o].next.edit \in Nat
      BY <1>9, CatalogueAssumption DEF ShelfTypes, Stepped, Orders, Lists
    <3> QED
      BY <3>1, <3>2 DEF ShelfRead
  <2>2. CASE kind = "whole" /\ \E s \in Requesters : Catalogue!Changing(s) \/ Stepped(s, Unread)
    <3>1. pQuiet' = pQuiet
      BY <1>2, <2>2
    <3> QED
      BY <1>1, <1>2, <1>5, <3>1 DEF ShelfRead, Stepped
  <2>3. CASE kind = "whole" /\ ~\E s \in Requesters : Catalogue!Changing(s) \/ Stepped(s, Unread)
    <3>1. \A o \in Requesters : ~Stepped(o, Unread)'
      BY <1>5, <2>3 DEF Stepped
    <3> QED
      BY <3>1 DEF ShelfRead, Stepped, Unread
  <2> QED
    BY <2>1, <2>2, <2>3
<1>12. ShelfAlone'
  BY <1>1, <1>2, <1>5, <1>6 DEF ShelfAlone, Stepped, Catalogue!Catalogue
<1>13. ShelfKept'
  <2> SUFFICES ASSUME ~crowded'
               PROVE  ShelfKept'
    BY DEF ShelfKept
  <2>1. ~crowded /\ \A o \in Requesters : ~Catalogue!Changing(o)
    BY <1>1, <1>2 DEF ShelfTypes
  <2>2. \A o \in Requesters : ~Catalogue!Changing(o)'
    BY <1>5, <2>1 DEF Catalogue!Changing
  <2>4. \A o \in Requesters : Stepped(o, {"loaded"})' => Stepped(o, {"loaded"}) /\ pSlot'[o].next = pSlot[o].next
    BY <1>5 DEF Stepped
  <2>3. \A a \in pAcked : a.edit # edit
    BY <1>1, <1>3, CatalogueAssumption DEF ShelfBounds, ShelfTypes
  <2> QED
    BY <1>1, <1>2, <1>6, <2>1, <2>2, <2>3, <2>4 DEF ShelfKept
<1> QED
  BY <1>9, <1>10, <1>11, <1>12, <1>13, <1>14 DEF ShelfIInv

LEMMA ShelfRestart ==
    ASSUME ShelfIInv, Catalogue!Restart
    PROVE  ShelfIInv'
<1>1. ShelfTypes /\ ShelfBounds /\ ShelfQuiet /\ ShelfRead /\ ShelfAlone /\ ShelfKept
  BY DEF ShelfIInv
<1>2. /\ pCount' = [pCount EXCEPT !["restart"] = @ + 1]
      /\ pMemory' = Catalogue!Parsed
      /\ pCursor' = IF pFile.kind = "gone" THEN 0 ELSE pFile.mtime
      /\ pSlot' = [s \in Requesters |-> Rest]
      /\ UNCHANGED <<pFile, pTmp, pClock, pQuiet, pAcked, crowded, pOverlap>>
  BY DEF Catalogue!Restart, Catalogue!Counted, Catalogue!disk, Catalogue!history
<1>12. Catalogue!Parsed # None
  BY ParsedFacts DEF Catalogue!Restart
<1>3. /\ pCount' \in [{"get", "change", "edit", "failure", "restart"} -> Nat]
      /\ pCount'.change = pCount.change /\ pCount'.edit = pCount.edit
  BY <1>1, <1>2 DEF ShelfTypes
<1>4. pCursor' \in Nat /\ pCursor' <= pClock
  BY <1>1, <1>2 DEF ShelfTypes, ShelfBounds, Shelves
<1>5. \A o \in Requesters : pSlot'[o] = Rest
  BY <1>2
<1>6. pSlot' \in [Requesters -> Orders \cup {Rest}]
  BY <1>2
<1>7. ShelfTypes'
  BY <1>1, <1>2, <1>3, <1>4, <1>6, <1>12, ParsedFacts DEF ShelfTypes
<1>8. ShelfBounds'
  BY <1>1, <1>2, <1>3, <1>4, <1>5, <1>12, ParsedFacts DEF ShelfBounds
<1>9. ShelfQuiet'
  <2>1. pMemory'.edit \in Nat /\ pQuiet \in Nat /\ pMemory'.edit >= pQuiet
    BY <1>1, <1>2, <1>12, ParsedFacts, CatalogueAssumption DEF ShelfTypes, Lists
  <2> QED
    BY <1>1, <1>2, <1>5, <2>1 DEF ShelfQuiet, Stepped
<1>13. ShelfRead'
  BY <1>5 DEF ShelfRead, Stepped
<1>10. ShelfAlone'
  BY <1>1, <1>2, <1>5 DEF ShelfAlone, Stepped
<1>11. ShelfKept'
  BY <1>1, <1>2, <1>5, <1>12, ParsedFacts DEF ShelfKept, Stepped, Catalogue!Changing
<1> QED
  BY <1>7, <1>8, <1>9, <1>10, <1>11, <1>13 DEF ShelfIInv

LEMMA ShelfStarts == Catalogue!Init => ShelfIInv
<1> SUFFICES ASSUME Catalogue!Init
             PROVE  ShelfIInv
  OBVIOUS
<1>1. /\ pMemory = [edit |-> 0, changes |-> {}] /\ pCursor = 0
      /\ pFile = [mtime |-> 0, kind |-> "whole", edit |-> 0, changes |-> {}]
      /\ pTmp = None /\ pClock = 0
      /\ pSlot = [s \in Requesters |-> Rest]
      /\ pCount = [what \in {"get", "change", "edit", "failure", "restart"} |-> 0]
      /\ pQuiet = 0 /\ pAcked = {} /\ crowded = FALSE /\ pOverlap = FALSE
  BY DEF Catalogue!Init
<1>2. pCount.change = 0 /\ pCount.edit = 0
  BY <1>1
<1>3. pMemory \in Lists /\ pFile \in Shelves /\ pMemory.edit = 0 /\ pFile.kind = "whole" /\ pFile.edit = 0
  BY <1>1, CatalogueAssumption DEF Lists, Shelves
<1>4. ShelfTypes
  <2>1. /\ pSlot \in [Requesters -> Orders \cup {Rest}]
        /\ pCount \in [{"get", "change", "edit", "failure", "restart"} -> Nat]
    BY <1>1
  <2>2. 0 <= MaxChanges /\ 0 <= MaxEdits
    BY CatalogueAssumption
  <2> QED
    BY <1>1, <1>2, <1>3, <2>1, <2>2 DEF ShelfTypes
<1>5. ShelfBounds
  BY <1>1, <1>2 DEF ShelfBounds
<1>6. ShelfQuiet
  BY <1>1, <1>3 DEF ShelfQuiet, Stepped
<1>9. ShelfRead
  BY <1>1 DEF ShelfRead, Stepped
<1>7. ShelfAlone
  BY <1>1, <1>3 DEF ShelfAlone, Stepped
<1>8. ShelfKept
  BY <1>1, <1>3 DEF ShelfKept, Catalogue!Changing
<1> QED
  BY <1>4, <1>5, <1>6, <1>7, <1>8, <1>9 DEF ShelfIInv

LEMMA ShelfRests == ShelfIInv /\ UNCHANGED products => ShelfIInv'
<1> SUFFICES ASSUME ShelfIInv, UNCHANGED products
             PROVE  ShelfIInv'
  OBVIOUS
<1>1. /\ pMemory' = pMemory /\ pCursor' = pCursor /\ pFile' = pFile /\ pTmp' = pTmp /\ pClock' = pClock
      /\ pSlot' = pSlot /\ pCount' = pCount /\ pQuiet' = pQuiet /\ pAcked' = pAcked
      /\ crowded' = crowded /\ pOverlap' = pOverlap
  BY DEF products
<1>2. ShelfTypes'
  BY <1>1 DEF ShelfIInv, ShelfTypes
<1>3. ShelfBounds'
  BY <1>1 DEF ShelfIInv, ShelfBounds, Served
<1>4. ShelfQuiet'
  BY <1>1 DEF ShelfIInv, ShelfQuiet, Served, Stepped
<1>7. ShelfRead'
  BY <1>1 DEF ShelfIInv, ShelfRead, Unread, Stepped
<1>5. ShelfAlone'
  BY <1>1 DEF ShelfIInv, ShelfAlone, Stepped, Catalogue!Catalogue
<1>6. ShelfKept'
  BY <1>1 DEF ShelfIInv, ShelfKept, Unread, Served, Placed, Stepped,
             Catalogue!Mtime, Catalogue!Changing, Catalogue!Catalogue
<1> QED
  BY <1>2, <1>3, <1>4, <1>5, <1>6, <1>7 DEF ShelfIInv

LEMMA ShelfSteps == ShelfIInv /\ Catalogue!Next => ShelfIInv'
<1> SUFFICES ASSUME ShelfIInv, Catalogue!Next
             PROVE  ShelfIInv'
  OBVIOUS
<1>0. ShelfTypes
  BY DEF ShelfIInv
<1>1. ASSUME NEW s \in Requesters, Catalogue!Get(s)
      PROVE  ShelfIInv'
  <2>1. /\ Catalogue!Begin(s, 0) /\ pCount' = [pCount EXCEPT !["get"] = @ + 1]
    BY <1>1 DEF Catalogue!Get, Catalogue!Counted
  <2>2. /\ pCount' \in [{"get", "change", "edit", "failure", "restart"} -> Nat]
        /\ pCount'.change = pCount.change /\ pCount'.edit = pCount.edit
    BY <1>0, <2>1 DEF ShelfTypes
  <2>3. 0 \in 0 .. MaxChanges
    BY CatalogueAssumption
  <2> QED
    BY <1>0, <2>1, <2>2, <2>3, ShelfBegin DEF ShelfTypes
<1>2. ASSUME NEW s \in Requesters, Catalogue!Change(s)
      PROVE  ShelfIInv'
  <2>1. /\ pCount.change < MaxChanges
        /\ Catalogue!Begin(s, pCount.change + 1) /\ pCount' = [pCount EXCEPT !["change"] = @ + 1]
    BY <1>2 DEF Catalogue!Change, Catalogue!Counted
  <2>2. pCount.change \in Nat
    BY <1>0 DEF ShelfTypes
  <2>3. /\ pCount' \in [{"get", "change", "edit", "failure", "restart"} -> Nat]
        /\ pCount'.change = pCount.change + 1 /\ pCount'.edit = pCount.edit
    BY <1>0, <2>1, <2>2 DEF ShelfTypes
  <2>4. pCount.change + 1 \in 0 .. MaxChanges
    BY <2>1, <2>2, CatalogueAssumption
  <2> QED
    BY <2>1, <2>3, <2>4, ShelfBegin, CatalogueAssumption
<1>3. ASSUME NEW s \in Requesters,
             \/ Catalogue!Stat(s) \/ Catalogue!Decide(s) \/ Catalogue!Read(s) \/ Catalogue!Reload(s)
             \/ Catalogue!Open(s) \/ Catalogue!Rename(s) \/ Catalogue!StatAgain(s)
             \/ Catalogue!Pin(s) \/ Catalogue!PersistFails(s)
             \/ \E mixed \in BOOLEAN : Catalogue!Write(s, mixed)
      PROVE  ShelfIInv'
  BY <1>3, ShelfStat, ShelfDecide, ShelfReads, ShelfReload, ShelfOpen, ShelfRename, ShelfStatAgain,
     ShelfPin, ShelfFails, ShelfWrite
<1> QED
  BY <1>1, <1>2, <1>3, ShelfEdit, ShelfRestart DEF Catalogue!Next

LEMMA ShelfHolds == ShelfIInv => Catalogue!TypeOK /\ Catalogue!AckedStays /\ Catalogue!TornOnlyByTwo
<1> SUFFICES ASSUME ShelfIInv
             PROVE  Catalogue!TypeOK /\ Catalogue!AckedStays /\ Catalogue!TornOnlyByTwo
  OBVIOUS
<1>1. ShelfTypes /\ ShelfBounds /\ ShelfAlone /\ ShelfKept
  BY DEF ShelfIInv
<1>2. Catalogue!TypeOK
  <2>1. pMemory \in Catalogue!Contents
    BY <1>1 DEF ShelfTypes, Lists, Catalogue!Contents
  <2>2. \A f \in Shelves : f.mtime <= pClock => f \in Catalogue!Files
    BY <1>1 DEF Shelves, Catalogue!Files, Catalogue!Stamps, ShelfTypes
  <2>3. \A o \in Orders : o.stamp <= pClock => o \in Catalogue!Requests
    BY <1>1 DEF Orders, Lists, Catalogue!Requests, Catalogue!Stamps, Catalogue!Contents, ShelfTypes
  <2>4. pCursor \in Catalogue!Stamps /\ pQuiet \in 0 .. MaxEdits
    BY <1>1, CatalogueAssumption DEF ShelfTypes, ShelfBounds, Catalogue!Stamps
  <2>5. pFile \in Catalogue!Files /\ pTmp \in Catalogue!Files \cup {None}
    BY <1>1, <2>2 DEF ShelfTypes, ShelfBounds
  <2>6. \A s \in Requesters : pSlot[s] \in Catalogue!Requests \cup {Rest}
    BY <1>1, <2>3 DEF ShelfTypes, ShelfBounds
  <2>7. pSlot \in [Requesters -> Catalogue!Requests \cup {Rest}]
    BY <1>1, <2>6 DEF ShelfTypes
  <2>8. \A s \in Requesters : Catalogue!At(s, "opened") /\ pSlot[s].at = "tmp" => pTmp # None
    BY <1>1 DEF ShelfBounds, Catalogue!At
  <2> QED
    BY <1>1, <2>1, <2>4, <2>5, <2>7, <2>8 DEF ShelfTypes, Catalogue!TypeOK
<1>3. Catalogue!AckedStays
  BY <1>1 DEF ShelfKept, Catalogue!AckedStays
<1>4. Catalogue!TornOnlyByTwo
  BY <1>1 DEF ShelfAlone, Catalogue!TornOnlyByTwo
<1> QED
  BY <1>2, <1>3, <1>4

----------------------------------------------------------------------------
(* A change that was answered is in what the process serves and the next boot   *)
(* reads, for any number of requests, edits, failures and restarts, but for the *)
(* causes each store names; half a file is left only by two writes at once      *)
(* (products/loader.ts, scim/store.ts).                                         *)
THEOREM AnsweredStays == Joint => []AckedStays
<1> DEFINE Inv == (which = "products" => ShelfIInv) /\ (which = "scim" => ScimIInv)
<1>1. JointInit => Inv
  BY ShelfStarts, ScimStarts DEF JointInit
<1>2. Inv /\ [JointNext]_JointVars => Inv'
  <2>1. ASSUME Inv, JointNext
        PROVE  Inv'
    BY <2>1, ShelfSteps, ShelfRests, ScimSteps, ScimRests DEF JointNext
  <2>2. ASSUME Inv, UNCHANGED JointVars
        PROVE  Inv'
    BY <2>2, ShelfRests, ScimRests DEF JointVars
  <2> QED
    BY <2>1, <2>2
<1>3. Inv => AckedStays
  BY ShelfHolds, ScimHolds DEF AckedStays
<1> QED
  BY <1>1, <1>2, <1>3, PTL DEF Joint

LEMMA AnswersAreNew ==
    ASSUME ShelfIInv, Catalogue!Next, NEW s \in Requesters, pSlot[s] # Rest, pSlot'[s] = Rest
    PROVE  pMemory'.edit >= pSlot[s].quiet
<1>1. ShelfTypes /\ ShelfBounds /\ ShelfQuiet /\ ShelfRead
  BY DEF ShelfIInv
<1>2. /\ pSlot[s] \in Orders /\ pSlot[s].quiet \in Nat /\ pSlot[s].quiet <= pQuiet /\ pQuiet \in Nat
      /\ pMemory.edit \in Nat
  BY <1>1, CatalogueAssumption DEF ShelfTypes, ShelfBounds, Orders, Lists
<1>3. (\E o \in Requesters : Stepped(o, Served)) => pMemory.edit >= pQuiet
  BY <1>1, <1>2 DEF ShelfQuiet
<1>4. ASSUME NEW o \in Requesters, pSlot[o] # Rest, NEW new \in Orders, pSlot' = [pSlot EXCEPT ![o] = new]
      PROVE  FALSE
  BY <1>1, <1>4, CatalogueAssumption DEF ShelfTypes
<1>14. ASSUME NEW o \in Requesters, Catalogue!Stat(o)
       PROVE  FALSE
  <2> DEFINE new == [pSlot[o] EXCEPT !.step = "stated", !.stamp = Catalogue!Mtime]
  <2>1. pSlot[o] \in Orders /\ pSlot[o] # Rest /\ pSlot' = [pSlot EXCEPT ![o] = new]
    BY <1>1, <1>14 DEF Catalogue!Stat, Catalogue!At, ShelfTypes
  <2>2. new \in Orders
    BY <1>1, <2>1 DEF Orders, ShelfTypes, Shelves, Catalogue!Mtime
  <2> QED
    BY <1>4, <2>1, <2>2
<1>15. ASSUME NEW o \in Requesters, Catalogue!Read(o)
       PROVE  FALSE
  <2> DEFINE new == [pSlot[o] EXCEPT !.step = "loaded", !.next = Catalogue!Parsed]
  <2>1. pSlot[o] \in Orders /\ pSlot[o] # Rest /\ pSlot' = [pSlot EXCEPT ![o] = new]
    BY <1>1, <1>15 DEF Catalogue!Read, Catalogue!At, ShelfTypes
  <2>2. Catalogue!Parsed \in Lists \cup {None}
    BY ParsedFacts
  <2>3. new \in Orders
    BY <2>1, <2>2 DEF Orders
  <2> QED
    BY <1>4, <2>1, <2>3
<1>16. ASSUME NEW o \in Requesters, Catalogue!Decide(o)
       PROVE  pMemory'.edit >= pQuiet
  <2>1. pSlot[o] \in Orders /\ Stepped(o, Unread)
    BY <1>1, <1>16 DEF Catalogue!Decide, Catalogue!At, ShelfTypes, Stepped, Unread
  <2>2. CASE pSlot[o].stamp > pCursor
    <3> DEFINE new == [pSlot[o] EXCEPT !.step = "read"]
    <3>1. pSlot[o] # Rest /\ pSlot' = [pSlot EXCEPT ![o] = new]
      BY <1>1, <1>16, <2>2 DEF Catalogue!Decide, Catalogue!At, ShelfTypes
    <3>2. new \in Orders
      BY <2>1 DEF Orders
    <3> QED
      BY <1>4, <3>1, <3>2
  <2>3. CASE ~(pSlot[o].stamp > pCursor)
    <3>1. Catalogue!Serve(o, pMemory) /\ pMemory.edit >= pQuiet
      BY <1>1, <1>2, <1>16, <2>1, <2>3 DEF Catalogue!Decide, ShelfRead
    <3>2. pMemory \in Lists
      BY <1>1 DEF ShelfTypes
    <3>3. pMemory'.edit = pMemory.edit
      BY <3>1, <3>2 DEF Catalogue!Serve, Lists
    <3> QED
      BY <3>1, <3>3
  <2> QED
    BY <2>2, <2>3
<1>5. ASSUME NEW o \in Requesters, Catalogue!Reload(o)
      PROVE  pMemory'.edit >= pQuiet
  <2> DEFINE catalogue == IF pSlot[o].next = None THEN pMemory ELSE pSlot[o].next
  <2>1. Catalogue!Serve(o, catalogue) /\ Stepped(o, {"loaded"}) /\ pSlot[o] \in Orders
    BY <1>1, <1>5 DEF Catalogue!Reload, Catalogue!At, Stepped, ShelfTypes
  <2>2. catalogue \in Lists /\ catalogue.edit >= pQuiet
    BY <1>1, <2>1 DEF ShelfTypes, ShelfRead, Orders
  <2> HIDE DEF catalogue
  <2>3. pMemory'.edit = catalogue.edit
    BY <2>1, <2>2 DEF Catalogue!Serve, Lists
  <2> QED
    BY <2>2, <2>3
<1>6. ASSUME NEW o \in Requesters, Catalogue!Pin(o) \/ Catalogue!PersistFails(o)
      PROVE  pMemory'.edit >= pQuiet
  <2>1. pMemory' = pMemory /\ Stepped(o, Served)
    BY <1>6 DEF Catalogue!Pin, Catalogue!PersistFails, Catalogue!At, Stepped, Served
  <2> QED
    BY <1>3, <2>1
<1>7. ASSUME Catalogue!Restart
      PROVE  pMemory'.edit >= pQuiet
  BY <1>7, ParsedFacts DEF Catalogue!Restart
<1>8. ASSUME NEW o \in Requesters, Catalogue!Get(o) \/ Catalogue!Change(o)
      PROVE  FALSE
  <2>1. PICK change \in Nat : Catalogue!Begin(o, change)
    BY <1>1, <1>8 DEF Catalogue!Get, Catalogue!Change, ShelfTypes
  <2>2. s # o
    BY <2>1 DEF Catalogue!Begin
  <2>3. pSlot'[s] = pSlot[s]
    BY <1>1, <2>1, <2>2 DEF Catalogue!Begin, ShelfTypes
  <2> QED
    BY <2>3
<1>9. ASSUME NEW o \in Requesters, Catalogue!Open(o) \/ \E mixed \in BOOLEAN : Catalogue!Write(o, mixed)
      PROVE  pMemory'.edit >= pQuiet
  <2>1. pMemory' = pMemory /\ Stepped(o, Served)
    BY <1>9 DEF Catalogue!Open, Catalogue!Write, Catalogue!At, Stepped, Served
  <2> QED
    BY <1>3, <2>1
<1>10. ASSUME NEW o \in Requesters, Catalogue!Rename(o) \/ Catalogue!StatAgain(o)
       PROVE  pMemory'.edit >= pQuiet
  <2>1. pMemory' = pMemory /\ Stepped(o, Served)
    BY <1>10 DEF Catalogue!Rename, Catalogue!StatAgain, Catalogue!At, Stepped, Served
  <2> QED
    BY <1>3, <2>1
<1>11. ASSUME NEW kind \in {"whole", "broken", "gone"}, Catalogue!Edit(kind)
       PROVE  FALSE
  <2>1. pSlot'[s] = Catalogue!Edited(s, kind)
    BY <1>11 DEF Catalogue!Edit
  <2>2. Catalogue!Edited(s, kind) # Rest
    BY <1>1, EditedFacts
  <2> QED
    BY <2>1, <2>2
<1>12. pMemory'.edit \in Nat
  BY ShelfSteps, CatalogueAssumption DEF ShelfIInv, ShelfTypes, Lists
<1>13. pMemory'.edit >= pQuiet
  BY <1>5, <1>6, <1>7, <1>8, <1>9, <1>10, <1>11, <1>14, <1>15, <1>16 DEF Catalogue!Next
<1> QED
  BY <1>2, <1>12, <1>13

(* Every request that begins after a quiet edit of the file answers from it or from *)
(* a later one, whatever other requests, failures and restarts come between         *)
(* (products/loader.ts).                                                            *)
THEOREM QuietEdits == Joint => QuietEditsVisible
<1> DEFINE Inv == which = "products" => ShelfIInv
           Step == \A s \in Requesters :
                      Catalogue!Answered(s) => pMemory'.edit >= pSlot[s].quiet
<1>1. JointInit => Inv
  BY ShelfStarts DEF JointInit
<1>2. Inv /\ [JointNext]_JointVars => Inv'
  <2>1. ASSUME Inv, JointNext
        PROVE  Inv'
    BY <2>1, ShelfSteps, ShelfRests DEF JointNext
  <2>2. ASSUME Inv, UNCHANGED JointVars
        PROVE  Inv'
    BY <2>2, ShelfRests DEF JointVars
  <2> QED
    BY <2>1, <2>2
<1>3. Inv /\ [JointNext]_JointVars => [Step]_products
  <2>1. ASSUME Inv, JointNext
        PROVE  Step \/ UNCHANGED products
    BY <2>1, AnswersAreNew DEF JointNext, Catalogue!Answered
  <2>2. ASSUME UNCHANGED JointVars
        PROVE  UNCHANGED products
    BY <2>2 DEF JointVars
  <2> QED
    BY <2>1, <2>2
<1>4. [Step]_products => [Step]_(Catalogue!vars)
  BY DEF products, Catalogue!vars, Catalogue!disk, Catalogue!history
<1> QED
  BY <1>1, <1>2, <1>3, <1>4, PTL DEF Joint, QuietEditsVisible, Catalogue!QuietEditsVisible

----------------------------------------------------------------------------
\* The connector packages.  A scan that waits for the module of n, one that read the package
\* that is there now, and one that has yet to register it.
Todo(scan) == {scan.todo[i] : i \in DOMAIN scan.todo}
Waits(scan, n) == scan # None /\ scan.at = "import" /\ scan.todo # <<>> /\ Head(scan.todo) = n
Fresh(scan, there) == there # None /\ scan.read # None /\ scan.read.n = there.n
Pending(scan, there, n) ==
    /\ scan # None /\ scan.at \in {"next", "import"}
    /\ n \in Todo(scan) /\ (Waits(scan, n) => Fresh(scan, there))
Listed(connector, there) == connector # None /\ there # None /\ connector.placed = there.n

\* The scan of an install whose package is there and can be loaded.
Installing(scan, there) ==
    /\ scan # None /\ scan.by # 0 /\ scan.at # "failed"
    /\ there # None /\ there.n = scan.by /\ Packages!Loads(there.b) /\ there.b.factory

PackageTypes ==
    /\ lDisk \in [Names -> Placements \cup {None}]
    /\ lConnectors \in [Names \cup Builtins -> Listings \cup {None}]
    /\ modules \in [Names -> Nat \cup {None}]
    /\ scans \in [Scans -> Loadings \cup {None}]
    /\ imports \in [Names -> Seq(Scans)]
    /\ copying \in Placements \cup {None} /\ placed \in Nat
    /\ \A s \in Scans : scans[s] # None /\ scans[s].at = "import" => scans[s].todo # <<>> /\ scans[s].read # None

\* Every placement has a number of its own, and what is being copied has not been seen.
PackageNumbers ==
    /\ \A n \in Names : lDisk[n] # None => lDisk[n].n \in 1 .. placed
    /\ \A n \in Names \cup Builtins : lConnectors[n] # None => lConnectors[n].placed <= placed
    /\ \A s \in Scans : scans[s] # None =>
          /\ scans[s].by <= placed
          /\ scans[s].read # None => scans[s].read.n <= placed
    /\ \A s \in Scans, n \in Names :
          Waits(scans[s], n) /\ Fresh(scans[s], lDisk[n]) => scans[s].read = lDisk[n]
    /\ copying # None => copying.n \in 1 .. placed
    /\ copying # None => \A n \in Names : lDisk[n] # None => lDisk[n].n # copying.n
    /\ copying # None =>
          \A n \in Names \cup Builtins : lConnectors[n] # None => lConnectors[n].placed # copying.n
    /\ copying # None =>
          \A s \in Scans : scans[s] # None =>
              /\ scans[s].by # copying.n
              /\ scans[s].read # None => scans[s].read.n # copying.n

\* Who waits for a module waits once, behind those who read an older package, and nobody
\* who did is left when the present one is registered.
Lined(line, n) ==
    /\ \A i \in DOMAIN line : Waits(scans[line[i]], n)
    /\ \A i, j \in DOMAIN line : i < j =>
          /\ line[i] # line[j]
          /\ Fresh(scans[line[i]], lDisk[n]) => Fresh(scans[line[j]], lDisk[n])
    /\ Listed(lConnectors[n], lDisk[n]) => \A i \in DOMAIN line : Fresh(scans[line[i]], lDisk[n])

PackageQueues == \A n \in Names : Lined(imports[n], n)

\* What is installed is registered, or will be by the scan of the install; a connector of
\* the image by any scan.
Promised(scan, n) ==
    \/ Listed(lConnectors[n], lDisk[n])
    \/ n \notin Builtins /\ Pending(scan, lDisk[n], n)
    \/ n \in Builtins /\ RequireSignature
    \/ n \in Builtins /\ \E t \in Scans : Pending(scans[t], lDisk[n], n)

PackagesListed == \A s \in Scans : \A n \in Names \ Disabled : Installing(scans[s], lDisk[n]) => Promised(scans[s], n)

PackagesIInv == PackageTypes /\ PackageNumbers /\ PackageQueues /\ PackagesListed

\* What a scan is, as long as it is none that ended.
LEMMA ScanFacts ==
    ASSUME PackagesIInv, NEW s \in Scans, scans[s] # None
    PROVE  /\ scans[s] \in Loadings
           /\ scans[s].todo \in Seq(Names) /\ scans[s].by \in Nat
           /\ scans[s].at \in {"next", "import", "failed", "done"}
           /\ scans[s].read # None => scans[s].read \in Placements /\ scans[s].read.n \in Nat
<1>1. scans[s] \in Loadings
  BY DEF PackagesIInv, PackageTypes
<1>2. \A o \in Loadings : /\ o.todo \in Seq(Names) /\ o.by \in Nat
                          /\ o.at \in {"next", "import", "failed", "done"}
                          /\ o.read # None => o.read \in Placements
  BY DEF Loadings
<1>3. \A d \in Placements : d.n \in Nat
  BY DEF Placements
<1> QED
  BY <1>1, <1>2, <1>3

\* A scan that waits for no module goes on, or is gone.
LEMMA ScanMoves ==
    ASSUME PackagesIInv, NEW s \in Scans, NEW new \in Loadings \cup {None},
           scans[s] # None, scans[s].at # "import", scans' = [scans EXCEPT ![s] = new],
           UNCHANGED <<lDisk, lConnectors, modules, imports, copying, placed>>,
           new # None => /\ new.at # "import" /\ new.by = scans[s].by /\ new.read \in {scans[s].read, None}
                         /\ new.at # "failed" => scans[s].at # "failed",
           \A n \in Names : Pending(scans[s], lDisk[n], n) /\ lDisk[n] # None /\ Packages!Loads(lDisk[n].b) =>
               /\ new # None
               /\ \/ new.at = "next" /\ n \in Todo(new)
                  \/ new.at = "failed" /\ RequireSignature
    PROVE  PackagesIInv'
<1>1. PackageTypes /\ PackageNumbers /\ PackageQueues /\ PackagesListed
  BY DEF PackagesIInv
<1>2. scans' \in [Scans -> Loadings \cup {None}] /\ \A t \in Scans : scans'[t] = IF t = s THEN new ELSE scans[t]
  BY <1>1 DEF PackageTypes
<1>3. PackageTypes'
  BY <1>1, <1>2 DEF PackageTypes
<1>4. \A n \in Names : ~Waits(scans[s], n) /\ ~Waits(new, n)
  BY DEF Waits
<1>5. PackageNumbers'
  <2>1. \A t \in Scans : scans'[t] # None =>
           /\ scans[t] # None /\ scans'[t].by = scans[t].by
           /\ scans'[t].read # None => scans[t].read # None /\ scans'[t].read = scans[t].read
    BY <1>2
  <2>2. \A t \in Scans, n \in Names : Waits(scans'[t], n) /\ Fresh(scans'[t], lDisk[n]) => scans'[t].read = lDisk[n]
    BY <1>1, <1>2, <1>4 DEF PackageNumbers
  <2> QED
    BY <1>1, <2>1, <2>2 DEF PackageNumbers
<1>6. PackageQueues'
  <2>1. \A n \in Names : \A i \in DOMAIN imports[n] : imports[n][i] \in Scans
    BY <1>1 DEF PackageTypes
  <2>2. \A n \in Names : \A i \in DOMAIN imports[n] : scans'[imports[n][i]] = scans[imports[n][i]]
    BY <1>1, <1>2, <1>4, <2>1 DEF PackageQueues, Lined
  <2> QED
    BY <1>1, <2>2 DEF PackageQueues, Lined
<1>7. PackagesListed'
  <2> SUFFICES ASSUME NEW t \in Scans, NEW n \in Names \ Disabled, Installing(scans'[t], lDisk[n])
               PROVE  Promised(scans[t], n)'
    BY DEF PackagesListed
  <2>1. Installing(scans[t], lDisk[n]) /\ lDisk[n] # None /\ Packages!Loads(lDisk[n].b)
    BY <1>2 DEF Installing
  <2>2. Promised(scans[t], n)
    BY <1>1, <2>1 DEF PackagesListed
  <2>3. Pending(scans[s], lDisk[n], n) => Pending(new, lDisk[n], n) \/ (new # None /\ new.at = "failed" /\ RequireSignature)
    BY <1>4, <2>1 DEF Pending
  <2>4. t = s => new.at # "failed"
    BY <1>2 DEF Installing
  <2> QED
    BY <1>2, <2>2, <2>3, <2>4 DEF Promised
<1> QED
  BY <1>3, <1>5, <1>6, <1>7 DEF PackagesIInv

LEMMA SameNames == Packages!Names = Names
  BY DEF Packages!Names, Names

\* A scan that goes on with the next package.
LEMMA SkipFacts ==
    ASSUME PackagesIInv, NEW s \in Scans, scans[s] # None, scans[s].todo # <<>>, Packages!Skip(s)
    PROVE  \E new \in Loadings :
              /\ scans' = [scans EXCEPT ![s] = new]
              /\ new.at = "next" /\ new.read = None /\ new.by = scans[s].by
              /\ \A n \in Todo(scans[s]) : n # Head(scans[s].todo) => n \in Todo(new)
<1> DEFINE new == [scans[s] EXCEPT !.todo = Tail(@), !.at = "next", !.read = None]
<1>1. scans \in [Scans -> Loadings \cup {None}] /\ scans[s] \in Loadings
  BY ScanFacts DEF PackagesIInv, PackageTypes
<1>2. scans' = [scans EXCEPT ![s] = new]
  BY <1>1 DEF Packages!Skip
<1>3. PICK q \in Seq(Names) : q = scans[s].todo
  BY ScanFacts
<1>4. Tail(q) \in Seq(Names) /\ \A i \in DOMAIN q : q[i] # Head(q) => \E j \in DOMAIN Tail(q) : Tail(q)[j] = q[i]
  BY <1>3, TailFacts
<1>5. scans[s] \in [todo : Seq(Names), at : {"next", "import", "failed", "done"},
                   read : Placements \cup {None}, by : Nat]
  BY <1>1 DEF Loadings
<1>6. /\ new \in Loadings /\ new.todo = Tail(q) /\ new.at = "next" /\ new.read = None /\ new.by = scans[s].by
  BY <1>3, <1>4, <1>5 DEF Loadings
<1> HIDE DEF new
<1>7. \A n \in Todo(scans[s]) : n # Head(scans[s].todo) => n \in Todo(new)
  BY <1>3, <1>4, <1>6 DEF Todo
<1> QED
  BY <1>2, <1>6, <1>7

LEMMA EndsStays ==
    ASSUME PackagesIInv, NEW s \in Scans, Packages!Ends(s)
    PROVE  PackagesIInv'
<1> DEFINE new == [scans[s] EXCEPT !.at = "done"]
<1>1. /\ scans[s] # None /\ scans[s].at = "next" /\ scans[s].todo = <<>>
      /\ scans' = [scans EXCEPT ![s].at = "done"]
      /\ UNCHANGED <<lDisk, lConnectors, modules, imports, copying, placed>>
  BY DEF Packages!Ends, Packages!Runs
<1>2. scans \in [Scans -> Loadings \cup {None}] /\ scans[s] \in Loadings
  BY <1>1, ScanFacts DEF PackagesIInv, PackageTypes
<1>3. scans' = [scans EXCEPT ![s] = new]
  BY <1>1, <1>2
<1>4. new \in Loadings /\ new.at = "done" /\ new.by = scans[s].by /\ new.read = scans[s].read
  BY <1>2 DEF Loadings
<1> HIDE DEF new
<1>5. \A n \in Names : ~Pending(scans[s], lDisk[n], n)
  BY <1>1 DEF Pending, Todo
<1> QED
  BY <1>1, <1>3, <1>4, <1>5, ScanMoves

LEMMA AnswerStays ==
    ASSUME PackagesIInv, NEW s \in Scans, Packages!Serves(s) \/ Packages!Respond(s)
    PROVE  PackagesIInv'
<1>1. /\ scans[s] # None /\ scans[s].at \in {"done", "failed"} /\ scans' = [scans EXCEPT ![s] = None]
      /\ UNCHANGED <<lDisk, lConnectors, modules, imports, copying, placed>>
  BY DEF Packages!Serves, Packages!Respond
<1>2. \A n \in Names : ~Pending(scans[s], lDisk[n], n)
  BY <1>1 DEF Pending, Packages!Runs
<1> QED
  BY <1>1, <1>2, ScanMoves

\* Who waits behind the others is the last in the line.
LEMMA LastInLine ==
    ASSUME NEW q \in Seq(Scans), NEW s \in Scans, NEW n, Lined(q, n),
           \A i \in DOMAIN q : q[i] # s /\ scans'[q[i]] = scans[q[i]],
           lDisk'[n] = lDisk[n], lConnectors'[n] = lConnectors[n],
           Waits(scans'[s], n), Fresh(scans'[s], lDisk[n])
    PROVE  LET longer == Append(q, s)
           IN  /\ \A i \in DOMAIN longer : Waits(scans'[longer[i]], n)
               /\ \A i, j \in DOMAIN longer : i < j =>
                     /\ longer[i] # longer[j]
                     /\ Fresh(scans'[longer[i]], lDisk[n]) => Fresh(scans'[longer[j]], lDisk[n])
               /\ Listed(lConnectors[n], lDisk[n]) => \A i \in DOMAIN longer : Fresh(scans'[longer[i]], lDisk[n])
<1> DEFINE longer == Append(q, s)
<1>1. /\ Len(q) \in Nat /\ DOMAIN q = 1 .. Len(q)
      /\ DOMAIN longer = (1 .. Len(q)) \cup {Len(q) + 1}
      /\ longer[Len(q) + 1] = s /\ \A i \in 1 .. Len(q) : longer[i] = q[i]
  OBVIOUS
<1> HIDE DEF longer
<1>2. \A i \in 1 .. Len(q) : longer[i] = q[i] /\ scans'[longer[i]] = scans[q[i]] /\ longer[i] # s
  BY <1>1
<1>3. \A i \in DOMAIN longer : Waits(scans'[longer[i]], n)
  BY <1>1, <1>2 DEF Lined
<1>4. \A i \in DOMAIN longer : i \in 1 .. Len(q) \/ longer[i] = s
  BY <1>1
<1>5. ASSUME NEW i \in DOMAIN longer, NEW j \in DOMAIN longer, i < j
      PROVE  /\ longer[i] # longer[j]
             /\ Fresh(scans'[longer[i]], lDisk[n]) => Fresh(scans'[longer[j]], lDisk[n])
  <2>1. i \in 1 .. Len(q)
    BY <1>1, <1>5
  <2>2. CASE j \in 1 .. Len(q)
    BY <1>1, <1>2, <1>5, <2>1, <2>2 DEF Lined
  <2>3. CASE longer[j] = s
    BY <1>2, <2>1, <2>3
  <2> QED
    BY <1>4, <2>2, <2>3
<1>6. Listed(lConnectors[n], lDisk[n]) => \A i \in DOMAIN longer : Fresh(scans'[longer[i]], lDisk[n])
  BY <1>1, <1>2, <1>4 DEF Lined
<1> QED
  BY <1>3, <1>5, <1>6 DEF longer

\* The scan suspends at the import of a package it has read.
LEMMA WaitingStays ==
    ASSUME PackagesIInv, NEW s \in Scans, NEW n \in Names, NEW new \in Loadings, NEW q \in Seq(Scans),
           scans[s] # None, scans[s].at = "next", lDisk[n] # None,
           new.at = "import", new.by = scans[s].by, new.read = lDisk[n], new.todo = scans[s].todo,
           new.todo # <<>>, n = Head(new.todo), q = imports[n],
           \A t \in Scans : scans'[t] = IF t = s THEN new ELSE scans[t],
           \A m \in Names : imports'[m] = IF m = n THEN Append(q, s) ELSE imports[m],
           PackageTypes',
           UNCHANGED <<lDisk, lConnectors, modules, copying, placed>>
    PROVE  PackagesIInv'
<1>1. PackageTypes /\ PackageNumbers /\ PackageQueues /\ PackagesListed
  BY DEF PackagesIInv
<1>2. new # None
  BY PackagesAssumption
<1>3. /\ \A m \in Names : ~Waits(scans[s], m) /\ (Waits(new, m) <=> m = n)
      /\ Fresh(new, lDisk[n]) /\ Todo(new) = Todo(scans[s])
  BY <1>2 DEF Waits, Fresh, Todo
<1>4. PackageNumbers'
  <2>1. \A t \in Scans : scans'[t] # None => scans[t] # None /\ scans'[t].by = scans[t].by
    OBVIOUS
  <2>2. \A t \in Scans : scans'[t] # None /\ scans'[t].read # None =>
           \/ scans[t].read # None /\ scans'[t].read = scans[t].read
           \/ scans'[t].read = lDisk[n]
    OBVIOUS
  <2>3. \A t \in Scans, m \in Names : Waits(scans'[t], m) /\ Fresh(scans'[t], lDisk[m]) => scans'[t].read = lDisk[m]
    BY <1>1, <1>3 DEF PackageNumbers
  <2>4. lDisk[n].n <= placed /\ (copying # None => lDisk[n].n # copying.n)
    BY <1>1 DEF PackageNumbers, PackageTypes
  <2>5. \A t \in Scans : scans'[t] # None =>
           /\ scans'[t].by <= placed
           /\ scans'[t].read # None => scans'[t].read.n <= placed
    BY <1>1, <2>1, <2>2, <2>4 DEF PackageNumbers
  <2>6. copying # None => \A t \in Scans : scans'[t] # None =>
           /\ scans'[t].by # copying.n
           /\ scans'[t].read # None => scans'[t].read.n # copying.n
    BY <1>1, <2>1, <2>2, <2>4 DEF PackageNumbers
  <2> QED
    BY <1>1, <2>3, <2>5, <2>6 DEF PackageNumbers
<1>5. PackageQueues'
  <2> SUFFICES ASSUME NEW m \in Names
               PROVE  Lined(imports[m], m)'
    BY DEF PackageQueues
  <2>1. PICK c \in Seq(Scans) : c = imports[m]
    BY <1>1 DEF PackageTypes
  <2>2. Lined(c, m)
    BY <1>1, <2>1 DEF PackageQueues
  <2>3. \A i \in DOMAIN c : c[i] \in Scans /\ c[i] # s
    BY <1>3, <2>1, <2>2 DEF Lined
  <2>4. \A i \in DOMAIN c : scans'[c[i]] = scans[c[i]]
    BY <2>3
  <2>5. CASE m # n
    <3>1. imports'[m] = c
      BY <2>1, <2>5
    <3> QED
      BY <2>2, <2>4, <3>1 DEF Lined
  <2>6. CASE m = n
    <3>1. c = q /\ imports'[m] = Append(q, s) /\ scans'[s] = new
      BY <2>1, <2>6
    <3>2. Waits(scans'[s], m) /\ Fresh(scans'[s], lDisk[m])
      BY <1>3, <2>6, <3>1
    <3> DEFINE longer == Append(q, s)
    <3>3. Lined(q, m) /\ \A i \in DOMAIN q : q[i] # s /\ scans'[q[i]] = scans[q[i]]
      BY <2>2, <2>3, <2>4, <3>1
    <3>4. lDisk'[m] = lDisk[m] /\ lConnectors'[m] = lConnectors[m]
      OBVIOUS
    <3>5. /\ \A i \in DOMAIN longer : Waits(scans'[longer[i]], m)
          /\ \A i, j \in DOMAIN longer : i < j =>
                /\ longer[i] # longer[j]
                /\ Fresh(scans'[longer[i]], lDisk[m]) => Fresh(scans'[longer[j]], lDisk[m])
          /\ Listed(lConnectors[m], lDisk[m]) => \A i \in DOMAIN longer : Fresh(scans'[longer[i]], lDisk[m])
      BY <3>2, <3>3, <3>4, LastInLine, Zenon
    <3>6. imports'[m] = longer
      BY <3>1
    <3> HIDE DEF longer
    <3> QED
      BY <3>5, <3>6 DEF Lined
  <2> QED
    BY <2>5, <2>6
<1>6. PackagesListed'
  <2> SUFFICES ASSUME NEW t \in Scans, NEW m \in Names \ Disabled, Installing(scans'[t], lDisk[m])
               PROVE  Promised(scans[t], m)'
    BY DEF PackagesListed
  <2>1. Installing(scans[t], lDisk[m])
    BY DEF Installing
  <2>2. Promised(scans[t], m)
    BY <1>1, <2>1 DEF PackagesListed
  <2>3. Pending(scans[s], lDisk[m], m) => Pending(new, lDisk[m], m)
    BY <1>2, <1>3 DEF Pending
  <2> QED
    BY <2>2, <2>3 DEF Promised
<1> QED
  BY <1>4, <1>5, <1>6 DEF PackagesIInv

LEMMA ConsiderStays ==
    ASSUME PackagesIInv, NEW s \in Scans, Packages!Consider(s)
    PROVE  PackagesIInv'
<1> DEFINE n == Head(scans[s].todo)
<1>1. /\ scans[s] # None /\ scans[s].at = "next" /\ scans[s].todo # <<>>
      /\ UNCHANGED <<lDisk, lConnectors, modules, copying, placed>>
  BY DEF Packages!Consider, Packages!Runs
<1>2. /\ scans \in [Scans -> Loadings \cup {None}] /\ scans[s] \in Loadings
      /\ lDisk \in [Names -> Placements \cup {None}] /\ imports \in [Names -> Seq(Scans)]
  BY <1>1, ScanFacts DEF PackagesIInv, PackageTypes
<1>3. n \in Names
  <2>1. PICK q \in Seq(Names) : q = scans[s].todo
    BY <1>1, ScanFacts
  <2> QED
    BY <1>1, <2>1, TailFacts
<1>4. \/ (lDisk[n] = None \/ ~Packages!Loads(lDisk[n].b)) /\ Packages!Skip(s) /\ UNCHANGED imports
      \/ /\ RequireSignature /\ scans' = [scans EXCEPT ![s].at = "failed"] /\ UNCHANGED imports
      \/ /\ lDisk[n] # None /\ scans' = [scans EXCEPT ![s].at = "import", ![s].read = lDisk[n]]
         /\ imports' = [imports EXCEPT ![n] = Append(@, s)]
  BY <1>1, Zenon DEF Packages!Consider, Packages!Name
<1>5. \A m \in Names : Pending(scans[s], lDisk[m], m) => m \in Todo(scans[s])
  BY DEF Pending
<1>6. CASE (lDisk[n] = None \/ ~Packages!Loads(lDisk[n].b)) /\ Packages!Skip(s) /\ UNCHANGED imports
  <2>1. PICK new \in Loadings : /\ scans' = [scans EXCEPT ![s] = new]
                                /\ new.at = "next" /\ new.read = None /\ new.by = scans[s].by
                                /\ \A m \in Todo(scans[s]) : m # n => m \in Todo(new)
    BY <1>1, <1>6, SkipFacts
  <2>2. new # None
    BY <2>1, PackagesAssumption
  <2>3. \A m \in Names : Pending(scans[s], lDisk[m], m) /\ lDisk[m] # None /\ Packages!Loads(lDisk[m].b) =>
           new # None /\ new.at = "next" /\ m \in Todo(new)
    BY <1>5, <1>6, <2>1, <2>2
  <2> HIDE DEF n
  <2> QED
    BY <1>1, <1>6, <2>1, <2>2, <2>3, ScanMoves
<1>7. CASE RequireSignature /\ scans' = [scans EXCEPT ![s].at = "failed"] /\ UNCHANGED imports
  <2>1. PICK new \in Loadings : /\ new = [scans[s] EXCEPT !.at = "failed"] /\ new.at = "failed"
                                /\ new.by = scans[s].by /\ new.read = scans[s].read
    <3> DEFINE new == [scans[s] EXCEPT !.at = "failed"]
    <3>1. scans[s] \in Loadings
      BY <1>2
    <3>2. new \in Loadings /\ new.at = "failed" /\ new.by = scans[s].by /\ new.read = scans[s].read
      BY <3>1 DEF Loadings
    <3> QED
      BY <3>2, Zenon
  <2>2. scans' = [scans EXCEPT ![s] = new]
    BY <1>2, <1>7, <2>1
  <2>3. new # None
    BY <2>1, PackagesAssumption
  <2> QED
    BY <1>1, <1>7, <2>1, <2>2, <2>3, ScanMoves
<1>8. CASE /\ lDisk[n] # None /\ scans' = [scans EXCEPT ![s].at = "import", ![s].read = lDisk[n]]
           /\ imports' = [imports EXCEPT ![n] = Append(@, s)]
  <2>1. lDisk[n] \in Placements
    BY <1>2, <1>3, <1>8
  <2>2. PICK new \in Loadings : /\ new = [scans[s] EXCEPT !.at = "import", !.read = lDisk[n]]
                                /\ new.at = "import" /\ new.by = scans[s].by /\ new.read = lDisk[n]
                                /\ new.todo = scans[s].todo
    <3> DEFINE new == [scans[s] EXCEPT !.at = "import", !.read = lDisk[n]]
    <3>1. scans[s] \in Loadings
      BY <1>2
    <3>2. /\ new \in Loadings /\ new.at = "import" /\ new.by = scans[s].by /\ new.read = lDisk[n]
          /\ new.todo = scans[s].todo
      BY <2>1, <3>1 DEF Loadings
    <3> QED
      BY <3>2, Zenon
  <2>3. scans' = [scans EXCEPT ![s] = new]
    BY <1>2, <1>8, <2>2
  <2>4. PICK q \in Seq(Scans) : q = imports[n]
    BY <1>2, <1>3
  <2>5. Append(q, s) \in Seq(Scans)
    BY <2>4
  <2>6. \A t \in Scans : scans'[t] = IF t = s THEN new ELSE scans[t]
    BY <1>2, <2>3
  <2>7. imports' \in [Names -> Seq(Scans)] /\ \A m \in Names : imports'[m] = IF m = n THEN Append(q, s) ELSE imports[m]
    <3> DEFINE longer == Append(q, s)
    <3>1. imports' = [imports EXCEPT ![n] = longer] /\ longer \in Seq(Scans)
      BY <1>8, <2>4, <2>5
    <3> HIDE DEF longer, n
    <3>2. imports' \in [Names -> Seq(Scans)] /\ \A m \in Names : imports'[m] = IF m = n THEN longer ELSE imports[m]
      BY <1>2, <1>3, <3>1
    <3> QED
      BY <3>2 DEF longer
  <2>8. PackageTypes'
    <3>1. scans' \in [Scans -> Loadings \cup {None}]
      BY <1>2, <2>3
    <3>2. \A t \in Scans : scans'[t] # None /\ scans'[t].at = "import" => scans'[t].todo # <<>> /\ scans'[t].read # None
      BY <1>1, <1>8, <2>2, <2>6 DEF PackagesIInv, PackageTypes
    <3> QED
      BY <1>1, <2>7, <3>1, <3>2 DEF PackagesIInv, PackageTypes
  <2>9. PICK m \in Names : m = n
    BY <1>3
  <2>10. new.todo # <<>> /\ m = Head(new.todo) /\ q = imports[m] /\ lDisk[m] # None /\ new.read = lDisk[m]
    BY <1>1, <1>8, <2>2, <2>4, <2>9
  <2>11. \A k \in Names : imports'[k] = IF k = m THEN Append(q, s) ELSE imports[k]
    BY <2>7, <2>9
  <2> HIDE DEF n
  <2> QED
    <3>1. scans[s] # None /\ scans[s].at = "next"
      BY <1>1
    <3>2. UNCHANGED <<lDisk, lConnectors, modules, copying, placed>>
      BY <1>1
    <3>3. new.at = "import" /\ new.by = scans[s].by /\ new.todo = scans[s].todo
      BY <2>2
    <3> QED
      BY <2>6, <2>8, <2>10, <2>11, <3>1, <3>2, <3>3, WaitingStays, Zenon
<1> QED
  BY <1>4, <1>6, <1>7, <1>8

\* The scan that waited longest for a module goes on, and what it read may be registered.
LEMMA ImportEnds ==
    ASSUME PackagesIInv, NEW s \in Scans, NEW n \in Names, NEW new \in Loadings, NEW q \in Seq(Scans),
           Waits(scans[s], n), scans[s].read # None, q = imports[n], q # <<>>, Head(q) = s,
           new.at = "next", new.read = None, new.by = scans[s].by,
           \A m \in Todo(scans[s]) : m # n => m \in Todo(new),
           \A t \in Scans : scans'[t] = IF t = s THEN new ELSE scans[t],
           \A m \in Names : imports'[m] = IF m = n THEN Tail(q) ELSE imports[m],
           \A m \in Names \cup Builtins : m # n => lConnectors'[m] = lConnectors[m],
           lConnectors'[n] # lConnectors[n] =>
               lConnectors'[n] # None /\ lConnectors'[n].placed = scans[s].read.n,
           n \notin Disabled /\ Fresh(scans[s], lDisk[n]) /\ lDisk[n].b.factory =>
               lConnectors'[n] # None /\ lConnectors'[n].placed = scans[s].read.n,
           PackageTypes',
           UNCHANGED <<lDisk, copying, placed>>
    PROVE  PackagesIInv'
<1>1. PackageTypes /\ PackageNumbers /\ PackageQueues /\ PackagesListed
  BY DEF PackagesIInv
<1>2. new # None /\ scans[s] # None
  BY PackagesAssumption DEF Waits
<1>3. \A m \in Names : ~Waits(new, m) /\ (Waits(scans[s], m) => m = n)
  BY DEF Waits
<1>4. PackageNumbers'
  <2>1. \A t \in Scans : scans'[t] # None =>
           /\ scans[t] # None /\ scans'[t].by = scans[t].by
           /\ scans'[t].read # None => scans[t].read # None /\ scans'[t].read = scans[t].read
    BY <1>2
  <2>2. \A t \in Scans, m \in Names : Waits(scans'[t], m) /\ Fresh(scans'[t], lDisk[m]) => scans'[t].read = lDisk[m]
    BY <1>1, <1>3 DEF PackageNumbers
  <2>3. scans[s].read.n <= placed /\ (copying # None => scans[s].read.n # copying.n)
    BY <1>1, <1>2 DEF PackageNumbers
  <2>4. \A m \in Names \cup Builtins : lConnectors'[m] # None => lConnectors'[m].placed <= placed
    BY <1>1, <2>3 DEF PackageNumbers
  <2>5. copying # None =>
           \A m \in Names \cup Builtins : lConnectors'[m] # None => lConnectors'[m].placed # copying.n
    BY <1>1, <2>3 DEF PackageNumbers
  <2> QED
    BY <1>1, <2>1, <2>2, <2>4, <2>5 DEF PackageNumbers
<1>5. PackageQueues'
  <2> SUFFICES ASSUME NEW m \in Names
               PROVE  Lined(imports[m], m)'
    BY DEF PackageQueues
  <2>1. PICK c \in Seq(Scans) : c = imports[m]
    BY <1>1 DEF PackageTypes
  <2>2. Lined(c, m)
    BY <1>1, <2>1 DEF PackageQueues
  <2>3. CASE m # n
    <3>1. \A i \in DOMAIN c : c[i] \in Scans /\ c[i] # s
      BY <1>3, <2>2, <2>3 DEF Lined
    <3>2. \A i \in DOMAIN c : scans'[c[i]] = scans[c[i]]
      BY <3>1
    <3>3. imports'[m] = c /\ lConnectors'[m] = lConnectors[m]
      BY <2>1, <2>3
    <3> QED
      BY <2>2, <3>2, <3>3 DEF Lined
  <2>4. CASE m = n
    <3>1. c = q /\ Lined(q, n) /\ imports'[m] = Tail(q)
      BY <2>1, <2>2, <2>4
    <3>2. /\ s = q[1] /\ 1 \in DOMAIN q
          /\ \A i \in DOMAIN Tail(q) : Tail(q)[i] = q[i + 1] /\ i \in Nat /\ i >= 1 /\ i + 1 \in DOMAIN q
      BY TailFacts
    <3> DEFINE rest == Tail(q)
    <3>3. \A i \in DOMAIN rest : rest[i] = q[i + 1] /\ i \in Nat /\ i >= 1 /\ i + 1 \in DOMAIN q
      BY <3>2
    <3>4. imports'[m] = rest
      BY <3>1
    <3> HIDE DEF rest
    <3>5. \A i \in DOMAIN q : q[i] \in Scans /\ (1 < i => q[i] # s)
      BY <3>1, <3>2 DEF Lined
    <3>6. \A i \in DOMAIN rest : rest[i] = q[i + 1] /\ scans'[rest[i]] = scans[q[i + 1]] /\ 1 < i + 1
      BY <3>3, <3>5
    <3>7. \A i \in DOMAIN rest : Waits(scans'[rest[i]], n)
      BY <3>1, <3>3, <3>6 DEF Lined
    <3>8. ASSUME NEW i \in DOMAIN rest, NEW j \in DOMAIN rest, i < j
          PROVE  /\ rest[i] # rest[j]
                 /\ Fresh(scans'[rest[i]], lDisk[n]) => Fresh(scans'[rest[j]], lDisk[n])
      <4>1. i + 1 \in DOMAIN q /\ j + 1 \in DOMAIN q /\ i + 1 < j + 1
        BY <3>3, <3>8
      <4> QED
        BY <3>1, <3>6, <4>1 DEF Lined
    <3>9. Listed(lConnectors'[n], lDisk[n]) => \A i \in DOMAIN rest : Fresh(scans'[rest[i]], lDisk[n])
      <4>1. CASE lConnectors'[n] = lConnectors[n]
        BY <3>1, <3>3, <3>6, <4>1 DEF Lined
      <4>2. CASE lConnectors'[n] # lConnectors[n]
        <5>1. Listed(lConnectors'[n], lDisk[n]) => Fresh(scans[q[1]], lDisk[n])
          BY <3>2, <4>2 DEF Listed, Fresh
        <5>2. Fresh(scans[q[1]], lDisk[n]) => \A i \in DOMAIN rest : Fresh(scans[q[i + 1]], lDisk[n])
          BY <3>1, <3>2, <3>3, <3>6 DEF Lined
        <5> QED
          BY <3>6, <5>1, <5>2
      <4> QED
        BY <4>1, <4>2
    <3> QED
      BY <2>4, <3>4, <3>7, <3>8, <3>9 DEF Lined
  <2> QED
    BY <2>3, <2>4
<1>6. PackagesListed'
  <2> SUFFICES ASSUME NEW t \in Scans, NEW m \in Names \ Disabled, Installing(scans'[t], lDisk[m])
               PROVE  Promised(scans[t], m)'
    BY DEF PackagesListed
  <2>1. Installing(scans[t], lDisk[m]) /\ lDisk[m].b.factory /\ lDisk[m] # None
    BY <1>2 DEF Installing, Waits
  <2>2. Promised(scans[t], m)
    BY <1>1, <2>1 DEF PackagesListed
  <2>3. CASE m # n
    <3>1. Pending(scans[s], lDisk[m], m) => Pending(new, lDisk[m], m)
      BY <1>2, <1>3, <2>3 DEF Pending
    <3>2. lConnectors'[m] = lConnectors[m]
      BY <2>3
    <3> QED
      BY <2>2, <3>1, <3>2 DEF Promised
  <2>4. CASE m = n /\ Fresh(scans[s], lDisk[n])
    <3>1. lConnectors'[n] # None /\ lConnectors'[n].placed = scans[s].read.n
      BY <2>1, <2>4
    <3>2. Listed(lConnectors'[n], lDisk[n])
      BY <2>4, <3>1 DEF Listed, Fresh
    <3> QED
      BY <2>4, <3>2 DEF Promised
  <2>5. CASE m = n /\ ~Fresh(scans[s], lDisk[n])
    <3>1. ~Pending(scans[s], lDisk[n], n)
      BY <2>5 DEF Pending
    <3>2. Lined(q, n) /\ q[1] = s /\ 1 \in DOMAIN q
      BY <1>1, TailFacts DEF PackageQueues
    <3>3. ~Listed(lConnectors[n], lDisk[n])
      BY <2>5, <3>2 DEF Lined
    <3> QED
      BY <2>2, <2>5, <3>1, <3>3 DEF Promised
  <2> QED
    BY <2>3, <2>4, <2>5
<1> QED
  BY <1>4, <1>5, <1>6 DEF PackagesIInv

\* The import of a package, and its registration.
LEMMA ImportedStays ==
    ASSUME PackagesIInv, NEW s \in Scans, Packages!Imported(s)
    PROVE  PackagesIInv'
<1>1. /\ scans[s] # None /\ scans[s].at = "import" /\ imports[Packages!Name(s)] # <<>>
      /\ Head(imports[Packages!Name(s)]) = s
      /\ Packages!Skip(s)
      /\ imports' = [imports EXCEPT ![Packages!Name(s)] = Tail(@)]
      /\ UNCHANGED <<lDisk, copying, placed>>
  BY DEF Packages!Imported, Packages!Runs, Packages!Imports
<1>2. /\ scans \in [Scans -> Loadings \cup {None}] /\ lDisk \in [Names -> Placements \cup {None}]
      /\ imports \in [Names -> Seq(Scans)] /\ modules \in [Names -> Nat \cup {None}]
      /\ lConnectors \in [Names \cup Builtins -> Listings \cup {None}]
      /\ copying \in Placements \cup {None} /\ placed \in Nat
      /\ \A t \in Scans : scans[t] # None /\ scans[t].at = "import" => scans[t].todo # <<>> /\ scans[t].read # None
  BY DEF PackagesIInv, PackageTypes
<1>3. scans[s].todo # <<>> /\ scans[s].read # None /\ scans[s].read \in Placements
  BY <1>1, <1>2, ScanFacts
<1>4. PICK n \in Names : n = Packages!Name(s) /\ n = Head(scans[s].todo)
  <2>1. PICK q \in Seq(Names) : q = scans[s].todo
    BY <1>1, ScanFacts
  <2> QED
    BY <1>3, <2>1, TailFacts DEF Packages!Name
<1>5. PICK q \in Seq(Scans) : q = imports[n]
  BY <1>2
<1>6. PICK d \in Placements : d = scans[s].read
  BY <1>3
<1>7. Waits(scans[s], n) /\ q # <<>> /\ Head(q) = s
  BY <1>1, <1>3, <1>4, <1>5 DEF Waits
<1>8. PICK new \in Loadings : /\ scans' = [scans EXCEPT ![s] = new]
                              /\ new.at = "next" /\ new.read = None /\ new.by = scans[s].by
                              /\ \A m \in Todo(scans[s]) : m # Head(scans[s].todo) => m \in Todo(new)
  BY <1>1, <1>3, SkipFacts
<1>9. /\ scans' \in [Scans -> Loadings \cup {None}]
      /\ \A t \in Scans : scans'[t] = IF t = s THEN new ELSE scans[t]
  BY <1>2, <1>8
<1>10. /\ imports' \in [Names -> Seq(Scans)]
       /\ \A m \in Names : imports'[m] = IF m = n THEN Tail(q) ELSE imports[m]
  <2>1. Tail(q) \in Seq(Scans) /\ imports' = [imports EXCEPT ![n] = Tail(q)]
    BY <1>1, <1>4, <1>5, <1>7, TailFacts
  <2> DEFINE rest == Tail(q)
  <2>2. rest \in Seq(Scans) /\ imports' = [imports EXCEPT ![n] = rest]
    BY <2>1
  <2> HIDE DEF rest
  <2>3. imports' \in [Names -> Seq(Scans)] /\ \A m \in Names : imports'[m] = IF m = n THEN rest ELSE imports[m]
    BY <1>2, <2>2
  <2> QED
    BY <2>3 DEF rest
<1>11. d.b \in Bundles /\ d.n \in Nat /\ d.b.v \in Nat
  BY PackagesAssumption DEF Placements, Manifests
<1>12. \A m \in Names : lDisk[m] # None => lDisk[m].b.v \in Nat
  <2>1. \A o \in Placements : o.b \in Bundles
    BY DEF Placements
  <2>2. \A b \in Bundles : b.v \in Nat
    BY PackagesAssumption DEF Manifests
  <2> QED
    BY <1>2, <2>1, <2>2
<1> DEFINE code == IF modules[n] # None THEN modules[n] ELSE IF lDisk[n] # None THEN lDisk[n].b.v ELSE None
           entry == [placed |-> d.n, v |-> d.b.v, code |-> code]
<1>13. /\ modules' = [modules EXCEPT ![n] = code]
       /\ lConnectors' = IF code # None /\ d.b.factory THEN Packages!Takes(lConnectors, n, entry) ELSE lConnectors
  BY <1>4, <1>6, Zenon DEF Packages!Imported
<1>14. code \in Nat \cup {None} /\ (lDisk[n] # None => code # None)
  BY <1>2, <1>12, PackagesAssumption
<1>15. code # None => entry \in Listings /\ entry.placed = d.n
  BY <1>11, <1>14 DEF Listings
<1>16. entry \in Listings => entry # None
  BY PackagesAssumption
<1> HIDE DEF code, entry
<1>17. modules' \in [Names -> Nat \cup {None}]
  BY <1>2, <1>13, <1>14
<1>18. \/ lConnectors' = lConnectors /\ (n \in Disabled \/ code = None \/ ~d.b.factory)
       \/ /\ lConnectors' = [lConnectors EXCEPT ![n] = entry]
          /\ entry \in Listings /\ entry # None /\ entry.placed = d.n
  BY <1>13, <1>15, <1>16 DEF Packages!Takes, Packages!Register
<1>19. /\ lConnectors' \in [Names \cup Builtins -> Listings \cup {None}]
       /\ \A m \in Names \cup Builtins : m # n => lConnectors'[m] = lConnectors[m]
       /\ lConnectors'[n] # lConnectors[n] => lConnectors'[n] # None /\ lConnectors'[n].placed = d.n
       /\ n \notin Disabled /\ code # None /\ d.b.factory => lConnectors'[n] # None /\ lConnectors'[n].placed = d.n
  BY <1>2, <1>18
<1>20. Fresh(scans[s], lDisk[n]) => d = lDisk[n] /\ lDisk[n] # None
  BY <1>6, <1>7 DEF PackagesIInv, PackageNumbers, Fresh
<1>21. n \notin Disabled /\ Fresh(scans[s], lDisk[n]) /\ lDisk[n].b.factory =>
          lConnectors'[n] # None /\ lConnectors'[n].placed = d.n
  BY <1>14, <1>19, <1>20
<1>22. PackageTypes'
  <2>1. \A t \in Scans : scans'[t] # None /\ scans'[t].at = "import" => scans'[t].todo # <<>> /\ scans'[t].read # None
    BY <1>2, <1>8, <1>9
  <2> QED
    BY <1>1, <1>2, <1>9, <1>10, <1>17, <1>19, <2>1 DEF PackageTypes
<1>23. \A m \in Todo(scans[s]) : m # n => m \in Todo(new)
  BY <1>4, <1>8
<1>24. UNCHANGED <<lDisk, copying, placed>> /\ new.at = "next" /\ new.read = None /\ new.by = scans[s].by
  BY <1>1, <1>8
<1>25. /\ \A t \in Scans : scans'[t] = IF t = s THEN new ELSE scans[t]
       /\ \A m \in Names : imports'[m] = IF m = n THEN Tail(q) ELSE imports[m]
       /\ \A m \in Names \cup Builtins : m # n => lConnectors'[m] = lConnectors[m]
       /\ lConnectors'[n] # lConnectors[n] => lConnectors'[n] # None /\ lConnectors'[n].placed = scans[s].read.n
       /\ n \notin Disabled /\ Fresh(scans[s], lDisk[n]) /\ lDisk[n].b.factory =>
             lConnectors'[n] # None /\ lConnectors'[n].placed = scans[s].read.n
  BY <1>6, <1>9, <1>10, <1>19, <1>21
<1> QED
  BY <1>3, <1>5, <1>7, <1>22, <1>23, <1>24, <1>25, ImportEnds, Zenon

\* What a scan is as it begins, and what every one registers first.
LEMMA PackagesKeep ==
    ASSUME NEW s, NEW wanted
    PROVE  Packages!Kept(s, wanted) = Filtered(s, wanted)
  BY Zenon DEF Packages!Kept, Packages!FoldLeft, Packages!MapThenFoldSet, Packages!Max,
               Filtered, FoldLeft, MapThenFoldSet, Max

LEMMA PackagesRange ==
    ASSUME NEW wanted
    PROVE  /\ Filtered(Directories, wanted) \in Seq(Names)
           /\ \A j \in DOMAIN Directories : Directories[j] \in wanted =>
                 \E i \in DOMAIN Filtered(Directories, wanted) : Filtered(Directories, wanted)[i] = Directories[j]
<1>1. Directories \in Seq(Names)
  BY PackagesAssumption
<1>2. /\ Filtered(Directories, wanted) \in Seq(Names)
      /\ \A i \in DOMAIN Filtered(Directories, wanted) :
            \E j \in DOMAIN Directories :
              Filtered(Directories, wanted)[i] = Directories[j] /\ Directories[j] \in wanted
      /\ \A j \in DOMAIN Directories : Directories[j] \in wanted =>
            \E i \in DOMAIN Filtered(Directories, wanted) : Filtered(Directories, wanted)[i] = Directories[j]
  BY <1>1, FilteredRange
<1> QED
  BY <1>2

LEMMA ScanBegins ==
    ASSUME NEW dirs \in [Names -> Placements \cup {None}], NEW by \in Nat
    PROVE  LET new == Packages!Scan(dirs, by)
           IN  /\ new \in Loadings /\ new # None /\ new.read = None /\ new.by = by
               /\ new.at \in {"next", "failed"}
               /\ TrustRoot => new.at = "next" /\ \A n \in Names : dirs[n] # None => n \in Todo(new)
<1> DEFINE wanted == {n \in Packages!Names : dirs[n] # None}
           todo == IF Packages!ReadsDirectory THEN Filtered(Directories, wanted) ELSE <<>>
           at == IF Packages!FailsAtOnce THEN "failed" ELSE "next"
           new == [todo |-> todo, at |-> at, read |-> None, by |-> by]
<1>1. /\ Filtered(Directories, wanted) \in Seq(Names)
      /\ \A j \in DOMAIN Directories : Directories[j] \in wanted =>
            \E i \in DOMAIN Filtered(Directories, wanted) : Filtered(Directories, wanted)[i] = Directories[j]
  BY PackagesRange
<1>2. Packages!Scan(dirs, by) = new
  BY PackagesKeep, Zenon DEF Packages!Scan
<1>3. TrustRoot => Packages!ReadsDirectory /\ ~Packages!FailsAtOnce
  BY DEF Packages!ReadsDirectory, Packages!FailsAtOnce
<1>4. todo \in Seq(Names) /\ at \in {"next", "failed"} /\ (TrustRoot => at = "next")
  BY <1>1, <1>3
<1>5. TrustRoot => \A n \in Names : dirs[n] # None => \E i \in DOMAIN todo : todo[i] = n
  BY <1>1, <1>3, SameNames DEF Names
<1> HIDE DEF todo, at
<1>6. new \in Loadings /\ new.read = None /\ new.by = by /\ new.at = at /\ new.todo = todo
  BY <1>4 DEF Loadings
<1>7. new # None
  BY <1>6, PackagesAssumption
<1> HIDE DEF new
<1>8. TrustRoot => new.at = "next" /\ \A n \in Names : dirs[n] # None => n \in Todo(new)
  BY <1>4, <1>5, <1>6 DEF Todo
<1> QED
  BY <1>2, <1>4, <1>6, <1>7, <1>8

LEMMA BuiltinFacts ==
    ASSUME NEW cs \in [Names \cup Builtins -> Listings \cup {None}]
    PROVE  /\ Packages!WithBuiltins(cs) \in [Names \cup Builtins -> Listings \cup {None}]
           /\ \A n \in Names \cup Builtins :
                 \/ Packages!WithBuiltins(cs)[n] = cs[n]
                 \/ /\ n \in Builtins
                    /\ Packages!WithBuiltins(cs)[n] # None /\ Packages!WithBuiltins(cs)[n].placed = 0
<1> DEFINE image == [placed |-> 0, v |-> 0, code |-> 0]
<1>1. image \in Listings /\ image.placed = 0
  BY DEF Listings
<1>2. image # None
  BY <1>1, PackagesAssumption
<1> HIDE DEF image
<1>3. Packages!WithBuiltins(cs) = [n \in Names \cup Builtins |-> IF n \in Builtins \ Disabled THEN image ELSE cs[n]]
  BY SameNames DEF Packages!WithBuiltins, image
<1> QED
  BY <1>1, <1>2, <1>3

LEMMA InstallStays ==
    ASSUME PackagesIInv, NEW s \in Scans, NEW b \in Bundles, Packages!Install(s, b)
    PROVE  PackagesIInv'
<1>1. PackageTypes /\ PackageNumbers /\ PackageQueues /\ PackagesListed
  BY DEF PackagesIInv
<1>2. /\ TrustRoot /\ scans[s] = None /\ placed' = placed + 1 /\ placed \in Nat
      /\ UNCHANGED <<modules, imports, copying>>
  BY <1>1 DEF Packages!Install, PackageTypes
<1>3. PICK m \in Names : m = b.name
  BY PackagesAssumption DEF Manifests
<1>4. PICK d \in Placements : d = [b |-> b, n |-> placed + 1] /\ d.n = placed + 1
  <2>1. [b |-> b, n |-> placed + 1] \in Placements
    BY <1>2 DEF Placements
  <2> QED
    BY <2>1
<1>5. lDisk' \in [Names -> Placements \cup {None}] /\ \A n \in Names : lDisk'[n] = IF n = m THEN d ELSE lDisk[n]
  <2>1. lDisk' = [lDisk EXCEPT ![m] = d]
    BY <1>3, <1>4 DEF Packages!Install
  <2> QED
    BY <1>1, <2>1 DEF PackageTypes
<1>6. PICK new \in Loadings : /\ scans' = [scans EXCEPT ![s] = new]
                              /\ new # None /\ new.read = None /\ new.by = placed + 1 /\ new.at = "next"
                              /\ \A n \in Names : lDisk'[n] # None => n \in Todo(new)
  <2>1. scans' = [scans EXCEPT ![s] = Packages!Scan(lDisk', placed + 1)]
    BY DEF Packages!Install
  <2>2. placed + 1 \in Nat
    BY <1>2
  <2> QED
    BY <1>2, <1>5, <2>1, <2>2, ScanBegins
<1>7. scans' \in [Scans -> Loadings \cup {None}] /\ \A t \in Scans : scans'[t] = IF t = s THEN new ELSE scans[t]
  BY <1>1, <1>6 DEF PackageTypes
<1>8. /\ lConnectors' \in [Names \cup Builtins -> Listings \cup {None}]
      /\ \A n \in Names \cup Builtins :
            \/ lConnectors'[n] = lConnectors[n]
            \/ n \in Builtins /\ lConnectors'[n] # None /\ lConnectors'[n].placed = 0
  BY <1>1, BuiltinFacts DEF Packages!Install, PackageTypes
<1>9. PackageTypes'
  <2>1. \A t \in Scans : scans'[t] # None /\ scans'[t].at = "import" => scans'[t].todo # <<>> /\ scans'[t].read # None
    BY <1>1, <1>6, <1>7 DEF PackageTypes
  <2>2. placed' \in Nat
    BY <1>2
  <2> QED
    BY <1>1, <1>2, <1>5, <1>7, <1>8, <2>1, <2>2 DEF PackageTypes
<1>10. d # None /\ \A n \in Names : ~Waits(new, n) /\ ~Waits(scans[s], n)
  BY <1>2, <1>6, PackagesAssumption DEF Waits
<1>11. /\ \A n \in Names : lDisk[n] # None => lDisk[n].n \in 1 .. placed
       /\ \A n \in Names \cup Builtins : lConnectors[n] # None => lConnectors[n].placed \in Nat /\ lConnectors[n].placed <= placed
       /\ \A t \in Scans : scans[t] # None =>
             /\ scans[t].by \in Nat /\ scans[t].by <= placed
             /\ scans[t].read # None => scans[t].read.n \in Nat /\ scans[t].read.n <= placed
       /\ copying # None => copying.n \in 1 .. placed
  <2>1. \A t \in Scans : scans[t] # None => scans[t].by \in Nat /\ (scans[t].read # None => scans[t].read.n \in Nat)
    BY ScanFacts
  <2>2. \A n \in Names \cup Builtins : lConnectors[n] # None => lConnectors[n].placed \in Nat
    <3>1. \A o \in Listings : o.placed \in Nat
      BY DEF Listings
    <3> QED
      BY <1>1, <3>1 DEF PackageTypes
  <2> QED
    BY <1>1, <2>1, <2>2 DEF PackageNumbers
<1>12. \A t \in Scans : scans'[t] # None => ~Fresh(scans'[t], d)
  BY <1>2, <1>4, <1>6, <1>7, <1>11 DEF Fresh
<1>13. \A n \in Names : n # m =>
          /\ Listed(lConnectors'[n], lDisk[n]) => Listed(lConnectors[n], lDisk[n])
          /\ n \notin Builtins /\ Listed(lConnectors[n], lDisk[n]) => Listed(lConnectors'[n], lDisk[n])
  BY <1>8, <1>11 DEF Listed
<1>14. PackageNumbers'
  <2>1. /\ \A n \in Names : lDisk'[n] # None => lDisk'[n].n \in 1 .. placed'
        /\ \A n \in Names \cup Builtins : lConnectors'[n] # None => lConnectors'[n].placed <= placed'
    BY <1>2, <1>4, <1>5, <1>8, <1>11
  <2>2. \A t \in Scans : scans'[t] # None =>
           /\ scans'[t].by <= placed'
           /\ scans'[t].read # None => scans'[t].read.n <= placed'
    BY <1>2, <1>6, <1>7, <1>11
  <2>3. \A t \in Scans, n \in Names : Waits(scans'[t], n) /\ Fresh(scans'[t], lDisk'[n]) => scans'[t].read = lDisk'[n]
    BY <1>1, <1>5, <1>7, <1>10, <1>12 DEF PackageNumbers, Waits
  <2>4. copying' # None => copying'.n \in 1 .. placed'
    BY <1>2, <1>11
  <2>5. copying' # None => \A n \in Names : lDisk'[n] # None => lDisk'[n].n # copying'.n
    BY <1>1, <1>2, <1>4, <1>5, <1>11 DEF PackageNumbers
  <2>6. copying' # None => \A n \in Names \cup Builtins : lConnectors'[n] # None => lConnectors'[n].placed # copying'.n
    BY <1>1, <1>2, <1>8, <1>11 DEF PackageNumbers
  <2>7. copying' # None => \A t \in Scans : scans'[t] # None =>
           /\ scans'[t].by # copying'.n
           /\ scans'[t].read # None => scans'[t].read.n # copying'.n
    BY <1>1, <1>2, <1>6, <1>7, <1>11 DEF PackageNumbers
  <2> QED
    BY <2>1, <2>2, <2>3, <2>4, <2>5, <2>6, <2>7 DEF PackageNumbers
<1>15. PackageQueues'
  <2> SUFFICES ASSUME NEW n \in Names
               PROVE  Lined(imports[n], n)'
    BY DEF PackageQueues
  <2>1. PICK c \in Seq(Scans) : c = imports[n] /\ imports'[n] = c
    BY <1>1, <1>2 DEF PackageTypes
  <2>2. Lined(c, n)
    BY <1>1, <2>1 DEF PackageQueues
  <2>3. \A i \in DOMAIN c : c[i] \in Scans /\ c[i] # s
    BY <1>10, <2>2 DEF Lined
  <2>4. \A i \in DOMAIN c : scans'[c[i]] = scans[c[i]]
    BY <1>7, <2>3
  <2>5. CASE n # m
    BY <1>5, <1>13, <2>1, <2>2, <2>4, <2>5 DEF Lined
  <2>6. CASE n = m
    <3>1. \A i \in DOMAIN c : Waits(scans'[c[i]], n) /\ ~Fresh(scans'[c[i]], lDisk'[n])
      BY <1>5, <1>12, <2>2, <2>3, <2>4, <2>6 DEF Lined, Waits
    <3>2. ~Listed(lConnectors'[n], lDisk'[n])
      BY <1>4, <1>5, <1>8, <1>11, <1>2, <2>6 DEF Listed
    <3>3. \A i, j \in DOMAIN c : i < j => c[i] # c[j]
      BY <2>2 DEF Lined
    <3> QED
      BY <2>1, <3>1, <3>2, <3>3 DEF Lined
  <2> QED
    BY <2>5, <2>6
<1>16. PackagesListed'
  <2> SUFFICES ASSUME NEW t \in Scans, NEW n \in Names \ Disabled, Installing(scans'[t], lDisk'[n])
               PROVE  Promised(scans[t], n)'
    BY DEF PackagesListed
  <2>1. scans'[t] # None /\ lDisk'[n] # None /\ lDisk'[n].n = scans'[t].by
    BY DEF Installing
  <2>2. Pending(new, lDisk'[n], n)
    BY <1>6, <1>10, <2>1 DEF Pending
  <2>3. scans'[s] = new
    BY <1>7
  <2>4. CASE n \in Builtins
    BY <2>2, <2>3, <2>4 DEF Promised
  <2>5. CASE n \notin Builtins /\ t = s
    BY <2>2, <2>3, <2>5 DEF Promised
  <2>6. CASE n \notin Builtins /\ t # s
    <3>1. n # m
      BY <1>2, <1>4, <1>5, <1>7, <1>11, <2>1, <2>6
    <3>2. lDisk'[n] = lDisk[n] /\ scans'[t] = scans[t]
      BY <1>5, <1>7, <2>6, <3>1
    <3>3. Promised(scans[t], n)
      BY <1>1, <3>2 DEF PackagesListed
    <3> QED
      BY <1>13, <2>6, <3>1, <3>2, <3>3 DEF Promised
  <2> QED
    BY <2>4, <2>5, <2>6
<1> QED
  BY <1>9, <1>14, <1>15, <1>16 DEF PackagesIInv

\* What the command line does to the directory beside the process.
LEMMA CliRemovesStays ==
    ASSUME PackagesIInv, NEW b \in Bundles, Packages!CliRemoves(b)
    PROVE  PackagesIInv'
<1>1. PackageTypes /\ PackageNumbers /\ PackageQueues /\ PackagesListed
  BY DEF PackagesIInv
<1>2. PICK m \in Names : m = b.name
  BY PackagesAssumption DEF Manifests
<1>3. /\ copying = None /\ placed' = placed + 1 /\ placed \in Nat
      /\ lDisk' = [lDisk EXCEPT ![m] = None] /\ copying' = [b |-> b, n |-> placed + 1]
      /\ UNCHANGED <<lConnectors, modules, scans, imports>>
  BY <1>1, <1>2 DEF Packages!CliRemoves, PackageTypes
<1>4. copying' \in Placements /\ copying'.n = placed + 1
  BY <1>3 DEF Placements
<1>5. lDisk' \in [Names -> Placements \cup {None}] /\ \A n \in Names : lDisk'[n] = IF n = m THEN None ELSE lDisk[n]
  BY <1>1, <1>3 DEF PackageTypes
<1>6. PackageTypes'
  BY <1>1, <1>3, <1>4, <1>5 DEF PackageTypes
<1>7. /\ \A n \in Names : lDisk[n] # None => lDisk[n].n \in 1 .. placed
      /\ \A n \in Names \cup Builtins : lConnectors[n] # None => lConnectors[n].placed \in Nat /\ lConnectors[n].placed <= placed
      /\ \A t \in Scans : scans[t] # None =>
            /\ scans[t].by \in Nat /\ scans[t].by <= placed
            /\ scans[t].read # None => scans[t].read.n \in Nat /\ scans[t].read.n <= placed
  <2>1. \A t \in Scans : scans[t] # None => scans[t].by \in Nat /\ (scans[t].read # None => scans[t].read.n \in Nat)
    BY ScanFacts
  <2>2. \A n \in Names \cup Builtins : lConnectors[n] # None => lConnectors[n].placed \in Nat
    <3>1. \A o \in Listings : o.placed \in Nat
      BY DEF Listings
    <3> QED
      BY <1>1, <3>1 DEF PackageTypes
  <2> QED
    BY <1>1, <2>1, <2>2 DEF PackageNumbers
<1>8. \A t \in Scans : ~Fresh(scans[t], None)
  BY DEF Fresh
<1>9. PackageNumbers'
  <2>1. /\ \A n \in Names : lDisk'[n] # None => lDisk'[n].n \in 1 .. placed' /\ lDisk'[n].n # copying'.n
        /\ \A n \in Names \cup Builtins : lConnectors'[n] # None =>
              lConnectors'[n].placed <= placed' /\ lConnectors'[n].placed # copying'.n
    BY <1>3, <1>4, <1>5, <1>7
  <2>2. \A t \in Scans : scans'[t] # None =>
           /\ scans'[t].by <= placed' /\ scans'[t].by # copying'.n
           /\ scans'[t].read # None => scans'[t].read.n <= placed' /\ scans'[t].read.n # copying'.n
    BY <1>3, <1>4, <1>7
  <2>3. \A t \in Scans, n \in Names : Waits(scans'[t], n) /\ Fresh(scans'[t], lDisk'[n]) => scans'[t].read = lDisk'[n]
    BY <1>1, <1>3, <1>5, <1>8 DEF PackageNumbers
  <2>4. copying'.n \in 1 .. placed'
    BY <1>3, <1>4
  <2> QED
    BY <2>1, <2>2, <2>3, <2>4 DEF PackageNumbers
<1>10. PackageQueues'
  <2> SUFFICES ASSUME NEW n \in Names
               PROVE  Lined(imports[n], n)'
    BY DEF PackageQueues
  <2>1. Lined(imports[n], n) /\ (lDisk'[n] = None \/ lDisk'[n] = lDisk[n])
    BY <1>1, <1>5 DEF PackageQueues
  <2>2. \A t \in Scans : Fresh(scans[t], lDisk'[n]) => Fresh(scans[t], lDisk[n]) /\ lDisk'[n] = lDisk[n]
    BY <2>1 DEF Fresh
  <2>3. ~Listed(lConnectors[n], None)
    BY DEF Listed
  <2>4. \A i \in DOMAIN imports[n] : imports[n][i] \in Scans
    BY <1>1 DEF PackageTypes
  <2> QED
    BY <1>3, <2>1, <2>2, <2>3, <2>4 DEF Lined
<1>11. PackagesListed'
  <2> SUFFICES ASSUME NEW t \in Scans, NEW n \in Names \ Disabled, Installing(scans'[t], lDisk'[n])
               PROVE  Promised(scans[t], n)'
    BY DEF PackagesListed
  <2>1. lDisk'[n] = lDisk[n] /\ scans' = scans /\ lConnectors' = lConnectors
    BY <1>3, <1>5 DEF Installing
  <2>2. Promised(scans[t], n)
    BY <1>1, <2>1 DEF PackagesListed
  <2> QED
    BY <2>1, <2>2 DEF Promised
<1> QED
  BY <1>6, <1>9, <1>10, <1>11 DEF PackagesIInv

LEMMA CliCopiesStays ==
    ASSUME PackagesIInv, Packages!CliCopies
    PROVE  PackagesIInv'
<1>1. PackageTypes /\ PackageNumbers /\ PackageQueues /\ PackagesListed
  BY DEF PackagesIInv
<1>2. PICK d \in Placements : d = copying /\ d # None
  BY <1>1 DEF Packages!CliCopies, PackageTypes
<1>3. PICK m \in Names : m = d.b.name
  BY PackagesAssumption DEF Placements, Manifests
<1>4. /\ copying # None /\ copying' = None /\ lDisk' = [lDisk EXCEPT ![m] = d]
      /\ UNCHANGED <<lConnectors, modules, scans, imports, placed>>
  BY <1>2, <1>3 DEF Packages!CliCopies
<1>5. lDisk' \in [Names -> Placements \cup {None}] /\ \A n \in Names : lDisk'[n] = IF n = m THEN d ELSE lDisk[n]
  BY <1>1, <1>4 DEF PackageTypes
<1>6. PackageTypes'
  BY <1>1, <1>4, <1>5 DEF PackageTypes
<1>7. /\ d.n \in 1 .. placed
      /\ \A n \in Names \cup Builtins : lConnectors[n] # None => lConnectors[n].placed # d.n
      /\ \A t \in Scans : scans[t] # None => scans[t].by # d.n /\ (scans[t].read # None => scans[t].read.n # d.n)
  BY <1>1, <1>2 DEF PackageNumbers
<1>8. \A t \in Scans : scans[t] # None => ~Fresh(scans[t], d) /\ ~Installing(scans[t], d)
  BY <1>7 DEF Fresh, Installing
<1>9. PackageNumbers'
  <2>1. \A n \in Names : lDisk'[n] # None => lDisk'[n].n \in 1 .. placed
    BY <1>1, <1>5, <1>7 DEF PackageNumbers
  <2>2. \A t \in Scans, n \in Names : Waits(scans[t], n) /\ Fresh(scans[t], lDisk'[n]) => scans[t].read = lDisk'[n]
    BY <1>1, <1>5, <1>8 DEF PackageNumbers, Waits
  <2> QED
    BY <1>1, <1>4, <2>1, <2>2 DEF PackageNumbers
<1>10. PackageQueues'
  <2> SUFFICES ASSUME NEW n \in Names
               PROVE  Lined(imports[n], n)'
    BY DEF PackageQueues
  <2>1. Lined(imports[n], n)
    BY <1>1 DEF PackageQueues
  <2>2. CASE n # m
    BY <1>4, <1>5, <2>1, <2>2 DEF Lined
  <2>3. CASE n = m
    <3>1. \A i \in DOMAIN imports[n] : imports[n][i] \in Scans
      BY <1>1 DEF PackageTypes
    <3>2. \A i \in DOMAIN imports[n] : ~Fresh(scans[imports[n][i]], d)
      BY <1>8, <2>1, <3>1 DEF Lined, Waits
    <3>3. ~Listed(lConnectors[n], d)
      BY <1>7 DEF Listed
    <3>4. lDisk'[n] = d
      BY <1>5, <2>3
    <3> QED
      BY <1>4, <2>1, <3>2, <3>3, <3>4 DEF Lined
  <2> QED
    BY <2>2, <2>3
<1>11. PackagesListed'
  <2> SUFFICES ASSUME NEW t \in Scans, NEW n \in Names \ Disabled, Installing(scans'[t], lDisk'[n])
               PROVE  Promised(scans[t], n)'
    BY DEF PackagesListed
  <2>1. scans' = scans /\ lConnectors' = lConnectors
    BY <1>4
  <2>2. lDisk'[n] = lDisk[n]
    BY <1>5, <1>8, <2>1 DEF Installing
  <2>3. Promised(scans[t], n)
    BY <1>1, <2>1, <2>2 DEF PackagesListed
  <2> QED
    BY <2>1, <2>2, <2>3 DEF Promised
<1> QED
  BY <1>6, <1>9, <1>10, <1>11 DEF PackagesIInv

\* The process as it starts: nothing waits, and only the connectors of the image are there.
LEMMA StartingHolds ==
    ASSUME PackageTypes', imports' = [n \in Names |-> <<>>],
           \A n \in Names \cup Builtins : lConnectors'[n] # None => lConnectors'[n].placed = 0,
           \A s \in Scans : scans'[s] # None => scans'[s].by = 0 /\ scans'[s].read = None,
           \A n \in Names : lDisk'[n] # None => lDisk'[n].n \in 1 .. placed',
           copying' # None => /\ copying'.n \in 1 .. placed'
                              /\ \A n \in Names : lDisk'[n] # None => lDisk'[n].n # copying'.n
    PROVE  PackagesIInv'
<1>1. placed' \in Nat
  BY DEF PackageTypes
<1>2. \A s \in Scans : scans'[s] # None => \A n \in Names : ~Fresh(scans'[s], lDisk'[n]) /\ ~Installing(scans'[s], lDisk'[n])
  BY DEF Fresh, Installing
<1>3. PackageNumbers'
  <2>1. \A n \in Names \cup Builtins : lConnectors'[n] # None => lConnectors'[n].placed <= placed'
    BY <1>1
  <2>2. \A s \in Scans : scans'[s] # None =>
           /\ scans'[s].by <= placed'
           /\ scans'[s].read # None => scans'[s].read.n <= placed'
    BY <1>1
  <2>3. copying' # None => 0 # copying'.n
    BY <1>1
  <2>4. \A s \in Scans, n \in Names : Waits(scans'[s], n) /\ Fresh(scans'[s], lDisk'[n]) => scans'[s].read = lDisk'[n]
    BY <1>2 DEF Waits
  <2> QED
    BY <2>1, <2>2, <2>3, <2>4 DEF PackageNumbers
<1>4. PackageQueues'
  <2> SUFFICES ASSUME NEW n \in Names
               PROVE  Lined(imports[n], n)'
    BY DEF PackageQueues
  <2>1. imports'[n] = <<>> /\ DOMAIN imports'[n] = {}
    OBVIOUS
  <2> QED
    BY <2>1 DEF Lined
<1>5. PackagesListed'
  BY <1>2 DEF PackagesListed, Installing
<1> QED
  BY <1>3, <1>4, <1>5 DEF PackagesIInv

LEMMA BootsStays ==
    ASSUME PackagesIInv, NEW d \in [Names -> Placements \cup {None}],
           \A n \in Names : d[n] \in {lDisk[n], None},
           Packages!Boots(d), UNCHANGED <<copying, placed>>
    PROVE  PackagesIInv'
<1>1. PackageTypes /\ PackageNumbers
  BY DEF PackagesIInv
<1>2. lDisk' = d /\ modules' = [n \in Names |-> None] /\ imports' = [n \in Names |-> <<>>]
  BY SameNames DEF Packages!Boots
<1>3. /\ lConnectors' \in [Names \cup Builtins -> Listings \cup {None}]
      /\ \A n \in Names \cup Builtins : lConnectors'[n] # None => lConnectors'[n].placed = 0
  <2> DEFINE none == [n \in Names \cup Builtins |-> None]
  <2>1. lConnectors' = Packages!WithBuiltins(none)
    BY SameNames DEF Packages!Boots
  <2>2. none \in [Names \cup Builtins -> Listings \cup {None}] /\ \A n \in Names \cup Builtins : none[n] = None
    OBVIOUS
  <2> HIDE DEF none
  <2> QED
    BY <2>1, <2>2, BuiltinFacts
<1>4. PICK first \in Scans : scans' = [s \in Scans |-> IF s = first THEN Packages!Scan(d, 0) ELSE None]
  BY DEF Packages!Boots
<1>5. PICK new \in Loadings : new = Packages!Scan(d, 0) /\ new.read = None /\ new.by = 0 /\ new.at \in {"next", "failed"}
  BY ScanBegins
<1>6. /\ scans' \in [Scans -> Loadings \cup {None}]
      /\ \A s \in Scans : scans'[s] # None => scans'[s].by = 0 /\ scans'[s].read = None /\ scans'[s].at # "import"
  BY <1>4, <1>5
<1>7. PackageTypes'
  <2>1. modules' \in [Names -> Nat \cup {None}] /\ imports' \in [Names -> Seq(Scans)]
    BY <1>2
  <2> QED
    BY <1>1, <1>2, <1>3, <1>6, <2>1 DEF PackageTypes
<1>8. /\ \A n \in Names : lDisk'[n] # None => lDisk'[n].n \in 1 .. placed'
      /\ copying' # None => /\ copying'.n \in 1 .. placed'
                            /\ \A n \in Names : lDisk'[n] # None => lDisk'[n].n # copying'.n
  BY <1>1, <1>2 DEF PackageNumbers
<1> QED
  BY <1>2, <1>3, <1>6, <1>7, <1>8, StartingHolds, Zenon

LEMMA PackagesBegin == Packages!Init => PackagesIInv
<1> SUFFICES ASSUME Packages!Init
             PROVE  PackagesIInv
  OBVIOUS
<1>1. /\ lDisk = [n \in Names |-> None] /\ modules = [n \in Names |-> None] /\ imports = [n \in Names |-> <<>>]
      /\ scans = [s \in Scans |-> None] /\ copying = None /\ placed = 0
  BY SameNames DEF Packages!Init
<1>2. /\ lConnectors \in [Names \cup Builtins -> Listings \cup {None}]
      /\ \A n \in Names \cup Builtins : lConnectors[n] # None => lConnectors[n].placed = 0
  <2> DEFINE none == [n \in Names \cup Builtins |-> None]
  <2>1. lConnectors = Packages!WithBuiltins(none)
    BY SameNames DEF Packages!Init
  <2>2. none \in [Names \cup Builtins -> Listings \cup {None}] /\ \A n \in Names \cup Builtins : none[n] = None
    OBVIOUS
  <2> HIDE DEF none
  <2> QED
    BY <2>1, <2>2, BuiltinFacts
<1>3. PackageTypes
  <2>1. modules \in [Names -> Nat \cup {None}] /\ imports \in [Names -> Seq(Scans)]
    BY <1>1
  <2> QED
    BY <1>1, <1>2, <2>1 DEF PackageTypes
<1>4. PackageNumbers
  BY <1>1, <1>2 DEF PackageNumbers, Waits
<1>5. PackageQueues
  <2> SUFFICES ASSUME NEW n \in Names
               PROVE  Lined(imports[n], n)
    BY DEF PackageQueues
  <2>1. DOMAIN imports[n] = {}
    BY <1>1
  <2> QED
    BY <2>1 DEF Lined
<1>6. PackagesListed
  BY <1>1 DEF PackagesListed, Installing
<1> QED
  BY <1>3, <1>4, <1>5, <1>6 DEF PackagesIInv

LEMMA PackagesRest == PackagesIInv /\ UNCHANGED plugins => PackagesIInv'
<1> SUFFICES ASSUME PackagesIInv, UNCHANGED plugins
             PROVE  PackagesIInv'
  OBVIOUS
<1>1. UNCHANGED <<lDisk, lConnectors, modules, scans, imports, copying, placed>>
  BY DEF plugins
<1>2. PackageTypes' /\ PackageNumbers'
  BY <1>1 DEF PackagesIInv, PackageTypes, PackageNumbers
<1>3. PackageQueues'
  BY <1>1 DEF PackagesIInv, PackageQueues, Lined
<1>4. PackagesListed'
  BY <1>1 DEF PackagesIInv, PackagesListed, Promised
<1> QED
  BY <1>2, <1>3, <1>4 DEF PackagesIInv

LEMMA PackagesStep == PackagesIInv /\ Packages!Next => PackagesIInv'
<1> SUFFICES ASSUME PackagesIInv, Packages!Next
             PROVE  PackagesIInv'
  OBVIOUS
<1>1. ASSUME NEW s \in Scans, \/ Packages!Consider(s) \/ Packages!Imported(s) \/ Packages!Ends(s)
                              \/ Packages!Serves(s) \/ Packages!Respond(s)
                              \/ \E b \in Bundles : Packages!Install(s, b)
      PROVE  PackagesIInv'
  BY <1>1, ConsiderStays, ImportedStays, EndsStays, AnswerStays, InstallStays
<1>2. ASSUME NEW b \in Bundles, Packages!CliRemoves(b)
      PROVE  PackagesIInv'
  BY <1>2, CliRemovesStays
<1>3. ASSUME NEW b \in Bundles, Packages!KilledInInstall(b)
      PROVE  PackagesIInv'
  <2> DEFINE d == [lDisk EXCEPT ![b.name] = None]
  <2>1. lDisk \in [Names -> Placements \cup {None}]
    BY DEF PackagesIInv, PackageTypes
  <2>2. d \in [Names -> Placements \cup {None}] /\ \A n \in Names : d[n] \in {lDisk[n], None}
    BY <2>1
  <2>3. Packages!Boots(d) /\ UNCHANGED <<copying, placed>>
    BY <1>3 DEF Packages!KilledInInstall
  <2> HIDE DEF d
  <2>4. PICK e \in [Names -> Placements \cup {None}] : e = d
    BY <2>2
  <2> QED
    BY <2>2, <2>3, <2>4, BootsStays
<1>4. ASSUME Packages!Restart
      PROVE  PackagesIInv'
  <2>1. PICK d \in [Names -> Placements \cup {None}] : d = lDisk
    BY DEF PackagesIInv, PackageTypes
  <2>2. Packages!Boots(d) /\ UNCHANGED <<copying, placed>>
    BY <1>4, <2>1 DEF Packages!Restart
  <2> QED
    BY <2>1, <2>2, BootsStays
<1> QED
  BY <1>1, <1>2, <1>3, <1>4, CliCopiesStays DEF Packages!Next

(* A package an install placed is in the registry when the scan of the install *)
(* ends, for any number of installs, overlapping scans, copies of the command  *)
(* line and restarts: the scan registers it itself, or one before it in the    *)
(* line for the module has read the same package (connectors/loader.ts).       *)
THEOREM InstallsAreListed == Joint => []InstalledIsListed
<1> DEFINE Inv == which = "plugins" => PackagesIInv
<1>1. JointInit => Inv
  BY PackagesBegin DEF JointInit
<1>2. Inv /\ [JointNext]_JointVars => Inv'
  <2>1. ASSUME Inv, JointNext
        PROVE  Inv'
    BY <2>1, PackagesStep, PackagesRest DEF JointNext
  <2>2. ASSUME Inv, UNCHANGED JointVars
        PROVE  Inv'
    BY <2>2, PackagesRest DEF JointVars
  <2> QED
    BY <2>1, <2>2
<1>3. PackagesIInv => Packages!InstalledIsListed
  <2> SUFFICES ASSUME PackagesIInv,
                      NEW s \in Scans, scans[s] # None, scans[s].by # 0, scans[s].at = "done",
                      NEW n \in Names \ Disabled,
                      lDisk[n] # None, lDisk[n].n = scans[s].by, Packages!Loads(lDisk[n].b), lDisk[n].b.factory,
                      n \in Builtins => ~RequireSignature /\ \A t \in Scans : ~Packages!Runs(t)
               PROVE  lConnectors[n] # None /\ lConnectors[n].placed = lDisk[n].n
    BY SameNames DEF Packages!InstalledIsListed
  <2>1. Promised(scans[s], n)
    BY DEF PackagesIInv, PackagesListed, Installing
  <2>2. ~Pending(scans[s], lDisk[n], n)
    BY DEF Pending
  <2>3. \A t \in Scans : Pending(scans[t], lDisk[n], n) => Packages!Runs(t)
    BY DEF Pending, Packages!Runs
  <2> QED
    BY <2>1, <2>2, <2>3 DEF Promised, Listed
<1>4. Inv => InstalledIsListed
  BY <1>3 DEF InstalledIsListed
<1> QED
  BY <1>1, <1>2, <1>4, PTL DEF Joint
=============================================================================
