--------------------------- MODULE ProductCatalog ---------------------------
(***************************************************************************)
(* The product catalogue: ProductsStore and writeProductsFile of           *)
(* products/loader.ts under the handlers of /api/products in index.ts.     *)
(* Every request first reloads the file when its mtime passed the cursor;  *)
(* a change (POST, PUT, DELETE) is made in memory, written to one tmp path *)
(* the requests share, renamed over the file, and the cursor is pinned.    *)
(* Operators edit the same file.  A catalogue is known by the edit it      *)
(* descends from and the changes made to it since.  A stat and a read are  *)
(* a step of their own, before the one that uses what they found.          *)
(***************************************************************************)
EXTENDS Naturals, FiniteSets

CONSTANTS
    Slots,          \* bound of the model: requests in flight at a time
    Idle,
    None,           \* no tmp file; nothing that parses
    MaxGets, MaxChanges, MaxEdits, MaxFailures, MaxRestarts     \* bounds of the model

VARIABLES
    memory,         \* the catalogue in memory: [edit, changes]
    cursor,         \* lastMtimeMs
    file, tmp,      \* [mtime, kind, edit, changes]
    clock,          \* the last mtime given
    slot,           \* the request in flight in each slot
    count,          \* gets, changes, edits, failures and restarts so far
    quiet,          \* history: the newest edit made while no change was in flight and no reload
    acked,          \* history: changes answered and written, with the edit they are made to
    crowded, overlap    \* history: see the properties

disk == <<file, tmp, clock>>
history == <<quiet, acked, crowded, overlap>>
vars == <<memory, cursor, disk, slot, count, history>>

Catalogue(f) == [edit |-> f.edit, changes |-> f.changes]
Written(catalogue) ==
    [mtime |-> clock + 1, kind |-> "whole", edit |-> catalogue.edit, changes |-> catalogue.changes]
Torn == [mtime |-> clock + 1, kind |-> "torn", edit |-> 0, changes |-> {}]

At(s, step) == slot[s] # Idle /\ slot[s].step = step
Reloading(s) == slot[s] # Idle /\ slot[s].step \in {"stated", "read", "loaded"}
Changing(s) == slot[s] # Idle /\ slot[s].change # 0
Writing(s) == slot[s] # Idle /\ slot[s].step \in {"upserted", "opened", "written"}

Counted(what, max) == count[what] < max /\ count' = [count EXCEPT ![what] = @ + 1]

----------------------------------------------------------------------------
Init ==
    /\ memory = [edit |-> 0, changes |-> {}] /\ cursor = 0
    /\ file = [mtime |-> 0, kind |-> "whole", edit |-> 0, changes |-> {}]
    /\ tmp = None /\ clock = 0
    /\ slot = [s \in Slots |-> Idle]
    /\ count = [what \in {"get", "change", "edit", "failure", "restart"} |-> 0]
    /\ quiet = 0 /\ acked = {} /\ crowded = FALSE /\ overlap = FALSE

\* A request; change is 0 when it only reads or will be refused.
Begin(s, change) ==
    /\ slot[s] = Idle
    /\ slot' = [slot EXCEPT ![s] =
          [step |-> "stat", change |-> change, stamp |-> 0, next |-> None, at |-> "tmp",
           quiet |-> quiet, edits |-> IF file.kind = "whole" THEN file.edit ELSE 0]]
    /\ crowded' = (crowded \/ (change # 0 /\ \E r \in Slots : Changing(r)))
    /\ UNCHANGED <<memory, cursor, disk, quiet, acked, overlap>>

Get(s) == Counted("get", MaxGets) /\ Begin(s, 0)

Change(s) == Counted("change", MaxChanges) /\ Begin(s, count.change + 1)

\* A slip: the snapshot to write is taken before the change is made.
ServeEarlierSnapshot(s, catalogue) ==
    IF slot[s].change = 0
    THEN /\ memory' = catalogue
         /\ slot' = [slot EXCEPT ![s] = Idle]
         /\ UNCHANGED crowded
    ELSE /\ memory' = [catalogue EXCEPT !.changes = @ \cup {slot[s].change}]
         /\ slot' = [slot EXCEPT ![s].step = "upserted", ![s].next = catalogue]
         /\ crowded' = (crowded \/ \E r \in Slots \ {s} : Reloading(r))

\* After the reload: a read answers, a change is made in memory and its snapshot kept.
Serve(s, catalogue) ==
    IF slot[s].change = 0
    THEN /\ memory' = catalogue
         /\ slot' = [slot EXCEPT ![s] = Idle]
         /\ UNCHANGED crowded
    ELSE /\ memory' = [catalogue EXCEPT !.changes = @ \cup {slot[s].change}]
         /\ slot' = [slot EXCEPT ![s].step = "upserted", ![s].next = memory']
         /\ crowded' = (crowded \/ \E r \in Slots \ {s} : Reloading(r))

\* What a stat finds of the file: 0 when it is gone.
Mtime == IF file.kind = "gone" THEN 0 ELSE file.mtime

\* maybeReload: the stat ...
Stat(s) ==
    /\ At(s, "stat")
    /\ slot' = [slot EXCEPT ![s].step = "stated", ![s].stamp = Mtime]
    /\ UNCHANGED <<memory, cursor, disk, count, history>>

\* A slip: a change does not reload first.
DecideForReads(s) ==
    /\ At(s, "stated")
    /\ IF slot[s].stamp > cursor /\ ~Changing(s)
       THEN /\ slot' = [slot EXCEPT ![s].step = "read"]
            /\ UNCHANGED <<memory, crowded>>
       ELSE Serve(s, memory)
    /\ UNCHANGED <<cursor, disk, count, quiet, acked, overlap>>

\* ... held against the cursor as it is by then ...
Decide(s) ==
    /\ At(s, "stated")
    /\ IF slot[s].stamp > cursor
       THEN /\ slot' = [slot EXCEPT ![s].step = "read"]
            /\ UNCHANGED <<memory, crowded>>
       ELSE Serve(s, memory)
    /\ UNCHANGED <<cursor, disk, count, quiet, acked, overlap>>

\* What readProductsFile makes of the file; a file gone by now is an empty catalogue.
Parsed ==
    CASE file.kind = "whole" -> Catalogue(file)
      [] file.kind = "gone" -> [edit |-> file.edit, changes |-> {}]
      [] OTHER -> None

\* ... the read ...
Read(s) ==
    /\ At(s, "read")
    /\ slot' = [slot EXCEPT ![s].step = "loaded", ![s].next = Parsed]
    /\ UNCHANGED <<memory, cursor, disk, count, history>>

\* ... and what it found put in place, however old it is by then, with the cursor of the stat.
Reload(s) ==
    /\ At(s, "loaded")
    /\ Serve(s, IF slot[s].next = None THEN memory ELSE slot[s].next)
    /\ cursor' = slot[s].stamp
    /\ UNCHANGED <<disk, count, quiet, acked, overlap>>

----------------------------------------------------------------------------
\* writeFile opens and truncates the tmp file.
Open(s) ==
    /\ At(s, "upserted")
    /\ tmp' = Torn /\ clock' = clock + 1
    /\ slot' = [slot EXCEPT ![s].step = "opened", ![s].at = "tmp"]
    /\ overlap' = (overlap \/ \E r \in Slots \ {s} : Writing(r))
    /\ UNCHANGED <<memory, cursor, file, count, quiet, acked, crowded>>

\* ... and writes it, wherever another request's rename has moved it; over what another
\* request wrote meanwhile, the two may be mixed.
Write(s, mixed) ==
    /\ At(s, "opened")
    /\ clock' = clock + 1
    /\ LET text == IF mixed THEN Torn ELSE Written(slot[s].next)
       IN  \/ /\ slot[s].at = "tmp" /\ (mixed => tmp.kind = "whole")
              /\ tmp' = text /\ UNCHANGED file
           \/ /\ slot[s].at = "path" /\ (mixed => file.kind = "whole")
              /\ file' = text /\ UNCHANGED tmp
           \/ slot[s].at = "lost" /\ ~mixed /\ UNCHANGED <<file, tmp>>
    /\ slot' = [slot EXCEPT ![s].step = "written"]
    /\ UNCHANGED <<memory, cursor, count, history>>

\* What a rename over the file makes of the files other requests have open.
Moved(r) == IF slot[r].at = "tmp" THEN "path" ELSE "lost"

Rename(s) ==
    /\ At(s, "written") /\ tmp # None
    /\ file' = tmp /\ tmp' = None
    /\ slot' = [r \in Slots |-> IF r = s THEN [slot[s] EXCEPT !.step = "renamed"]
                                ELSE IF At(r, "opened") THEN [slot[r] EXCEPT !.at = Moved(r)]
                                ELSE slot[r]]
    /\ UNCHANGED <<memory, cursor, clock, count, history>>

\* pinMtimeAfterWrite: a second stat ...
StatAgain(s) ==
    /\ At(s, "renamed")
    /\ slot' = [slot EXCEPT ![s].step = "pinned", ![s].stamp = Mtime]
    /\ UNCHANGED <<memory, cursor, disk, count, history>>

\* ... puts the cursor past this write, and the request is answered.
Pin(s) ==
    /\ At(s, "pinned")
    /\ cursor' = IF slot[s].stamp = 0 THEN cursor ELSE slot[s].stamp
    /\ slot' = [slot EXCEPT ![s] = Idle]
    /\ acked' = acked \cup {[change |-> slot[s].change, edit |-> slot[s].next.edit]}
    /\ UNCHANGED <<memory, disk, count, quiet, crowded, overlap>>

\* An error of the write, or of the rename of a tmp file that is gone, is logged and the
\* request is answered all the same.
PersistFails(s) ==
    /\ \/ At(s, "written") /\ tmp = None /\ UNCHANGED count
       \/ At(s, "opened") /\ Counted("failure", MaxFailures)
    /\ slot' = [slot EXCEPT ![s] = Idle]
    /\ UNCHANGED <<memory, cursor, disk, history>>

----------------------------------------------------------------------------
\* What an edit makes of a request in flight.
Edited(s, kind) ==
    [slot[s] EXCEPT !.at = IF At(s, "opened") /\ @ = "path" THEN "lost" ELSE @,
                    !.quiet = IF kind = "whole" THEN @ ELSE 0,
                    !.edits = IF kind = "whole" THEN @ ELSE 0]

\* An operator replaces or removes the file.
Edit(kind) ==
    /\ Counted("edit", MaxEdits)
    /\ clock' = clock + 1
    /\ file' = [mtime |-> clock + 1, kind |-> kind, edit |-> count.edit + 1, changes |-> {}]
    /\ quiet' = IF kind # "whole" THEN 0
                ELSE IF \E s \in Slots : Changing(s) \/ Reloading(s) THEN quiet
                ELSE count.edit + 1
    /\ crowded' = (crowded \/ \E s \in Slots : Changing(s))
    /\ slot' = [s \in Slots |-> IF slot[s] = Idle THEN Idle ELSE Edited(s, kind)]
    /\ UNCHANGED <<memory, cursor, tmp, acked, overlap>>

\* The process ends anywhere and another one loads the file; it does not start on a file
\* it cannot parse.
Restart ==
    /\ Counted("restart", MaxRestarts)
    /\ file.kind \in {"whole", "gone"}
    /\ memory' = Parsed
    /\ cursor' = IF file.kind = "gone" THEN 0 ELSE file.mtime
    /\ slot' = [s \in Slots |-> Idle]
    /\ UNCHANGED <<disk, history>>

Next ==
    \/ \E s \in Slots : Get(s) \/ Change(s) \/ Stat(s) \/ Decide(s) \/ Read(s) \/ Reload(s)
                        \/ Open(s) \/ (\E mixed \in BOOLEAN : Write(s, mixed)) \/ Rename(s)
                        \/ StatAgain(s) \/ Pin(s) \/ PersistFails(s)
    \/ \E kind \in {"whole", "broken", "gone"} : Edit(kind)
    \/ Restart

Spec == Init /\ [][Next]_vars

----------------------------------------------------------------------------
Stamps == 0 .. clock
Contents == [edit : 0 .. MaxEdits, changes : SUBSET (1 .. MaxChanges)]
Files == [mtime : Stamps, kind : {"whole", "broken", "gone", "torn"},
          edit : 0 .. MaxEdits, changes : SUBSET (1 .. MaxChanges)]
Requests == [step : {"stat", "stated", "read", "loaded",
                     "upserted", "opened", "written", "renamed", "pinned"},
             change : 0 .. MaxChanges, stamp : Stamps, next : Contents \cup {None},
             at : {"tmp", "path", "lost"}, quiet : 0 .. MaxEdits, edits : 0 .. MaxEdits]

(* Types; while a request writes to what it opened as the tmp file, that is *)
(* where it left it.                                                        *)
TypeOK ==
    /\ memory \in Contents /\ cursor \in Stamps
    /\ file \in Files /\ tmp \in Files \cup {None}
    /\ slot \in [Slots -> Requests \cup {Idle}]
    /\ quiet \in 0 .. MaxEdits
    /\ acked \subseteq [change : 1 .. MaxChanges, edit : 0 .. MaxEdits]
    /\ \A s \in Slots : At(s, "opened") /\ slot[s].at = "tmp" => tmp # None

Answered(s) == slot[s] # Idle /\ slot'[s] = Idle

(* An edit made while no change is in flight and no request is between its  *)
(* stat and its reload is in what every request that begins after it        *)
(* answers from, whatever requests then run beside it, and no change those  *)
(* make puts an older catalogue in its place.                               *)
QuietEditsVisible ==
    [][\A s \in Slots : Answered(s) => memory'.edit >= slot[s].quiet]_vars

(* Only two changes being written at once can leave half a catalogue in the *)
(* file; one alone never does, wherever the process ends.                   *)
TornOnlyByTwo == file.kind = "torn" => overlap

(* A change that was answered, made while no other change and no edit was   *)
(* in flight and no read was between its stat and its reload, is in memory  *)
(* and in the file until an edit replaces the catalogue, across reloads,    *)
(* failed writes and restarts.                                              *)
AckedStays ==
    ~crowded => \A a \in acked :
        /\ memory.edit = a.edit => a.change \in memory.changes
        /\ file.kind = "whole" /\ file.edit = a.edit => a.change \in file.changes

(* What index.ts says: an edit of the file is visible on the very next      *)
(* request.                                                                 *)
EditsVisible ==
    [][\A s \in Slots : Answered(s) => memory'.edit >= slot[s].edits]_vars
=============================================================================
