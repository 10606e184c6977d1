-------------------------------- MODULE Stores --------------------------------
(***************************************************************************)
(* What the process keeps in files and directories it writes itself:       *)
(* AuditLog, ProductCatalog, ScimStore (one replica), PluginLoader and     *)
(* Postmortems.  Each has a store of its own, so a behaviour is one of     *)
(* them, and leaves the others at rest.                                    *)
(***************************************************************************)
EXTENDS AuditLog

CONSTANTS
    Requesters, MaxGets, MaxEdits,                              \* ProductCatalog
    Backends, Replica, Pushers, UserNames, MaxPushes,           \* ScimStore
    Builtins, Directories, Bundles, Disabled, Verify,           \* PluginLoader
    RequireSignature, TrustRoot, Scans, MaxPlaced,
    Writers, Kinds, MaxReports,                                 \* Postmortems
    MaxChanges, MaxFailures, MaxRestarts, MaxCrashes,           \* bounds of several
    None, Rest

\* The directories the SCIM store may hold, and the requests it answers.
Accounts == [id : 1 .. MaxPushes, name : UserNames]
Teams == [id : 1 .. MaxPushes, object : 1 .. MaxPushes, members : SUBSET (1 .. MaxPushes)]
Rosters == [users : SUBSET Accounts, groups : SUBSET Teams, changes : SUBSET (1 .. MaxPushes)]
Pushes == [step : {"changed", "serialised", "opened", "written", "queued"}, on : {Replica},
           change : 1 .. MaxPushes, text : Rosters, at : {"tmp", "path", "lost"}]

\* The catalogue's file and the requests it answers.
Lists == [edit : 0 .. MaxEdits, changes : SUBSET (1 .. MaxChanges)]
Shelves == [mtime : Nat, kind : {"whole", "broken", "gone", "torn"},
            edit : 0 .. MaxEdits, changes : SUBSET (1 .. MaxChanges)]
Orders == [step : {"stat", "stated", "read", "loaded", "upserted", "opened", "written", "renamed", "pinned"},
           change : 0 .. MaxChanges, stamp : Nat, next : Lists \cup {None},
           at : {"tmp", "path", "lost"}, quiet : 0 .. MaxEdits, edits : 0 .. MaxEdits]

\* The packages, where they are placed, what is registered of them, and the scans.
Names == {Directories[i] : i \in DOMAIN Directories}
Manifests == [name : Names, v : Nat, manifest : {"ok", "none", "malformed", "other name"},
              signed : BOOLEAN, intact : BOOLEAN, entry : BOOLEAN, factory : BOOLEAN]
Placements == [b : Bundles, n : Nat]
Listings == [placed : Nat, v : Nat, code : Nat]
Loadings == [todo : Seq(Names), at : {"next", "import", "failed", "done"},
             read : Placements \cup {None}, by : Nat]

\* The lines of the reports' file, the requests that store one and those that delete one.
Lines == [id : 1 .. MaxReports, how : {"whole", "open", "broken"}]
Posts == [at : {"fetching"}, id : 1 .. MaxReports, left : SUBSET Kinds, got : SUBSET Kinds, had : SUBSET Kinds]
         \cup [at : {"pushed"}, id : 1 .. MaxReports] \cup [at : {"opened"}, id : 1 .. MaxReports, gen : Nat]
Deletions == [at : {"filtered"}, id : 1 .. MaxReports]
             \cup [at : {"written"}, id : 1 .. MaxReports, body : Seq(Lines)]

\* What stands for "nothing" is none of the values it is told from.
ASSUME CatalogueAssumption ==
    /\ MaxEdits \in Nat /\ MaxChanges \in Nat
    /\ Rest \notin Orders /\ None \notin Shelves /\ None \notin Lists
ASSUME ScimAssumption ==
    /\ Backends \subseteq {"file", "redis"} /\ MaxPushes \in Nat
    /\ Rest \notin Pushes /\ None \notin Rosters
ASSUME PackagesAssumption ==
    /\ Directories \in Seq(Names) /\ Bundles \subseteq Manifests
    /\ None \notin Nat /\ None \notin Placements /\ None \notin Listings /\ None \notin Loadings
ASSUME ReportsAssumption == MaxReports \in Nat

VARIABLES which,
          \* ProductCatalog
          pMemory, pCursor, pFile, pTmp, pClock, pSlot, pCount, pQuiet, pAcked, crowded, pOverlap,
          \* ScimStore
          backend, cMemory, stored, cTmp, queue, poisoned, cSlot, cCount, cAcked, late, cOverlap, emptied,
          \* PluginLoader
          lDisk, lConnectors, modules, scans, imports, copying, up, placed, lCrashes,
          \* Postmortems
          holds, live, gen, entries, report, post, del, mMade, mCrashes, mAcked, mDropped, gone, excused

products == <<pMemory, pCursor, pFile, pTmp, pClock, pSlot, pCount, pQuiet, pAcked, crowded, pOverlap>>
scim     == <<backend, cMemory, stored, cTmp, queue, poisoned, cSlot, cCount, cAcked, late, cOverlap, emptied>>
plugins  == <<lDisk, lConnectors, modules, scans, imports, copying, up, placed, lCrashes>>
postmortems == <<holds, live, gen, entries, report, post, del, mMade, mCrashes, mAcked, mDropped, gone, excused>>

-----------------------------------------------------------------------------
Catalogue == INSTANCE ProductCatalog WITH
  Slots <- Requesters, Idle <- Rest,
  memory <- pMemory, cursor <- pCursor, file <- pFile, tmp <- pTmp, clock <- pClock,
  slot <- pSlot, count <- pCount, quiet <- pQuiet, acked <- pAcked, overlap <- pOverlap

Directory == INSTANCE ScimStore WITH
  Replicas <- {Replica}, Slots <- Pushers, Names <- UserNames, Idle <- Rest, MaxChanges <- MaxPushes,
  memory <- cMemory, tmp <- cTmp, slot <- cSlot, count <- cCount, acked <- cAcked, overlap <- cOverlap

Packages == INSTANCE PluginLoader WITH
  Entries <- Directories, connectors <- lConnectors, crashes <- lCrashes, disk <- lDisk

Reports == INSTANCE Postmortems WITH
  crashes <- mCrashes, acked <- mAcked, made <- mMade, dropped <- mDropped

-----------------------------------------------------------------------------
JointVars == <<which, vars, products, scim, plugins, postmortems>>

JointInit ==
  /\ which \in {"audit", "products", "scim", "plugins", "postmortems"}
  /\ Init /\ Catalogue!Init /\ Packages!Init
  /\ Directory!Init /\ (which # "scim" => backend = "file")
  /\ Reports!Init /\ (which # "postmortems" => holds = {})

JointNext ==
  /\ UNCHANGED which
  /\ \/ which = "audit" /\ Next /\ UNCHANGED <<products, scim, plugins, postmortems>>
     \/ which = "products" /\ Catalogue!Next /\ UNCHANGED <<vars, scim, plugins, postmortems>>
     \/ which = "scim" /\ Directory!Next /\ UNCHANGED <<vars, products, plugins, postmortems>>
     \/ which = "plugins" /\ Packages!Next /\ UNCHANGED <<vars, products, scim, postmortems>>
     \/ which = "postmortems" /\ Reports!Next /\ UNCHANGED <<vars, products, scim, plugins>>

Joint == JointInit /\ [][JointNext]_JointVars

-----------------------------------------------------------------------------
(* The log's states are of their types; the receiver gets every entry, in      *)
(* order and again only after a failure, and a clean exit hands over what was  *)
(* recorded (audit/log.ts, audit/sinks/webhook.ts).                      *)
DeliveryHolds == which = "audit" => TypeOK /\ DeliveredInOrder /\ CleanExitHandsOver

(* A change of the catalogue, and a provisioning request, that were answered   *)
(* as done are in what the process serves and the next boot reads; half a file *)
(* is left only by two writes at once (products/loader.ts, scim/store.ts).     *)
AckedStays ==
  /\ which = "products" => Catalogue!TypeOK /\ Catalogue!AckedStays /\ Catalogue!TornOnlyByTwo
  /\ which = "scim" => Directory!TypeOK /\ Directory!AckedIsStored /\ Directory!TornOnlyByTwo

(* An operator's edit of the catalogue is seen by what begins after it, and    *)
(* survives the changes made beside it (products/loader.ts).                   *)
QuietEditsVisible == Catalogue!QuietEditsVisible

(* A user who was deleted is left in no group (scim/store.ts, scim/routes.ts). *)
NoMemberLeftBehind == which = "scim" => Directory!NoMemberLeftBehind

(* A package that an install placed and answers 200 for is listed              *)
(* (connectors/loader.ts).                                                     *)
InstalledIsListed == which = "plugins" => Packages!InstalledIsListed

(* A report answered 201 is kept and one deleted is gone, but for the two      *)
(* causes Postmortems names (postmortem/store.ts).                             *)
LossesHaveCauses == which = "postmortems" => Reports!LossesHaveCauses
=============================================================================
