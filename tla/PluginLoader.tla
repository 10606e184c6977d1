----------------------------- MODULE PluginLoader -----------------------------
(***************************************************************************)
(* Connector packages: PluginLoader of connectors/loader.ts scans the      *)
(* plugins directory at boot and again after every install; the handlers   *)
(* of index.ts and the omcp command line put packages there.  Scans run    *)
(* concurrently: each is suspended at the import of every module.          *)
(***************************************************************************)
EXTENDS Naturals, FiniteSets, SequencesExt

CONSTANTS
    Builtins,       \* names of the connectors in the image
    Entries,        \* names of the directories under PLUGINS_DIR, as readdir orders them
    Bundles,        \* packages: name, v, manifest, signed, intact, entry, factory
    Disabled,       \* PLUGINS_DISABLED
    Verify, RequireSignature, TrustRoot,    \* the options; whether there is a trust root
    Scans, None,
    MaxPlaced, MaxCrashes   \* bounds of the model

VARIABLES
    disk,           \* directory -> the package and the number of its placement, or None
    connectors,     \* name -> what is registered: placement and version of the manifest, version of the code
    modules,        \* the import cache of the process: entry -> the version of its code
    scans,          \* scan -> a load() that runs or has ended, or None
    imports,        \* entry -> scans that wait for its module, in order
    copying,        \* what the command line is copying, or None
    up,             \* the process serves; it is not up while its first scan runs
    placed, crashes

vars == <<disk, connectors, modules, scans, imports, copying, up, placed, crashes>>
Names == {Entries[i] : i \in DOMAIN Entries}

----------------------------------------------------------------------------
\* verifyManifestSignature and verifyIntegrity.
Trusted(b) == b.signed /\ b.intact

\* gateFailure: a manifest that does not parse, fits no schema or names another plugin
\* fails the gate; with verification on, so does what cannot be verified.
FailsGate(b) ==
    \/ b.manifest \in {"malformed", "other name"}
    \/ b.entry /\ Verify /\ (b.manifest = "none" \/ ~Trusted(b))

\* A package that a scan goes on with to the import.
Loads(b) == b.entry /\ ~FailsGate(b)

\* VERIFY_PLUGINS is implied by PLUGIN_REQUIRE_SIGNATURE; without a trust root nothing
\* of the directory is loaded.
ReadsDirectory == ~Verify \/ TrustRoot
FailsAtOnce == RequireSignature /\ ~TrustRoot

\* register: what is disabled is not.
Register(cs, name, entry) == IF name \in Disabled THEN cs ELSE [cs EXCEPT ![name] = entry]

\* loadBuiltins: every scan registers them again, over a package of that name.
WithBuiltins(cs) ==
    [n \in Names \cup Builtins |->
        IF n \in Builtins \ Disabled THEN [placed |-> 0, v |-> 0, code |-> 0] ELSE cs[n]]

\* What is wanted of a list, in its order.
Kept(s, wanted) == FoldLeft(LAMBDA kept, x : IF x \in wanted THEN Append(kept, x) ELSE kept, <<>>, s)

\* A load() as it begins: the names readdir returned.
Scan(dirs, by) ==
    [todo |-> IF ReadsDirectory THEN Kept(Entries, {n \in Names : dirs[n] # None}) ELSE <<>>,
     at |-> IF FailsAtOnce THEN "failed" ELSE "next", read |-> None, by |-> by]

----------------------------------------------------------------------------
Runs(s) == scans[s] # None /\ scans[s].at \in {"next", "import"}
Name(s) == Head(scans[s].todo)
Skip(s) == scans' = [scans EXCEPT ![s].todo = Tail(@), ![s].at = "next", ![s].read = None]

\* loadFilesystemPlugin up to the import: gone or incomplete packages are skipped, and in
\* strict mode a package that fails the gate ends the scan.
Consider(s) ==
    /\ Runs(s) /\ scans[s].at = "next" /\ scans[s].todo # <<>>
    /\ LET d == disk[Name(s)]
       IN  IF d = None THEN Skip(s) /\ UNCHANGED imports
           ELSE IF RequireSignature /\ FailsGate(d.b)
                THEN scans' = [scans EXCEPT ![s].at = "failed"] /\ UNCHANGED imports
           ELSE IF ~Loads(d.b) THEN Skip(s) /\ UNCHANGED imports
           ELSE /\ scans' = [scans EXCEPT ![s].at = "import", ![s].read = d]
                /\ imports' = [imports EXCEPT ![Name(s)] = Append(@, s)]
    /\ UNCHANGED <<disk, connectors, modules, copying, up, placed, crashes>>

\* The promise of an import: one per entry and process, and those who wait for it go on
\* in the order they came.
Imports(s) == imports[Name(s)] # <<>> /\ Head(imports[Name(s)]) = s

\* A slip: a package that is registered is left as it is.
TakesOnce(cs, name, entry) == IF name \in Disabled \/ cs[name] # None THEN cs ELSE [cs EXCEPT ![name] = entry]

\* What the import of a package registers.
Takes(cs, name, entry) == Register(cs, name, entry)

\* The package is imported and registered, when it has a factory.  The cache knows the
\* entry by its path, so the code stays that of the first import.
Imported(s) ==
    /\ Runs(s) /\ scans[s].at = "import" /\ Imports(s)
    /\ imports' = [imports EXCEPT ![Name(s)] = Tail(@)]
    /\ LET n    == Name(s)
           d    == scans[s].read
           code == IF modules[n] # None THEN modules[n] ELSE IF disk[n] # None THEN disk[n].b.v ELSE None
       IN  /\ modules' = [modules EXCEPT ![n] = code]
           /\ connectors' = IF code # None /\ d.b.factory
                            THEN Takes(connectors, n, [placed |-> d.n, v |-> d.b.v, code |-> code])
                            ELSE connectors
    /\ Skip(s)
    /\ UNCHANGED <<disk, copying, up, placed, crashes>>

\* The scan has gone through the directory.
Ends(s) ==
    /\ Runs(s) /\ scans[s].at = "next" /\ scans[s].todo = <<>>
    /\ scans' = [scans EXCEPT ![s].at = "done"]
    /\ UNCHANGED <<disk, connectors, modules, imports, copying, up, placed, crashes>>

----------------------------------------------------------------------------
\* main after the first scan; in strict mode a failed one ends the process.
Serves(s) ==
    /\ ~up /\ scans[s] # None /\ scans[s].by = 0 /\ scans[s].at \in {"done", "failed"}
    /\ up' = (scans[s].at = "done") /\ scans' = [scans EXCEPT ![s] = None]
    /\ UNCHANGED <<disk, connectors, modules, imports, copying, placed, crashes>>

\* installTarball and the scan of POST install or upload: verified always, placed over the
\* directory, then scanned; up to the first await the process does nothing else.
Install(s, b) ==
    /\ up /\ TrustRoot /\ scans[s] = None /\ placed < MaxPlaced
    /\ b.manifest # "none" /\ b.manifest # "malformed" /\ Trusted(b)
    /\ placed' = placed + 1
    /\ disk' = [disk EXCEPT ![b.name] = [b |-> b, n |-> placed + 1]]
    /\ connectors' = WithBuiltins(connectors)
    /\ scans' = [scans EXCEPT ![s] = Scan(disk', placed + 1)]
    /\ UNCHANGED <<modules, imports, copying, up, crashes>>

\* The response: 200, or 400 when the scan failed in strict mode.
Respond(s) ==
    /\ up /\ scans[s] # None /\ scans[s].by # 0 /\ scans[s].at \in {"done", "failed"}
    /\ scans' = [scans EXCEPT ![s] = None]
    /\ UNCHANGED <<disk, connectors, modules, imports, copying, up, placed, crashes>>

\* omcp plugin install, another process: the directory is removed, then filled.
CliRemoves(b) ==
    /\ copying = None /\ placed < MaxPlaced /\ placed' = placed + 1
    /\ copying' = [b |-> b, n |-> placed + 1] /\ disk' = [disk EXCEPT ![b.name] = None]
    /\ UNCHANGED <<connectors, modules, scans, imports, up, crashes>>

CliCopies ==
    /\ copying # None /\ copying' = None
    /\ disk' = [disk EXCEPT ![copying.b.name] = copying]
    /\ UNCHANGED <<connectors, modules, scans, imports, up, placed, crashes>>

\* The process is started again, maybe in the middle of an install.
Boots(d) ==
    /\ disk' = d
    /\ connectors' = WithBuiltins([n \in Names \cup Builtins |-> None])
    /\ modules' = [n \in Names |-> None] /\ up' = FALSE
    /\ imports' = [n \in Names |-> <<>>]
    /\ \E first \in Scans : scans' = [s \in Scans |-> IF s = first THEN Scan(d, 0) ELSE None]

Restart ==
    /\ crashes < MaxCrashes /\ crashes' = crashes + 1
    /\ Boots(disk) /\ UNCHANGED <<copying, placed>>

\* Killed in installTarball between rmSync and the end of cpSync.
KilledInInstall(b) ==
    /\ up /\ TrustRoot /\ Trusted(b) /\ crashes < MaxCrashes /\ crashes' = crashes + 1
    /\ Boots([disk EXCEPT ![b.name] = None]) /\ UNCHANGED <<copying, placed>>

Init ==
    /\ disk = [n \in Names |-> None]
    /\ connectors = WithBuiltins([n \in Names \cup Builtins |-> None])
    /\ modules = [n \in Names |-> None] /\ up = TRUE
    /\ imports = [n \in Names |-> <<>>] /\ scans = [s \in Scans |-> None]
    /\ copying = None /\ placed = 0 /\ crashes = 0

Next ==
    \/ \E s \in Scans :
          \/ Consider(s) \/ Imported(s) \/ Ends(s) \/ Serves(s) \/ Respond(s)
          \/ \E b \in Bundles : Install(s, b)
    \/ \E b \in Bundles : CliRemoves(b) \/ KilledInInstall(b)
    \/ CliCopies \/ Restart

Spec == Init /\ [][Next]_vars
----------------------------------------------------------------------------
(* An install that is about to be answered with 200 is listed: its name is   *)
(* registered with the manifest it placed, however many scans overlap,       *)
(* unless the package cannot be loaded, was replaced or was taken away.  A   *)
(* package that replaces a connector of the image is put back to that        *)
(* connector as another scan begins, so of it this is said only while none   *)
(* runs, and not in strict mode, where a scan may have failed before it came *)
(* to the package.                                                           *)
InstalledIsListed ==
    \A s \in Scans : scans[s] # None /\ scans[s].by # 0 /\ scans[s].at = "done" =>
        \A n \in Names \ Disabled :
            /\ disk[n] # None /\ disk[n].n = scans[s].by /\ Loads(disk[n].b) /\ disk[n].b.factory
            /\ n \in Builtins => ~RequireSignature /\ \A t \in Scans : ~Runs(t)
            => connectors[n] # None /\ connectors[n].placed = disk[n].n
=============================================================================
