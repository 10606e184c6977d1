----------------------------- MODULE Lifecycle -----------------------------
(***************************************************************************)
(* The life of the server process as util/shutdown.ts drives it, for the   *)
(* components that register an onShutdown hook: up, draining (no new       *)
(* connection is accepted, requests in flight may finish), flushing (every *)
(* hook runs concurrently), down.  A kill, or a second signal, ends the    *)
(* process from any phase; a new process may then start.                   *)
(***************************************************************************)
EXTENDS Naturals

CONSTANT MaxExits       \* bound of the model: how many processes may end

ASSUME LifecycleAssumption == MaxExits \in Nat

VARIABLES phase, exits

lifeVars == <<phase, exits>>

Phases == {"up", "draining", "flushing", "down"}

LifeTypeOK == phase \in Phases /\ exits \in 0 .. MaxExits

LifeInit == phase = "up" /\ exits = 0

Running == phase # "down"

----------------------------------------------------------------------------
\* The first SIGTERM or SIGINT: readiness flips and the listener closes.
Signal ==
    /\ phase = "up" /\ exits < MaxExits
    /\ phase' = "draining" /\ UNCHANGED exits

\* The drain ends when the last connection closes or after drainMs, whichever is
\* first; runShutdownHooks then calls every hook.
StartHooks ==
    /\ phase = "draining"
    /\ phase' = "flushing" /\ UNCHANGED exits

EndProcess ==
    /\ exits < MaxExits
    /\ phase' = "down" /\ exits' = exits + 1

\* Every hook settled: exit(0).
ExitSettled == phase = "flushing" /\ EndProcess

\* The hooks' timeout, a second signal (exit(1)), or a kill without any signal.
ExitUnsettled == Running /\ EndProcess

\* A new process starts; each component rebuilds its state from what it persisted.
Boot == phase = "down" /\ phase' = "up" /\ UNCHANGED exits
=============================================================================
