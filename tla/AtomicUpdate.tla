---------------------------- MODULE AtomicUpdate ----------------------------
(***************************************************************************)
(* What a self-update promises, with no download, copy, rename or crash in *)
(* sight: at every moment there is exactly one complete version to run, an *)
(* update replaces it in one step by the build of the manifest it follows, *)
(* and the version before may be kept and put back.                        *)
(***************************************************************************)
EXTENDS Naturals

CONSTANT Versions

VARIABLES
    installed,  \* the version that is there to be run
    previous,   \* the version kept for a rollback, 0 if there is none
    order,      \* the manifest to follow: the version it names and its build
    running,    \* the version of the daemon, or of its last run
    up          \* the daemon is running

vars == <<installed, previous, order, running, up>>

Init ==
    /\ installed = 1 /\ previous = 0 /\ running = 1 /\ up = TRUE
    /\ order = [version |-> 1, build |-> 1]

\* The daemon takes up a manifest, if it names a newer version than its own.
Order ==
    /\ up
    /\ order' \in [version : {v \in Versions : v > running}, build : Versions]
    /\ UNCHANGED <<installed, previous, running, up>>

\* Of two updates without a restart in between the second may install the older version: only
\* that of the daemon counts.
Replace ==
    /\ up /\ order.version > running
    /\ installed' = order.build
    /\ UNCHANGED <<previous, order, running, up>>

\* The installed version is also the one to go back to, and back it goes.
Keep ==
    /\ up
    /\ previous' = installed
    /\ UNCHANGED <<installed, order, running, up>>
PutBack ==
    /\ up /\ previous # 0
    /\ installed' = previous /\ previous' = 0
    /\ UNCHANGED <<order, running, up>>

Stop  == up /\ up' = FALSE /\ UNCHANGED <<installed, previous, order, running>>
Start == ~up /\ up' = TRUE /\ running' = installed /\ UNCHANGED <<installed, previous, order>>

Next == Order \/ Replace \/ Keep \/ PutBack \/ Stop \/ Start

Spec == Init /\ [][Next]_vars
=============================================================================
