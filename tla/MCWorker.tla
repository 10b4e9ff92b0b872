------------------------------ MODULE MCWorker ------------------------------
(***************************************************************************)
(* Instances of Worker for TLC, and truncate_output over short outputs.    *)
(***************************************************************************)
EXTENDS Worker, TruncateOutput

CONSTANTS p1, p2

\* Every capacity from the least that is roomy to one that shows the longest outputs whole.
Capacities == {c \in 0..40 : Roomy(c)}
ASSUME TruncationIsRight ==
    \A out \in 0..25, err \in 0..25, capacity \in Capacities :
        WithinCapacity(out, err, capacity) /\ ShorterIsShown(out, err, capacity)
=============================================================================
