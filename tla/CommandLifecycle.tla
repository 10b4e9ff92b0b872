-------------------------- MODULE CommandLifecycle --------------------------
(***************************************************************************)
(* What Run Command promises for each command, with no queue, no threads   *)
(* and no lost calls in sight: it is executed at most once, its status     *)
(* moves forward only, the final status follows the execution, and it is   *)
(* Cancelled only if somebody asked for that.                              *)
(***************************************************************************)
CONSTANT Commands

Terminal == {"Success", "Failed", "Cancelled"}

VARIABLES
    execution,  \* "waiting", "running" or "finished"
    status,     \* the document status the operator sees
    revoked     \* the commands somebody asked to cancel

vars == <<execution, status, revoked>>

Init ==
    /\ execution = [c \in Commands |-> "waiting"]
    /\ status = [c \in Commands |-> "none"]
    /\ revoked = {}

\* An operator asks for a command to be cancelled, or a shutdown for all of them.
Revoke(asked) ==
    /\ revoked' = revoked \cup asked
    /\ UNCHANGED <<execution, status>>

\* The agent has the command and will execute it.
Announce(c) ==
    /\ execution[c] = "waiting" /\ status[c] = "none"
    /\ status' = [status EXCEPT ![c] = "InProgress"]
    /\ UNCHANGED <<execution, revoked>>

\* The agent has the command and cannot execute it.
Reject(c) ==
    /\ execution[c] = "waiting" /\ status[c] = "none"
    /\ status' = [status EXCEPT ![c] = "Failed"]
    /\ UNCHANGED <<execution, revoked>>

Start(c) ==
    /\ execution[c] = "waiting" /\ status[c] \notin Terminal
    /\ execution' = [execution EXCEPT ![c] = "running"]
    /\ UNCHANGED <<status, revoked>>

Finish(c) ==
    /\ execution[c] = "running"
    /\ execution' = [execution EXCEPT ![c] = "finished"]
    /\ UNCHANGED <<status, revoked>>

Report(c) ==
    /\ execution[c] = "finished" /\ status[c] \notin Terminal
    /\ \E s \in Terminal :
        /\ s = "Cancelled" => c \in revoked
        /\ status' = [status EXCEPT ![c] = s]
    /\ UNCHANGED <<execution, revoked>>

Next ==
    \/ \E asked \in SUBSET Commands : Revoke(asked)
    \/ \E c \in Commands :
        Announce(c) \/ Reject(c) \/ Start(c) \/ Finish(c) \/ Report(c)

Spec == Init /\ [][Next]_vars
=============================================================================
