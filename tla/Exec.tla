-------------------------------- MODULE Exec --------------------------------
(***************************************************************************)
(* exec::run_shell (src/exec.cpp): one call that runs a script under        *)
(* /bin/sh in a process group of its own, reads its output through two     *)
(* pipes, enforces a timeout and a cancel with SIGTERM and then SIGKILL,   *)
(* and reaps the shell.                                                    *)
(*                                                                         *)
(* The script is arbitrary: the shell and its descendants fork, write and  *)
(* redirect their output, ignore SIGTERM, leave the process group and exit *)
(* as they like.  What they write is counted, in units of which a read     *)
(* takes one or more.                                                      *)
(***************************************************************************)
EXTENDS ShellResult, Integers

CONSTANTS
    Shell,          \* the child run_shell forks: /bin/sh -c script
    Descendants,    \* the processes the script may start
    Faults,         \* the calls that may fail: "fork" (or pipe), "poll", "read", "wait"
    Capacity,       \* max_capture_bytes
    MaxOutput       \* bound: what the script writes in all

ASSUME ExecAssumption ==
    /\ Shell \notin Descendants
    /\ Faults \subseteq {"fork", "poll", "read", "wait"}
    /\ Capacity \in Nat /\ MaxOutput \in Nat

Procs == Descendants \cup {Shell}
Pipes == {"out", "err"}

VARIABLES
    life,       \* "none", "new" (forked, before setsid), "alive", "zombie" or "gone"
    holds,      \* the pipes each process can write to
    deaf,       \* the processes that ignore SIGTERM
    group,      \* the live processes in the process group of the shell
    code,       \* how the shell ended
    written,    \* what the script has written to each pipe
    pc,         \* run_shell: "start", "poll", "check", "reap" or "done"
    open,       \* out_open, err_open
    taken,      \* what run_shell has read from each pipe
    captured,   \* the size of stdout_data and stderr_data
    clipped,    \* out_clipped, err_clipped
    unread,     \* history: the pipes closed by a read that failed
    cancel,     \* Cancel::requested, set by another thread
    due,        \* the deadline of the current phase has passed
    term,       \* killed_term
    kill,       \* killed_kill
    result      \* Result

scriptVars == <<life, holds, deaf, group, code, written>>
outputVars == <<taken, captured, clipped, unread>>
agentVars  == <<pc, open, outputVars, term, kill, result>>
vars == <<scriptVars, agentVars, cancel, due>>

Running(p) == life[p] = "alive"
InGroup(p) == Running(p) /\ p \in group
Writers(f) == {p \in Procs : life[p] \in {"new", "alive"} /\ f \in holds[p]}

Init ==
    /\ life = [p \in Procs |-> "none"]
    /\ holds = [p \in Procs |-> {}]
    /\ deaf = {} /\ group = {} /\ code = "unset"
    /\ written = [f \in Pipes |-> 0]
    /\ taken = [f \in Pipes |-> 0] /\ captured = [f \in Pipes |-> 0]
    /\ clipped = {} /\ unread = {}
    /\ pc = "start" /\ open = {} /\ term = FALSE /\ kill = FALSE
    /\ result = [exit |-> "unset", timed_out |-> FALSE, cancelled |-> FALSE, error |-> FALSE]
    /\ cancel = FALSE /\ due = FALSE

-----------------------------------------------------------------------------
(* The script.                                                             *)

\* The child calls setsid: from here on the group exists.
Setsid ==
    /\ life[Shell] = "new"
    /\ life' = [life EXCEPT ![Shell] = "alive"]
    /\ group' = {Shell}
    /\ UNCHANGED <<holds, deaf, code, written, agentVars, cancel, due>>

\* A process starts another one, which inherits its descriptors, its group and its
\* signal dispositions.
Fork(p, q) ==
    /\ Running(p) /\ life[q] = "none"
    /\ life' = [life EXCEPT ![q] = "alive"]
    /\ holds' = [holds EXCEPT ![q] = holds[p]]
    /\ deaf' = IF p \in deaf THEN deaf \cup {q} ELSE deaf
    /\ group' = IF p \in group THEN group \cup {q} ELSE group
    /\ UNCHANGED <<code, written, agentVars, cancel, due>>

\* It writes to a pipe that run_shell still reads; any other write fails.
Write(p, f) ==
    /\ Running(p) /\ f \in holds[p] \cap open
    /\ pc \in {"poll", "check"} /\ written["out"] + written["err"] < MaxOutput
    /\ written' = [written EXCEPT ![f] = @ + 1]
    /\ UNCHANGED <<life, holds, deaf, group, code, agentVars, cancel, due>>

\* It closes or redirects a stream, it starts or stops to ignore SIGTERM (a child not yet
\* in execl ignores it too, by the handler of the agent), or it leaves the group.
Redirect(p, f) ==
    /\ Running(p) /\ f \in holds[p]
    /\ holds' = [holds EXCEPT ![p] = @ \ {f}]
    /\ UNCHANGED <<life, deaf, group, code, written, agentVars, cancel, due>>
IgnoreTerm(p) ==
    /\ Running(p)
    /\ deaf' \in {deaf \cup {p}, deaf \ {p}}
    /\ UNCHANGED <<life, holds, group, code, written, agentVars, cancel, due>>
LeaveGroup(p) ==
    /\ Running(p) /\ p \in group \ {Shell}
    /\ group' = group \ {p}
    /\ UNCHANGED <<life, holds, deaf, code, written, agentVars, cancel, due>>

\* What is left of p: only the shell is a child of the agent, and waits to be reaped.
Dead(p) == IF p = Shell THEN "zombie" ELSE "gone"

\* The processes of S end, and the kernel closes what they held.
Die(S) ==
    /\ life' = [p \in Procs |-> IF p \in S THEN Dead(p) ELSE life[p]]
    /\ holds' = [p \in Procs |-> IF p \in S THEN {} ELSE holds[p]]
    /\ deaf' = deaf \ S /\ group' = group \ S
    /\ UNCHANGED written

Exit(p) ==
    /\ Running(p)
    /\ Die({p})
    /\ IF p = Shell THEN code' \in {"zero", "nonzero"} ELSE UNCHANGED code
    /\ UNCHANGED <<agentVars, cancel, due>>

-----------------------------------------------------------------------------
(* Signals.                                                                *)

\* The processes of S are killed.
Slay(S) ==
    /\ Die(S)
    /\ code' = IF Shell \in S THEN "signal" ELSE code

\* kill(-pid, sig): every process of the group, if there is a group yet.
SignalTerm == Slay({p \in Procs : InGroup(p) /\ p \notin deaf})

\* Mutant: the signal goes to the shell alone.
SignalShell == Slay({p \in {Shell} : Running(p)})

SignalKill == Slay({p \in Procs : InGroup(p)})

-----------------------------------------------------------------------------
(* run_shell.                                                              *)

\* Pipes and fork.
Start ==
    /\ pc = "start"
    /\ life' = [life EXCEPT ![Shell] = "new"]
    /\ holds' = [holds EXCEPT ![Shell] = Pipes]
    /\ pc' = "poll" /\ open' = Pipes
    /\ UNCHANGED <<deaf, group, code, written, outputVars, term, kill, result, cancel, due>>

Failed == result' = [result EXCEPT !.error = TRUE]

StartFails ==
    /\ pc = "start" /\ "fork" \in Faults
    /\ pc' = "done" /\ Failed
    /\ UNCHANGED <<scriptVars, open, outputVars, term, kill, cancel, due>>

\* Mutant: only the read that fills the buffer is marked, not the ones after it.
ClipsOnce(f, got) == captured[f] < Capacity /\ captured[f] + got > Capacity

\* What was just read from f does not fit any more, and part of it is dropped.
Clips(f, got) == captured[f] + got > Capacity

\* One round of poll() and read().  A pipe that is empty and has no writers is closed; one
\* that cannot be read is closed as well, and no error is set; from any other run_shell
\* takes what is there, some of it, or, if the calls are interrupted, nothing.
Poll ==
    /\ pc = "poll"
    /\ \E ended \in SUBSET {f \in open : Writers(f) = {} /\ taken[f] = written[f]},
          failed \in SUBSET (IF "read" \in Faults THEN open ELSE {}),
          got \in [Pipes -> 0..MaxOutput] :
        /\ \A f \in Pipes : got[f] <= written[f] - taken[f]
        /\ \A f \in Pipes : got[f] # 0 => f \in open \ (ended \cup failed)
        /\ taken' = [f \in Pipes |-> taken[f] + got[f]]
        /\ captured' = [f \in Pipes |->
                IF Clips(f, got[f]) THEN Capacity ELSE captured[f] + got[f]]
        /\ clipped' = clipped \cup {f \in Pipes : got[f] # 0 /\ Clips(f, got[f])}
        /\ open' = open \ (ended \cup failed)
        /\ unread' = unread \cup failed
    /\ pc' = "check"
    /\ UNCHANGED <<scriptVars, term, kill, result, cancel, due>>

\* The deadline of the next phase is set.
EnterReap == pc' = "reap" /\ due' = FALSE

PollFails ==
    /\ pc = "poll" /\ "poll" \in Faults
    /\ Failed /\ EnterReap
    /\ UNCHANGED <<scriptVars, open, outputVars, term, kill, cancel>>

\* while (out_open || err_open)
NextRound == IF open = {} THEN EnterReap ELSE pc' = "poll" /\ UNCHANGED due

\* Mutant: a cancel that meets the timeout is reported as both.
TerminateBoth ==
    /\ pc = "check" /\ ~term
    /\ cancel \/ due
    /\ result' = [result EXCEPT !.cancelled = cancel, !.timed_out = due]
    /\ term' = TRUE
    /\ SignalTerm
    /\ pc' = (IF open = {} THEN "reap" ELSE "poll") /\ due' = FALSE
    /\ UNCHANGED <<open, outputVars, kill, cancel>>

\* The first cancel or the timeout: SIGTERM to the group, and the grace period starts.
Terminate ==
    /\ pc = "check" /\ ~term
    /\ cancel \/ due
    /\ result' = [result EXCEPT !.cancelled = cancel, !.timed_out = ~cancel]
    /\ term' = TRUE
    /\ SignalTerm
    /\ pc' = (IF open = {} THEN "reap" ELSE "poll") /\ due' = FALSE
    /\ UNCHANGED <<open, outputVars, kill, cancel>>

\* Mutant: the loop goes on after SIGKILL until the pipes are closed.
KillAndDrain ==
    /\ pc = "check" /\ term /\ ~kill /\ due
    /\ kill' = TRUE
    /\ SignalKill
    /\ NextRound
    /\ UNCHANGED <<open, outputVars, term, result, cancel>>

\* The grace period is over: SIGKILL, and no more draining.
Kill ==
    /\ pc = "check" /\ term /\ ~kill /\ due
    /\ kill' = TRUE
    /\ SignalKill
    /\ EnterReap
    /\ UNCHANGED <<open, outputVars, term, result, cancel>>

\* Nothing to enforce in this round.
Continue ==
    /\ pc = "check"
    /\ IF term THEN kill \/ ~due ELSE ~cancel /\ ~due
    /\ NextRound
    /\ UNCHANGED <<scriptVars, open, outputVars, term, kill, result, cancel>>

\* waitpid finds the shell.
Reap ==
    /\ pc = "reap" /\ life[Shell] = "zombie"
    /\ life' = [life EXCEPT ![Shell] = "gone"]
    /\ result' = [result EXCEPT !.exit = code]
    /\ pc' = "done"
    /\ UNCHANGED <<holds, deaf, group, code, written, open, outputVars, term, kill, cancel, due>>

\* Mutant: the wait is given up without a word.
GiveUpSilently ==
    /\ pc = "reap" /\ due /\ life[Shell] # "zombie"
    /\ SignalKill
    /\ pc' = "done"
    /\ UNCHANGED <<open, outputVars, term, kill, result, cancel, due>>

\* 10 s without the shell: SIGKILL, and the shell is left to the init process.
GiveUp ==
    /\ pc = "reap" /\ due /\ life[Shell] # "zombie"
    /\ SignalKill
    /\ pc' = "done" /\ Failed
    /\ UNCHANGED <<open, outputVars, term, kill, cancel, due>>

WaitFails ==
    /\ pc = "reap" /\ "wait" \in Faults
    /\ pc' = "done" /\ Failed
    /\ UNCHANGED <<scriptVars, open, outputVars, term, kill, cancel, due>>

-----------------------------------------------------------------------------
\* Another thread calls Cancel::request.
RequestCancel ==
    /\ ~cancel
    /\ cancel' = TRUE
    /\ UNCHANGED <<scriptVars, agentVars, due>>

\* The deadline of the current phase passes.  A grace period of 5 s and a wait of 10 s
\* are long enough for the child to reach setsid.
TimePasses ==
    /\ pc \in {"poll", "check", "reap"} /\ ~due
    /\ term \/ pc = "reap" => life[Shell] # "new"
    /\ due' = TRUE
    /\ UNCHANGED <<scriptVars, agentVars, cancel>>

Script ==
    \E p \in Procs :
        \/ \E q \in Descendants : Fork(p, q)
        \/ \E f \in Pipes : Write(p, f) \/ Redirect(p, f)
        \/ IgnoreTerm(p)
        \/ LeaveGroup(p)
        \/ Exit(p)

RunShell ==
    \/ Start \/ StartFails
    \/ Poll \/ PollFails
    \/ Terminate \/ Kill \/ Continue
    \/ Reap \/ GiveUp \/ WaitFails

Next == Setsid \/ Script \/ RunShell \/ RequestCancel \/ TimePasses

Spec == Init /\ [][Next]_vars

\* run_shell and its child are scheduled and time passes; the script owes nothing.
FairSpec == Spec /\ WF_vars(RunShell) /\ WF_vars(Setsid) /\ WF_vars(TimePasses)

-----------------------------------------------------------------------------
(* Properties.                                                             *)

\* The state is well formed, and what run_shell returns is a ShellResult: run_document
\* relies on a cancel and a timeout excluding each other, and on an exit code or an error.
TypeOK ==
    /\ life \in [Procs -> {"none", "new", "alive", "zombie", "gone"}]
    /\ holds \in [Procs -> SUBSET Pipes]
    /\ deaf \subseteq Procs /\ group \subseteq Procs
    /\ code \in Exits
    /\ pc \in {"start", "poll", "check", "reap", "done"}
    /\ open \subseteq Pipes /\ clipped \subseteq Pipes /\ unread \subseteq Pipes
    /\ written \in [Pipes -> 0..MaxOutput]
    /\ \A f \in Pipes : taken[f] \in 0..written[f] /\ captured[f] \in 0..Capacity
    /\ cancel \in BOOLEAN /\ due \in BOOLEAN /\ term \in BOOLEAN /\ kill \in BOOLEAN
    /\ result \in [exit : Exits, timed_out : BOOLEAN, cancelled : BOOLEAN, error : BOOLEAN]
    /\ pc = "done" => result \in ShellResults

\* exec.cpp, "stop draining: the tree is gone": once run_shell has sent SIGKILL, no
\* process of the group runs, whatever it ignored, closed or started.
KilledTreeIsGone == kill => \A p \in Procs : ~InGroup(p)

\* A result without an error carries the exit status of a shell that was reaped.
ReturnedMeansReaped ==
    pc = "done" /\ ~result.error => life[Shell] = "gone" /\ result.exit = code

\* A result that is neither an error nor a kill is honest about the output: nobody can write
\* to the pipes any more, all that fits the capture buffer is there, and the mark "--output
\* truncated--" is there if, and only if, something was dropped.  The exception is a pipe that
\* could not be read: exec.cpp closes it as if it had ended, and says nothing.
OutputComplete ==
    pc = "done" /\ ~result.error /\ ~result.cancelled /\ ~result.timed_out =>
        \A f \in Pipes \ unread :
            /\ Writers(f) = {}
            /\ captured[f] = IF written[f] > Capacity THEN Capacity ELSE written[f]
            /\ f \in clipped <=> written[f] > Capacity

\* run_shell returns, whatever the script does: a wedged script cannot hang its worker.
Returns == <>(pc = "done")

\* exec.h, "a timeout kills the whole tree, not just /bin/sh": when run_shell returns
\* from a timeout or a cancel, no process of the group runs.
TimeoutKillsTree ==
    pc = "done" /\ (result.timed_out \/ result.cancelled) => \A p \in Procs : ~InGroup(p)
=============================================================================
