----------------------------- MODULE DocRunner ------------------------------
(***************************************************************************)
(* runner::run_document (src/runner.cpp): the steps of a document one      *)
(* after the other, each on run_shell, and the status of the document.     *)
(* A cancel may be requested at any moment by the poll thread.             *)
(***************************************************************************)
EXTENDS Naturals, Sequences, CancelToken

CONSTANT MaxSteps   \* bound on the length of a document

ASSUME DocRunnerAssumption == MaxSteps \in Nat

\* What run_document makes of a step: excluded by its precondition, an action other
\* than aws:runShellScript, no commands left after resolve(), or a script to run.
StepKinds == {"excluded", "unsupported", "empty", "script"}

VARIABLES
    document,   \* the steps to run, by kind
    results,    \* outcome.steps, by status
    verdicts,   \* history: the shell result behind each result, or NoShell
    docStatus,  \* outcome.status
    docPc       \* "loop", "shell" (in run_shell) or "done"

docVars == <<document, results, verdicts, docStatus, docPc>>

NoShell == [exit |-> "unset", timed_out |-> FALSE, cancelled |-> FALSE, error |-> FALSE]

Documents == UNION {[1..n -> StepKinds] : n \in 0..MaxSteps}

DocInit ==
    /\ document \in Documents
    /\ results = <<>> /\ verdicts = <<>>
    /\ docStatus = "Success" /\ docPc = "loop"

Done == Len(results)
StepIs(kind) == docPc = "loop" /\ Done < Len(document) /\ document[Done + 1] = kind

\* The next result is recorded.
Record(status, verdict) ==
    /\ results' = Append(results, status)
    /\ verdicts' = Append(verdicts, verdict)

\* No mainSteps and no runtimeConfig.
NoSteps ==
    /\ docPc = "loop" /\ Len(document) = 0
    /\ docStatus' = "Failed" /\ docPc' = "done"
    /\ UNCHANGED <<cancel, document, results, verdicts>>

\* A step for another platform never changes the status of the document.
SkipStep ==
    /\ StepIs("excluded")
    /\ Record("Skipped", NoShell)
    /\ UNCHANGED <<cancel, document, docStatus, docPc>>

\* An unknown action, or nothing to run.
RefuseStep ==
    /\ StepIs("unsupported") \/ StepIs("empty")
    /\ Record("Failed", NoShell)
    /\ docStatus' = "Failed"
    /\ UNCHANGED <<cancel, document, docPc>>

\* run_shell is called; it looks at the token only once the script runs.
StartShell ==
    /\ StepIs("script")
    /\ docPc' = "shell"
    /\ UNCHANGED <<cancel, document, results, verdicts, docStatus>>

\* Mutant: a timeout is judged by the exit code the script still managed to return.
StepStatusByCode(r) ==
    IF r.cancelled THEN "Cancelled"
    ELSE IF r.exit = "zero" THEN "Success" ELSE "Failed"

\* The status of a step by the result of its shell.
StepStatus(r) ==
    IF r.cancelled THEN "Cancelled"
    ELSE IF r.error THEN "Failed"
    ELSE IF r.timed_out THEN "TimedOut"
    ELSE IF r.exit = "zero" THEN "Success" ELSE "Failed"

\* Mutant: the last step decides.
AggregateLast(status) ==
    IF status = "Success" \/ status = "Cancelled" THEN status ELSE "Failed"

\* The status of the document after a step that ran: Cancelled stays, failure stays.
Aggregate(status) ==
    IF status = "Cancelled" THEN "Cancelled"
    ELSE IF status # "Success" /\ docStatus # "Cancelled" THEN "Failed"
    ELSE docStatus

\* run_shell returns r; a cancelled document stops here.
FinishShell(r) ==
    /\ docPc = "shell"
    /\ Record(StepStatus(r), r)
    /\ docStatus' = Aggregate(StepStatus(r))
    /\ docPc' = IF r.cancelled THEN "done" ELSE "loop"
    /\ UNCHANGED <<cancel, document>>

EndDocument ==
    /\ docPc = "loop" /\ Len(document) > 0 /\ Done = Len(document)
    /\ docPc' = "done"
    /\ UNCHANGED <<cancel, document, results, verdicts, docStatus>>

DocStep ==
    \/ NoSteps
    \/ SkipStep \/ RefuseStep
    \/ StartShell
    \/ \E r \in Returnable : FinishShell(r)
    \/ EndDocument

-----------------------------------------------------------------------------
(* Properties.                                                             *)

ScriptSteps == {i \in 1..Done : document[i] = "script"}

\* A document is a Success only if each of its steps was looked at, and each script
\* ended by itself with exit code 0: not late, not cancelled, not unreaped.
SuccessIsEarned ==
    docPc = "done" /\ docStatus = "Success" =>
        /\ Done = Len(document) /\ Done > 0
        /\ \A i \in ScriptSteps :
            verdicts[i] = [exit |-> "zero", timed_out |-> FALSE, cancelled |-> FALSE,
                           error |-> FALSE]
        /\ \A i \in 1..Done \ ScriptSteps : document[i] = "excluded"

\* A document fails only for a reason one of its steps shows, never passes a cancelled step off
\* as a failure or the other way round, and "stops here": no step follows a cancelled one.
FailureIsShown ==
    /\ docPc = "done" /\ Done > 0 =>
        /\ docStatus = "Failed" <=>
            /\ \E i \in 1..Done : results[i] \in {"Failed", "TimedOut"}
            /\ \A i \in 1..Done : results[i] # "Cancelled"
        /\ docStatus = "Cancelled" <=> \E i \in 1..Done : results[i] = "Cancelled"
    /\ \A i \in 1..Done : results[i] = "Cancelled" => i = Done /\ docPc = "done"
=============================================================================
