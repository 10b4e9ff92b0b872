------------------------------- MODULE Worker -------------------------------
(***************************************************************************)
(* What a worker thread executes between InFlight::add and the final       *)
(* reply (the lambda in Agent::handle_send_command, src/main.cpp): a patch *)
(* document by PatchBaseline, any other one by DocRunner.  The action      *)
(* FinishRun of RunCommand stands for the whole of it.                     *)
(***************************************************************************)
EXTENDS DocRunner, PatchBaseline

VARIABLE patch      \* patch::is_patch_document(document_name)

workerVars == <<patch, cancel, docVars, patchVars>>

Init ==
    /\ patch \in BOOLEAN /\ cancel = FALSE
    /\ DocInit /\ PatchInit
    \* the branch not taken is left at one start
    /\ IF patch THEN Len(document) = 0 ELSE pending = {} /\ operation = "Scan"

Execute ==
    \/ ~patch /\ DocStep /\ UNCHANGED <<patch, patchVars>>
    \/ patch /\ PatchStep /\ UNCHANGED <<patch, docVars>>

Cancel == RequestCancel /\ UNCHANGED <<patch, docVars, patchVars>>

Next == Execute \/ Cancel

Spec == Init /\ [][Next]_workerVars

-----------------------------------------------------------------------------
(* Properties.                                                             *)

Finished == IF patch THEN patchPc = "done" ELSE docPc = "done"
Outcome == IF patch THEN patchStatus ELSE docStatus

\* The state is well formed: one verdict per result, a document status of the three the
\* console knows, and never more installed than was available.
TypeOK ==
    /\ cancel \in BOOLEAN /\ patch \in BOOLEAN
    /\ Len(results) \in 0..Len(document) /\ Len(verdicts) = Len(results)
    /\ docStatus \in {"Success", "Failed", "Cancelled"}
    /\ docPc \in {"loop", "shell", "done"}
    /\ pending \subseteq Packages /\ applied \subseteq Packages
    /\ available \subseteq Packages /\ missing \subseteq Packages /\ cut \subseteq Packages
    /\ installed \subseteq available
    /\ patchStatus \in {"none", "Success", "Failed", "Cancelled"}

\* What FinishRun of RunCommand takes for granted: a worker that finishes has a terminal
\* status, and reports Cancelled only if its token was set.
CancelledOnlyOnRequest ==
    Finished => Outcome \in {"Success", "Failed", "Cancelled"} /\ (Outcome = "Cancelled" => cancel)
=============================================================================
