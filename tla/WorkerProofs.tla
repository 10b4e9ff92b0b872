---------------------------- MODULE WorkerProofs ----------------------------
(***************************************************************************)
(* Machine-checked proofs about Worker: for documents of any length and    *)
(* any set of packages, the status of a command tells what happened.       *)
(*                                                                         *)
(* The verdict of a document is spread over its steps, so the invariant    *)
(* ties every result to the shell result behind it (StepInv) and the       *)
(* status to all of them (StatusInv).  That of a patch run rests on what   *)
(* each stage has left to do (StageInv).                                   *)
(***************************************************************************)
EXTENDS Worker, SequenceTheorems, TLAPS

StepStatuses == {"Skipped", "Success", "Failed", "TimedOut", "Cancelled"}

DocTypeOK ==
    /\ cancel \in BOOLEAN /\ patch \in BOOLEAN
    /\ document \in Seq(StepKinds)
    /\ results \in Seq(StepStatuses) /\ verdicts \in Seq(ShellResults \cup {NoShell})
    /\ Len(results) <= Len(document) /\ Len(verdicts) = Len(results)
    /\ docStatus \in {"Success", "Failed", "Cancelled"}
    /\ docPc \in {"loop", "shell", "done"}
    /\ docPc = "shell" => Len(results) < Len(document) /\ document[Len(results) + 1] = "script"

\* What stands behind the result of a step.
StepInv(i) ==
    /\ document[i] = "script" =>
        verdicts[i] \in ShellResults /\ results[i] = StepStatus(verdicts[i])
    /\ document[i] = "excluded" => results[i] = "Skipped"
    /\ document[i] \in {"unsupported", "empty"} => results[i] = "Failed"
    /\ results[i] = "Cancelled" => cancel /\ i = Len(results) /\ docPc = "done"

SomeCancelled == \E i \in 1..Len(results) : results[i] = "Cancelled"
SomeFailed == \E i \in 1..Len(results) : results[i] \in {"Failed", "TimedOut"}

\* The status of a document is that of its steps so far.
StatusInv ==
    /\ docStatus = "Cancelled" <=> SomeCancelled
    /\ Len(document) > 0 => (docStatus = "Failed" <=> SomeFailed /\ ~SomeCancelled)
    /\ docPc = "done" /\ ~SomeCancelled => Len(results) = Len(document)
    /\ docPc = "done" /\ Len(document) = 0 => docStatus = "Failed"

DocInv ==
    /\ DocTypeOK
    /\ \A i \in 1..Len(results) : StepInv(i)
    /\ StatusInv

PatchTypeOK ==
    /\ cancel \in BOOLEAN /\ patch \in BOOLEAN
    /\ pending \subseteq Packages /\ applied \subseteq Packages
    /\ available \subseteq Packages /\ missing \subseteq Packages /\ cut \subseteq Packages
    /\ installed \subseteq available
    /\ operation \in {"Scan", "Install", "invalid"}
    /\ failed \in BOOLEAN /\ cancelled \in BOOLEAN
    /\ patchStatus \in {"none", "Success", "Failed", "Cancelled"}
    /\ patchPc \in {"params", "refresh", "scan", "install", "rescan", "count", "report",
                    "verdict", "done"}
    /\ record \in {NoRecord, InventoryItems}

\* Before a stage nothing of what it does has happened; after it, a run that has not failed and
\* was not cancelled has done it.
StageInv ==
    /\ patchPc \in {"params", "refresh", "scan"} => available = {} /\ missing = {}
    /\ patchPc \in {"params", "refresh", "scan", "install"} => applied = {} /\ installed = {}
    /\ patchPc = "install" => missing = {} /\ available # {}
    /\ missing \subseteq pending \cup cut
    /\ patchPc \notin {"verdict", "done"} => record = NoRecord /\ patchStatus = "none"
    /\ patchPc \in {"rescan", "count", "report", "verdict", "done"} /\ ~failed /\ ~cancelled =>
        /\ available = {} => applied = {}
        /\ operation = "Install" /\ available # {} => pending = {}
        /\ available = pending \cup applied => installed = applied
    /\ patchPc \in {"verdict", "done"} /\ ~failed /\ ~cancelled => record # NoRecord
    /\ cancelled => cancel
    /\ patchPc = "verdict" => patchStatus = "none"
    /\ patchPc = "done" =>
        patchStatus = IF cancelled THEN "Cancelled" ELSE IF failed THEN "Failed" ELSE "Success"

PatchInv == PatchTypeOK /\ StageInv

Inv == DocInv /\ PatchInv

\* What a call of run_shell returns.
LEMMA Returned ==
    ASSUME NEW r \in Returnable
    PROVE  /\ r \in ShellResults /\ (r.cancelled => cancel)
           /\ r.exit \in Exits /\ r.timed_out \in BOOLEAN /\ r.cancelled \in BOOLEAN
           /\ r.error \in BOOLEAN
  BY DEF Returnable, ShellResults

\* The status of a step is one of the five, Cancelled exactly if its shell was.
LEMMA StatusOfStep ==
    ASSUME NEW r \in ShellResults
    PROVE  /\ StepStatus(r) \in StepStatuses \ {"Skipped"}
           /\ StepStatus(r) = "Cancelled" <=> r.cancelled
           /\ StepStatus(r) = "Success" <=>
                r = [exit |-> "zero", timed_out |-> FALSE, cancelled |-> FALSE, error |-> FALSE]
  <1>1. /\ r = [exit |-> r.exit, timed_out |-> r.timed_out, cancelled |-> r.cancelled,
                error |-> r.error]
        /\ r.exit \in Exits /\ r.timed_out \in BOOLEAN /\ r.cancelled \in BOOLEAN
        /\ r.error \in BOOLEAN
    BY DEF ShellResults
  <1>2. QED
    BY <1>1 DEF StepStatus, StepStatuses, Exits

\* A step is recorded after those that were, whose results it leaves as they are.
LEMMA Recorded ==
    ASSUME DocTypeOK, NEW status \in StepStatuses, NEW verdict \in ShellResults \cup {NoShell},
           Record(status, verdict)
    PROVE  /\ results' \in Seq(StepStatuses) /\ verdicts' \in Seq(ShellResults \cup {NoShell})
           /\ Len(results') = Len(results) + 1 /\ Len(verdicts') = Len(results) + 1
           /\ \A i \in 1..Len(results) : results'[i] = results[i] /\ verdicts'[i] = verdicts[i]
           /\ results'[Len(results) + 1] = status /\ verdicts'[Len(results) + 1] = verdict
           /\ Len(results) \in Nat /\ Len(document) \in Nat
  BY DEF DocTypeOK, Record

-----------------------------------------------------------------------------
(* A document.                                                             *)

\* A document starts with no results.
LEMMA DocStarts == DocInit /\ cancel = FALSE /\ patch \in BOOLEAN => DocInv
  <1> SUFFICES ASSUME DocInit, cancel = FALSE, patch \in BOOLEAN
               PROVE  DocInv
    OBVIOUS
  <1>1. document \in Seq(StepKinds)
    BY SeqDef, DocRunnerAssumption DEF DocInit, Documents
  <1>2. Len(results) = 0 /\ Len(verdicts) = 0 /\ Len(document) \in Nat
        /\ results \in Seq(StepStatuses) /\ verdicts \in Seq(ShellResults \cup {NoShell})
    BY <1>1 DEF DocInit
  <1>3. DocTypeOK
    <2>1. Len(results) <= Len(document) /\ Len(verdicts) = Len(results)
      BY <1>2
    <2>2. QED
      BY <1>1, <1>2, <2>1 DEF DocInit, DocTypeOK
  <1>4. StatusInv
    BY <1>2 DEF DocInit, StatusInv, SomeCancelled, SomeFailed
  <1>5. QED
    BY <1>3, <1>2, <1>4 DEF DocInv

\* The steps whose result is in keep what stands behind it.
LEMMA RecordKeeps ==
    ASSUME DocInv, docPc # "done", Len(results) < Len(document),
           NEW status \in StepStatuses, NEW verdict \in ShellResults \cup {NoShell},
           Record(status, verdict), UNCHANGED <<document, cancel, patch>>,
           docStatus' = IF status = "Cancelled" THEN "Cancelled"
                        ELSE IF status \in {"Failed", "TimedOut"} THEN "Failed" ELSE docStatus,
           docPc' = IF status = "Cancelled" THEN "done" ELSE "loop",
           status = "Cancelled" => cancel,
           document[Len(results) + 1] = "script" =>
               verdict \in ShellResults /\ status = StepStatus(verdict),
           document[Len(results) + 1] = "excluded" => status = "Skipped",
           document[Len(results) + 1] \in {"unsupported", "empty"} => status = "Failed"
    PROVE  DocInv'
  <1> DEFINE n == Len(results)
  <1>1. /\ results' \in Seq(StepStatuses) /\ verdicts' \in Seq(ShellResults \cup {NoShell})
        /\ Len(results') = n + 1 /\ Len(verdicts') = n + 1
        /\ \A i \in 1..n : results'[i] = results[i] /\ verdicts'[i] = verdicts[i]
        /\ results'[n + 1] = status /\ verdicts'[n + 1] = verdict
        /\ n \in Nat /\ Len(document) \in Nat
    BY Recorded DEF DocInv
  <1>2. DocTypeOK'
    BY <1>1 DEF DocInv, DocTypeOK
  <1>3. \A i \in 1..n : results[i] # "Cancelled"
    BY DEF DocInv, StepInv
  <1>4. \A i \in 1..n + 1 : StepInv(i)'
    <2> SUFFICES ASSUME NEW i \in 1..n + 1
                 PROVE  StepInv(i)'
      OBVIOUS
    <2>1. CASE i \in 1..n
      <3>1. StepInv(i)
        BY <2>1 DEF DocInv
      <3>2. results'[i] = results[i] /\ verdicts'[i] = verdicts[i] /\ results[i] # "Cancelled"
        BY <1>1, <1>3, <2>1
      <3>3. StepStatus(verdicts[i])' = StepStatus(verdicts[i])
        BY <3>2 DEF StepStatus
      <3>4. QED
        BY <3>1, <3>2, <3>3 DEF StepInv
    <2>2. CASE i = n + 1
      <3>1. results'[i] = status /\ verdicts'[i] = verdict
        BY <1>1, <2>2
      <3>2. StepStatus(verdicts[i])' = StepStatus(verdict)
        BY <3>1 DEF StepStatus
      <3>3. QED
        BY <1>1, <2>2, <3>1, <3>2 DEF StepInv
    <2>3. QED
      BY <1>1, <2>1, <2>2
  <1>5. SomeCancelled' <=> status = "Cancelled"
    BY <1>1, <1>3 DEF SomeCancelled
  <1>6. SomeFailed' <=> SomeFailed \/ status \in {"Failed", "TimedOut"}
    BY <1>1 DEF SomeFailed
  <1>7. ~SomeCancelled
    BY <1>3 DEF SomeCancelled
  <1>8. StatusInv'
    BY <1>1, <1>5, <1>6, <1>7 DEF DocInv, StatusInv
  <1>9. QED
    BY <1>1, <1>2, <1>4, <1>8 DEF DocInv

\* Without a new result, the status and the steps stay what they are.
LEMMA NoRecordKeeps ==
    ASSUME DocInv, docPc # "done",
           UNCHANGED <<document, cancel, patch, results, verdicts>>,
           docPc' \in {"loop", "shell", "done"},
           docPc' = "shell" => Len(results) < Len(document)
                               /\ document[Len(results) + 1] = "script",
           docPc' = "done" => Len(results) = Len(document),
           docStatus' = IF docPc' = "done" /\ Len(document) = 0 THEN "Failed" ELSE docStatus
    PROVE  DocInv'
  <1>1. DocTypeOK'
    BY DEF DocInv, DocTypeOK
  <1>2. \A i \in 1..Len(results) : results[i] # "Cancelled"
    BY DEF DocInv, StepInv
  <1>3. \A i \in 1..Len(results) : StepInv(i)'
    BY <1>2 DEF DocInv, StepInv, StepStatus
  <1>4. SomeCancelled' = SomeCancelled /\ SomeFailed' = SomeFailed /\ ~SomeCancelled
    BY <1>2 DEF SomeCancelled, SomeFailed
  <1>5. Len(document) \in Nat /\ Len(results) \in Nat
    BY DEF DocInv, DocTypeOK
  <1>6. StatusInv'
    BY <1>4, <1>5 DEF DocInv, StatusInv
  <1>7. QED
    BY <1>1, <1>3, <1>6 DEF DocInv

\* Every step of run_document keeps its invariant.
LEMMA DocStepKeeps ==
    ASSUME DocInv, DocStep, UNCHANGED patch
    PROVE  DocInv'
  <1>1. Len(document) \in Nat /\ Len(results) \in Nat /\ Len(results) <= Len(document)
    BY DEF DocInv, DocTypeOK
  <1>2. CASE NoSteps
    <2>1. Len(results) = Len(document)
      BY <1>1, <1>2 DEF NoSteps
    <2>2. QED
      BY <1>2, <2>1, NoRecordKeeps DEF NoSteps
  <1>3. CASE SkipStep
    <2>1. Record("Skipped", NoShell) /\ docPc = "loop" /\ Len(results) < Len(document)
          /\ document[Len(results) + 1] = "excluded"
      BY <1>3 DEF SkipStep, StepIs, Done
    <2>2. "Skipped" \in StepStatuses
      BY DEF StepStatuses
    <2>3. QED
      BY <1>3, <2>1, <2>2, RecordKeeps DEF SkipStep
  <1>4. CASE RefuseStep
    <2>1. Record("Failed", NoShell) /\ docPc = "loop" /\ Len(results) < Len(document)
          /\ document[Len(results) + 1] \in {"unsupported", "empty"}
      BY <1>4 DEF RefuseStep, StepIs, Done
    <2>2. "Failed" \in StepStatuses
      BY DEF StepStatuses
    <2>3. QED
      BY <1>4, <2>1, <2>2, RecordKeeps DEF RefuseStep
  <1>5. CASE StartShell
    BY <1>1, <1>5, NoRecordKeeps DEF StartShell, StepIs, Done
  <1>6. ASSUME NEW r \in Returnable, FinishShell(r)
        PROVE  DocInv'
    <2>1. r \in ShellResults /\ (r.cancelled => cancel) /\ r.cancelled \in BOOLEAN
      BY Returned
    <2>2. /\ StepStatus(r) \in StepStatuses /\ StepStatus(r) # "Skipped"
          /\ StepStatus(r) = "Cancelled" <=> r.cancelled
      BY <2>1, StatusOfStep
    <2>3. /\ Record(StepStatus(r), r) /\ docPc = "shell" /\ Len(results) < Len(document)
          /\ document[Len(results) + 1] = "script"
      BY <1>6 DEF FinishShell, DocInv, DocTypeOK
    <2>4. docStatus # "Cancelled"
      BY <2>3 DEF DocInv, StatusInv, SomeCancelled, StepInv
    <2>5. docStatus' = IF StepStatus(r) = "Cancelled" THEN "Cancelled"
                       ELSE IF StepStatus(r) \in {"Failed", "TimedOut"} THEN "Failed"
                       ELSE docStatus
      BY <1>6, <2>2, <2>4 DEF FinishShell, Aggregate, StepStatuses
    <2>6. docPc' = IF StepStatus(r) = "Cancelled" THEN "done" ELSE "loop"
      BY <1>6, <2>2 DEF FinishShell
    <2>7. UNCHANGED <<document, cancel>>
      BY <1>6 DEF FinishShell
    <2>8. QED
      BY <2>1, <2>2, <2>3, <2>5, <2>6, <2>7, RecordKeeps
  <1>7. CASE EndDocument
    BY <1>1, <1>7, NoRecordKeeps DEF EndDocument, Done
  <1>8. QED
    BY <1>2, <1>3, <1>4, <1>5, <1>6, <1>7 DEF DocStep

-----------------------------------------------------------------------------
(* A patch run.                                                            *)

\* A patch run starts with nothing found and nothing installed.
LEMMA PatchStarts == PatchInit /\ cancel = FALSE /\ patch \in BOOLEAN => PatchInv
  BY DEF PatchInit, PatchInv, PatchTypeOK, StageInv

\* What pkgman prints is pending, but for the name a cut line gives.
LEMMA ListingIsPending ==
    ASSUME NEW r, NEW list \in Listing(r), pending \subseteq Packages
    PROVE  list.part \subseteq pending /\ list.cut \subseteq Packages
  BY DEF Listing

\* Every stage of run_baseline keeps its invariant.
LEMMA PatchStepKeeps ==
    ASSUME PatchInv, PatchStep, UNCHANGED patch
    PROVE  PatchInv'
  <1> USE DEF PatchInv, PatchTypeOK, StageInv
  <1>1. CASE ParseParams
    BY <1>1 DEF ParseParams, systemVars, reportVars, InventoryItems
  <1>2. ASSUME NEW r \in Returnable, Refresh(r)
        PROVE  PatchInv'
    BY <1>2, Returned DEF Refresh, Shell, Proceed, systemVars, reportVars, InventoryItems
  <1>3. ASSUME NEW r \in Returnable, Scan(r)
        PROVE  PatchInv'
    <2>1. PICK list \in Listing(r) :
            LET seen == IF r.cancelled \/ r.error THEN {} ELSE list.part \cup list.cut
            IN  /\ available' = seen /\ cut' = seen \cap list.cut
                /\ Proceed(r, AfterScan(seen))
                /\ missing' = IF AfterScan(seen) = "install" THEN {} ELSE seen
      BY <1>3 DEF Scan
    <2>2. list.part \subseteq pending /\ list.cut \subseteq Packages
      BY ListingIsPending
    <2>3. QED
      BY <1>3, <2>1, <2>2, Returned
      DEF Scan, Shell, Proceed, AfterScan, systemVars, InventoryItems
  <1>4. ASSUME NEW r \in Returnable, Install(r)
        PROVE  PatchInv'
    <2>1. PICK done \in {{}, pending} :
            /\ r.exit = "zero" => done = pending
            /\ pending' = pending \ done /\ applied' = applied \cup done
      BY <1>4 DEF Install
    <2>2. QED
      BY <1>4, <2>1, Returned DEF Install, Shell, Proceed, InventoryItems
  <1>5. ASSUME NEW r \in Returnable, Rescan(r)
        PROVE  PatchInv'
    <2>1. PICK list \in Listing(r) :
            IF r.cancelled THEN UNCHANGED <<missing, cut>>
            ELSE missing' = list.part \cup list.cut /\ cut' = list.cut
      BY <1>5 DEF Rescan
    <2>2. list.part \subseteq pending /\ list.cut \subseteq Packages
      BY ListingIsPending
    <2>3. QED
      BY <1>5, <2>1, <2>2, Returned DEF Rescan, Shell, Proceed, systemVars, InventoryItems
  <1>6. ASSUME NEW r \in Returnable, CountPackages(r)
        PROVE  PatchInv'
    BY <1>6, Returned DEF CountPackages, Shell, Proceed, systemVars, reportVars, InventoryItems
  <1>7. CASE PutInventory
    <2>1. InventoryItems # NoRecord
      BY NoRecordAssumption DEF InventoryItems
    <2>2. InventoryItems.installed = installed
      BY DEF InventoryItems
    <2>3. InventoryItems' = InventoryItems
      BY <1>7 DEF PutInventory, InventoryItems, reportVars
    <2>4. record' \in {record, InventoryItems}
      BY <1>7 DEF PutInventory
    <2>5. record = NoRecord /\ (failed' \/ record' = InventoryItems) /\ failed' \in BOOLEAN
      BY <1>7 DEF PutInventory
    <2>6. UNCHANGED <<cancel, pending, applied, available, missing, cut, installed, operation,
                      cancelled, patchStatus>>
          /\ patchPc = "report" /\ patchPc' = "verdict"
          /\ (~failed' => ~failed)
      BY <1>7 DEF PutInventory, reportVars
    <2>7. PatchTypeOK'
      BY <2>3, <2>4, <2>5, <2>6
    <2>8. StageInv'
      BY <2>1, <2>5, <2>6
    <2>9. QED
      BY <2>7, <2>8
  <1>8. CASE Verdict
    BY <1>8 DEF Verdict, systemVars, reportVars, InventoryItems
  <1>9. QED
    BY <1>1, <1>2, <1>3, <1>4, <1>5, <1>6, <1>7, <1>8 DEF PatchStep

-----------------------------------------------------------------------------
(* A worker.                                                               *)

\* The initial states satisfy the invariant.
LEMMA Starts == Init => Inv
  BY DocStarts, PatchStarts DEF Init, Inv

\* Every step of a worker keeps the invariant.
LEMMA Keeps == Inv /\ [Next]_workerVars => Inv'
  <1> SUFFICES ASSUME Inv, [Next]_workerVars
               PROVE  Inv'
    OBVIOUS
  <1>1. ASSUME UNCHANGED docVars, UNCHANGED patch, cancel' \in BOOLEAN, cancel => cancel'
        PROVE  DocInv'
    BY <1>1 DEF Inv, DocInv, DocTypeOK, StepInv, StatusInv, StepStatus, SomeCancelled,
                SomeFailed, docVars
  <1>2. ASSUME UNCHANGED patchVars, UNCHANGED patch, cancel' \in BOOLEAN, cancel => cancel'
        PROVE  PatchInv'
    BY <1>2 DEF Inv, PatchInv, PatchTypeOK, StageInv, InventoryItems, patchVars, systemVars,
                reportVars
  <1>3. cancel \in BOOLEAN
    BY DEF Inv, DocInv, DocTypeOK
  <1>4. CASE DocStep /\ UNCHANGED <<patch, patchVars>>
    <2>1. UNCHANGED cancel
      BY <1>4 DEF DocStep, NoSteps, SkipStep, RefuseStep, StartShell, FinishShell, EndDocument
    <2>2. QED
      BY <1>2, <1>3, <1>4, <2>1, DocStepKeeps DEF Inv
  <1>5. CASE PatchStep /\ UNCHANGED <<patch, docVars>>
    <2>1. UNCHANGED cancel
      BY <1>5 DEF PatchStep, ParseParams, Refresh, Scan, Install, Rescan, CountPackages,
                  PutInventory, Verdict
    <2>2. QED
      BY <1>1, <1>3, <1>5, <2>1, PatchStepKeeps DEF Inv
  <1>6. CASE Cancel
    BY <1>1, <1>2, <1>3, <1>6 DEF Cancel, RequestCancel, Inv
  <1>7. CASE UNCHANGED workerVars
    BY <1>1, <1>2, <1>3, <1>7 DEF workerVars, Inv
  <1>8. QED
    BY <1>4, <1>5, <1>6, <1>7 DEF Next, Execute

\* The invariant holds throughout.
LEMMA Invariance == Spec => []Inv
  BY Starts, Keeps, PTL DEF Spec

\* The state of a worker is well formed, for any document and any set of packages.
THEOREM TypeCorrect == Spec => []TypeOK
  <1>1. Inv => TypeOK
    BY DEF Inv, DocInv, DocTypeOK, PatchInv, PatchTypeOK, TypeOK
  <1>2. QED
    BY <1>1, Invariance, PTL

\* run_document: a Success has looked at every step, and each of its scripts ended by itself
\* with exit code 0.
THEOREM DocumentSuccess == Spec => []SuccessIsEarned
  <1>1. Inv => SuccessIsEarned
    <2> SUFFICES ASSUME Inv, docPc = "done", docStatus = "Success"
                 PROVE  /\ Done = Len(document) /\ Done > 0
                        /\ \A i \in ScriptSteps :
                             verdicts[i] = [exit |-> "zero", timed_out |-> FALSE,
                                            cancelled |-> FALSE, error |-> FALSE]
                        /\ \A i \in 1..Done \ ScriptSteps : document[i] = "excluded"
      BY DEF SuccessIsEarned
    <2>1. ~SomeCancelled /\ Len(results) = Len(document) /\ Len(document) # 0
      BY DEF Inv, DocInv, StatusInv
    <2>2. Len(document) \in Nat /\ Len(document) > 0 /\ ~SomeFailed
      BY <2>1 DEF Inv, DocInv, DocTypeOK, StatusInv
    <2>3. \A i \in 1..Len(results) : StepInv(i) /\ results[i] \notin {"Failed", "TimedOut", "Cancelled"}
      BY <2>1, <2>2 DEF Inv, DocInv, SomeCancelled, SomeFailed
    <2>4. ASSUME NEW i \in 1..Len(results), document[i] = "script"
          PROVE  verdicts[i] = [exit |-> "zero", timed_out |-> FALSE,
                                cancelled |-> FALSE, error |-> FALSE]
      <3>1. verdicts[i] \in ShellResults /\ results[i] = StepStatus(verdicts[i])
        BY <2>3, <2>4 DEF StepInv
      <3>2. StepStatus(verdicts[i]) = "Success"
        BY <2>3, <3>1, StatusOfStep DEF StepStatuses
      <3>3. QED
        BY <3>1, <3>2, StatusOfStep
    <2>5. ASSUME NEW i \in 1..Len(results), document[i] # "script"
          PROVE  document[i] = "excluded"
      <3>1. document[i] \in StepKinds
        BY <2>1 DEF Inv, DocInv, DocTypeOK
      <3>2. QED
        BY <2>3, <2>5, <3>1 DEF StepInv, StepKinds
    <2>6. QED
      BY <2>1, <2>2, <2>4, <2>5 DEF Done, ScriptSteps
  <1>2. QED
    BY <1>1, Invariance, PTL

\* run_document: a failure is that of a step, and nothing runs after a cancel.
THEOREM DocumentFailure == Spec => []FailureIsShown
  <1>1. Inv => FailureIsShown
    <2> SUFFICES ASSUME Inv
                 PROVE  FailureIsShown
      OBVIOUS
    <2>1. Done > 0 => Len(document) > 0
      BY DEF Inv, DocInv, DocTypeOK, Done
    <2>2. SomeFailed /\ ~SomeCancelled <=>
            /\ \E i \in 1..Done : results[i] \in {"Failed", "TimedOut"}
            /\ \A i \in 1..Done : results[i] # "Cancelled"
      BY DEF SomeFailed, SomeCancelled, Done
    <2>3. SomeCancelled <=> \E i \in 1..Done : results[i] = "Cancelled"
      BY DEF SomeCancelled, Done
    <2>4. \A i \in 1..Done : results[i] = "Cancelled" => i = Done /\ docPc = "done"
      BY DEF Inv, DocInv, StepInv, Done
    <2>5. QED
      BY <2>1, <2>2, <2>3, <2>4 DEF FailureIsShown, Inv, DocInv, StatusInv
  <1>2. QED
    BY <1>1, Invariance, PTL

\* run_baseline: a Success is recorded and its installation was all of pkgman's transaction; the
\* record names exactly what was installed if the scan listed exactly that.
THEOREM PatchSuccess == Spec => []SuccessIsRecorded
  <1>1. Inv => SuccessIsRecorded
    BY DEF Inv, PatchInv, PatchTypeOK, StageInv, SuccessIsRecorded, InventoryItems
  <1>2. QED
    BY <1>1, Invariance, PTL

\* run_baseline: the record calls no update missing that is installed, but for the name a cut
\* line gave.
THEOREM MissingIsPending == Spec => []NothingInstalledIsMissing
  <1>1. Inv => NothingInstalledIsMissing
    BY DEF Inv, PatchInv, PatchTypeOK, StageInv, NothingInstalledIsMissing, InventoryItems
  <1>2. QED
    BY <1>1, Invariance, PTL

\* The worker of RunCommand: it ends with a terminal status, Cancelled only on request.
THEOREM CancelledIsRequested == Spec => []CancelledOnlyOnRequest
  <1>1. Inv => CancelledOnlyOnRequest
    BY DEF Inv, DocInv, DocTypeOK, StepInv, StatusInv, SomeCancelled, PatchInv, PatchTypeOK,
           StageInv, CancelledOnlyOnRequest, Finished, Outcome
  <1>2. QED
    BY <1>1, Invariance, PTL
=============================================================================
