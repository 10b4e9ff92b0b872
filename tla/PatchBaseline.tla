--------------------------- MODULE PatchBaseline ----------------------------
(***************************************************************************)
(* patch::run_baseline (src/patch.cpp): Scan and Install of the patch      *)
(* baseline by way of pkgman, each call on run_shell, and the compliance   *)
(* record put into the SSM inventory.  The package system and the          *)
(* inventory are external.  What a scan lists is what run_baseline reads   *)
(* of it; what `pkgman update -y` installs, pkgman works out by itself.    *)
(***************************************************************************)
EXTENDS CancelToken

CONSTANTS
    Packages,       \* the packages that may have an update
    NoRecord,       \* "no compliance record of this run"
    LongScans       \* the text of a scan may not fit kMaxStdoutLength, or a read may lose some

ASSUME NoRecordAssumption ==
    NoRecord \notin [missing : SUBSET Packages, installed : SUBSET Packages]
ASSUME LongScansAssumption == LongScans \in BOOLEAN

VARIABLES
    pending,    \* package system: the updates not installed
    applied,    \* history: the updates this run has installed
    record,     \* inventory: what this run has put there
    operation,  \* Params::operation, or "invalid"
    patchPc,    \* the next call of run_baseline
    available,  \* available
    missing,    \* Report::missing
    cut,        \* history: what the last scan listed only because a line was cut short
    installed,  \* Report::installed
    failed,     \* failed
    cancelled,  \* cancelled
    patchStatus \* sr.status, "none" before the end

systemVars == <<pending, applied, record>>
reportVars == <<available, missing, cut, installed>>
patchVars  == <<systemVars, reportVars, operation, patchPc, failed, cancelled, patchStatus>>

PatchInit ==
    /\ pending \in SUBSET Packages /\ applied = {} /\ record = NoRecord
    /\ operation \in {"Scan", "Install", "invalid"}
    /\ patchPc = "params"
    /\ available = {} /\ missing = {} /\ cut = {} /\ installed = {}
    /\ failed = FALSE /\ cancelled = FALSE /\ patchStatus = "none"

\* The transaction pkgman prints before it asks, as parse_pkgman_transaction reads it: all
\* of it if pkgman ends well and its text fits; otherwise a part, nothing included, and the
\* line at the cut may give a name that is not of the transaction.
Listing(r) ==
    IF r.exit = "zero" /\ ~r.timed_out /\ ~r.cancelled /\ ~r.error /\ ~LongScans
    THEN {[part |-> pending, cut |-> {}]}
    ELSE [part : SUBSET pending, cut : {{}} \cup {{p} : p \in Packages}]

\* Mutant: a timeout is taken for a cancel.
ShellEnded(r) == cancelled' = (cancelled \/ r.cancelled \/ r.timed_out)

\* The lambda sh: cancelled is remembered.
Shell(r) == cancelled' = (cancelled \/ r.cancelled)

\* A run that was cancelled skips everything but the verdict.
Proceed(r, next) == patchPc' = IF r.cancelled THEN "verdict" ELSE next

ParseParams ==
    /\ patchPc = "params"
    /\ failed' = (operation = "invalid")
    /\ patchPc' = IF operation = "invalid" THEN "verdict" ELSE "refresh"
    /\ UNCHANGED <<cancel, systemVars, reportVars, operation, cancelled, patchStatus>>

\* pkgman refresh: a failure is only a warning.
Refresh(r) ==
    /\ patchPc = "refresh"
    /\ Shell(r) /\ Proceed(r, "scan")
    /\ UNCHANGED <<cancel, systemVars, reportVars, operation, failed, patchStatus>>

\* After the scan: is there something to install?
AfterScan(list) == IF operation = "Install" /\ list # {} THEN "install" ELSE "count"

\* echo n | pkgman update: only run_shell's own error counts as a failure.
Scan(r) ==
    /\ patchPc = "scan"
    /\ Shell(r)
    /\ \E list \in Listing(r) :
        LET seen == IF r.cancelled \/ r.error THEN {} ELSE list.part \cup list.cut
        IN  /\ available' = seen /\ cut' = seen \cap list.cut
            /\ Proceed(r, AfterScan(seen))
            /\ missing' = IF AfterScan(seen) = "install" THEN {} ELSE seen
    /\ failed' = (failed \/ (r.error /\ ~r.cancelled))
    /\ UNCHANGED <<cancel, systemVars, installed, operation, patchStatus>>

\* Mutant: whatever pkgman returns, the updates are taken for installed.
InstallTaken(r) ==
    /\ patchPc = "install"
    /\ Shell(r) /\ Proceed(r, "rescan")
    /\ \E done \in {{}, pending} :
        /\ r.exit = "zero" => done = pending
        /\ pending' = pending \ done /\ applied' = applied \cup done
    /\ IF r.cancelled THEN UNCHANGED installed ELSE installed' = available
    /\ UNCHANGED <<cancel, record, operation, failed, available, missing, cut, patchStatus>>

\* pkgman update -y: all that is pending is installed or nothing, and all of it if the exit
\* code is 0; what the report calls installed is what the scan had listed.
Install(r) ==
    /\ patchPc = "install"
    /\ Shell(r) /\ Proceed(r, "rescan")
    /\ \E done \in {{}, pending} :
        /\ r.exit = "zero" => done = pending
        /\ pending' = pending \ done /\ applied' = applied \cup done
    /\ IF r.exit = "zero" /\ ~r.cancelled
       THEN installed' = available /\ UNCHANGED failed
       ELSE UNCHANGED installed /\ failed' = (failed \/ ~r.cancelled)
    /\ UNCHANGED <<cancel, record, operation, available, missing, cut, patchStatus>>

\* Mutant: a re-scan that fails leaves the updates of the first scan as missing.
RescanOrKeep(r) ==
    /\ patchPc = "rescan"
    /\ Shell(r) /\ Proceed(r, "count")
    /\ \E list \in Listing(r) :
        /\ missing' = IF r.error THEN available ELSE list.part \cup list.cut
        /\ cut' = list.cut
    /\ UNCHANGED <<cancel, systemVars, operation, available, installed, failed, patchStatus>>

\* The second echo n | pkgman update: its result is not looked at.
Rescan(r) ==
    /\ patchPc = "rescan"
    /\ Shell(r) /\ Proceed(r, "count")
    /\ \E list \in Listing(r) :
        IF r.cancelled THEN UNCHANGED <<missing, cut>>
        ELSE missing' = list.part \cup list.cut /\ cut' = list.cut
    /\ UNCHANGED <<cancel, systemVars, operation, available, installed, failed, patchStatus>>

\* ls /system/packages | grep -c: only a cancel matters.
CountPackages(r) ==
    /\ patchPc = "count"
    /\ Shell(r) /\ Proceed(r, "report")
    /\ UNCHANGED <<cancel, systemVars, reportVars, operation, failed, patchStatus>>

\* The record: every installed package and every missing one.
InventoryItems == [missing |-> missing, installed |-> installed]

\* PutInventory: the record lands, or the call fails and the run with it.
PutInventory ==
    /\ patchPc = "report"
    /\ \/ record' = InventoryItems /\ UNCHANGED failed
       \/ failed' = TRUE /\ UNCHANGED record
    /\ patchPc' = "verdict"
    /\ UNCHANGED <<cancel, pending, applied, reportVars, operation, cancelled, patchStatus>>

\* The status of the only step, which is that of the document.
Verdict ==
    /\ patchPc = "verdict"
    /\ patchStatus' = IF cancelled THEN "Cancelled" ELSE IF failed THEN "Failed" ELSE "Success"
    /\ patchPc' = "done"
    /\ UNCHANGED <<cancel, systemVars, reportVars, operation, failed, cancelled>>

PatchStep ==
    \/ ParseParams
    \/ \E r \in Returnable :
        Refresh(r) \/ Scan(r) \/ Install(r) \/ Rescan(r) \/ CountPackages(r)
    \/ PutInventory
    \/ Verdict

-----------------------------------------------------------------------------
(* Properties.                                                             *)

\* A Success has its compliance record; an installation was all of pkgman's transaction, and
\* a run that saw nothing to install has installed nothing.  The record names as installed
\* exactly what this run installed if the scan listed exactly what pkgman then did: the code
\* reports the list of the scan, so a scan cut short makes a record that tells less, or more.
SuccessIsRecorded ==
    patchStatus = "Success" =>
        /\ record # NoRecord
        /\ operation = "Install" /\ available # {} => pending = {}
        /\ available = {} => applied = {}
        /\ available = pending \cup applied => record.installed = applied

\* The record never calls an update missing that is installed, neither one this run has just
\* installed nor an older one, except by a name that a cut line of the last scan gave.
NothingInstalledIsMissing == record # NoRecord => record.missing \subseteq pending \cup cut

\* design-roadmap.md, "what is still pending is Missing": the record of a Success lists
\* every pending update.
PendingIsMissing == patchStatus = "Success" => pending \subseteq record.missing
=============================================================================
