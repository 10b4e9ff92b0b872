-------------------------- MODULE SelfUpdateProofs --------------------------
(***************************************************************************)
(* Machine-checked proofs about SelfUpdate, for any number of versions and *)
(* of crashes.                                                             *)
(*                                                                         *)
(* No property of SelfUpdate is inductive by itself.  That what is put     *)
(* back is whole needs the checksum carried from verify to the renames     *)
(* (StageInv); that there is something to put back needs the copy beside   *)
(* the binary (CopyToFallBackOn); and that the daemon never goes back      *)
(* needs the same of the file it is kept in (VersionInv), and of the build *)
(* that passed the checksum.                                               *)
(*                                                                         *)
(* From that follows that an update is atomic (AtomicUpdate): the file to  *)
(* run is the one in place or, without one, the one beside it, so the      *)
(* first rename keeps it, the second one is the update, and the third one  *)
(* puts back what was kept.                                                *)
(***************************************************************************)
EXTENDS SelfUpdate, TLAPS

Swapping == {"swap", "restore"}
Checked  == {"install", "place", "copy", "save", "swap"}

\* An update under way follows a newer manifest than the daemon, which is up; what passed the
\* checksum stays what it was until it is in place, and is older than its manifest says only
\* if that was noted.
StageInv ==
    /\ pc # "idle" => up /\ want.version > running
    /\ pc \in {"install", "place", "copy"} => artifact = Whole(want.build)
    /\ pc \in Checked => want.build >= want.version \/ "label" \in mishaps

\* The version that is kept is not older than the daemon.
VersionInv == mishaps \cap {"stale", "label"} = {} => Kept.version >= running

\* A copy is left, in its place or beside it.
CopyToFallBackOn == binary # NoFile \/ old # NoFile

FilesInv == InstalledIsWhole /\ ServiceCanRestart /\ CopyToFallBackOn /\ VersionInv

Inv == TypeOK /\ StageInv /\ FilesInv

\* A complete file is a file, and has the version it was built from.
LEMMA WholeFile ==
    ASSUME NEW v \in Versions
    PROVE  /\ Whole(v) \in Files /\ Whole(v) # NoFile
           /\ Whole(v).version = v /\ Whole(v).whole = TRUE
  <1>1. Whole(v) \in Files
    BY DEF Whole, Files, Versions
  <1>2. Whole(v) # NoFile
    <2>1. Whole(v) \in [version : 0..MaxVersion, whole : BOOLEAN]
      BY VersionAssumption DEF Whole, Versions
    <2>2. QED
      BY <2>1, NoFileAssumption
  <1>3. QED
    BY <1>1, <1>2 DEF Whole

\* The same for an incomplete one.
LEMMA PartFile == Part \in Files
  BY DEF Part, Files

\* A complete one of the files is that of a version.
LEMMA FileFields ==
    ASSUME NEW f \in Files, f.whole
    PROVE  f.version \in Versions
  <1>1. Part.whole = FALSE
    BY DEF Part
  <1>2. PICK v \in Versions : f = Whole(v)
    BY <1>1 DEF Files
  <1>3. QED
    BY <1>2, WholeFile

\* The fields of a manifest.
LEMMA ManifestFields ==
    ASSUME NEW m \in Manifests
    PROVE  m.version \in Versions /\ m.build \in Versions
  BY DEF Manifests

\* The initial states satisfy the invariant.
LEMMA InvInit == Init => Inv
  <1> SUFFICES ASSUME Init PROVE Inv
    OBVIOUS
  <1>1. 1 \in Versions
    BY VersionAssumption DEF Versions
  <1>2. Whole(1) \in Files /\ Whole(1) # NoFile /\ Whole(1).version = 1 /\ Whole(1).whole = TRUE
    BY <1>1, WholeFile
  <1>3. TypeOK
    <2>1. manifest \in Manifests /\ want \in Manifests /\ running \in Versions
      BY <1>1 DEF Init, Manifests
    <2>2. {binary, old, fresh, artifact} \subseteq Files \cup {NoFile}
      BY <1>2 DEF Init
    <2>3. crashes \in 0..MaxCrashes
      BY VersionAssumption DEF Init
    <2>4. QED
      BY <2>1, <2>2, <2>3 DEF Init, TypeOK
  <1>4. StageInv
    BY DEF Init, StageInv, Checked
  <1>5. FilesInv
    BY <1>2 DEF Init, FilesInv, InstalledIsWhole, ServiceCanRestart, CopyToFallBackOn, VersionInv,
                Kept
  <1>6. QED
    BY <1>3, <1>4, <1>5 DEF Inv

\* What passed the checksum is a complete file, and, unless the manifest called it newer than
\* it is, not older than the daemon.
LEMMA CheckedFile ==
    ASSUME Inv, pc \in Checked, NEW f, f = Whole(want.build)
    PROVE  /\ f \in Files /\ f # NoFile /\ f.whole /\ f.version = want.build
           /\ f.version >= running \/ "label" \in mishaps
  <1>1. want.version \in Versions /\ want.build \in Versions /\ running \in Versions
    BY ManifestFields DEF Inv, TypeOK
  <1>2. want.version > running /\ (want.build >= want.version \/ "label" \in mishaps)
    BY DEF Inv, StageInv, Checked
  <1>3. f \in Files /\ f # NoFile /\ f.whole /\ f.version = want.build
    BY <1>1, WholeFile
  <1>4. want.build >= want.version => want.build >= running
    BY <1>1, <1>2 DEF Versions
  <1>5. QED
    BY <1>2, <1>3, <1>4

\* Steps that leave the binary, the .old and the daemon's version alone.
LEMMA FilesStay ==
    ASSUME Inv, UNCHANGED <<binary, old, running>>, mishaps \subseteq mishaps',
           pc \in Swapping /\ pc' \notin Swapping =>
               binary # NoFile \/ mishaps' \cap {"crash", "rename"} # {}
    PROVE  FilesInv'
  BY DEF Inv, FilesInv, InstalledIsWhole, ServiceCanRestart, CopyToFallBackOn, VersionInv, Kept,
         Swapping

\* A step that puts what passed the checksum in the place of the binary.
LEMMA FilesReplaced ==
    ASSUME Inv, pc \in Checked, NEW f, f = Whole(want.build), binary' = f,
           UNCHANGED <<old, running, mishaps>>
    PROVE  FilesInv'
  <1>1. f # NoFile /\ f.whole /\ (f.version >= running \/ "label" \in mishaps)
    BY CheckedFile
  <1>2. InstalledIsWhole'
    BY <1>1 DEF Inv, FilesInv, InstalledIsWhole
  <1>3. ServiceCanRestart' /\ CopyToFallBackOn'
    BY <1>1 DEF ServiceCanRestart, CopyToFallBackOn
  <1>4. VersionInv'
    BY <1>1 DEF VersionInv, Kept
  <1>5. QED
    BY <1>2, <1>3, <1>4 DEF FilesInv

\* Every step preserves the invariant.
LEMMA InvNext == Inv /\ [Next]_vars => Inv'
  <1> SUFFICES ASSUME Inv, [Next]_vars PROVE Inv'
    OBVIOUS
  <1>a. TypeOK /\ StageInv
    BY DEF Inv
  <1>b. /\ want.version \in Versions /\ want.build \in Versions /\ running \in Versions
        /\ manifest.version \in Versions /\ manifest.build \in Versions
    BY <1>a, ManifestFields DEF TypeOK
  <1> USE DEF Step, KeepRest, KeepOthers, files, daemon
  <1>1. CASE Publish
    <2>1. TypeOK'
      BY <1>1, <1>a DEF Publish, TypeOK
    <2>2. StageInv'
      BY <1>1, <1>a, <1>b DEF Publish, StageInv, Checked
    <2>3. FilesInv'
      BY <1>1, FilesStay DEF Publish, Swapping
    <2>4. QED
      BY <2>1, <2>2, <2>3 DEF Inv
  <1>2. CASE Check
    <2>1. TypeOK'
      BY <1>2, <1>a DEF Check, TypeOK
    <2>2. StageInv'
      BY <1>2, <1>a, <1>b DEF Check, StageInv, Checked, Newer, Versions
    <2>3. FilesInv'
      BY <1>2, FilesStay DEF Check, Swapping
    <2>4. QED
      BY <2>1, <2>2, <2>3 DEF Inv
  <1>3. CASE Download
    <2>1. TypeOK'
      BY <1>3, <1>a DEF Download, TypeOK
    <2>2. StageInv'
      BY <1>3, <1>a, <1>b DEF Download, StageInv, Checked
    <2>3. FilesInv'
      BY <1>3, FilesStay DEF Download, Swapping
    <2>4. QED
      BY <2>1, <2>2, <2>3 DEF Inv
  <1>4. CASE DownloadFails
    <2>1. TypeOK'
      BY <1>4, <1>a, PartFile DEF DownloadFails, TypeOK
    <2>2. StageInv'
      BY <1>4, <1>a, <1>b DEF DownloadFails, StageInv, Checked
    <2>3. FilesInv'
      BY <1>4, FilesStay DEF DownloadFails, Swapping
    <2>4. QED
      BY <2>1, <2>2, <2>3 DEF Inv
  <1>5. CASE Verify
    <2>1. TypeOK'
      BY <1>5, <1>a DEF Verify, TypeOK, Mishaps
    <2>2. StageInv'
      BY <1>5, <1>a, <1>b DEF Verify, StageInv, Checked, ChecksumMatches, Versions
    <2>3. FilesInv'
      BY <1>5, FilesStay DEF Verify, Swapping
    <2>4. QED
      BY <2>1, <2>2, <2>3 DEF Inv
  <1>6. CASE VerifyFails
    <2>1. TypeOK'
      BY <1>6, <1>a DEF VerifyFails, TypeOK
    <2>2. StageInv'
      BY <1>6, <1>a, <1>b DEF VerifyFails, StageInv, Checked
    <2>3. FilesInv'
      BY <1>6, FilesStay DEF VerifyFails, Swapping
    <2>4. QED
      BY <2>1, <2>2, <2>3 DEF Inv
  <1>7. CASE Install
    <2>1. artifact = Whole(want.build) /\ pc \in Checked
      BY <1>7, <1>a DEF Install, StageInv, Checked
    <2>2. artifact \in Files
      BY <2>1, CheckedFile
    <2>3. TypeOK'
      BY <1>7, <1>a, <2>2 DEF Install, TypeOK
    <2>4. StageInv'
      BY <1>7, <1>a DEF Install, StageInv, Checked
    <2>5. FilesInv'
      BY <1>7, <2>1, FilesReplaced DEF Install
    <2>6. QED
      BY <2>3, <2>4, <2>5 DEF Inv
  <1>8. CASE InstallFails
    <2>1. artifact = Whole(want.build) /\ pc \in Checked
      BY <1>8, <1>a DEF InstallFails, StageInv, Checked
    <2>2. artifact \in Files
      BY <2>1, CheckedFile
    <2>3. TypeOK'
      BY <1>8, <1>a, <2>2 DEF InstallFails, TypeOK
    <2>4. StageInv'
      BY <1>8, <1>a DEF InstallFails, StageInv, Checked
    <2>5. FilesInv'
      <3>1. CASE binary' = artifact
        BY <1>8, <2>1, <3>1, FilesReplaced DEF InstallFails
      <3>2. CASE binary' = binary
        BY <1>8, <3>2, FilesStay DEF InstallFails, Swapping
      <3>3. QED
        BY <1>8, <3>1, <3>2 DEF InstallFails
    <2>6. QED
      BY <2>3, <2>4, <2>5 DEF Inv
  <1>9. CASE Place
    <2>1. TypeOK'
      BY <1>9, <1>a DEF Place, TypeOK, StageInv
    <2>2. StageInv'
      BY <1>9, <1>a, <1>b DEF Place, StageInv, Checked
    <2>3. FilesInv'
      BY <1>9, FilesStay DEF Place, Swapping
    <2>4. QED
      BY <2>1, <2>2, <2>3 DEF Inv
  <1>10. CASE StartCopy
    <2>1. TypeOK'
      BY <1>10, <1>a, PartFile DEF StartCopy, TypeOK
    <2>2. StageInv'
      BY <1>10, <1>a, <1>b DEF StartCopy, StageInv, Checked
    <2>3. FilesInv'
      BY <1>10, FilesStay DEF StartCopy, Swapping
    <2>4. QED
      BY <2>1, <2>2, <2>3 DEF Inv
  <1>11. CASE Copy
    <2>1. TypeOK'
      BY <1>11, <1>a DEF Copy, TypeOK, StageInv
    <2>2. StageInv'
      BY <1>11, <1>a, <1>b DEF Copy, StageInv, Checked
    <2>3. FilesInv'
      BY <1>11, FilesStay DEF Copy, Swapping
    <2>4. QED
      BY <2>1, <2>2, <2>3 DEF Inv
  <1>12. CASE CopyFails
    <2>1. TypeOK'
      BY <1>12, <1>a DEF CopyFails, TypeOK
    <2>2. StageInv'
      BY <1>12, <1>a, <1>b DEF CopyFails, StageInv, Checked
    <2>3. FilesInv'
      BY <1>12, FilesStay DEF CopyFails, Swapping
    <2>4. QED
      BY <2>1, <2>2, <2>3 DEF Inv
  <1>13. CASE Save
    <2>1. TypeOK'
      BY <1>13, <1>a DEF Save, SaveOld, TypeOK
    <2>2. StageInv'
      BY <1>13, <1>a DEF Save, StageInv, Checked
    <2>3. binary # NoFile /\ binary' = NoFile /\ old' = binary
      BY <1>13 DEF Save, SaveOld
    <2>4. FilesInv'
      BY <1>13, <2>3 DEF Save, Inv, FilesInv, InstalledIsWhole, ServiceCanRestart,
                        CopyToFallBackOn, VersionInv, Kept
    <2>5. QED
      BY <2>1, <2>2, <2>4 DEF Inv
  <1>14. CASE SaveFails
    <2>1. TypeOK'
      BY <1>14, <1>a DEF SaveFails, TypeOK
    <2>2. StageInv'
      BY <1>14, <1>a, <1>b DEF SaveFails, StageInv, Checked
    <2>3. FilesInv'
      BY <1>14, FilesStay DEF SaveFails, Swapping
    <2>4. QED
      BY <2>1, <2>2, <2>3 DEF Inv
  <1>15. CASE Swap
    <2>1. fresh = Whole(want.build) /\ pc \in Checked
      BY <1>15, <1>a DEF Swap, TypeOK, Checked
    <2>2. TypeOK'
      BY <1>15, <1>a DEF Swap, TypeOK
    <2>3. StageInv'
      BY <1>15, <1>a DEF Swap, StageInv, Checked
    <2>4. FilesInv'
      BY <1>15, <2>1, FilesReplaced DEF Swap
    <2>5. QED
      BY <2>2, <2>3, <2>4 DEF Inv
  <1>16. CASE SwapFails
    <2>1. TypeOK'
      BY <1>16, <1>a DEF SwapFails, TypeOK
    <2>2. StageInv'
      BY <1>16, <1>a, <1>b DEF SwapFails, StageInv, Checked
    <2>3. FilesInv'
      BY <1>16, FilesStay DEF SwapFails, Swapping
    <2>4. QED
      BY <2>1, <2>2, <2>3 DEF Inv
  <1>17. CASE Restore
    <2>1. TypeOK'
      BY <1>17, <1>a DEF Restore, PutOldBack, TypeOK, Mishaps
    <2>2. StageInv'
      BY <1>17, <1>a DEF Restore, StageInv, Checked
    <2>3. old # NoFile /\ binary' = old /\ old' = NoFile
      BY <1>17 DEF Restore, PutOldBack
    <2>4. InstalledIsWhole' /\ ServiceCanRestart' /\ CopyToFallBackOn'
      BY <2>3 DEF Inv, FilesInv, InstalledIsWhole, ServiceCanRestart, CopyToFallBackOn
    <2>5. VersionInv'
      <3>1. CASE binary = NoFile
        <4>1. Kept' = Kept /\ UNCHANGED <<running, mishaps>>
          BY <1>17, <2>3, <3>1 DEF Restore, Kept
        <4>2. QED
          BY <4>1 DEF Inv, FilesInv, VersionInv
      <3>2. CASE binary # NoFile
        BY <1>17, <3>2 DEF Restore, VersionInv
      <3>3. QED
        BY <3>1, <3>2
    <2>6. QED
      BY <2>1, <2>2, <2>4, <2>5 DEF Inv, FilesInv
  <1>18. CASE RestoreFails
    <2>1. TypeOK'
      BY <1>18, <1>a DEF RestoreFails, TypeOK, Mishaps
    <2>2. StageInv'
      BY <1>18, <1>a, <1>b DEF RestoreFails, StageInv, Checked
    <2>3. FilesInv'
      BY <1>18, FilesStay DEF RestoreFails, Swapping
    <2>4. QED
      BY <2>1, <2>2, <2>3 DEF Inv
  <1>19. CASE Clean
    <2>1. TypeOK'
      BY <1>19, <1>a DEF Clean, TypeOK
    <2>2. StageInv'
      BY <1>19, <1>a, <1>b DEF Clean, StageInv, Checked
    <2>3. FilesInv'
      BY <1>19, FilesStay DEF Clean, Swapping
    <2>4. QED
      BY <2>1, <2>2, <2>3 DEF Inv
  <1>20. CASE Restart
    <2>1. TypeOK'
      BY <1>20, <1>a DEF Restart, TypeOK
    <2>2. StageInv'
      BY <1>20, <1>a, <1>b DEF Restart, StageInv, Checked
    <2>3. FilesInv'
      BY <1>20, FilesStay DEF Restart, Swapping
    <2>4. QED
      BY <2>1, <2>2, <2>3 DEF Inv
  <1>21. CASE RestartFails
    <2>1. TypeOK'
      BY <1>21, <1>a DEF RestartFails, TypeOK
    <2>2. StageInv'
      BY <1>21, <1>a, <1>b DEF RestartFails, StageInv, Checked
    <2>3. FilesInv'
      BY <1>21, FilesStay DEF RestartFails, Swapping
    <2>4. QED
      BY <2>1, <2>2, <2>3 DEF Inv
  <1>22. CASE Crash
    <2>1. TypeOK'
      <3>1. crashes' \in 0..MaxCrashes
        BY <1>22, <1>a, VersionAssumption DEF Crash, TypeOK
      <3>2. QED
        BY <1>22, <1>a, <3>1 DEF Crash, TypeOK, Mishaps
    <2>2. StageInv'
      BY <1>22 DEF Crash, StageInv, Checked
    <2>3. FilesInv'
      BY <1>22, FilesStay DEF Crash, Swapping
    <2>4. QED
      BY <2>1, <2>2, <2>3 DEF Inv
  <1>23. CASE Boot
    <2>1. binary \in Files /\ binary # NoFile /\ binary.whole /\ binary.version \in Versions
      BY <1>23, <1>a, FileFields DEF Boot, TypeOK, Inv, FilesInv, InstalledIsWhole
    <2>2. TypeOK'
      BY <1>23, <1>a, <2>1 DEF Boot, TypeOK
    <2>3. pc = "idle" /\ pc' = "idle"
      BY <1>23, <1>a DEF Boot, StageInv
    <2>4. StageInv'
      BY <2>3 DEF StageInv, Checked
    <2>5. InstalledIsWhole' /\ ServiceCanRestart' /\ CopyToFallBackOn'
      BY <1>23, <2>1 DEF Boot, Inv, FilesInv, InstalledIsWhole, ServiceCanRestart, CopyToFallBackOn
    <2>6. VersionInv'
      BY <1>23, <2>1 DEF Boot, VersionInv, Kept, Versions
    <2>7. QED
      BY <2>2, <2>4, <2>5, <2>6 DEF Inv, FilesInv
  <1>24. CASE UNCHANGED vars
    <2>1. TypeOK' /\ StageInv'
      BY <1>24, <1>a DEF vars, TypeOK, StageInv
    <2>2. FilesInv'
      BY <1>24, FilesStay DEF vars, Swapping
    <2>3. QED
      BY <2>1, <2>2 DEF Inv
  <1>25. QED
    BY <1>1, <1>2, <1>3, <1>4, <1>5, <1>6, <1>7, <1>8, <1>9, <1>10, <1>11, <1>12,
       <1>13, <1>14, <1>15, <1>16, <1>17, <1>18, <1>19, <1>20, <1>21, <1>22, <1>23, <1>24
    DEF Next

\* The invariant holds throughout.
THEOREM Invariance == Spec => []Inv
  <1>1. QED
    BY InvInit, InvNext, PTL DEF Spec

\* The state is well formed.
THEOREM TypeCorrect == Spec => []TypeOK
  <1>1. Inv => TypeOK
    BY DEF Inv
  <1>2. QED
    BY <1>1, Invariance, PTL

\* What may be started or put back is complete.
THEOREM OnlyWholeFiles == Spec => []InstalledIsWhole
  <1>1. Inv => InstalledIsWhole
    BY DEF Inv, FilesInv
  <1>2. QED
    BY <1>1, Invariance, PTL

\* Unless a crash came between the two renames of a swap, or the one that puts the binary back
\* failed without one, the service can be started again.
THEOREM BinaryIsKept == Spec => []ServiceCanRestart
  <1>1. Inv => ServiceCanRestart
    BY DEF Inv, FilesInv
  <1>2. QED
    BY <1>1, Invariance, PTL

\* Whenever it crashes and whichever renames fail, a complete binary is left, in its place or
\* beside it.
THEOREM RollbackIsKept == Spec => [](CopyToFallBackOn /\ InstalledIsWhole)
  <1>1. Inv => CopyToFallBackOn /\ InstalledIsWhole
    BY DEF Inv, FilesInv
  <1>2. QED
    BY <1>1, Invariance, PTL

\* The version of the daemon changes only when it is started, from a file that is not older.
LEMMA StartsForward ==
    ASSUME Inv, [Next]_vars, mishaps \cap {"stale", "label"} = {}
    PROVE  running' >= running
  <1>1. running \in Versions
    BY DEF Inv, TypeOK
  <1>2. CASE Boot
    BY <1>2 DEF Boot, Inv, FilesInv, VersionInv, Kept
  <1>3. CASE running' = running
    BY <1>1, <1>3 DEF Versions
  <1>4. CASE UNCHANGED vars
    BY <1>3, <1>4 DEF vars, daemon
  <1>5. ASSUME Next, ~Boot PROVE running' = running
    BY <1>5 DEF Next, Publish, Check, Download, DownloadFails, Verify, VerifyFails, Install,
         InstallFails, Place, StartCopy, Copy, CopyFails, Save, SaveFails, Swap, SwapFails,
         Restore, RestoreFails, Clean, Restart, RestartFails, Crash, KeepRest, KeepOthers, daemon
  <1>6. QED
    BY <1>2, <1>3, <1>4, <1>5

\* The daemon never runs an older version than before, except after a manifest that called a
\* build newer than it is, or a stale .old put over the binary.
THEOREM NeverBackwards == Spec => RunsForward
  <1>1. Inv /\ [Next]_vars => [mishaps \cap {"stale", "label"} = {} => running' >= running]_vars
    BY StartsForward
  <1>2. QED
    BY <1>1, Invariance, PTL DEF Spec, RunsForward

-----------------------------------------------------------------------------
(* An update is atomic.                                                    *)

\* The file to start is always there and complete.
LEMMA KeptIsWhole == Inv => Kept # NoFile /\ Kept.whole /\ VersionOf(Kept) = Kept.version
  BY DEF Inv, FilesInv, InstalledIsWhole, CopyToFallBackOn, Kept, VersionOf

\* So is the one beside it, if there is one.
LEMMA OldIsWhole == Inv /\ old # NoFile => VersionOf(old) = old.version /\ VersionOf(old) # 0
  <1>1. ASSUME Inv, old # NoFile PROVE old.whole /\ old.version \in Versions
    BY <1>1, FileFields DEF Inv, TypeOK, FilesInv, InstalledIsWhole
  <1>2. QED
    BY <1>1 DEF VersionOf, Versions

\* As long as the files stay, and the manifest that is followed, and the daemon stays up or
\* down, nothing has happened.
LEMMA NothingHappened ==
    ASSUME UNCHANGED <<binary, old, want, running, up>>
    PROVE  UNCHANGED Update!vars
  BY DEF Update!vars, Kept, VersionOf

\* The version to run is replaced at once by what passed the checksum.
LEMMA NewFileReplaces ==
    ASSUME Inv, pc \in Checked, NEW f, f = Whole(want.build), binary' = f,
           UNCHANGED <<old, want, running, up>>
    PROVE  Update!Replace
  <1>1. f # NoFile /\ f.whole /\ f.version = want.build
    BY CheckedFile
  <1>2. Kept' = f
    BY <1>1 DEF Kept
  <1>3. VersionOf(Kept)' = want.build
    BY <1>1, <1>2 DEF VersionOf
  <1>4. up /\ want.version > running
    BY DEF Inv, StageInv, Checked
  <1>5. VersionOf(old)' = VersionOf(old)
    BY DEF VersionOf
  <1>6. QED
    BY <1>3, <1>4, <1>5 DEF Update!Replace

\* A newer manifest is taken up.
LEMMA CheckOrders == Inv /\ Check => Update!Order
  <1> SUFFICES ASSUME Inv, Check PROVE Update!Order
    OBVIOUS
  <1>1. manifest \in Manifests /\ want' = manifest /\ manifest.version > running
    BY DEF Inv, TypeOK, Check, Newer
  <1>2. want' \in [version : {v \in Versions : v > running}, build : Versions]
    BY <1>1 DEF Manifests
  <1>3. up /\ UNCHANGED <<binary, old, running, up>>
    BY DEF Check, Step, files, daemon
  <1>4. QED
    BY <1>2, <1>3 DEF Update!Order, Kept, VersionOf

\* The first rename keeps what is installed, and the third one puts back what was kept.
LEMMA SaveKeeps == Inv /\ Save => Update!Keep
  <1> SUFFICES ASSUME Inv, Save PROVE Update!Keep
    OBVIOUS
  <1>1. /\ binary # NoFile /\ binary' = NoFile /\ old' = binary /\ up
        /\ UNCHANGED <<want, running, up>>
    BY DEF Save, SaveOld, Step, KeepRest, KeepOthers, daemon
  <1>2. Kept = binary /\ Kept' = binary
    BY <1>1 DEF Kept
  <1>3. QED
    BY <1>1, <1>2 DEF Update!Keep, VersionOf

LEMMA RestorePutsBack == Inv /\ Restore => Update!PutBack
  <1> SUFFICES ASSUME Inv, Restore PROVE Update!PutBack
    OBVIOUS
  <1>1. /\ old # NoFile /\ binary' = old /\ old' = NoFile /\ up
        /\ UNCHANGED <<want, running, up>>
    BY DEF Restore, PutOldBack, Step, KeepOthers, daemon
  <1>2. Kept' = old
    BY <1>1 DEF Kept
  <1>3. VersionOf(Kept)' = VersionOf(old) /\ VersionOf(old)' = 0
    BY <1>1, <1>2 DEF VersionOf
  <1>4. QED
    BY <1>1, <1>3, OldIsWhole DEF Update!PutBack

\* Every step is a step of AtomicUpdate, or changes nothing there.
LEMMA UpdateSteps == Inv /\ [Next]_vars => [Update!Next]_(Update!vars)
  <1> SUFFICES ASSUME Inv, [Next]_vars PROVE UNCHANGED Update!vars \/ Update!Next
    BY DEF Update!vars
  <1>1. CASE Publish \/ Download \/ DownloadFails \/ Verify \/ VerifyFails \/ Place
               \/ StartCopy \/ Copy \/ CopyFails \/ SaveFails \/ SwapFails \/ RestoreFails
               \/ Clean \/ RestartFails \/ UNCHANGED vars
    <2>1. UNCHANGED <<binary, old, want, running, up>>
      BY <1>1 DEF Publish, Download, DownloadFails, Verify, VerifyFails, Place, StartCopy, Copy,
                  CopyFails, SaveFails, SwapFails, RestoreFails, Clean, RestartFails, KeepRest,
                  KeepOthers, files, daemon, vars
    <2>2. QED
      BY <2>1, NothingHappened
  <1>2. CASE Install \/ InstallFails
    <2>1. /\ pc \in Checked /\ artifact = Whole(want.build)
          /\ UNCHANGED <<old, want, running, up>> /\ binary' \in {binary, artifact}
      BY <1>2 DEF Install, InstallFails, Step, KeepRest, KeepOthers, daemon, Inv, StageInv, Checked
    <2>2. CASE binary' = artifact
      BY <2>1, <2>2, NewFileReplaces DEF Update!Next
    <2>3. CASE binary' = binary
      BY <2>1, <2>3, NothingHappened
    <2>4. QED
      BY <2>1, <2>2, <2>3
  <1>3. CASE Swap
    <2>1. /\ pc \in Checked /\ fresh = Whole(want.build) /\ binary' = fresh
          /\ UNCHANGED <<old, want, running, up>>
      BY <1>3 DEF Swap, Step, KeepRest, KeepOthers, daemon, Inv, TypeOK, Checked
    <2>2. QED
      BY <2>1, NewFileReplaces DEF Update!Next
  <1>4. CASE Check \/ Save \/ Restore
    BY <1>4, CheckOrders, SaveKeeps, RestorePutsBack DEF Update!Next
  <1>5. CASE Restart \/ Crash
    <2>1. up = TRUE /\ up' = FALSE /\ UNCHANGED <<binary, old, want, running>>
      BY <1>5 DEF Restart, Crash, files, Inv, TypeOK
    <2>2. Update!Stop
      BY <2>1 DEF Update!Stop, Kept, VersionOf
    <2>3. QED
      BY <2>2 DEF Update!Next
  <1>6. CASE Boot
    <2>1. /\ ~up /\ up' = TRUE /\ binary # NoFile /\ running' = binary.version
          /\ UNCHANGED <<binary, old, want>>
      BY <1>6 DEF Boot, files
    <2>2. running' = VersionOf(Kept)
      BY <2>1, KeptIsWhole DEF Kept
    <2>3. Update!Start
      BY <2>1, <2>2 DEF Update!Start, Kept, VersionOf
    <2>4. QED
      BY <2>3 DEF Update!Next
  <1>7. QED
    BY <1>1, <1>2, <1>3, <1>4, <1>5, <1>6 DEF Next

\* check_and_apply, the restart and whatever crash or failing rename comes between its steps
\* implement the update in one step of AtomicUpdate.
THEOREM UpdateIsAtomic == Spec => ImplementsUpdate
  <1>1. Init => Update!Init
    <2>1. ASSUME Init PROVE Kept = Whole(1) /\ VersionOf(Whole(1)) = 1 /\ VersionOf(old) = 0
      <3>1. 1 \in Versions
        BY VersionAssumption DEF Versions
      <3>2. /\ binary = Whole(1) /\ old = NoFile
            /\ Whole(1) # NoFile /\ Whole(1).whole /\ Whole(1).version = 1
        BY <2>1, <3>1, WholeFile DEF Init
      <3>3. QED
        BY <3>2 DEF Kept, VersionOf
    <2>2. QED
      BY <2>1 DEF Init, Update!Init
  <1>2. QED
    BY <1>1, UpdateSteps, Invariance, PTL DEF Spec, ImplementsUpdate, Update!Spec
=============================================================================
