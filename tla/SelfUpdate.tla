----------------------------- MODULE SelfUpdate -----------------------------
(***************************************************************************)
(* The updater thread of the daemon (src/main.cpp) and check_and_apply     *)
(* (src/selfupdate.cpp), with the files they leave behind a crash.         *)
(*                                                                         *)
(* The publisher, the bucket and pkgman are external.  The publisher may   *)
(* go back to an older version, or give a build the wrong version; the     *)
(* object in the bucket may be another one or incomplete.  A file is the   *)
(* version it was built from, or a part of one, which cannot be run.       *)
(* Each rename of a swap may fail, and the result of the first and of the  *)
(* third is not looked at.  A check that finds nothing newer changes       *)
(* nothing and is left out, and so is a second updater, the self-update    *)
(* command.                                                                *)
(***************************************************************************)
EXTENDS Naturals

CONSTANTS
    MaxVersion,     \* bound on the versions published
    MaxCrashes,     \* bound on the crashes
    NoFile          \* no file of that name

ASSUME VersionAssumption == MaxVersion \in Nat \ {0} /\ MaxCrashes \in Nat
ASSUME NoFileAssumption == NoFile \notin [version : 0..MaxVersion, whole : BOOLEAN]

VARIABLES
    manifest,   \* the version the manifest names, and the build whose checksum it has
    packaged,   \* the agent is installed as a package
    binary,     \* the file at binary_path
    old,        \* the file at binary_path.old
    fresh,      \* the file at binary_path.new
    artifact,   \* the download in kWorkDir
    up,         \* the daemon is running
    running,    \* kAgentVersion of the daemon, or of its last run
    pc,         \* the next call of check_and_apply, or "idle"
    want,       \* the manifest that was fetched
    restart,    \* a restart of the service is scheduled
    crashes,    \* crashes so far
    mishaps     \* history: the kinds of Mishaps so far

files  == <<binary, old, fresh, artifact>>
daemon == <<up, running, restart>>
vars   == <<manifest, packaged, files, daemon, pc, want, crashes, mishaps>>

Versions == 1..MaxVersion
Whole(v) == [version |-> v, whole |-> TRUE]
Part == [version |-> 0, whole |-> FALSE]
Files == {Whole(v) : v \in Versions} \cup {Part}
Manifests == [version : Versions, build : Versions]

\* What the properties have to except: a crash that comes when the binary is not in its place,
\* a third rename that fails and leaves it so, a .old of an earlier update put over the
\* binary, and a manifest that calls a build newer than it is.
Mishaps == {"crash", "rename", "stale", "label"}

Init ==
    /\ manifest = [version |-> 1, build |-> 1] /\ packaged \in BOOLEAN
    /\ binary = Whole(1) /\ old = NoFile /\ fresh = NoFile /\ artifact = NoFile
    /\ up = TRUE /\ running = 1 /\ restart = FALSE
    /\ pc = "idle" /\ want = manifest
    /\ crashes = 0 /\ mishaps = {}

Publish ==
    /\ manifest' \in Manifests \ {manifest}
    /\ UNCHANGED <<packaged, files, daemon, pc, want, crashes, mishaps>>

-----------------------------------------------------------------------------
(* check_and_apply.                                                        *)

\* Mutant: any other version is installed.
Differs(v) == v # running

\* Only a version greater than that of the running process.
Newer(v) == v > running

\* The daemon, at `from` of check_and_apply, goes on to `to`.
Step(from, to) == up /\ pc = from /\ pc' = to
KeepOthers == UNCHANGED <<manifest, packaged, daemon, want, crashes>>
KeepRest == KeepOthers /\ UNCHANGED mishaps

Check ==
    /\ Step("idle", "download") /\ Newer(manifest.version)
    /\ want' = manifest
    /\ UNCHANGED <<manifest, packaged, files, daemon, crashes, mishaps>>

\* The object, whatever it is, has been stored.
Download ==
    /\ Step("download", "verify")
    /\ artifact' \in Files
    /\ UNCHANGED <<binary, old, fresh>> /\ KeepRest

\* The download breaks off, and leaves what there is of it.
DownloadFails ==
    /\ Step("download", "idle")
    /\ artifact' \in {artifact, Part}
    /\ UNCHANGED <<binary, old, fresh>> /\ KeepRest

\* Mutant: the checksum is not looked at.
AnyChecksum == TRUE

\* The checksum of the manifest is that of the artifact; nobody compares the versions.
ChecksumMatches == artifact = Whole(want.build)

Verify ==
    /\ Step("verify", IF packaged THEN "install" ELSE "place")
    /\ ChecksumMatches
    /\ mishaps' = IF want.build < want.version THEN mishaps \cup {"label"} ELSE mishaps
    /\ UNCHANGED files /\ KeepOthers

VerifyFails ==
    /\ Step("verify", "idle")
    /\ ~ChecksumMatches
    /\ artifact' = NoFile
    /\ UNCHANGED <<binary, old, fresh>> /\ KeepRest

\* pkgman replaces the package at once.
Install ==
    /\ Step("install", "clean")
    /\ binary' = artifact
    /\ UNCHANGED <<old, fresh, artifact>> /\ KeepRest

\* pkgman fails, or is killed by the timeout before or after it did its work.
InstallFails ==
    /\ Step("install", "idle")
    /\ binary' \in {binary, artifact}
    /\ UNCHANGED <<old, fresh, artifact>> /\ KeepRest

\* A rename on one volume; between two volumes a copy.
Place ==
    /\ Step("place", "save")
    /\ fresh' = artifact /\ artifact' = NoFile
    /\ UNCHANGED <<binary, old>> /\ KeepRest

StartCopy ==
    /\ Step("place", "copy")
    /\ fresh' = Part
    /\ UNCHANGED <<binary, old, artifact>> /\ KeepRest

Copy ==
    /\ Step("copy", "save")
    /\ fresh' = artifact
    /\ UNCHANGED <<binary, old, artifact>> /\ KeepRest

CopyFails ==
    /\ Step("copy", "idle")
    /\ UNCHANGED files /\ KeepRest

\* Mutant: the old binary is removed to make room.
SaveNothing == UNCHANGED old

\* The old binary takes the name .old.
SaveOld == old' = binary

Save ==
    /\ Step("save", "swap") /\ binary # NoFile
    /\ SaveOld /\ binary' = NoFile
    /\ UNCHANGED <<fresh, artifact>> /\ KeepRest

\* The first rename fails: the binary, and the .old of an earlier update, stay what they are.
SaveFails ==
    /\ Step("save", "swap")
    /\ UNCHANGED files /\ KeepRest

\* The second rename, onto a free name or over the binary.
Swap ==
    /\ Step("swap", "clean")
    /\ binary' = fresh /\ fresh' = NoFile
    /\ UNCHANGED <<old, artifact>> /\ KeepRest

SwapFails ==
    /\ Step("swap", "restore")
    /\ UNCHANGED files /\ KeepRest

\* Mutant: nothing is put back.
PutNothingBack == UNCHANGED <<binary, old>>

\* What has the name .old is put back, whether or not it was saved in this update.
PutOldBack == binary' = old /\ old' = NoFile

Restore ==
    /\ Step("restore", "idle") /\ old # NoFile
    /\ PutOldBack
    /\ mishaps' = IF binary # NoFile THEN mishaps \cup {"stale"} ELSE mishaps
    /\ UNCHANGED <<fresh, artifact>> /\ KeepOthers

\* The third rename fails, as the second did.
RestoreFails ==
    /\ Step("restore", "idle")
    /\ mishaps' = IF binary = NoFile THEN mishaps \cup {"rename"} ELSE mishaps
    /\ UNCHANGED files /\ KeepOthers

\* The download is removed, the outcome is Updated, and the updater schedules a restart.
Clean ==
    /\ Step("clean", "idle")
    /\ artifact' = NoFile /\ restart' = TRUE
    /\ UNCHANGED <<binary, old, fresh>>
    /\ UNCHANGED <<manifest, packaged, up, running, want, crashes, mishaps>>

-----------------------------------------------------------------------------
(* The service.                                                            *)

\* launch_roster stops the daemon; main waits for the updater thread.
Restart ==
    /\ restart /\ up /\ pc = "idle"
    /\ up' = FALSE /\ restart' = FALSE
    /\ UNCHANGED <<manifest, packaged, files, running, pc, want, crashes, mishaps>>

RestartFails ==
    /\ restart
    /\ restart' = FALSE
    /\ UNCHANGED <<manifest, packaged, files, up, running, pc, want, crashes, mishaps>>

Crash ==
    /\ up /\ crashes < MaxCrashes
    /\ up' = FALSE /\ pc' = "idle" /\ restart' = FALSE
    /\ crashes' = crashes + 1
    /\ mishaps' = IF binary = NoFile THEN mishaps \cup {"crash"} ELSE mishaps
    /\ UNCHANGED <<manifest, packaged, files, running, want>>

\* launch_daemon starts what is at binary_path.
Boot ==
    /\ ~up /\ binary # NoFile
    /\ up' = TRUE /\ running' = binary.version
    /\ UNCHANGED <<manifest, packaged, files, restart, pc, want, crashes, mishaps>>

-----------------------------------------------------------------------------
Next ==
    \/ Publish
    \/ Check \/ Download \/ DownloadFails \/ Verify \/ VerifyFails
    \/ Install \/ InstallFails
    \/ Place \/ StartCopy \/ Copy \/ CopyFails
    \/ Save \/ SaveFails \/ Swap \/ SwapFails \/ Restore \/ RestoreFails \/ Clean
    \/ Restart \/ RestartFails \/ Crash \/ Boot

Spec == Init /\ [][Next]_vars

-----------------------------------------------------------------------------
(* Properties.                                                             *)

\* The state is well formed, and what the second rename moves passed the checksum.
TypeOK ==
    /\ manifest \in Manifests /\ want \in Manifests /\ running \in Versions
    /\ {binary, old, fresh, artifact} \subseteq Files \cup {NoFile}
    /\ packaged \in BOOLEAN /\ up \in BOOLEAN /\ restart \in BOOLEAN
    /\ pc \in {"idle", "download", "verify", "install", "place", "copy", "save", "swap",
               "restore", "clean"}
    /\ pc \in {"save", "swap"} => fresh = Whole(want.build)
    /\ crashes \in 0..MaxCrashes /\ mishaps \subseteq Mishaps

\* selfupdate.h, "verifies the checksum before anything irreversible": what may be started,
\* or put back, is complete, whatever broke off before: a download, a copy, or the daemon.
InstalledIsWhole == \A f \in {binary, old} \ {NoFile} : f.whole

\* selfupdate.cpp, "Put the old binary back so the service can still restart": outside of a
\* swap there is something to start.  The exceptions, for which the code has no answer: a crash
\* comes between the two renames, or the rename that puts the old binary back fails as well.
ServiceCanRestart ==
    mishaps \cap {"crash", "rename"} = {} /\ pc \notin {"swap", "restore"} => binary # NoFile

\* The file to start, or to put back by hand.
Kept == IF binary # NoFile THEN binary ELSE old
VersionOf(f) == IF f # NoFile /\ f.whole THEN f.version ELSE 0

Update == INSTANCE AtomicUpdate WITH
    installed <- VersionOf(Kept),
    previous  <- VersionOf(old),
    order     <- want

\* selfupdate.cpp, "write beside the target, then rename -- atomic" and "Keep the old one for
\* manual rollback": with a crash or a failure at any point, in place or beside it there is
\* always one complete version; it is replaced in one step, by the build the manifest has the
\* checksum of, and only for a manifest newer than the daemon, or by the version kept before.
ImplementsUpdate == Update!Spec

\* selfupdate.cpp, "a stale or rolled-back manifest cannot make the fleet ping-pong between
\* versions": through restarts and crashes, the daemon never runs an older version than before.
\* The exceptions: a manifest called a build newer than it is, or the first two renames failed
\* and the third put the .old of an earlier update over the binary.
RunsForward == [][mishaps \cap {"stale", "label"} = {} => running' >= running]_vars
=============================================================================
