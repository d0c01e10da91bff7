------------------------------ MODULE Updater ------------------------------
(***************************************************************************)
(* Updates of the desktop shell (apps/desktop/src/updater.ts, with         *)
(* constants.ts and main.ts): a check downloads the published web bundle  *)
(* beside the one in use and writes a pointer that the next launch follows.*)
(*                                                                         *)
(* Of a bundle it matters whether it is whole, or has lost files but not   *)
(* its index.html: a directory without index.html is as good as none.      *)
(* Hashes, manifests and windows are left out.                             *)
(***************************************************************************)
CONSTANTS
    Releases,
    Installed,    \* the version of the bundle of the installer, if it has one
    NoVersion

ASSUME UpdaterConstantsOK == Installed \in Releases \cup {NoVersion} /\ NoVersion \notin Releases

VARIABLES
    manifest,    \* the version that is published
    running,     \* what the session is served from: nothing, the installer's bundle, or a download
    bundle,      \* updates/<version>
    pointer,     \* updates/current.json
    check,       \* inFlight: its stage, its version, and how much of it is in the .tmp directory
    pending,     \* pendingUpdateVersion
    taken        \* history: versions that a pruning has removed, wholly or in part, since they were staged

pvars == <<manifest, running, bundle, pointer, check, pending, taken>>

NotRunning == [from |-> "nothing", version |-> NoVersion]
FromInstaller == [from |-> "installer", version |-> Installed]
FromDownload(v) == [from |-> "download", version |-> v]

NotChecking == [stage |-> "idle", version |-> NoVersion, got |-> "none"]

UpdaterInit ==
    /\ manifest \in Releases
    /\ running = NotRunning
    /\ bundle = [v \in Releases |-> "none"]
    /\ pointer = NoVersion
    /\ check = NotChecking
    /\ pending = NoVersion
    /\ taken = {}

isValidBundle(v) == bundle[v] # "none"

(* The pointer is followed if there is something at its end. *)
resolveDistDir == IF pointer # NoVersion /\ isValidBundle(pointer) THEN FromDownload(pointer) ELSE FromInstaller

(* The version file of a bundle that has lost files may be among the lost. *)
getActiveVersion ==
    {resolveDistDir.version}
    \cup (IF resolveDistDir.from = "download" /\ bundle[pointer] = "part" THEN {NoVersion} ELSE {})

----------------------------------------------------------------------------
(* The application. *)

Launch ==
    /\ running = NotRunning
    /\ running' = resolveDistDir
    /\ check' = [NotChecking EXCEPT !.stage = "asking"]
    /\ UNCHANGED <<manifest, bundle, pointer, pending, taken>>

(* The button and the menu; a check in flight is joined. *)
checkForUpdates ==
    /\ running # NotRunning /\ check = NotChecking
    /\ check' = [NotChecking EXCEPT !.stage = "asking"]
    /\ UNCHANGED <<manifest, running, bundle, pointer, pending, taken>>

(* Quitting, relaunching or dying; a death may cut the writing of the pointer. *)
Stop ==
    /\ running # NotRunning
    /\ running' = NotRunning
    /\ check' = NotChecking
    /\ pending' = NoVersion
    /\ pointer' \in {pointer} \cup (IF check.stage = "staged" THEN {NoVersion} ELSE {})
    /\ UNCHANGED <<manifest, bundle, taken>>

(* A deployment, or the return to an earlier one. *)
Publish(v) ==
    /\ manifest' = v
    /\ UNCHANGED <<running, bundle, pointer, check, pending, taken>>

----------------------------------------------------------------------------
(* runCheck. *)

(* A bundle that is there already is not downloaded again: only its pointer is missing. *)
GotManifest ==
    /\ check.stage = "asking"
    /\ \E active \in getActiveVersion :
          check' = IF manifest = active THEN NotChecking
                   ELSE IF isValidBundle(manifest)
                   THEN [stage |-> "staged", version |-> manifest, got |-> "none"]
                   ELSE [stage |-> "downloading", version |-> manifest, got |-> "part"]
    /\ UNCHANGED <<manifest, running, bundle, pointer, pending, taken>>

(* A faulty form: a file that fails its hash is skipped. *)
DownloadedUnverified ==
    /\ check.stage = "downloading"
    /\ \E got \in {"part", "whole"} : check' = [check EXCEPT !.stage = "downloaded", !.got = got]
    /\ UNCHANGED <<manifest, running, bundle, pointer, pending, taken>>

(* Every file has come, with the hash that the manifest gives. *)
Downloaded ==
    /\ check.stage = "downloading"
    /\ check' = [check EXCEPT !.stage = "downloaded", !.got = "whole"]
    /\ UNCHANGED <<manifest, running, bundle, pointer, pending, taken>>

(* The .tmp directory takes the place of whatever was there. *)
Promoted ==
    /\ check.stage = "downloaded"
    /\ bundle' = [bundle EXCEPT ![check.version] = check.got]
    /\ taken' = taken \ {check.version}
    /\ check' = [check EXCEPT !.stage = "staged", !.got = "none"]
    /\ UNCHANGED <<manifest, running, pointer, pending>>

PointerWritten ==
    /\ check.stage = "staged"
    /\ pointer' = check.version
    /\ check' = [check EXCEPT !.stage = "pointed"]
    /\ UNCHANGED <<manifest, running, bundle, pending, taken>>

(* The directories of all other versions are removed, that of the session included.
   A removal may fail, before it starts or in the midst of it. *)
pruneOldVersions(keep) ==
    /\ bundle' \in [Releases -> {"none", "part", "whole"}]
    /\ \A v \in Releases :
          \/ bundle'[v] = bundle[v]
          \/ v # keep /\ isValidBundle(v) /\ bundle'[v] # "whole"
    /\ taken' = taken \cup {v \in Releases : bundle'[v] # bundle[v]}

Announced ==
    /\ check.stage = "pointed"
    /\ pruneOldVersions(check.version)
    /\ pending' = check.version
    /\ check' = NotChecking
    /\ UNCHANGED <<manifest, running, pointer>>

(* A request, a hash or a write fails: everything is tried again another time. *)
UpdateCheckFails ==
    /\ check.stage \in {"asking", "downloading", "downloaded", "staged"}
    /\ check' = NotChecking
    /\ pointer' \in {pointer} \cup (IF check.stage = "staged" THEN {NoVersion} ELSE {})
    /\ UNCHANGED <<manifest, running, bundle, pending, taken>>

UpdaterNext ==
    \/ Launch \/ checkForUpdates \/ Stop
    \/ \E v \in Releases : Publish(v)
    \/ GotManifest \/ Downloaded \/ Promoted \/ PointerWritten \/ Announced \/ UpdateCheckFails

UpdaterSpec == UpdaterInit /\ [][UpdaterNext]_pvars

----------------------------------------------------------------------------

UpdaterTypeOK ==
    /\ manifest \in Releases
    /\ running \in {NotRunning, FromInstaller} \cup {FromDownload(v) : v \in Releases}
    /\ bundle \in [Releases -> {"none", "part", "whole"}]
    /\ {pointer, pending} \subseteq Releases \cup {NoVersion}
    /\ check \in [stage : {"idle", "asking", "downloading", "downloaded", "staged", "pointed"},
                  version : Releases \cup {NoVersion}, got : {"none", "part", "whole"}]
    /\ taken \subseteq Releases

(* "A failed check never breaks the app" (updater.ts:13): wherever a check fails or
   the app dies, and whatever is published meanwhile, the pointer leads to a bundle,
   and the bundle it leads to, that of the session and one that a check is about to
   point to are whole; and once an update has been announced, and while no later check
   is under way, the next launch is served from it (updater.ts:228).  Excepted are
   bundles that a pruning has been at, and a pointer whose writing was cut. *)
ServesWhole ==
    /\ pointer # NoVersion => isValidBundle(pointer)
    /\ \A v \in Releases \ taken :
          v = pointer \/ running = FromDownload(v) \/ (check.version = v /\ check.stage \in {"staged", "pointed"})
              => bundle[v] = "whole"
    /\ pending # NoVersion /\ pointer # NoVersion /\ check = NotChecking => resolveDistDir = FromDownload(pending)
=============================================================================
