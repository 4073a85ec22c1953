--------------------------- MODULE LauncherUpdater ---------------------------
(***************************************************************************)
(* The launcher's self-update.  A worker thread checks for a release and,  *)
(* when the user asks, downloads, verifies and unpacks it next to the      *)
(* install (launcher_updater.cpp, release_archive.cpp); once it is staged  *)
(* the window closes and the main thread moves the files in, old ones      *)
(* aside first, and restarts itself (update_install.cpp, main.cpp).  Any   *)
(* file operation may fail and the process may die between any two.        *)
(*                                                                         *)
(* A file's content is the version of the release it came from, 0 when     *)
(* there is no file.                                                       *)
(***************************************************************************)
EXTENDS Integers, Sequences, SequencesExt

CONSTANTS
    OtherFiles,     \* the files of a release besides the executable and VERSION
    MaxVersion      \* releases are numbered 1..MaxVersion

ASSUME UpdaterAssumption ==
    /\ MaxVersion \in Nat \ {0}
    /\ OtherFiles \cap {"repiu", "VERSION"} = {}

Versions == 1..MaxVersion
Corrupt  == MaxVersion + 1          \* bytes that are no release's
Contents == 0..Corrupt
Files    == OtherFiles \cup {"repiu", "VERSION"}
NoFiles  == [f \in Files |-> 0]

Busy      == {"Checking", "Downloading", "Verifying", "Staged"}
Stages    == Busy \cup {"Idle", "UpToDate", "Available", "Failed"}
Working   == {"check", "wipe", "fetch", "verify", "extract"}
Replacing == {"clear", "move", "place", "backOutNew", "backOutOld", "commit"}
MainSteps == Replacing \cup {"down", "cleanup", "listLeft", "create", "spawnCheck", "ui",
                "game", "join", "spawnDownload", "install", "wipeWork", "restart", "closing"}

VARIABLES
    target,         \* the install folder's files
    aside,          \* <name>.repiu-old
    staged,         \* .repiu-update/staged
    staging,        \* whether that folder exists
    archive,        \* the content of the downloaded archive
    leftovers,      \* .repiu-old-files: whose aside names it lists
    build,          \* the version of the running process
    stage,          \* UpdateSnapshot.stage
    latest,         \* UpdateSnapshot.latest_version, 0 when empty
    installable,    \* UpdateSnapshot.installable
    worker,         \* worker_: none, what it does next, or ended and not joined
    pc,             \* what the main thread does next
    todo,           \* the files its loop has still to visit
    cur,            \* the file being replaced, and whether it is moved aside
    steps,          \* InstallStagedFiles' steps
    (* History. *)
    installing,     \* an install has begun and not returned (a crash leaves it so)
    before,         \* the install folder's files when it began
    faulted         \* an install was cut off, or a rename that backs out failed

diskVars   == <<target, aside, staged, staging, archive, leftovers>>
snapVars   == <<stage, latest, installable>>
localVars  == <<todo, cur, steps>>
histVars   == <<installing, before, faulted>>
vars == <<diskVars, build, snapVars, worker, pc, localVars, histVars>>

NoFile == [file |-> "repiu", moved |-> FALSE]

(* Any release, freshly unpacked, and no process. *)
Init ==
    /\ \E v \in Versions : target = [f \in Files |-> v]
    /\ aside = NoFiles /\ staged = NoFiles /\ staging = FALSE /\ archive = 0
    /\ leftovers = {}
    /\ build = 0 /\ stage = "Idle" /\ latest = 0 /\ installable = FALSE
    /\ worker = "none" /\ pc = "down"
    /\ todo = {} /\ cur = NoFile /\ steps = <<>>
    /\ installing = FALSE /\ before = NoFiles /\ faulted = FALSE

-----------------------------------------------------------------------------
(* The session's start: a new process, the leftovers, the updater.         *)

(* A process of the executable now in place; the updater's state is new. *)
NewProcess ==
    /\ target["repiu"] # 0 /\ build' = target["repiu"]
    /\ stage' = "Idle" /\ latest' = 0 /\ installable' = FALSE
    /\ worker' = "none" /\ pc' = "cleanup" /\ todo' = leftovers
    /\ installing' = FALSE /\ before' = NoFiles
    /\ UNCHANGED <<diskVars, cur, steps, faulted>>

Start == pc = "down" /\ NewProcess

(* RemovePreviousInstallLeftovers: each listed file that exists is         *)
(* removed, if the system lets it.                                         *)
RemoveLeftover(f, ok) ==
    /\ pc = "cleanup" /\ f \in todo
    /\ todo' = todo \ {f}
    /\ aside' = IF ok THEN [aside EXCEPT ![f] = 0] ELSE aside
    /\ UNCHANGED <<target, staged, staging, archive, leftovers, build, snapVars,
                   worker, pc, cur, steps, histVars>>

LeftoversVisited ==
    /\ pc = "cleanup" /\ todo = {}
    /\ pc' = "listLeft"
    /\ UNCHANGED <<diskVars, build, snapVars, worker, localVars, histVars>>

(* WriteLeftovers truncates the list and writes it: when a write fails a   *)
(* part is there, and when the file cannot be opened the old list is.      *)
WriteLeftovers(names) == leftovers' \in {leftovers} \cup SUBSET names

ListRemaining ==
    /\ pc = "listLeft"
    /\ WriteLeftovers({f \in leftovers : aside[f] # 0})
    /\ pc' = "create"
    /\ UNCHANGED <<target, aside, staged, staging, archive, build, snapVars, worker,
                   localVars, histVars>>

(* CreateLauncherUpdater, unless checks are off. *)
CreateUpdater(on) ==
    /\ pc = "create"
    /\ pc' = IF on THEN "spawnCheck" ELSE "ui"
    /\ UNCHANGED <<diskVars, build, snapVars, worker, localVars, histVars>>

StartCheck ==
    /\ pc = "spawnCheck"
    /\ stage' = "Checking" /\ latest' = 0 /\ installable' = FALSE
    /\ worker' = "check" /\ pc' = "ui"
    /\ UNCHANGED <<diskVars, build, localVars, histVars>>

-----------------------------------------------------------------------------
(* The worker thread.  A worker that has failed or finished returns; it    *)
(* stays joinable.                                                         *)

Fail == stage' = "Failed" /\ UNCHANGED <<latest, installable>>

WorkerFails(step) ==
    /\ worker = step
    /\ Fail /\ worker' = "ended"
    /\ UNCHANGED <<diskVars, build, pc, localVars, histVars>>

(* CanInstallInto, and whether the release has an archive for this build. *)
CanInstallInto(ok) == ok /\ target["VERSION"] = build

RunCheck(release, ok) ==
    /\ worker = "check"
    /\ worker' = "ended"
    /\ IF release <= build
         THEN stage' = "UpToDate" /\ UNCHANGED <<latest, installable>>
         ELSE /\ stage' = "Available" /\ latest' = release
              /\ installable' = CanInstallInto(ok)
    /\ UNCHANGED <<diskVars, build, pc, localVars, histVars>>

(* RunDownload: the work folder is removed, which may fail unnoticed; it   *)
(* is there again afterwards, or the worker fails (WorkerFails).           *)
ClearWorkFolder(ok) ==
    /\ worker = "wipe"
    /\ worker' = "fetch"
    /\ IF ok THEN staged' = NoFiles /\ staging' = FALSE /\ archive' = 0
             ELSE UNCHANGED <<staged, staging, archive>>
    /\ UNCHANGED <<target, aside, leftovers, build, snapVars, pc, localVars, histVars>>

(* What arrives is the release asked for, or something else. *)
FetchArchive(content) ==
    /\ worker = "fetch"
    /\ archive' = content
    /\ stage' = "Verifying" /\ worker' = "verify"
    /\ UNCHANGED <<target, aside, staged, staging, leftovers, build, latest,
                   installable, pc, localVars, histVars>>

(* Size and SHA-256 are the ones the release announced. *)
VerifyArchive ==
    /\ worker = "verify" /\ archive = latest
    /\ worker' = "extract"
    /\ UNCHANGED <<diskVars, build, snapVars, pc, localVars, histVars>>

(* ExtractReleaseArchive: not into a folder that exists. *)
ExtractArchive ==
    /\ worker = "extract" /\ ~staging
    /\ staging' = TRUE /\ staged' = [f \in Files |-> archive]
    /\ stage' = "Staged" /\ worker' = "ended"
    /\ UNCHANGED <<target, aside, archive, leftovers, build, latest, installable, pc,
                   localVars, histVars>>

ExtractFails(written) ==
    /\ worker = "extract"
    /\ IF staging THEN UNCHANGED <<staging, staged>>
       ELSE staging' = TRUE /\ staged' = [f \in Files |-> IF f \in written THEN archive ELSE 0]
    /\ Fail /\ worker' = "ended"
    /\ UNCHANGED <<target, aside, archive, leftovers, build, pc, localVars, histVars>>

-----------------------------------------------------------------------------
(* The launcher's window, on the main thread.                              *)

(* StartDownload takes the stage first and joins the last worker after. *)
StartDownload ==
    /\ pc = "ui" /\ installable
    /\ stage = "Available" \/ (stage = "Failed" /\ latest # 0)
    /\ stage' = "Downloading" /\ pc' = "join"
    /\ UNCHANGED <<diskVars, build, latest, installable, worker, localVars, histVars>>

(* Mutant: the last worker is not waited for. *)
JoinWorkerSkipped == UNCHANGED worker

JoinWorker == worker \notin Working /\ worker' = "none"

JoinBeforeDownload ==
    /\ pc = "join" /\ JoinWorker /\ pc' = "spawnDownload"
    /\ UNCHANGED <<diskVars, build, snapVars, localVars, histVars>>

SpawnDownload ==
    /\ pc = "spawnDownload"
    /\ worker' = "wipe" /\ pc' = "ui"
    /\ UNCHANGED <<diskVars, build, snapVars, localVars, histVars>>

(* DrawUpdateNotice: the frame that sees the release staged closes the     *)
(* window for the install.                                                 *)
NoticeStaged ==
    /\ pc = "ui" /\ stage = "Staged"
    /\ pc' = "install"
    /\ UNCHANGED <<diskVars, build, snapVars, worker, localVars, histVars>>

(* The game runs in a process of its own; the launcher waits for it. *)
LaunchGame ==
    /\ pc = "ui" /\ pc' = "game"
    /\ UNCHANGED <<diskVars, build, snapVars, worker, localVars, histVars>>

GameEnds ==
    /\ pc = "game" /\ pc' = "ui"
    /\ UNCHANGED <<diskVars, build, snapVars, worker, localVars, histVars>>

(* The window is closed: the destructor cancels a transfer and waits. *)
CloseLauncher ==
    /\ pc = "ui" /\ pc' = "closing"
    /\ UNCHANGED <<diskVars, build, snapVars, worker, localVars, histVars>>

DestroyUpdater ==
    /\ pc = "closing" /\ JoinWorker
    /\ pc' = "down" /\ build' = 0
    /\ UNCHANGED <<diskVars, snapVars, localVars, histVars>>

-----------------------------------------------------------------------------
(* Install and InstallStagedFiles, a rename or a removal at a time.        *)

BeginInstall ==
    /\ pc = "install" /\ JoinWorker
    /\ stage = "Staged"
    /\ pc' = "clear" /\ todo' = Files /\ steps' = <<>>
    /\ installing' = TRUE /\ before' = target
    /\ UNCHANGED <<diskVars, build, snapVars, cur, faulted>>

(* A leftover in the way of the aside name is removed, if that works. *)
ClearAside(f, ok) ==
    /\ pc = "clear" /\ f \in todo
    /\ aside' = IF ok THEN [aside EXCEPT ![f] = 0] ELSE aside
    /\ cur' = [file |-> f, moved |-> FALSE] /\ todo' = todo \ {f}
    /\ pc' = "move"
    /\ UNCHANGED <<target, staged, staging, archive, leftovers, build, snapVars,
                   worker, steps, histVars>>

(* Mutant: the old file is not kept. *)
MoveAsideDeletes ==
    /\ pc = "move" /\ target[cur.file] # 0
    /\ aside' = aside
    /\ target' = [target EXCEPT ![cur.file] = 0]
    /\ cur' = [cur EXCEPT !.moved = TRUE] /\ pc' = "place"
    /\ UNCHANGED <<staged, staging, archive, leftovers, build, snapVars, worker,
                   todo, steps, histVars>>

MoveAside ==
    /\ pc = "move" /\ target[cur.file] # 0
    /\ aside' = [aside EXCEPT ![cur.file] = target[cur.file]]
    /\ target' = [target EXCEPT ![cur.file] = 0]
    /\ cur' = [cur EXCEPT !.moved = TRUE] /\ pc' = "place"
    /\ UNCHANGED <<staged, staging, archive, leftovers, build, snapVars, worker,
                   todo, steps, histVars>>

(* A target whose existence cannot be asked for counts as absent in the    *)
(* code; here asking does not fail.                                        *)
NothingToMove ==
    /\ pc = "move" /\ target[cur.file] = 0
    /\ pc' = "place"
    /\ UNCHANGED <<diskVars, build, snapVars, worker, localVars, histVars>>

MoveAsideFails ==
    /\ pc = "move" /\ target[cur.file] # 0
    /\ pc' = "backOutNew"
    /\ UNCHANGED <<diskVars, build, snapVars, worker, localVars, histVars>>

Step(placed) == [file |-> cur.file, moved |-> cur.moved, placed |-> placed]

PlaceFile ==
    /\ pc = "place" /\ staged[cur.file] # 0
    /\ target' = [target EXCEPT ![cur.file] = staged[cur.file]]
    /\ staged' = [staged EXCEPT ![cur.file] = 0]
    /\ steps' = Append(steps, Step(TRUE))
    /\ pc' = IF todo = {} THEN "commit" ELSE "clear"
    /\ UNCHANGED <<aside, staging, archive, leftovers, build, snapVars, worker, todo,
                   cur, histVars>>

(* Mutant: the step that failed is not on the list that is backed out. *)
PlaceFailsUnlisted ==
    /\ pc = "place"
    /\ steps' = steps
    /\ pc' = "backOutNew"
    /\ UNCHANGED <<diskVars, build, snapVars, worker, todo, cur, histVars>>

PlaceFails ==
    /\ pc = "place"
    /\ steps' = Append(steps, Step(FALSE))
    /\ pc' = "backOutNew"
    /\ UNCHANGED <<diskVars, build, snapVars, worker, todo, cur, histVars>>

(* The new file of the last step goes back to staging. *)
BackOutNew(ok) ==
    /\ pc = "backOutNew" /\ steps # <<>>
    /\ LET f == Last(steps).file IN
         IF Last(steps).placed /\ ok
           THEN /\ staged' = [staged EXCEPT ![f] = target[f]]
                /\ target' = [target EXCEPT ![f] = 0]
           ELSE UNCHANGED <<staged, target>>
    /\ faulted' = (faulted \/ (Last(steps).placed /\ ~ok))
    /\ pc' = "backOutOld"
    /\ UNCHANGED <<aside, staging, archive, leftovers, build, snapVars, worker,
                   localVars, installing, before>>

(* And the old one back to its name. *)
BackOutOld(ok) ==
    /\ pc = "backOutOld"
    /\ LET f == Last(steps).file IN
         IF Last(steps).moved /\ ok
           THEN /\ target' = [target EXCEPT ![f] = aside[f]]
                /\ aside' = [aside EXCEPT ![f] = 0]
           ELSE UNCHANGED <<aside, target>>
    /\ faulted' = (faulted \/ (Last(steps).moved /\ ~ok))
    /\ steps' = Front(steps)
    /\ pc' = "backOutNew"
    /\ UNCHANGED <<staged, staging, archive, leftovers, build, snapVars, worker,
                   todo, cur, installing, before>>

(* The locals are gone. *)
Returns == todo' = {} /\ cur' = NoFile /\ steps' = <<>>
InstallReturns == Returns /\ installing' = FALSE /\ before' = NoFiles

(* Mutant: the stage is left as it is. *)
InstallFailsStaged ==
    /\ pc = "backOutNew" /\ steps = <<>>
    /\ UNCHANGED snapVars /\ pc' = "ui" /\ InstallReturns
    /\ UNCHANGED <<diskVars, build, worker, faulted>>

(* Backed out: the launcher opens again and offers a retry. *)
InstallFails ==
    /\ pc = "backOutNew" /\ steps = <<>>
    /\ Fail /\ pc' = "ui" /\ InstallReturns
    /\ UNCHANGED <<diskVars, build, worker, faulted>>

MovedFiles == {steps[i].file : i \in {j \in DOMAIN steps : steps[j].moved}}

(* The asides are listed; the staging folder, empty by now, is removed if  *)
(* that works.                                                             *)
ListAsides ==
    /\ pc = "commit"
    /\ WriteLeftovers(leftovers \cup MovedFiles)
    /\ staging' \in {FALSE, staging}
    /\ pc' = "wipeWork" /\ InstallReturns
    /\ UNCHANGED <<target, aside, staged, archive, build, snapVars, worker, faulted>>

RemoveWorkFolder(ok) ==
    /\ pc = "wipeWork"
    /\ pc' = "restart"
    /\ IF ok THEN staged' = NoFiles /\ staging' = FALSE /\ archive' = 0
             ELSE UNCHANGED <<staged, staging, archive>>
    /\ UNCHANGED <<target, aside, leftovers, build, snapVars, worker, localVars, histVars>>

(* RestartLauncherAfterUpdate. *)
Restart == pc = "restart" /\ NewProcess

RestartFails ==
    /\ pc = "restart" /\ pc' = "down" /\ build' = 0
    /\ UNCHANGED <<diskVars, snapVars, worker, localVars, histVars>>

(* The process dies, both threads with it. *)
Crash ==
    /\ pc # "down" /\ pc' = "down"
    /\ stage' = "Idle" /\ latest' = 0 /\ installable' = FALSE
    /\ build' = 0 /\ worker' = "none" /\ Returns
    /\ faulted' = (faulted \/ installing)
    /\ UNCHANGED <<diskVars, installing, before>>

-----------------------------------------------------------------------------
Worker ==
    \/ \E step \in Working \ {"extract"} : WorkerFails(step)
    \/ \E release \in Versions, ok \in BOOLEAN : RunCheck(release, ok)
    \/ \E ok \in BOOLEAN : ClearWorkFolder(ok)
    \/ \E content \in {latest, Corrupt} : FetchArchive(content)
    \/ VerifyArchive \/ ExtractArchive
    \/ \E written \in SUBSET Files : ExtractFails(written)

Session ==
    \/ \E f \in Files, ok \in BOOLEAN : RemoveLeftover(f, ok)
    \/ LeftoversVisited \/ ListRemaining
    \/ \E on \in BOOLEAN : CreateUpdater(on)
    \/ StartCheck \/ JoinBeforeDownload \/ SpawnDownload \/ NoticeStaged \/ DestroyUpdater

Installer ==
    \/ BeginInstall
    \/ \E f \in Files, ok \in BOOLEAN : ClearAside(f, ok)
    \/ MoveAside \/ NothingToMove \/ MoveAsideFails \/ PlaceFile \/ PlaceFails
    \/ \E ok \in BOOLEAN : BackOutNew(ok) \/ BackOutOld(ok)
    \/ InstallFails \/ ListAsides
    \/ \E ok \in BOOLEAN : RemoveWorkFolder(ok)
    \/ Restart \/ RestartFails

User == Start \/ StartDownload \/ LaunchGame \/ GameEnds \/ CloseLauncher

Next == Worker \/ Session \/ Installer \/ User \/ Crash

Spec == Init /\ [][Next]_vars

(* Both threads run: a transfer ends by its time limit (20 and 900         *)
(* seconds), the window draws its frames.  Nothing is assumed of the user, *)
(* who may leave a game running, and of the disk, which may always fail.   *)
FairSpec ==
    /\ Spec
    /\ WF_vars(Worker) /\ WF_vars(Installer) /\ WF_vars(Session)

-----------------------------------------------------------------------------
(* Properties. *)

(* The files, the snapshot and the threads stay well formed. *)
TypeOK ==
    /\ target \in [Files -> Contents] /\ aside \in [Files -> Contents]
    /\ staged \in [Files -> Contents] /\ before \in [Files -> Contents]
    /\ archive \in Contents /\ leftovers \in SUBSET Files
    /\ build \in Contents /\ latest \in 0..MaxVersion
    /\ staging \in BOOLEAN /\ installable \in BOOLEAN
    /\ installing \in BOOLEAN /\ faulted \in BOOLEAN
    /\ stage \in Stages /\ worker \in Working \cup {"none", "ended"} /\ pc \in MainSteps
    /\ todo \in SUBSET Files /\ cur \in [file : Files, moved : BOOLEAN]
    /\ steps \in Seq([file : Files, moved : BOOLEAN, placed : BOOLEAN])

(* From the start of an install to its return, and at a crash in between   *)
(* until the next start, each file's old content is under its name or the  *)
(* aside name, whichever operations failed: the user can put it back by    *)
(* hand (InstallStagedFiles).                                              *)
OldFilesKept ==
    installing => \A f \in Files : before[f] \in {0, target[f], aside[f]}

(* What a launcher session finds in the install folder. *)
Found == IF installing THEN before ELSE target

(* The install changes for a session only as a whole, to a release newer   *)
(* than the running build whose digest was right; an install that fails    *)
(* leaves it as it was.  Excepted are installs cut off by a crash and      *)
(* failed renames of the back-out itself (InstallStagedFiles,              *)
(* RunDownload).                                                           *)
AllOrNothing ==
    [][Found' # Found /\ ~faulted' =>
          latest > build /\ Found' = [f \in Files |-> latest]]_vars

(* A thread is never started over one that is not joined, which would end  *)
(* the process, and no worker touches the work folder during an install    *)
(* (StartCheck, StartDownload, Install).                                   *)
WorkerJoined ==
    /\ pc \in {"spawnCheck", "spawnDownload"} => worker = "none"
    /\ installing /\ pc # "down" => worker = "none"

(* What is under way ends: a check, a download, an install and a close     *)
(* come to their result, unless the user plays (LauncherUpdater).          *)
UpdateSettles ==
    /\ stage \in Busy ~> stage \notin Busy \/ pc \in {"down", "game"}
    /\ pc = "closing" ~> pc = "down"

=============================================================================
